---------------------------- MODULE LinkedProofs ----------------------------
(***************************************************************************)
(* Theorems about LinkedChannel: channels that come and go with the links  *)
(* of identities, for any clients, addresses, identities, rings, windows   *)
(* and numbers of messages within ShortTraffic.                            *)
(***************************************************************************)
EXTENDS LinkedChannel, IdentityProofs, ChannelLemmas

-----------------------------------------------------------------------------
(***************************************************************************)
(* A sequence of whatever elements.                                        *)
(***************************************************************************)
IsList(f) == f \in Seq({f[k] : k \in DOMAIN f})

LEMMA ListFacts ==
  ASSUME NEW f, IsList(f)
  PROVE  Len(f) \in Nat /\ DOMAIN f = 1 .. Len(f)
BY DEF IsList

LEMMA ListOf ==
  ASSUME NEW n \in Nat, NEW f, DOMAIN f = 1 .. n, f = [k \in 1 .. n |-> f[k]]
  PROVE  IsList(f) /\ Len(f) = n
<1> DEFINE R == {f[k] : k \in DOMAIN f}
<1>1. f \in [1 .. n -> R]
  <2>1. \A k \in 1 .. n : f[k] \in R
    OBVIOUS
  <2> HIDE DEF R
  <2>2. [k \in 1 .. n |-> f[k]] \in [1 .. n -> R]
    BY <2>1
  <2> QED
    BY <2>2
<1> HIDE DEF R
<1>2. f \in Seq(R)
  BY <1>1
<1>3. Len(f) = n
  BY <1>1
<1> QED
  BY <1>2, <1>3 DEF IsList, R

LEMMA ListExcept ==
  ASSUME NEW f, IsList(f), NEW j, NEW x
  PROVE  LET g == [f EXCEPT ![j] = x]
         IN  /\ IsList(g) /\ Len(g) = Len(f)
             /\ j \in DOMAIN f => g[j] = x
             /\ \A k \in DOMAIN f : k # j => g[k] = f[k]
<1> DEFINE g == [f EXCEPT ![j] = x]
           n == Len(f)
<1>1. n \in Nat /\ DOMAIN f = 1 .. n
  BY ListFacts
<1>2. DOMAIN g = 1 .. n /\ g = [k \in 1 .. n |-> g[k]]
  BY <1>1
<1>3. /\ j \in DOMAIN f => g[j] = x
      /\ \A k \in DOMAIN f : k # j => g[k] = f[k]
  OBVIOUS
<1> HIDE DEF n, g
<1>4. IsList(g) /\ Len(g) = n
  BY <1>1, <1>2, ListOf
<1> QED
  BY <1>3, <1>4 DEF g, n

LEMMA ListAppend ==
  ASSUME NEW f, IsList(f), NEW x
  PROVE  LET g == Append(f, x)
         IN  /\ IsList(g) /\ Len(g) = Len(f) + 1
             /\ g[Len(f) + 1] = x
             /\ \A k \in DOMAIN f : g[k] = f[k]
<1> DEFINE g == Append(f, x)
           n == Len(f)
           R == {f[k] : k \in DOMAIN f} \cup {x}
<1>1. n \in Nat /\ DOMAIN f = 1 .. n
  BY ListFacts
<1>2. f \in Seq(R)
  <2> DEFINE T == {f[k] : k \in DOMAIN f}
  <2>1. f \in Seq(T)
    BY DEF IsList
  <2> HIDE DEF T
  <2>2. \A k \in 1 .. n : f[k] \in T \cup {x}
    BY <1>1, <2>1
  <2>3. f \in Seq(T \cup {x})
    BY <1>1, <2>1, <2>2
  <2> QED
    BY <2>3 DEF T
<1>3. x \in R
  OBVIOUS
<1> HIDE DEF R
<1>4. g \in Seq(R) /\ Len(g) = n + 1 /\ g[n + 1] = x /\ \A k \in 1 .. n : g[k] = f[k]
  BY <1>1, <1>2, <1>3
<1> HIDE DEF g
<1>5. DOMAIN g = 1 .. n + 1 /\ g = [k \in 1 .. n + 1 |-> g[k]]
  BY <1>4
<1> HIDE DEF n
<1>6. n + 1 \in Nat
  BY <1>1
<1>7. IsList(g)
  BY <1>5, <1>6, ListOf
<1> QED
  BY <1>1, <1>4, <1>7 DEF g, n

-----------------------------------------------------------------------------
(***************************************************************************)
(* The shape of the state: a server channel where the tables say so, the   *)
(* channels of two addresses with lives of their own, and a record of what *)
(* came over each.                                                         *)
(***************************************************************************)
ChannelsOK ==
  /\ DOMAIN client_channel = Clients /\ DOMAIN client_got = Clients
  /\ DOMAIN server_channel = {a \in Addresses : channels[a] # 0}
  /\ server_sent \in 0 .. MaxServerSend
  /\ established \subseteq Identities

LivesOK ==
  /\ IsList(server_got)
  /\ DOMAIN life = Addresses
  /\ \A a \in DOMAIN server_channel : life[a] \in 1 .. lives
  /\ \A a, b \in DOMAIN server_channel : life[a] = life[b] => a = b

ShapeOK == IInv /\ ChannelsOK /\ LivesOK

\* A step of Identity makes channels at one address at most.
LEMMA MadeOne ==
  ASSUME IInv, Next, NEW a \in Made, NEW b \in Made
  PROVE  a = b
<1>1. /\ a \in Addresses /\ b \in Addresses
      /\ channels[a] = 0 /\ channels'[a] # 0 /\ channels[b] = 0 /\ channels'[b] # 0
  BY DEF Made
<1>2. TypeOK
  BY DEF IInv
<1>3. \A id \in Ids, c \in Addresses :
        channels[c] = 0 => remove_connection_by_identity(id).channels[c] = 0
  BY <1>2, RemoveFacts
<1>4. ASSUME NEW id \in Ids, NEW s, SetIdentity(id, s) PROVE FALSE
  BY <1>1, <1>3, <1>4 DEF SetIdentity
<1>5. ASSUME NEW m \in net, NEW left, ServerHandles(m, left) PROVE a = b
  <2>1. m.address \in Addresses
    BY <1>2, PacketFacts DEF TypeOK
  <2>2. m.type \in {"LINK_IDENTITY", "UNLINK_IDENTITY"}
    BY <1>5 DEF ServerHandles
  <2>3. m.identity.id \in Ids
    BY <1>2, <2>2, PacketFacts, NoIdentityFacts DEF TypeOK
  <2> DEFINE rest == remove_connection_by_identity(m.identity.id)
  <2>4. rest.channels \in [Addresses -> Ids \cup {0}]
    BY <1>2, <2>3, RemoveFacts
  <2>5. rest.channels[a] = 0 /\ rest.channels[b] = 0
    BY <1>1, <1>3, <2>3
  <2>6. \/ channels' = channels
        \/ channels' = rest.channels
        \/ channels' = [rest.channels EXCEPT
                          ![m.address] = IF @ = 0 THEN m.identity.id ELSE @]
    BY <1>5 DEF ServerHandles, try_link_identity, try_unlink_identity, server
  <2> HIDE DEF rest
  <2> QED
    BY <1>1, <2>1, <2>4, <2>5, <2>6
<1>6. CASE channels' = channels
  BY <1>1, <1>6
<1>7. ASSUME NEW m \in net, Receive(m) \/ ReceiveCopy(m) \/ Lose(m) PROVE a = b
  <2>1. \/ \E left : ServerHandles(m, left)
        \/ channels' = channels
    BY <1>7 DEF Receive, ReceiveCopy, Lose, ClientHandles, server
  <2> QED
    BY <1>5, <1>6, <2>1
<1>8. ASSUME NEW c \in Clients,
             \/ ClientUpdate(c) \/ SendUnlink(c)
             \/ \E identity \in Identities : SetOwnIdentity(c, identity)
             \/ \E d \in Addresses : ChangeAddress(c, d)
      PROVE  a = b
  <2>1. channels' = channels
    BY <1>8 DEF ClientUpdate, SendUnlink, SetOwnIdentity, ChangeAddress, server
  <2> QED
    BY <1>6, <2>1
<1> QED
  BY <1>4, <1>7, <1>8 DEF Next

(***************************************************************************)
(* A step of Identity: what it leaves of the channels.                     *)
(***************************************************************************)
LEMMA IdentityStepShape ==
  ASSUME ShapeOK, IdentityStep
  PROVE  /\ ShapeOK'
         /\ \A a \in DOMAIN server_channel' :
              \/ /\ a \in DOMAIN server_channel
                 /\ server_channel'[a] = server_channel[a]
                 /\ life'[a] = life[a] /\ life[a] \in 1 .. lives
                 /\ server_got'[life'[a]] = server_got[life[a]]
              \/ /\ server_channel'[a] = create_channel(Ordered)
                 /\ server_got'[life'[a]] = << >>
                 /\ lives' = lives + 1
         /\ \A k \in 1 .. lives' : \/ k \in 1 .. lives /\ server_got'[k] = server_got[k]
                                   \/ server_got'[k] = << >>
         /\ lives \in Nat /\ lives' \in {lives, lives + 1}
<1>1. IInv /\ IInv' /\ Next
  BY NextIInv DEF ShapeOK, IdentityStep
<1>2. lives \in Nat /\ DOMAIN server_got = 1 .. lives /\ IsList(server_got)
  BY ListFacts DEF ShapeOK, LivesOK, lives
<1>3. /\ DOMAIN server_channel' = Made \cup Kept
      /\ \A a \in Made : server_channel'[a] = create_channel(Ordered)
      /\ \A a \in Kept : a \notin Made /\ server_channel'[a] = server_channel[a]
  BY DEF IdentityStep, configured_channels, Made, Kept
<1>4. DOMAIN server_channel' = {a \in Addresses : channels'[a] # 0}
  BY <1>3 DEF Made, Kept
<1>5. /\ DOMAIN life' = Addresses
      /\ \A a \in Made : life'[a] = lives + 1
      /\ \A a \in Kept : life'[a] = life[a] /\ a \in DOMAIN server_channel
  BY <1>3 DEF IdentityStep, Made, Kept, ShapeOK, ChannelsOK
<1>6. \A a \in Kept : life[a] \in 1 .. lives
  BY <1>5 DEF ShapeOK, LivesOK
<1>7. \A a, b \in Kept : life[a] = life[b] => a = b
  BY <1>5 DEF ShapeOK, LivesOK
<1>8. established' \subseteq Identities
  <2>1. \A a \in Addresses : connections'[a] \in Identities \cup {NoIdentity}
    BY <1>1 DEF IInv, TypeOK
  <2> QED
    BY <2>1 DEF IdentityStep, ShapeOK, ChannelsOK
<1>9. ChannelsOK'
  BY <1>4, <1>8 DEF IdentityStep, ShapeOK, ChannelsOK
<1>10. CASE Made = {}
  <2>1. server_got' = server_got /\ lives' = lives
    BY <1>10 DEF IdentityStep, lives
  <2>2. DOMAIN server_channel' = Kept
    BY <1>3, <1>10
  <2>3. LivesOK'
    BY <1>2, <1>5, <1>6, <1>7, <2>1, <2>2 DEF LivesOK
  <2> QED
    BY <1>1, <1>2, <1>3, <1>5, <1>6, <1>9, <2>1, <2>2, <2>3 DEF ShapeOK
<1>11. CASE Made # {}
  <2> DEFINE g == Append(server_got, << >>)
             n == lives
  <2>1. server_got' = g /\ lives' = Len(g)
    BY <1>11 DEF IdentityStep, lives
  <2>2. /\ IsList(g) /\ Len(g) = n + 1
        /\ g[n + 1] = << >>
        /\ \A k \in DOMAIN server_got : g[k] = server_got[k]
    BY <1>2, ListAppend DEF lives
  <2> HIDE DEF g
  <2>3. \A a, b \in Made : a = b
    BY <1>1, MadeOne
  <2>4. n \in Nat /\ lives' = n + 1
    BY <1>2, <2>1, <2>2
  <2>5. \A a \in Kept : life'[a] \in 1 .. n
    BY <1>5, <1>6
  <2>6. \A a \in Made : life'[a] = n + 1
    BY <1>5
  <2>7. LivesOK'
    <3>1. \A a \in DOMAIN server_channel' : life'[a] \in 1 .. n + 1
      BY <1>3, <2>4, <2>5, <2>6
    <3>2. ASSUME NEW a \in DOMAIN server_channel', NEW b \in DOMAIN server_channel',
                 life'[a] = life'[b]
          PROVE  a = b
      <4> HIDE DEF n
      <4>1. CASE a \in Made /\ b \in Made
        BY <2>3, <4>1
      <4>2. CASE a \in Kept /\ b \in Kept
        BY <1>5, <1>7, <3>2, <4>2
      <4>3. CASE a \in Made /\ b \in Kept
        BY <2>4, <2>5, <2>6, <3>2, <4>3
      <4>4. CASE a \in Kept /\ b \in Made
        BY <2>4, <2>5, <2>6, <3>2, <4>4
      <4> QED
        BY <1>3, <4>1, <4>2, <4>3, <4>4
    <3> QED
      BY <1>5, <2>1, <2>2, <2>4, <3>1, <3>2 DEF LivesOK
  <2>8. \A k \in 1 .. n + 1 : \/ k \in 1 .. n /\ server_got'[k] = server_got[k]
                              \/ server_got'[k] = << >>
    BY <1>2, <2>1, <2>2, <2>4
  <2>9. \A a \in Kept : server_got'[life'[a]] = server_got[life[a]]
    BY <1>2, <1>5, <1>6, <2>1, <2>2
  <2>10. \A a \in Made : server_got'[life'[a]] = << >>
    BY <2>1, <2>2, <2>6
  <2> HIDE DEF n
  <2> QED
    BY <1>1, <1>3, <1>5, <1>6, <1>9, <2>4, <2>7, <2>8, <2>9, <2>10 DEF ShapeOK, n
<1> QED
  BY <1>10, <1>11

(***************************************************************************)
(* Every other step leaves the tables and the lives alone.                 *)
(***************************************************************************)
LEMMA SameShape ==
  ASSUME ShapeOK, UNCHANGED <<vars, lifes>>,
         DOMAIN client_channel' = Clients, DOMAIN client_got' = Clients,
         DOMAIN server_channel' = DOMAIN server_channel,
         server_sent' \in 0 .. MaxServerSend,
         IsList(server_got'), Len(server_got') = Len(server_got)
  PROVE  ShapeOK'
<1>1. /\ channels' = channels /\ life' = life /\ established' = established
      /\ UNCHANGED vars
  BY DEF vars, server, lifes
<1>2. IInv'
  BY <1>1, NextIInv DEF ShapeOK
<1>3. ChannelsOK'
  BY <1>1 DEF ShapeOK, ChannelsOK
<1>4. LivesOK'
  BY <1>1 DEF ShapeOK, LivesOK, lives
<1> QED
  BY <1>2, <1>3, <1>4 DEF ShapeOK

LEMMA NextShape ==
  ASSUME ShapeOK, [LinkedNext]_linkedVars
  PROVE  ShapeOK'
<1>1. /\ DOMAIN client_channel = Clients /\ DOMAIN client_got = Clients
      /\ server_sent \in 0 .. MaxServerSend /\ MaxServerSend \in Nat
      /\ IsList(server_got)
  BY LinkedAssumption DEF ShapeOK, ChannelsOK, LivesOK
<1>2. \A j, x : LET g == [server_got EXCEPT ![j] = x]
                IN  IsList(g) /\ Len(g) = Len(server_got)
  BY <1>1, ListExcept
<1>3. CASE IdentityStep
  BY <1>3, IdentityStepShape
<1>4. ASSUME NEW c \in Clients, ClientSend(c) \/ ClientFrame(c) \/ Drain(c)
      PROVE  ShapeOK'
  <2>1. /\ UNCHANGED <<vars, lifes>> /\ server_channel' = server_channel
        /\ server_sent' = server_sent /\ server_got' = server_got
        /\ DOMAIN client_channel' = Clients /\ DOMAIN client_got' = Clients
    BY <1>1, <1>4 DEF ClientSend, ClientFrame, Drain, got, lifes
  <2> QED
    BY <1>1, <2>1, SameShape
<1>5. ASSUME NEW a \in Addresses, ServerSend(a) PROVE ShapeOK'
  <2>1. /\ UNCHANGED <<vars, lifes>>
        /\ DOMAIN server_channel' = DOMAIN server_channel
        /\ client_channel' = client_channel /\ client_got' = client_got
        /\ server_got' = server_got
        /\ server_sent < MaxServerSend /\ server_sent' = server_sent + 1
    BY <1>5 DEF ServerSend, got, lifes
  <2>2. server_sent' \in 0 .. MaxServerSend
    BY <1>1, <2>1
  <2> QED
    BY <1>1, <2>1, <2>2, SameShape
<1>6. ASSUME NEW a \in Addresses, ServerDrain(a) PROVE ShapeOK'
  <2>1. /\ UNCHANGED <<vars, lifes>>
        /\ DOMAIN server_channel' = DOMAIN server_channel
        /\ client_channel' = client_channel /\ client_got' = client_got
        /\ server_sent' = server_sent
        /\ \E j, x : server_got' = [server_got EXCEPT ![j] = x]
    BY <1>6 DEF ServerDrain, lifes
  <2>2. IsList(server_got') /\ Len(server_got') = Len(server_got)
    <3>1. PICK j, x : server_got' = [server_got EXCEPT ![j] = x]
      BY <2>1
    <3> QED
      BY <1>2, <3>1
  <2> QED
    BY <1>1, <2>1, <2>2, SameShape
<1>7. CASE ServerFrame
  <2>1. /\ UNCHANGED <<vars, lifes>>
        /\ DOMAIN server_channel' = DOMAIN server_channel
        /\ client_channel' = client_channel /\ client_got' = client_got
        /\ server_sent' = server_sent /\ server_got' = server_got
    BY <1>7 DEF ServerFrame, lifes, got
  <2> QED
    BY <1>1, <2>1, SameShape
<1>8. ASSUME NEW m \in wire, ServerReceive(m) PROVE ShapeOK'
  <2>1. /\ UNCHANGED <<vars, lifes>>
        /\ client_channel' = client_channel /\ client_got' = client_got
        /\ server_sent' = server_sent
    BY <1>8 DEF ServerReceive, lifes
  <2>2. DOMAIN server_channel' = DOMAIN server_channel
    BY <1>8 DEF ServerReceive
  <2>3. \/ server_got' = server_got
        \/ \E j, x : server_got' = [server_got EXCEPT ![j] = x]
    BY <1>8 DEF ServerReceive
  <2>4. IsList(server_got') /\ Len(server_got') = Len(server_got)
    <3>1. ASSUME NEW j, NEW x, server_got' = [server_got EXCEPT ![j] = x]
          PROVE  IsList(server_got') /\ Len(server_got') = Len(server_got)
      BY <1>2, <3>1
    <3> QED
      BY <1>1, <2>3, <3>1
  <2> QED
    BY <1>1, <2>1, <2>2, <2>4, SameShape
<1>9. ASSUME NEW m \in wire, ClientReceive(m) PROVE ShapeOK'
  <2>1. /\ UNCHANGED <<vars, lifes>> /\ server_channel' = server_channel
        /\ server_sent' = server_sent /\ server_got' = server_got
        /\ DOMAIN client_channel' = Clients /\ DOMAIN client_got' = Clients
    BY <1>9 DEF ClientReceive, lifes
  <2> QED
    BY <1>1, <2>1, SameShape
<1>10. CASE UNCHANGED linkedVars
  <2>1. /\ UNCHANGED <<vars, lifes>> /\ server_channel' = server_channel
        /\ server_sent' = server_sent /\ server_got' = server_got
        /\ client_channel' = client_channel /\ client_got' = client_got
    BY <1>10 DEF linkedVars, ends, got
  <2> QED
    BY <1>1, <2>1, SameShape
<1> QED
  BY <1>3, <1>4, <1>5, <1>6, <1>7, <1>8, <1>9, <1>10 DEF LinkedNext

LEMMA InitShape == LinkedInit => ShapeOK
<1> SUFFICES ASSUME LinkedInit PROVE ShapeOK
  OBVIOUS
<1>1. IInv
  BY InitIInv DEF LinkedInit
<1>2. ChannelsOK
  <2>1. \A a \in Addresses : channels[a] = 0
    BY DEF LinkedInit, Init
  <2>2. DOMAIN server_channel = {}
    BY DEF LinkedInit
  <2> QED
    BY <2>1, <2>2, LinkedAssumption DEF LinkedInit, ChannelsOK
<1>3. LivesOK
  BY DEF LinkedInit, LivesOK, IsList
<1> QED
  BY <1>1, <1>2, <1>3 DEF ShapeOK

LEMMA AlwaysShape == LinkedSpec => []ShapeOK
<1>1. ShapeOK /\ [LinkedNext]_linkedVars => ShapeOK'
  BY NextShape
<1> QED
  BY <1>1, InitShape, PTL DEF LinkedSpec

(***************************************************************************)
(* The server has a channel exactly where the tables of identities say     *)
(* there is one, whatever is linked, relinked and dropped, and each one    *)
(* has a record of its own of what came over it.                           *)
(***************************************************************************)
THEOREM LinkedTypeCorrect == LinkedSpec => []LinkedTypeOK
<1>1. ShapeOK => LinkedTypeOK
  BY DEF ShapeOK, ChannelsOK, LivesOK, IInv, LinkedTypeOK
<1> QED
  BY <1>1, AlwaysShape, PTL

-----------------------------------------------------------------------------
(***************************************************************************)
(* The rest holds for no more messages than the rings can keep apart, as   *)
(* for one channel (ChannelProofs).                                        *)
(***************************************************************************)
ShortTraffic ==
  /\ MaxClientSend <= Farthest /\ MaxClientSend <= Latest
  /\ MaxClientSend < SEND_BUFFER_SIZE
  /\ MaxServerSend <= Farthest /\ MaxServerSend <= Latest
  /\ MaxServerSend < SEND_BUFFER_SIZE

OneClient == \A c, d \in Clients : c = d

WithinWindow == MaxClientSend <= receive_window_size

(***************************************************************************)
(* The packets of the server.  F has the sequence of each message it sent, *)
(* by the channel that carried it: two messages can have the same, but a   *)
(* body never comes with another sequence than its own.  A sequence that a *)
(* new channel did not send yet is answered with a NONE.                   *)
(***************************************************************************)
Cargo(F) == {p \in Written : p.body \in DOMAIN F /\ F[p.body] = p.sequence}

FromServer(F) == Cargo(F) \cup Nones

(***************************************************************************)
(* The packets of a client.  With one client, no server channel has more   *)
(* than that client sent, and it asks for no more.                         *)
(***************************************************************************)
FromClient == IF OneClient THEN Message ELSE Message \cup Nones

LEMMA CargoFacts ==
  ASSUME NEW F
  PROVE  /\ Resendable(Cargo(F))
         /\ FromServer(F) \in SUBSET (Written \cup Nones)
         /\ Numbers(FromServer(F))
<1>1. Cargo(F) \subseteq Written
  BY DEF Cargo
<1>2. FromServer(F) \in SUBSET (Written \cup Nones)
  BY <1>1 DEF FromServer
<1>3. ASSUME NEW p \in Cargo(F)
      PROVE  Packet(RELIABLE, p.sequence, p.body, TRUE, {}) \in Cargo(F)
  <2>1. p \in Written /\ p.body \in DOMAIN F /\ F[p.body] = p.sequence
    BY DEF Cargo
  <2>2. p.sequence \in SeqNo /\ p.sequence # 0 /\ p.body \in Nat \cup {None}
    BY <2>1 DEF Written, ChannelPackets
  <2>3. Packet(RELIABLE, p.sequence, p.body, TRUE, {}) \in Written
    BY <2>2 DEF Packet, Written, ChannelPackets
  <2> QED
    BY <2>1, <2>3 DEF Cargo, Packet
<1> QED
  BY <1>1, <1>2, <1>3, CarriedNumbers DEF Resendable

LEMMA ClientFacts ==
  /\ FromClient \in SUBSET (Written \cup Nones) /\ Numbers(FromClient)
  /\ Message \subseteq FromClient
  /\ OneClient => FromClient = Message /\ \A p \in FromClient : p.type # NONE
  /\ ~ OneClient => FromClient = Message \cup Nones
<1>1. \A p \in Message : p.type # NONE
  BY MessageType DEF RELIABLE, RELIABLE_WITH_NACK, NONE
<1>2. FromClient \in SUBSET (Written \cup Nones)
  BY DEF FromClient, Message
<1>3. Numbers(FromClient)
  BY <1>2, CarriedNumbers
<1> QED
  BY <1>1, <1>2, <1>3 DEF FromClient

\* E has what F has, and the sequence of one more message maybe.
Extends(E, F) == \A b \in DOMAIN F : b \in DOMAIN E /\ E[b] = F[b]

LEMMA CargoMore ==
  ASSUME NEW E, NEW F, Extends(E, F)
  PROVE  Cargo(F) \subseteq Cargo(E) /\ FromServer(F) \subseteq FromServer(E)
BY DEF Extends, Cargo, FromServer

(***************************************************************************)
(* What a client was given, with G the sequences its receiver handed out,  *)
(* the NONEs among them.                                                   *)
(***************************************************************************)
OnceIn(F, given, G) ==
  /\ given \in Seq(DOMAIN F)
  /\ \A i \in DOMAIN given : F[given[i]] \in Listed(G)
  /\ \A i, j \in DOMAIN given : given[i] = given[j] => i = j

(***************************************************************************)
(* A client's channel and a server's, when the clients have sent S and the *)
(* server N messages, with what was got over it; and a packet in flight.   *)
(***************************************************************************)
ClientOK(F, S, N, ch, given) ==
  /\ HalfOK(Message, ch, MaxClientSend, S)
  /\ \E G : GaveOK(FromServer(F), ch.receiver, G, N) /\ OnceIn(F, given, G)

\* With one client, what is handed out is what is given: there are no NONEs.
AllOf(G, given) == OneClient => G = given

Unskipped(r) == r.skipped_sequences = 0 /\ r.is_ordered = Ordered

ServerOK(F, S, N, ch, given) ==
  /\ HalfOK(Cargo(F), ch, N, N)
  /\ \E G : GaveOK(FromClient, ch.receiver, G, S) /\ AllOf(G, given)
  /\ OneClient /\ WithinWindow => Unskipped(ch.receiver)

WireOK(F, S, N, m) ==
  /\ m.address \in Addresses
  /\ m.to = "client" => PacketOf(FromServer(F), m.packet, S, N)
  /\ m.to = "server" => PacketOf(FromClient, m.packet, N, S)

-----------------------------------------------------------------------------
(***************************************************************************)
(* What is handed on reaches the application.                              *)
(***************************************************************************)
LEMMA BodyOf ==
  /\ BodiesOf(<< >>) = << >> /\ NumbersOf(<< >>) = << >>
  /\ \A p : /\ BodiesOf(<< p >>) = << p.body >>
            /\ NumbersOf(<< p >>) = << p.sequence >>
<1>1. BodiesOf(<< >>) = << >> /\ NumbersOf(<< >>) = << >>
  BY DEF BodiesOf, NumbersOf
<1>2. ASSUME NEW p
      PROVE  /\ BodiesOf(<< p >>) = << p.body >>
             /\ NumbersOf(<< p >>) = << p.sequence >>
  <2>1. DOMAIN << p >> = 1 .. 1 /\ << p >>[1] = p
    OBVIOUS
  <2>2. /\ << p.body >> = [i \in 1 .. 1 |-> p.body]
        /\ << p.sequence >> = [i \in 1 .. 1 |-> p.sequence]
    OBVIOUS
  <2> QED
    BY <2>1, <2>2 DEF BodiesOf, NumbersOf
<1> QED
  BY <1>1, <1>2

\* One more, with a number of its own.
LEMMA OnceMore ==
  ASSUME NEW F, NEW given, NEW G \in Seq(Nat), OnceIn(F, given, G),
         NEW skip \in Seq(Nat), NEW b \in DOMAIN F, F[b] \in Nat, NEW o,
         Ranked(o, (G \o skip) \o << F[b] >>)
  PROVE  OnceIn(F, given \o << b >>, (G \o skip) \o << F[b] >>)
<1> DEFINE a == G \o skip
           s == F[b]
           H == a \o << s >>
           g == given \o << b >>
           n == Len(given)
           l == Len(a)
<1>1. a \in Seq(Nat) /\ s \in Nat /\ Listed(a) = Listed(G) \cup Listed(skip)
  BY ListedJoin
<1>2. given \in Seq(DOMAIN F) /\ n \in Nat /\ DOMAIN given = 1 .. n
  BY DEF OnceIn
<1>3. Ranked(o, H)
  OBVIOUS
<1>4. /\ g \in Seq(DOMAIN F) /\ DOMAIN g = 1 .. n + 1 /\ g[n + 1] = b
      /\ \A i \in 1 .. n : g[i] = given[i]
  BY <1>2
<1> HIDE DEF a, s, g
<1>5. /\ H \in Seq(Nat) /\ l \in Nat /\ DOMAIN H = 1 .. l + 1 /\ H[l + 1] = s
      /\ DOMAIN a = 1 .. l /\ \A i \in 1 .. l : H[i] = a[i]
  BY <1>1
<1> HIDE DEF H, n, l
<1>6. \A i \in 1 .. l : a[i] # s
  <2> SUFFICES ASSUME NEW i \in 1 .. l PROVE a[i] # s
    OBVIOUS
  <2>1. /\ i \in DOMAIN H /\ l + 1 \in DOMAIN H /\ i < l + 1 /\ H[i] \in Nat
    BY <1>5
  <2>2. IF o THEN H[i] < H[l + 1] ELSE H[i] # H[l + 1]
    BY <1>3, <2>1 DEF Ranked
  <2> QED
    BY <1>1, <1>5, <2>1, <2>2
<1>7. s \notin Listed(a)
  BY <1>5, <1>6 DEF Listed
<1>8. Listed(a) \subseteq Listed(H) /\ s \in Listed(H)
  <2>1. l + 1 \in DOMAIN H /\ \A i \in DOMAIN a : i \in DOMAIN H
    BY <1>5
  <2> QED
    BY <1>5, <2>1 DEF Listed
<1>9. \A i \in 1 .. n : F[given[i]] \in Listed(a)
  BY <1>1, <1>2 DEF OnceIn
<1>10. \A i \in 1 .. n : given[i] # b
  BY <1>7, <1>9 DEF s
<1>11. \A i \in DOMAIN g : F[g[i]] \in Listed(H)
  <2> SUFFICES ASSUME NEW i \in 1 .. n + 1 PROVE F[g[i]] \in Listed(H)
    BY <1>4
  <2>1. i \in 1 .. n \/ i = n + 1
    BY <1>2
  <2> QED
    BY <1>4, <1>8, <1>9, <2>1 DEF s
<1>12. ASSUME NEW i \in DOMAIN g, NEW j \in DOMAIN g, g[i] = g[j] PROVE i = j
  <2>1. (i \in 1 .. n \/ i = n + 1) /\ (j \in 1 .. n \/ j = n + 1)
    BY <1>2, <1>4
  <2>2. \A k, m \in 1 .. n : given[k] = given[m] => k = m
    BY <1>2 DEF OnceIn
  <2> QED
    BY <1>4, <1>10, <1>12, <2>1, <2>2
<1> QED
  BY <1>4, <1>11, <1>12 DEF OnceIn, a, s, H, g

LEMMA OnceHands ==
  ASSUME NEW n \in Nat, NEW F \in [1 .. n -> Nat], NEW given, NEW G \in Seq(Nat),
         OnceIn(F, given, G), NEW N \in Nat, N < U16_MAX, NEW r, NEW messages,
         HandsOn(FromServer(F), r, G, messages, N)
  PROVE  \E H : /\ GaveOK(FromServer(F), r, H, N)
                /\ OnceIn(F, given \o BodiesOf(messages), H)
<1> DEFINE P == FromServer(F)
<1>1. PICK skip \in Seq(Nat) : GaveOK(P, r, (G \o skip) \o NumbersOf(messages), N)
  BY DEF HandsOn
<1> DEFINE a == G \o skip
           H == a \o NumbersOf(messages)
<1>2. a \in Seq(Nat) /\ Listed(a) = Listed(G) \cup Listed(skip)
  BY ListedJoin
<1>3. GaveOK(P, r, H, N)
  BY <1>1
<1>4. OnceIn(F, given \o BodiesOf(messages), H)
  <2>1. CASE messages = << >>
    <3>1. NumbersOf(messages) = << >> /\ BodiesOf(messages) = << >>
      BY <2>1, BodyOf
    <3>2. a \o << >> = a
      BY <1>2
    <3>3. given \o << >> = given
      BY DEF OnceIn
    <3>4. OnceIn(F, given, a)
      BY <1>2 DEF OnceIn
    <3> QED
      BY <3>1, <3>2, <3>3, <3>4
  <2>2. ASSUME NEW p \in P, p.type # NONE, messages = << p >>
        PROVE  OnceIn(F, given \o BodiesOf(messages), H)
    <3>1. p \in Cargo(F)
      BY <2>2 DEF FromServer, Nones
    <3>2. p.body \in DOMAIN F /\ F[p.body] = p.sequence /\ F[p.body] \in Nat
      BY <3>1 DEF Cargo
    <3>3. NumbersOf(messages) = << F[p.body] >> /\ BodiesOf(messages) = << p.body >>
      BY <2>2, <3>2, BodyOf
    <3> DEFINE b == p.body
    <3>4. GaveOK(P, r, (G \o skip) \o << F[b] >>, N)
      BY <1>1, <3>3
    <3> HIDE DEF b, P
    <3>5. Ranked(r.is_ordered, (G \o skip) \o << F[b] >>)
      BY <3>4, GaveSound
    <3>6. OnceIn(F, given \o << b >>, (G \o skip) \o << F[b] >>)
      BY <3>2, <3>5, OnceMore DEF b
    <3> QED
      BY <3>3, <3>6 DEF b
  <2> QED
    BY <2>1, <2>2 DEF HandsOn, Gives
<1> QED
  BY <1>3, <1>4

LEMMA ServerHands ==
  ASSUME NEW given, NEW G \in Seq(Nat), AllOf(G, given),
         NEW N, NEW r, NEW messages, HandsOn(FromClient, r, G, messages, N)
  PROVE  \E H : /\ GaveOK(FromClient, r, H, N)
                /\ AllOf(H, given \o BodiesOf(messages))
<1>1. PICK skip \in Seq(Nat) :
         /\ (\A p \in FromClient : p.type # NONE) => skip = << >>
         /\ GaveOK(FromClient, r, (G \o skip) \o NumbersOf(messages), N)
  BY DEF HandsOn
<1> DEFINE H == (G \o skip) \o NumbersOf(messages)
<1>2. ASSUME OneClient PROVE H = given \o BodiesOf(messages)
  <2>1. /\ skip = << >> /\ FromClient = Message
    BY <1>1, <1>2, ClientFacts
  <2>2. G \o << >> = G
    OBVIOUS
  <2>3. messages = << >> \/ \E p \in Message : messages = << p >>
    BY <2>1 DEF HandsOn, Gives
  <2>4. NumbersOf(messages) = BodiesOf(messages)
    BY <2>3, BodyOf, MessageType
  <2> QED
    BY <1>2, <2>1, <2>2, <2>4 DEF AllOf
<1>3. AllOf(H, given \o BodiesOf(messages))
  BY <1>2 DEF AllOf
<1> QED
  BY <1>1, <1>3

(***************************************************************************)
(* A client's channel: more is sent; receive_published; receive_from_      *)
(* socket; update; send_reliable.                                          *)
(***************************************************************************)
LEMMA Limits ==
  ASSUME ShortTraffic
  PROVE  /\ MaxClientSend \in Nat /\ MaxServerSend \in Nat
         /\ MaxClientSend < U16_MAX - 1 /\ MaxServerSend < U16_MAX - 1
         /\ MaxClientSend < SEND_BUFFER_SIZE /\ MaxServerSend < SEND_BUFFER_SIZE
         /\ SEND_BUFFER_SIZE \in Nat
         /\ \A S \in 0 .. MaxClientSend :
              /\ S \in Nat /\ S <= MaxClientSend
              /\ S <= Farthest /\ S <= Latest /\ S < U16_MAX /\ S < SEND_BUFFER_SIZE
         /\ \A N \in 0 .. MaxServerSend :
              /\ N \in Nat /\ N <= MaxServerSend
              /\ N <= Farthest /\ N <= Latest /\ N < U16_MAX /\ N < SEND_BUFFER_SIZE
BY LinkedAssumption, ChannelAssumption, Bounds DEF ShortTraffic

LEMMA ClientMore ==
  ASSUME ShortTraffic, NEW F, NEW E, Extends(E, F),
         NEW S \in 0 .. MaxClientSend, NEW T \in 0 .. MaxClientSend, S <= T,
         NEW N \in 0 .. MaxServerSend, NEW K \in 0 .. MaxServerSend, N <= K,
         NEW ch, NEW given, ClientOK(F, S, N, ch, given)
  PROVE  ClientOK(E, T, K, ch, given)
<1>1. S \in Nat /\ T \in Nat /\ N \in Nat /\ K \in Nat /\ N < U16_MAX
  BY Limits
<1>2. HalfOK(Message, ch, MaxClientSend, T)
  <2>1. /\ HalfOK(Message, ch, MaxClientSend, S) /\ Message \subseteq Message
        /\ MaxClientSend \in Nat /\ MaxClientSend <= MaxClientSend
    BY Limits DEF ClientOK
  <2> QED
    BY <1>1, <2>1, HalfMore
<1>3. PICK G : GaveOK(FromServer(F), ch.receiver, G, N) /\ OnceIn(F, given, G)
  BY DEF ClientOK
<1>4. GaveOK(FromServer(E), ch.receiver, G, K)
  <2> DEFINE P == FromServer(F)
             Q == FromServer(E)
  <2>1. P \subseteq Q
    BY CargoMore
  <2>2. GaveOK(P, ch.receiver, G, N)
    BY <1>3
  <2> HIDE DEF P, Q
  <2>3. GaveOK(Q, ch.receiver, G, K)
    BY <1>1, <2>1, <2>2, GaveMore
  <2> QED
    BY <2>3 DEF Q
<1>5. OnceIn(E, given, G)
  <2>1. /\ given \in Seq(DOMAIN F)
        /\ \A i \in DOMAIN given : given[i] \in DOMAIN F
    BY <1>3 DEF OnceIn
  <2>2. given \in Seq(DOMAIN E)
    <3>1. DOMAIN F \subseteq DOMAIN E
      BY DEF Extends
    <3> QED
      BY <2>1, <3>1
  <2>3. \A i \in DOMAIN given : E[given[i]] = F[given[i]]
    BY <2>1 DEF Extends
  <2> QED
    BY <1>3, <2>2, <2>3 DEF OnceIn
<1> QED
  BY <1>2, <1>4, <1>5 DEF ClientOK

LEMMA ClientTakes ==
  ASSUME ShortTraffic, NEW n \in Nat, NEW F \in [1 .. n -> Nat],
         NEW S, NEW N \in 0 .. MaxServerSend,
         NEW ch, NEW given, ClientOK(F, S, N, ch, given)
  PROVE  LET res == receive_published(ch)
         IN  /\ ClientOK(F, S, N, res.channel, given \o BodiesOf(res.messages))
             /\ res.channel.send_sequence = ch.send_sequence
<1> DEFINE res == receive_published(ch)
           P   == FromServer(F)
<1>1. N \in Nat /\ N < U16_MAX
  BY Limits
<1>2. PICK G : GaveOK(P, ch.receiver, G, N) /\ OnceIn(F, given, G)
  BY DEF ClientOK
<1>3. G \in Seq(Nat) /\ HalfOK(Message, ch, MaxClientSend, S)
  BY <1>2 DEF GaveOK, ClientOK
<1> HIDE DEF P
<1>4. /\ HalfOK(Message, res.channel, MaxClientSend, S)
      /\ res.channel.send_sequence = ch.send_sequence
      /\ res.channel.nacked = ch.nacked
      /\ HandsOn(P, res.channel.receiver, G, res.messages, N)
      /\ Keeps(ch.receiver, res.channel.receiver)
  BY <1>1, <1>2, <1>3, HalfTake, Zenon
<1> HIDE DEF res
<1>5. \E H : /\ GaveOK(P, res.channel.receiver, H, N)
             /\ OnceIn(F, given \o BodiesOf(res.messages), H)
  BY <1>1, <1>2, <1>3, <1>4, OnceHands DEF P
<1> QED
  BY <1>4, <1>5 DEF ClientOK, res, P

LEMMA ClientReceives ==
  ASSUME ShortTraffic, WindowFitsRing, NEW n \in Nat, NEW F \in [1 .. n -> Nat],
         NEW S, NEW N \in 0 .. MaxServerSend,
         NEW ch, NEW given, ClientOK(F, S, N, ch, given),
         NEW p, PacketOf(FromServer(F), p, S, N)
  PROVE  LET res == receive_from_socket(ch, p)
         IN  /\ ClientOK(F, S, N, res.channel, given \o BodiesOf(res.messages))
             /\ res.channel.send_sequence = ch.send_sequence
<1> DEFINE res == receive_from_socket(ch, p)
           P   == FromServer(F)
<1>1. N \in Nat /\ N < U16_MAX /\ N <= Farthest /\ N <= Latest
  BY Limits
<1>2. PICK G : GaveOK(P, ch.receiver, G, N) /\ OnceIn(F, given, G)
  BY DEF ClientOK
<1>3. G \in Seq(Nat) /\ HalfOK(Message, ch, MaxClientSend, S)
  BY <1>2 DEF GaveOK, ClientOK
<1>4. P \in SUBSET (Written \cup Nones) /\ PacketOf(P, p, S, N)
  BY CargoFacts
<1> HIDE DEF P
<1>5. /\ HalfOK(Message, res.channel, MaxClientSend, S)
      /\ res.channel.send_sequence = ch.send_sequence
      /\ HandsOn(P, res.channel.receiver, G, res.messages, N)
      /\ N <= receive_window_size => Keeps(ch.receiver, res.channel.receiver)
  BY <1>1, <1>2, <1>3, <1>4, HalfReceive, Zenon
<1> HIDE DEF res
<1>6. \E H : /\ GaveOK(P, res.channel.receiver, H, N)
             /\ OnceIn(F, given \o BodiesOf(res.messages), H)
  BY <1>1, <1>2, <1>3, <1>5, OnceHands DEF P
<1> QED
  BY <1>5, <1>6 DEF ClientOK, res, P

LEMMA ClientUpdates ==
  ASSUME ShortTraffic, NEW F, NEW S \in 0 .. MaxClientSend,
         NEW N \in 0 .. MaxServerSend,
         NEW ch, NEW given, ClientOK(F, S, N, ch, given),
         OneClient => ch.send_sequence = S
  PROVE  /\ ClientOK(F, S, N, update(ch), given)
         /\ update(ch).send_sequence = ch.send_sequence
         /\ \A p \in update_sends(ch) : PacketOf(FromClient, p, N, S)
<1> DEFINE c == update(ch)
           P == FromServer(F)
<1>1. /\ N \in Nat /\ N < U16_MAX /\ S \in Nat /\ S < SEND_BUFFER_SIZE
      /\ S < U16_MAX /\ MaxClientSend \in Nat /\ MaxClientSend < SEND_BUFFER_SIZE
      /\ S <= S
  BY Limits
<1>2. PICK G : GaveOK(P, ch.receiver, G, N) /\ OnceIn(F, given, G)
  BY DEF ClientOK
<1>3. HalfOK(Message, ch, MaxClientSend, S) /\ Numbers(P)
  BY CargoFacts DEF ClientOK
<1> HIDE DEF P
<1>4. /\ HalfOK(Message, c, MaxClientSend, 0)
      /\ c.send_sequence = ch.send_sequence
      /\ GaveOK(P, c.receiver, G, N)
      /\ Keeps(ch.receiver, c.receiver)
      /\ \A p \in update_sends(ch) :
           /\ PacketOf(Message \cup Nones, p, N, S)
           /\ S <= ch.send_sequence => PacketOf(Message, p, N, S)
  BY <1>1, <1>2, <1>3, HalfUpdate, MessageResendable, Zenon
<1> HIDE DEF c
<1>5. HalfOK(Message, c, MaxClientSend, S)
  <2>1. /\ Message \subseteq Message /\ 0 \in Nat /\ 0 <= S
        /\ MaxClientSend <= MaxClientSend
    BY <1>1
  <2> QED
    BY <1>1, <1>4, <2>1, HalfMore
<1>6. \A p \in update_sends(ch) : PacketOf(FromClient, p, N, S)
  BY <1>1, <1>4, ClientFacts
<1> QED
  BY <1>2, <1>4, <1>5, <1>6 DEF ClientOK, c, P

LEMMA NextMessage ==
  ASSUME ShortTraffic, NEW S, NEW ch, HalfOK(Message, ch, MaxClientSend, S),
         ch.send_sequence < MaxClientSend, NEW k \in Nat
  PROVE  LET p == reliable_packet(ch, k, {})
         IN  /\ p \in Written /\ p.sequence = ch.send_sequence + 1
             /\ p.body = k
<1>1. /\ MaxClientSend \in Nat /\ MaxClientSend < SEND_BUFFER_SIZE
      /\ MaxClientSend < U16_MAX - 1
  BY Limits
<1> QED
  BY <1>1, NextPacket

LEMMA ClientSends ==
  ASSUME ShortTraffic, NEW F, NEW S \in 0 .. MaxClientSend,
         NEW N \in 0 .. MaxServerSend,
         NEW ch, NEW given, ClientOK(F, S, N, ch, given),
         OneClient => ch.send_sequence = S, ch.send_sequence < MaxClientSend,
         ~ OneClient => S = MaxClientSend
  PROVE  LET p == reliable_packet(ch, ch.send_sequence + 1, {})
             c == send_reliable(ch, p)
             T == IF OneClient THEN S + 1 ELSE S
         IN  /\ ClientOK(F, T, N, c, given)
             /\ c.send_sequence = ch.send_sequence + 1
             /\ PacketOf(FromClient, p, N, T)
             /\ T \in 0 .. MaxClientSend /\ S <= T
<1> DEFINE k == ch.send_sequence + 1
           p == reliable_packet(ch, k, {})
           c == send_reliable(ch, p)
           T == IF OneClient THEN S + 1 ELSE S
<1>1. /\ MaxClientSend \in Nat /\ MaxClientSend < SEND_BUFFER_SIZE
      /\ MaxClientSend < U16_MAX - 1 /\ S \in Nat /\ MaxClientSend <= MaxClientSend
  BY Limits
<1>2. /\ HalfOK(Message, ch, MaxClientSend, S)
      /\ \E G : GaveOK(FromServer(F), ch.receiver, G, N) /\ OnceIn(F, given, G)
  BY DEF ClientOK
<1>3. ch.send_sequence \in Nat
  BY <1>2 DEF HalfOK
<1>4. k \in Nat /\ k <= MaxClientSend
  BY <1>1, <1>3
<1>5. T \in 0 .. MaxClientSend /\ S <= T /\ k <= T /\ T \in Nat
  BY <1>1, <1>3
<1> HIDE DEF T
<1>6. p \in Written /\ p.sequence = ch.send_sequence + 1 /\ p.body = k
  BY <1>2, <1>4, NextMessage
<1>7. p \in Message /\ p.sequence = k
  BY <1>6 DEF Message
<1> HIDE DEF p
<1>8. /\ HalfOK(Message, c, MaxClientSend, S) /\ c.send_sequence = p.sequence
      /\ c.receiver = ch.receiver
  BY <1>1, <1>2, <1>4, <1>6, <1>7, HalfSend
<1> HIDE DEF c, k
<1>9. HalfOK(Message, c, MaxClientSend, T)
  <2>1. Message \subseteq Message
    OBVIOUS
  <2> QED
    BY <1>1, <1>5, <1>8, <2>1, HalfMore
<1>10. PacketOf(FromClient, p, N, T)
  <2>1. p \in FromClient
    BY <1>7, ClientFacts
  <2> QED
    BY <1>5, <1>7, <2>1 DEF PacketOf
<1>11. c.send_sequence = k
  BY <1>7, <1>8
<1>12. ClientOK(F, T, N, c, given)
  BY <1>2, <1>8, <1>9 DEF ClientOK
<1> QED
  BY <1>5, <1>10, <1>11, <1>12 DEF k, p, c, T

LEMMA ClientStart ==
  ASSUME NEW S \in Nat
  PROVE  LET ch == create_channel(Ordered)
         IN  ClientOK(<< >>, S, 0, ch, << >>) /\ ch.send_sequence = 0
<1> DEFINE ch == create_channel(Ordered)
<1>1. /\ HalfOK(Message, ch, MaxClientSend, S) /\ ch.send_sequence = 0
      /\ ch.receiver = create(Ordered)
  BY LinkedAssumption, HalfStart
<1>2. GaveOK(FromServer(<< >>), create(Ordered), << >>, 0)
  BY LinkedAssumption, GaveStart
<1>3. OnceIn(<< >>, << >>, << >>)
  BY DEF OnceIn
<1> HIDE DEF ch
<1> QED
  BY <1>1, <1>2, <1>3 DEF ClientOK, ch

(***************************************************************************)
(* The same for a channel of the server's.                                 *)
(***************************************************************************)
LEMMA ServerMore ==
  ASSUME ShortTraffic, NEW F, NEW E, Extends(E, F),
         NEW S \in 0 .. MaxClientSend, NEW T \in 0 .. MaxClientSend, S <= T,
         NEW N \in 0 .. MaxServerSend, NEW K \in 0 .. MaxServerSend, N <= K,
         NEW ch, NEW given, ServerOK(F, S, N, ch, given)
  PROVE  ServerOK(E, T, K, ch, given)
<1>1. S \in Nat /\ T \in Nat /\ N \in Nat /\ K \in Nat /\ S < U16_MAX
  BY Limits
<1>2. HalfOK(Cargo(E), ch, K, K)
  <2> DEFINE P == Cargo(F)
             Q == Cargo(E)
  <2>1. P \subseteq Q /\ HalfOK(P, ch, N, N)
    BY CargoMore DEF ServerOK
  <2> HIDE DEF P, Q
  <2>2. HalfOK(Q, ch, K, K)
    BY <1>1, <2>1, HalfMore
  <2> QED
    BY <2>2 DEF Q
<1>3. PICK G : GaveOK(FromClient, ch.receiver, G, S) /\ AllOf(G, given)
  BY DEF ServerOK
<1>4. GaveOK(FromClient, ch.receiver, G, T)
  <2>1. FromClient \subseteq FromClient
    OBVIOUS
  <2> QED
    BY <1>1, <1>3, <2>1, GaveMore
<1> QED
  BY <1>2, <1>3, <1>4 DEF ServerOK

LEMMA ServerTakes ==
  ASSUME ShortTraffic, NEW F, NEW S \in 0 .. MaxClientSend, NEW N,
         NEW ch, NEW given, ServerOK(F, S, N, ch, given)
  PROVE  LET res == receive_published(ch)
         IN  /\ ServerOK(F, S, N, res.channel, given \o BodiesOf(res.messages))
             /\ res.channel.send_sequence = ch.send_sequence
<1> DEFINE res == receive_published(ch)
           P   == Cargo(F)
<1>1. S \in Nat /\ S < U16_MAX
  BY Limits
<1>2. PICK G : GaveOK(FromClient, ch.receiver, G, S) /\ AllOf(G, given)
  BY DEF ServerOK
<1>3. G \in Seq(Nat) /\ HalfOK(P, ch, N, N)
  BY <1>2 DEF GaveOK, ServerOK
<1> HIDE DEF P
<1>4. /\ HalfOK(P, res.channel, N, N)
      /\ res.channel.send_sequence = ch.send_sequence
      /\ res.channel.nacked = ch.nacked
      /\ HandsOn(FromClient, res.channel.receiver, G, res.messages, S)
      /\ Keeps(ch.receiver, res.channel.receiver)
  BY <1>1, <1>2, <1>3, HalfTake, Zenon
<1> HIDE DEF res
<1>5. \E H : /\ GaveOK(FromClient, res.channel.receiver, H, S)
             /\ AllOf(H, given \o BodiesOf(res.messages))
  BY <1>2, <1>3, <1>4, ServerHands
<1>6. OneClient /\ WithinWindow => Unskipped(res.channel.receiver)
  BY <1>4 DEF ServerOK, Keeps, Unskipped
<1> QED
  BY <1>4, <1>5, <1>6 DEF ServerOK, res, P

LEMMA ServerReceives ==
  ASSUME ShortTraffic, WindowFitsRing, NEW F, NEW S \in 0 .. MaxClientSend, NEW N,
         NEW ch, NEW given, ServerOK(F, S, N, ch, given),
         NEW p, PacketOf(FromClient, p, N, S)
  PROVE  LET res == receive_from_socket(ch, p)
         IN  /\ ServerOK(F, S, N, res.channel, given \o BodiesOf(res.messages))
             /\ res.channel.send_sequence = ch.send_sequence
<1> DEFINE res == receive_from_socket(ch, p)
           P   == Cargo(F)
<1>1. S \in Nat /\ S <= MaxClientSend /\ S <= Farthest /\ S <= Latest
  BY Limits
<1>2. PICK G : GaveOK(FromClient, ch.receiver, G, S) /\ AllOf(G, given)
  BY DEF ServerOK
<1>3. /\ G \in Seq(Nat) /\ HalfOK(P, ch, N, N)
      /\ FromClient \in SUBSET (Written \cup Nones)
  BY <1>2, ClientFacts DEF GaveOK, ServerOK
<1> HIDE DEF P
<1>4. /\ HalfOK(P, res.channel, N, N)
      /\ res.channel.send_sequence = ch.send_sequence
      /\ HandsOn(FromClient, res.channel.receiver, G, res.messages, S)
      /\ S <= receive_window_size => Keeps(ch.receiver, res.channel.receiver)
  BY <1>1, <1>2, <1>3, HalfReceive, Zenon
<1> HIDE DEF res
<1>5. \E H : /\ GaveOK(FromClient, res.channel.receiver, H, S)
             /\ AllOf(H, given \o BodiesOf(res.messages))
  BY <1>2, <1>3, <1>4, ServerHands
<1>6. WithinWindow => S <= receive_window_size
  BY <1>1, LinkedAssumption, ReceiverAssumption DEF WithinWindow
<1>7. OneClient /\ WithinWindow => Unskipped(res.channel.receiver)
  BY <1>4, <1>6 DEF ServerOK, Keeps, Unskipped
<1> QED
  BY <1>4, <1>5, <1>7 DEF ServerOK, res, P

LEMMA ServerUpdates ==
  ASSUME ShortTraffic, NEW F, NEW S \in 0 .. MaxClientSend,
         NEW N \in 0 .. MaxServerSend,
         NEW ch, NEW given, ServerOK(F, S, N, ch, given)
  PROVE  /\ ServerOK(F, S, N, update(ch), given)
         /\ update(ch).send_sequence = ch.send_sequence
         /\ \A p \in update_sends(ch) : PacketOf(FromServer(F), p, S, N)
<1> DEFINE c == update(ch)
           P == Cargo(F)
<1>1. /\ N \in Nat /\ N < U16_MAX /\ N < SEND_BUFFER_SIZE /\ S \in Nat
      /\ S < U16_MAX
  BY Limits
<1>2. PICK G : GaveOK(FromClient, ch.receiver, G, S) /\ AllOf(G, given)
  BY DEF ServerOK
<1>3. HalfOK(P, ch, N, N) /\ Resendable(P) /\ Numbers(FromClient)
  BY CargoFacts, ClientFacts DEF ServerOK
<1> HIDE DEF P
<1>4. /\ HalfOK(P, c, N, 0)
      /\ c.send_sequence = ch.send_sequence
      /\ GaveOK(FromClient, c.receiver, G, S)
      /\ Keeps(ch.receiver, c.receiver)
      /\ \A p \in update_sends(ch) :
           /\ PacketOf(P \cup Nones, p, S, N)
           /\ N <= ch.send_sequence => PacketOf(P, p, S, N)
  BY <1>1, <1>2, <1>3, HalfUpdate, Zenon
<1> HIDE DEF c
<1>5. HalfOK(P, c, N, N)
  <2>1. P \subseteq P /\ 0 \in Nat /\ 0 <= N /\ N <= N
    BY <1>1
  <2> QED
    BY <1>1, <1>4, <2>1, HalfMore
<1>6. OneClient /\ WithinWindow => Unskipped(c.receiver)
  BY <1>4 DEF ServerOK, Keeps, Unskipped
<1> QED
  BY <1>2, <1>4, <1>5, <1>6 DEF ServerOK, FromServer, c, P

\* The sequence of one more message
Adds(F, N, s) == [b \in 1 .. N + 1 |-> IF b = N + 1 THEN s ELSE F[b]]

LEMMA AddsFacts ==
  ASSUME NEW N \in Nat, NEW F \in [1 .. N -> Nat], NEW s \in Nat
  PROVE  /\ Adds(F, N, s) \in [1 .. N + 1 -> Nat] /\ Adds(F, N, s)[N + 1] = s
         /\ Extends(Adds(F, N, s), F)
<1>1. /\ \A b \in 1 .. N + 1 : b # N + 1 => b \in 1 .. N
      /\ \A b \in 1 .. N : b \in 1 .. N + 1 /\ b # N + 1
      /\ N + 1 \in 1 .. N + 1
  OBVIOUS
<1>2. Adds(F, N, s) \in [1 .. N + 1 -> Nat]
  BY <1>1 DEF Adds
<1>3. Adds(F, N, s)[N + 1] = s
  BY <1>1 DEF Adds
<1>4. \A b \in 1 .. N : Adds(F, N, s)[b] = F[b]
  BY <1>1 DEF Adds
<1>5. DOMAIN F = 1 .. N /\ DOMAIN Adds(F, N, s) = 1 .. N + 1
  BY DEF Adds
<1> QED
  BY <1>1, <1>2, <1>3, <1>4, <1>5 DEF Extends

LEMMA ServerSends ==
  ASSUME ShortTraffic, NEW S \in 0 .. MaxClientSend,
         NEW N \in 0 .. MaxServerSend, N < MaxServerSend,
         NEW F \in [1 .. N -> Nat],
         NEW ch, NEW given, ServerOK(F, S, N, ch, given)
  PROVE  LET p == reliable_packet(ch, N + 1, {})
             c == send_reliable(ch, p)
             E == Adds(F, N, ch.send_sequence + 1)
         IN  /\ ServerOK(E, S, N + 1, c, given)
             /\ c.send_sequence = ch.send_sequence + 1
             /\ PacketOf(FromServer(E), p, S, N + 1)
             /\ E \in [1 .. N + 1 -> Nat] /\ Extends(E, F)
             /\ N + 1 \in 0 .. MaxServerSend
<1> DEFINE K == N + 1
           p == reliable_packet(ch, K, {})
           c == send_reliable(ch, p)
           s == ch.send_sequence + 1
           E == Adds(F, N, s)
           Q == Cargo(E)
<1>1. /\ N \in Nat /\ K \in Nat /\ K \in 0 .. MaxServerSend /\ N <= K
      /\ S <= S /\ S \in 0 .. MaxClientSend
  BY Limits
<1>2. /\ K < SEND_BUFFER_SIZE /\ K < U16_MAX - 1
  BY <1>1, Limits, Bounds
<1>3. ch.send_sequence \in Nat /\ ch.send_sequence <= N
  BY <1>1 DEF ServerOK, HalfOK
<1>4. s \in Nat /\ s <= K /\ ch.send_sequence < K
  BY <1>1, <1>3
<1>5. E \in [1 .. K -> Nat] /\ E[K] = s /\ Extends(E, F)
  BY <1>1, <1>4, AddsFacts
<1> HIDE DEF E, K
<1>6. ServerOK(E, S, K, ch, given)
  BY <1>1, <1>5, ServerMore
<1>7. HalfOK(Q, ch, K, K)
  BY <1>6 DEF ServerOK
<1> HIDE DEF Q
<1>8. p \in Written /\ p.sequence = ch.send_sequence + 1 /\ p.body = K
  BY <1>1, <1>2, <1>4, <1>7, NextPacket
<1> HIDE DEF p
<1>9. p \in Q /\ p.sequence = s /\ p.sequence <= K
  <2>1. K \in DOMAIN E
    BY <1>1, <1>5 DEF K
  <2> QED
    BY <1>4, <1>5, <1>8, <2>1 DEF Q, Cargo
<1>10. /\ HalfOK(Q, c, K, K) /\ c.send_sequence = p.sequence
       /\ c.nacked = ch.nacked /\ c.receiver = ch.receiver
  BY <1>1, <1>2, <1>7, <1>8, <1>9, HalfSend
<1> HIDE DEF c
<1>11. ServerOK(E, S, K, c, given)
  BY <1>6, <1>10 DEF ServerOK, Q
<1>12. PacketOf(FromServer(E), p, S, K)
  BY <1>9 DEF PacketOf, FromServer, Q
<1>13. c.send_sequence = ch.send_sequence + 1
  BY <1>9, <1>10
<1> QED
  BY <1>1, <1>5, <1>11, <1>12, <1>13 DEF K, p, c, E

LEMMA ServerStart ==
  ASSUME ShortTraffic, NEW F, NEW S \in 0 .. MaxClientSend,
         NEW N \in 0 .. MaxServerSend
  PROVE  LET ch == create_channel(Ordered)
         IN  ServerOK(F, S, N, ch, << >>) /\ ch.send_sequence = 0
<1> DEFINE ch == create_channel(Ordered)
           P  == Cargo(F)
<1>1. N \in Nat /\ S \in Nat /\ 0 \in Nat /\ 0 <= S /\ 0 < U16_MAX /\ S < U16_MAX
  BY Limits, Bounds
<1> HIDE DEF P
<1>2. /\ HalfOK(P, ch, N, N) /\ ch.send_sequence = 0
      /\ ch.receiver = create(Ordered)
  BY <1>1, HalfStart
<1>3. GaveOK(FromClient, create(Ordered), << >>, 0)
  BY LinkedAssumption, GaveStart
<1>4. GaveOK(FromClient, create(Ordered), << >>, S)
  <2>1. FromClient \subseteq FromClient
    OBVIOUS
  <2> QED
    BY <1>1, <1>3, <2>1, GaveMore
<1>5. Unskipped(create(Ordered)) /\ AllOf(<< >>, << >>)
  BY DEF Unskipped, create, AllOf
<1> HIDE DEF ch
<1> QED
  BY <1>2, <1>4, <1>5 DEF ServerOK, ch, P

(***************************************************************************)
(* A packet in flight stays one that may have been sent.                   *)
(***************************************************************************)
LEMMA WireMore ==
  ASSUME NEW F, NEW E, Extends(E, F),
         NEW S \in Nat, NEW T \in Nat, S <= T, NEW N \in Nat, NEW K \in Nat, N <= K,
         NEW m, WireOK(F, S, N, m)
  PROVE  WireOK(E, T, K, m)
<1>1. ASSUME NEW P, NEW Q, P \subseteq Q, NEW p,
             NEW A \in Nat, NEW B \in Nat, A <= B,
             NEW C \in Nat, NEW D \in Nat, C <= D,
             \A q \in P : q.sequence \in Nat, PacketOf(P, p, A, C)
      PROVE  PacketOf(Q, p, B, D)
  <2>1. CASE p \in P /\ p.sequence <= C
    BY <1>1, <2>1 DEF PacketOf
  <2>2. CASE p \in ChannelPackets /\ p.type = NACK /\ p.nacks \subseteq 1 .. A
    <3>1. 1 .. A \subseteq 1 .. B
      BY <1>1
    <3> QED
      BY <2>2, <3>1 DEF PacketOf
  <2> QED
    BY <1>1, <2>1, <2>2 DEF PacketOf
<1>2. /\ \A q \in FromServer(F) : q.sequence \in Nat
      /\ \A q \in FromClient : q.sequence \in Nat
  BY CargoFacts, ClientFacts, CarriedType
<1>3. FromServer(F) \subseteq FromServer(E) /\ FromClient \subseteq FromClient
  BY CargoMore
<1>4. m.to = "client" => PacketOf(FromServer(E), m.packet, T, K)
  BY <1>1, <1>2, <1>3 DEF WireOK
<1>5. m.to = "server" => PacketOf(FromClient, m.packet, K, T)
  BY <1>1, <1>2, <1>3 DEF WireOK
<1> QED
  BY <1>4, <1>5 DEF WireOK

\* Over a live channel of an ordered configuration
LEMMA LiveFirst ==
  ASSUME ShortTraffic, OneClient, WithinWindow, Ordered,
         NEW F, NEW S \in 0 .. MaxClientSend, NEW N,
         NEW ch, NEW given, ServerOK(F, S, N, ch, given)
  PROVE  \A i \in DOMAIN given : given[i] = i
<1>1. S \in Nat /\ S < U16_MAX
  BY Limits
<1>2. GaveOK(FromClient, ch.receiver, given, S) /\ Unskipped(ch.receiver)
  BY DEF ServerOK, AllOf
<1>3. /\ ch.receiver.is_ordered /\ ch.receiver.skipped_sequences = 0 =>
           \A i \in DOMAIN given : given[i] = i
  BY <1>1, <1>2, GaveSound
<1> QED
  BY <1>2, <1>3 DEF Unskipped

-----------------------------------------------------------------------------
(***************************************************************************)
(* The inductive invariant.  The clients have sent S messages, which is    *)
(* what one client has counted and otherwise the most there can be, and F  *)
(* has the sequences of what the server sent.                              *)
(***************************************************************************)
CountsOK(F, S) ==
  /\ F \in [1 .. server_sent -> Nat] /\ S \in 0 .. MaxClientSend
  /\ OneClient => \A c \in Clients : client_channel[c].send_sequence = S
  /\ ~ OneClient => S = MaxClientSend

ClientsOK(F, S) ==
  \A c \in Clients : ClientOK(F, S, server_sent, client_channel[c], client_got[c])

ServersOK(F, S) ==
  \A a \in DOMAIN server_channel :
    ServerOK(F, S, server_sent, server_channel[a], server_got[life[a]])

PacketsOK(F, S) == \A m \in wire : WireOK(F, S, server_sent, m)

Joined(F, S) ==
  CountsOK(F, S) /\ ClientsOK(F, S) /\ ServersOK(F, S) /\ PacketsOK(F, S)

\* Before the first relink, all that the server sent is in its one channel.
FreshOK ==
  /\ lives = 0 => server_sent = 0
  /\ lives <= 1 => \A a \in DOMAIN server_channel :
                     server_channel[a].send_sequence = server_sent

FirstOK == OneClient /\ WithinWindow /\ Ordered => EachLinkFromTheFirst

LInv == ShapeOK /\ FreshOK /\ FirstOK /\ \E F, S : Joined(F, S)

\* Only a live channel gets more.
LEMMA FirstStep ==
  ASSUME ShortTraffic, FirstOK, NEW F, NEW S, Joined(F, S)',
         \A k \in 1 .. lives' :
           \/ \E a \in DOMAIN server_channel' : life'[a] = k
           \/ k \in 1 .. lives /\ server_got'[k] = server_got[k]
           \/ server_got'[k] = << >>
  PROVE  FirstOK'
<1> SUFFICES ASSUME OneClient, WithinWindow, Ordered, NEW k \in 1 .. lives'
             PROVE  \A i \in DOMAIN (server_got'[k]) : server_got'[k][i] = i
  BY DEF FirstOK, EachLinkFromTheFirst
<1>1. ASSUME NEW a \in DOMAIN server_channel', life'[a] = k
      PROVE  \A i \in DOMAIN (server_got'[k]) : server_got'[k][i] = i
  <2>1. ServerOK(F, S, server_sent', server_channel'[a], server_got'[k])
    BY <1>1 DEF Joined, ServersOK
  <2>2. S \in 0 .. MaxClientSend
    BY DEF Joined, CountsOK
  <2> QED
    BY <2>1, <2>2, LiveFirst
<1>2. CASE k \in 1 .. lives /\ server_got'[k] = server_got[k]
  BY <1>2 DEF FirstOK, EachLinkFromTheFirst
<1>3. CASE server_got'[k] = << >>
  BY <1>3
<1> QED
  BY <1>1, <1>2, <1>3

(***************************************************************************)
(* A step of Identity.                                                     *)
(***************************************************************************)
LEMMA IdentityStepOK ==
  ASSUME ShortTraffic, ShapeOK, FreshOK, FirstOK, NEW F, NEW S, Joined(F, S),
         IdentityStep
  PROVE  Joined(F, S)' /\ FreshOK' /\ FirstOK'
<1>1. /\ client_channel' = client_channel /\ client_got' = client_got
      /\ server_sent' = server_sent /\ wire' = wire
  BY DEF IdentityStep
<1>2. CountsOK(F, S)' /\ ClientsOK(F, S)' /\ PacketsOK(F, S)'
  BY <1>1 DEF Joined, CountsOK, ClientsOK, PacketsOK
<1>3. /\ \A a \in DOMAIN server_channel' :
           \/ /\ a \in DOMAIN server_channel
              /\ server_channel'[a] = server_channel[a]
              /\ life'[a] = life[a] /\ life[a] \in 1 .. lives
              /\ server_got'[life'[a]] = server_got[life[a]]
           \/ /\ server_channel'[a] = create_channel(Ordered)
              /\ server_got'[life'[a]] = << >>
              /\ lives' = lives + 1
      /\ \A k \in 1 .. lives' : \/ k \in 1 .. lives /\ server_got'[k] = server_got[k]
                                \/ server_got'[k] = << >>
      /\ lives \in Nat /\ lives' \in {lives, lives + 1}
  BY IdentityStepShape
<1>4. S \in 0 .. MaxClientSend /\ server_sent \in 0 .. MaxServerSend
  BY DEF Joined, CountsOK, ShapeOK, ChannelsOK
<1>5. /\ ServerOK(F, S, server_sent, create_channel(Ordered), << >>)
      /\ create_channel(Ordered).send_sequence = 0
  BY <1>4, ServerStart
<1>6. ServersOK(F, S)'
  <2> SUFFICES ASSUME NEW a \in DOMAIN server_channel'
               PROVE  ServerOK(F, S, server_sent', server_channel'[a],
                               server_got'[life'[a]])
    BY DEF ServersOK
  <2>1. a \in DOMAIN server_channel =>
          ServerOK(F, S, server_sent, server_channel[a], server_got[life[a]])
    BY DEF Joined, ServersOK
  <2> QED
    BY <1>1, <1>3, <1>5, <2>1
<1>7. Joined(F, S)'
  BY <1>2, <1>6 DEF Joined
<1>8. FreshOK'
  <2> DEFINE n == lives
             l == lives'
  <2>1. n \in Nat /\ (l = n \/ l = n + 1)
    BY <1>3
  <2>2. l = 0 => n = 0
    BY <2>1
  <2>3. ASSUME l <= 1, NEW a \in DOMAIN server_channel'
        PROVE  server_channel'[a].send_sequence = server_sent
    <3>1. CASE a \in DOMAIN server_channel /\ server_channel'[a] = server_channel[a]
      <4>1. n <= 1
        BY <2>1, <2>3
      <4> QED
        BY <3>1, <4>1 DEF FreshOK
    <3>2. CASE server_channel'[a] = create_channel(Ordered) /\ l = n + 1
      <4>1. n = 0
        BY <2>1, <2>3, <3>2
      <4> QED
        BY <1>5, <3>2, <4>1 DEF FreshOK
    <3> QED
      BY <1>3, <3>1, <3>2
  <2> QED
    BY <1>1, <2>2, <2>3 DEF FreshOK
<1>9. FirstOK'
  BY <1>3, <1>7, FirstStep
<1> QED
  BY <1>7, <1>8, <1>9

(***************************************************************************)
(* Steps of the clients leave the server as it is.                         *)
(***************************************************************************)
LEMMA ServerStays ==
  ASSUME FreshOK, FirstOK, server_channel' = server_channel,
         server_sent' = server_sent, server_got' = server_got
  PROVE  FreshOK' /\ FirstOK'
<1>1. lives' = lives
  BY DEF lives
<1>2. FreshOK'
  BY <1>1 DEF FreshOK
<1>3. FirstOK'
  BY <1>1 DEF FirstOK, EachLinkFromTheFirst
<1> QED
  BY <1>2, <1>3

\* The packets of a client come from an address.
LEMMA ToServerOK ==
  ASSUME ShapeOK, NEW c \in Clients, NEW F, NEW S, NEW N, NEW new,
         \A p \in new : PacketOf(FromClient, p, N, S)
  PROVE  \A m \in ToServer(c, new) : WireOK(F, S, N, m)
<1> SUFFICES ASSUME NEW m \in ToServer(c, new) PROVE WireOK(F, S, N, m)
  OBVIOUS
<1>1. PICK p \in new : m = [to |-> "server", address |-> client[c].address,
                            sender |-> client[c].identity, packet |-> p]
  BY DEF ToServer
<1>2. client[c].address \in Addresses
  BY DEF ShapeOK, IInv, TypeOK
<1> QED
  BY <1>1, <1>2 DEF WireOK

LEMMA ToClientOK ==
  ASSUME NEW a \in Addresses, NEW F, NEW S, NEW N, NEW new,
         \A p \in new : PacketOf(FromServer(F), p, S, N)
  PROVE  \A m \in ToClient(a, new) : WireOK(F, S, N, m)
<1> SUFFICES ASSUME NEW m \in ToClient(a, new) PROVE WireOK(F, S, N, m)
  OBVIOUS
<1>1. PICK p \in new : m = [to |-> "client", address |-> a,
                            sender |-> NoIdentity, packet |-> p]
  BY DEF ToClient
<1> QED
  BY <1>1 DEF WireOK

LEMMA ClientSendOK ==
  ASSUME ShortTraffic, ShapeOK, NEW F, NEW S, Joined(F, S),
         NEW c \in Clients, ClientSend(c)
  PROVE  \E T : Joined(F, T)'
<1> DEFINE ch == client_channel[c]
           p  == reliable_packet(ch, ch.send_sequence + 1, {})
           x  == send_reliable(ch, p)
           N  == server_sent
<1>1. PICK T : T = IF OneClient THEN S + 1 ELSE S
  OBVIOUS
<1>2. /\ DOMAIN client_channel = Clients /\ N \in 0 .. MaxServerSend
      /\ S \in 0 .. MaxClientSend /\ F \in [1 .. N -> Nat]
      /\ ~ OneClient => S = MaxClientSend
      /\ OneClient => ch.send_sequence = S
  BY DEF ShapeOK, ChannelsOK, Joined, CountsOK
<1>3. /\ client_channel' = [client_channel EXCEPT ![c] = x]
      /\ wire' = wire \cup ToServer(c, {p})
      /\ server_channel' = server_channel /\ server_sent' = server_sent
      /\ life' = life /\ server_got' = server_got /\ client_got' = client_got
      /\ ch.send_sequence < MaxClientSend
  BY DEF ClientSend, lifes, got
<1>4. ClientOK(F, S, N, ch, client_got[c])
  BY DEF Joined, ClientsOK
<1>5. /\ ClientOK(F, T, N, x, client_got[c])
      /\ x.send_sequence = ch.send_sequence + 1
      /\ PacketOf(FromClient, p, N, T)
      /\ T \in 0 .. MaxClientSend /\ S <= T
  BY <1>1, <1>2, <1>3, <1>4, ClientSends
<1> HIDE DEF x, p
<1>6. client_channel'[c] = x /\ \A d \in Clients : d # c =>
        client_channel'[d] = client_channel[d]
  BY <1>2, <1>3
<1>7. CountsOK(F, T)'
  <2>1. OneClient => \A d \in Clients : d = c
    BY DEF OneClient
  <2> QED
    BY <1>1, <1>2, <1>3, <1>5, <1>6, <2>1 DEF CountsOK
<1>8. Extends(F, F) /\ N <= N /\ N \in Nat /\ S \in Nat /\ T \in Nat
  BY <1>2, <1>5, LinkedAssumption DEF Extends
<1>9. ClientsOK(F, T)'
  <2> SUFFICES ASSUME NEW d \in Clients
               PROVE  ClientOK(F, T, server_sent', client_channel'[d], client_got'[d])
    BY DEF ClientsOK
  <2>1. CASE d = c
    BY <1>3, <1>5, <1>6, <2>1
  <2>2. CASE d # c
    <3>1. ClientOK(F, S, N, client_channel[d], client_got[d])
      BY DEF Joined, ClientsOK
    <3>2. ClientOK(F, T, N, client_channel[d], client_got[d])
      <4> HIDE DEF N
      <4> QED
        BY <1>2, <1>5, <1>8, <3>1, ClientMore
    <3> QED
      BY <1>3, <1>6, <2>2, <3>2
  <2> QED
    BY <2>1, <2>2
<1>10. ServersOK(F, T)'
  <2> SUFFICES ASSUME NEW a \in DOMAIN server_channel
               PROVE  ServerOK(F, T, N, server_channel[a], server_got[life[a]])
    BY <1>3 DEF ServersOK
  <2>1. ServerOK(F, S, N, server_channel[a], server_got[life[a]])
    BY DEF Joined, ServersOK
  <2> HIDE DEF N
  <2> QED
    BY <1>2, <1>5, <1>8, <2>1, ServerMore
<1>11. PacketsOK(F, T)'
  <2>1. \A m \in wire : WireOK(F, T, N, m)
    BY <1>5, <1>8, WireMore DEF Joined, PacketsOK
  <2>2. \A q \in {p} : PacketOf(FromClient, q, N, T)
    BY <1>5
  <2>3. \A m \in ToServer(c, {p}) : WireOK(F, T, N, m)
    BY <2>2, ToServerOK
  <2> QED
    BY <1>3, <2>1, <2>3 DEF PacketsOK
<1> QED
  BY <1>7, <1>9, <1>10, <1>11 DEF Joined

(***************************************************************************)
(* A step of clients that send nothing new.                                *)
(***************************************************************************)
LEMMA ClientStep ==
  ASSUME NEW F, NEW S, Joined(F, S),
         server_channel' = server_channel, server_sent' = server_sent,
         life' = life, server_got' = server_got,
         \A c \in Clients :
           /\ client_channel'[c].send_sequence = client_channel[c].send_sequence
           /\ ClientOK(F, S, server_sent, client_channel'[c], client_got'[c]),
         \A m \in wire' : WireOK(F, S, server_sent, m)
  PROVE  Joined(F, S)'
<1>1. CountsOK(F, S)'
  BY DEF Joined, CountsOK
<1>2. ClientsOK(F, S)' /\ PacketsOK(F, S)'
  BY DEF ClientsOK, PacketsOK
<1>3. ServersOK(F, S)'
  BY DEF Joined, ServersOK
<1> QED
  BY <1>1, <1>2, <1>3 DEF Joined

LEMMA ClientFrameOK ==
  ASSUME ShortTraffic, ShapeOK, NEW F, NEW S, Joined(F, S),
         NEW c \in Clients, ClientFrame(c)
  PROVE  Joined(F, S)'
<1> DEFINE ch == client_channel[c]
           N  == server_sent
<1>1. /\ DOMAIN client_channel = Clients /\ N \in 0 .. MaxServerSend
      /\ S \in 0 .. MaxClientSend
      /\ OneClient => ch.send_sequence = S
  BY DEF ShapeOK, ChannelsOK, Joined, CountsOK
<1>2. /\ client_channel' = [client_channel EXCEPT ![c] = update(ch)]
      /\ wire' = wire \cup ToServer(c, update_sends(ch))
      /\ server_channel' = server_channel /\ server_sent' = server_sent
      /\ life' = life /\ server_got' = server_got /\ client_got' = client_got
  BY DEF ClientFrame, lifes, got
<1>3. ClientOK(F, S, N, ch, client_got[c])
  BY DEF Joined, ClientsOK
<1>4. /\ ClientOK(F, S, N, update(ch), client_got[c])
      /\ update(ch).send_sequence = ch.send_sequence
      /\ \A p \in update_sends(ch) : PacketOf(FromClient, p, N, S)
  BY <1>1, <1>3, ClientUpdates
<1>5. \A d \in Clients :
        /\ client_channel'[d].send_sequence = client_channel[d].send_sequence
        /\ ClientOK(F, S, N, client_channel'[d], client_got'[d])
  BY <1>1, <1>2, <1>4 DEF Joined, ClientsOK
<1>6. \A m \in wire' : WireOK(F, S, N, m)
  <2>1. \A m \in ToServer(c, update_sends(ch)) : WireOK(F, S, N, m)
    BY <1>4, ToServerOK
  <2> QED
    BY <1>2, <2>1 DEF Joined, PacketsOK
<1> QED
  BY <1>2, <1>5, <1>6, ClientStep

LEMMA DrainOK ==
  ASSUME ShortTraffic, ShapeOK, NEW F, NEW S, Joined(F, S),
         NEW c \in Clients, Drain(c)
  PROVE  Joined(F, S)'
<1> DEFINE ch  == client_channel[c]
           N   == server_sent
           res == receive_published(ch)
<1>1. /\ DOMAIN client_channel = Clients /\ DOMAIN client_got = Clients
      /\ N \in 0 .. MaxServerSend /\ N \in Nat /\ F \in [1 .. N -> Nat]
  BY LinkedAssumption DEF ShapeOK, ChannelsOK, Joined, CountsOK
<1>2. /\ client_channel' = [client_channel EXCEPT ![c] = res.channel]
      /\ client_got' = [client_got EXCEPT ![c] = @ \o BodiesOf(res.messages)]
      /\ wire' = wire
      /\ server_channel' = server_channel /\ server_sent' = server_sent
      /\ life' = life /\ server_got' = server_got
  BY DEF Drain, lifes
<1>3. ClientOK(F, S, N, ch, client_got[c])
  BY DEF Joined, ClientsOK
<1>4. /\ ClientOK(F, S, N, res.channel, client_got[c] \o BodiesOf(res.messages))
      /\ res.channel.send_sequence = ch.send_sequence
  <2> HIDE DEF N
  <2> QED
    BY <1>1, <1>3, ClientTakes
<1> HIDE DEF res
<1>5. \A d \in Clients :
        /\ client_channel'[d].send_sequence = client_channel[d].send_sequence
        /\ ClientOK(F, S, N, client_channel'[d], client_got'[d])
  BY <1>1, <1>2, <1>4 DEF Joined, ClientsOK
<1>6. \A m \in wire' : WireOK(F, S, N, m)
  BY <1>2 DEF Joined, PacketsOK
<1> QED
  BY <1>2, <1>5, <1>6, ClientStep

LEMMA ClientReceiveOK ==
  ASSUME ShortTraffic, WindowFitsRing, ShapeOK, NEW F, NEW S, Joined(F, S),
         NEW m \in wire, ClientReceive(m)
  PROVE  Joined(F, S)'
<1> DEFINE N    == server_sent
           r(c) == receive_from_socket(client_channel[c], m.packet)
           here == {c \in Clients : client[c].address = m.address /\ is_linked(c)}
<1>1. N \in 0 .. MaxServerSend /\ N \in Nat /\ F \in [1 .. N -> Nat]
  BY LinkedAssumption DEF ShapeOK, ChannelsOK, Joined, CountsOK
<1>2. /\ wire' \subseteq wire
      /\ client_channel' = [c \in Clients |->
           IF c \in here THEN r(c).channel ELSE client_channel[c]]
      /\ client_got' = [c \in Clients |->
           IF c \in here THEN client_got[c] \o BodiesOf(r(c).messages)
                         ELSE client_got[c]]
      /\ server_channel' = server_channel /\ server_sent' = server_sent
      /\ life' = life /\ server_got' = server_got
  BY DEF ClientReceive, lifes
<1>3. PacketOf(FromServer(F), m.packet, S, N)
  BY DEF ClientReceive, Joined, PacketsOK, WireOK
<1> HIDE DEF here
<1>4. ASSUME NEW c \in Clients
      PROVE  /\ client_channel'[c].send_sequence = client_channel[c].send_sequence
             /\ ClientOK(F, S, N, client_channel'[c], client_got'[c])
  <2> DEFINE ch  == client_channel[c]
             res == receive_from_socket(ch, m.packet)
  <2>1. ClientOK(F, S, N, ch, client_got[c])
    BY DEF Joined, ClientsOK
  <2>2. CASE c \in here
    <3>1. /\ ClientOK(F, S, N, res.channel, client_got[c] \o BodiesOf(res.messages))
          /\ res.channel.send_sequence = ch.send_sequence
      <4> DEFINE p == m.packet
      <4>1. PacketOf(FromServer(F), p, S, N)
        BY <1>3
      <4> HIDE DEF N, p
      <4>2. LET x == receive_from_socket(ch, p)
            IN  /\ ClientOK(F, S, N, x.channel, client_got[c] \o BodiesOf(x.messages))
                /\ x.channel.send_sequence = ch.send_sequence
        BY <1>1, <2>1, <4>1, ClientReceives
      <4> QED
        BY <4>2 DEF p
    <3>2. /\ client_channel'[c] = res.channel
          /\ client_got'[c] = client_got[c] \o BodiesOf(res.messages)
      BY <1>2, <2>2
    <3> QED
      BY <3>1, <3>2
  <2>3. CASE c \notin here
    BY <1>2, <2>1, <2>3
  <2> QED
    BY <2>2, <2>3
<1>5. \A x \in wire' : WireOK(F, S, N, x)
  BY <1>2 DEF Joined, PacketsOK
<1> QED
  BY <1>2, <1>4, <1>5, ClientStep

(***************************************************************************)
(* Steps of the server.                                                    *)
(***************************************************************************)
LEMMA ServerSendOK ==
  ASSUME ShortTraffic, ShapeOK, FreshOK, FirstOK, NEW F, NEW S, Joined(F, S),
         NEW a \in Addresses, ServerSend(a)
  PROVE  (\E E : Joined(E, S)') /\ FreshOK' /\ FirstOK'
<1> DEFINE ch == server_channel[a]
           N  == server_sent
           K  == N + 1
           p  == reliable_packet(ch, K, {})
           x  == send_reliable(ch, p)
<1>1. PICK E : E = Adds(F, N, ch.send_sequence + 1)
  OBVIOUS
<1>2. /\ N \in 0 .. MaxServerSend /\ S \in 0 .. MaxClientSend
      /\ F \in [1 .. N -> Nat] /\ N \in Nat /\ S \in Nat /\ S <= S /\ N <= K
      /\ K \in Nat
  BY LinkedAssumption DEF ShapeOK, ChannelsOK, Joined, CountsOK
<1>3. /\ a \in DOMAIN server_channel
      /\ server_channel' = [server_channel EXCEPT ![a] = x]
      /\ wire' = wire \cup ToClient(a, {p})
      /\ client_channel' = client_channel /\ client_got' = client_got
      /\ life' = life /\ server_got' = server_got
      /\ N < MaxServerSend /\ server_sent' = K
  BY DEF ServerSend, lifes, got
<1>4. ServerOK(F, S, N, ch, server_got[life[a]])
  BY <1>3 DEF Joined, ServersOK
<1>5. /\ ServerOK(E, S, K, x, server_got[life[a]])
      /\ x.send_sequence = ch.send_sequence + 1
      /\ PacketOf(FromServer(E), p, S, K)
      /\ E \in [1 .. K -> Nat] /\ Extends(E, F)
      /\ K \in 0 .. MaxServerSend
  BY <1>1, <1>2, <1>3, <1>4, ServerSends
<1> HIDE DEF x, p
<1>6. /\ DOMAIN server_channel' = DOMAIN server_channel /\ server_channel'[a] = x
      /\ \A b \in DOMAIN server_channel :
           b # a => server_channel'[b] = server_channel[b]
  BY <1>3
<1>7. CountsOK(E, S)'
  BY <1>3, <1>5 DEF Joined, CountsOK
<1>8. ClientsOK(E, S)'
  <2> SUFFICES ASSUME NEW c \in Clients
               PROVE  ClientOK(E, S, K, client_channel[c], client_got[c])
    BY <1>3 DEF ClientsOK
  <2>1. ClientOK(F, S, N, client_channel[c], client_got[c])
    BY DEF Joined, ClientsOK
  <2> HIDE DEF N, K
  <2> QED
    BY <1>2, <1>5, <2>1, ClientMore
<1>9. ServersOK(E, S)'
  <2> SUFFICES ASSUME NEW b \in DOMAIN server_channel
               PROVE  ServerOK(E, S, K, server_channel'[b], server_got[life[b]])
    BY <1>3, <1>6 DEF ServersOK
  <2>1. CASE b = a
    BY <1>5, <1>6, <2>1
  <2>2. CASE b # a
    <3>1. ServerOK(F, S, N, server_channel[b], server_got[life[b]])
      BY DEF Joined, ServersOK
    <3>2. ServerOK(E, S, K, server_channel[b], server_got[life[b]])
      <4> HIDE DEF N, K
      <4> QED
        BY <1>2, <1>5, <3>1, ServerMore
    <3> QED
      BY <1>6, <2>2, <3>2
  <2> QED
    BY <2>1, <2>2
<1>10. PacketsOK(E, S)'
  <2>1. \A m \in wire : WireOK(E, S, K, m)
    <3>1. \A m \in wire : WireOK(F, S, N, m)
      BY DEF Joined, PacketsOK
    <3> HIDE DEF N, K
    <3> QED
      BY <1>2, <1>5, <3>1, WireMore
  <2>2. \A q \in {p} : PacketOf(FromServer(E), q, S, K)
    BY <1>5
  <2>3. \A m \in ToClient(a, {p}) : WireOK(E, S, K, m)
    <3> HIDE DEF K
    <3> QED
      BY <2>2, ToClientOK
  <2> QED
    BY <1>3, <2>1, <2>3 DEF PacketsOK
<1>11. Joined(E, S)'
  BY <1>7, <1>8, <1>9, <1>10 DEF Joined
<1>12. lives' = lives
  BY <1>3 DEF lives
<1>13. FreshOK'
  <2>1. /\ life[a] \in 1 .. lives /\ lives \in Nat
        /\ \A b \in DOMAIN server_channel : life[b] \in 1 .. lives
        /\ \A b \in DOMAIN server_channel : life[a] = life[b] => a = b
    BY <1>3, ListFacts DEF ShapeOK, LivesOK, lives
  <2> DEFINE n == lives
  <2>2. n # 0
    BY <2>1
  <2>3. ASSUME n <= 1, NEW b \in DOMAIN server_channel
        PROVE  server_channel'[b].send_sequence = K
    <3>1. life[a] = life[b]
      BY <2>1, <2>3
    <3>2. b = a
      BY <2>1, <3>1
    <3>3. ch.send_sequence = N
      BY <1>3, <2>3 DEF FreshOK
    <3> QED
      BY <1>5, <1>6, <3>2, <3>3
  <2> QED
    BY <1>3, <1>6, <1>12, <2>2, <2>3 DEF FreshOK
<1>14. FirstOK'
  BY <1>3, <1>12 DEF FirstOK, EachLinkFromTheFirst
<1> QED
  BY <1>11, <1>13, <1>14

LEMMA ServerFrameOK ==
  ASSUME ShortTraffic, ShapeOK, FreshOK, FirstOK, NEW F, NEW S, Joined(F, S),
         ServerFrame
  PROVE  Joined(F, S)' /\ FreshOK' /\ FirstOK'
<1> DEFINE N == server_sent
<1>1. /\ N \in 0 .. MaxServerSend /\ S \in 0 .. MaxClientSend
      /\ DOMAIN server_channel \subseteq Addresses
  BY DEF ShapeOK, ChannelsOK, Joined, CountsOK
<1>2. /\ server_channel' = [a \in DOMAIN server_channel |-> update(server_channel[a])]
      /\ wire' = wire \cup UNION {ToClient(a, update_sends(server_channel[a])) :
                                    a \in DOMAIN server_channel}
      /\ client_channel' = client_channel /\ client_got' = client_got
      /\ server_sent' = server_sent /\ life' = life /\ server_got' = server_got
  BY DEF ServerFrame, lifes, got
<1>3. ASSUME NEW a \in DOMAIN server_channel
      PROVE  /\ ServerOK(F, S, N, update(server_channel[a]), server_got[life[a]])
             /\ update(server_channel[a]).send_sequence
                  = server_channel[a].send_sequence
             /\ \A p \in update_sends(server_channel[a]) :
                  PacketOf(FromServer(F), p, S, N)
  <2>1. ServerOK(F, S, N, server_channel[a], server_got[life[a]])
    BY DEF Joined, ServersOK
  <2> QED
    BY <1>1, <2>1, ServerUpdates
<1>4. CountsOK(F, S)' /\ ClientsOK(F, S)'
  BY <1>2 DEF Joined, CountsOK, ClientsOK
<1>5. ServersOK(F, S)'
  BY <1>2, <1>3 DEF ServersOK
<1>6. PacketsOK(F, S)'
  <2>1. ASSUME NEW a \in DOMAIN server_channel
        PROVE  \A m \in ToClient(a, update_sends(server_channel[a])) :
                 WireOK(F, S, N, m)
    BY <1>1, <1>3, ToClientOK
  <2> QED
    BY <1>2, <2>1 DEF Joined, PacketsOK
<1>7. Joined(F, S)'
  BY <1>4, <1>5, <1>6 DEF Joined
<1>8. lives' = lives
  BY <1>2 DEF lives
<1>9. FreshOK'
  BY <1>2, <1>3, <1>8 DEF FreshOK
<1>10. FirstOK'
  BY <1>2, <1>8 DEF FirstOK, EachLinkFromTheFirst
<1> QED
  BY <1>7, <1>9, <1>10

\* A step that leaves channel x with address a, where given was got.
LEMMA ServerStep ==
  ASSUME ShortTraffic, ShapeOK, FreshOK, FirstOK, NEW F, NEW S, Joined(F, S),
         NEW a \in DOMAIN server_channel, NEW x, NEW given,
         server_channel' = [server_channel EXCEPT ![a] = x],
         server_got' = [server_got EXCEPT ![life[a]] = given],
         client_channel' = client_channel, client_got' = client_got,
         server_sent' = server_sent, life' = life, wire' \subseteq wire,
         ServerOK(F, S, server_sent, x, given),
         x.send_sequence = server_channel[a].send_sequence
  PROVE  Joined(F, S)' /\ FreshOK' /\ FirstOK'
<1> DEFINE N == server_sent
           j == life[a]
           g == [server_got EXCEPT ![j] = given]
<1>1. /\ IsList(server_got) /\ Len(server_got) = lives /\ lives \in Nat
      /\ DOMAIN server_got = 1 .. lives
      /\ \A b \in DOMAIN server_channel : life[b] \in 1 .. lives
      /\ \A b \in DOMAIN server_channel : life[a] = life[b] => a = b
  BY ListFacts DEF ShapeOK, LivesOK, lives
<1>2. /\ IsList(g) /\ Len(g) = Len(server_got)
      /\ j \in DOMAIN server_got => g[j] = given
      /\ \A k \in DOMAIN server_got : k # j => g[k] = server_got[k]
  BY <1>1, ListExcept
<1>3. lives' = lives /\ server_got' = g
  BY <1>2 DEF lives
<1> HIDE DEF g
<1>4. /\ DOMAIN server_channel' = DOMAIN server_channel /\ server_channel'[a] = x
      /\ \A b \in DOMAIN server_channel :
           b # a => server_channel'[b] = server_channel[b]
  OBVIOUS
<1>5. CountsOK(F, S)' /\ ClientsOK(F, S)' /\ PacketsOK(F, S)'
  BY DEF Joined, CountsOK, ClientsOK, PacketsOK
<1>6. ServersOK(F, S)'
  <2> SUFFICES ASSUME NEW b \in DOMAIN server_channel
               PROVE  ServerOK(F, S, N, server_channel'[b], g[life[b]])
    BY <1>3, <1>4 DEF ServersOK
  <2>1. CASE b = a
    BY <1>1, <1>2, <1>4, <2>1
  <2>2. CASE b # a
    <3>1. g[life[b]] = server_got[life[b]]
      BY <1>1, <1>2, <2>2
    <3> QED
      BY <1>4, <2>2, <3>1 DEF Joined, ServersOK
  <2> QED
    BY <2>1, <2>2
<1>7. Joined(F, S)'
  BY <1>5, <1>6 DEF Joined
<1>8. FreshOK'
  BY <1>3, <1>4 DEF FreshOK
<1>9. FirstOK'
  <2>1. ASSUME NEW k \in 1 .. lives'
        PROVE  \/ \E b \in DOMAIN server_channel' : life'[b] = k
               \/ k \in 1 .. lives /\ server_got'[k] = server_got[k]
               \/ server_got'[k] = << >>
    <3>1. CASE k = j
      BY <1>4, <3>1
    <3>2. CASE k # j
      BY <1>1, <1>2, <1>3, <3>2
    <3> QED
      BY <3>1, <3>2
  <2> QED
    BY <1>7, <2>1, FirstStep
<1> QED
  BY <1>7, <1>8, <1>9

LEMMA ServerDrainOK ==
  ASSUME ShortTraffic, ShapeOK, FreshOK, FirstOK, NEW F, NEW S, Joined(F, S),
         NEW a \in Addresses, ServerDrain(a)
  PROVE  Joined(F, S)' /\ FreshOK' /\ FirstOK'
<1> DEFINE ch  == server_channel[a]
           N   == server_sent
           res == receive_published(ch)
           x   == res.channel
           y   == server_got[life[a]] \o BodiesOf(res.messages)
<1>1. a \in DOMAIN server_channel /\ S \in 0 .. MaxClientSend
  BY DEF ServerDrain, Joined, CountsOK
<1>2. ServerOK(F, S, N, ch, server_got[life[a]])
  BY <1>1 DEF Joined, ServersOK
<1>3. ServerOK(F, S, N, x, y) /\ x.send_sequence = ch.send_sequence
  BY <1>1, <1>2, ServerTakes
<1>4. /\ server_channel' = [server_channel EXCEPT ![a] = x]
      /\ server_got' = [server_got EXCEPT ![life[a]] = y]
      /\ client_channel' = client_channel /\ client_got' = client_got
      /\ server_sent' = server_sent /\ life' = life /\ wire' \subseteq wire
  BY DEF ServerDrain, lifes
<1> HIDE DEF x, y
<1> QED
  BY <1>1, <1>3, <1>4, ServerStep

LEMMA ServerReceiveOK ==
  ASSUME ShortTraffic, WindowFitsRing, ShapeOK, FreshOK, FirstOK,
         NEW F, NEW S, Joined(F, S), NEW m \in wire, ServerReceive(m)
  PROVE  Joined(F, S)' /\ FreshOK' /\ FirstOK'
<1> DEFINE a   == m.address
           ch  == server_channel[a]
           N   == server_sent
           p   == m.packet
           res == receive_from_socket(ch, p)
           x   == res.channel
           y   == server_got[life[a]] \o BodiesOf(res.messages)
<1>1. /\ a \in Addresses /\ PacketOf(FromClient, p, N, S)
      /\ S \in 0 .. MaxClientSend
  BY DEF ServerReceive, Joined, PacketsOK, WireOK, CountsOK
<1>2. /\ client_channel' = client_channel /\ client_got' = client_got
      /\ server_sent' = server_sent /\ life' = life /\ wire' \subseteq wire
  BY DEF ServerReceive, lifes
<1>3. CASE ~ validate_and_update_linked_connection(a)
  <2>1. server_channel' = server_channel /\ server_got' = server_got
    BY <1>3 DEF ServerReceive
  <2>2. FreshOK' /\ FirstOK'
    BY <1>2, <2>1, ServerStays
  <2>3. Joined(F, S)'
    BY <1>2, <2>1 DEF Joined, CountsOK, ClientsOK, ServersOK, PacketsOK
  <2> QED
    BY <2>2, <2>3
<1>4. CASE validate_and_update_linked_connection(a)
  <2>1. a \in DOMAIN server_channel
    <3>1. connections[a] # NoIdentity
      BY <1>4, NoIdentityFacts DEF validate_and_update_linked_connection
    <3>2. channels[a] # 0
      BY <1>1, <3>1 DEF ShapeOK, IInv, ChannelsFollowConnections
    <3> QED
      BY <1>1, <3>2 DEF ShapeOK, ChannelsOK
  <2>2. ServerOK(F, S, N, ch, server_got[life[a]])
    BY <2>1 DEF Joined, ServersOK
  <2>3. /\ server_channel' = [server_channel EXCEPT ![a] = x]
        /\ server_got' = [server_got EXCEPT ![life[a]] = y]
    BY <1>4 DEF ServerReceive
  <2>4. ServerOK(F, S, N, x, y) /\ x.send_sequence = ch.send_sequence
    <3> DEFINE given == server_got[life[a]]
    <3> HIDE DEF N, p, ch, given
    <3> QED
      BY <1>1, <2>2, ServerReceives DEF given
  <2> HIDE DEF x, y, a
  <2> QED
    BY <1>2, <2>1, <2>3, <2>4, ServerStep
<1> QED
  BY <1>3, <1>4

-----------------------------------------------------------------------------
LEMMA LinkedInitOK ==
  ASSUME ShortTraffic PROVE LinkedInit => LInv
<1> SUFFICES ASSUME LinkedInit PROVE LInv
  OBVIOUS
<1>1. PICK S : S = IF OneClient THEN 0 ELSE MaxClientSend
  OBVIOUS
<1>2. S \in Nat /\ S \in 0 .. MaxClientSend
  BY <1>1, LinkedAssumption
<1>3. /\ server_sent = 0 /\ wire = {} /\ server_channel = << >> /\ server_got = << >>
      /\ \A c \in Clients : /\ client_channel[c] = create_channel(Ordered)
                            /\ client_got[c] = << >>
  BY DEF LinkedInit
<1>4. /\ ClientOK(<< >>, S, 0, create_channel(Ordered), << >>)
      /\ create_channel(Ordered).send_sequence = 0
  BY <1>2, ClientStart
<1>5. CountsOK(<< >>, S)
  <2>1. << >> \in [1 .. 0 -> Nat]
    OBVIOUS
  <2> QED
    BY <1>1, <1>2, <1>3, <1>4, <2>1 DEF CountsOK
<1>6. ClientsOK(<< >>, S)
  BY <1>3, <1>4 DEF ClientsOK
<1>7. ServersOK(<< >>, S) /\ PacketsOK(<< >>, S)
  BY <1>3 DEF ServersOK, PacketsOK
<1>8. Joined(<< >>, S)
  BY <1>5, <1>6, <1>7 DEF Joined
<1>9. FreshOK /\ FirstOK
  BY <1>3 DEF FreshOK, FirstOK, EachLinkFromTheFirst, lives
<1> QED
  BY <1>8, <1>9, InitShape DEF LInv

LEMMA LinkedNextOK ==
  ASSUME ShortTraffic, WindowFitsRing, LInv, [LinkedNext]_linkedVars
  PROVE  LInv'
<1>1. ShapeOK'
  BY NextShape DEF LInv
<1>2. ShapeOK /\ FreshOK /\ FirstOK
  BY DEF LInv
<1>3. PICK F, S : Joined(F, S)
  BY DEF LInv
<1>4. SUFFICES (\E E, T : Joined(E, T)') /\ FreshOK' /\ FirstOK'
  BY <1>1 DEF LInv
<1>5. CASE IdentityStep
  BY <1>2, <1>3, <1>5, IdentityStepOK
<1>6. ASSUME NEW c \in Clients, ClientSend(c)
      PROVE  (\E E, T : Joined(E, T)') /\ FreshOK' /\ FirstOK'
  <2>1. \E T : Joined(F, T)'
    BY <1>2, <1>3, <1>6, ClientSendOK
  <2>2. FreshOK' /\ FirstOK'
    BY <1>2, <1>6, ServerStays DEF ClientSend, got
  <2> QED
    BY <2>1, <2>2
<1>7. ASSUME NEW c \in Clients, ClientFrame(c) \/ Drain(c)
      PROVE  Joined(F, S)' /\ FreshOK' /\ FirstOK'
  <2>1. Joined(F, S)'
    BY <1>2, <1>3, <1>7, ClientFrameOK, DrainOK
  <2>2. FreshOK' /\ FirstOK'
    BY <1>2, <1>7, ServerStays DEF ClientFrame, Drain, got
  <2> QED
    BY <2>1, <2>2
<1>8. ASSUME NEW a \in Addresses, ServerSend(a)
      PROVE  (\E E, T : Joined(E, T)') /\ FreshOK' /\ FirstOK'
  <2>1. (\E E : Joined(E, S)') /\ FreshOK' /\ FirstOK'
    BY <1>2, <1>3, <1>8, ServerSendOK
  <2> QED
    BY <2>1
<1>9. ASSUME NEW a \in Addresses, ServerDrain(a)
      PROVE  Joined(F, S)' /\ FreshOK' /\ FirstOK'
  BY <1>2, <1>3, <1>9, ServerDrainOK
<1>10. CASE ServerFrame
  BY <1>2, <1>3, <1>10, ServerFrameOK
<1>11. ASSUME NEW m \in wire, ServerReceive(m)
       PROVE  Joined(F, S)' /\ FreshOK' /\ FirstOK'
  BY <1>2, <1>3, <1>11, ServerReceiveOK
<1>12. ASSUME NEW m \in wire, ClientReceive(m)
       PROVE  Joined(F, S)' /\ FreshOK' /\ FirstOK'
  <2>1. Joined(F, S)'
    BY <1>2, <1>3, <1>12, ClientReceiveOK
  <2>2. FreshOK' /\ FirstOK'
    BY <1>2, <1>12, ServerStays DEF ClientReceive
  <2> QED
    BY <2>1, <2>2
<1>13. CASE UNCHANGED linkedVars
  <2>1. /\ server_channel' = server_channel /\ server_sent' = server_sent
        /\ server_got' = server_got /\ client_channel' = client_channel
        /\ client_got' = client_got /\ wire' = wire /\ life' = life
    BY <1>13 DEF linkedVars, ends, lifes, got
  <2>2. FreshOK' /\ FirstOK'
    BY <1>2, <2>1, ServerStays
  <2>3. Joined(F, S)'
    BY <1>3, <2>1 DEF Joined, CountsOK, ClientsOK, ServersOK, PacketsOK
  <2> QED
    BY <2>2, <2>3
<1> QED
  BY <1>5, <1>6, <1>7, <1>8, <1>9, <1>10, <1>11, <1>12, <1>13 DEF LinkedNext

LEMMA AlwaysLinked ==
  ASSUME ShortTraffic, WindowFitsRing
  PROVE  LinkedSpec => []LInv
<1>1. LinkedInit => LInv
  BY LinkedInitOK
<1>2. LInv /\ [LinkedNext]_linkedVars => LInv'
  BY LinkedNextOK
<1> QED
  BY <1>1, <1>2, PTL DEF LinkedSpec

(***************************************************************************)
(* No client gets a message of the server's twice, with any number of      *)
(* clients, although a new channel of the server uses the sequences of the *)
(* old one again, and clients take over each other's addresses.            *)
(***************************************************************************)
THEOREM EachClientGetsOnce ==
  ASSUME ShortTraffic, WindowFitsRing
  PROVE  LinkedSpec => []ClientGetsOnce
<1>1. LInv => ClientGetsOnce
  BY DEF LInv, Joined, ClientsOK, ClientOK, OnceIn, ClientGetsOnce
<1> QED
  BY <1>1, AlwaysLinked, PTL

(***************************************************************************)
(* With one client and an ordered channel, whose window all the client's   *)
(* messages fit in, the server gets over each channel it makes the         *)
(* client's messages from the first on, in order and without a hole.       *)
(***************************************************************************)
THEOREM LinksStartAtTheFirst ==
  ASSUME ShortTraffic, WindowFitsRing, OneClient, WithinWindow, Ordered
  PROVE  LinkedSpec => []EachLinkFromTheFirst
<1>1. LInv => EachLinkFromTheFirst
  BY DEF LInv, FirstOK
<1> QED
  BY <1>1, AlwaysLinked, PTL

(***************************************************************************)
(* With one client, until the first relink neither end has received a      *)
(* sequence the other did not send, and what is nacked is held.            *)
(***************************************************************************)
THEOREM LinkingIsSound ==
  ASSUME ShortTraffic, WindowFitsRing, OneClient
  PROVE  LinkedSpec => []SoundUntilRelink
<1>1. ASSUME NEW P, NEW M \in Nat, M < SEND_BUFFER_SIZE, NEW N, NEW ch,
             P \subseteq Written, HalfOK(P, ch, M, N), N = ch.send_sequence,
             NEW s \in ch.nacked
      PROVE  ch.buffers[SendSlot(s)] # None
  <2>1. s \in 1 .. N /\ N \in 0 .. M /\ SEND_BUFFER_SIZE \in Nat
    BY <1>1, ChannelAssumption DEF HalfOK
  <2>2. SendSlot(s) = s
    BY <1>1, <2>1, SendSlotIs
  <2>3. ch.buffers[s] \in P
    BY <1>1, <2>1 DEF HalfOK
  <2> QED
    BY <1>1, <2>2, <2>3, CarriedType
<1>2. LInv => SoundUntilRelink
  <2> SUFFICES ASSUME LInv, lives <= 1,
                      NEW c \in Clients, NEW a \in DOMAIN server_channel
               PROVE  LET near == client_channel[c]
                          far  == server_channel[a]
                          held(ch) == \A s \in ch.nacked :
                                        ch.buffers[SendSlot(s)] # None
                      IN  /\ near.receiver.last_sequence <= far.send_sequence
                          /\ far.receiver.last_sequence <= near.send_sequence
                          /\ held(near) /\ held(far)
    BY DEF SoundUntilRelink
  <2> DEFINE near == client_channel[c]
             far  == server_channel[a]
             N    == server_sent
  <2>1. PICK F, S : Joined(F, S)
    BY DEF LInv
  <2>2. /\ S \in 0 .. MaxClientSend /\ near.send_sequence = S
        /\ N \in 0 .. MaxServerSend /\ far.send_sequence = N
    BY <2>1 DEF Joined, CountsOK, LInv, ShapeOK, ChannelsOK, FreshOK
  <2>3. /\ HalfOK(Message, near, MaxClientSend, S) /\ near.receiver.last_sequence <= N
    BY <2>1 DEF Joined, ClientsOK, ClientOK, GaveOK
  <2>4. /\ HalfOK(Cargo(F), far, N, N) /\ far.receiver.last_sequence <= S
    BY <2>1 DEF Joined, ServersOK, ServerOK, GaveOK
  <2>5. /\ MaxClientSend \in Nat /\ MaxClientSend < SEND_BUFFER_SIZE
        /\ N \in Nat /\ N < SEND_BUFFER_SIZE
    BY <2>2, Limits
  <2>6. Message \subseteq Written /\ Cargo(F) \subseteq Written
    BY DEF Message, Cargo
  <2> HIDE DEF near, far, N
  <2>7. \A s \in near.nacked : near.buffers[SendSlot(s)] # None
    BY <1>1, <2>2, <2>3, <2>5, <2>6
  <2>8. \A s \in far.nacked : far.buffers[SendSlot(s)] # None
    BY <1>1, <2>2, <2>4, <2>5, <2>6
  <2> QED
    BY <2>2, <2>3, <2>4, <2>7, <2>8 DEF near, far
<1> QED
  BY <1>2, AlwaysLinked, PTL
=============================================================================
