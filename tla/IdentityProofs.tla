--------------------------- MODULE IdentityProofs ---------------------------
(***************************************************************************)
(* The server's tables stay consistent for any number of clients,          *)
(* addresses, identities and sessions, and whatever the network does.      *)
(***************************************************************************)
EXTENDS Identity, TLAPS

(***************************************************************************)
(* The inductive invariant: the three safety properties need each other    *)
(* and the types of the tables.                                            *)
(***************************************************************************)
IInv ==
  /\ TypeOK
  /\ OneConnectionPerIdentity
  /\ NoStaleSession
  /\ ChannelsFollowConnections

LEMMA NoIdentityFacts ==
  /\ 0 \notin Ids /\ 0 \notin Sessions
  /\ NoIdentity \notin Identities
  /\ NoIdentity.id = 0
  /\ \A i \in Identities : i.id \in Ids /\ i.session_id \in Sessions
BY IdentityAssumption DEF NoIdentity, Identities

(***************************************************************************)
(* What is left after remove_connection_by_identity.                       *)
(***************************************************************************)
LEMMA RemoveFacts ==
  ASSUME TypeOK, NEW id \in Ids
  PROVE  LET rest == remove_connection_by_identity(id)
         IN  /\ rest.connections \in [Addresses -> Identities \cup {NoIdentity}]
             /\ rest.channels \in [Addresses -> Ids \cup {0}]
             /\ \A a \in Addresses :
                  /\ connections[a].id = id =>
                       rest.connections[a] = NoIdentity /\ rest.channels[a] = 0
                  /\ connections[a].id # id =>
                       /\ rest.connections[a] = connections[a]
                       /\ rest.channels[a] = channels[a]
BY DEF TypeOK, remove_connection_by_identity

(***************************************************************************)
(* A packet on the network has the type of its kind.                       *)
(***************************************************************************)
LEMMA PacketFacts ==
  /\ \A m \in Packets :
       /\ m.address \in Addresses
       /\ m.type \in {"LINK_IDENTITY", "UNLINK_IDENTITY"}
            => m.identity \in Identities
  /\ \A a \in Addresses :
       /\ Answer("IDENTITY_LINKED", a) \in Packets
       /\ Answer("IDENTITY_UNLINKED", a) \in Packets
       /\ \A i \in Identities : /\ Request("LINK_IDENTITY", a, i) \in Packets
                                /\ Request("UNLINK_IDENTITY", a, i) \in Packets
BY DEF Packets, Answer, Request

LEMMA InitIInv == Init => IInv
<1> SUFFICES ASSUME Init PROVE IInv
  OBVIOUS
<1>1. TypeOK
  BY NoIdentityFacts DEF Init, TypeOK
<1> QED
  BY <1>1, NoIdentityFacts
  DEF Init, IInv, OneConnectionPerIdentity, NoStaleSession,
      ChannelsFollowConnections

\* Linking an identity at an address
LEMMA LinkIInv ==
  ASSUME IInv, NEW m \in Packets, m.type = "LINK_IDENTITY",
         NEW left \in SUBSET Packets, UNCHANGED client,
         try_link_identity(m.address, m.identity, left)
  PROVE  IInv'
<1> DEFINE a == m.address
           i == m.identity
           rest == remove_connection_by_identity(i.id)
<1>0. a \in Addresses /\ i \in Identities
  BY PacketFacts
<1>1. CASE ~ links_anew(a, i)
  BY <1>1, SMT DEF try_link_identity, IInv, TypeOK, OneConnectionPerIdentity,
      NoStaleSession, ChannelsFollowConnections, server
<1>2. CASE links_anew(a, i)
  <2> USE <1>0, <1>2
  <2>1. /\ connections' = [rest.connections EXCEPT ![a] = i]
        /\ channels' = [rest.channels EXCEPT ![a] = IF @ = 0 THEN i.id ELSE @]
        /\ identity_to_address_map' = [identity_to_address_map EXCEPT ![i.id] = a]
        /\ net' = left \cup {Answer("IDENTITY_LINKED", a)}
        /\ UNCHANGED identities
    BY DEF try_link_identity
  <2>2. /\ rest.connections \in [Addresses -> Identities \cup {NoIdentity}]
        /\ rest.channels \in [Addresses -> Ids \cup {0}]
        /\ \A b \in Addresses :
             /\ connections[b].id = i.id =>
                  rest.connections[b] = NoIdentity /\ rest.channels[b] = 0
             /\ connections[b].id # i.id =>
                  /\ rest.connections[b] = connections[b]
                  /\ rest.channels[b] = channels[b]
    BY RemoveFacts, NoIdentityFacts DEF IInv
  <2> HIDE DEF rest
  <2>3. TypeOK'
    BY <2>1, <2>2, NoIdentityFacts, PacketFacts DEF IInv, TypeOK
  <2>4. OneConnectionPerIdentity'
    BY <2>1, <2>2, NoIdentityFacts
    DEF IInv, TypeOK, OneConnectionPerIdentity
  <2>5. NoStaleSession'
    BY <2>1, <2>2, NoIdentityFacts
    DEF IInv, TypeOK, NoStaleSession, links_anew, session_is_current
  <2>6. ChannelsFollowConnections'
    BY <2>1, <2>2, NoIdentityFacts DEF IInv, TypeOK, ChannelsFollowConnections
  <2> QED
    BY <2>3, <2>4, <2>5, <2>6 DEF IInv
<1> QED
  BY <1>1, <1>2

\* The tables after an identity lost its connections
LEMMA RemovedIInv ==
  ASSUME IInv, NEW id \in Ids,
         connections' = remove_connection_by_identity(id).connections,
         channels' = remove_connection_by_identity(id).channels,
         \A i \in Ids \ {id} :
           /\ identities'[i] = identities[i]
           /\ identity_to_address_map'[i] = identity_to_address_map[i],
         TypeOK'
  PROVE  IInv'
<1>1. \A a \in Addresses :
        /\ connections[a].id = id => connections'[a] = NoIdentity /\ channels'[a] = 0
        /\ connections[a].id # id => /\ connections'[a] = connections[a]
                                     /\ channels'[a] = channels[a]
  BY RemoveFacts DEF IInv
<1>2. \A a \in Addresses :
        connections'[a] # NoIdentity =>
          /\ connections'[a] = connections[a]
          /\ connections[a].id \in Ids \ {id}
  BY <1>1, NoIdentityFacts DEF IInv, TypeOK
<1>3. OneConnectionPerIdentity'
  BY <1>1, <1>2, NoIdentityFacts DEF IInv, TypeOK, OneConnectionPerIdentity
<1>4. NoStaleSession'
  BY <1>2 DEF IInv, NoStaleSession
<1>5. ChannelsFollowConnections'
  BY <1>1, NoIdentityFacts DEF IInv, ChannelsFollowConnections
<1> QED
  BY <1>3, <1>4, <1>5 DEF IInv

\* Unlinking an identity
LEMMA UnlinkIInv ==
  ASSUME IInv, NEW m \in Packets, m.type = "UNLINK_IDENTITY",
         NEW left \in SUBSET Packets, UNCHANGED client,
         try_unlink_identity(m.address, m.identity, left)
  PROVE  IInv'
<1> DEFINE a == m.address
           i == m.identity
           refused == identities[i.id] # 0 /\ ~ session_is_current(i)
<1>0. a \in Addresses /\ i \in Identities /\ i.id \in Ids
  BY PacketFacts, NoIdentityFacts
<1>1. CASE refused \/ identities[i.id] = 0
  <2>1. UNCHANGED server /\ net' \subseteq Packets
    BY <1>0, <1>1, PacketFacts DEF try_unlink_identity
  <2> QED
    BY <2>1 DEF IInv, TypeOK, OneConnectionPerIdentity, NoStaleSession,
                ChannelsFollowConnections, server
<1>2. CASE ~ (refused \/ identities[i.id] = 0)
  <2>1. /\ connections' = remove_connection_by_identity(i.id).connections
        /\ channels' = remove_connection_by_identity(i.id).channels
        /\ identity_to_address_map' =
             [identity_to_address_map EXCEPT ![i.id] = NoAddress]
        /\ net' = left \cup {Answer("IDENTITY_UNLINKED", a)}
        /\ UNCHANGED identities
    BY <1>2 DEF try_unlink_identity
  <2>2. TypeOK'
    BY <1>0, <2>1, RemoveFacts, PacketFacts DEF IInv, TypeOK
  <2> QED
    BY <1>0, <2>1, <2>2, RemovedIInv DEF IInv, TypeOK
<1> QED
  BY <1>1, <1>2

\* A packet handled by whichever end it is for
LEMMA HandleIInv ==
  ASSUME IInv, NEW m \in Packets, NEW left \in SUBSET Packets,
         ServerHandles(m, left) \/ ClientHandles(m, left)
  PROVE  IInv'
<1>1. CASE ServerHandles(m, left)
  BY <1>1, LinkIInv, UnlinkIInv DEF ServerHandles
<1>2. CASE ClientHandles(m, left)
  <2>1. UNCHANGED server /\ net' = left
    BY <1>2 DEF ClientHandles
  <2>2. client' \in [Clients -> [identity : Identities, linked : {0, 1},
                                 address : Addresses]]
    BY <1>2 DEF ClientHandles, IInv, TypeOK
  <2> QED
    BY <2>1, <2>2 DEF IInv, TypeOK, OneConnectionPerIdentity, NoStaleSession,
                      ChannelsFollowConnections, server
<1> QED
  BY <1>1, <1>2

LEMMA NextIInv == IInv /\ [Next]_vars => IInv'
<1> SUFFICES ASSUME IInv, [Next]_vars PROVE IInv'
  OBVIOUS
<1>1. ASSUME NEW id \in Ids, NEW s \in Sessions \cup {0}, SetIdentity(id, s)
      PROVE  IInv'
  <2>1. TypeOK'
    BY <1>1, RemoveFacts DEF SetIdentity, IInv, TypeOK
  <2> QED
    BY <1>1, <2>1, RemovedIInv DEF SetIdentity, IInv, TypeOK
<1>2. ASSUME NEW c \in Clients,
             \/ ClientUpdate(c) \/ SendUnlink(c)
             \/ \E i \in Identities : SetOwnIdentity(c, i)
             \/ \E a \in Addresses : ChangeAddress(c, a)
      PROVE  IInv'
  <2>1. UNCHANGED server
    BY <1>2 DEF ClientUpdate, SendUnlink, SetOwnIdentity, ChangeAddress
  <2>2. net \subseteq Packets
    BY DEF IInv, TypeOK
  <2>3. /\ client[c].address \in Addresses
        /\ client[c].identity \in Identities
    BY DEF IInv, TypeOK
  <2>4. net' \subseteq Packets
    BY <1>2, <2>2, <2>3, PacketFacts
    DEF ClientUpdate, SendUnlink, SetOwnIdentity, ChangeAddress
  <2>5. client' \in [Clients -> [identity : Identities, linked : {0, 1},
                                 address : Addresses]]
    <3>1. CASE ClientUpdate(c) \/ SendUnlink(c)
      BY <3>1 DEF ClientUpdate, SendUnlink, IInv, TypeOK
    <3>2. ASSUME NEW i \in Identities, SetOwnIdentity(c, i)
          PROVE  client' \in [Clients -> [identity : Identities,
                                          linked : {0, 1}, address : Addresses]]
      BY <3>2 DEF SetOwnIdentity, IInv, TypeOK
    <3>3. ASSUME NEW a \in Addresses, ChangeAddress(c, a)
          PROVE  client' \in [Clients -> [identity : Identities,
                                          linked : {0, 1}, address : Addresses]]
      BY <3>3 DEF ChangeAddress, IInv, TypeOK
    <3> QED
      BY <1>2, <3>1, <3>2, <3>3
  <2> QED
    BY <2>1, <2>4, <2>5
    DEF IInv, TypeOK, OneConnectionPerIdentity, NoStaleSession,
        ChannelsFollowConnections, server
<1>3. ASSUME NEW m \in net, Receive(m) \/ ReceiveCopy(m)
      PROVE  IInv'
  <2>1. m \in Packets /\ net \in SUBSET Packets /\ net \ {m} \in SUBSET Packets
    BY DEF IInv, TypeOK
  <2> QED
    BY <1>3, <2>1, HandleIInv DEF Receive, ReceiveCopy
<1>4. ASSUME NEW m \in net, Lose(m)
      PROVE  IInv'
  BY <1>4 DEF Lose, IInv, TypeOK, OneConnectionPerIdentity, NoStaleSession,
              ChannelsFollowConnections, server
<1>5. CASE UNCHANGED vars
  BY <1>5 DEF IInv, TypeOK, OneConnectionPerIdentity, NoStaleSession,
              ChannelsFollowConnections, server, vars
<1> QED
  BY <1>1, <1>2, <1>3, <1>4, <1>5 DEF Next

(***************************************************************************)
(* The inductive invariant holds in every reachable state.                 *)
(***************************************************************************)
THEOREM TablesInvariant == Spec => []IInv
BY InitIInv, NextIInv, PTL DEF Spec

(***************************************************************************)
(* Type correctness of the server's tables, the clients and the network.   *)
(***************************************************************************)
THEOREM TypeCorrect == Spec => []TypeOK
<1>1. IInv => TypeOK
  BY DEF IInv
<1> QED
  BY <1>1, TablesInvariant, PTL

(***************************************************************************)
(* try_link_identity keeps an identity at one address, and the map knows   *)
(* it, under any interleaving of requests from any clients.                *)
(***************************************************************************)
THEOREM IdentityHasOneAddress == Spec => []OneConnectionPerIdentity
<1>1. IInv => OneConnectionPerIdentity
  BY DEF IInv
<1> QED
  BY <1>1, TablesInvariant, PTL

(***************************************************************************)
(* set_identity cuts off every connection of the old session for good.     *)
(***************************************************************************)
THEOREM SessionsAreCurrent == Spec => []NoStaleSession
<1>1. IInv => NoStaleSession
  BY DEF IInv
<1> QED
  BY <1>1, TablesInvariant, PTL

(***************************************************************************)
(* create_connection and remove_connection keep channels with connections. *)
(***************************************************************************)
THEOREM ChannelsMatch == Spec => []ChannelsFollowConnections
<1>1. IInv => ChannelsFollowConnections
  BY DEF IInv
<1> QED
  BY <1>1, TablesInvariant, PTL
=============================================================================
