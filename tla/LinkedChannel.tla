--------------------------- MODULE LinkedChannel ----------------------------
(***************************************************************************)
(* Identities and channels together: the endpoints of src/tachyon.rs with  *)
(* use_identity on.  The server's channels to an address are made when an  *)
(* identity is linked there and dropped with its connection; a client has  *)
(* one channel, made in connect, that outlives every link.  Both ends hold *)
(* back messages until the identity is established.                        *)
(*                                                                         *)
(* Identity gives the tables and their packets, Channel the two ends of a  *)
(* channel; here they share the endpoints.  A message's body is its number *)
(* among all that its sender sent, whichever channel carried it.  A lost   *)
(* packet is one that is never received.                                   *)
(***************************************************************************)
EXTENDS Identity, Channel

CONSTANTS
  Ordered,              \* the configuration of the channel
  MaxClientSend,        \* bound: messages each client sends
  MaxServerSend         \* bound: messages the server sends

ASSUME LinkedAssumption ==
  Ordered \in BOOLEAN /\ MaxClientSend \in Nat /\ MaxServerSend \in Nat

VARIABLES
  client_channel,       \* each client's channel
  server_channel,       \* the server's channel to each address that has one
  wire,                 \* channel packets in flight
  server_sent,          \* messages the server sent
  life,                 \* history: which server channel an address has
  established,          \* history: identities the server ever linked
  server_got,           \* history: what the server got over each channel it made
  client_got            \* history: what each client's application got

ends  == <<client_channel, server_channel, server_sent>>
lifes == <<life, established>>
got   == <<server_got, client_got>>
linkedVars == <<vars, ends, wire, lifes, got>>

\* Server channels made so far
lives == Len(server_got)

LinkedInit ==
  /\ Init
  /\ client_channel = [c \in Clients |-> create_channel(Ordered)]
  /\ server_channel = << >>
  /\ wire = {}
  /\ server_sent = 0
  /\ life = [a \in Addresses |-> 0]
  /\ established = {}
  /\ server_got = << >>
  /\ client_got = [c \in Clients |-> << >>]

(***************************************************************************)
(* Packets of client c to the server, and of the server to an address.     *)
(* The sender is history: a packet of a channel names no identity.         *)
(***************************************************************************)
ToServer(c, packets) ==
  {[to |-> "server", address |-> client[c].address, sender |-> client[c].identity,
    packet |-> p] : p \in packets}

ToClient(a, packets) ==
  {[to |-> "client", address |-> a, sender |-> NoIdentity,
    packet |-> p] : p \in packets}

-----------------------------------------------------------------------------
(***************************************************************************)
(* Steps of Identity.  create_configured_channels makes a channel, with    *)
(* all its counters at 0, where there is none, and                         *)
(* remove_configured_channels drops it.                                    *)
(***************************************************************************)
Made == {a \in Addresses : channels[a] = 0 /\ channels'[a] # 0}

Kept == {a \in Addresses : channels[a] # 0 /\ channels'[a] # 0}

\* Mutant: the channel of an address is kept when its connection goes.
configured_channels_kept ==
  [a \in Made \cup DOMAIN server_channel |->
     IF a \in DOMAIN server_channel THEN server_channel[a]
                                    ELSE create_channel(Ordered)]

configured_channels ==
  [a \in Made \cup Kept |-> IF a \in Made THEN create_channel(Ordered)
                                         ELSE server_channel[a]]

IdentityStep ==
  /\ Next
  /\ server_channel' = configured_channels
  /\ life' = [a \in Addresses |-> IF a \in Made THEN lives + 1 ELSE life[a]]
  /\ server_got' = IF Made = {} THEN server_got ELSE Append(server_got, << >>)
  /\ established' = established
       \cup ({connections'[a] : a \in Addresses} \ {NoIdentity})
  /\ UNCHANGED <<client_channel, server_sent, wire, client_got>>

-----------------------------------------------------------------------------
(***************************************************************************)
(* Messages.                                                               *)
(***************************************************************************)

\* What the application gets of the messages that are returned to it
BodiesOf(messages) == [i \in DOMAIN messages |-> messages[i].body]

\* can_send: a client sends as long as linked is 1, a server always
can_send(c) == client[c].linked = 1

ClientSend(c) ==
  /\ can_send(c)
  /\ client_channel[c].send_sequence < MaxClientSend
  /\ LET ch == client_channel[c]
         p  == reliable_packet(ch, ch.send_sequence + 1, {})
     IN  /\ client_channel' = [client_channel EXCEPT ![c] = send_reliable(@, p)]
         /\ wire' = wire \cup ToServer(c, {p})
  /\ UNCHANGED <<vars, server_channel, server_sent, lifes, got>>

\* Tachyon::send_reliable on the server: an address without channels is refused
ServerSend(a) ==
  /\ a \in DOMAIN server_channel
  /\ server_sent < MaxServerSend
  /\ LET p == reliable_packet(server_channel[a], server_sent + 1, {})
     IN  /\ server_channel' = [server_channel EXCEPT ![a] = send_reliable(@, p)]
         /\ wire' = wire \cup ToClient(a, {p})
  /\ server_sent' = server_sent + 1
  /\ UNCHANGED <<vars, client_channel, lifes, got>>

\* The channel part of Tachyon::update, which asks no identity
ClientFrame(c) ==
  /\ client_channel' = [client_channel EXCEPT ![c] = update(@)]
  /\ wire' = wire \cup ToServer(c, update_sends(client_channel[c]))
  /\ UNCHANGED <<vars, server_channel, server_sent, lifes, got>>

ServerFrame ==
  /\ server_channel' = [a \in DOMAIN server_channel |-> update(server_channel[a])]
  /\ wire' = wire \cup UNION {ToClient(a, update_sends(server_channel[a])) :
                                a \in DOMAIN server_channel}
  /\ UNCHANGED <<vars, client_channel, server_sent, lifes, got>>

\* validate_and_update_linked_connection: an address without link is ignored
validate_and_update_linked_connection(a) == connections[a].id # 0

ServerReceive(m) ==
  /\ m \in wire /\ m.to = "server"
  /\ wire' = wire \ {m}
  /\ IF ~ validate_and_update_linked_connection(m.address)
     THEN UNCHANGED <<server_channel, server_got>>
     ELSE LET r == receive_from_socket(server_channel[m.address], m.packet)
          IN  /\ server_channel' = [server_channel EXCEPT ![m.address] = r.channel]
              /\ server_got' = [server_got EXCEPT ![life[m.address]] =
                                  @ \o BodiesOf(r.messages)]
  /\ UNCHANGED <<vars, client_channel, server_sent, lifes, client_got>>

ClientReceive(m) ==
  /\ m \in wire /\ m.to = "client"
  /\ wire' = wire \ {m}
  /\ LET here == {c \in Clients : client[c].address = m.address /\ is_linked(c)}
         r(c) == receive_from_socket(client_channel[c], m.packet)
     IN  /\ client_channel' = [c \in Clients |->
                IF c \in here THEN r(c).channel ELSE client_channel[c]]
         /\ client_got' = [c \in Clients |->
                IF c \in here
                THEN client_got[c] \o BodiesOf(r(c).messages)
                ELSE client_got[c]]
  /\ UNCHANGED <<vars, server_channel, server_sent, lifes, server_got>>

\* receive_loop on an empty socket
Drain(c) ==
  /\ client_channel[c].receiver.published # << >>
  /\ LET r == receive_published(client_channel[c])
     IN  /\ client_channel' = [client_channel EXCEPT ![c] = r.channel]
         /\ client_got' = [client_got EXCEPT ![c] = @ \o BodiesOf(r.messages)]
  /\ UNCHANGED <<vars, server_channel, server_sent, wire, lifes, server_got>>

ServerDrain(a) ==
  /\ a \in DOMAIN server_channel
  /\ server_channel[a].receiver.published # << >>
  /\ LET r == receive_published(server_channel[a])
     IN  /\ server_channel' = [server_channel EXCEPT ![a] = r.channel]
         /\ server_got' = [server_got EXCEPT ![life[a]] =
                             @ \o BodiesOf(r.messages)]
  /\ UNCHANGED <<vars, client_channel, server_sent, wire, lifes, client_got>>

LinkedNext ==
  \/ IdentityStep
  \/ \E c \in Clients : ClientSend(c) \/ ClientFrame(c) \/ Drain(c)
  \/ \E a \in Addresses : ServerSend(a) \/ ServerDrain(a)
  \/ ServerFrame
  \/ \E m \in wire : ServerReceive(m) \/ ClientReceive(m)

LinkedSpec == LinkedInit /\ [][LinkedNext]_linkedVars

-----------------------------------------------------------------------------
(***************************************************************************)
(* Properties.  The messages of a sender have the numbers 1, 2, ... in the *)
(* order of sending.  EachLinkFromTheFirst and SoundUntilRelink speak of   *)
(* one client, the former of one whose messages fit in the window.         *)
(***************************************************************************)

\* Type correctness, and a channel exactly where the tables say there is one.
LinkedTypeOK ==
  /\ TypeOK
  /\ DOMAIN server_channel = {a \in Addresses : channels[a] # 0}
  /\ \A a \in DOMAIN server_channel : life[a] \in 1 .. lives
  /\ server_sent \in 0 .. MaxServerSend
  /\ established \subseteq Identities

(***************************************************************************)
(* On an ordered channel every link is complete by itself: over each       *)
(* channel the server makes it gets the client's messages from the first   *)
(* on, in order and without a hole, whatever was dropped at the blocked    *)
(* ends.  As the client's counters go on and the server's begin at 0,      *)
(* after a relink the server asks for all of the old messages and gets     *)
(* them again.                                                             *)
(***************************************************************************)
EachLinkFromTheFirst ==
  \A k \in 1 .. lives : \A i \in DOMAIN server_got[k] : server_got[k][i] = i

(***************************************************************************)
(* The client gets no message of the server's twice, although a new        *)
(* channel of the server uses the sequences of the old one again and       *)
(* packets of both can be in flight.                                       *)
(***************************************************************************)
ClientGetsOnce ==
  \A c \in Clients : \A i, j \in DOMAIN client_got[c] :
    client_got[c][i] = client_got[c][j] => i = j

(***************************************************************************)
(* Until the first relink, identities do not disturb the channel: neither  *)
(* end has received a sequence the other did not send, and what is nacked  *)
(* is held, although packets are dropped while one end is linked and the   *)
(* other is not.  After a relink the first part fails: the client has      *)
(* sequences of the server's old channel, and NONE for those it asks for,  *)
(* before the new channel, which begins at 0, gets to them.                *)
(***************************************************************************)
SoundUntilRelink ==
  lives <= 1 =>
    \A c \in Clients, a \in DOMAIN server_channel :
      LET near == client_channel[c]
          far  == server_channel[a]
          held(ch) == \A s \in ch.nacked : ch.buffers[SendSlot(s)] # None
      IN  /\ near.receiver.last_sequence <= far.send_sequence
          /\ far.receiver.last_sequence <= near.send_sequence
          /\ held(near) /\ held(far)

(***************************************************************************)
(* What the README says, "With identities enabled regular messages are     *)
(* blocked on both ends until identity is established": no packet of a     *)
(* channel is under way from a client under an identity that the server    *)
(* never linked.                                                           *)
(***************************************************************************)
BlockedUntilLinked ==
  \A m \in wire : m.to = "server" => m.sender \in established
=============================================================================
