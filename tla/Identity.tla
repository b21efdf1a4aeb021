------------------------------ MODULE Identity ------------------------------
(***************************************************************************)
(* Linking identities to connections, with use_identity on at both ends:   *)
(* src/tachyon/connection_impl.rs, the identity part of receive_from_socket*)
(* in src/tachyon.rs, and set_identity of ffi.rs.  One server, clients     *)
(* behind addresses that can change, and a network that loses, duplicates  *)
(* and reorders.                                                           *)
(*                                                                         *)
(* An id or a session is a positive number; 0 stands for none, as in the   *)
(* code.  The channels of an address are modelled by the identity they     *)
(* were created for; what is in them is in ChannelSpec.                    *)
(***************************************************************************)
EXTENDS Naturals

CONSTANTS
  Clients,
  Addresses,
  Ids,                  \* identity ids
  Sessions,             \* session ids
  NoAddress,            \* an id that identity_to_address_map does not have
  MaxChanges,           \* bound: calls of the applications and address changes
  MaxLost,              \* bound: packets the network loses
  MaxDuplicated         \* bound: packets the network delivers once more

ASSUME IdentityAssumption ==
  /\ Ids \subseteq Nat \ {0} /\ Sessions \subseteq Nat \ {0}
  /\ NoAddress \notin Addresses
  /\ MaxChanges \in Nat /\ MaxLost \in Nat /\ MaxDuplicated \in Nat

VARIABLES
  identities,           \* server: session of each id, 0 if it has none
  connections,          \* server: identity connected at each address, or none
  identity_to_address_map,  \* server: address of each id, or NoAddress
  channels,             \* server: whom the channels of an address were made for
  client,               \* each client's Identity and the address it is seen at
  net,                  \* packets in flight
  changes, lost, duplicated  \* how much of each bound is used

server == <<identities, connections, identity_to_address_map, channels>>
budget == <<changes, lost, duplicated>>
vars   == <<server, client, net, budget>>

\* Identity::default, also for an address without a connection
NoIdentity == [id |-> 0, session_id |-> 0]

Identities == [id : Ids, session_id : Sessions]

(***************************************************************************)
(* Packets: a request names where it came from, an answer where it goes.   *)
(***************************************************************************)
Request(type, address, identity) ==
  [type |-> type, address |-> address, identity |-> identity]

Answer(type, address) ==
  [type |-> type, address |-> address, identity |-> NoIdentity]

is_valid(c) == client[c].identity # NoIdentity

is_linked(c) == is_valid(c) /\ client[c].linked = 1

\* Every client starts with an identity that its application gave it.
Init ==
  /\ identities = [id \in Ids |-> 0]
  /\ connections = [a \in Addresses |-> NoIdentity]
  /\ identity_to_address_map = [id \in Ids |-> NoAddress]
  /\ channels = [a \in Addresses |-> 0]
  /\ client \in [Clients -> [identity : Identities, linked : {0},
                             address : Addresses]]
  /\ \A c, d \in Clients : client[c].address = client[d].address => c = d
  /\ net = {}
  /\ changes = 0 /\ lost = 0 /\ duplicated = 0

-----------------------------------------------------------------------------
(***************************************************************************)
(* The server.                                                             *)
(***************************************************************************)

\* Mutant: the connections go and their channels stay.
remove_connection_by_identity_keeps_channels(id) ==
  LET gone == {a \in Addresses : connections[a].id = id}
  IN  [connections |-> [a \in Addresses |->
                          IF a \in gone THEN NoIdentity ELSE connections[a]],
       channels    |-> channels]

\* Mutant: the connection is kept with its id cleared.
remove_connection_by_identity_clears_id(id) ==
  LET gone == {a \in Addresses : connections[a].id = id}
  IN  [connections |-> [a \in Addresses |->
                          IF a \in gone THEN [connections[a] EXCEPT !.id = 0]
                                        ELSE connections[a]],
       channels    |-> [a \in Addresses |->
                          IF a \in gone THEN 0 ELSE channels[a]]]

\* Mutant: nothing is removed.
remove_connection_by_identity_nothing(id) ==
  [connections |-> connections, channels |-> channels]

\* remove_connection_by_identity with remove_connection, as the new values
remove_connection_by_identity(id) ==
  LET gone == {a \in Addresses : connections[a].id = id}
  IN  [connections |-> [a \in Addresses |->
                          IF a \in gone THEN NoIdentity ELSE connections[a]],
       channels    |-> [a \in Addresses |->
                          IF a \in gone THEN 0 ELSE channels[a]]]

\* set_identity on the server; session 0 takes the identity away
SetIdentity(id, session_id) ==
  /\ changes < MaxChanges
  /\ changes' = changes + 1
  /\ connections' = remove_connection_by_identity(id).connections
  /\ channels' = remove_connection_by_identity(id).channels
  /\ identities' = [identities EXCEPT ![id] = session_id]
  /\ UNCHANGED <<identity_to_address_map, client, net, lost, duplicated>>

\* Mutant: the session is not compared.
session_is_current_any(identity) == identities[identity.id] # 0

\* try_link_identity refuses a session that is not the current one
session_is_current(identity) ==
  identities[identity.id] # 0 /\ identities[identity.id] = identity.session_id

\* Mutant: an address that has a connection is not linked again.
links_anew_if_free(address, identity) ==
  session_is_current(identity) /\ connections[address] = NoIdentity

\* try_link_identity goes beyond its early returns
links_anew(address, identity) ==
  session_is_current(identity) /\ connections[address] # identity

(***************************************************************************)
(* try_link_identity, with left the packets still in flight.  If the       *)
(* identity is linked there already, nothing happens and nothing is        *)
(* answered.  Otherwise its connections go, and the address gets one over  *)
(* whatever connection it had, whose channels it keeps, as                 *)
(* create_configured_channels makes only those that are missing.           *)
(***************************************************************************)
try_link_identity(address, identity, left) ==
  IF ~ links_anew(address, identity)
  THEN net' = left /\ UNCHANGED server
  ELSE LET rest == remove_connection_by_identity(identity.id)
       IN  /\ connections' = [rest.connections EXCEPT ![address] = identity]
           /\ channels' = [rest.channels EXCEPT
                             ![address] = IF @ = 0 THEN identity.id ELSE @]
           /\ identity_to_address_map' =
                [identity_to_address_map EXCEPT ![identity.id] = address]
           /\ net' = left \cup {Answer("IDENTITY_LINKED", address)}
           /\ UNCHANGED identities

(***************************************************************************)
(* try_unlink_identity.  A wrong session is ignored; an unknown identity   *)
(* is answered all the same.                                               *)
(***************************************************************************)
try_unlink_identity(address, identity, left) ==
  IF identities[identity.id] # 0 /\ ~ session_is_current(identity)
  THEN net' = left /\ UNCHANGED server
  ELSE /\ net' = left \cup {Answer("IDENTITY_UNLINKED", address)}
       /\ IF identities[identity.id] = 0
          THEN UNCHANGED server
          ELSE LET rest == remove_connection_by_identity(identity.id)
               IN  /\ connections' = rest.connections
                   /\ channels' = rest.channels
                   /\ identity_to_address_map' =
                        [identity_to_address_map EXCEPT ![identity.id] = NoAddress]
                   /\ UNCHANGED identities

\* receive_from_socket on the server
ServerHandles(m, left) ==
  /\ \/ /\ m.type = "LINK_IDENTITY"
        /\ try_link_identity(m.address, m.identity, left)
     \/ /\ m.type = "UNLINK_IDENTITY"
        /\ try_unlink_identity(m.address, m.identity, left)
  /\ UNCHANGED client

-----------------------------------------------------------------------------
(***************************************************************************)
(* The clients.                                                            *)
(***************************************************************************)

\* client_identity_update, when IDENTITY_SEND_INTERVAL has passed
ClientUpdate(c) ==
  /\ is_valid(c) /\ ~ is_linked(c)
  /\ net' = net \cup {Request("LINK_IDENTITY", client[c].address,
                              client[c].identity)}
  /\ UNCHANGED <<server, client, budget>>

\* The application asks to be unlinked: send_unlink_identity
SendUnlink(c) ==
  /\ changes < MaxChanges
  /\ changes' = changes + 1
  /\ net' = net \cup {Request("UNLINK_IDENTITY", client[c].address,
                              client[c].identity)}
  /\ UNCHANGED <<server, client, lost, duplicated>>

\* set_identity of ffi.rs with on_self: linked keeps its value
SetOwnIdentity(c, identity) ==
  /\ changes < MaxChanges
  /\ changes' = changes + 1
  /\ client' = [client EXCEPT ![c].identity = identity]
  /\ UNCHANGED <<server, net, lost, duplicated>>

\* The network shows the client at another address (external)
ChangeAddress(c, address) ==
  /\ changes < MaxChanges
  /\ \A d \in Clients : client[d].address # address
  /\ changes' = changes + 1
  /\ client' = [client EXCEPT ![c].address = address]
  /\ UNCHANGED <<server, net, lost, duplicated>>

\* receive_from_socket on a client: whoever is at the address sets linked
ClientHandles(m, left) ==
  /\ m.type \in {"IDENTITY_LINKED", "IDENTITY_UNLINKED"}
  /\ client' = [c \in Clients |->
                  IF client[c].address # m.address THEN client[c]
                  ELSE [client[c] EXCEPT
                          !.linked = IF m.type = "IDENTITY_LINKED" THEN 1 ELSE 0]]
  /\ net' = left
  /\ UNCHANGED server

-----------------------------------------------------------------------------
(***************************************************************************)
(* The network, which may deliver a packet once more, or lose it.          *)
(***************************************************************************)
Receive(m) ==
  /\ m \in net
  /\ ServerHandles(m, net \ {m}) \/ ClientHandles(m, net \ {m})
  /\ UNCHANGED budget

ReceiveCopy(m) ==
  /\ m \in net
  /\ duplicated < MaxDuplicated
  /\ duplicated' = duplicated + 1
  /\ ServerHandles(m, net) \/ ClientHandles(m, net)
  /\ UNCHANGED <<changes, lost>>

Lose(m) ==
  /\ m \in net
  /\ lost < MaxLost
  /\ lost' = lost + 1
  /\ net' = net \ {m}
  /\ UNCHANGED <<server, client, changes, duplicated>>

Next ==
  \/ \E id \in Ids, s \in Sessions \cup {0} : SetIdentity(id, s)
  \/ \E c \in Clients :
       \/ ClientUpdate(c)
       \/ SendUnlink(c)
       \/ \E identity \in Identities : SetOwnIdentity(c, identity)
       \/ \E a \in Addresses : ChangeAddress(c, a)
  \/ \E m \in net : Receive(m) \/ ReceiveCopy(m) \/ Lose(m)

Packets ==
  [type : {"LINK_IDENTITY", "UNLINK_IDENTITY"}, address : Addresses,
   identity : Identities]
    \cup
  [type : {"IDENTITY_LINKED", "IDENTITY_UNLINKED"}, address : Addresses,
   identity : {NoIdentity}]

(***************************************************************************)
(* Fairness.  update runs once a frame and sends a request every           *)
(* IDENTITY_SEND_INTERVAL; both ends receive once a frame, and what the    *)
(* network does not lose it delivers.  Nothing makes an application call.  *)
(***************************************************************************)
Fairness ==
  /\ \A c \in Clients : WF_vars(ClientUpdate(c))
  /\ \A m \in Packets : WF_vars(Receive(m))

Spec == Init /\ [][Next]_vars /\ Fairness

-----------------------------------------------------------------------------
(***************************************************************************)
(* Properties.                                                             *)
(***************************************************************************)

\* Type correctness of the server's tables, the clients and the packets.
TypeOK ==
  /\ identities \in [Ids -> Sessions \cup {0}]
  /\ connections \in [Addresses -> Identities \cup {NoIdentity}]
  /\ identity_to_address_map \in [Ids -> Addresses \cup {NoAddress}]
  /\ channels \in [Addresses -> Ids \cup {0}]
  /\ client \in [Clients -> [identity : Identities, linked : {0, 1},
                             address : Addresses]]
  /\ net \subseteq Packets

(***************************************************************************)
(* An identity is connected at one address at most, and that address is    *)
(* the one a lookup by identity finds, whichever clients claim it and      *)
(* however their requests are delayed, duplicated and reordered ("The      *)
(* server when it links first removes any addresses previously linked").   *)
(***************************************************************************)
OneConnectionPerIdentity ==
  \A a \in Addresses :
    connections[a] # NoIdentity =>
      /\ identity_to_address_map[connections[a].id] = a
      /\ \A b \in Addresses : connections[b].id = connections[a].id => a = b

(***************************************************************************)
(* No connection outlives its session: after set_identity gave an identity *)
(* a new session, or none, no address stays connected under the old one,   *)
(* and no delayed request brings it back.                                  *)
(***************************************************************************)
NoStaleSession ==
  \A a \in Addresses :
    connections[a] # NoIdentity =>
      identities[connections[a].id] = connections[a].session_id

(***************************************************************************)
(* An address has channels exactly while it has a connection.              *)
(***************************************************************************)
ChannelsFollowConnections ==
  \A a \in Addresses : channels[a] # 0 <=> connections[a] # NoIdentity

(***************************************************************************)
(* A client that is not linked keeps asking until the server has it: again *)
(* and again, its session is not the server's, or it is linked, or the     *)
(* server has the connection.                                              *)
(***************************************************************************)
RequestsReachServer ==
  \A c \in Clients :
    []<>(\/ ~ session_is_current(client[c].identity)
         \/ is_linked(c)
         \/ connections[client[c].address] = client[c].identity)
=============================================================================
