# Tachyon in TLA+

Tachyon is a reliable UDP library for games and local IPC. It detects loss on
the receiving side and asks for what is missing (negative acknowledgements,
"nacks"), carries ordered and unordered channels, splits long messages into
fragments, and can tie an application identity to a connection whose address
changes. This directory models it in TLA+, checks the models with TLC on small
instances, and proves the central invariants with TLAPS for all instances.
Paths below are relative to the repository; `PROJECT.json` maps every definition
to the lines it stands for.

## The system

Nothing in Tachyon is concurrent inside one instance ("By design nothing in
Tachyon is thread safe"). An application owns an instance and, once a frame,
calls `update` and `receive_loop`; sends go out at once. All the difficulty is
between instances: datagrams are lost, duplicated, reordered and delayed while
both ends step on. The pool is the exception: it receives on several instances
in parallel.

| component | state | operations | talks to |
|---|---|---|---|
| sequence arithmetic (`sequence.rs`, `sequence_buffer.rs`) | none; slot arrays | compare, next, previous, slot of a sequence | everything below |
| receiver (`receiver.rs`) | `current_sequence`, `last_sequence`, marks `received`, packets `buffered`, queue `published` | `receive_packet`, `publish`, `take_published`, `create_nacks` | channel |
| nacks (`nack.rs`) | start sequence and 32 flags | write, read, what is asked for | receiver makes them, the peer's channel reads them |
| send buffers (`send_buffer_manager.rs`) | `current_sequence`, 1024 slots | `create_send_buffer`, `get_send_buffer` | channel |
| channel (`channel.rs`) | a receiver, send buffers, the nack queue, the sequences nacked by the peer | `send_reliable`, `update`, `receive_published`, `process_*` | the peer's channel, by packets |
| fragmentation (`fragmentation.rs`) | next group id, fragments received by group | `create_fragments`, `receive_fragment`, `assemble` | channel |
| identities and connections (`connection_impl.rs`, `connection.rs`) | `identities`, `connections`, `identity_to_address_map`, `channels`; on a client its own identity and `linked` | `set_identity`, `try_link_identity`, `try_unlink_identity`, `client_identity_update` | the other side, by four packet types |
| endpoint (`tachyon.rs`) | the maps above, a socket | `update`, `receive_loop`, `receive_from_socket`, `send_reliable`, `connect`, `bind` | application, socket |
| pool (`pool.rs`) | instances, shared queues of queues and buffers, connection maps | `receive`, `finish_receive`, `receive_blocking*`, `build_connection_maps`, sends | instances, rayon tasks |
| the rest | buffers, byte layouts, C pointers, counters | | |

What is hard, and what makes each part correct:

* Sequence numbers live on a ring of 65535 values (65535 itself is skipped) and
  slots divide 65536, so slots shift by one at the wrap. Comparison must agree
  with the order of sending wherever it is used.
* The receiver knows "received" only as a mark per slot, cleared as `current`
  steps past. A stale mark loses a message, a missing one duplicates it. Its
  promises: at most once, in order on ordered channels, and everything until it
  gives up on (skips) a sequence.
* A gap must heal although the message, the nack and the resend may each be
  lost, and a resend must be what was asked for.
* A group of fragments must come out whole, once, and in its place.
* The server's four tables must agree whichever requests arrive late or twice.
* A client has one channel for its life; the server makes a new one for every
  link. Counters that begin anew at one end meet counters that go on at the other.
* The pool's tasks share four queues (servers, queues for messages, buffers, out
  buffers) and finish in any order. Every server must come back, be received in
  every round, and its messages must stay in order although rounds put them in
  different queues.

## Modules

| module | models | kind |
|---|---|---|
| `SequenceNumbers` | `sequence.rs`, the slot map | operators |
| `AscendingOrder` | the numbers of a set, upwards: the order of a walk | operators |
| `Receiver` | `receiver.rs` without nacks; a record and operators on it | operators |
| `Nacks` | `create_nacks`, `nack.rs` | operators |
| `ReceiverSpec`, `MCReceiver` | one receiver and the network | state machine |
| `Channel` | `channel.rs` with its send buffers, one end | operators |
| `ChannelSpec`, `MCChannel` | two ends and the network | state machine |
| `Fragmentation` | `fragmentation.rs` and the channel's use of it | operators |
| `FragmentSpec` | a channel with whole and fragmented messages | state machine |
| `UnboundedReceiver` | what `ReceiverSpec` implements: the receiver without rings and slots | abstract specification |
| `Identity` | `connection_impl.rs`, one server, clients, the network | state machine |
| `LinkedChannel` | `Identity` and `Channel` together: messages under identities | composition |
| `Pool`, `MCPool` | `pool.rs`: the parallel receive, one step per operation on a shared queue | state machine |
| `IdentityProofs` | theorems about `Identity` | proofs |
| `ReceiverLemmas` | the arithmetic of `SequenceNumbers`, and what the methods of a receiver do, for every specification that has one | proofs |
| `ReceiverProofs` | theorems about `ReceiverSpec` | proofs |
| `ChannelLemmas` | what the operations of a channel do, one end at a time, for every specification that has one | proofs |
| `ChannelProofs` | theorems about `ChannelSpec` | proofs |
| `LinkedProofs` | theorems about `LinkedChannel` | proofs |
| `FragmentProofs` | theorems about `FragmentSpec` | proofs |
| `PoolProofs` | theorems about `Pool` | proofs |

State and actions keep the names of the code. A method of a Rust structure is an
operator from the old record to the new one (`receive_packet(r, s, data)` gives
the value returned and the receiver left), so that `ChannelSpec` and
`FragmentSpec` run the very receiver that `ReceiverSpec` checks. Loops that step
a sequence are written with the number of steps (`reach`, `run`, `WalkedTo`);
the loop of `create_nacks` and, with fragments, that of `receive_published` are
recursive functions over the iteration.

What is abstracted: bytes of messages are opaque values; a nack is the set of
flag bits and on the wire the set of sequences it decodes to; the padding of a
resent message is one bit; time is left out (`IDENTITY_SEND_INTERVAL` becomes
"may send again"); statistics and events are left out. In `Pool` a server is its
id with one channel, a message its number at that server, and a packet is what it
does to `receive_loop`: whether it is a message the channel accepts, one after
which the loop reads on, or an error, and how many messages the channel publishes
because of it. A packet that publishes none (a nack, a duplicate, a message behind
a gap) uses up one of the loop's 100 places, and 100 of them end the loop with
nothing to return and packets left. The mutants in the modules (commented `Mutant:`) are variants of the definition that follows them,
each with a slip a programmer might make; no specification uses them. Each
property of a passing run is violated under one of them.

### The network

`ReceiverSpec` lets any message from `Behind` before the receiver's position to
`Ahead` beyond it arrive at any time, any number of times. `ChannelSpec` and
`Identity` keep packets in flight in a set, deliver them in any order, and lose
or duplicate a bounded number. `FragmentSpec` may deliver any packet ever sent,
which stands for the nacks and resends it leaves out. Address changes of clients
(`ChangeAddress`) and duplication are external: no code of the repository does
them, it only has to live with them. Loss is the network's or that of
`should_drop`, which drops received packets by chance for tests. `LinkedChannel`
checks invariants only, so a packet that is never received stands for a lost one.

`BoundedReordering` is what the receiver needs of the network and does not
enforce: no packet further ahead than a buffer (minus 2, since slots shift at the
wrap), none later than half the ring. `MCReceiver` assumes it, and
`receiver_overrun` shows what happens without it.

## Runs

Passing:

| run | checks | instance |
|---|---|---|
| `receiver` | `MarksExact`, `RefusesDuplicates`, `AtMostOnce`, `InOrder`, `ReliableUntilSkip`, `FrameDelivers`, `NackSound`, `NacksNewestGap`, `ImplementsUnbounded` | ring of 15, 8 slots, window 4, groups of 2 flags; from message 10 to 21, so the ring's end is crossed with a full window on either side; 6 ahead is all `BoundedReordering` allows, and more than the window, so sequences are skipped |
| `channel` | `DeliveredOnceInOrder`, `ResendIsNewest`, `ReceiverBehindSender` | 4 messages one way and 1 back, window 2, 2 send buffers, one loss, one duplicate: gaps, resends, late copies and skips all happen, every buffer is used twice, and nacks come after their message's buffer was used again |
| `channel_live` | `GapHeals`, `ReceivedIsDelivered` | 3 messages and 1, window 4, two losses, so a message and its nack or its resend are both lost |
| `fragments` | `AssembledIntact`, `NoneOvertakes`, `GroupsDelivered` | 6 packets in messages of 1, 2 and 3, window 3, unlimited repetition |
| `identity` | `OneConnectionPerIdentity`, `NoStaleSession`, `ChannelsFollowConnections`, `RequestsReachServer` | one client that moves between two addresses and changes identity (its delayed requests are a second client's), two ids with two sessions each, three changes, one loss, one duplicate |
| `linked` | `EachLinkFromTheFirst`, `ClientGetsOnce`, `SoundUntilRelink` | one client at one address; its identity is set, and then set again or unlinked, so it is linked and linked once more (late requests of the first link included); two messages each way, sent before, between and after |
| `pool` | `ServersKept`, `ArraysReturned`, `CountdownExact`, `EachInOnePlace`, `GivenInOrder`, `EveryServerServed`, `RoundEnds` | two servers and room for two, three packets of any kind that publish three messages at most, 2 packets for one `receive_loop` and 2 for one task, so that each of the limits 100 and 100000 ends a loop; any number of rounds |

Each also checks the type invariant of its module. The small numbers keep the
proportions of the code: an odd ring split at `HALF`, slots that divide one more
than the ring, a window smaller than the slots. The window and the number of
messages are chosen so that the window overflows, and the losses so that the
repair of a loss can itself be lost.

Expected violations, each a disagreement between what the repository says and
what the code does (`findings` in `PROJECT.json` has the quotations):

* `receiver_loss` (`AcceptedKept`): when `receive_packet` skips `current` onto a
  sequence already received, and the next packet is the one after it, the mark of
  the former goes and its message, accepted and buffered, is never handed out.
* `receiver_overrun` (`InOrder`): a packet a buffer or more ahead takes a slot in
  use, that of `current` itself in the trace or that of a sequence still missing,
  and is handed out before the messages that come before it.
* `channel_padding` (`BodyIntact`): the resend of a message that was sent with a
  nack is as long as the pooled buffer, not as the message.
* `fragments_twice` (`AssembledOnce`): a full set of duplicated fragments,
  arriving between the delivery of the group and the taking of its last fragment
  from the queue, delivers the message again.
* `linked_blocked` (`BlockedUntilLinked`): `set_identity` on a client leaves
  `linked` at 1, so the client sends under an identity the server never linked.

The properties of the passing runs are stated so that they hold in spite of
these: `ReliableUntilSkip` says what reliability is left, `GapHeals` stops where
the nacks no longer reach, `NoneOvertakes` allows a repetition.

### The receiver as a refinement

`ReceiverSpec` is shown to implement `UnboundedReceiver`, where messages are
numbered for ever and kept in sets, so that nothing can wrap, share a slot or be
compared the wrong way round (`ImplementsUnbounded`, in the run `receiver`). The
mapping reads the history of `ReceiverSpec`: `head` and `top` are `current` and
`last`, the marked and the buffered slots are the messages they stand for. What is
left in the abstract specification is the behaviour itself, the giving up of a
message when `last` is more than a window ahead and the loss that can follow it
included. The rings and slots are thus an implementation detail, within
`BoundedReordering`.

### Identities and channels

`LinkedChannel` runs the tables and packets of `Identity` with the channel ends of
`Channel`. The server makes a channel with an address's connection and drops it
with the connection (`server_channel` has one for the addresses that `Identity`
says have channels, and no others); the client keeps its own. `server_got` records
what came over each channel the server ever made, `client_got` what each client
got. What holds:

* On an ordered channel the server gets, over each channel it makes, the client's
  messages from the first on and without a hole (`EachLinkFromTheFirst`). The
  other side of this is that after a relink it asks for and gets everything again
  that the client still holds: reliability is per link, and an application that
  relinks sees old messages twice.
* The client gets no message twice, although the server's new channel uses the
  sequences of the old one again (`ClientGetsOnce`). It may miss messages: until
  the server's counter has passed the client's, new messages look like duplicates.
* Until the first relink neither end is confused by messages dropped at an end
  that is not linked (`SoundUntilRelink`). After it the client is ahead of the
  server's new counter, and a nack for a message of the old channel is answered
  with `NONE`, which uses up a sequence of the new one.

A client whose connection the server removed, or whose address changed, is not
told: it stays linked in its own eyes, sends what the server ignores, and asks for
no new link. The repository's README says that it "needs to request to be linked
again"; `client_identity_update` does not, as long as `linked` is 1.

### The pool

`Pool` has a step for every operation of a task on a shared queue and for every
`receive_loop`. The application uses either the queue (`receive` with
`finish_receive`, or `receive_blocking`) or the out buffers
(`receive_blocking_out_buffer`), and keeps to what the code asks for and does not
check: `receive` and `finish_receive` go together (the comment in `pool.rs`), out
buffers are fetched before the next round, which resets them, and every server has
an id of its own. Three limits of what the properties say:

* `create_server` compares with `>` and so lets in one server more than
  `max_servers`. The queue of servers has no room for it, and `receive` drops it:
  `ServersKept` does not hold with three servers and room for two. `MCPool`
  assumes that they fit.
* After 100000 messages in one task `bytes_written` of its out buffer stays 0 and
  the application gets a count and no bytes; `EachInOnePlace` excepts these
  messages (`cut`).
* A server created during a receive is not part of that round; the pool's checks
  of number and id do not see the servers that are with the tasks.

### Observations without a run

Met while modelling; the models contain each of them, and the properties of the
passing runs hold in spite of them.

* Every received sequence costs `create_nacks` one of its window/32 passes, so a
  gap behind 16 received sequences (at the default window) is not asked for in
  that frame. It is asked for once it is the newest and few have arrived after it
  (`NacksNewestGap`).
* A nack that comes after its send buffer was used again is answered with the
  message that is there now: `get_send_buffer` does not compare. The message asked
  for is gone, but the answer is sound: it is the newest message of that slot, under
  its own sequence (`ResendIsNewest`), and the receiver takes it for a duplicate or
  for a message it misses.
* The nack of a message sent with one is never written to the packet, although the
  repository's README says (line 21) that nacks are inserted into outgoing
  messages; gaps heal by the nack packets alone (`GapHeals`). What the peer reads in
  their place are bytes an earlier message left in the pooled buffer. No run reads
  such bytes: in `channel` no message carries a nack in a buffer used before, in the
  others no buffer is used twice. With old bytes that decode to a sequence not yet
  sent (`StaleNacks = {{3}}`, 3 send buffers, 4 messages and 2), the peer answers
  with a `NONE` for it and `ReceiverBehindSender` is violated.
* The repository's README says (line 66) that `update` does "fragment expiration".
  `update` has that call commented out, so the fragments of a group that never
  completes stay. It also says (line 25) "We also have logic to expire messages
  that last too long in the send buffers"; the logic, `SendBufferManager::expire`,
  is called by its test alone. Neither changes what is delivered within the bounds
  of the theorems, and no run states it.
* If the only `IDENTITY_LINKED` is lost, the server, for which the client is
  linked already, never repeats it, and the client stays unlinked.
  `RequestsReachServer` says what is left.

### Fairness

`ChannelSpec`: `update` and the draining of the queue happen again and again,
because the application calls them once a frame, and every packet the network
does not lose is received, because a socket is a queue. Nothing makes an
application send, so no progress depends on traffic that may not come: a message
lost with none after it is never missed (the repository's README says so), and
`GapHeals` speaks of gaps only. The conditions are written out as recurrence
formulas rather than with `WF_vars`, which TLC evaluates slowly here; the comment
in the module says which fairness each one is. `Identity`: an unlinked client
asks again every interval, and packets in flight are received. Applications and
the network's changes are under no fairness.

`Pool`: rayon runs every task that was spawned, a blocking call that can return
does, and an application that began a receive finishes it. It need not begin one.
The fairness of tasks is written out in the same way, a task having a step until it
is idle.

`identity`, `linked` and `linked_blocked` run without the deadlock check: linked
clients with nothing in flight just idle.

## Theorems

All are machine-checked by TLAPS with no gaps, for every value of the constants
that satisfies the `ASSUME`s of the modules.

`IdentityProofs` proves `TypeCorrect`, `IdentityHasOneAddress`,
`SessionsAreCurrent` and `ChannelsMatch`: the type invariant,
`OneConnectionPerIdentity`, `NoStaleSession` and `ChannelsFollowConnections`, for
any sets of clients, addresses, ids and sessions and any number of losses and
duplicates. The inductive invariant `IInv` is their conjunction. None is
inductive alone: linking an identity frees its other connections because
`remove_connection_by_identity` finds them all, keeps channels with connections
only if they matched before, and needs the types to tell an identity from none.
The argument: what `remove_connection_by_identity` leaves (`RemoveFacts`), then
linking (`LinkIInv`), anything that only removes (`RemovedIInv`, used for
unlinking and `set_identity`), then one step per action (`NextIInv`).

`ReceiverLemmas` begins by proving that the ring arithmetic is the arithmetic of
message numbers: `next_sequence`, `ring_plus`, `ring_minus` and `Distance` on
sequences do what +1, +d, -d and b - a do on the messages they stand for, and
`GreaterIsLater`: `is_greater_then` is the order of sending for messages up to
`HALF - 2` apart.

### The receiver

`ReceiverLemmas` says, of any Receiver record and for any ring, buffer and window,
what its methods do to message numbers. It builds up in four layers, each of which
`receive_packet` and `publish` are shown to keep:

* `Stands(r, c, l, m, w)`: the record with its ring and slots stands for an
  unbounded one at message `c` that has seen up to `l`, marks the messages `m` and
  still buffers `w` of them. It holds the distance of `c` and `l`, without which
  two messages in use could share a slot (`SlotsDiffer`: a buffer less 2 apart
  they do not, although slots shift by one where the ring ends).
* `Known`: which messages were ever accepted (`acc`) and handed out (`hnd`). The
  marks are the accepted messages beyond `c`, and what is marked and no longer
  buffered has been handed out.
* `Complete`: what holds as long as nothing was skipped, everything up to `c`
  being handed out and the next message not yet accepted.
* `Holds`: the three together, with `Complete` only while `skipped_sequences` is 0.

No layer is inductive without the ones below it. `ReceiveHolds` and `PublishHolds`
are the two steps, and `MayFollow` says what a step may add to the queue: accepted,
new, and on an ordered channel after everything handed out before. The walk of
`create_nacks` is a recursive function; `WalkExists` gives it its equations, and
two invariants of the walk (`WalkSound`, `WalkReaches`) give `NacksAreMissing` and
`NewestIsNacked`.

`ReceiverProofs` applies this to `ReceiverSpec`, with `head`, `top`, `accepted` and
`handed` of the history for `c`, `l`, `acc` and `hnd` (`HoldsInv`). From it follow
`MarksAreExact`, `DuplicatesAreRefused`, `HandedAtMostOnce`, `HandedInOrder`,
`EveryFrameDelivers`, `NothingLostUntilSkip`, `NacksAreSound`, `NewestGapIsNacked`
and `ReceiverTypeOK`, that is every property of the run `receiver`, and
`RefinesUnbounded`: `ReceiverSpec` implements `UnboundedReceiver`, step by step.
There are two hypotheses. `BoundedReordering` is what the code needs of the network
and does not enforce (the run `receiver_overrun` shows what happens without it): no
packet more than `Farthest` ahead of current (`RECEIVE_BUFFER_SIZE - 2` or
`HALF - 2`, 1022 in the code), none more than `Latest` behind it (`HALF - 3`).
`WindowFitsRing` says the window is at most `HALF - 2`; the code has 512 and 32768.
The proof of `EveryFrameDelivers` covers a `publish` that changes nothing as well, of
which the action property `FrameDelivers` says nothing.

### Two channels and a network

`ChannelProofs` proves `ChannelTypeOK`, `OnceAndInOrder`, `ResendsAreNewest` and
`ReceiverStaysBehind`: all invariants of the run `channel`, for any number of losses
and duplicates.

`ResendsAreNewest` is about send buffers that are used again and again: it assumes
`OneTurnOfRing` only, less than 65535 messages from each end through the 1024
buffers, and allows any window and any left-over nack bytes. The slot of a sequence
`s` holds message `Newest(n, s)`, the last of the `n` sent whose number has the
remainder of `s`, or nothing if that is not above 0 (`SlotHolds`, `SendersOK`).
Only a send changes a slot, and `NewestNext` says that it makes the sent message the
newest of its own slot and leaves the newest of every other; `NewestOfSlot` that two
sequences with one slot have one newest message.

The other three theorems assume, beside `WindowFitsRing`, `ShortExchange`: each end
sends at most `Farthest`, `Latest` and `SEND_BUFFER_SIZE - 1` messages, 1022 in the
code. The network of `ChannelSpec` may hold back any packet to the end, so with more
messages the first could come when its slot at the receiver or its half of the ring
is another's. With the code's numbers the bound of the receiver, 1022, is below that
of the send buffers, 1023; an exchange with reused buffers and a smaller window is
the run `channel`.

Their argument has three parts, of which the lemmas about one end are in
`ChannelLemmas`, for any set of packets that may come. A channel's receiver holds
packets, not numbers: `Same` relates it to one that holds their sequences, and
`SameReceive` and `SamePublish` show that the methods keep the relation, so
`Holds` is available (these two are in `ReceiverLemmas`). `EndOK` (`GaveOK` of
`ChannelLemmas`) then says that what was delivered, followed by what is in the
queue, is what was handed out, and is `Ranked`; taking a message moves it from the
one list to the other and leaves their join alone (`GaveTake`). `NoHole` turns
"upwards, and exactly 1 to c" into "message i at place i". The inductive invariant
`IInv` joins `EndOK` at both ends with the sender's half (`SenderOK`, by `HalfOK`:
the slot of each sequence sent has its message, and nacks are of such sequences
only) and with the packets in flight (`PacketOK`, by `PacketOf`: a message the
peer sent, or a nack of messages its addressee sent). The halves need each other:
nacks are sound only because the receiver is not ahead of the sender, it is not
ahead because every packet in flight was sent, and a resend is such a packet only
if the nack was sound.

### Channels under identities

`LinkedProofs` proves all invariants of the run `linked`, on top of the invariant
of `IdentityProofs` and the lemmas of `ChannelLemmas`:

| theorem | property | assumes |
|---|---|---|
| `LinkedTypeCorrect` | `LinkedTypeOK` | nothing |
| `EachClientGetsOnce` | `ClientGetsOnce` | `ShortTraffic`, `WindowFitsRing` |
| `LinkingIsSound` | `SoundUntilRelink` | these and `OneClient` |
| `LinksStartAtTheFirst` | `EachLinkFromTheFirst` | these, `WithinWindow` and `Ordered` |

`ShortTraffic` is `ShortExchange` of `ChannelProofs` for both ends, all links
together. `OneClient` is needed where it stands: a client that takes over the
address of another sends into a channel the server made for the other, and then the
server gets a mixture. `WithinWindow` says that the client's messages fit in the
window: a server channel made late finds the client's counter far on, and skips what
is more than a window back. The number of addresses, ids, sessions, links and
relinks is free.

The inductive invariant `LInv` has the tables of `Identity` and the shape of the
state (`ShapeOK`), and says that there are `F` and `S` under which all is well
(`Joined`):

* `F` is the sequence of each message the server sent. The server's bodies go on
  from channel to channel and the sequences begin again, so two bodies can have one
  sequence, but never one body two: that is why a client which hands out each
  sequence once gets each body once (`OnceIn`). `F` is not in the state, so it is
  quantified; a send extends it (`Extends`) and what was true of packets in flight
  stays true.
* A client's nack for a sequence of an old channel is answered with a `NONE` by the
  new one, so what may come to a client is the server's messages and `NONE`s
  (`FromServer`), and its receiver hands out some sequences with no body.
* `S` is what the one client sent. What may come to the server is its messages
  alone (`FromClient`), since no server channel asks for what was not sent.
* `ClientsOK`, `ServersOK` and `PacketsOK` are the invariants of an end and of a
  packet, with these sets; a packet in flight may reach an end younger than itself,
  so they speak of what any channel sent and not of the channel at an address.
* `LivesOK`: two addresses never share a record, or one channel's delivery would
  be a hole in another's. `FreshOK`: before the first relink all that the server
  sent is in its one channel, which is what `SoundUntilRelink` needs.

### Fragments

`FragmentProofs` proves `FragmentTypeOK`, `AssemblyIsIntact`, `NoMessageOvertakes`
and `CompleteGroupsAreDelivered`: all invariants of the run `fragments`, for any
sizes of messages and any repetition and reordering within `Ahead` and `Behind`.
Beside `WindowFitsRing` it assumes `OneTurn`: no more packets than one turn of the
ring, 65532 in the code. Group ids are used again after that, and nothing removes
the fragments left from a group that was never completed (`expire_groups` is not
called), so a later group with the same id could find them in its map.

The inductive invariant has three parts.

* `Laid` and `Grouped`, of the sender: each packet is a whole message or a fragment
  of one whose group lies side by side, all there, with an id no other group has;
  packets are in the order of their messages. From it follows `AssembleGroup`: on
  any fragments that were sent, `assemble` succeeds exactly when the whole group is
  stored. The case in which it takes a group away without a message, its count
  right and a sequence missing, cannot happen.
* `Handing`, of the application's side: what was delivered is intact and, when
  ordered, in turn (`Intact`, `InTurn`); a message all of whose packets were taken
  was delivered (`Given`). `Given` is not inductive: when the last fragment of a
  group is taken and the group is not all stored, why was the message delivered
  before? Because of `Stored`: a fragment that was accepted stays stored until its
  message is delivered. It holds because `process_fragment_message` stores a
  fragment before it asks the receiver to accept it, and only `assemble` takes
  fragments away.
* `SideOK`, of the receiver: through `Same` and `Holds` what it handed out is what
  was taken and what is in the queue, and an ordered queue is upwards and after all
  that was taken (`Queued`), which `InTurn` needs.

The drain of `receive_published` is a recursive function; `DrainExists` gives it
its equations, and `PassedAt` is the invariant of its passes.

### The pool

`PoolProofs` proves `PoolTypeOK`, `NoServerLost`, `NothingKept`,
`CountdownIsExact`, `AllAreServed`, `GivenAreInOrder` and `MessagesInOnePlace`: the
type invariant, `ServersKept`, `ArraysReturned`, `CountdownExact`,
`EveryServerServed`, `GivenInOrder` and `EachInOnePlace`, that is every invariant of
the run `pool`, for any servers, packets and limits. The
hypothesis is `ServersFit`: `create_server` compares with `>` and lets in one server
more than the queue has room for, and that one would be dropped. The inductive
invariant has, beside types, where each task stands and what it holds (`Shape`,
`Phases`), that a server is at home, in the queue or with one task (`Owners`), that
what is lent to tasks and what lies in the queues is what there was (`Loans`), the
countdown, and which servers this round has yet to receive (`Turns`).

The messages need an invariant of their own on top of it, `MInv`. The messages of
a server come in five stages: given, published, in a container (with a task, or on
a shelf), ready in the channel, in the socket. `Staged` says that numbers a, b, c
and d cut them into these stages, each complete, and `Lined` that every server has
such numbers; order and "in one place" follow. An action moves one of the four
numbers. What makes this inductive is:

* `Apart`: the messages of a server that are in containers are all in one. Otherwise
  `move_received_to_published`, which empties the queues in whatever order the tasks
  left them, could publish later messages first.
* `Fresh`, which keeps `Apart`: a server is received once in a round, so that when
  its task appends to a container no other has messages of that server. For this the
  servers that have yet to be received come first in their queue (`Turns`), the
  queues are empty when a round begins, and an out buffer that a task has still to
  take and reset is an empty one.
* `OneWay`: the application uses the queue or the out buffers, and the containers of
  the other way are empty.
* `Written`: `bytes_written` tells all of a buffer's data, or nothing of data that
  is in `cut`.

`LoopReads` is the step of `receive_loop` (it moves packets to the channel and one
message out, in order, whichever packet ends it), `FlattenTogether` that of
`move_received_to_published`, and `WithoutOne` that of `get_next_out_buffer`.

### Only model-checked

* `GapHeals`, `ReceivedIsDelivered`, `RequestsReachServer`, `RoundEnds`: fairness
  and `ENABLED` are beyond the prover.
* What the recursive functions compute for every input (the nacks of a receiver, the
  messages of a drain) is known by invariants of their passes only.

Every invariant and every action property of a passing run is proved.

## Not modelled

* The pool's connection maps, with the lookups and sends that go through them, and
  the pool's unreliable sender, which has a copy. The maps are copies made once a
  frame; the repository promises nothing of a lookup in between, when an address
  may belong to another identity, and during a receive they are built empty.
* Connections without identities (one is made for every address a packet comes
  from, and none is removed), and `received_at`.
* Unreliable messages and their senders: a send keeps no state.
* `byte_buffer_pool.rs`, `int_buffer.rs`, `header.rs`, `network_address.rs`,
  `memory_block.rs`: memory reuse and byte layout. Where the layout matters to
  behaviour it is in `Channel` (the nack bytes that are not written, the padded
  resend).
* `bind` and `connect` of `tachyon_socket.rs`, `ffi.rs`, `pool_ffi.rs`: system
  calls and pointer conversions; `set_identity` of `ffi.rs` is in `Identity`.
* Code that nothing calls (but tests): `SendBufferManager::expire`,
  `create_send_buffer_old`, `Fragmentation::expire_groups` (commented out in
  `update`), `Receiver::set_resend_list`, `calculate_current_in_window`.
* Statistics, events and the stress tests.
* Left-over bytes read as nacks: `StaleNacks` is the parameter for them, any set in
  `ResendsAreNewest`, nothing but zeros in the runs (see the observations).

## Plan

Done: the receiver and its refinement, channels, fragments, identities, channels
under identities, and the pool's receives, each with the proofs of its invariants.

Next, in this order:

1. The pool's connection maps and the unreliable sender's copy.
2. Connections without identities.
3. Left-over nack bytes: what holds of a channel whose peer reads them.
