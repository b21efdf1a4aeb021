-------------------------------- MODULE Pool --------------------------------
(***************************************************************************)
(* The pool of servers and its parallel receive: src/tachyon/pool.rs.      *)
(*                                                                         *)
(* receive moves the servers to a shared queue and spawns a task for each; *)
(* the tasks take a server, a queue for messages and a buffer from three   *)
(* lock-free queues, receive, and give them back; finish_receive waits for *)
(* all of them.  The blocking calls do the same on the servers in place,   *)
(* with the caller waiting.  A step here is one operation on a shared      *)
(* queue or one call of receive_loop.                                      *)
(*                                                                         *)
(* A server is its id.  Its n-th message is [server, n].  What is in its   *)
(* socket is a sequence of packets, of the kinds receive_loop tells apart; *)
(* ready is the published queue of its channel.                            *)
(***************************************************************************)
EXTENDS Naturals, FiniteSets, SequencesExt

CONSTANTS
  Servers,          \* ids of the servers the application creates
  max_servers,      \* Pool::max_servers, the room in each of the queues
  LOOP,             \* packets one receive_loop looks at, 100 in the code
  PASSES,           \* receive_loop calls of a task, 100000 in the code
  NoServer,         \* a task that has no server
  NoCounter,        \* Pool::counter is None
  MaxPackets        \* bound: packets that arrive at all servers together

ASSUME PoolAssumption ==
  /\ max_servers \in Nat \ {0} /\ LOOP \in Nat \ {0} /\ PASSES \in Nat \ {0}
  /\ MaxPackets \in Nat
  /\ NoServer \notin Servers /\ NoCounter \notin Nat

VARIABLES
  servers,          \* servers the pool has at home
  servers_in_use,   \* queue: servers given to the tasks
  receive_queue,    \* queue of queues of messages
  receive_buffers,  \* how many buffers are in their queue
  out_buffers,      \* queue of out buffers
  published,        \* messages for the application
  counter,          \* CountdownEvent of the last receive, or NoCounter
  task,             \* what each task is doing
  call,             \* the blocking call the application is in
  api,              \* which way of receiving the application uses
  socket, ready,    \* of each server: packets, published messages
  packets,          \* how much of MaxPackets is used
  created,          \* history: servers the application created
  arrived,          \* history: messages that arrived at each server
  given,            \* history: messages the application got
  cut,              \* history: messages an out buffer does not tell of
  served            \* history: servers received in this round

queues  == <<servers_in_use, receive_queue, receive_buffers, out_buffers>>
pool    == <<servers, queues, published, counter>>
network == <<socket, ready, packets, arrived>>
history == <<created, given, cut, served>>
rest    == <<servers, published, call, api, network, history>>
vars    == <<pool, task, call, api, network, history>>

Tasks == 1 .. max_servers + 1

Idle == [kind |-> "none", pc |-> "idle", server |-> NoServer,
         held |-> << >>, written |-> 0, passes |-> 0]

Spawned(kind, pc, server) ==
  [Idle EXCEPT !.kind = kind, !.pc = pc, !.server = server]

\* The data of an out buffer since it was reset, and how much of it is told
OutBuffer(data, written) == [data |-> data, bytes_written |-> written]

NoneRunning == \A t \in Tasks : task[t] = Idle

\* ArrayQueue::push: a full queue gives the value back, and it is dropped
push(queue, value) ==
  IF Len(queue) < max_servers THEN Append(queue, value) ELSE queue

\* Pushing values one after the other: those that find no room are dropped
push_all(queue, values) ==
  LET room == max_servers - Len(queue)
  IN  queue \o SubSeq(values, 1, IF Len(values) < room THEN Len(values) ELSE room)

\* Pool::create, for an application that uses the queue or the out buffers
Init ==
  /\ servers = {}
  /\ servers_in_use = << >>
  /\ receive_queue = [i \in 1 .. max_servers |-> << >>]
  /\ receive_buffers = max_servers
  /\ out_buffers = [i \in 1 .. max_servers |-> OutBuffer(<< >>, 0)]
  /\ published = << >>
  /\ counter = NoCounter
  /\ task = [t \in Tasks |-> Idle]
  /\ call = "none"
  /\ api \in {"queue", "out"}
  /\ socket = [s \in Servers |-> << >>]
  /\ ready = [s \in Servers |-> << >>]
  /\ packets = 0
  /\ created = {}
  /\ arrived = [s \in Servers |-> 0]
  /\ given = << >>
  /\ cut = {}
  /\ served = {}

-----------------------------------------------------------------------------
(***************************************************************************)
(* The network and the server's receive_loop.                              *)
(***************************************************************************)

\* The servers the tasks have
WithTasks == {task[t].server : t \in Tasks} \ {NoServer}

\* The servers there are: at home, in the queue or with a task
Existing == servers \cup ToSet(servers_in_use) \cup WithTasks

Kinds == {"reliable", "quiet", "error"}

(***************************************************************************)
(* A packet arrives (external), after which its channel will publish the   *)
(* messages low + 1 to high: none if it is a duplicate, waits behind a gap *)
(* or is a nack, and more than one if it closes a gap, but never more in   *)
(* all than there were packets.  "reliable" is a message that the channel  *)
(* accepts, "quiet" one that receive_from_socket answers with Retry (NONE, *)
(* NACK, fragments, duplicates), "error" one for a channel that the server *)
(* does not have.                                                          *)
(***************************************************************************)
Arrive(s, kind, count) ==
  /\ s \in Existing
  /\ packets < MaxPackets
  /\ SumFunction(arrived) + count <= packets + 1
  /\ kind = "error" => count = 0
  /\ packets' = packets + 1
  /\ arrived' = [arrived EXCEPT ![s] = @ + count]
  /\ socket' = [socket EXCEPT ![s] =
                  Append(@, [kind |-> kind,
                             low |-> arrived[s], high |-> arrived[s] + count])]
  /\ UNCHANGED <<pool, task, call, api, ready, history>>

\* Mutant: a reliable packet returns the newest message, not the channel's next.
receive_loop_returns_own(s) ==
  LET seen   == SubSeq(socket[s], 1, Min({LOOP, Len(socket[s])}))
      some(i) == ready[s] # << >> \/ seen[i].high > seen[1].low
      stops  == {i \in DOMAIN seen : \/ seen[i].kind = "error"
                                     \/ seen[i].kind = "reliable" /\ some(i)}
      stop   == IF stops = {} THEN 0 ELSE Min(stops)
      taken  == IF stop = 0 THEN Len(seen) ELSE stop
      failed == stop # 0 /\ seen[stop].kind = "error"
      read   == IF taken = 0 THEN 0 ELSE seen[taken].high - seen[1].low
      queued == ready[s] \o [i \in 1 .. read |-> seen[1].low + i]
      found  == ~ failed /\ queued # << >>
      own    == found /\ stop # 0
  IN  [found  |-> found,
       n      |-> IF own THEN Last(queued) ELSE IF found THEN Head(queued) ELSE 0,
       ready  |-> IF own THEN Front(queued) ELSE IF found THEN Tail(queued) ELSE queued,
       socket |-> SubSeq(socket[s], taken + 1, Len(socket[s]))]

\* Mutant: the end of the packets is not told from a message.
receive_loop_never_empty(s) ==
  LET seen == SubSeq(socket[s], 1, Min({1, Len(socket[s])}))
  IN  [found  |-> TRUE,
       n      |-> IF seen = << >> THEN 0 ELSE seen[1].high,
       ready  |-> ready[s],
       socket |-> SubSeq(socket[s], Len(seen) + 1, Len(socket[s]))]

(***************************************************************************)
(* receive_loop of server s.  It looks at up to LOOP packets and returns   *)
(* at an error, or at a reliable one after which the channel has messages, *)
(* with the first of them; after the last packet, or LOOP of them, it      *)
(* returns what the channel has, which may be nothing.                     *)
(***************************************************************************)
receive_loop(s) ==
  LET seen   == SubSeq(socket[s], 1, Min({LOOP, Len(socket[s])}))
      some(i) == ready[s] # << >> \/ seen[i].high > seen[1].low
      stops  == {i \in DOMAIN seen : \/ seen[i].kind = "error"
                                     \/ seen[i].kind = "reliable" /\ some(i)}
      stop   == IF stops = {} THEN 0 ELSE Min(stops)
      taken  == IF stop = 0 THEN Len(seen) ELSE stop
      failed == stop # 0 /\ seen[stop].kind = "error"
      read   == IF taken = 0 THEN 0 ELSE seen[taken].high - seen[1].low
      queued == ready[s] \o [i \in 1 .. read |-> seen[1].low + i]
      found  == ~ failed /\ queued # << >>
  IN  [found  |-> found,
       n      |-> IF found THEN Head(queued) ELSE 0,
       ready  |-> IF found THEN Tail(queued) ELSE queued,
       socket |-> SubSeq(socket[s], taken + 1, Len(socket[s]))]

-----------------------------------------------------------------------------
(***************************************************************************)
(* The tasks.                                                              *)
(***************************************************************************)

At(t, pc) == task[t].pc = pc

Goto(t, pc) == [task EXCEPT ![t].pc = pc]

PopServer(t) ==
  /\ At(t, "pop_server")
  /\ IF servers_in_use = << >>
     THEN task' = Goto(t, "decrement") /\ UNCHANGED servers_in_use
     ELSE /\ task' = [task EXCEPT ![t].pc = "pop_container",
                                  ![t].server = Head(servers_in_use)]
          /\ servers_in_use' = Tail(servers_in_use)
  /\ UNCHANGED <<receive_queue, receive_buffers, out_buffers, counter, rest>>

\* What follows when a task has nothing to give back but its server
Ended(t) ==
  IF task[t].kind = "receive" THEN Goto(t, "push_server")
                              ELSE [task EXCEPT ![t] = Idle]

\* A queue for the messages, or an out buffer, which is reset
PopContainer(t) ==
  /\ At(t, "pop_container")
  /\ LET queue == IF task[t].kind = "out" THEN out_buffers ELSE receive_queue
     IN  /\ task' = IF queue = << >> THEN Ended(t)
                    ELSE [task EXCEPT
                            ![t].pc = "pop_buffer",
                            ![t].held = IF task[t].kind = "out" THEN << >>
                                        ELSE Head(queue)]
         /\ LET left == IF queue = << >> THEN queue ELSE Tail(queue)
            IN  IF task[t].kind = "out"
                THEN out_buffers' = left /\ UNCHANGED receive_queue
                ELSE receive_queue' = left /\ UNCHANGED out_buffers
  /\ UNCHANGED <<servers_in_use, receive_buffers, counter, rest>>

PopBuffer(t) ==
  /\ At(t, "pop_buffer")
  /\ IF receive_buffers = 0
     THEN task' = Goto(t, "push_container") /\ UNCHANGED receive_buffers
     ELSE /\ task' = Goto(t, "receive")
          /\ receive_buffers' = receive_buffers - 1
  /\ UNCHANGED <<servers_in_use, receive_queue, out_buffers, counter, rest>>

(***************************************************************************)
(* One pass of receive_server or of receive_server_into_out_buffer.  It is *)
(* only at the break, not after the last pass, that the latter writes      *)
(* bytes_written.                                                          *)
(***************************************************************************)
ReceiveOne(t) ==
  /\ At(t, "receive")
  /\ LET s      == task[t].server
         result == receive_loop(s)
         got    == Append(task[t].held, [server |-> s, n |-> result.n])
         last   == task[t].passes + 1 = PASSES
     IN  /\ socket' = [socket EXCEPT ![s] = result.socket]
         /\ ready' = [ready EXCEPT ![s] = result.ready]
         /\ task' = IF result.found
                    THEN [task EXCEPT ![t].held = got, ![t].passes = @ + 1,
                                      ![t].pc = IF last THEN "push_buffer" ELSE @]
                    ELSE [task EXCEPT ![t].pc = "push_buffer",
                                      ![t].written = Len(task[t].held)]
         /\ cut' = IF result.found /\ last /\ task[t].kind = "out"
                   THEN cut \cup ToSet(got) ELSE cut
         /\ served' = served \cup {s}
  /\ UNCHANGED <<pool, call, api, packets, arrived, created, given>>

\* n buffers go back to their queue
ReturnBuffers(t, n) ==
  /\ At(t, "push_buffer")
  /\ receive_buffers' = receive_buffers + n
  /\ task' = Goto(t, "push_container")
  /\ UNCHANGED <<servers_in_use, receive_queue, out_buffers, counter, rest>>

\* Mutant: a task that received nothing keeps the buffer.
PushBuffer_if_used(t) == ReturnBuffers(t, IF task[t].passes > 0 THEN 1 ELSE 0)

PushBuffer(t) == ReturnBuffers(t, 1)

PushContainer(t) ==
  /\ At(t, "push_container")
  /\ IF task[t].kind = "out"
     THEN /\ out_buffers' = push(out_buffers,
                                 OutBuffer(task[t].held, task[t].written))
          /\ UNCHANGED receive_queue
     ELSE /\ receive_queue' = push(receive_queue, task[t].held)
          /\ UNCHANGED out_buffers
  /\ task' = [Ended(t) EXCEPT ![t].held = << >>, ![t].written = 0,
                              ![t].passes = 0]
  /\ UNCHANGED <<servers_in_use, receive_buffers, counter, rest>>

\* The task gives its server away and the queue of servers becomes queue
ReturnServer(t, queue) ==
  /\ At(t, "push_server")
  /\ servers_in_use' = queue
  /\ task' = [task EXCEPT ![t].pc = "decrement", ![t].server = NoServer]
  /\ UNCHANGED <<receive_queue, receive_buffers, out_buffers, counter, rest>>

\* Mutant: the server goes back to the front.
PushServer_front(t) == ReturnServer(t, <<task[t].server>> \o servers_in_use)

PushServer(t) == ReturnServer(t, push(servers_in_use, task[t].server))

Decrement(t) ==
  /\ At(t, "decrement")
  /\ counter' = counter - 1
  /\ task' = [task EXCEPT ![t] = Idle]
  /\ UNCHANGED <<queues, rest>>

TaskStep(t) ==
  \/ PopServer(t)
  \/ PopContainer(t)
  \/ PopBuffer(t)
  \/ ReceiveOne(t)
  \/ PushBuffer(t)
  \/ PushContainer(t)
  \/ PushServer(t)
  \/ Decrement(t)

-----------------------------------------------------------------------------
(***************************************************************************)
(* The application.  It is one thread, so it is in one call at a time, and *)
(* it keeps to two things the code asks of it and does not check: receive  *)
(* and finish_receive go together (the comment of receive), and every out  *)
(* buffer is fetched before the next round, which resets them.             *)
(***************************************************************************)
Calling == call = "none"

BetweenRounds == Calling /\ counter = NoCounter

\* create_server, with an id of its own.  > lets one server too many in.
create_server(id) ==
  /\ Calling
  /\ id \notin created
  /\ ~ (Cardinality(servers) > max_servers)
  /\ servers' = servers \cup {id}
  /\ created' = created \cup {id}
  /\ UNCHANGED <<queues, published, counter, task, call, api, network, given, cut,
                 served>>

\* The order in which servers.drain() and servers.par_iter_mut() give them
Orders == SetToSeqs(servers)

\* The servers go to the queue, with a task for each and a countdown
Spawn(count) ==
  /\ BetweenRounds /\ api = "queue" /\ servers # {}
  /\ \E order \in Orders :
       servers_in_use' = push_all(servers_in_use, order)
  /\ servers' = {}
  /\ counter' = count
  /\ task' = [t \in Tasks |-> IF t <= Cardinality(servers)
                              THEN Spawned("receive", "pop_server", NoServer)
                              ELSE Idle]
  /\ served' = {}
  /\ UNCHANGED <<receive_queue, receive_buffers, out_buffers, published, call,
                 api, network, created, given, cut>>

\* Mutant: the servers are counted after they were drained.
receive_counts_late == Spawn(0)

\* Mutant: the countdown has room for every server there could be.
receive_counts_max == Spawn(max_servers)

\* receive: without servers it returns false
receive == Spawn(Cardinality(servers))

\* Mutant: each queue is read and not drained.
move_received_to_published_keeps ==
  /\ published' = published \o FlattenSeq(receive_queue)
  /\ UNCHANGED receive_queue

\* move_received_to_published, with the queues that are there
move_received_to_published ==
  /\ published' = published \o FlattenSeq(receive_queue)
  /\ receive_queue' = [i \in DOMAIN receive_queue |-> << >>]

\* The servers come home, with what they received
Join ==
  /\ move_received_to_published
  /\ servers' = servers \cup ToSet(servers_in_use)
  /\ servers_in_use' = << >>
  /\ counter' = NoCounter
  /\ UNCHANGED <<receive_buffers, out_buffers, task, call, api, network,
                 history>>

\* Mutant: does not wait for the tasks.
finish_receive_no_wait == Calling /\ counter # NoCounter /\ Join

\* finish_receive, once counter.wait() returns
finish_receive == Calling /\ counter = 0 /\ Join

\* The parallel part of a blocking call
Block(name, kind) ==
  /\ call' = name
  /\ LET order == SetToSeq(servers)
     IN  task' = [t \in Tasks |-> IF t <= Len(order)
                                  THEN Spawned(kind, "pop_container", order[t])
                                  ELSE Idle]
  /\ served' = {}
  /\ UNCHANGED <<pool, api, network, created, given, cut>>

receive_blocking ==
  BetweenRounds /\ api = "queue" /\ Block("receive_blocking", "blocking")

receive_blocking_out_buffer ==
  /\ BetweenRounds /\ api = "out"
  /\ \A i \in DOMAIN out_buffers : out_buffers[i].data = << >>
  /\ Block("receive_blocking_out_buffer", "out")

\* A blocking call ends when its tasks have
ReturnBlocking ==
  /\ ~ Calling /\ NoneRunning
  /\ call' = "none"
  /\ IF call = "receive_blocking" THEN move_received_to_published
                                  ELSE UNCHANGED <<published, receive_queue>>
  /\ UNCHANGED <<servers, servers_in_use, receive_buffers, out_buffers, counter,
                 task, api, network, history>>

\* What the application gets
Give(messages) == given' = given \o messages

take_published ==
  /\ Calling /\ published # << >>
  /\ Give(<<Head(published)>>)
  /\ published' = Tail(published)
  /\ UNCHANGED <<servers, servers_in_use, receive_queue, receive_buffers,
                 out_buffers, counter, task, call, api, network, created, cut,
                 served>>

(***************************************************************************)
(* get_next_out_buffer: empty buffers go to the back on the way to the     *)
(* first that has messages; it is copied as far as bytes_written, reset    *)
(* and put back too.                                                       *)
(***************************************************************************)
get_next_out_buffer ==
  /\ Calling
  /\ \E k \in DOMAIN out_buffers :
         /\ out_buffers[k].data # << >>
         /\ \A i \in 1 .. k - 1 : out_buffers[i].data = << >>
         /\ Give(SubSeq(out_buffers[k].data, 1, out_buffers[k].bytes_written))
         /\ out_buffers' = SubSeq(out_buffers, k + 1, Len(out_buffers))
                             \o SubSeq(out_buffers, 1, k - 1)
                             \o <<OutBuffer(<< >>, 0)>>
  /\ UNCHANGED <<servers, servers_in_use, receive_queue, receive_buffers,
                 published, counter, task, call, api, network, created, cut,
                 served>>

Next ==
  \/ \E t \in Tasks : TaskStep(t)
  \/ \E s \in Servers :
       \/ create_server(s)
       \/ \E kind \in Kinds, count \in 0 .. MaxPackets : Arrive(s, kind, count)
  \/ receive
  \/ finish_receive
  \/ receive_blocking
  \/ receive_blocking_out_buffer
  \/ ReturnBlocking
  \/ take_published
  \/ get_next_out_buffer

(***************************************************************************)
(* Fairness.  rayon runs every task that was spawned, and the application  *)
(* finishes what it began; nothing else it does is assumed.  A task always *)
(* has a step until it is idle, so the first conjunct is                   *)
(* WF_vars(TaskStep(t)) with ENABLED written out, for TLC's sake.          *)
(***************************************************************************)
Fairness ==
  /\ \A t \in Tasks : []<>(task[t] = Idle) \/ []<><<TaskStep(t)>>_vars
  /\ WF_vars(finish_receive) /\ WF_vars(ReturnBlocking)

Spec == Init /\ [][Next]_vars /\ Fairness

-----------------------------------------------------------------------------
(***************************************************************************)
(* Properties.                                                             *)
(***************************************************************************)

Messages == [server : Servers, n : Nat \ {0}]

\* Type correctness of the queues, the tasks and the history.
TypeOK ==
  /\ servers \subseteq Servers /\ servers_in_use \in Seq(Servers)
  /\ receive_queue \in Seq(Seq(Messages)) /\ receive_buffers \in 0 .. max_servers
  /\ \A i \in DOMAIN out_buffers : /\ out_buffers[i].data \in Seq(Messages)
                                   /\ out_buffers[i].bytes_written \in Nat
  /\ published \in Seq(Messages)
  /\ counter \in Nat \cup {NoCounter}
  /\ \A t \in Tasks : /\ task[t].server \in Servers \cup {NoServer}
                      /\ task[t].held \in Seq(Messages)
                      /\ task[t].passes \in 0 .. PASSES
  /\ cut \subseteq Messages

(***************************************************************************)
(* No server is lost or in two hands, however the tasks interleave and     *)
(* whenever a server is added: every server created is at home, in the     *)
(* queue or with one task, and between rounds all are at home.             *)
(***************************************************************************)
ServersKept ==
  /\ Existing = created
  /\ \A t, u \in Tasks :
       task[t].server = task[u].server /\ task[t].server # NoServer => t = u
  /\ Calling => /\ IsInjective(servers_in_use)
                /\ ToSet(servers_in_use) \cap (servers \cup WithTasks) = {}
                /\ servers \cap WithTasks = {}
  /\ BetweenRounds => servers_in_use = << >> /\ WithTasks = {}

(***************************************************************************)
(* What the tasks borrow is all there again when none of them runs, as the *)
(* test says ("servers and arrays returned"): a queue, a buffer and an out *)
(* buffer for each server there can be.                                    *)
(***************************************************************************)
ArraysReturned ==
  NoneRunning => /\ Len(receive_queue) = max_servers
                 /\ receive_buffers = max_servers
                 /\ Len(out_buffers) = max_servers

(***************************************************************************)
(* The countdown is the number of tasks still to come: it does not reach 0 *)
(* before the last has given everything back, which is all that keeps      *)
(* finish_receive from leaving a server behind, nor is it decremented      *)
(* below 0, where the task would panic.                                    *)
(***************************************************************************)
CountdownExact ==
  counter # NoCounter =>
    counter = Cardinality({t \in Tasks : task[t].kind = "receive"})

\* Where a sequence of messages has message m
In(place, messages, m) ==
  {<<place, i>> : i \in {i \in DOMAIN messages : messages[i] = m}}

\* Where message n of server s is
Places(s, n) ==
  LET m == [server |-> s, n |-> n]
      unread(p) == p.low < n /\ n <= p.high
  IN  {<<<<"socket", s>>, i>> : i \in {i \in DOMAIN socket[s] : unread(socket[s][i])}}
      \cup In(<<"ready", s>>, [i \in DOMAIN ready[s] |->
                                [server |-> s, n |-> ready[s][i]]], m)
      \cup (UNION {In(<<"task", t>>, task[t].held, m) : t \in Tasks})
      \cup (UNION {In(<<"queue", i>>, receive_queue[i], m) : i \in DOMAIN receive_queue})
      \cup (UNION {In(<<"out", i>>, out_buffers[i].data, m) : i \in DOMAIN out_buffers})
      \cup In(<<"published", 0>>, published, m)
      \cup In(<<"given", 0>>, given, m)

(***************************************************************************)
(* No message is lost or doubled on its way from the socket through task,  *)
(* queue and published queue, or out buffer, to the application, whatever  *)
(* ends a task's loop (an error, LOOP packets, PASSES messages): each that *)
(* arrived is in one place.  The exception is cut: after PASSES messages   *)
(* an out buffer says it holds no bytes.                                   *)
(***************************************************************************)
EachInOnePlace ==
  \A s \in Servers, n \in 1 .. MaxPackets :
    /\ \A x, y \in Places(s, n) : x = y
    /\ Places(s, n) = {} => n > arrived[s] \/ [server |-> s, n |-> n] \in cut
    /\ n > arrived[s] => Places(s, n) = {}

(***************************************************************************)
(* The application gets the messages of a server in the order in which the *)
(* server published them, although each round puts them in whichever queue *)
(* its task was given, and the queues move round.                          *)
(***************************************************************************)
GivenInOrder ==
  LET out == given \o published
  IN  \A i, j \in DOMAIN out :
        i < j /\ out[i].server = out[j].server => out[i].n < out[j].n

(***************************************************************************)
(* Every round serves every server: when the countdown has ended, each of  *)
(* the servers in the queue has been received since the round began, and   *)
(* when a blocking call returns, each of the pool's.  The queue of servers *)
(* is first in, first out, so no task takes a server that another has      *)
(* given back while one still waits for its turn.                          *)
(***************************************************************************)
EveryServerServed ==
  /\ counter = 0 => ToSet(servers_in_use) \subseteq served
  /\ (~ Calling /\ NoneRunning) => servers \subseteq served

\* Every round ends: finish_receive's wait and the blocking calls return.
RoundEnds == ~ BetweenRounds ~> BetweenRounds
=============================================================================
