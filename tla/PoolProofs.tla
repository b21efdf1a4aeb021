----------------------------- MODULE PoolProofs -----------------------------
(***************************************************************************)
(* The parallel receive of the pool, for any number of servers that fit    *)
(* and any interleaving of the tasks: every server comes back and is       *)
(* served, everything borrowed is returned, the countdown is exact, and    *)
(* every message reaches the application once and in its server's order.   *)
(***************************************************************************)
EXTENDS Pool, FiniteSetTheorems, NaturalsInduction, TLAPS

\* What the proofs need of the application: the queues have room for its servers
ServersFit == IsFiniteSet(Servers) /\ Cardinality(Servers) <= max_servers

(***************************************************************************)
(* The inductive invariant: types, what a task has at each of its steps,   *)
(* which tasks run when, who has a server, what is on loan, and which      *)
(* servers of a round have had their turn.                                 *)
(***************************************************************************)
TaskKinds == {"none", "receive", "blocking", "out"}

HasServer == {"pop_container", "pop_buffer", "receive", "push_buffer",
              "push_container", "push_server"}

HasContainer == {"pop_buffer", "receive", "push_buffer", "push_container"}

HasBuffer == {"receive", "push_buffer"}

Unserved == {"pop_container", "pop_buffer", "receive"}

Steps == HasServer \cup {"idle", "pop_server", "decrement"}

TaskType == [kind : TaskKinds, pc : Steps, server : Servers \cup {NoServer},
             held : Seq(Messages), written : Nat, passes : 0 .. PASSES]

Packet == [kind : Kinds, low : Nat, high : Nat]

OutBuffers == [data : Seq(Messages), bytes_written : Nat]

Typed ==
  /\ servers \subseteq Servers /\ created \subseteq Servers
  /\ servers_in_use \in Seq(Servers)
  /\ receive_queue \in Seq(Seq(Messages)) /\ receive_buffers \in Nat
  /\ out_buffers \in Seq(OutBuffers)
  /\ published \in Seq(Messages)
  /\ task \in [Tasks -> TaskType]
  /\ socket \in [Servers -> Seq(Packet)]
  /\ ready \in [Servers -> Seq(Nat \ {0})]
  /\ arrived \in [Servers -> Nat]
  /\ cut \subseteq Messages

\* What a task has follows from where it is.
ShapeOf(t, x) ==
  /\ x.kind = "none" <=> x.pc = "idle"
  /\ x.kind \in {"blocking", "out"} =>
       x.pc \notin {"pop_server", "push_server", "decrement"}
  /\ x.server # NoServer <=> x.pc \in HasServer
  /\ x.pc \in {"pop_server", "pop_container", "pop_buffer"} => x.passes = 0
  /\ x.pc = "receive" => x.passes < PASSES
  /\ t > max_servers => x.pc = "idle"

Shape == \A t \in Tasks : ShapeOf(t, task[t])

Phases ==
  /\ counter = NoCounter => /\ servers_in_use = << >>
                            /\ \A t \in Tasks : task[t].kind # "receive"
  /\ counter # NoCounter => call = "none"
  /\ call = "none" => \A t \in Tasks : task[t].kind \notin {"blocking", "out"}

Owners ==
  /\ Existing = created
  /\ \A t, u \in Tasks :
       task[t].server = task[u].server /\ task[t].server # NoServer => t = u
  /\ IsInjective(servers_in_use)
  /\ \A i \in DOMAIN servers_in_use : servers_in_use[i] \notin servers
  /\ \A t \in Tasks, i \in DOMAIN servers_in_use :
       task[t].server # servers_in_use[i]
  /\ \A t \in Tasks : task[t].kind = "receive" => task[t].server \notin servers
  /\ \A t \in Tasks :
       task[t].kind \in {"blocking", "out"} => task[t].server \in servers

QueueLoans == {t \in Tasks : /\ task[t].kind # "out"
                             /\ task[t].pc \in HasContainer}

OutLoans == {t \in Tasks : task[t].kind = "out" /\ task[t].pc \in HasContainer}

BufferLoans == {t \in Tasks : task[t].pc \in HasBuffer}

Loans ==
  /\ Len(receive_queue) + Cardinality(QueueLoans) = max_servers
  /\ Len(out_buffers) + Cardinality(OutLoans) = max_servers
  /\ receive_buffers + Cardinality(BufferLoans) = max_servers

\* Tasks that have not taken a server yet
ToCome == {t \in Tasks : task[t].pc = "pop_server"}

Turns ==
  /\ \A t \in Tasks : task[t].pc \in HasServer \ Unserved =>
                        task[t].server \in served
  /\ counter # NoCounter =>
       /\ Cardinality(ToCome) <= Len(servers_in_use)
       /\ \A i \in DOMAIN servers_in_use :
            i > Cardinality(ToCome) => servers_in_use[i] \in served
  /\ call # "none" =>
       \A s \in servers :
         s \in served \/ \E t \in Tasks : /\ task[t].server = s
                                          /\ task[t].pc \in Unserved

IInv == Typed /\ Shape /\ Phases /\ Owners /\ Loans /\ CountdownExact /\ Turns

-----------------------------------------------------------------------------
(***************************************************************************)
(* Counting tasks.                                                         *)
(***************************************************************************)
LEMMA CountMove ==
  ASSUME NEW t \in Tasks, NEW S \in SUBSET Tasks, NEW T \in SUBSET Tasks,
         \A u \in Tasks : u # t => (u \in S <=> u \in T)
  PROVE  /\ Cardinality(S) \in Nat /\ Cardinality(T) \in Nat
         /\ (t \in S <=> t \in T) => Cardinality(T) = Cardinality(S)
         /\ t \notin S /\ t \in T => Cardinality(T) = Cardinality(S) + 1
         /\ t \in S /\ t \notin T => Cardinality(T) = Cardinality(S) - 1
<1>1. IsFiniteSet(Tasks)
  <2>1. max_servers + 1 \in Int /\ 1 \in Int
    BY PoolAssumption
  <2> QED
    BY <2>1, FS_Interval DEF Tasks
<1>2. IsFiniteSet(S) /\ IsFiniteSet(T)
  BY <1>1, FS_Subset
<1>3. Cardinality(S) \in Nat /\ Cardinality(T) \in Nat
  BY <1>2, FS_CardinalityType
<1>4. (t \in S <=> t \in T) => S = T
  OBVIOUS
<1>5. ASSUME t \notin S, t \in T PROVE Cardinality(T) = Cardinality(S) + 1
  <2>1. T = S \cup {t}
    BY <1>5
  <2> QED
    BY <1>2, <1>5, <2>1, FS_AddElement
<1>6. ASSUME t \in S, t \notin T PROVE Cardinality(T) = Cardinality(S) - 1
  <2>1. T = S \ {t}
    BY <1>6
  <2> QED
    BY <1>2, <1>6, <2>1, FS_RemoveElement
<1> QED
  BY <1>3, <1>4, <1>5, <1>6

\* Tasks that are all among the first n number at most n, fewer if one is not.
LEMMA CountBound ==
  ASSUME NEW n \in Nat, NEW S \in SUBSET (1 .. n)
  PROVE  /\ Cardinality(S) \in Nat /\ Cardinality(S) <= n
         /\ \A t \in 1 .. n : t \notin S => Cardinality(S) < n
         /\ S = 1 .. n => Cardinality(S) = n
         /\ S # {} => Cardinality(S) >= 1
         /\ S = {} => Cardinality(S) = 0
<1>1. IsFiniteSet(1 .. n) /\ Cardinality(1 .. n) = n
  BY FS_Interval
<1>2. IsFiniteSet(S) /\ Cardinality(S) <= n
  BY <1>1, FS_Subset
<1>3. Cardinality(S) \in Nat
  BY <1>2, FS_CardinalityType
<1>4. ASSUME NEW t \in 1 .. n, t \notin S PROVE Cardinality(S) < n
  <2>1. Cardinality(S) = n => S = 1 .. n
    BY <1>1, FS_Subset
  <2> QED
    BY <1>2, <1>3, <1>4, <2>1
<1>5. S # {} => Cardinality(S) >= 1
  BY <1>2, <1>3, FS_EmptySet
<1>6. S = {} => Cardinality(S) = 0
  BY FS_EmptySet
<1> QED
  BY <1>1, <1>2, <1>3, <1>4, <1>5, <1>6

\* A queue without repetition of servers is no longer than there are servers.
LEMMA QueueFits ==
  ASSUME ServersFit, NEW q \in Seq(Servers), IsInjective(q)
  PROVE  /\ Len(q) <= max_servers
         /\ \A s \in Servers : (\A i \in DOMAIN q : q[i] # s)
                                 => Len(q) < max_servers
<1>1. IsFiniteSet(Servers) /\ Cardinality(Servers) <= max_servers
      /\ Cardinality(Servers) \in Nat /\ max_servers \in Nat
  BY FS_CardinalityType, PoolAssumption DEF ServersFit
<1> DEFINE D == 1 .. Len(q)
<1>2. Len(q) \in Nat /\ DOMAIN q = D /\ q \in [D -> Servers]
  OBVIOUS
<1>3. Cardinality(D) = Len(q)
  <2>1. 1 \in Int /\ Len(q) \in Int
    BY <1>2
  <2>2. Cardinality(1 .. Len(q)) = IF 1 > Len(q) THEN 0 ELSE Len(q) - 1 + 1
    BY <2>1, FS_Interval
  <2> QED
    BY <1>2, <2>2
<1>4. q \in Injection(D, Servers)
  BY <1>2 DEF Injection, IsInjective
<1>5. /\ Cardinality(D) <= Cardinality(Servers)
      /\ Cardinality(D) = Cardinality(Servers) <=> q \in Surjection(D, Servers)
  BY <1>1, <1>4, FS_Injection
<1>6. ASSUME NEW s \in Servers, \A i \in DOMAIN q : q[i] # s
      PROVE  Len(q) < max_servers
  <2>1. q \notin Surjection(D, Servers)
    BY <1>2, <1>6 DEF Surjection
  <2> QED
    BY <1>1, <1>2, <1>3, <1>5, <2>1
<1> QED
  BY <1>1, <1>2, <1>3, <1>5, <1>6

-----------------------------------------------------------------------------
(***************************************************************************)
(* A step of task t that leaves it a task of this kind, at pc, with server *)
(* and passes, and the other tasks alone.                                  *)
(***************************************************************************)
Moves(t, kind, pc, server, passes) ==
  /\ task' \in [Tasks -> TaskType]
  /\ \A u \in Tasks : u # t => task'[u] = task[u]
  /\ task'[t].kind = kind /\ task'[t].pc = pc
  /\ task'[t].server = server /\ task'[t].passes = passes

LEMMA RecordMoves ==
  ASSUME Typed, NEW t \in Tasks, NEW x \in TaskType,
         task' = [task EXCEPT ![t] = x]
  PROVE  Moves(t, x.kind, x.pc, x.server, x.passes)
<1>1. task \in [Tasks -> TaskType]
  BY DEF Typed
<1> QED
  BY <1>1 DEF Moves

\* A task that only goes on.
LEMMA GotoMoves ==
  ASSUME Typed, NEW t \in Tasks, NEW pc \in Steps, task' = Goto(t, pc)
  PROVE  Moves(t, task[t].kind, pc, task[t].server, task[t].passes)
<1>1. task \in [Tasks -> TaskType] /\ task[t] \in TaskType
  BY DEF Typed
<1> QED
  BY <1>1 DEF Goto, Moves, TaskType

\* A task that ends.
LEMMA IdleMoves ==
  ASSUME Typed, NEW t \in Tasks, task' = [task EXCEPT ![t] = Idle]
  PROVE  Moves(t, "none", "idle", NoServer, 0)
<1>2. Idle \in TaskType
  BY PoolAssumption DEF Idle, TaskType, TaskKinds, Steps
<1>3. /\ Idle.kind = "none" /\ Idle.pc = "idle" /\ Idle.server = NoServer
      /\ Idle.passes = 0
  BY DEF Idle
<1>4. Moves(t, Idle.kind, Idle.pc, Idle.server, Idle.passes)
  BY <1>2, RecordMoves
<1> QED
  BY <1>3, <1>4

\* The task that takes a server from the queue.
LEMMA PopServerMoves ==
  ASSUME Typed, NEW t \in Tasks, PopServer(t)
  PROVE  /\ task[t].pc = "pop_server"
         /\ \/ /\ servers_in_use = << >> /\ servers_in_use' = servers_in_use
               /\ Moves(t, task[t].kind, "decrement", task[t].server,
                        task[t].passes)
            \/ /\ servers_in_use # << >>
               /\ servers_in_use' = Tail(servers_in_use)
               /\ Moves(t, task[t].kind, "pop_container", Head(servers_in_use),
                        task[t].passes)
<1>1. task \in [Tasks -> TaskType] /\ task[t] \in TaskType
  BY DEF Typed
<1>2. "decrement" \in Steps /\ "pop_container" \in Steps
  BY DEF Steps, HasServer
<1>3. CASE servers_in_use = << >>
  BY <1>2, <1>3, GotoMoves DEF PopServer, At
<1>4. CASE servers_in_use # << >>
  <2>1. Head(servers_in_use) \in Servers
    BY <1>4 DEF Typed
  <2> DEFINE x == [task[t] EXCEPT !.pc = "pop_container",
                                  !.server = Head(servers_in_use)]
  <2>2. task' = [task EXCEPT ![t] = x]
    BY <1>1, <1>4 DEF PopServer
  <2>3. /\ x \in TaskType /\ x.kind = task[t].kind /\ x.pc = "pop_container"
        /\ x.server = Head(servers_in_use) /\ x.passes = task[t].passes
    BY <1>1, <1>2, <2>1 DEF TaskType
  <2> HIDE DEF x
  <2>4. Moves(t, x.kind, x.pc, x.server, x.passes)
    BY <2>2, <2>3, RecordMoves
  <2> QED
    BY <1>4, <2>3, <2>4 DEF PopServer, At
<1> QED
  BY <1>3, <1>4

(***************************************************************************)
(* A task that needs a queue, an out buffer or a buffer finds one: no more *)
(* tasks run than there are of each.                                       *)
(***************************************************************************)
LEMMA Room ==
  ASSUME Typed, Shape, Loans, NEW t \in Tasks
  PROVE  /\ task[t].pc = "pop_container" =>
              IF task[t].kind = "out" THEN Len(out_buffers) > 0
                                      ELSE Len(receive_queue) > 0
         /\ task[t].pc = "pop_buffer" => receive_buffers > 0
         /\ t \in QueueLoans => Len(receive_queue) < max_servers
         /\ t \in OutLoans => Len(out_buffers) < max_servers
         /\ t \in BufferLoans => receive_buffers < max_servers
<1>1. /\ max_servers \in Nat /\ receive_buffers \in Nat
      /\ Len(receive_queue) \in Nat /\ Len(out_buffers) \in Nat
  BY PoolAssumption DEF Typed
<1>2. \A u \in Tasks : task[u].pc # "idle" => u \in 1 .. max_servers
  BY <1>1 DEF Shape, ShapeOf, Tasks
<1>3. /\ QueueLoans \in SUBSET (1 .. max_servers)
      /\ OutLoans \in SUBSET (1 .. max_servers)
      /\ BufferLoans \in SUBSET (1 .. max_servers)
  BY <1>2 DEF QueueLoans, OutLoans, BufferLoans, HasContainer, HasBuffer
<1>4. /\ Cardinality(QueueLoans) \in Nat
      /\ \A u \in 1 .. max_servers :
           u \notin QueueLoans => Cardinality(QueueLoans) < max_servers
      /\ QueueLoans # {} => Cardinality(QueueLoans) >= 1
  BY <1>1, <1>3, CountBound
<1>5. /\ Cardinality(OutLoans) \in Nat
      /\ \A u \in 1 .. max_servers :
           u \notin OutLoans => Cardinality(OutLoans) < max_servers
      /\ OutLoans # {} => Cardinality(OutLoans) >= 1
  BY <1>1, <1>3, CountBound
<1>6. /\ Cardinality(BufferLoans) \in Nat
      /\ \A u \in 1 .. max_servers :
           u \notin BufferLoans => Cardinality(BufferLoans) < max_servers
      /\ BufferLoans # {} => Cardinality(BufferLoans) >= 1
  BY <1>1, <1>3, CountBound
<1>7. /\ Len(receive_queue) + Cardinality(QueueLoans) = max_servers
      /\ Len(out_buffers) + Cardinality(OutLoans) = max_servers
      /\ receive_buffers + Cardinality(BufferLoans) = max_servers
  BY DEF Loans
<1>8. ASSUME task[t].pc = "pop_container"
      PROVE  Len(out_buffers) > 0 /\ Len(receive_queue) > 0
  <2>1. t \in 1 .. max_servers
    BY <1>2, <1>8
  <2>2. t \notin QueueLoans /\ t \notin OutLoans
    BY <1>8 DEF QueueLoans, OutLoans, HasContainer
  <2>3. /\ Cardinality(QueueLoans) < max_servers
        /\ Cardinality(OutLoans) < max_servers
    BY <1>4, <1>5, <2>1, <2>2
  <2> QED
    BY <1>1, <1>4, <1>5, <1>7, <2>3
<1>9. ASSUME task[t].pc = "pop_buffer" PROVE receive_buffers > 0
  <2>1. t \in 1 .. max_servers
    BY <1>2, <1>9
  <2>2. t \notin BufferLoans
    BY <1>9 DEF BufferLoans, HasBuffer
  <2>3. Cardinality(BufferLoans) < max_servers
    BY <1>6, <2>1, <2>2
  <2> QED
    BY <1>1, <1>6, <1>7, <2>3
<1>10. /\ t \in QueueLoans => Len(receive_queue) < max_servers
       /\ t \in OutLoans => Len(out_buffers) < max_servers
       /\ t \in BufferLoans => receive_buffers < max_servers
  BY <1>1, <1>4, <1>5, <1>6, <1>7
<1> QED
  BY <1>8, <1>9, <1>10

\* The task that takes a queue for messages or an out buffer.
LEMMA PopContainerMoves ==
  ASSUME Typed, Shape, Loans, NEW t \in Tasks, PopContainer(t)
  PROVE  /\ task[t].pc = "pop_container"
         /\ Moves(t, task[t].kind, "pop_buffer", task[t].server, task[t].passes)
         /\ IF task[t].kind = "out"
            THEN /\ receive_queue' = receive_queue
                 /\ out_buffers # << >> /\ out_buffers' = Tail(out_buffers)
            ELSE /\ out_buffers' = out_buffers
                 /\ receive_queue # << >> /\ receive_queue' = Tail(receive_queue)
<1>1. task \in [Tasks -> TaskType] /\ task[t] \in TaskType
  BY DEF Typed
<1>2. task[t].pc = "pop_container"
  BY DEF PopContainer, At
<1>3. CASE task[t].kind = "out"
  <2> DEFINE x == [task[t] EXCEPT !.pc = "pop_buffer", !.held = << >>]
  <2>1. out_buffers # << >>
    BY <1>2, <1>3, Room
  <2>2. task' = [task EXCEPT ![t] = x]
    BY <1>1, <1>3, <2>1 DEF PopContainer
  <2>3. /\ x \in TaskType /\ x.kind = task[t].kind /\ x.pc = "pop_buffer"
        /\ x.server = task[t].server /\ x.passes = task[t].passes
    <3>1. << >> \in Seq(Messages)
      OBVIOUS
    <3> QED
      BY <1>1, <3>1 DEF TaskType, Steps, HasServer
  <2> HIDE DEF x
  <2>4. Moves(t, x.kind, x.pc, x.server, x.passes)
    BY <2>2, <2>3, RecordMoves
  <2> QED
    BY <1>2, <1>3, <2>1, <2>3, <2>4 DEF PopContainer
<1>4. CASE task[t].kind # "out"
  <2> DEFINE x == [task[t] EXCEPT !.pc = "pop_buffer",
                                  !.held = Head(receive_queue)]
  <2>1. receive_queue # << >>
    BY <1>2, <1>4, Room
  <2>2. task' = [task EXCEPT ![t] = x]
    BY <1>1, <1>4, <2>1 DEF PopContainer
  <2>3. /\ x \in TaskType /\ x.kind = task[t].kind /\ x.pc = "pop_buffer"
        /\ x.server = task[t].server /\ x.passes = task[t].passes
    <3>1. Head(receive_queue) \in Seq(Messages)
      BY <2>1 DEF Typed
    <3> QED
      BY <1>1, <3>1 DEF TaskType, Steps, HasServer
  <2> HIDE DEF x
  <2>4. Moves(t, x.kind, x.pc, x.server, x.passes)
    BY <2>2, <2>3, RecordMoves
  <2> QED
    BY <1>2, <1>4, <2>1, <2>3, <2>4 DEF PopContainer
<1> QED
  BY <1>3, <1>4

\* The task that takes a buffer.
LEMMA PopBufferMoves ==
  ASSUME Typed, Shape, Loans, NEW t \in Tasks, PopBuffer(t)
  PROVE  /\ task[t].pc = "pop_buffer"
         /\ Moves(t, task[t].kind, "receive", task[t].server, task[t].passes)
         /\ receive_buffers > 0 /\ receive_buffers' = receive_buffers - 1
<1>1. task[t].pc = "pop_buffer"
  BY DEF PopBuffer, At
<1>2. receive_buffers > 0 /\ receive_buffers # 0
  BY <1>1, Room
<1>3. "receive" \in Steps
  BY DEF Steps, HasServer
<1>4. task' = Goto(t, "receive") /\ receive_buffers' = receive_buffers - 1
  BY <1>2 DEF PopBuffer
<1> QED
  BY <1>1, <1>2, <1>3, <1>4, GotoMoves

\* The task that gives its buffer back.
LEMMA PushBufferMoves ==
  ASSUME Typed, NEW t \in Tasks, PushBuffer(t)
  PROVE  /\ task[t].pc = "push_buffer"
         /\ Moves(t, task[t].kind, "push_container", task[t].server,
                  task[t].passes)
         /\ receive_buffers' = receive_buffers + 1
<1>1. "push_container" \in Steps
  BY DEF Steps, HasServer
<1> QED
  BY <1>1, GotoMoves DEF PushBuffer, ReturnBuffers, At

\* The task that gives its queue or its out buffer back: there is room for it.
LEMMA PushContainerMoves ==
  ASSUME Typed, Shape, Loans, NEW t \in Tasks, PushContainer(t)
  PROVE  /\ task[t].pc = "push_container"
         /\ IF task[t].kind = "receive"
            THEN Moves(t, task[t].kind, "push_server", task[t].server, 0)
            ELSE Moves(t, "none", "idle", NoServer, 0)
         /\ IF task[t].kind = "out"
            THEN /\ receive_queue' = receive_queue
                 /\ out_buffers' = Append(out_buffers,
                                     OutBuffer(task[t].held, task[t].written))
            ELSE /\ out_buffers' = out_buffers
                 /\ receive_queue' = Append(receive_queue, task[t].held)
<1>1. task \in [Tasks -> TaskType] /\ task[t] \in TaskType
  BY DEF Typed
<1>2. task[t].pc = "push_container"
  BY DEF PushContainer, At
<1>3. IF task[t].kind = "out" THEN Len(out_buffers) < max_servers
                              ELSE Len(receive_queue) < max_servers
  BY <1>2, Room DEF QueueLoans, OutLoans, HasContainer
<1>4. IF task[t].kind = "out"
      THEN /\ receive_queue' = receive_queue
           /\ out_buffers' = Append(out_buffers,
                               OutBuffer(task[t].held, task[t].written))
      ELSE /\ out_buffers' = out_buffers
           /\ receive_queue' = Append(receive_queue, task[t].held)
  BY <1>3 DEF PushContainer, push
<1>5. CASE task[t].kind = "receive"
  <2> DEFINE x == [task[t] EXCEPT !.pc = "push_server", !.held = << >>,
                                  !.written = 0, !.passes = 0]
  <2>1. task' = [task EXCEPT ![t] = x]
    BY <1>1, <1>5 DEF PushContainer, Ended, Goto
  <2>2. /\ x \in TaskType /\ x.kind = task[t].kind /\ x.pc = "push_server"
        /\ x.server = task[t].server /\ x.passes = 0
    <3>1. << >> \in Seq(Messages) /\ 0 \in 0 .. PASSES /\ "push_server" \in Steps
      BY PoolAssumption DEF Steps, HasServer
    <3> QED
      BY <1>1, <3>1 DEF TaskType
  <2> HIDE DEF x
  <2>3. Moves(t, x.kind, x.pc, x.server, x.passes)
    BY <2>1, <2>2, RecordMoves
  <2> QED
    BY <1>2, <1>4, <1>5, <2>2, <2>3
<1>6. CASE task[t].kind # "receive"
  <2> DEFINE x == [Idle EXCEPT !.held = << >>, !.written = 0, !.passes = 0]
  <2>1. task' = [task EXCEPT ![t] = x]
    BY <1>1, <1>6 DEF PushContainer, Ended
  <2>2. /\ x \in TaskType /\ x.kind = "none" /\ x.pc = "idle"
        /\ x.server = NoServer /\ x.passes = 0
    <3>1. << >> \in Seq(Messages) /\ 0 \in 0 .. PASSES
      BY PoolAssumption
    <3> QED
      BY <3>1 DEF Idle, TaskType, TaskKinds, Steps
  <2> HIDE DEF x
  <2>3. Moves(t, x.kind, x.pc, x.server, x.passes)
    BY <2>1, <2>2, RecordMoves
  <2> QED
    BY <1>2, <1>4, <1>6, <2>2, <2>3
<1> QED
  BY <1>5, <1>6

\* The task that gives its server back: there is room for it.
LEMMA PushServerMoves ==
  ASSUME ServersFit, Typed, Shape, Owners, NEW t \in Tasks, PushServer(t)
  PROVE  /\ task[t].pc = "push_server"
         /\ Moves(t, task[t].kind, "decrement", NoServer, task[t].passes)
         /\ servers_in_use' = Append(servers_in_use, task[t].server)
         /\ task[t].server \in Servers
<1>1. task \in [Tasks -> TaskType] /\ task[t] \in TaskType
  BY DEF Typed
<1>2. task[t].pc = "push_server"
  BY DEF PushServer, ReturnServer, At
<1>3. task[t].server # NoServer /\ task[t].server \in Servers
  BY <1>1, <1>2 DEF Shape, ShapeOf, HasServer, TaskType
<1>4. Len(servers_in_use) < max_servers
  <2>1. servers_in_use \in Seq(Servers) /\ IsInjective(servers_in_use)
    BY DEF Typed, Owners
  <2>2. \A i \in DOMAIN servers_in_use : servers_in_use[i] # task[t].server
    BY <1>3 DEF Owners
  <2> QED
    BY <1>3, <2>1, <2>2, QueueFits
<1>5. servers_in_use' = Append(servers_in_use, task[t].server)
  BY <1>4 DEF PushServer, ReturnServer, push
<1> DEFINE x == [task[t] EXCEPT !.pc = "decrement", !.server = NoServer]
<1>6. task' = [task EXCEPT ![t] = x]
  BY <1>1 DEF PushServer, ReturnServer
<1>7. /\ x \in TaskType /\ x.kind = task[t].kind /\ x.pc = "decrement"
      /\ x.server = NoServer /\ x.passes = task[t].passes
  BY <1>1 DEF TaskType, Steps
<1> HIDE DEF x
<1>8. Moves(t, x.kind, x.pc, x.server, x.passes)
  BY <1>6, <1>7, RecordMoves
<1> QED
  BY <1>2, <1>3, <1>5, <1>7, <1>8

-----------------------------------------------------------------------------
(***************************************************************************)
(* receive_loop, and the pass of a task that calls it.                     *)
(***************************************************************************)
LEMMA LeastNat ==
  ASSUME NEW S \in SUBSET Nat, S # {}
  PROVE  Min(S) \in S /\ \A k \in S : Min(S) <= k
<1>1. PICK m \in S : \A k \in S : ~ (<<k, m>> \in OpToRel(<, Nat))
  BY WFMin, NatLessThanWellFounded
<1>2. ASSUME NEW k \in S, k < m PROVE <<k, m>> \in OpToRel(<, Nat)
  <2>1. <<k, m>> \in Nat \X Nat
    OBVIOUS
  <2>2. <<k, m>>[1] = k /\ <<k, m>>[2] = m
    OBVIOUS
  <2> QED
    BY <1>2, <2>1, <2>2, Zenon DEF OpToRel
<1>3. \A k \in S : ~ (k < m)
  BY <1>1, <1>2
<1>4. \A k \in S : m <= k
  BY <1>3
<1> QED
  BY <1>4 DEF Min

\* The k numbers after l, none if k is negative.
LEMMA NumbersAfter ==
  ASSUME NEW l \in Nat, NEW k \in Int
  PROVE  [i \in 1 .. k |-> l + i] \in Seq(Nat \ {0})
<1>1. CASE k \in Nat
  BY <1>1
<1>2. CASE k \notin Nat
  <2>1. 1 .. k = 1 .. 0
    BY <1>2
  <2>2. [i \in 1 .. 0 |-> l + i] \in Seq(Nat \ {0})
    OBVIOUS
  <2> QED
    BY <2>1, <2>2
<1> QED
  BY <1>1, <1>2

\* What receive_loop returns and leaves.
LEMMA ReceiveLoopType ==
  ASSUME Typed, NEW s \in Servers
  PROVE  LET r == receive_loop(s)
         IN  /\ r.found \in BOOLEAN /\ r.found => r.n \in Nat \ {0}
             /\ r.ready \in Seq(Nat \ {0}) /\ r.socket \in Seq(Packet)
<1> DEFINE q      == socket[s]
           seen   == SubSeq(q, 1, Min({LOOP, Len(q)}))
           some(i) == ready[s] # << >> \/ seen[i].high > seen[1].low
           stops  == {i \in DOMAIN seen : \/ seen[i].kind = "error"
                                          \/ seen[i].kind = "reliable" /\ some(i)}
           stop   == IF stops = {} THEN 0 ELSE Min(stops)
           taken  == IF stop = 0 THEN Len(seen) ELSE stop
           failed == stop # 0 /\ seen[stop].kind = "error"
           read   == IF taken = 0 THEN 0 ELSE seen[taken].high - seen[1].low
           nums   == [i \in 1 .. read |-> seen[1].low + i]
           queued == ready[s] \o nums
           found  == ~ failed /\ queued # << >>
           r      == receive_loop(s)
<1>1. q \in Seq(Packet) /\ ready[s] \in Seq(Nat \ {0})
  BY DEF Typed
<1>2. Min({LOOP, Len(q)}) \in 0 .. Len(q)
  <2>1. {LOOP, Len(q)} \in SUBSET Nat /\ {LOOP, Len(q)} # {}
    BY <1>1, PoolAssumption
  <2>2. /\ Min({LOOP, Len(q)}) \in {LOOP, Len(q)}
        /\ \A k \in {LOOP, Len(q)} : Min({LOOP, Len(q)}) <= k
    BY <2>1, LeastNat
  <2> QED
    BY <1>1, <2>1, <2>2
<1>3. seen \in Seq(Packet) /\ Len(seen) \in 0 .. Len(q)
  <2> DEFINE m == Min({LOOP, Len(q)})
  <2>1. q \in Seq(Packet) /\ m \in 0 .. Len(q)
    BY <1>1, <1>2
  <2> HIDE DEF q, m
  <2>2. SubSeq(q, 1, m) \in Seq(Packet) /\ Len(SubSeq(q, 1, m)) = m
    BY <2>1
  <2> QED
    BY <1>2, <2>2 DEF m
<1>4. stop \in 0 .. Len(seen)
  <2> HIDE DEF seen
  <2>1. /\ stops \in SUBSET Nat /\ stops \subseteq 1 .. Len(seen)
        /\ Len(seen) \in Nat
    BY <1>3
  <2> HIDE DEF stops
  <2>2. stops # {} => Min(stops) \in stops
    BY <2>1, LeastNat
  <2>3. stops # {} => Min(stops) \in 0 .. Len(seen)
    <3>1. stops # {} => Min(stops) \in 1 .. Len(seen)
      BY <2>1, <2>2, Zenon
    <3>2. 1 .. Len(seen) \subseteq 0 .. Len(seen)
      BY <2>1
    <3> QED
      BY <3>1, <3>2, Zenon
  <2>4. 0 \in 0 .. Len(seen)
    BY <2>1
  <2>5. CASE stops = {}
    BY <2>4, <2>5
  <2>6. CASE stops # {}
    BY <2>3, <2>6
  <2> QED
    BY <2>5, <2>6
<1>5. r = [found  |-> found,
           n      |-> IF found THEN Head(queued) ELSE 0,
           ready  |-> IF found THEN Tail(queued) ELSE queued,
           socket |-> SubSeq(q, taken + 1, Len(q))]
  BY DEF receive_loop
<1> HIDE DEF seen, stops, stop, r
<1>6. taken \in 0 .. Len(seen)
  BY <1>3, <1>4
<1> HIDE DEF taken
<1>7. nums \in Seq(Nat \ {0})
  <2>1. CASE taken = 0
    <3>1. nums = << >>
      BY <2>1
    <3> HIDE DEF nums
    <3> QED
      BY <3>1
  <2>2. CASE taken # 0
    <3>1. taken \in 1 .. Len(seen) /\ 1 \in 1 .. Len(seen)
      BY <1>3, <1>6, <2>2
    <3>2. seen[taken] \in Packet /\ seen[1] \in Packet
      BY <1>3, <3>1
    <3>3. seen[taken].high \in Nat /\ seen[1].low \in Nat
      BY <3>2 DEF Packet
    <3>4. read \in Int
      BY <2>2, <3>3
    <3> HIDE DEF read
    <3> QED
      BY <3>3, <3>4, NumbersAfter
  <2> QED
    BY <2>1, <2>2
<1> HIDE DEF nums
<1>8. queued \in Seq(Nat \ {0})
  BY <1>1, <1>7
<1>9. SubSeq(q, taken + 1, Len(q)) \in Seq(Packet)
  <2>1. taken + 1 \in 1 .. Len(q) + 1
    BY <1>1, <1>3, <1>6
  <2> QED
    BY <1>1, <2>1
<1> HIDE DEF queued, q, failed
<1>10. found \in BOOLEAN
  OBVIOUS
<1>11. found => Head(queued) \in Nat \ {0} /\ Tail(queued) \in Seq(Nat \ {0})
  BY <1>8
<1> HIDE DEF found
<1>12. /\ r.found = found
       /\ r.n = IF found THEN Head(queued) ELSE 0
       /\ r.ready = IF found THEN Tail(queued) ELSE queued
       /\ r.socket = SubSeq(q, taken + 1, Len(q))
  BY <1>5
<1>13. /\ r.found \in BOOLEAN /\ r.found => r.n \in Nat \ {0}
       /\ r.ready \in Seq(Nat \ {0}) /\ r.socket \in Seq(Packet)
  BY <1>8, <1>9, <1>10, <1>11, <1>12
<1> QED
  BY <1>13 DEF r

\* One pass: it finds a message, or nothing and the task goes on.
LEMMA ReceiveOneMoves ==
  ASSUME Typed, Shape, NEW t \in Tasks, ReceiveOne(t)
  PROVE  /\ task[t].pc = "receive" /\ task[t].server \in Servers
         /\ \E pc \in {"receive", "push_buffer"}, passes \in 0 .. PASSES :
              /\ Moves(t, task[t].kind, pc, task[t].server, passes)
              /\ pc = "receive" => passes < PASSES
         /\ socket' \in [Servers -> Seq(Packet)]
         /\ ready' \in [Servers -> Seq(Nat \ {0})]
         /\ cut' \subseteq Messages
         /\ served' = served \cup {task[t].server}
<1> DEFINE s      == task[t].server
           result == receive_loop(s)
           got    == Append(task[t].held, [server |-> s, n |-> result.n])
           last   == task[t].passes + 1 = PASSES
<1>1. task \in [Tasks -> TaskType] /\ task[t] \in TaskType
  BY DEF Typed
<1>2. task[t].pc = "receive"
  BY DEF ReceiveOne, At
<1>3. s \in Servers /\ task[t].passes \in Nat /\ task[t].passes < PASSES
  BY <1>1, <1>2, PoolAssumption DEF Shape, ShapeOf, HasServer, TaskType
<1>4. /\ result.found \in BOOLEAN /\ result.found => result.n \in Nat \ {0}
      /\ result.ready \in Seq(Nat \ {0}) /\ result.socket \in Seq(Packet)
  BY <1>3, ReceiveLoopType
<1>5. /\ socket' = [socket EXCEPT ![s] = result.socket]
      /\ ready' = [ready EXCEPT ![s] = result.ready]
      /\ task' = IF result.found
                 THEN [task EXCEPT ![t].held = got, ![t].passes = @ + 1,
                                   ![t].pc = IF last THEN "push_buffer" ELSE @]
                 ELSE [task EXCEPT ![t].pc = "push_buffer",
                                   ![t].written = Len(task[t].held)]
      /\ cut' = IF result.found /\ last /\ task[t].kind = "out"
                THEN cut \cup ToSet(got) ELSE cut
      /\ served' = served \cup {s}
  BY DEF ReceiveOne
<1> HIDE DEF result
<1>6. /\ socket' \in [Servers -> Seq(Packet)]
      /\ ready' \in [Servers -> Seq(Nat \ {0})]
  BY <1>3, <1>4, <1>5 DEF Typed
<1>7. result.found => got \in Seq(Messages)
  <2>1. task[t].held \in Seq(Messages)
    BY <1>1 DEF TaskType
  <2>2. result.found => [server |-> s, n |-> result.n] \in Messages
    BY <1>3, <1>4 DEF Messages
  <2> QED
    BY <2>1, <2>2
<1> HIDE DEF got
<1>8. cut' \subseteq Messages
  <2>1. result.found => ToSet(got) \subseteq Messages
    BY <1>7 DEF ToSet
  <2>2. cut \subseteq Messages
    BY DEF Typed
  <2> QED
    BY <1>4, <1>5, <2>1, <2>2
<1>9. "receive" \in Steps /\ "push_buffer" \in Steps
  BY DEF Steps, HasServer
<1>10. \E pc \in {"receive", "push_buffer"}, passes \in 0 .. PASSES :
         /\ Moves(t, task[t].kind, pc, task[t].server, passes)
         /\ pc = "receive" => passes < PASSES
  <2>1. CASE result.found
    <3> DEFINE pc == IF last THEN "push_buffer" ELSE task[t].pc
               x  == [task[t] EXCEPT !.held = got, !.passes = @ + 1, !.pc = pc]
    <3>1. task' = [task EXCEPT ![t] = x]
      BY <1>1, <1>5, <2>1
    <3>2. /\ pc \in {"receive", "push_buffer"} /\ pc \in Steps
          /\ task[t].passes + 1 \in 0 .. PASSES
          /\ pc = "receive" => task[t].passes + 1 < PASSES
      BY <1>2, <1>3, <1>9, PoolAssumption
    <3> HIDE DEF pc
    <3>3. /\ x \in TaskType /\ x.kind = task[t].kind /\ x.pc = pc
          /\ x.server = s /\ x.passes = task[t].passes + 1
      BY <1>1, <1>7, <2>1, <3>2 DEF TaskType
    <3> HIDE DEF x
    <3>4. Moves(t, x.kind, x.pc, x.server, x.passes)
      BY <3>1, <3>3, RecordMoves
    <3> QED
      BY <3>2, <3>3, <3>4
  <2>2. CASE ~ result.found
    <3> DEFINE x == [task[t] EXCEPT !.pc = "push_buffer",
                                    !.written = Len(task[t].held)]
    <3>1. task' = [task EXCEPT ![t] = x]
      BY <1>1, <1>5, <2>2
    <3>2. /\ x \in TaskType /\ x.kind = task[t].kind /\ x.pc = "push_buffer"
          /\ x.server = s /\ x.passes = task[t].passes
          /\ task[t].passes \in 0 .. PASSES
      <4>1. Len(task[t].held) \in Nat
        BY <1>1 DEF TaskType
      <4> QED
        BY <1>1, <1>9, <4>1 DEF TaskType
    <3> HIDE DEF x
    <3>3. Moves(t, x.kind, x.pc, x.server, x.passes)
      BY <3>1, <3>2, RecordMoves
    <3> QED
      BY <3>2, <3>3
  <2> QED
    BY <1>4, <2>1, <2>2
<1> QED
  BY <1>2, <1>3, <1>5, <1>6, <1>8, <1>10

\* The task that counts down and ends.
LEMMA DecrementMoves ==
  ASSUME Typed, NEW t \in Tasks, Decrement(t)
  PROVE  /\ task[t].pc = "decrement" /\ counter' = counter - 1
         /\ Moves(t, "none", "idle", NoServer, 0)
BY IdleMoves DEF Decrement, At

-----------------------------------------------------------------------------
(***************************************************************************)
(* What a step of one task does to each part of the invariant.             *)
(***************************************************************************)
LEMMA TailOf ==
  ASSUME NEW S, NEW q \in Seq(S), q # << >>
  PROVE  /\ Tail(q) \in Seq(S) /\ Len(q) \in Nat \ {0}
         /\ Len(Tail(q)) = Len(q) - 1
         /\ Head(q) = q[1]
         /\ \A i \in 1 .. Len(q) - 1 : Tail(q)[i] = q[i + 1]
OBVIOUS

LEMMA AppendOf ==
  ASSUME NEW S, NEW q \in Seq(S), NEW x \in S
  PROVE  /\ Append(q, x) \in Seq(S) /\ Len(q) \in Nat
         /\ Len(Append(q, x)) = Len(q) + 1
         /\ Append(q, x)[Len(q) + 1] = x
         /\ \A i \in 1 .. Len(q) : Append(q, x)[i] = q[i]
OBVIOUS

Receiving == {t \in Tasks : task[t].kind = "receive"}

One(b) == IF b THEN 1 ELSE 0

\* How the counts change when task t becomes one of this kind, at pc
Counts(t, kind, pc) ==
  /\ Cardinality(QueueLoans) \in Nat /\ Cardinality(QueueLoans') \in Nat
  /\ Cardinality(OutLoans) \in Nat /\ Cardinality(OutLoans') \in Nat
  /\ Cardinality(BufferLoans) \in Nat /\ Cardinality(BufferLoans') \in Nat
  /\ Cardinality(ToCome) \in Nat /\ Cardinality(ToCome') \in Nat
  /\ Cardinality(Receiving) \in Nat /\ Cardinality(Receiving') \in Nat
  /\ Cardinality(QueueLoans') =
       Cardinality(QueueLoans) + One(kind # "out" /\ pc \in HasContainer)
         - One(task[t].kind # "out" /\ task[t].pc \in HasContainer)
  /\ Cardinality(OutLoans') =
       Cardinality(OutLoans) + One(kind = "out" /\ pc \in HasContainer)
         - One(task[t].kind = "out" /\ task[t].pc \in HasContainer)
  /\ Cardinality(BufferLoans') =
       Cardinality(BufferLoans) + One(pc \in HasBuffer)
         - One(task[t].pc \in HasBuffer)
  /\ Cardinality(ToCome') =
       Cardinality(ToCome) + One(pc = "pop_server")
         - One(task[t].pc = "pop_server")
  /\ Cardinality(Receiving') =
       Cardinality(Receiving) + One(kind = "receive")
         - One(task[t].kind = "receive")

\* A step of task t changes each of the counts by at most one.
LEMMA MoveCounts ==
  ASSUME NEW t \in Tasks, NEW kind, NEW pc, NEW server, NEW passes,
         Moves(t, kind, pc, server, passes)
  PROVE  Counts(t, kind, pc)
<1>1. /\ \A u \in Tasks : u # t => task'[u] = task[u]
      /\ task'[t].kind = kind /\ task'[t].pc = pc
  BY DEF Moves
<1>2. ASSUME NEW S \in SUBSET Tasks, NEW T \in SUBSET Tasks,
             \A u \in Tasks : u # t => (u \in S <=> u \in T)
      PROVE  /\ Cardinality(S) \in Nat /\ Cardinality(T) \in Nat
             /\ Cardinality(T) = Cardinality(S) + One(t \in T) - One(t \in S)
  <2>1. /\ Cardinality(S) \in Nat /\ Cardinality(T) \in Nat
        /\ (t \in S <=> t \in T) => Cardinality(T) = Cardinality(S)
        /\ t \notin S /\ t \in T => Cardinality(T) = Cardinality(S) + 1
        /\ t \in S /\ t \notin T => Cardinality(T) = Cardinality(S) - 1
    BY <1>2, CountMove
  <2> QED
    BY <2>1 DEF One
<1>3. /\ Cardinality(QueueLoans) \in Nat /\ Cardinality(QueueLoans') \in Nat
      /\ Cardinality(QueueLoans') =
           Cardinality(QueueLoans) + One(kind # "out" /\ pc \in HasContainer)
             - One(task[t].kind # "out" /\ task[t].pc \in HasContainer)
  <2>1. /\ QueueLoans \in SUBSET Tasks /\ QueueLoans' \in SUBSET Tasks
        /\ \A u \in Tasks : u # t => (u \in QueueLoans <=> u \in QueueLoans')
        /\ t \in QueueLoans <=>
             task[t].kind # "out" /\ task[t].pc \in HasContainer
        /\ t \in QueueLoans' <=> kind # "out" /\ pc \in HasContainer
    BY <1>1 DEF QueueLoans
  <2> QED
    BY <1>2, <2>1 DEF One
<1>4. /\ Cardinality(OutLoans) \in Nat /\ Cardinality(OutLoans') \in Nat
      /\ Cardinality(OutLoans') =
           Cardinality(OutLoans) + One(kind = "out" /\ pc \in HasContainer)
             - One(task[t].kind = "out" /\ task[t].pc \in HasContainer)
  <2>1. /\ OutLoans \in SUBSET Tasks /\ OutLoans' \in SUBSET Tasks
        /\ \A u \in Tasks : u # t => (u \in OutLoans <=> u \in OutLoans')
        /\ t \in OutLoans <=>
             task[t].kind = "out" /\ task[t].pc \in HasContainer
        /\ t \in OutLoans' <=> kind = "out" /\ pc \in HasContainer
    BY <1>1 DEF OutLoans
  <2> QED
    BY <1>2, <2>1 DEF One
<1>5. /\ Cardinality(BufferLoans) \in Nat /\ Cardinality(BufferLoans') \in Nat
      /\ Cardinality(BufferLoans') =
           Cardinality(BufferLoans) + One(pc \in HasBuffer)
             - One(task[t].pc \in HasBuffer)
  <2>1. /\ BufferLoans \in SUBSET Tasks /\ BufferLoans' \in SUBSET Tasks
        /\ \A u \in Tasks : u # t => (u \in BufferLoans <=> u \in BufferLoans')
        /\ t \in BufferLoans <=> task[t].pc \in HasBuffer
        /\ t \in BufferLoans' <=> pc \in HasBuffer
    BY <1>1 DEF BufferLoans
  <2> QED
    BY <1>2, <2>1 DEF One
<1>6. /\ Cardinality(ToCome) \in Nat /\ Cardinality(ToCome') \in Nat
      /\ Cardinality(ToCome') =
           Cardinality(ToCome) + One(pc = "pop_server")
             - One(task[t].pc = "pop_server")
  <2>1. /\ ToCome \in SUBSET Tasks /\ ToCome' \in SUBSET Tasks
        /\ \A u \in Tasks : u # t => (u \in ToCome <=> u \in ToCome')
        /\ t \in ToCome <=> task[t].pc = "pop_server"
        /\ t \in ToCome' <=> pc = "pop_server"
    BY <1>1 DEF ToCome
  <2> QED
    BY <1>2, <2>1 DEF One
<1>7. /\ Cardinality(Receiving) \in Nat /\ Cardinality(Receiving') \in Nat
      /\ Cardinality(Receiving') =
           Cardinality(Receiving) + One(kind = "receive")
             - One(task[t].kind = "receive")
  <2>1. /\ Receiving \in SUBSET Tasks /\ Receiving' \in SUBSET Tasks
        /\ \A u \in Tasks : u # t => (u \in Receiving <=> u \in Receiving')
        /\ t \in Receiving <=> task[t].kind = "receive"
        /\ t \in Receiving' <=> kind = "receive"
    BY <1>1 DEF Receiving
  <2> QED
    BY <1>2, <2>1 DEF One
<1> QED
  BY <1>3, <1>4, <1>5, <1>6, <1>7 DEF Counts

LEMMA Balance ==
  ASSUME NEW a \in Nat, NEW b \in Nat, NEW x \in Nat, NEW y \in Nat,
         NEW c, NEW d, c = a + x - y, d = b + y - x
  PROVE  c + d = a + b
OBVIOUS

\* What goes from a queue goes to a task, and back.
LEMMA MoveLoans ==
  ASSUME Loans, NEW t \in Tasks, NEW kind, NEW pc, Counts(t, kind, pc),
         Len(receive_queue) \in Nat, Len(out_buffers) \in Nat,
         receive_buffers \in Nat, max_servers \in Nat,
         Len(receive_queue') =
           Len(receive_queue)
             + One(task[t].kind # "out" /\ task[t].pc \in HasContainer)
             - One(kind # "out" /\ pc \in HasContainer),
         Len(out_buffers') =
           Len(out_buffers)
             + One(task[t].kind = "out" /\ task[t].pc \in HasContainer)
             - One(kind = "out" /\ pc \in HasContainer),
         receive_buffers' =
           receive_buffers + One(task[t].pc \in HasBuffer) - One(pc \in HasBuffer)
  PROVE  Loans'
<1> DEFINE q1 == One(task[t].kind # "out" /\ task[t].pc \in HasContainer)
           q2 == One(kind # "out" /\ pc \in HasContainer)
           o1 == One(task[t].kind = "out" /\ task[t].pc \in HasContainer)
           o2 == One(kind = "out" /\ pc \in HasContainer)
           b1 == One(task[t].pc \in HasBuffer)
           b2 == One(pc \in HasBuffer)
<1>1. /\ q1 \in Nat /\ q2 \in Nat /\ o1 \in Nat /\ o2 \in Nat
      /\ b1 \in Nat /\ b2 \in Nat
  BY DEF One
<1>2. /\ Len(receive_queue') = Len(receive_queue) + q1 - q2
      /\ Len(out_buffers') = Len(out_buffers) + o1 - o2
      /\ receive_buffers' = receive_buffers + b1 - b2
  OBVIOUS
<1>3. /\ Cardinality(QueueLoans) \in Nat /\ Cardinality(OutLoans) \in Nat
      /\ Cardinality(BufferLoans) \in Nat
      /\ Cardinality(QueueLoans') = Cardinality(QueueLoans) + q2 - q1
      /\ Cardinality(OutLoans') = Cardinality(OutLoans) + o2 - o1
      /\ Cardinality(BufferLoans') = Cardinality(BufferLoans) + b2 - b1
  BY DEF Counts
<1> HIDE DEF q1, q2, o1, o2, b1, b2
<1>4. /\ Len(receive_queue) + Cardinality(QueueLoans) = max_servers
      /\ Len(out_buffers) + Cardinality(OutLoans) = max_servers
      /\ receive_buffers + Cardinality(BufferLoans) = max_servers
  BY DEF Loans
<1>5. Len(receive_queue') + Cardinality(QueueLoans') = max_servers
  <2> DEFINE n == Len(receive_queue)
             m == Len(receive_queue')
             j == Cardinality(QueueLoans)
             k == Cardinality(QueueLoans')
  <2>1. n \in Nat /\ j \in Nat /\ m = n + q1 - q2 /\ k = j + q2 - q1
    BY <1>2, <1>3
  <2> HIDE DEF n, m, j, k
  <2>2. m + k = n + j
    BY <1>1, <2>1, Balance
  <2> QED
    BY <1>4, <2>2 DEF n, m, j, k
<1>6. Len(out_buffers') + Cardinality(OutLoans') = max_servers
  <2> DEFINE n == Len(out_buffers)
             m == Len(out_buffers')
             j == Cardinality(OutLoans)
             k == Cardinality(OutLoans')
  <2>1. n \in Nat /\ j \in Nat /\ m = n + o1 - o2 /\ k = j + o2 - o1
    BY <1>2, <1>3
  <2> HIDE DEF n, m, j, k
  <2>2. m + k = n + j
    BY <1>1, <2>1, Balance
  <2> QED
    BY <1>4, <2>2 DEF n, m, j, k
<1>7. receive_buffers' + Cardinality(BufferLoans') = max_servers
  <2> DEFINE n == receive_buffers
             m == receive_buffers'
             j == Cardinality(BufferLoans)
             k == Cardinality(BufferLoans')
  <2>1. n \in Nat /\ j \in Nat /\ m = n + b1 - b2 /\ k = j + b2 - b1
    BY <1>2, <1>3
  <2> HIDE DEF n, m, j, k
  <2>2. m + k = n + j
    BY <1>1, <2>1, Balance
  <2> QED
    BY <1>4, <2>2 DEF n, m, j, k
<1> QED
  BY <1>5, <1>6, <1>7 DEF Loans

LEMMA MoveShape ==
  ASSUME Shape, NEW t \in Tasks, NEW kind, NEW pc, NEW server, NEW passes,
         Moves(t, kind, pc, server, passes),
         kind = "none" <=> pc = "idle",
         kind \in {"blocking", "out"} =>
           pc \notin {"pop_server", "push_server", "decrement"},
         server # NoServer <=> pc \in HasServer,
         pc \in {"pop_server", "pop_container", "pop_buffer"} => passes = 0,
         pc = "receive" => passes < PASSES,
         t > max_servers => pc = "idle"
  PROVE  Shape'
<1>1. ShapeOf(t, task'[t])
  BY DEF Moves, ShapeOf
<1>2. \A u \in Tasks : u # t => ShapeOf(u, task'[u])
  BY DEF Moves, Shape
<1> QED
  BY <1>1, <1>2 DEF Shape

LEMMA MovePhases ==
  ASSUME Phases, NEW t \in Tasks, NEW kind, NEW pc, NEW server, NEW passes,
         Moves(t, kind, pc, server, passes), kind \in {task[t].kind, "none"},
         call' = call, counter' = NoCounter <=> counter = NoCounter,
         counter = NoCounter => servers_in_use' = servers_in_use
  PROVE  Phases'
BY DEF Phases, Moves

\* A task that is at the queue of servers is one of a round of receive.
LEMMA InRound ==
  ASSUME Typed, Shape, Phases, NEW t \in Tasks,
         \/ task[t].pc \in {"pop_server", "push_server", "decrement"}
         \/ task[t].kind = "receive"
  PROVE  task[t].kind = "receive" /\ counter # NoCounter /\ call = "none"
<1>1. task[t] \in TaskType
  BY DEF Typed
<1>2. task[t].kind = "receive"
  BY <1>1 DEF Shape, ShapeOf, TaskType, TaskKinds
<1> QED
  BY <1>2 DEF Phases

\* A task that goes on with its server, or ends in a round with none.
LEMMA MoveOwners ==
  ASSUME Typed, Owners, NEW t \in Tasks, NEW kind, NEW pc, NEW server, NEW passes,
         Moves(t, kind, pc, server, passes),
         \/ kind = task[t].kind /\ server = task[t].server
         \/ /\ kind = "none" /\ server = NoServer
            /\ task[t].server \in servers \cup {NoServer},
         UNCHANGED <<servers, servers_in_use, created>>
  PROVE  Owners'
<1>1. /\ \A u \in Tasks : u # t => task'[u] = task[u]
      /\ task'[t].kind = kind /\ task'[t].server = server
  BY DEF Moves
<1>2. servers' = servers /\ servers_in_use' = servers_in_use /\ created' = created
  OBVIOUS
<1>3. \A u \in Tasks : \/ task'[u].server = task[u].server
                       \/ task'[u].server = NoServer
  BY <1>1
<1>4. Existing' = created'
  <2>1. \A s : s \in servers \cup WithTasks' <=> s \in servers \cup WithTasks
    BY <1>1 DEF WithTasks
  <2>2. Existing' = Existing
    BY <1>2, <2>1 DEF Existing
  <2> QED
    BY <1>2, <2>2 DEF Owners
<1>5. \A a, b \in Tasks :
        task'[a].server = task'[b].server /\ task'[a].server # NoServer => a = b
  BY <1>3 DEF Owners
<1>6. \A u \in Tasks, i \in DOMAIN servers_in_use :
        task'[u].server # servers_in_use[i]
  <2>1. \A i \in DOMAIN servers_in_use : servers_in_use[i] # NoServer
    BY PoolAssumption DEF Typed
  <2> QED
    BY <1>3, <2>1 DEF Owners
<1> QED
  BY <1>1, <1>2, <1>4, <1>5, <1>6 DEF Owners

LEMMA MoveTyped ==
  ASSUME Typed, task' \in [Tasks -> TaskType],
         servers_in_use' \in Seq(Servers),
         receive_queue' \in Seq(Seq(Messages)), receive_buffers' \in Nat,
         out_buffers' \in Seq(OutBuffers), UNCHANGED rest
  PROVE  Typed'
BY DEF Typed, rest, network, history

\* A task that takes no server: what is unserved stays to come or is served.
LEMMA MoveTurns ==
  ASSUME Turns, NEW t \in Tasks, NEW kind, NEW pc, NEW server, NEW passes,
         Moves(t, kind, pc, server, passes),
         UNCHANGED <<servers, servers_in_use, call>>,
         counter' # NoCounter => counter # NoCounter,
         served \subseteq served',
         task[t].pc # "pop_server", pc # "pop_server",
         pc \in HasServer \ Unserved => server \in served',
         task[t].pc \in Unserved =>
           \/ pc \in Unserved /\ server = task[t].server
           \/ task[t].server \in served'
  PROVE  Turns'
<1>1. /\ \A u \in Tasks : u # t => task'[u] = task[u]
      /\ task'[t].pc = pc /\ task'[t].server = server
  BY DEF Moves
<1>2. Cardinality(ToCome') = Cardinality(ToCome)
  <2>1. ToCome' = ToCome
    BY <1>1 DEF ToCome
  <2> QED
    BY <2>1
<1>3. \A u \in Tasks : task'[u].pc \in HasServer \ Unserved =>
                         task'[u].server \in served'
  BY <1>1 DEF Turns
<1>4. counter' # NoCounter =>
        /\ Cardinality(ToCome') <= Len(servers_in_use')
        /\ \A i \in DOMAIN servers_in_use' :
             i > Cardinality(ToCome') => servers_in_use'[i] \in served'
  BY <1>2 DEF Turns
<1>5. call' # "none" =>
        \A s \in servers' :
          s \in served' \/ \E u \in Tasks : /\ task'[u].server = s
                                            /\ task'[u].pc \in Unserved
  <2>1. SUFFICES ASSUME call # "none", NEW s \in servers, s \notin served'
                 PROVE  \E u \in Tasks : /\ task'[u].server = s
                                         /\ task'[u].pc \in Unserved
    OBVIOUS
  <2>2. PICK u \in Tasks : task[u].server = s /\ task[u].pc \in Unserved
    BY <2>1 DEF Turns
  <2> QED
    BY <1>1, <2>1, <2>2
<1> QED
  BY <1>3, <1>4, <1>5 DEF Turns

-----------------------------------------------------------------------------
(***************************************************************************)
(* The steps of a task keep the invariant.                                 *)
(***************************************************************************)

\* Steps of a task that has a server, away from the queue of servers.
LEMMA ServerStep ==
  ASSUME IInv, NEW t \in Tasks, NEW kind, NEW pc, NEW server, NEW passes,
         Moves(t, kind, pc, server, passes), task[t].pc \in HasServer,
         UNCHANGED <<servers, servers_in_use, created, call, counter>>,
         served \subseteq served',
         \/ /\ kind = task[t].kind /\ server = task[t].server
            /\ pc \in HasServer /\ (kind # "receive" => pc # "push_server")
         \/ /\ kind = "none" /\ pc = "idle" /\ server = NoServer
            /\ task[t].kind # "receive" /\ task[t].pc \notin Unserved,
         pc \in {"pop_container", "pop_buffer"} => passes = 0,
         pc = "receive" => passes < PASSES,
         pc \in HasServer \ Unserved => server \in served',
         task[t].pc \in Unserved /\ pc \notin Unserved => task[t].server \in served'
  PROVE  Shape' /\ Phases' /\ Owners' /\ CountdownExact' /\ Turns'
<1>1. ShapeOf(t, task[t]) /\ task[t] \in TaskType
  BY DEF IInv, Shape, Typed
<1>2. task[t].kind # "none" /\ t <= max_servers
  <2>1. task[t].pc # "idle"
    BY DEF HasServer
  <2> QED
    BY <1>1, <2>1, PoolAssumption DEF ShapeOf, Tasks
<1>3. task[t].kind # "receive" => task[t].kind \in {"blocking", "out"}
  BY <1>1, <1>2 DEF TaskType, TaskKinds
<1>4. Shape'
  <2>1. kind = "none" <=> pc = "idle"
    BY <1>2 DEF HasServer
  <2>2. kind \in {"blocking", "out"} =>
          pc \notin {"pop_server", "push_server", "decrement"}
    BY DEF HasServer
  <2>3. server # NoServer <=> pc \in HasServer
    BY <1>1 DEF ShapeOf, HasServer
  <2>4. /\ pc \in {"pop_server", "pop_container", "pop_buffer"} => passes = 0
        /\ t > max_servers => pc = "idle"
    BY <1>2, PoolAssumption DEF HasServer, Tasks
  <2> QED
    BY <2>1, <2>2, <2>3, <2>4, MoveShape DEF IInv
<1>5. Phases'
  BY MovePhases DEF IInv
<1>6. Owners'
  <2>1. task[t].kind # "receive" => task[t].server \in servers
    BY <1>3 DEF IInv, Owners
  <2>2. \/ kind = task[t].kind /\ server = task[t].server
        \/ /\ kind = "none" /\ server = NoServer
           /\ task[t].server \in servers \cup {NoServer}
    BY <2>1
  <2> QED
    BY <2>2, MoveOwners DEF IInv
<1>7. CountdownExact'
  <2>1. Counts(t, kind, pc)
    BY MoveCounts
  <2>2. Cardinality(Receiving') = Cardinality(Receiving)
    BY <2>1 DEF Counts, One
  <2> QED
    BY <2>2 DEF IInv, CountdownExact, Receiving
<1>8. Turns'
  <2>1. task[t].pc # "pop_server" /\ pc # "pop_server"
    BY DEF HasServer
  <2>2. task[t].pc \in Unserved =>
           \/ pc \in Unserved /\ server = task[t].server
           \/ task[t].server \in served'
    OBVIOUS
  <2> QED
    BY <2>1, <2>2, MoveTurns DEF IInv
<1> QED
  BY <1>4, <1>5, <1>6, <1>7, <1>8

LEMMA PopContainerKeeps ==
  ASSUME IInv, NEW t \in Tasks, PopContainer(t)
  PROVE  IInv'
<1>1. /\ task[t].pc = "pop_container"
      /\ Moves(t, task[t].kind, "pop_buffer", task[t].server, task[t].passes)
      /\ IF task[t].kind = "out"
         THEN /\ receive_queue' = receive_queue
              /\ out_buffers # << >> /\ out_buffers' = Tail(out_buffers)
         ELSE /\ out_buffers' = out_buffers
              /\ receive_queue # << >> /\ receive_queue' = Tail(receive_queue)
  BY PopContainerMoves DEF IInv
<1>2. /\ UNCHANGED <<servers_in_use, receive_buffers, counter, rest>>
      /\ UNCHANGED rest
      /\ servers' = servers /\ servers_in_use' = servers_in_use
      /\ created' = created /\ call' = call /\ served' = served
      /\ counter' = counter /\ receive_buffers' = receive_buffers
  BY DEF PopContainer, rest, history
<1>3. ShapeOf(t, task[t])
  BY DEF IInv, Shape
<1>4. /\ receive_queue' \in Seq(Seq(Messages)) /\ out_buffers' \in Seq(OutBuffers)
      /\ Len(receive_queue) \in Nat /\ Len(out_buffers) \in Nat
      /\ receive_buffers \in Nat /\ max_servers \in Nat
      /\ IF task[t].kind = "out"
         THEN /\ Len(receive_queue') = Len(receive_queue)
              /\ Len(out_buffers') = Len(out_buffers) - 1
         ELSE /\ Len(out_buffers') = Len(out_buffers)
              /\ Len(receive_queue') = Len(receive_queue) - 1
  <2>1. receive_queue \in Seq(Seq(Messages)) /\ out_buffers \in Seq(OutBuffers)
        /\ receive_buffers \in Nat /\ max_servers \in Nat
    BY PoolAssumption DEF IInv, Typed
  <2>2. Len(receive_queue) \in Nat /\ Len(out_buffers) \in Nat
    BY <2>1
  <2>3. CASE task[t].kind = "out"
    <3>1. Tail(out_buffers) \in Seq(OutBuffers)
          /\ Len(Tail(out_buffers)) = Len(out_buffers) - 1
      BY <1>1, <2>1, <2>3, TailOf
    <3> QED
      BY <1>1, <2>1, <2>2, <2>3, <3>1
  <2>4. CASE task[t].kind # "out"
    <3>1. Tail(receive_queue) \in Seq(Seq(Messages))
          /\ Len(Tail(receive_queue)) = Len(receive_queue) - 1
      BY <1>1, <2>1, <2>4, TailOf
    <3> QED
      BY <1>1, <2>1, <2>2, <2>4, <3>1
  <2> QED
    BY <2>3, <2>4
<1>c. Counts(t, task[t].kind, "pop_buffer")
  BY <1>1, MoveCounts
<1>5. Typed'
  <2>1. task' \in [Tasks -> TaskType]
    BY <1>1 DEF Moves
  <2>2. receive_buffers' \in Nat /\ servers_in_use' \in Seq(Servers)
    BY <1>2 DEF IInv, Typed
  <2> QED
    BY <1>2, <1>4, <2>1, <2>2, MoveTyped DEF IInv
<1>6. Shape' /\ Phases' /\ Owners' /\ CountdownExact' /\ Turns'
  <2>1. task[t].passes = 0
    BY <1>1, <1>3 DEF ShapeOf
  <2> QED
    BY <1>1, <1>2, <2>1, ServerStep DEF HasServer, Unserved
<1>7. Loans'
  <2>1. /\ Len(receive_queue') =
             Len(receive_queue)
               + One(task[t].kind # "out" /\ task[t].pc \in HasContainer)
               - One(task[t].kind # "out" /\ "pop_buffer" \in HasContainer)
        /\ Len(out_buffers') =
             Len(out_buffers)
               + One(task[t].kind = "out" /\ task[t].pc \in HasContainer)
               - One(task[t].kind = "out" /\ "pop_buffer" \in HasContainer)
    BY <1>1, <1>4 DEF One, HasContainer
  <2>2. receive_buffers' =
          receive_buffers + One(task[t].pc \in HasBuffer)
                          - One("pop_buffer" \in HasBuffer)
    BY <1>1, <1>2, <1>4 DEF One, HasBuffer
  <2> QED
    BY <1>4, <1>c, <2>1, <2>2, MoveLoans DEF IInv
<1> QED
  BY <1>5, <1>6, <1>7 DEF IInv

LEMMA PopBufferKeeps ==
  ASSUME IInv, NEW t \in Tasks, PopBuffer(t)
  PROVE  IInv'
<1>1. /\ task[t].pc = "pop_buffer"
      /\ Moves(t, task[t].kind, "receive", task[t].server, task[t].passes)
      /\ receive_buffers > 0 /\ receive_buffers' = receive_buffers - 1
  BY PopBufferMoves DEF IInv
<1>2. /\ UNCHANGED rest
      /\ servers' = servers /\ servers_in_use' = servers_in_use
      /\ created' = created /\ call' = call /\ served' = served
      /\ counter' = counter /\ receive_queue' = receive_queue
      /\ out_buffers' = out_buffers
  BY DEF PopBuffer, rest, history
<1>3. Len(receive_queue) \in Nat /\ Len(out_buffers) \in Nat
      /\ receive_buffers \in Nat /\ max_servers \in Nat
      /\ task[t].passes = 0 /\ 0 < PASSES
  BY <1>1, PoolAssumption DEF IInv, Typed, Shape, ShapeOf
<1>4. Counts(t, task[t].kind, "receive")
  BY <1>1, MoveCounts
<1>5. Typed'
  <2>1. task' \in [Tasks -> TaskType] /\ receive_buffers' \in Nat
    BY <1>1, <1>3 DEF Moves
  <2> QED
    BY <1>2, <2>1, MoveTyped DEF IInv, Typed
<1>6. Shape' /\ Phases' /\ Owners' /\ CountdownExact' /\ Turns'
  BY <1>1, <1>2, <1>3, ServerStep DEF HasServer, Unserved
<1>7. Loans'
  BY <1>1, <1>2, <1>3, <1>4, MoveLoans DEF IInv, One, HasContainer, HasBuffer
<1> QED
  BY <1>5, <1>6, <1>7 DEF IInv

LEMMA ReceiveOneKeeps ==
  ASSUME IInv, NEW t \in Tasks, ReceiveOne(t)
  PROVE  IInv'
<1>1. /\ task[t].pc = "receive" /\ task[t].server \in Servers
      /\ socket' \in [Servers -> Seq(Packet)]
      /\ ready' \in [Servers -> Seq(Nat \ {0})]
      /\ cut' \subseteq Messages
      /\ served' = served \cup {task[t].server}
  BY ReceiveOneMoves DEF IInv
<1>2. PICK pc \in {"receive", "push_buffer"}, passes \in 0 .. PASSES :
        /\ Moves(t, task[t].kind, pc, task[t].server, passes)
        /\ pc = "receive" => passes < PASSES
  BY ReceiveOneMoves DEF IInv
<1>3. /\ servers' = servers /\ servers_in_use' = servers_in_use
      /\ created' = created /\ call' = call /\ published' = published
      /\ counter' = counter /\ receive_queue' = receive_queue
      /\ out_buffers' = out_buffers /\ receive_buffers' = receive_buffers
      /\ arrived' = arrived
  BY DEF ReceiveOne, pool, queues
<1>4. Len(receive_queue) \in Nat /\ Len(out_buffers) \in Nat
      /\ receive_buffers \in Nat /\ max_servers \in Nat
  BY PoolAssumption DEF IInv, Typed
<1>5. Counts(t, task[t].kind, pc)
  BY <1>2, MoveCounts
<1>6. Typed'
  <2>1. task' \in [Tasks -> TaskType]
    BY <1>2 DEF Moves
  <2> QED
    BY <1>1, <1>3, <2>1 DEF IInv, Typed
<1>7. Shape' /\ Phases' /\ Owners' /\ CountdownExact' /\ Turns'
  BY <1>1, <1>2, <1>3, ServerStep DEF HasServer, Unserved
<1>8. Loans'
  <2>1. /\ task[t].pc \in HasContainer /\ pc \in HasContainer
        /\ task[t].pc \in HasBuffer /\ pc \in HasBuffer
    BY <1>1 DEF HasContainer, HasBuffer
  <2> QED
    BY <1>3, <1>4, <1>5, <2>1, MoveLoans DEF IInv, One
<1> QED
  BY <1>6, <1>7, <1>8 DEF IInv

LEMMA PushBufferKeeps ==
  ASSUME IInv, NEW t \in Tasks, PushBuffer(t)
  PROVE  IInv'
<1>1. /\ task[t].pc = "push_buffer"
      /\ Moves(t, task[t].kind, "push_container", task[t].server, task[t].passes)
      /\ receive_buffers' = receive_buffers + 1
  BY PushBufferMoves DEF IInv
<1>2. /\ UNCHANGED rest
      /\ servers' = servers /\ servers_in_use' = servers_in_use
      /\ created' = created /\ call' = call /\ served' = served
      /\ counter' = counter /\ receive_queue' = receive_queue
      /\ out_buffers' = out_buffers
  BY DEF PushBuffer, ReturnBuffers, rest, history
<1>3. Len(receive_queue) \in Nat /\ Len(out_buffers) \in Nat
      /\ receive_buffers \in Nat /\ max_servers \in Nat
  BY PoolAssumption DEF IInv, Typed
<1>4. Counts(t, task[t].kind, "push_container")
  BY <1>1, MoveCounts
<1>5. Typed'
  <2>1. task' \in [Tasks -> TaskType] /\ receive_buffers' \in Nat
    BY <1>1, <1>3 DEF Moves
  <2> QED
    BY <1>2, <2>1, MoveTyped DEF IInv, Typed
<1>6. Shape' /\ Phases' /\ Owners' /\ CountdownExact' /\ Turns'
  <2>1. task[t].server \in served
    BY <1>1 DEF IInv, Turns, HasServer, Unserved
  <2> QED
    BY <1>1, <1>2, <2>1, ServerStep DEF HasServer, Unserved
<1>7. Loans'
  BY <1>1, <1>2, <1>3, <1>4, MoveLoans DEF IInv, One, HasContainer, HasBuffer
<1> QED
  BY <1>5, <1>6, <1>7 DEF IInv

LEMMA PushContainerKeeps ==
  ASSUME IInv, NEW t \in Tasks, PushContainer(t)
  PROVE  IInv'
<1>1. /\ task[t].pc = "push_container"
      /\ IF task[t].kind = "receive"
         THEN Moves(t, task[t].kind, "push_server", task[t].server, 0)
         ELSE Moves(t, "none", "idle", NoServer, 0)
      /\ IF task[t].kind = "out"
         THEN /\ receive_queue' = receive_queue
              /\ out_buffers' = Append(out_buffers,
                                  OutBuffer(task[t].held, task[t].written))
         ELSE /\ out_buffers' = out_buffers
              /\ receive_queue' = Append(receive_queue, task[t].held)
  BY PushContainerMoves DEF IInv
<1>2. /\ UNCHANGED rest
      /\ servers' = servers /\ servers_in_use' = servers_in_use
      /\ created' = created /\ call' = call /\ served' = served
      /\ counter' = counter /\ receive_buffers' = receive_buffers
  BY DEF PushContainer, rest, history
<1>3. /\ receive_queue' \in Seq(Seq(Messages)) /\ out_buffers' \in Seq(OutBuffers)
      /\ Len(receive_queue) \in Nat /\ Len(out_buffers) \in Nat
      /\ receive_buffers \in Nat /\ max_servers \in Nat
      /\ IF task[t].kind = "out"
         THEN /\ Len(receive_queue') = Len(receive_queue)
              /\ Len(out_buffers') = Len(out_buffers) + 1
         ELSE /\ Len(out_buffers') = Len(out_buffers)
              /\ Len(receive_queue') = Len(receive_queue) + 1
  <2>1. receive_queue \in Seq(Seq(Messages)) /\ out_buffers \in Seq(OutBuffers)
        /\ receive_buffers \in Nat /\ max_servers \in Nat
    BY PoolAssumption DEF IInv, Typed
  <2>2. Len(receive_queue) \in Nat /\ Len(out_buffers) \in Nat
    BY <2>1
  <2>3. /\ task[t].held \in Seq(Messages)
        /\ OutBuffer(task[t].held, task[t].written) \in OutBuffers
    BY DEF IInv, Typed, TaskType, OutBuffer, OutBuffers
  <2>4. CASE task[t].kind = "out"
    <3> DEFINE b == OutBuffer(task[t].held, task[t].written)
    <3> HIDE DEF b
    <3>1. /\ Append(out_buffers, b) \in Seq(OutBuffers)
          /\ Len(Append(out_buffers, b)) = Len(out_buffers) + 1
      BY <2>1, <2>3, AppendOf DEF b
    <3> QED
      BY <1>1, <2>1, <2>2, <2>4, <3>1 DEF b
  <2>5. CASE task[t].kind # "out"
    <3>1. /\ Append(receive_queue, task[t].held) \in Seq(Seq(Messages))
          /\ Len(Append(receive_queue, task[t].held)) = Len(receive_queue) + 1
      BY <2>1, <2>3, AppendOf
    <3> QED
      BY <1>1, <2>1, <2>2, <2>5, <3>1
  <2> QED
    BY <2>4, <2>5
<1>4. Typed'
  <2>1. task' \in [Tasks -> TaskType]
    BY <1>1 DEF Moves
  <2>2. receive_buffers' \in Nat /\ servers_in_use' \in Seq(Servers)
    BY <1>2 DEF IInv, Typed
  <2> QED
    BY <1>2, <1>3, <2>1, <2>2, MoveTyped DEF IInv
<1>5. task[t].server \in served
  BY <1>1 DEF IInv, Turns, HasServer, Unserved
<1>6. CASE task[t].kind = "receive"
  <2>1. Moves(t, task[t].kind, "push_server", task[t].server, 0)
    BY <1>1, <1>6
  <2>2. Counts(t, task[t].kind, "push_server")
    BY <2>1, MoveCounts
  <2>3. Shape' /\ Phases' /\ Owners' /\ CountdownExact' /\ Turns'
    BY <1>1, <1>2, <1>5, <1>6, <2>1, ServerStep DEF HasServer, Unserved
  <2>4. Loans'
    <3>1. /\ Len(receive_queue') =
               Len(receive_queue)
                 + One(task[t].kind # "out" /\ task[t].pc \in HasContainer)
                 - One(task[t].kind # "out" /\ "push_server" \in HasContainer)
          /\ Len(out_buffers') =
               Len(out_buffers)
                 + One(task[t].kind = "out" /\ task[t].pc \in HasContainer)
                 - One(task[t].kind = "out" /\ "push_server" \in HasContainer)
          /\ receive_buffers' =
               receive_buffers + One(task[t].pc \in HasBuffer)
                 - One("push_server" \in HasBuffer)
      BY <1>1, <1>2, <1>3, <1>6 DEF One, HasContainer, HasBuffer
    <3> QED
      BY <1>3, <2>2, <3>1, MoveLoans DEF IInv
  <2> QED
    BY <1>4, <2>3, <2>4 DEF IInv
<1>7. CASE task[t].kind # "receive"
  <2>1. Moves(t, "none", "idle", NoServer, 0)
    BY <1>1, <1>7
  <2>2. Counts(t, "none", "idle")
    BY <2>1, MoveCounts
  <2>3. Shape' /\ Phases' /\ Owners' /\ CountdownExact' /\ Turns'
    BY <1>1, <1>2, <1>5, <1>7, <2>1, ServerStep DEF HasServer, Unserved
  <2>4. Loans'
    <3>1. /\ Len(receive_queue') =
               Len(receive_queue)
                 + One(task[t].kind # "out" /\ task[t].pc \in HasContainer)
                 - One("none" # "out" /\ "idle" \in HasContainer)
          /\ Len(out_buffers') =
               Len(out_buffers)
                 + One(task[t].kind = "out" /\ task[t].pc \in HasContainer)
                 - One("none" = "out" /\ "idle" \in HasContainer)
          /\ receive_buffers' =
               receive_buffers + One(task[t].pc \in HasBuffer)
                 - One("idle" \in HasBuffer)
      <4>1. CASE task[t].kind = "out"
        BY <1>1, <1>2, <1>3, <4>1 DEF One, HasContainer, HasBuffer
      <4>2. CASE task[t].kind # "out"
        BY <1>1, <1>2, <1>3, <4>2 DEF One, HasContainer, HasBuffer
      <4> QED
        BY <4>1, <4>2
    <3> QED
      BY <1>3, <2>2, <3>1, MoveLoans DEF IInv
  <2> QED
    BY <1>4, <2>3, <2>4 DEF IInv
<1> QED
  BY <1>6, <1>7

LEMMA DecrementKeeps ==
  ASSUME IInv, NEW t \in Tasks, Decrement(t)
  PROVE  IInv'
<1>1. /\ task[t].pc = "decrement" /\ counter' = counter - 1
      /\ Moves(t, "none", "idle", NoServer, 0)
  BY DecrementMoves DEF IInv
<1>2. task[t].kind = "receive" /\ counter # NoCounter /\ call = "none"
  BY <1>1, InRound DEF IInv
<1>3. /\ UNCHANGED rest
      /\ servers' = servers /\ servers_in_use' = servers_in_use
      /\ created' = created /\ call' = call /\ served' = served
      /\ receive_buffers' = receive_buffers /\ receive_queue' = receive_queue
      /\ out_buffers' = out_buffers
  BY DEF Decrement, queues, rest, history
<1>4. Counts(t, "none", "idle")
  BY <1>1, MoveCounts
<1>5. counter = Cardinality(Receiving) /\ counter \in Nat \ {0}
  <2>1. counter = Cardinality(Receiving)
    BY <1>2 DEF IInv, CountdownExact, Receiving
  <2>2. /\ Cardinality(Receiving) \in Nat /\ Cardinality(Receiving') \in Nat
        /\ Cardinality(Receiving') = Cardinality(Receiving) - 1
    BY <1>2, <1>4 DEF Counts, One
  <2> QED
    BY <2>1, <2>2
<1>6. counter' \in Nat /\ counter' # NoCounter
  BY <1>1, <1>5, PoolAssumption
<1>7. Typed'
  <2>1. task' \in [Tasks -> TaskType]
    BY <1>1 DEF Moves
  <2> QED
    BY <1>3, <2>1, MoveTyped DEF IInv, Typed
<1>8. Shape'
  BY <1>1, MoveShape DEF IInv, HasServer
<1>9. Phases'
  BY <1>1, <1>2, <1>3, <1>6, MovePhases DEF IInv
<1>10. Owners'
  <2>1. task[t].server = NoServer
    BY <1>1 DEF IInv, Shape, ShapeOf, HasServer
  <2> QED
    BY <1>1, <1>3, <2>1, MoveOwners DEF IInv
<1>11. Loans'
  <2>1. Len(receive_queue) \in Nat /\ Len(out_buffers) \in Nat
        /\ receive_buffers \in Nat /\ max_servers \in Nat
    BY PoolAssumption DEF IInv, Typed
  <2> QED
    BY <1>1, <1>3, <1>4, <2>1, MoveLoans DEF IInv, One, HasContainer, HasBuffer
<1>12. CountdownExact'
  <2>1. Cardinality(Receiving') = Cardinality(Receiving) - 1
    BY <1>2, <1>4 DEF Counts, One
  <2>2. counter' = Cardinality(Receiving')
    BY <1>1, <1>5, <2>1
  <2> QED
    BY <2>2 DEF CountdownExact, Receiving
<1>13. Turns'
  BY <1>1, <1>2, <1>3, MoveTurns DEF IInv, HasServer, Unserved
<1> QED
  BY <1>7, <1>8, <1>9, <1>10, <1>11, <1>12, <1>13 DEF IInv

\* A task finds a server: those to come are no more than the servers waiting.
LEMMA PopServerKeeps ==
  ASSUME IInv, NEW t \in Tasks, PopServer(t)
  PROVE  IInv'
<1> DEFINE q == servers_in_use
           h == Head(q)
<1>1. task[t].pc = "pop_server"
  BY PopServerMoves DEF IInv
<1>2. task[t].kind = "receive" /\ counter # NoCounter /\ call = "none"
  BY <1>1, InRound DEF IInv
<1>3. task[t].server = NoServer /\ task[t].passes = 0
  BY <1>1 DEF IInv, Shape, ShapeOf, HasServer
<1>4. Cardinality(ToCome) \in Nat /\ Cardinality(ToCome) >= 1
  <2> DEFINE T == ToCome \ {t}
  <2>1. /\ ToCome \in SUBSET Tasks /\ T \in SUBSET Tasks /\ t \in ToCome /\ t \notin T
        /\ \A u \in Tasks : u # t => (u \in ToCome <=> u \in T)
    BY <1>1 DEF ToCome
  <2> HIDE DEF T
  <2>2. /\ Cardinality(ToCome) \in Nat /\ Cardinality(T) \in Nat
        /\ Cardinality(T) = Cardinality(ToCome) - 1
    BY <2>1, CountMove
  <2> QED
    BY <2>2
<1>5. /\ q \in Seq(Servers) /\ q # << >> /\ Cardinality(ToCome) <= Len(q)
      /\ \A i \in DOMAIN q : i > Cardinality(ToCome) => q[i] \in served
  <2>1. q \in Seq(Servers) /\ Cardinality(ToCome) <= Len(q)
        /\ \A i \in DOMAIN q : i > Cardinality(ToCome) => q[i] \in served
    BY <1>2 DEF IInv, Typed, Turns
  <2> QED
    BY <1>4, <2>1
<1>6. /\ servers_in_use' = Tail(q)
      /\ Moves(t, task[t].kind, "pop_container", h, task[t].passes)
  BY <1>5, PopServerMoves DEF IInv
<1>7. /\ UNCHANGED rest
      /\ servers' = servers /\ created' = created /\ call' = call
      /\ served' = served /\ counter' = counter
      /\ receive_buffers' = receive_buffers /\ receive_queue' = receive_queue
      /\ out_buffers' = out_buffers
  BY DEF PopServer, rest, history
<1>8. /\ Tail(q) \in Seq(Servers) /\ Len(q) \in Nat \ {0}
      /\ Len(Tail(q)) = Len(q) - 1 /\ h = q[1]
      /\ \A i \in 1 .. Len(q) - 1 : Tail(q)[i] = q[i + 1]
  BY <1>5, TailOf
<1>9. /\ DOMAIN q = 1 .. Len(q) /\ DOMAIN Tail(q) = 1 .. Len(q) - 1
      /\ h \in Servers /\ h # NoServer
  <2>1. DOMAIN q = 1 .. Len(q)
    BY <1>5
  <2>2. DOMAIN Tail(q) = 1 .. Len(Tail(q))
    BY <1>8
  <2>3. q[1] \in Servers
    BY <1>5, <1>8
  <2> QED
    BY <1>8, <2>1, <2>2, <2>3, PoolAssumption
<1>10. Counts(t, task[t].kind, "pop_container")
  BY <1>6, MoveCounts
<1> HIDE DEF h, q
<1>11. Typed'
  <2>1. task' \in [Tasks -> TaskType]
    BY <1>6 DEF Moves
  <2> QED
    BY <1>6, <1>7, <1>8, <2>1, MoveTyped DEF IInv, Typed
<1>12. Shape'
  <2>1. t > max_servers => FALSE
    BY <1>1 DEF IInv, Shape, ShapeOf
  <2> QED
    BY <1>2, <1>3, <1>6, <1>9, <2>1, MoveShape DEF IInv, HasServer
<1>13. Phases'
  BY <1>2, <1>6, <1>7, MovePhases DEF IInv
<1>14. Owners'
  <2>1. /\ \A u \in Tasks : u # t => task'[u] = task[u]
        /\ task'[t].kind = "receive" /\ task'[t].server = h
    BY <1>2, <1>6 DEF Moves
  <2>2. /\ Existing = created
        /\ \A a, b \in Tasks :
             task[a].server = task[b].server /\ task[a].server # NoServer => a = b
        /\ \A i, j \in DOMAIN q : q[i] = q[j] => i = j
        /\ \A i \in DOMAIN q : q[i] \notin servers
        /\ \A u \in Tasks, i \in DOMAIN q : task[u].server # q[i]
        /\ \A u \in Tasks : task[u].kind = "receive" => task[u].server \notin servers
        /\ \A u \in Tasks :
             task[u].kind \in {"blocking", "out"} => task[u].server \in servers
    BY DEF IInv, Owners, IsInjective, q
  <2>3. 1 \in DOMAIN q /\ \A i \in 1 .. Len(q) - 1 : i + 1 \in DOMAIN q /\ i + 1 # 1
    BY <1>8, <1>9
  <2>4. Existing' = created'
    <3>1. ToSet(q) = {h} \cup ToSet(Tail(q))
      <4>1. \A i \in DOMAIN q : i = 1 \/ i - 1 \in 1 .. Len(q) - 1
        BY <1>8, <1>9
      <4>2. \A i \in DOMAIN q : q[i] = h \/ \E j \in DOMAIN Tail(q) : Tail(q)[j] = q[i]
        <5> TAKE i \in DOMAIN q
        <5>1. CASE i = 1
          BY <1>8, <5>1
        <5>2. CASE i # 1
          <6>1. i - 1 \in 1 .. Len(q) - 1 /\ i \in Nat
            BY <1>8, <1>9, <4>1, <5>2
          <6>2. Tail(q)[i - 1] = q[(i - 1) + 1] /\ (i - 1) + 1 = i
            BY <1>8, <6>1
          <6> QED
            BY <1>9, <6>1, <6>2
        <5> QED
          BY <5>1, <5>2
      <4>3. \A j \in DOMAIN Tail(q) : \E i \in DOMAIN q : q[i] = Tail(q)[j]
        BY <1>8, <1>9, <2>3
      <4>4. \E i \in DOMAIN q : q[i] = h
        BY <1>8, <2>3
      <4>5. \A x : x \in ToSet(q) <=> \E i \in DOMAIN q : x = q[i]
        BY DEF ToSet
      <4>6. \A x : x \in ToSet(Tail(q)) <=> \E j \in DOMAIN Tail(q) : x = Tail(q)[j]
        BY DEF ToSet
      <4>7. \A x : x \in ToSet(q) <=> x = h \/ x \in ToSet(Tail(q))
        BY <4>2, <4>3, <4>4, <4>5, <4>6
      <4> QED
        BY <4>7
    <3>2. WithTasks' = WithTasks \cup {h}
      BY <1>3, <1>9, <2>1 DEF WithTasks
    <3>3. Existing' = Existing
      BY <1>6, <1>7, <3>1, <3>2 DEF Existing, q
    <3> QED
      BY <1>7, <2>2, <3>3
  <2>5. \A a, b \in Tasks :
          task'[a].server = task'[b].server /\ task'[a].server # NoServer => a = b
    BY <1>8, <2>1, <2>2, <2>3
  <2>6. IsInjective(servers_in_use')
    <3>1. \A i, j \in 1 .. Len(q) - 1 : Tail(q)[i] = Tail(q)[j] => i = j
      <4> TAKE i, j \in 1 .. Len(q) - 1
      <4>1. Tail(q)[i] = q[i + 1] /\ Tail(q)[j] = q[j + 1]
        BY <1>8
      <4>2. i + 1 \in DOMAIN q /\ j + 1 \in DOMAIN q
        BY <2>3
      <4>3. i + 1 = j + 1 => i = j
        BY <1>8
      <4> QED
        BY <2>2, <4>1, <4>2, <4>3
    <3> QED
      BY <1>6, <1>9, <3>1 DEF IsInjective
  <2>7. \A i \in DOMAIN Tail(q) : /\ Tail(q)[i] \notin servers
                                  /\ \A u \in Tasks : task'[u].server # Tail(q)[i]
    <3> TAKE i \in DOMAIN Tail(q)
    <3>1. Tail(q)[i] = q[i + 1] /\ i + 1 \in DOMAIN q /\ i + 1 # 1
      BY <1>8, <1>9, <2>3
    <3>2. q[i + 1] # h
      BY <1>8, <2>2, <2>3, <3>1
    <3> QED
      BY <2>1, <2>2, <3>1, <3>2
  <2>8. \A u \in Tasks : /\ task'[u].kind = "receive" => task'[u].server \notin servers
                         /\ task'[u].kind \in {"blocking", "out"} =>
                              task'[u].server \in servers
    <3>1. h \notin servers
      BY <1>8, <2>2, <2>3
    <3> QED
      BY <2>1, <2>2, <3>1
  <2> QED
    BY <1>6, <1>7, <2>4, <2>5, <2>6, <2>7, <2>8 DEF Owners
<1>15. Loans'
  <2>1. Len(receive_queue) \in Nat /\ Len(out_buffers) \in Nat
        /\ receive_buffers \in Nat /\ max_servers \in Nat
    BY PoolAssumption DEF IInv, Typed
  <2> QED
    BY <1>1, <1>7, <1>10, <2>1, MoveLoans DEF IInv, One, HasContainer, HasBuffer
<1>16. CountdownExact'
  <2>1. Cardinality(Receiving') = Cardinality(Receiving)
    BY <1>10 DEF Counts, One
  <2> QED
    BY <1>7, <2>1 DEF IInv, CountdownExact, Receiving
<1>17. Turns'
  <2>1. /\ \A u \in Tasks : u # t => task'[u] = task[u]
        /\ task'[t].pc = "pop_container"
    BY <1>6 DEF Moves
  <2>2. \A u \in Tasks : task'[u].pc \in HasServer \ Unserved =>
                           task'[u].server \in served'
    BY <1>7, <2>1 DEF IInv, Turns, Unserved
  <2>3. Cardinality(ToCome') = Cardinality(ToCome) - 1
    BY <1>1, <1>10 DEF Counts, One
  <2>4. Cardinality(ToCome') <= Len(Tail(q))
    BY <1>4, <1>5, <1>8, <2>3
  <2>5. ASSUME NEW i \in DOMAIN Tail(q), i > Cardinality(ToCome')
        PROVE  Tail(q)[i] \in served
    <3>1. i + 1 \in DOMAIN q /\ i + 1 > Cardinality(ToCome) /\ Tail(q)[i] = q[i + 1]
      BY <1>4, <1>8, <1>9, <2>3, <2>5
    <3> QED
      BY <1>5, <3>1
  <2> QED
    BY <1>2, <1>6, <1>7, <2>2, <2>4, <2>5 DEF Turns
<1> QED
  BY <1>11, <1>12, <1>13, <1>14, <1>15, <1>16, <1>17 DEF IInv

\* A task gives its server back behind those that wait.
LEMMA PushServerKeeps ==
  ASSUME ServersFit, IInv, NEW t \in Tasks, PushServer(t)
  PROVE  IInv'
<1> DEFINE q == servers_in_use
           h == task[t].server
<1>1. /\ task[t].pc = "push_server" /\ h \in Servers
      /\ Moves(t, task[t].kind, "decrement", NoServer, task[t].passes)
      /\ servers_in_use' = Append(q, h)
  BY PushServerMoves DEF IInv
<1>2. task[t].kind = "receive" /\ counter # NoCounter /\ call = "none"
  BY <1>1, InRound DEF IInv
<1>3. h # NoServer /\ h \in served
  BY <1>1 DEF IInv, Shape, ShapeOf, Turns, HasServer, Unserved
<1>4. q \in Seq(Servers)
  BY DEF IInv, Typed
<1>5. /\ UNCHANGED rest
      /\ servers' = servers /\ created' = created /\ call' = call
      /\ served' = served /\ counter' = counter
      /\ receive_buffers' = receive_buffers /\ receive_queue' = receive_queue
      /\ out_buffers' = out_buffers
  BY DEF PushServer, ReturnServer, rest, history
<1>6. Counts(t, task[t].kind, "decrement")
  BY <1>1, MoveCounts
<1>7. /\ Append(q, h) \in Seq(Servers) /\ Len(q) \in Nat
      /\ Len(Append(q, h)) = Len(q) + 1 /\ Append(q, h)[Len(q) + 1] = h
      /\ \A i \in 1 .. Len(q) : Append(q, h)[i] = q[i]
      /\ DOMAIN q = 1 .. Len(q) /\ DOMAIN Append(q, h) = 1 .. Len(q) + 1
  <2>1. /\ Append(q, h) \in Seq(Servers) /\ Len(q) \in Nat
        /\ Len(Append(q, h)) = Len(q) + 1 /\ Append(q, h)[Len(q) + 1] = h
        /\ \A i \in 1 .. Len(q) : Append(q, h)[i] = q[i]
    BY <1>1, <1>4, AppendOf
  <2>2. DOMAIN q = 1 .. Len(q)
    BY <1>4
  <2>3. DOMAIN Append(q, h) = 1 .. Len(Append(q, h))
    BY <2>1
  <2> QED
    BY <2>1, <2>2, <2>3
<1> DEFINE p == Append(q, h)
<1> HIDE DEF h, q, p
<1>8. /\ \A i \in DOMAIN q : i \in DOMAIN p /\ p[i] = q[i]
      /\ \A i \in DOMAIN p : i \in DOMAIN q \/ (i = Len(q) + 1 /\ p[i] = h)
      /\ Len(q) + 1 \in DOMAIN p /\ p[Len(q) + 1] = h
  BY <1>7 DEF p
<1>9. Typed'
  <2>1. task' \in [Tasks -> TaskType]
    BY <1>1 DEF Moves
  <2> QED
    BY <1>1, <1>5, <1>7, <2>1, MoveTyped DEF IInv, Typed
<1>10. Shape'
  <2>1. t > max_servers => FALSE
    BY <1>1 DEF IInv, Shape, ShapeOf
  <2> QED
    BY <1>1, <1>2, <2>1, MoveShape DEF IInv, HasServer
<1>11. Phases'
  BY <1>1, <1>2, <1>5, MovePhases DEF IInv
<1>12. Owners'
  <2>1. /\ \A u \in Tasks : u # t => task'[u] = task[u]
        /\ task'[t].kind = "receive" /\ task'[t].server = NoServer
    BY <1>1, <1>2 DEF Moves
  <2>2. /\ Existing = created
        /\ \A a, b \in Tasks :
             task[a].server = task[b].server /\ task[a].server # NoServer => a = b
        /\ \A i, j \in DOMAIN q : q[i] = q[j] => i = j
        /\ \A i \in DOMAIN q : q[i] \notin servers
        /\ \A u \in Tasks, i \in DOMAIN q : task[u].server # q[i]
        /\ \A u \in Tasks : task[u].kind = "receive" => task[u].server \notin servers
        /\ \A u \in Tasks :
             task[u].kind \in {"blocking", "out"} => task[u].server \in servers
    BY DEF IInv, Owners, IsInjective, q
  <2>3. Existing' = created'
    <3>1. \A x : x \in ToSet(p) <=> x = h \/ x \in ToSet(q)
      <4>1. \A x : x \in ToSet(q) <=> \E i \in DOMAIN q : x = q[i]
        BY DEF ToSet
      <4>2. \A x : x \in ToSet(p) <=> \E i \in DOMAIN p : x = p[i]
        BY DEF ToSet
      <4> QED
        BY <1>8, <4>1, <4>2
    <3>2. WithTasks = WithTasks' \cup {h}
      BY <1>3, <2>1 DEF WithTasks, h
    <3>3. Existing' = Existing
      BY <1>1, <1>5, <3>1, <3>2 DEF Existing, q, p
    <3> QED
      BY <1>5, <2>2, <3>3
  <2>4. \A a, b \in Tasks :
          task'[a].server = task'[b].server /\ task'[a].server # NoServer => a = b
    BY <2>1, <2>2
  <2>5. \A i \in DOMAIN q : q[i] # h
    BY <2>2 DEF h
  <2>6. IsInjective(p)
    <3>1. \A i, j \in DOMAIN p : p[i] = p[j] => i = j
      BY <1>8, <2>2, <2>5
    <3> QED
      BY <3>1 DEF IsInjective
  <2>7. \A i \in DOMAIN p : p[i] \notin servers
    <3>1. h \notin servers
      BY <1>2, <2>2 DEF h
    <3> QED
      BY <1>8, <2>2, <3>1
  <2>8. \A u \in Tasks, i \in DOMAIN p : task'[u].server # p[i]
    <3>1. NoServer # h /\ \A i \in DOMAIN q : q[i] # NoServer
      BY <1>3, <1>4, <1>7, PoolAssumption
    <3>2. \A u \in Tasks : task'[u].server # h
      BY <1>3, <2>1, <2>2, <3>1 DEF h
    <3>3. \A u \in Tasks, i \in DOMAIN q : task'[u].server # q[i]
      BY <2>1, <2>2, <3>1
    <3> QED
      BY <1>8, <3>2, <3>3
  <2>9. \A u \in Tasks : /\ task'[u].kind = "receive" => task'[u].server \notin servers
                         /\ task'[u].kind \in {"blocking", "out"} =>
                              task'[u].server \in servers
    <3>1. NoServer \notin servers
      BY PoolAssumption DEF IInv, Typed
    <3> QED
      BY <2>1, <2>2, <3>1
  <2>10. servers_in_use' = p
    BY <1>1 DEF p
  <2> QED
    BY <1>5, <2>3, <2>4, <2>6, <2>7, <2>8, <2>9, <2>10 DEF Owners
<1>13. Loans'
  <2>1. Len(receive_queue) \in Nat /\ Len(out_buffers) \in Nat
        /\ receive_buffers \in Nat /\ max_servers \in Nat
    BY PoolAssumption DEF IInv, Typed
  <2> QED
    BY <1>1, <1>5, <1>6, <2>1, MoveLoans DEF IInv, One, HasContainer, HasBuffer
<1>14. CountdownExact'
  <2>1. Cardinality(Receiving') = Cardinality(Receiving)
    BY <1>6 DEF Counts, One
  <2> QED
    BY <1>5, <2>1 DEF IInv, CountdownExact, Receiving
<1>15. Turns'
  <2>1. /\ \A u \in Tasks : u # t => task'[u] = task[u]
        /\ task'[t].pc = "decrement"
    BY <1>1 DEF Moves
  <2>2. \A u \in Tasks : task'[u].pc \in HasServer \ Unserved =>
                           task'[u].server \in served'
    BY <1>5, <2>1 DEF IInv, Turns, HasServer
  <2>3. /\ Cardinality(ToCome') = Cardinality(ToCome)
        /\ Cardinality(ToCome) \in Nat
    BY <1>1, <1>6 DEF Counts, One
  <2>4. /\ Cardinality(ToCome) <= Len(q)
        /\ \A i \in DOMAIN q : i > Cardinality(ToCome) => q[i] \in served
    BY <1>2 DEF IInv, Turns, q
  <2>5. Cardinality(ToCome') <= Len(p)
    BY <1>7, <2>3, <2>4 DEF p
  <2>6. \A i \in DOMAIN p : i > Cardinality(ToCome') => p[i] \in served
    BY <1>3, <1>8, <2>3, <2>4
  <2>7. servers_in_use' = p
    BY <1>1 DEF p
  <2> QED
    BY <1>2, <1>5, <2>2, <2>5, <2>6, <2>7 DEF Turns
<1> QED
  BY <1>9, <1>10, <1>11, <1>12, <1>13, <1>14, <1>15 DEF IInv

-----------------------------------------------------------------------------
(***************************************************************************)
(* The queues put together are a queue of messages.                        *)
(***************************************************************************)
IsFlat(q, N, f) ==
  f = [i \in 1 .. N |-> IF i = 1 THEN q[i] ELSE f[i - 1] \o q[i]]

LEMMA FlatExists ==
  ASSUME NEW q, NEW N \in Nat
  PROVE  \E f : IsFlat(q, N, f)
<1> DEFINE Bad == {k \in Nat : ~ \E f : IsFlat(q, k, f)}
<1>1. \E f : IsFlat(q, 0, f)
  <2> DEFINE f == [i \in 1 .. 0 |-> q]
  <2>1. IsFlat(q, 0, f)
    BY DEF IsFlat
  <2> QED
    BY <2>1
<1>2. ASSUME NEW k \in Nat, NEW f, IsFlat(q, k, f)
      PROVE  \E g : IsFlat(q, k + 1, g)
  <2> DEFINE g == [i \in 1 .. k + 1 |->
                     IF i # k + 1 THEN f[i]
                     ELSE IF i = 1 THEN q[i] ELSE f[k] \o q[i]]
  <2>1. ASSUME NEW i \in 1 .. k + 1
        PROVE  g[i] = IF i = 1 THEN q[i] ELSE g[i - 1] \o q[i]
    <3>1. \A j \in 1 .. k : f[j] = IF j = 1 THEN q[j] ELSE f[j - 1] \o q[j]
      BY <1>2 DEF IsFlat
    <3>2. CASE i = 1
      <4>1. i # k + 1 => i \in 1 .. k
        BY <3>2
      <4> QED
        BY <3>1, <3>2, <4>1
    <3>3. CASE i # 1 /\ i = k + 1
      <4>1. k \in 1 .. k + 1 /\ k # k + 1 /\ i - 1 = k
        BY <3>3
      <4>2. g[i] = f[k] \o q[i] /\ g[k] = f[k]
        BY <3>3, <4>1
      <4> HIDE DEF g
      <4> QED
        BY <3>3, <4>1, <4>2
    <3>4. CASE i # 1 /\ i # k + 1
      <4>1. i \in 1 .. k /\ i - 1 \in 1 .. k + 1 /\ i - 1 # k + 1
        BY <3>4
      <4>2. g[i] = f[i] /\ g[i - 1] = f[i - 1]
        BY <3>4, <4>1
      <4>3. f[i] = f[i - 1] \o q[i]
        BY <3>1, <3>4, <4>1
      <4> HIDE DEF g
      <4> QED
        BY <3>4, <4>2, <4>3
    <3> QED
      BY <3>2, <3>3, <3>4
  <2>2. g = [i \in 1 .. k + 1 |-> g[i]]
    OBVIOUS
  <2> HIDE DEF g
  <2>3. IsFlat(q, k + 1, g)
    BY <2>1, <2>2 DEF IsFlat
  <2> QED
    BY <2>3
<1>3. Bad = {}
  <2> SUFFICES ASSUME Bad # {} PROVE FALSE
    OBVIOUS
  <2>1. Bad \in SUBSET Nat
    OBVIOUS
  <2> HIDE DEF Bad
  <2>2. PICK k \in Bad : \A j \in Bad : k <= j
    BY <2>1, LeastNat
  <2>3. k \in Nat /\ ~ \E f : IsFlat(q, k, f)
    BY <2>2 DEF Bad
  <2>4. k # 0
    BY <1>1, <2>3
  <2>5. k - 1 \in Nat /\ ~ (k <= k - 1) /\ (k - 1) + 1 = k
    BY <2>3, <2>4
  <2>6. k - 1 \notin Bad
    BY <2>2, <2>5
  <2>7. PICK f : IsFlat(q, k - 1, f)
    BY <2>5, <2>6 DEF Bad
  <2> QED
    BY <1>2, <2>3, <2>5, <2>7
<1> QED
  BY <1>3

LEMMA FlattenType ==
  ASSUME NEW S, NEW q \in Seq(Seq(S))
  PROVE  FlattenSeq(q) \in Seq(S)
<1>1. Len(q) \in Nat /\ \A i \in 1 .. Len(q) : q[i] \in Seq(S)
  OBVIOUS
<1>2. CASE Len(q) = 0
  <2>1. q = << >> /\ FlattenSeq(q) = q
    BY <1>2 DEF FlattenSeq
  <2>2. << >> \in Seq(S)
    OBVIOUS
  <2> QED
    BY <2>1, <2>2
<1>3. CASE Len(q) # 0
  <2> DEFINE f == CHOOSE g : IsFlat(q, Len(q), g)
  <2>1. IsFlat(q, Len(q), f)
    BY <1>1, FlatExists
  <2>2. FlattenSeq(q) = f[Len(q)]
    BY <1>3, Zenon DEF FlattenSeq, IsFlat
  <2> HIDE DEF f
  <2>3. \A i \in 1 .. Len(q) :
          f[i] = IF i = 1 THEN q[i] ELSE f[i - 1] \o q[i]
    BY <2>1 DEF IsFlat
  <2> DEFINE Bad == {k \in Nat : k \in 1 .. Len(q) /\ f[k] \notin Seq(S)}
  <2>4. Bad = {}
    <3> SUFFICES ASSUME Bad # {} PROVE FALSE
      OBVIOUS
    <3>1. Bad \in SUBSET Nat
      OBVIOUS
    <3> HIDE DEF Bad
    <3>2. PICK k \in Bad : \A j \in Bad : k <= j
      BY <3>1, LeastNat
    <3>3. k \in Nat /\ k \in 1 .. Len(q) /\ f[k] \notin Seq(S)
      BY <3>2 DEF Bad
    <3>4. k # 1
      BY <1>1, <2>3, <3>3
    <3>5. k - 1 \in Nat /\ k - 1 \in 1 .. Len(q) /\ ~ (k <= k - 1)
      BY <1>1, <3>3, <3>4
    <3>6. f[k - 1] \in Seq(S)
      BY <3>2, <3>5 DEF Bad
    <3>7. f[k] = f[k - 1] \o q[k] /\ q[k] \in Seq(S)
      BY <1>1, <2>3, <3>3, <3>4
    <3>8. f[k - 1] \o q[k] \in Seq(S)
      BY <3>6, <3>7
    <3> QED
      BY <3>3, <3>7, <3>8
  <2>5. Len(q) \in 1 .. Len(q)
    BY <1>1, <1>3
  <2>6. f[Len(q)] \in Seq(S)
    BY <1>1, <2>4, <2>5
  <2> QED
    BY <2>2, <2>6
<1> QED
  BY <1>2, <1>3

\* move_received_to_published: as many queues as before, now empty.
LEMMA Published ==
  ASSUME Typed, move_received_to_published
  PROVE  /\ published' \in Seq(Messages)
         /\ receive_queue' \in Seq(Seq(Messages))
         /\ Len(receive_queue') = Len(receive_queue)
<1>1. published \in Seq(Messages) /\ receive_queue \in Seq(Seq(Messages))
  BY DEF Typed
<1>2. FlattenSeq(receive_queue) \in Seq(Messages)
  BY <1>1, FlattenType
<1>3. published' \in Seq(Messages)
  BY <1>1, <1>2 DEF move_received_to_published
<1>4. << >> \in Seq(Messages)
  OBVIOUS
<1> DEFINE M == Seq(Messages)
           n == Len(receive_queue)
<1>5. n \in Nat /\ receive_queue' = [k \in 1 .. n |-> << >>] /\ << >> \in M
  BY <1>1, <1>4 DEF move_received_to_published
<1> HIDE DEF M, n
<1>6. receive_queue' \in Seq(M) /\ Len(receive_queue') = n
  BY <1>5
<1> QED
  BY <1>3, <1>6 DEF M, n

-----------------------------------------------------------------------------
(***************************************************************************)
(* The steps of the application and the network keep the invariant.        *)
(***************************************************************************)

\* Steps that move messages and leave servers and tasks alone.
LEMMA StillStep ==
  ASSUME IInv, Typed',
         UNCHANGED <<servers, servers_in_use, created, counter, task, served,
                     call, receive_buffers>>,
         Len(receive_queue') = Len(receive_queue),
         Len(out_buffers') = Len(out_buffers)
  PROVE  IInv'
<1>1. /\ servers' = servers /\ servers_in_use' = servers_in_use
      /\ created' = created /\ counter' = counter /\ task' = task
      /\ served' = served /\ call' = call /\ receive_buffers' = receive_buffers
  OBVIOUS
<1>2. Shape' /\ Phases'
  BY <1>1 DEF IInv, Shape, Phases
<1>3. Owners'
  <2>1. WithTasks' = WithTasks
    BY <1>1 DEF WithTasks
  <2>2. Existing' = Existing
    BY <1>1, <2>1 DEF Existing
  <2> QED
    BY <1>1, <2>2 DEF IInv, Owners
<1>4. Loans'
  <2>1. QueueLoans' = QueueLoans /\ OutLoans' = OutLoans /\ BufferLoans' = BufferLoans
    BY <1>1 DEF QueueLoans, OutLoans, BufferLoans
  <2> QED
    BY <1>1, <2>1 DEF IInv, Loans
<1>5. CountdownExact'
  BY <1>1 DEF IInv, CountdownExact
<1>6. Turns'
  <2>1. ToCome' = ToCome
    BY <1>1 DEF ToCome
  <2> QED
    BY <1>1, <2>1 DEF IInv, Turns
<1> QED
  BY <1>2, <1>3, <1>4, <1>5, <1>6 DEF IInv

LEMMA ArriveKeeps ==
  ASSUME IInv, NEW s \in Servers, NEW kind \in Kinds, NEW count \in Nat,
         Arrive(s, kind, count)
  PROVE  IInv'
<1>1. /\ servers' = servers /\ servers_in_use' = servers_in_use
      /\ created' = created /\ counter' = counter /\ task' = task
      /\ served' = served /\ call' = call /\ receive_buffers' = receive_buffers
      /\ receive_queue' = receive_queue /\ out_buffers' = out_buffers
      /\ published' = published /\ ready' = ready /\ cut' = cut
  BY DEF Arrive, pool, queues, history
<1>2. arrived[s] \in Nat /\ socket[s] \in Seq(Packet)
  BY DEF IInv, Typed
<1>3. arrived' \in [Servers -> Nat]
  BY <1>2 DEF Arrive, IInv, Typed
<1>4. socket' \in [Servers -> Seq(Packet)]
  <2> DEFINE x == [kind |-> kind, low |-> arrived[s], high |-> arrived[s] + count]
  <2>1. x \in Packet
    BY <1>2 DEF Packet
  <2> HIDE DEF x
  <2>2. Append(socket[s], x) \in Seq(Packet)
    BY <1>2, <2>1
  <2>3. socket' = [socket EXCEPT ![s] = Append(@, x)]
    BY DEF Arrive, x
  <2> QED
    BY <2>2, <2>3 DEF IInv, Typed
<1>5. Typed'
  BY <1>1, <1>3, <1>4 DEF IInv, Typed
<1> QED
  BY <1>1, <1>5, StillStep

LEMMA TakePublishedKeeps ==
  ASSUME IInv, take_published
  PROVE  IInv'
<1>1. /\ servers' = servers /\ servers_in_use' = servers_in_use
      /\ created' = created /\ counter' = counter /\ task' = task
      /\ served' = served /\ call' = call /\ receive_buffers' = receive_buffers
      /\ receive_queue' = receive_queue /\ out_buffers' = out_buffers
      /\ socket' = socket /\ arrived' = arrived /\ ready' = ready /\ cut' = cut
  BY DEF take_published, network
<1>2. published' \in Seq(Messages)
  <2>1. published \in Seq(Messages) /\ published # << >>
    BY DEF take_published, IInv, Typed
  <2> QED
    BY <2>1, TailOf DEF take_published
<1>3. Typed'
  BY <1>1, <1>2 DEF IInv, Typed
<1> QED
  BY <1>1, <1>3, StillStep

LEMMA NextOutBufferKeeps ==
  ASSUME IInv, get_next_out_buffer
  PROVE  IInv'
<1>1. /\ servers' = servers /\ servers_in_use' = servers_in_use
      /\ created' = created /\ counter' = counter /\ task' = task
      /\ served' = served /\ call' = call /\ receive_buffers' = receive_buffers
      /\ receive_queue' = receive_queue /\ published' = published
      /\ socket' = socket /\ arrived' = arrived /\ ready' = ready /\ cut' = cut
  BY DEF get_next_out_buffer, network
<1> DEFINE q == out_buffers
           b == OutBuffer(<< >>, 0)
<1>2. PICK k \in DOMAIN q :
        out_buffers' = SubSeq(q, k + 1, Len(q)) \o SubSeq(q, 1, k - 1) \o <<b>>
  BY DEF get_next_out_buffer
<1>3. q \in Seq(OutBuffers)
  BY DEF IInv, Typed
<1>4. b \in OutBuffers
  <2>1. << >> \in Seq(Messages)
    OBVIOUS
  <2> QED
    BY <2>1 DEF OutBuffer, OutBuffers
<1> HIDE DEF q, b
<1>5. Len(q) \in Nat /\ k \in 1 .. Len(q)
  BY <1>3
<1> DEFINE x == SubSeq(q, k + 1, Len(q))
           y == SubSeq(q, 1, k - 1)
<1>6. x \in Seq(OutBuffers) /\ Len(x) = Len(q) - k
  BY <1>3, <1>5
<1>7. y \in Seq(OutBuffers) /\ Len(y) = k - 1
  BY <1>3, <1>5
<1> HIDE DEF x, y
<1>8. x \o y \in Seq(OutBuffers) /\ Len(x \o y) = Len(q) - 1
  BY <1>5, <1>6, <1>7
<1>9. <<b>> \in Seq(OutBuffers) /\ Len(<<b>>) = 1
  BY <1>4
<1>10. /\ (x \o y) \o <<b>> \in Seq(OutBuffers)
       /\ Len((x \o y) \o <<b>>) = Len(q)
  BY <1>5, <1>8, <1>9
<1>11. out_buffers' \in Seq(OutBuffers) /\ Len(out_buffers') = Len(out_buffers)
  BY <1>2, <1>10 DEF x, y, q
<1>12. Typed'
  BY <1>1, <1>11 DEF IInv, Typed
<1> QED
  BY <1>1, <1>11, <1>12, StillStep

LEMMA StutterKeeps ==
  ASSUME IInv, UNCHANGED vars
  PROVE  IInv'
<1>1. /\ servers' = servers /\ servers_in_use' = servers_in_use
      /\ created' = created /\ counter' = counter /\ task' = task
      /\ served' = served /\ call' = call /\ receive_buffers' = receive_buffers
      /\ receive_queue' = receive_queue /\ out_buffers' = out_buffers
      /\ published' = published
      /\ socket' = socket /\ arrived' = arrived /\ ready' = ready /\ cut' = cut
  BY DEF vars, pool, queues, network, history
<1>2. Typed'
  BY <1>1 DEF IInv, Typed
<1> QED
  BY <1>1, <1>2, StillStep

\* create_server: an id of its own, whatever the tasks are doing.
LEMMA CreateServerKeeps ==
  ASSUME IInv, NEW s \in Servers, create_server(s)
  PROVE  IInv'
<1>1. /\ servers' = servers \cup {s} /\ created' = created \cup {s}
      /\ servers_in_use' = servers_in_use /\ counter' = counter /\ task' = task
      /\ served' = served /\ call' = call /\ receive_buffers' = receive_buffers
      /\ receive_queue' = receive_queue /\ out_buffers' = out_buffers
      /\ published' = published
      /\ socket' = socket /\ arrived' = arrived /\ ready' = ready /\ cut' = cut
      /\ call = "none" /\ s \notin created
  BY DEF create_server, Calling, queues, network
<1>2. Typed'
  BY <1>1 DEF IInv, Typed
<1>3. Shape' /\ Phases'
  BY <1>1 DEF IInv, Shape, Phases
<1>4. Owners'
  <2>1. WithTasks' = WithTasks
    BY <1>1 DEF WithTasks
  <2>2. Existing' = created'
    BY <1>1, <2>1 DEF Existing, IInv, Owners
  <2>3. \A i \in DOMAIN servers_in_use : servers_in_use[i] # s
    <3>1. \A i \in DOMAIN servers_in_use : servers_in_use[i] \in ToSet(servers_in_use)
      BY DEF ToSet
    <3> QED
      BY <1>1, <3>1 DEF Existing, IInv, Owners
  <2>4. \A t \in Tasks : task[t].server # s
    <3>1. s # NoServer
      BY PoolAssumption
    <3>2. \A t \in Tasks : task[t].server = s => s \in WithTasks
      BY <3>1 DEF WithTasks
    <3> QED
      BY <1>1, <3>2 DEF Existing, IInv, Owners
  <2> QED
    BY <1>1, <2>2, <2>3, <2>4 DEF IInv, Owners
<1>5. Loans'
  <2>1. QueueLoans' = QueueLoans /\ OutLoans' = OutLoans /\ BufferLoans' = BufferLoans
    BY <1>1 DEF QueueLoans, OutLoans, BufferLoans
  <2> QED
    BY <1>1, <2>1 DEF IInv, Loans
<1>6. CountdownExact'
  BY <1>1 DEF IInv, CountdownExact
<1>7. Turns'
  <2>1. ToCome' = ToCome
    BY <1>1 DEF ToCome
  <2> QED
    BY <1>1, <2>1 DEF IInv, Turns
<1> QED
  BY <1>2, <1>3, <1>4, <1>5, <1>6, <1>7 DEF IInv

\* No task runs: nothing is lent and no server is away with one.
NoTasks ==
  /\ \A t \in Tasks : /\ task[t].kind = "none" /\ task[t].pc = "idle"
                      /\ task[t].server = NoServer
  /\ WithTasks = {} /\ QueueLoans = {} /\ OutLoans = {} /\ BufferLoans = {}
  /\ ToCome = {}

LEMMA NoTasksWhenIdle ==
  ASSUME Shape, \A t \in Tasks : task[t].kind = "none"
  PROVE  NoTasks
<1>1. \A t \in Tasks : task[t].pc = "idle" /\ task[t].server = NoServer
  BY DEF Shape, ShapeOf, HasServer
<1> QED
  BY <1>1 DEF NoTasks, WithTasks, QueueLoans, OutLoans, BufferLoans, ToCome,
              HasContainer, HasBuffer

\* Between rounds, and once the countdown has ended, no task runs.
LEMMA QuietTasks ==
  ASSUME IInv, call = "none", counter \in {NoCounter, 0}
  PROVE  NoTasks
<1>1. \A t \in Tasks : task[t].kind # "receive"
  <2>1. CASE counter = NoCounter
    BY <2>1 DEF IInv, Phases
  <2>2. CASE counter # NoCounter
    <3>1. Cardinality(Receiving) = 0
      BY <2>2 DEF IInv, CountdownExact, Receiving
    <3>2. IsFiniteSet(Receiving)
      <4>1. max_servers + 1 \in Int /\ 1 \in Int
        BY PoolAssumption
      <4>2. IsFiniteSet(Tasks)
        BY <4>1, FS_Interval DEF Tasks
      <4> QED
        BY <4>2, FS_Subset DEF Receiving
    <3>3. Receiving = {}
      BY <3>1, <3>2, FS_EmptySet
    <3> QED
      BY <3>3 DEF Receiving
  <2> QED
    BY <2>1, <2>2
<1>2. \A t \in Tasks : task[t].kind = "none"
  BY <1>1 DEF IInv, Phases, Typed, TaskType, TaskKinds
<1> QED
  BY <1>2, NoTasksWhenIdle DEF IInv

\* The servers, in an order in which each of them is once.
LEMMA InOrder ==
  ASSUME ServersFit, NEW S \in SUBSET Servers
  PROVE  LET n == Cardinality(S)
         IN  /\ n \in Nat /\ n <= max_servers /\ IsFiniteSet(S)
             /\ \A f \in [1 .. n -> S] : IsInjective(f) =>
                  /\ f \in Seq(Servers) /\ Len(f) = n /\ DOMAIN f = 1 .. n
                  /\ \A s \in S : \E i \in 1 .. n : f[i] = s
             /\ \E f \in [1 .. n -> S] : IsInjective(f)
<1> DEFINE n == Cardinality(S)
           D == 1 .. n
<1>1. /\ IsFiniteSet(Servers) /\ Cardinality(Servers) <= max_servers
      /\ Cardinality(Servers) \in Nat /\ max_servers \in Nat
  BY FS_CardinalityType, PoolAssumption DEF ServersFit
<1>2. IsFiniteSet(S) /\ Cardinality(S) <= Cardinality(Servers)
  BY <1>1, FS_Subset
<1>3. n \in Nat /\ ExistsBijection(1 .. Cardinality(S), S)
  BY <1>2, FS_CardinalityType
<1>4. n <= max_servers
  BY <1>1, <1>2, <1>3
<1>5. IsFiniteSet(D) /\ Cardinality(D) = n
  BY <1>3, FS_Interval
<1>6. \E f \in [D -> S] : IsInjective(f)
  BY <1>3 DEF ExistsBijection, Bijection, Injection
<1>7. ASSUME NEW f \in [D -> S], IsInjective(f)
      PROVE  /\ f \in Seq(Servers) /\ Len(f) = n /\ DOMAIN f = D
             /\ \A s \in S : \E j \in D : f[j] = s
  <2>1. f \in Injection(D, S)
    BY <1>7 DEF Injection
  <2>2. Cardinality(D) = Cardinality(S) <=> f \in Surjection(D, S)
    BY <1>2, <2>1, FS_Injection
  <2>3. \A s \in S : \E j \in D : f[j] = s
    BY <1>5, <2>2 DEF Surjection
  <2> HIDE DEF n
  <2>4. f \in [1 .. n -> Servers]
    OBVIOUS
  <2>5. f \in Seq(Servers) /\ Len(f) = n /\ DOMAIN f = D
    BY <1>3, <2>4
  <2> QED
    BY <2>3, <2>5
<1> QED
  BY <1>2, <1>3, <1>4, <1>6, <1>7

\* receive: all the servers go to the queue, each has a task, all are counted.
LEMMA ReceiveKeeps ==
  ASSUME ServersFit, IInv, receive
  PROVE  IInv'
<1> DEFINE n == Cardinality(servers)
           x == Spawned("receive", "pop_server", NoServer)
<1>1. /\ call = "none" /\ counter = NoCounter
      /\ servers' = {} /\ counter' = n /\ served' = {}
      /\ task' = [t \in Tasks |-> IF t <= n THEN x ELSE Idle]
      /\ receive_queue' = receive_queue /\ receive_buffers' = receive_buffers
      /\ out_buffers' = out_buffers /\ published' = published /\ call' = call
      /\ socket' = socket /\ arrived' = arrived /\ ready' = ready
      /\ created' = created /\ cut' = cut
  BY DEF receive, Spawn, BetweenRounds, Calling, network
<1>2. NoTasks /\ servers_in_use = << >>
  BY <1>1, QuietTasks DEF IInv, Phases
<1>3. PICK order \in SetToSeqs(servers) :
        servers_in_use' = push_all(servers_in_use, order)
  BY DEF receive, Spawn, Orders
<1>4. servers \in SUBSET Servers
  BY DEF IInv, Typed
<1>5. /\ n \in Nat /\ n <= max_servers /\ IsFiniteSet(servers)
      /\ order \in [1 .. n -> servers] /\ IsInjective(order)
  <2>1. order \in [1 .. n -> servers]
        /\ \A a, b \in 1 .. n : a # b => order[a] # order[b]
    BY <1>3 DEF SetToSeqs
  <2>2. IsInjective(order)
    BY <2>1 DEF IsInjective
  <2> QED
    BY <1>4, <2>1, <2>2, InOrder
<1>6. /\ order \in Seq(Servers) /\ Len(order) = n /\ DOMAIN order = 1 .. n
      /\ \A s \in servers : \E j \in 1 .. n : order[j] = s
  BY <1>4, <1>5, InOrder
<1> HIDE DEF n, x
<1>7. servers_in_use' = order
  <2>1. Len(<< >>) = 0 /\ max_servers - 0 = max_servers /\ max_servers \in Nat
    BY PoolAssumption
  <2>2. (IF Len(order) < max_servers THEN Len(order) ELSE max_servers) = n
    BY <1>5, <1>6, <2>1
  <2>3. servers_in_use' = << >> \o SubSeq(order, 1, n)
    BY <1>2, <1>3, <2>1, <2>2 DEF push_all
  <2>4. SubSeq(order, 1, n) = order
    BY <1>5, <1>6
  <2> QED
    BY <1>6, <2>3, <2>4
<1>8. /\ x \in TaskType /\ x.kind = "receive" /\ x.pc = "pop_server"
      /\ x.server = NoServer /\ x.passes = 0
      /\ Idle \in TaskType /\ Idle.kind = "none" /\ Idle.pc = "idle"
      /\ Idle.server = NoServer /\ Idle.passes = 0
  <2>1. << >> \in Seq(Messages) /\ 0 \in 0 .. PASSES /\ 0 \in Nat
    BY PoolAssumption
  <2> QED
    BY <2>1 DEF x, Spawned, Idle, TaskType, TaskKinds, Steps
<1>9. task' \in [Tasks -> TaskType]
  BY <1>1, <1>8
<1>10. \A t \in Tasks : task'[t] = IF t <= n THEN x ELSE Idle
  BY <1>1
<1>11. \A t \in Tasks : /\ task'[t].server = NoServer
                        /\ task'[t].kind = (IF t <= n THEN "receive" ELSE "none")
                        /\ task'[t].pc = (IF t <= n THEN "pop_server" ELSE "idle")
                        /\ task'[t].passes = 0
  BY <1>8, <1>10
<1>12. Typed'
  BY <1>1, <1>6, <1>7, <1>9 DEF IInv, Typed
<1>13. Shape'
  <2>1. \A t \in Tasks : ShapeOf(t, task'[t])
    <3> TAKE t \in Tasks
    <3>1. t \in Nat /\ max_servers \in Nat /\ (t > max_servers => ~ (t <= n))
      BY <1>5, PoolAssumption DEF Tasks
    <3> QED
      BY <1>11, <3>1 DEF ShapeOf, HasServer
  <2> QED
    BY <2>1 DEF Shape
<1>14. Phases'
  <2>1. counter' # NoCounter
    BY <1>1, <1>5, PoolAssumption
  <2> QED
    BY <1>1, <1>11, <2>1 DEF Phases
<1>15. Owners'
  <2>1. WithTasks' = {}
    BY <1>11 DEF WithTasks
  <2>2. ToSet(order) = servers
    <3>1. \A s : s \in ToSet(order) <=> \E j \in 1 .. n : s = order[j]
      BY <1>6 DEF ToSet
    <3>2. \A j \in 1 .. n : order[j] \in servers
      BY <1>5
    <3>3. \A s : s \in ToSet(order) <=> s \in servers
      BY <1>6, <3>1, <3>2
    <3> QED
      BY <3>3
  <2>3. Existing = servers
    <3>1. ToSet(servers_in_use) = {}
      BY <1>2 DEF ToSet
    <3> QED
      BY <1>2, <3>1 DEF Existing, NoTasks
  <2>4. Existing' = created'
    BY <1>1, <1>7, <2>1, <2>2, <2>3 DEF Existing, IInv, Owners
  <2>5. \A j \in DOMAIN order : order[j] # NoServer
    BY <1>6, PoolAssumption
  <2> QED
    BY <1>1, <1>5, <1>7, <1>11, <2>4, <2>5 DEF Owners
<1>16. Loans'
  <2>1. QueueLoans' = {} /\ OutLoans' = {} /\ BufferLoans' = {}
    BY <1>11 DEF QueueLoans, OutLoans, BufferLoans, HasContainer, HasBuffer
  <2>2. QueueLoans' = QueueLoans /\ OutLoans' = OutLoans /\ BufferLoans' = BufferLoans
    BY <1>2, <2>1 DEF NoTasks
  <2> QED
    BY <1>1, <2>2 DEF IInv, Loans
<1>17. Receiving' = 1 .. n /\ ToCome' = 1 .. n
  <2>1. \A t : t \in 1 .. n <=> t \in Tasks /\ t <= n
    BY <1>5, PoolAssumption DEF Tasks
  <2> QED
    BY <1>11, <2>1 DEF Receiving, ToCome
<1>18. Cardinality(1 .. n) = n
  BY <1>5, FS_Interval
<1>19. CountdownExact'
  BY <1>1, <1>17, <1>18 DEF CountdownExact, Receiving
<1>20. Turns'
  <2>1. Cardinality(ToCome') = n
    BY <1>17, <1>18
  <2>2. \A j \in DOMAIN order : ~ (j > n)
    BY <1>5, <1>6
  <2>3. n <= Len(order)
    BY <1>5, <1>6
  <2> QED
    BY <1>1, <1>7, <1>11, <2>1, <2>2, <2>3 DEF Turns, HasServer
<1> QED
  BY <1>12, <1>13, <1>14, <1>15, <1>16, <1>19, <1>20 DEF IInv

\* finish_receive: no task runs any more, and every server comes home.
LEMMA FinishReceiveKeeps ==
  ASSUME IInv, finish_receive
  PROVE  IInv'
<1>1. /\ call = "none" /\ counter = 0 /\ move_received_to_published
      /\ servers' = servers \cup ToSet(servers_in_use)
      /\ servers_in_use' = << >> /\ counter' = NoCounter
      /\ receive_buffers' = receive_buffers /\ out_buffers' = out_buffers
      /\ task' = task /\ call' = call /\ socket' = socket /\ arrived' = arrived
      /\ ready' = ready /\ created' = created /\ cut' = cut /\ served' = served
  BY DEF finish_receive, Join, Calling, network, history
<1>2. NoTasks
  BY <1>1, QuietTasks
<1>3. /\ published' \in Seq(Messages) /\ receive_queue' \in Seq(Seq(Messages))
      /\ Len(receive_queue') = Len(receive_queue)
  BY <1>1, Published DEF IInv
<1>4. ToSet(servers_in_use) \subseteq Servers
  BY DEF ToSet, IInv, Typed
<1>5. Typed'
  <2>1. << >> \in Seq(Servers)
    OBVIOUS
  <2> QED
    BY <1>1, <1>3, <1>4, <2>1 DEF IInv, Typed
<1>6. Shape'
  BY <1>1 DEF IInv, Shape
<1>7. Phases'
  BY <1>1, <1>2 DEF Phases, NoTasks
<1>8. Owners'
  <2>1. WithTasks' = {}
    BY <1>1, <1>2 DEF WithTasks, NoTasks
  <2>2. servers_in_use' = << >> /\ DOMAIN servers_in_use' = {}
    BY <1>1
  <2>3. ToSet(servers_in_use') = {}
    BY <2>2 DEF ToSet
  <2>4. Existing' = created'
    BY <1>1, <1>2, <2>1, <2>3 DEF Existing, NoTasks, IInv, Owners
  <2>5. IsInjective(servers_in_use')
    BY <2>2 DEF IsInjective
  <2> QED
    BY <1>1, <1>2, <2>2, <2>4, <2>5 DEF Owners, NoTasks
<1>9. Loans'
  <2>1. QueueLoans' = QueueLoans /\ OutLoans' = OutLoans /\ BufferLoans' = BufferLoans
    BY <1>1 DEF QueueLoans, OutLoans, BufferLoans
  <2> QED
    BY <1>1, <1>3, <2>1 DEF IInv, Loans
<1>10. CountdownExact'
  BY <1>1 DEF CountdownExact
<1>11. Turns'
  BY <1>1, <1>2 DEF Turns, NoTasks, HasServer
<1> QED
  BY <1>5, <1>6, <1>7, <1>8, <1>9, <1>10, <1>11 DEF IInv

\* A blocking call: a task for each of the servers, which stay at home.
LEMMA BlockKeeps ==
  ASSUME ServersFit, IInv, call = "none", counter = NoCounter,
         NEW name, name # "none", NEW kind \in {"blocking", "out"},
         Block(name, kind)
  PROVE  IInv'
<1> DEFINE n     == Cardinality(servers)
           order == SetToSeq(servers)
           x(t)  == Spawned(kind, "pop_container", order[t])
<1>1. /\ call' = name /\ served' = {}
      /\ task' = [t \in Tasks |-> IF t <= Len(order) THEN x(t) ELSE Idle]
      /\ servers' = servers /\ servers_in_use' = servers_in_use
      /\ counter' = counter
      /\ receive_queue' = receive_queue /\ receive_buffers' = receive_buffers
      /\ out_buffers' = out_buffers /\ published' = published
      /\ socket' = socket /\ arrived' = arrived /\ ready' = ready
      /\ created' = created /\ cut' = cut
  BY DEF Block, pool, queues, network
<1>2. NoTasks /\ servers_in_use = << >>
  BY QuietTasks DEF IInv, Phases
<1>3. servers \in SUBSET Servers
  BY DEF IInv, Typed
<1>4. /\ n \in Nat /\ n <= max_servers
      /\ order \in [1 .. n -> servers] /\ IsInjective(order)
  <2>1. /\ n \in Nat /\ n <= max_servers
        /\ \E f \in [1 .. n -> servers] : IsInjective(f)
    BY <1>3, InOrder
  <2>2. order \in [1 .. n -> servers] /\ IsInjective(order)
    BY <2>1, Zenon DEF SetToSeq
  <2> QED
    BY <2>1, <2>2
<1>5. /\ order \in Seq(Servers) /\ Len(order) = n /\ DOMAIN order = 1 .. n
      /\ \A s \in servers : \E j \in 1 .. n : order[j] = s
  BY <1>3, <1>4, InOrder
<1> HIDE DEF n, order, x
<1>6. \A t \in Tasks : t \in Nat /\ (t <= n => t \in 1 .. n)
  BY <1>4, PoolAssumption DEF Tasks
<1>7. /\ \A t \in 1 .. n : /\ x(t) \in TaskType /\ x(t).kind = kind
                           /\ x(t).pc = "pop_container"
                           /\ x(t).server = order[t] /\ x(t).passes = 0
      /\ Idle \in TaskType /\ Idle.kind = "none" /\ Idle.pc = "idle"
      /\ Idle.server = NoServer /\ Idle.passes = 0
  <2>1. << >> \in Seq(Messages) /\ 0 \in 0 .. PASSES /\ 0 \in Nat
    BY PoolAssumption
  <2>2. \A t \in 1 .. n : order[t] \in Servers
    BY <1>3, <1>4
  <2> QED
    BY <2>1, <2>2 DEF x, Spawned, Idle, TaskType, TaskKinds, Steps, HasServer
<1>8. \A t \in Tasks : task'[t] = IF t <= n THEN x(t) ELSE Idle
  BY <1>1, <1>5
<1>9. task' \in [Tasks -> TaskType]
  <2>1. \A t \in Tasks : (IF t <= n THEN x(t) ELSE Idle) \in TaskType
    BY <1>6, <1>7
  <2> QED
    BY <1>1, <1>5, <2>1
<1>10. \A t \in Tasks :
         /\ task'[t].server = (IF t <= n THEN order[t] ELSE NoServer)
         /\ task'[t].kind = (IF t <= n THEN kind ELSE "none")
         /\ task'[t].pc = (IF t <= n THEN "pop_container" ELSE "idle")
         /\ task'[t].passes = 0
  BY <1>6, <1>7, <1>8
<1>11. \A t \in 1 .. n : t \in Tasks /\ t <= n /\ order[t] \in servers
                         /\ order[t] # NoServer
  <2>1. \A t \in 1 .. n : t \in Tasks /\ t <= n
    BY <1>4, PoolAssumption DEF Tasks
  <2>2. \A t \in 1 .. n : order[t] \in servers
    BY <1>4
  <2> QED
    BY <1>3, <2>1, <2>2, PoolAssumption
<1>12. Typed'
  BY <1>1, <1>9 DEF IInv, Typed
<1>13. Shape'
  <2>1. \A t \in Tasks : ShapeOf(t, task'[t])
    <3> TAKE t \in Tasks
    <3>1. max_servers \in Nat /\ (t > max_servers => ~ (t <= n))
      BY <1>4, <1>6, PoolAssumption
    <3>2. t <= n => order[t] # NoServer
      BY <1>6, <1>11
    <3> QED
      BY <1>10, <3>1, <3>2 DEF ShapeOf, HasServer
  <2> QED
    BY <2>1 DEF Shape
<1>14. Phases'
  BY <1>1, <1>2, <1>10 DEF Phases
<1>15. Owners'
  <2>1. \A s \in WithTasks' : s \in servers
    BY <1>6, <1>10, <1>11 DEF WithTasks
  <2>2. Existing = servers
    <3>1. ToSet(servers_in_use) = {}
      BY <1>2 DEF ToSet
    <3> QED
      BY <1>2, <3>1 DEF Existing, NoTasks
  <2>3. ToSet(servers_in_use') = {}
    BY <1>1, <1>2 DEF ToSet
  <2>4. Existing' = created'
    BY <1>1, <2>1, <2>2, <2>3 DEF Existing, IInv, Owners
  <2>5. ASSUME NEW a \in Tasks, NEW b \in Tasks,
               task'[a].server = task'[b].server, task'[a].server # NoServer
        PROVE  a = b
    <3>1. a \in 1 .. n /\ b \in 1 .. n
      BY <1>6, <1>10, <2>5
    <3>2. order[a] = order[b]
      BY <1>10, <1>11, <2>5, <3>1
    <3> QED
      BY <1>4, <1>5, <3>1, <3>2 DEF IsInjective
  <2>6. \A t \in Tasks : task'[t].kind # "receive"
    BY <1>10
  <2>7. \A t \in Tasks :
          task'[t].kind \in {"blocking", "out"} => task'[t].server \in servers
    BY <1>6, <1>10, <1>11
  <2>8. IsInjective(servers_in_use') /\ DOMAIN servers_in_use' = {}
    BY <1>1, <1>2 DEF IsInjective
  <2> QED
    BY <1>1, <2>4, <2>5, <2>6, <2>7, <2>8 DEF Owners
<1>16. Loans'
  <2>1. QueueLoans' = {} /\ OutLoans' = {} /\ BufferLoans' = {}
    BY <1>10 DEF QueueLoans, OutLoans, BufferLoans, HasContainer, HasBuffer
  <2>2. QueueLoans' = QueueLoans /\ OutLoans' = OutLoans /\ BufferLoans' = BufferLoans
    BY <1>2, <2>1 DEF NoTasks
  <2> QED
    BY <1>1, <2>2 DEF IInv, Loans
<1>17. CountdownExact'
  BY <1>1 DEF CountdownExact
<1>18. Turns'
  <2>1. \A t \in Tasks : task'[t].pc \notin HasServer \ Unserved
    BY <1>10 DEF HasServer, Unserved
  <2>2. ASSUME NEW s \in servers
        PROVE  \E t \in Tasks : task'[t].server = s /\ task'[t].pc \in Unserved
    <3>1. PICK j \in 1 .. n : order[j] = s
      BY <1>5
    <3>2. j \in Tasks /\ task'[j].server = s /\ task'[j].pc \in Unserved
      BY <1>10, <1>11, <3>1 DEF Unserved
    <3> QED
      BY <3>2
  <2> QED
    BY <1>1, <2>1, <2>2 DEF Turns
<1> QED
  BY <1>12, <1>13, <1>14, <1>15, <1>16, <1>17, <1>18 DEF IInv

LEMMA ReturnBlockingKeeps ==
  ASSUME IInv, ReturnBlocking
  PROVE  IInv'
<1>1. /\ call # "none" /\ call' = "none" /\ NoneRunning
      /\ servers' = servers /\ servers_in_use' = servers_in_use
      /\ receive_buffers' = receive_buffers /\ out_buffers' = out_buffers
      /\ counter' = counter /\ task' = task /\ socket' = socket
      /\ arrived' = arrived /\ ready' = ready /\ created' = created
      /\ cut' = cut /\ served' = served
      /\ \/ move_received_to_published
         \/ published' = published /\ receive_queue' = receive_queue
  BY DEF ReturnBlocking, Calling, network, history
<1>2. /\ published' \in Seq(Messages) /\ receive_queue' \in Seq(Seq(Messages))
      /\ Len(receive_queue') = Len(receive_queue)
  <2>1. CASE move_received_to_published
    BY <2>1, Published DEF IInv
  <2>2. CASE published' = published /\ receive_queue' = receive_queue
    BY <2>2 DEF IInv, Typed
  <2> QED
    BY <1>1, <2>1, <2>2
<1>3. \A t \in Tasks : task[t].kind = "none" /\ task[t].pc = "idle"
  BY <1>1 DEF NoneRunning, Idle
<1>4. counter = NoCounter
  BY <1>1 DEF IInv, Phases
<1>5. Typed'
  BY <1>1, <1>2 DEF IInv, Typed
<1>6. Shape' /\ Phases'
  BY <1>1, <1>3, <1>4 DEF IInv, Shape, Phases
<1>7. Owners'
  <2>1. WithTasks' = WithTasks
    BY <1>1 DEF WithTasks
  <2>2. Existing' = Existing
    BY <1>1, <2>1 DEF Existing
  <2> QED
    BY <1>1, <2>2 DEF IInv, Owners
<1>8. Loans'
  <2>1. QueueLoans' = QueueLoans /\ OutLoans' = OutLoans /\ BufferLoans' = BufferLoans
    BY <1>1 DEF QueueLoans, OutLoans, BufferLoans
  <2> QED
    BY <1>1, <1>2, <2>1 DEF IInv, Loans
<1>9. CountdownExact'
  BY <1>1, <1>4 DEF CountdownExact
<1>10. Turns'
  BY <1>1, <1>3, <1>4 DEF Turns, HasServer
<1> QED
  BY <1>5, <1>6, <1>7, <1>8, <1>9, <1>10 DEF IInv

-----------------------------------------------------------------------------
(***************************************************************************)
(* The invariant holds at the start and every step keeps it.               *)
(***************************************************************************)
LEMMA InitHolds ==
  ASSUME Init
  PROVE  IInv
<1>1. max_servers \in Nat /\ 0 \in Nat
  BY PoolAssumption
<1>2. /\ Idle \in TaskType /\ Idle.kind = "none" /\ Idle.pc = "idle"
      /\ Idle.server = NoServer /\ Idle.passes = 0
  <2>1. << >> \in Seq(Messages) /\ 0 \in 0 .. PASSES
    BY PoolAssumption
  <2> QED
    BY <2>1 DEF Idle, TaskType, TaskKinds, Steps
<1>3. task \in [Tasks -> TaskType] /\ \A t \in Tasks : task[t] = Idle
  BY <1>2 DEF Init
<1>4. receive_queue \in Seq(Seq(Messages)) /\ Len(receive_queue) = max_servers
  <2> DEFINE M == Seq(Messages)
  <2>1. << >> \in M
    OBVIOUS
  <2> HIDE DEF M
  <2>2. receive_queue \in Seq(M) /\ Len(receive_queue) = max_servers
    BY <1>1, <2>1 DEF Init
  <2> QED
    BY <2>2 DEF M
<1>5. out_buffers \in Seq(OutBuffers) /\ Len(out_buffers) = max_servers
  <2> DEFINE b == OutBuffer(<< >>, 0)
  <2>1. << >> \in Seq(Messages)
    OBVIOUS
  <2>2. b \in OutBuffers
    BY <2>1 DEF OutBuffer, OutBuffers
  <2>3. out_buffers = [i \in 1 .. max_servers |-> b]
    BY DEF Init
  <2> HIDE DEF b
  <2> QED
    BY <1>1, <2>2, <2>3
<1>6. /\ socket \in [Servers -> Seq(Packet)]
      /\ ready \in [Servers -> Seq(Nat \ {0})] /\ arrived \in [Servers -> Nat]
  <2>1. << >> \in Seq(Packet) /\ << >> \in Seq(Nat \ {0})
    OBVIOUS
  <2> QED
    BY <1>1, <2>1 DEF Init
<1>7. /\ servers = {} /\ created = {} /\ servers_in_use = << >> /\ cut = {}
      /\ receive_buffers = max_servers /\ published = << >> /\ call = "none"
      /\ counter = NoCounter
  BY DEF Init
<1>8. Typed
  <2>1. << >> \in Seq(Servers) /\ << >> \in Seq(Messages)
    OBVIOUS
  <2> QED
    BY <1>1, <1>3, <1>4, <1>5, <1>6, <1>7, <2>1 DEF Typed
<1>9. Shape
  BY <1>2, <1>3 DEF Shape, ShapeOf, HasServer
<1>10. Phases
  BY <1>2, <1>3, <1>7 DEF Phases
<1>11. NoTasks
  BY <1>2, <1>3, <1>9, NoTasksWhenIdle
<1>12. Owners
  <2>1. ToSet(servers_in_use) = {} /\ IsInjective(servers_in_use)
        /\ DOMAIN servers_in_use = {}
    BY <1>7 DEF ToSet, IsInjective
  <2>2. Existing = created
    BY <1>7, <1>11, <2>1 DEF Existing, NoTasks
  <2> QED
    BY <1>11, <2>1, <2>2 DEF Owners, NoTasks
<1>13. Loans
  <2>1. Cardinality({}) = 0
    BY FS_EmptySet
  <2> QED
    BY <1>1, <1>4, <1>5, <1>7, <1>11, <2>1 DEF Loans, NoTasks
<1>14. CountdownExact
  BY <1>7 DEF CountdownExact
<1>15. Turns
  BY <1>7, <1>11 DEF Turns, NoTasks, HasServer
<1> QED
  BY <1>8, <1>9, <1>10, <1>12, <1>13, <1>14, <1>15 DEF IInv

LEMMA StepKeeps ==
  ASSUME ServersFit, IInv, [Next]_vars
  PROVE  IInv'
<1>1. ASSUME NEW t \in Tasks, TaskStep(t) PROVE IInv'
  BY <1>1, PopServerKeeps, PopContainerKeeps, PopBufferKeeps, ReceiveOneKeeps,
     PushBufferKeeps, PushContainerKeeps, PushServerKeeps, DecrementKeeps
     DEF TaskStep
<1>2. ASSUME NEW s \in Servers, create_server(s) PROVE IInv'
  BY <1>2, CreateServerKeeps
<1>3. ASSUME NEW s \in Servers, NEW kind \in Kinds, NEW count \in 0 .. MaxPackets,
             Arrive(s, kind, count)
      PROVE  IInv'
  <2>1. count \in Nat
    BY PoolAssumption
  <2> QED
    BY <1>3, <2>1, ArriveKeeps
<1>4. CASE receive
  BY <1>4, ReceiveKeeps
<1>5. CASE finish_receive
  BY <1>5, FinishReceiveKeeps
<1>6. CASE receive_blocking
  <2>1. /\ call = "none" /\ counter = NoCounter
        /\ Block("receive_blocking", "blocking")
    BY <1>6 DEF receive_blocking, BetweenRounds, Calling
  <2> QED
    BY <2>1, BlockKeeps
<1>7. CASE receive_blocking_out_buffer
  <2>1. /\ call = "none" /\ counter = NoCounter
        /\ Block("receive_blocking_out_buffer", "out")
    BY <1>7 DEF receive_blocking_out_buffer, BetweenRounds, Calling
  <2> QED
    BY <2>1, BlockKeeps
<1>8. CASE ReturnBlocking
  BY <1>8, ReturnBlockingKeeps
<1>9. CASE take_published
  BY <1>9, TakePublishedKeeps
<1>10. CASE get_next_out_buffer
  BY <1>10, NextOutBufferKeeps
<1>11. CASE UNCHANGED vars
  BY <1>11, StutterKeeps
<1> QED
  BY <1>1, <1>2, <1>3, <1>4, <1>5, <1>6, <1>7, <1>8, <1>9, <1>10, <1>11 DEF Next

LEMMA Inductive ==
  ASSUME ServersFit
  PROVE  Spec => []IInv
<1>1. Init => IInv
  BY InitHolds
<1>2. IInv /\ [Next]_vars => IInv'
  BY StepKeeps
<1> QED
  BY <1>1, <1>2, PTL DEF Spec

(***************************************************************************)
(* Whatever the servers, the tasks and their interleaving: the queues hold *)
(* servers and messages, no more buffers are returned than were taken, and *)
(* the countdown is a number while a round lasts.                          *)
(***************************************************************************)
THEOREM PoolTypeOK ==
  ASSUME ServersFit
  PROVE  Spec => []TypeOK
<1>1. ASSUME IInv PROVE TypeOK
  <2>1. receive_buffers \in 0 .. max_servers
    <3>1. Cardinality(BufferLoans) \in Nat
      <4>1. max_servers + 1 \in Int /\ 1 \in Int
        BY PoolAssumption
      <4>2. IsFiniteSet(Tasks)
        BY <4>1, FS_Interval DEF Tasks
      <4>3. IsFiniteSet(BufferLoans)
        BY <4>2, FS_Subset DEF BufferLoans
      <4> QED
        BY <4>3, FS_CardinalityType
    <3>2. /\ receive_buffers + Cardinality(BufferLoans) = max_servers
          /\ receive_buffers \in Nat /\ max_servers \in Nat
      BY <1>1, PoolAssumption DEF IInv, Loans, Typed
    <3> QED
      BY <3>1, <3>2
  <2>2. counter \in Nat \cup {NoCounter}
    <3>1. max_servers + 1 \in Int /\ 1 \in Int
      BY PoolAssumption
    <3>2. IsFiniteSet(Tasks)
      BY <3>1, FS_Interval DEF Tasks
    <3>3. Cardinality(Receiving) \in Nat
      BY <3>2, FS_Subset, FS_CardinalityType DEF Receiving
    <3> QED
      BY <1>1, <3>3 DEF IInv, CountdownExact, Receiving
  <2>3. \A i \in DOMAIN out_buffers : /\ out_buffers[i].data \in Seq(Messages)
                                      /\ out_buffers[i].bytes_written \in Nat
    <3>1. out_buffers \in Seq(OutBuffers)
      BY <1>1 DEF IInv, Typed
    <3>2. \A i \in DOMAIN out_buffers : out_buffers[i] \in OutBuffers
      BY <3>1
    <3> QED
      BY <3>2 DEF OutBuffers
  <2>4. \A t \in Tasks : /\ task[t].server \in Servers \cup {NoServer}
                         /\ task[t].held \in Seq(Messages)
                         /\ task[t].passes \in 0 .. PASSES
    BY <1>1 DEF IInv, Typed, TaskType
  <2> QED
    BY <1>1, <2>1, <2>2, <2>3, <2>4 DEF TypeOK, IInv, Typed
<1> QED
  BY <1>1, Inductive, PTL

(***************************************************************************)
(* No server is lost or in two hands, in any interleaving of any number of *)
(* tasks with the application that adds servers meanwhile.                 *)
(***************************************************************************)
THEOREM NoServerLost ==
  ASSUME ServersFit
  PROVE  Spec => []ServersKept
<1>1. ASSUME IInv PROVE ServersKept
  <2>1. ASSUME call = "none"
        PROVE  /\ IsInjective(servers_in_use)
               /\ ToSet(servers_in_use) \cap (servers \cup WithTasks) = {}
               /\ servers \cap WithTasks = {}
    <3>1. \A x : x \in ToSet(servers_in_use) <=>
                   \E i \in DOMAIN servers_in_use : x = servers_in_use[i]
      BY DEF ToSet
    <3>2. \A x : x \in WithTasks <=>
                   x # NoServer /\ \E t \in Tasks : x = task[t].server
      BY DEF WithTasks
    <3>3. \A t \in Tasks : task[t].server # NoServer => task[t].server \notin servers
      <4> SUFFICES ASSUME NEW t \in Tasks, task[t].server # NoServer
                   PROVE  task[t].server \notin servers
        OBVIOUS
      <4>1. task[t].kind \in TaskKinds /\ ShapeOf(t, task[t])
        BY <1>1 DEF IInv, Typed, TaskType, Shape
      <4>2. task[t].kind # "none"
        BY <4>1 DEF ShapeOf, HasServer
      <4>3. task[t].kind = "receive"
        BY <1>1, <2>1, <4>1, <4>2 DEF TaskKinds, IInv, Phases
      <4> QED
        BY <1>1, <4>3 DEF IInv, Owners
    <3>4. /\ IsInjective(servers_in_use)
          /\ \A i \in DOMAIN servers_in_use : servers_in_use[i] \notin servers
          /\ \A t \in Tasks, i \in DOMAIN servers_in_use :
               task[t].server # servers_in_use[i]
      BY <1>1 DEF IInv, Owners
    <3> QED
      BY <3>1, <3>2, <3>3, <3>4
  <2>2. ASSUME call = "none", counter = NoCounter
        PROVE  servers_in_use = << >> /\ WithTasks = {}
    BY <1>1, <2>2, QuietTasks DEF IInv, Phases, NoTasks
  <2> QED
    BY <1>1, <2>1, <2>2
      DEF ServersKept, Calling, BetweenRounds, IInv, Owners
<1> QED
  BY <1>1, Inductive, PTL

(***************************************************************************)
(* Every queue, buffer and out buffer is there again when no task runs.    *)
(***************************************************************************)
THEOREM NothingKept ==
  ASSUME ServersFit
  PROVE  Spec => []ArraysReturned
<1>1. ASSUME IInv, NoneRunning
      PROVE  /\ Len(receive_queue) = max_servers /\ receive_buffers = max_servers
             /\ Len(out_buffers) = max_servers
  <2>1. NoTasks
    BY <1>1, NoTasksWhenIdle DEF NoneRunning, Idle, IInv
  <2>2. Cardinality({}) = 0
    BY FS_EmptySet
  <2>3. /\ Len(receive_queue) \in Nat /\ Len(out_buffers) \in Nat
        /\ receive_buffers \in Nat
    BY <1>1 DEF IInv, Typed
  <2>4. /\ Len(receive_queue) + 0 = max_servers
        /\ Len(out_buffers) + 0 = max_servers
        /\ receive_buffers + 0 = max_servers
    BY <1>1, <2>1, <2>2 DEF IInv, Loans, NoTasks
  <2> QED
    BY <2>3, <2>4
<1>2. IInv => ArraysReturned
  BY <1>1 DEF ArraysReturned
<1> QED
  BY <1>2, Inductive, PTL

(***************************************************************************)
(* The countdown is the number of tasks that are still to come, so it ends *)
(* with the last of them and never goes below 0.                           *)
(***************************************************************************)
THEOREM CountdownIsExact ==
  ASSUME ServersFit
  PROVE  Spec => []CountdownExact
<1>1. IInv => CountdownExact
  BY DEF IInv
<1> QED
  BY <1>1, Inductive, PTL

(***************************************************************************)
(* Every round serves every server: when the countdown has ended all the   *)
(* servers in the queue have been received in this round, and when a       *)
(* blocking call ends all those of the pool.                               *)
(***************************************************************************)
THEOREM AllAreServed ==
  ASSUME ServersFit
  PROVE  Spec => []EveryServerServed
<1>1. ASSUME IInv, counter = 0 PROVE ToSet(servers_in_use) \subseteq served
  <2>1. counter # NoCounter /\ call = "none"
    BY <1>1, PoolAssumption DEF IInv, Phases
  <2>2. ToCome = {} /\ Cardinality({}) = 0
    BY <1>1, <2>1, QuietTasks, FS_EmptySet DEF NoTasks
  <2>3. \A i \in DOMAIN servers_in_use : i > 0 => servers_in_use[i] \in served
    BY <1>1, <2>1, <2>2 DEF IInv, Turns
  <2>4. \A i \in DOMAIN servers_in_use : i > 0
    BY <1>1 DEF IInv, Typed
  <2> QED
    BY <2>3, <2>4 DEF ToSet
<1>2. ASSUME IInv, call # "none", NoneRunning PROVE servers \subseteq served
  BY <1>2 DEF IInv, Turns, NoneRunning, Idle, Unserved
<1>3. IInv => EveryServerServed
  BY <1>1, <1>2 DEF EveryServerServed, Calling
<1> QED
  BY <1>3, Inductive, PTL

-----------------------------------------------------------------------------
(***************************************************************************)
(* The messages.  The messages of a server come in five stages: in its     *)
(* socket, ready, with a task or on a shelf (a queue, or an out buffer     *)
(* that waits), published, given.  Messages of a later stage are earlier   *)
(* ones, so the numbers at which the stages meet say where each is.        *)
(***************************************************************************)

\* The containers that no task has, and those the tasks have
Shelves ==
  IF api = "out" THEN [i \in DOMAIN out_buffers |-> out_buffers[i].data]
                 ELSE receive_queue

Held == [t \in Tasks |-> task[t].held]

\* Sequences of messages: of which servers, between which numbers, in which order
Has(x, s) == \E i \in DOMAIN x : x[i].server = s

HasMessage(x, s, n) == \E i \in DOMAIN x : x[i].server = s /\ x[i].n = n

Between(x, s, low, high) ==
  \A i \in DOMAIN x : x[i].server = s => low < x[i].n /\ x[i].n <= high

Upwards(x) ==
  \A i, j \in DOMAIN x : i < j /\ x[i].server = x[j].server => x[i].n < x[j].n

AllUpwards(Q, H) ==
  (\A i \in DOMAIN Q : Upwards(Q[i])) /\ (\A t \in Tasks : Upwards(H[t]))

\* Shelves Q and containers H in the hands of tasks have (low, high] of server s
Stored(Q, H, s, low, high) ==
  /\ \A i \in DOMAIN Q : Between(Q[i], s, low, high)
  /\ \A t \in Tasks : Between(H[t], s, low, high)
  /\ \A n \in low + 1 .. high : \/ \E i \in DOMAIN Q : HasMessage(Q[i], s, n)
                                \/ \E t \in Tasks : HasMessage(H[t], s, n)

\* The messages of a server are all in one container.
Apart(Q, H) ==
  /\ \A i, j \in DOMAIN Q, s \in Servers : Has(Q[i], s) /\ Has(Q[j], s) => i = j
  /\ \A t, u \in Tasks, s \in Servers : Has(H[t], s) /\ Has(H[u], s) => t = u
  /\ \A i \in DOMAIN Q, t \in Tasks, s \in Servers : ~ (Has(Q[i], s) /\ Has(H[t], s))

\* The packets of a socket publish messages low + 1 to high, one after the other.
Unread(q, low, high) ==
  /\ q = << >> => low = high
  /\ q # << >> => q[1].low = low /\ q[Len(q)].high = high
  /\ \A i \in DOMAIN q : low <= q[i].low /\ q[i].low <= q[i].high /\ q[i].high <= high
  /\ \A i, j \in DOMAIN q : i < j => q[i].high <= q[j].low
  /\ \A i \in DOMAIN q : i # Len(q) => q[i].high = q[i + 1].low

\* x is the numbers from low + 1 to high.
Numbers(x, low, high) ==
  x \in Seq(Nat) /\ Len(x) = high - low /\ \A i \in DOMAIN x : x[i] = low + i

\* Messages of server s up to a were given, to b published, to c received, to d read
Staged(s, a, b, c, d) ==
  /\ a <= b /\ b <= c /\ c <= d /\ d <= arrived[s]
  /\ Between(given, s, 0, a)
  /\ \A n \in 1 .. a : HasMessage(given, s, n) \/ [server |-> s, n |-> n] \in cut
  /\ Between(published, s, a, b)
  /\ \A n \in a + 1 .. b : HasMessage(published, s, n)
  /\ Stored(Shelves, Held, s, b, c)
  /\ Numbers(ready[s], c, d)
  /\ Unread(socket[s], d, arrived[s])

Lined ==
  \A s \in Servers : \E a, b, c, d \in 0 .. arrived[s] : Staged(s, a, b, c, d)

Sorted ==
  /\ given \in Seq(Messages) /\ Upwards(given) /\ Upwards(published)
  /\ AllUpwards(Shelves, Held)

\* The application receives in one of two ways; the containers of the other
\* are empty.
OneWay ==
  /\ api \in {"queue", "out"}
  /\ call \in {"none", "receive_blocking", "receive_blocking_out_buffer"}
  /\ api = "out" => /\ counter = NoCounter /\ published = << >>
                    /\ call # "receive_blocking"
                    /\ \A i \in DOMAIN receive_queue : receive_queue[i] = << >>
                    /\ \A t \in Tasks : task[t].kind \in {"none", "out"}
  /\ api = "queue" => /\ call # "receive_blocking_out_buffer"
                      /\ \A i \in DOMAIN out_buffers : out_buffers[i].data = << >>
                      /\ \A t \in Tasks : task[t].kind # "out"

\* What bytes_written tells: all of the data, or nothing of messages in cut
Told(data, written) ==
  \/ written = Len(data)
  \/ written = 0 /\ \A i \in DOMAIN data : data[i] \in cut

\* A task has a container in part of its steps, and counts what is in it last.
WrittenOf(x) ==
  /\ x.pc \notin HasContainer => x.held = << >>
  /\ x.kind = "out" /\ x.pc = "pop_buffer" => x.held = << >>
  /\ x.pc \notin {"push_buffer", "push_container"} => x.written = 0
  /\ x.kind = "out" /\ x.pc \in {"push_buffer", "push_container"} =>
       Told(x.held, x.written)

Written ==
  /\ \A i \in DOMAIN out_buffers : Told(out_buffers[i].data, out_buffers[i].bytes_written)
  /\ \A t \in Tasks : WrittenOf(task[t])

\* Tasks that have yet to take an out buffer and reset it
Resets == {t \in Tasks : task[t].kind = "out" /\ task[t].pc = "pop_container"}

\* No container has messages of server s, other than that of task t
Lone(Q, H, t, s) ==
  /\ \A i \in DOMAIN Q : ~ Has(Q[i], s)
  /\ \A u \in Tasks : u # t => ~ Has(H[u], s)

\* A server is received once in a round, and an out buffer is empty when it is
\* taken.
Fresh ==
  /\ \A t \in Tasks :
       task[t].pc \in Unserved => Lone(Shelves, Held, t, task[t].server)
  /\ counter # NoCounter =>
       \A i \in DOMAIN servers_in_use :
         i <= Cardinality(ToCome) => Lone(Shelves, Held, 0, servers_in_use[i])
  /\ api = "queue" /\ call = "none" /\ counter = NoCounter =>
       \A i \in DOMAIN receive_queue : receive_queue[i] = << >>
  /\ Cardinality(Resets) <= Len(out_buffers)
  /\ \A i \in DOMAIN out_buffers :
       i <= Cardinality(Resets) => out_buffers[i].data = << >>

Placed == Apart(Shelves, Held) /\ Sorted /\ Lined

MInv == OneWay /\ Written /\ Fresh /\ Placed

-----------------------------------------------------------------------------
(***************************************************************************)
(* Sequences of messages.                                                  *)
(***************************************************************************)
LEMMA EmptyMessages ==
  /\ << >> \in Seq(Messages) /\ Upwards(<< >>)
  /\ \A s : ~ Has(<< >>, s)
  /\ \A s, n : ~ HasMessage(<< >>, s, n)
  /\ \A s, low, high : Between(<< >>, s, low, high)
BY DEF Upwards, Has, HasMessage, Between

LEMMA OneMessage ==
  ASSUME NEW m \in Messages
  PROVE  /\ <<m>> \in Seq(Messages) /\ Upwards(<<m>>)
         /\ \A s : Has(<<m>>, s) <=> m.server = s
         /\ \A s, n : HasMessage(<<m>>, s, n) <=> m.server = s /\ m.n = n
         /\ \A s, low, high : Between(<<m>>, s, low, high) <=>
                                (m.server = s => low < m.n /\ m.n <= high)
<1>1. /\ <<m>> \in Seq(Messages) /\ DOMAIN <<m>> = {1} /\ <<m>>[1] = m
  OBVIOUS
<1>2. Upwards(<<m>>)
  BY DEF Upwards
<1> DEFINE x == <<m>>
<1> HIDE DEF x
<1>3. DOMAIN x = {1} /\ x[1] = m
  BY <1>1 DEF x
<1>4. /\ \A s : Has(x, s) <=> m.server = s
      /\ \A s, n : HasMessage(x, s, n) <=> m.server = s /\ m.n = n
      /\ \A s, low, high : Between(x, s, low, high) <=>
                             (m.server = s => low < m.n /\ m.n <= high)
  BY <1>3 DEF Has, HasMessage, Between
<1> QED
  BY <1>1, <1>2, <1>4 DEF x

\* Two sequences one after the other.
LEMMA Joined ==
  ASSUME NEW x \in Seq(Messages), NEW y \in Seq(Messages)
  PROVE  /\ x \o y \in Seq(Messages)
         /\ \A s : Has(x \o y, s) <=> Has(x, s) \/ Has(y, s)
         /\ \A s, n : HasMessage(x \o y, s, n) <=>
                        HasMessage(x, s, n) \/ HasMessage(y, s, n)
         /\ \A s, low, high : Between(x \o y, s, low, high) <=>
                                Between(x, s, low, high) /\ Between(y, s, low, high)
         /\ Upwards(x \o y) <=>
              /\ Upwards(x) /\ Upwards(y)
              /\ \A i \in DOMAIN x, j \in DOMAIN y :
                   x[i].server = y[j].server => x[i].n < y[j].n
<1> DEFINE z == x \o y
           m == Len(x)
<1>1. /\ z \in Seq(Messages) /\ m \in Nat /\ Len(y) \in Nat
      /\ DOMAIN x = 1 .. m /\ DOMAIN y = 1 .. Len(y)
      /\ DOMAIN z = 1 .. m + Len(y)
      /\ \A i \in 1 .. m : z[i] = x[i]
      /\ \A j \in 1 .. Len(y) : z[m + j] = y[j]
  OBVIOUS
<1> HIDE DEF z, m
<1>2. \A k \in DOMAIN z : \/ k \in DOMAIN x /\ z[k] = x[k]
                          \/ k - m \in DOMAIN y /\ z[k] = y[k - m] /\ k > m
  <2> TAKE k \in DOMAIN z
  <2>1. CASE k <= m
    BY <1>1, <2>1
  <2>2. CASE k > m
    <3>1. k - m \in 1 .. Len(y) /\ m + (k - m) = k
      BY <1>1, <2>2
    <3> QED
      BY <1>1, <2>2, <3>1
  <2> QED
    BY <1>1, <2>1, <2>2
<1>3. \A i \in DOMAIN x : i \in DOMAIN z /\ z[i] = x[i]
  BY <1>1
<1>4. \A j \in DOMAIN y : m + j \in DOMAIN z /\ z[m + j] = y[j]
  BY <1>1
<1>5. /\ \A s : Has(z, s) <=> Has(x, s) \/ Has(y, s)
      /\ \A s, n : HasMessage(z, s, n) <=> HasMessage(x, s, n) \/ HasMessage(y, s, n)
      /\ \A s, low, high : Between(z, s, low, high) <=>
                             Between(x, s, low, high) /\ Between(y, s, low, high)
  <2>1. \A s : Has(z, s) <=> Has(x, s) \/ Has(y, s)
    BY <1>2, <1>3, <1>4 DEF Has
  <2>2. \A s, n : HasMessage(z, s, n) <=> HasMessage(x, s, n) \/ HasMessage(y, s, n)
    BY <1>2, <1>3, <1>4 DEF HasMessage
  <2>3. \A s, low, high : Between(z, s, low, high) <=>
                            Between(x, s, low, high) /\ Between(y, s, low, high)
    BY <1>2, <1>3, <1>4 DEF Between
  <2> QED
    BY <2>1, <2>2, <2>3
<1>6. Upwards(z) <=>
        /\ Upwards(x) /\ Upwards(y)
        /\ \A i \in DOMAIN x, j \in DOMAIN y :
             x[i].server = y[j].server => x[i].n < y[j].n
  <2>1. ASSUME Upwards(z)
        PROVE  /\ Upwards(x) /\ Upwards(y)
               /\ \A i \in DOMAIN x, j \in DOMAIN y :
                    x[i].server = y[j].server => x[i].n < y[j].n
    <3>1. Upwards(x)
      BY <1>3, <2>1 DEF Upwards
    <3>2. Upwards(y)
      <4>1. \A i, j \in DOMAIN y : i < j => m + i < m + j
        BY <1>1
      <4> QED
        BY <1>4, <2>1, <4>1 DEF Upwards
    <3>3. \A i \in DOMAIN x, j \in DOMAIN y : i < m + j
      BY <1>1
    <3> QED
      BY <1>3, <1>4, <2>1, <3>1, <3>2, <3>3 DEF Upwards
  <2>2. ASSUME Upwards(x), Upwards(y),
               \A i \in DOMAIN x, j \in DOMAIN y :
                 x[i].server = y[j].server => x[i].n < y[j].n
        PROVE  Upwards(z)
    <3> SUFFICES ASSUME NEW k \in DOMAIN z, NEW l \in DOMAIN z, k < l,
                        z[k].server = z[l].server
                 PROVE  z[k].n < z[l].n
      BY DEF Upwards
    <3>1. CASE l \in DOMAIN x /\ z[l] = x[l]
      <4>1. k \in DOMAIN x /\ z[k] = x[k]
        BY <1>1, <3>1
      <4> QED
        BY <2>2, <3>1, <4>1 DEF Upwards
    <3>2. CASE l - m \in DOMAIN y /\ z[l] = y[l - m]
      <4>1. CASE k \in DOMAIN x /\ z[k] = x[k]
        BY <2>2, <3>2, <4>1
      <4>2. CASE k - m \in DOMAIN y /\ z[k] = y[k - m]
        <5>1. k - m < l - m
          BY <1>1
        <5> QED
          BY <2>2, <3>2, <4>2, <5>1 DEF Upwards
      <4> QED
        BY <1>2, <4>1, <4>2
    <3> QED
      BY <1>2, <3>1, <3>2
  <2> QED
    BY <2>1, <2>2
<1> QED
  BY <1>1, <1>5, <1>6 DEF z

\* A queue is its first message and the rest.
LEMMA FirstAndRest ==
  ASSUME NEW S, NEW q \in Seq(S), q # << >>
  PROVE  /\ Head(q) \in S /\ Tail(q) \in Seq(S) /\ q = <<Head(q)>> \o Tail(q)
OBVIOUS

LEMMA AppendJoins ==
  ASSUME NEW S, NEW q \in Seq(S), NEW x \in S
  PROVE  Append(q, x) = q \o <<x>>
OBVIOUS

\* The first k of the sequences in q, put together as z
Together(q, k, z) ==
  /\ z \in Seq(Messages) /\ Upwards(z)
  /\ \A s : Has(z, s) <=> \E i \in 1 .. k : Has(q[i], s)
  /\ \A s, n : HasMessage(z, s, n) <=> \E i \in 1 .. k : HasMessage(q[i], s, n)
  /\ \A s, low, high : Between(z, s, low, high) <=>
                         \A i \in 1 .. k : Between(q[i], s, low, high)

LEMMA OneMore ==
  ASSUME NEW q \in Seq(Seq(Messages)), NEW k \in Nat, k + 1 \in DOMAIN q,
         \A i \in DOMAIN q : Upwards(q[i]),
         \A i, j \in DOMAIN q, s \in Servers : Has(q[i], s) /\ Has(q[j], s) => i = j,
         NEW z, Together(q, k, z)
  PROVE  Together(q, k + 1, z \o q[k + 1])
<1> DEFINE y == q[k + 1]
           w == z \o y
<1>1. y \in Seq(Messages) /\ z \in Seq(Messages) /\ Upwards(y) /\ Upwards(z)
  BY DEF Together
<1>2. \A i : i \in 1 .. k + 1 <=> i \in 1 .. k \/ i = k + 1
  OBVIOUS
<1>3. /\ \A s : Has(z, s) <=> \E i \in 1 .. k : Has(q[i], s)
      /\ \A s, n : HasMessage(z, s, n) <=> \E i \in 1 .. k : HasMessage(q[i], s, n)
      /\ \A s, low, high : Between(z, s, low, high) <=>
                             \A i \in 1 .. k : Between(q[i], s, low, high)
  BY DEF Together
<1>4. \A s \in Servers : ~ (Has(z, s) /\ Has(y, s))
  <2> SUFFICES ASSUME NEW s \in Servers, Has(z, s), Has(y, s) PROVE FALSE
    OBVIOUS
  <2>1. PICK i \in 1 .. k : Has(q[i], s)
    BY <1>3
  <2>2. i \in DOMAIN q /\ i # k + 1
    OBVIOUS
  <2> QED
    BY <2>1, <2>2
<1> HIDE DEF y
<1>5. \A i \in DOMAIN z, j \in DOMAIN y :
        z[i].server = y[j].server => z[i].n < y[j].n
  <2> SUFFICES ASSUME NEW i \in DOMAIN z, NEW j \in DOMAIN y,
                      z[i].server = y[j].server
               PROVE  FALSE
    OBVIOUS
  <2>1. z[i] \in Messages
    BY <1>1
  <2>2. z[i].server \in Servers
    BY <2>1 DEF Messages
  <2>3. Has(z, z[i].server) /\ Has(y, z[i].server)
    BY DEF Has
  <2> QED
    BY <1>4, <2>2, <2>3
<1>6. /\ w \in Seq(Messages)
      /\ \A s : Has(w, s) <=> Has(z, s) \/ Has(y, s)
      /\ \A s, n : HasMessage(w, s, n) <=> HasMessage(z, s, n) \/ HasMessage(y, s, n)
      /\ \A s, low, high : Between(w, s, low, high) <=>
                             Between(z, s, low, high) /\ Between(y, s, low, high)
      /\ Upwards(w)
  BY <1>1, <1>5, Joined
<1> HIDE DEF w
<1>7. \A s : Has(w, s) <=> \E i \in 1 .. k + 1 : Has(q[i], s)
  BY <1>2, <1>3, <1>6 DEF y
<1>8. \A s, n : HasMessage(w, s, n) <=> \E i \in 1 .. k + 1 : HasMessage(q[i], s, n)
  BY <1>2, <1>3, <1>6 DEF y
<1>9. \A s, low, high : Between(w, s, low, high) <=>
                          \A i \in 1 .. k + 1 : Between(q[i], s, low, high)
  BY <1>2, <1>3, <1>6 DEF y
<1>10. Together(q, k + 1, w)
  BY <1>6, <1>7, <1>8, <1>9 DEF Together
<1> QED
  BY <1>10 DEF w, y

\* Queues whose messages are of different servers, put together
LEMMA FlattenTogether ==
  ASSUME NEW q \in Seq(Seq(Messages)),
         \A i \in DOMAIN q : Upwards(q[i]),
         \A i, j \in DOMAIN q, s \in Servers : Has(q[i], s) /\ Has(q[j], s) => i = j
  PROVE  Together(q, Len(q), FlattenSeq(q))
<1>1. Len(q) \in Nat /\ DOMAIN q = 1 .. Len(q)
  OBVIOUS
<1>2. Together(q, 0, << >>)
  <2>1. 1 .. 0 = {}
    OBVIOUS
  <2> QED
    BY <2>1, EmptyMessages DEF Together
<1>3. CASE Len(q) = 0
  <2>1. q = << >> /\ FlattenSeq(q) = << >>
    BY <1>3 DEF FlattenSeq
  <2> QED
    BY <1>2, <1>3, <2>1
<1>4. CASE Len(q) # 0
  <2> DEFINE f == CHOOSE g : IsFlat(q, Len(q), g)
  <2>1. IsFlat(q, Len(q), f)
    BY <1>1, FlatExists
  <2>2. FlattenSeq(q) = f[Len(q)]
    BY <1>4, Zenon DEF FlattenSeq, IsFlat
  <2> HIDE DEF f
  <2>3. \A i \in 1 .. Len(q) :
          f[i] = IF i = 1 THEN q[i] ELSE f[i - 1] \o q[i]
    BY <2>1 DEF IsFlat
  <2> DEFINE Bad == {k \in Nat : k \in 1 .. Len(q) /\ ~ Together(q, k, f[k])}
  <2>4. Bad = {}
    <3> SUFFICES ASSUME Bad # {} PROVE FALSE
      OBVIOUS
    <3>1. Bad \in SUBSET Nat
      OBVIOUS
    <3> HIDE DEF Bad
    <3>2. PICK k \in Bad : \A j \in Bad : k <= j
      BY <3>1, LeastNat
    <3>3. k \in Nat /\ k \in 1 .. Len(q) /\ ~ Together(q, k, f[k])
      BY <3>2 DEF Bad
    <3>4. k \in DOMAIN q /\ q[k] \in Seq(Messages)
      BY <1>1, <3>3
    <3>5. CASE k = 1
      <4>1. f[1] = << >> \o q[1]
        BY <2>3, <3>3, <3>4, <3>5
      <4>2. 0 + 1 = 1 /\ 0 \in Nat
        OBVIOUS
      <4>3. Together(q, 0 + 1, << >> \o q[0 + 1])
        BY <1>2, <3>4, <3>5, <4>2, OneMore
      <4> QED
        BY <3>3, <3>5, <4>1, <4>2, <4>3
    <3>6. CASE k # 1
      <4> DEFINE l == k - 1
      <4>1. l \in Nat /\ l \in 1 .. Len(q) /\ ~ (k <= l) /\ l + 1 = k
        BY <1>1, <3>3, <3>6
      <4>2. f[k] = f[l] \o q[k]
        BY <2>3, <3>3, <3>6
      <4> HIDE DEF l
      <4>3. Together(q, l, f[l])
        BY <3>2, <4>1 DEF Bad
      <4>4. l + 1 \in DOMAIN q
        BY <3>4, <4>1
      <4>5. Together(q, l + 1, f[l] \o q[l + 1])
        BY <4>1, <4>3, <4>4, OneMore
      <4> QED
        BY <3>3, <4>1, <4>2, <4>5
    <3> QED
      BY <3>5, <3>6
  <2>5. Len(q) \in 1 .. Len(q)
    BY <1>1, <1>4
  <2>6. Together(q, Len(q), f[Len(q)])
    BY <1>1, <2>4, <2>5
  <2> QED
    BY <2>2, <2>6
<1> QED
  BY <1>3, <1>4

-----------------------------------------------------------------------------
(***************************************************************************)
(* What receive_loop takes from the socket and what it returns.            *)
(***************************************************************************)

\* A sequence without its first k.
LEMMA RestOf ==
  ASSUME NEW S, NEW q \in Seq(S), NEW k \in 0 .. Len(q)
  PROVE  /\ SubSeq(q, k + 1, Len(q)) \in Seq(S)
         /\ Len(SubSeq(q, k + 1, Len(q))) = Len(q) - k
         /\ \A i \in 1 .. Len(q) - k : SubSeq(q, k + 1, Len(q))[i] = q[k + i]
OBVIOUS

\* How far the first k packets go, and that the rest goes on from there.
LEMMA RestUnread ==
  ASSUME NEW q \in Seq(Packet), NEW n \in Nat, Len(q) = n,
         NEW low \in Nat, NEW high \in Nat, low <= high, Unread(q, low, high),
         NEW k \in Nat, k <= n, NEW e, k = 0 => e = low, k # 0 => e = q[k].high
  PROVE  /\ e \in Nat /\ low <= e /\ e <= high
         /\ Unread(SubSeq(q, k + 1, n), e, high)
<1> DEFINE r == SubSeq(q, k + 1, n)
<1>1. /\ n = 0 => low = high
      /\ n # 0 => q[1].low = low /\ q[n].high = high
      /\ \A i \in 1 .. n : low <= q[i].low /\ q[i].low <= q[i].high /\ q[i].high <= high
      /\ \A i, j \in 1 .. n : i < j => q[i].high <= q[j].low
      /\ \A i \in 1 .. n : i # n => q[i].high = q[i + 1].low
  <2>1. q = << >> <=> n = 0
    OBVIOUS
  <2>2. DOMAIN q = 1 .. n
    OBVIOUS
  <2> QED
    BY <2>1, <2>2 DEF Unread
<1>2. \A i \in 1 .. n : q[i].low \in Nat /\ q[i].high \in Nat
  <2>1. \A i \in 1 .. n : q[i] \in Packet
    OBVIOUS
  <2> QED
    BY <2>1 DEF Packet
<1>3. k # 0 => k \in 1 .. n
  OBVIOUS
<1>4. e \in Nat /\ low <= e /\ e <= high
  BY <1>1, <1>2, <1>3
<1>5. /\ r \in Seq(Packet) /\ Len(r) = n - k
      /\ \A i \in 1 .. n - k : r[i] = q[k + i]
  <2>1. k \in 0 .. Len(q)
    OBVIOUS
  <2> QED
    BY <2>1, RestOf
<1>6. DOMAIN r = 1 .. n - k /\ (r = << >> <=> Len(r) = 0)
  BY <1>5
<1> HIDE DEF r
<1>7. \A i \in 1 .. n - k : i \in Nat /\ k + i \in 1 .. n /\ k < k + i
  OBVIOUS
<1>8. r = << >> => e = high
  <2>1. r = << >> => k = n
    BY <1>5, <1>6
  <2> QED
    BY <1>1, <2>1
<1>9. ASSUME r # << >> PROVE r[1].low = e /\ r[Len(r)].high = high
  <2>1. n - k # 0
    BY <1>5, <1>6, <1>9
  <2>2. /\ k < n /\ 1 \in 1 .. n - k /\ n - k \in 1 .. n - k /\ k + (n - k) = n
        /\ n # 0 /\ k # n
    BY <2>1
  <2>3. r[1] = q[k + 1] /\ r[n - k] = q[n]
    BY <1>5, <2>2
  <2>4. q[k + 1].low = e
    <3>1. CASE k = 0
      BY <1>1, <2>2, <3>1
    <3>2. CASE k # 0
      BY <1>1, <1>3, <2>2, <3>2
    <3> QED
      BY <3>1, <3>2
  <2> QED
    BY <1>1, <1>5, <2>2, <2>3, <2>4
<1>10. ASSUME NEW i \in 1 .. n - k
       PROVE  e <= r[i].low /\ r[i].low <= r[i].high /\ r[i].high <= high
  <2>1. r[i] = q[k + i] /\ k + i \in 1 .. n /\ k < k + i
    BY <1>5, <1>7
  <2>2. e <= q[k + i].low
    <3>1. CASE k = 0
      BY <1>1, <2>1, <3>1
    <3>2. CASE k # 0
      BY <1>1, <1>3, <2>1, <3>2
    <3> QED
      BY <3>1, <3>2
  <2> QED
    BY <1>1, <2>1, <2>2
<1>11. ASSUME NEW i \in 1 .. n - k, NEW j \in 1 .. n - k, i < j
       PROVE  r[i].high <= r[j].low
  <2>1. k + i < k + j /\ k + i \in 1 .. n /\ k + j \in 1 .. n
    BY <1>7, <1>11
  <2> QED
    BY <1>1, <1>5, <2>1
<1>12. ASSUME NEW i \in 1 .. n - k, i # n - k PROVE r[i].high = r[i + 1].low
  <2>1. /\ k + i \in 1 .. n /\ k + i # n /\ i + 1 \in 1 .. n - k
        /\ k + (i + 1) = (k + i) + 1
    BY <1>12
  <2> QED
    BY <1>1, <1>5, <2>1
<1>13. Unread(r, e, high)
  BY <1>5, <1>6, <1>8, <1>9, <1>10, <1>11, <1>12 DEF Unread
<1> QED
  BY <1>4, <1>13 DEF r

LEMMA JoinOf ==
  ASSUME NEW S, NEW x \in Seq(S), NEW y \in Seq(S)
  PROVE  /\ x \o y \in Seq(S) /\ Len(x \o y) = Len(x) + Len(y)
         /\ \A i \in 1 .. Len(x) : (x \o y)[i] = x[i]
         /\ \A i \in 1 .. Len(y) : (x \o y)[Len(x) + i] = y[i]
OBVIOUS

\* Numbers that go on where others ended.
LEMMA GoOn ==
  ASSUME NEW c \in Nat, NEW d \in Nat, NEW e \in Nat, c <= d, d <= e,
         NEW x, NEW y, Numbers(x, c, d), Numbers(y, d, e)
  PROVE  Numbers(x \o y, c, e)
<1>1. x \in Seq(Nat) /\ y \in Seq(Nat)
  BY DEF Numbers
<1> DEFINE z == x \o y
<1>2. /\ z \in Seq(Nat) /\ Len(z) = Len(x) + Len(y)
      /\ \A i \in 1 .. Len(x) : z[i] = x[i]
      /\ \A i \in 1 .. Len(y) : z[Len(x) + i] = y[i]
  BY <1>1, JoinOf
<1> HIDE DEF z
<1>3. /\ Len(x) = d - c /\ \A i \in 1 .. d - c : x[i] = c + i
      /\ Len(y) = e - d /\ \A i \in 1 .. e - d : y[i] = d + i
  BY <1>1 DEF Numbers
<1>4. Len(z) = e - c /\ DOMAIN z = 1 .. e - c
  BY <1>2, <1>3
<1>5. ASSUME NEW i \in 1 .. e - c PROVE z[i] = c + i
  <2>1. CASE i <= d - c
    <3>1. i \in 1 .. d - c
      BY <2>1
    <3> QED
      BY <1>2, <1>3, <3>1
  <2>2. CASE ~ (i <= d - c)
    <3> DEFINE j == i - (d - c)
    <3>1. j \in 1 .. e - d /\ i = (d - c) + j /\ d + j = c + i
      BY <2>2
    <3> HIDE DEF j
    <3> QED
      BY <1>2, <1>3, <3>1
  <2> QED
    BY <2>1, <2>2
<1>6. Numbers(z, c, e)
  BY <1>2, <1>4, <1>5 DEF Numbers
<1> QED
  BY <1>6 DEF z

\* Without the first.
LEMMA NextNumber ==
  ASSUME NEW c \in Nat, NEW e \in Nat, c <= e, NEW x, Numbers(x, c, e), x # << >>
  PROVE  Head(x) = c + 1 /\ c + 1 <= e /\ Numbers(Tail(x), c + 1, e)
<1>1. /\ x \in Seq(Nat) /\ Len(x) = e - c /\ DOMAIN x = 1 .. e - c
      /\ \A i \in 1 .. e - c : x[i] = c + i
  BY DEF Numbers
<1>2. /\ Tail(x) \in Seq(Nat) /\ Len(x) \in Nat \ {0}
      /\ Len(Tail(x)) = Len(x) - 1
      /\ Head(x) = x[1]
      /\ \A i \in 1 .. Len(x) - 1 : Tail(x)[i] = x[i + 1]
  BY <1>1, TailOf
<1> DEFINE y == Tail(x)
<1> HIDE DEF y
<1>3. c + 1 <= e /\ 1 \in 1 .. e - c
  BY <1>1, <1>2
<1>4. y \in Seq(Nat) /\ Len(y) = e - (c + 1) /\ DOMAIN y = 1 .. e - (c + 1)
  BY <1>1, <1>2, <1>3 DEF y
<1>5. ASSUME NEW i \in 1 .. e - (c + 1) PROVE y[i] = (c + 1) + i
  <2>1. i + 1 \in 1 .. e - c /\ i \in 1 .. (e - c) - 1 /\ c + (i + 1) = (c + 1) + i
    OBVIOUS
  <2> QED
    BY <1>1, <1>2, <2>1 DEF y
<1>6. Numbers(y, c + 1, e)
  BY <1>4, <1>5 DEF Numbers
<1> QED
  BY <1>1, <1>2, <1>3, <1>6 DEF y

\* receive_loop: the next message, if it finds one, and all in order after it.
LEMMA LoopReads ==
  ASSUME Typed, NEW s \in Servers, NEW c \in Nat, NEW d \in Nat,
         c <= d, d <= arrived[s], Numbers(ready[s], c, d),
         Unread(socket[s], d, arrived[s])
  PROVE  LET r == receive_loop(s)
         IN  \E e \in Nat, f \in Nat :
               /\ f = (IF r.found THEN c + 1 ELSE c)
               /\ r.found => r.n = c + 1
               /\ f <= e /\ e <= arrived[s]
               /\ Numbers(r.ready, f, e)
               /\ Unread(r.socket, e, arrived[s])
<1> DEFINE q      == socket[s]
           m      == Min({LOOP, Len(q)})
           seen   == SubSeq(q, 1, m)
           some(i) == ready[s] # << >> \/ seen[i].high > seen[1].low
           stops  == {i \in DOMAIN seen : \/ seen[i].kind = "error"
                                          \/ seen[i].kind = "reliable" /\ some(i)}
           stop   == IF stops = {} THEN 0 ELSE Min(stops)
           taken  == IF stop = 0 THEN Len(seen) ELSE stop
           failed == stop # 0 /\ seen[stop].kind = "error"
           read   == IF taken = 0 THEN 0 ELSE seen[taken].high - seen[1].low
           nums   == [i \in 1 .. read |-> seen[1].low + i]
           queued == ready[s] \o nums
           found  == ~ failed /\ queued # << >>
           r      == receive_loop(s)
           e      == IF taken = 0 THEN d ELSE q[taken].high
<1>1. /\ q \in Seq(Packet) /\ ready[s] \in Seq(Nat \ {0}) /\ arrived[s] \in Nat
      /\ Len(q) \in Nat
  BY DEF Typed
<1>2. m \in 0 .. Len(q)
  <2>1. {LOOP, Len(q)} \in SUBSET Nat /\ {LOOP, Len(q)} # {}
    BY <1>1, PoolAssumption
  <2>2. m \in {LOOP, Len(q)} /\ \A k \in {LOOP, Len(q)} : m <= k
    BY <2>1, LeastNat
  <2> QED
    BY <1>1, <2>1, <2>2
<1>3. r = [found  |-> found,
           n      |-> IF found THEN Head(queued) ELSE 0,
           ready  |-> IF found THEN Tail(queued) ELSE queued,
           socket |-> SubSeq(q, taken + 1, Len(q))]
  BY DEF receive_loop
<1> HIDE DEF q, m, r
<1>4. /\ Len(seen) = m /\ DOMAIN seen = 1 .. m
      /\ \A i \in 1 .. m : seen[i] = q[i] /\ i \in DOMAIN q /\ i \in Nat
  BY <1>1, <1>2
<1> HIDE DEF seen
<1>5. stop \in 0 .. m
  <2>1. stops \in SUBSET Nat /\ stops \subseteq 1 .. m
    BY <1>4
  <2> HIDE DEF stops
  <2>2. stops # {} => Min(stops) \in stops
    BY <2>1, LeastNat
  <2>3. 0 \in 0 .. m /\ 1 .. m \subseteq 0 .. m
    BY <1>1, <1>2
  <2>4. CASE stops = {}
    BY <2>3, <2>4
  <2>5. CASE stops # {}
    BY <2>1, <2>2, <2>3, <2>5
  <2> QED
    BY <2>4, <2>5
<1> HIDE DEF stops, stop
<1>6. taken \in 0 .. m /\ taken \in 0 .. Len(q) /\ taken \in Nat
  BY <1>1, <1>2, <1>4, <1>5
<1> HIDE DEF taken, failed
<1>7. Unread(q, d, arrived[s])
  BY DEF q
<1>8. /\ e \in Nat /\ d <= e /\ e <= arrived[s]
       /\ Unread(SubSeq(q, taken + 1, Len(q)), e, arrived[s])
  BY <1>1, <1>6, <1>7, RestUnread
<1>9. nums = [i \in 1 .. e - d |-> d + i]
  <2>1. CASE taken = 0
    <3>1. read = 0 /\ e - d = 0
      BY <2>1
    <3>2. 1 .. 0 = {}
      OBVIOUS
    <3> HIDE DEF read, e
    <3> QED
      BY <3>1, <3>2
  <2>2. CASE taken # 0
    <3>1. taken \in 1 .. m /\ 1 \in 1 .. m /\ q # << >>
      BY <1>1, <1>2, <1>6, <2>2
    <3>2. seen[taken] = q[taken] /\ seen[1] = q[1] /\ q[1].low = d
      BY <1>4, <1>7, <3>1 DEF Unread
    <3> QED
      BY <2>2, <3>2
  <2> QED
    BY <2>1, <2>2
<1> HIDE DEF nums, read
<1>10. c <= e
  BY <1>8
<1> HIDE DEF e
<1>11. Numbers(nums, d, e)
  <2>1. e - d \in Nat
    BY <1>8
  <2>2. nums \in Seq(Nat) /\ Len(nums) = e - d /\ DOMAIN nums = 1 .. e - d
    BY <1>9, <2>1
  <2> QED
    BY <1>9, <2>2 DEF Numbers
<1>12. Numbers(queued, c, e)
  BY <1>8, <1>11, GoOn
<1> HIDE DEF queued
<1>13. /\ r.found = found
       /\ r.n = (IF found THEN Head(queued) ELSE 0)
       /\ r.ready = (IF found THEN Tail(queued) ELSE queued)
       /\ r.socket = SubSeq(q, taken + 1, Len(q))
  BY <1>3
<1>14. Unread(r.socket, e, arrived[s])
  BY <1>8, <1>13
<1>15. CASE found
  <2>1. Head(queued) = c + 1 /\ c + 1 <= e /\ Numbers(Tail(queued), c + 1, e)
    BY <1>8, <1>10, <1>12, <1>15, NextNumber
  <2>2. \E g \in Nat, f \in Nat :
          /\ f = (IF r.found THEN c + 1 ELSE c)
          /\ r.found => r.n = c + 1
          /\ f <= g /\ g <= arrived[s]
          /\ Numbers(r.ready, f, g)
          /\ Unread(r.socket, g, arrived[s])
    <3>1. r.found
      BY <1>13, <1>15, Zenon
    <3>2. c + 1 \in Nat /\ c + 1 = (IF r.found THEN c + 1 ELSE c)
      BY <3>1
    <3> QED
      BY <1>8, <1>10, <1>13, <1>14, <1>15, <2>1, <3>2
  <2> QED
    BY <2>2 DEF r
<1>16. CASE ~ found
  <2>1. \E g \in Nat, f \in Nat :
          /\ f = (IF r.found THEN c + 1 ELSE c)
          /\ r.found => r.n = c + 1
          /\ f <= g /\ g <= arrived[s]
          /\ Numbers(r.ready, f, g)
          /\ Unread(r.socket, g, arrived[s])
    BY <1>8, <1>10, <1>12, <1>13, <1>14, <1>16
  <2> QED
    BY <2>1 DEF r
<1> QED
  BY <1>15, <1>16

-----------------------------------------------------------------------------
(***************************************************************************)
(* Containers change hands.                                                *)
(***************************************************************************)
\* Containers Q and H are the same containers as P and G, in other places
Moved(Q, H, P, G) ==
  /\ Apart(Q, H) => Apart(P, G)
  /\ AllUpwards(Q, H) => AllUpwards(P, G)
  /\ \A s, low, high : Stored(Q, H, s, low, high) => Stored(P, G, s, low, high)

LEMMA OneBack ==
  ASSUME NEW k \in Nat, NEW i \in 1 .. k, i # 1
  PROVE  i - 1 \in 1 .. k - 1 /\ (i - 1) + 1 = i
OBVIOUS

LEMMA OneOn ==
  ASSUME NEW k \in Nat, NEW i \in 1 .. k - 1
  PROVE  i + 1 \in 1 .. k /\ i + 1 # 1
OBVIOUS

\* A task takes the first container.
LEMMA TakeShelf ==
  ASSUME NEW Q \in Seq(Seq(Messages)), Q # << >>,
         NEW H \in [Tasks -> Seq(Messages)], NEW t \in Tasks, H[t] = << >>,
         NEW G, G = [H EXCEPT ![t] = Head(Q)]
  PROVE  Moved(Q, H, Tail(Q), G)
<1> DEFINE M == Seq(Messages)
           P == Tail(Q)
<1>1. /\ P \in Seq(M) /\ Len(Q) \in Nat \ {0} /\ Len(P) = Len(Q) - 1
      /\ Head(Q) = Q[1] /\ \A i \in 1 .. Len(Q) - 1 : P[i] = Q[i + 1]
  <2>1. Q \in Seq(M)
    OBVIOUS
  <2> HIDE DEF M
  <2> QED
    BY <2>1, TailOf
<1>2. DOMAIN Q = 1 .. Len(Q) /\ DOMAIN P = 1 .. Len(Q) - 1
  BY <1>1
<1> HIDE DEF M, P
<1>3. \A i \in DOMAIN P : i + 1 \in DOMAIN Q /\ i + 1 # 1 /\ P[i] = Q[i + 1]
  <2>1. PICK k : k = Len(Q)
    OBVIOUS
  <2>2. k \in Nat /\ DOMAIN Q = 1 .. k /\ DOMAIN P = 1 .. k - 1
    BY <1>1, <1>2, <2>1
  <2>3. \A i \in 1 .. k - 1 : i + 1 \in 1 .. k /\ i + 1 # 1
    BY <2>2, OneOn
  <2> QED
    BY <1>1, <2>1, <2>2, <2>3
<1>4. \A i \in DOMAIN Q : i # 1 => i - 1 \in DOMAIN P /\ Q[i] = P[i - 1]
  <2> SUFFICES ASSUME NEW i \in DOMAIN Q, i # 1
               PROVE  i - 1 \in DOMAIN P /\ Q[i] = P[i - 1]
    OBVIOUS
  <2>1. i - 1 \in 1 .. Len(Q) - 1 /\ (i - 1) + 1 = i
    <3>1. PICK k : k = Len(Q)
      OBVIOUS
    <3>2. k \in Nat /\ i \in 1 .. k
      BY <1>1, <1>2, <3>1
    <3>3. i - 1 \in 1 .. k - 1 /\ (i - 1) + 1 = i
      BY <3>2, OneBack
    <3> QED
      BY <3>1, <3>3
  <2> QED
    BY <1>1, <1>2, <2>1
<1>5. G[t] = Q[1] /\ 1 \in DOMAIN Q /\ \A u \in Tasks : u # t => G[u] = H[u]
  BY <1>1, <1>2
<1>6. ASSUME Apart(Q, H) PROVE Apart(P, G)
  <2>1. /\ \A i, j \in DOMAIN Q, s \in Servers : Has(Q[i], s) /\ Has(Q[j], s) => i = j
        /\ \A u, v \in Tasks, s \in Servers : Has(H[u], s) /\ Has(H[v], s) => u = v
        /\ \A i \in DOMAIN Q, u \in Tasks, s \in Servers :
             ~ (Has(Q[i], s) /\ Has(H[u], s))
    BY <1>6 DEF Apart
  <2>2. \A i, j \in DOMAIN P, s \in Servers : Has(P[i], s) /\ Has(P[j], s) => i = j
    <3> SUFFICES ASSUME NEW i \in DOMAIN P, NEW j \in DOMAIN P, NEW s \in Servers,
                        Has(P[i], s), Has(P[j], s)
                 PROVE  i = j
      OBVIOUS
    <3>1. i + 1 = j + 1
      BY <1>3, <2>1
    <3> QED
      BY <1>1, <1>2, <3>1
  <2>3. \A u, v \in Tasks, s \in Servers : Has(G[u], s) /\ Has(G[v], s) => u = v
    BY <1>5, <2>1
  <2>4. \A i \in DOMAIN P, u \in Tasks, s \in Servers :
          ~ (Has(P[i], s) /\ Has(G[u], s))
    BY <1>3, <1>5, <2>1
  <2> QED
    BY <2>2, <2>3, <2>4 DEF Apart
<1>7. AllUpwards(Q, H) => AllUpwards(P, G)
  BY <1>3, <1>5 DEF AllUpwards
<1>8. ASSUME NEW s, NEW low, NEW high, Stored(Q, H, s, low, high)
      PROVE  Stored(P, G, s, low, high)
  <2>1. /\ \A i \in DOMAIN P : Between(P[i], s, low, high)
        /\ \A u \in Tasks : Between(G[u], s, low, high)
    BY <1>3, <1>5, <1>8 DEF Stored
  <2>2. ASSUME NEW n \in low + 1 .. high
        PROVE  \/ \E i \in DOMAIN P : HasMessage(P[i], s, n)
               \/ \E u \in Tasks : HasMessage(G[u], s, n)
    <3>1. CASE \E i \in DOMAIN Q : HasMessage(Q[i], s, n)
      BY <1>4, <1>5, <3>1
    <3>2. CASE \E u \in Tasks : HasMessage(H[u], s, n)
      BY <1>5, <3>2, EmptyMessages
    <3> QED
      BY <1>8, <3>1, <3>2 DEF Stored
  <2> QED
    BY <2>1, <2>2 DEF Stored
<1> QED
  BY <1>6, <1>7, <1>8 DEF Moved, P

\* A task puts its container at the end.
LEMMA PutShelf ==
  ASSUME NEW Q \in Seq(Seq(Messages)),
         NEW H \in [Tasks -> Seq(Messages)], NEW t \in Tasks,
         NEW G, G = [H EXCEPT ![t] = << >>]
  PROVE  Moved(Q, H, Append(Q, H[t]), G)
<1> DEFINE M == Seq(Messages)
           P == Append(Q, H[t])
           l == Len(Q) + 1
<1>1. /\ P \in Seq(M) /\ Len(Q) \in Nat /\ Len(P) = Len(Q) + 1
      /\ P[Len(Q) + 1] = H[t] /\ \A i \in 1 .. Len(Q) : P[i] = Q[i]
  <2>1. Q \in Seq(M) /\ H[t] \in M
    OBVIOUS
  <2> HIDE DEF M
  <2> QED
    BY <2>1, AppendOf
<1>2. DOMAIN Q = 1 .. Len(Q) /\ DOMAIN P = 1 .. Len(Q) + 1
  BY <1>1
<1> HIDE DEF M, P
<1>3. /\ \A i \in DOMAIN P : i = l \/ i \in DOMAIN Q
      /\ \A i \in DOMAIN Q : i \in DOMAIN P /\ i # l /\ P[i] = Q[i]
      /\ l \in DOMAIN P /\ P[l] = H[t]
  BY <1>1, <1>2
<1> HIDE DEF l
<1>4. G[t] = << >> /\ \A u \in Tasks : u # t => G[u] = H[u]
  OBVIOUS
<1>5. \A s : ~ Has(G[t], s)
  BY <1>4, EmptyMessages
<1>6. ASSUME Apart(Q, H) PROVE Apart(P, G)
  <2>1. /\ \A i, j \in DOMAIN Q, s \in Servers : Has(Q[i], s) /\ Has(Q[j], s) => i = j
        /\ \A u, v \in Tasks, s \in Servers : Has(H[u], s) /\ Has(H[v], s) => u = v
        /\ \A i \in DOMAIN Q, u \in Tasks, s \in Servers :
             ~ (Has(Q[i], s) /\ Has(H[u], s))
    BY <1>6 DEF Apart
  <2>2. \A i, j \in DOMAIN P, s \in Servers : Has(P[i], s) /\ Has(P[j], s) => i = j
    BY <1>3, <2>1
  <2>3. \A u, v \in Tasks, s \in Servers : Has(G[u], s) /\ Has(G[v], s) => u = v
    BY <1>4, <1>5, <2>1
  <2>4. \A i \in DOMAIN P, u \in Tasks, s \in Servers :
          ~ (Has(P[i], s) /\ Has(G[u], s))
    BY <1>3, <1>4, <1>5, <2>1
  <2> QED
    BY <2>2, <2>3, <2>4 DEF Apart
<1>7. AllUpwards(Q, H) => AllUpwards(P, G)
  BY <1>3, <1>4, EmptyMessages DEF AllUpwards
<1>8. ASSUME NEW s, NEW low, NEW high, Stored(Q, H, s, low, high)
      PROVE  Stored(P, G, s, low, high)
  <2>1. /\ \A i \in DOMAIN P : Between(P[i], s, low, high)
        /\ \A u \in Tasks : Between(G[u], s, low, high)
    BY <1>3, <1>4, <1>8, EmptyMessages DEF Stored
  <2>2. ASSUME NEW n \in low + 1 .. high
        PROVE  \/ \E i \in DOMAIN P : HasMessage(P[i], s, n)
               \/ \E u \in Tasks : HasMessage(G[u], s, n)
    <3>1. CASE \E i \in DOMAIN Q : HasMessage(Q[i], s, n)
      BY <1>3, <3>1
    <3>2. CASE \E u \in Tasks : HasMessage(H[u], s, n)
      BY <1>3, <1>4, <3>2
    <3> QED
      BY <1>8, <3>1, <3>2 DEF Stored
  <2> QED
    BY <2>1, <2>2 DEF Stored
<1> QED
  BY <1>6, <1>7, <1>8 DEF Moved, P

\* G has what H has, and message m more.
Gathered(Q, H, G, m) ==
  /\ Apart(Q, H) => Apart(Q, G)
  /\ \A s, low, high : s # m.server /\ Stored(Q, H, s, low, high) =>
                         Stored(Q, G, s, low, high)
  /\ \A low \in Nat, high \in Nat :
       /\ Stored(Q, H, m.server, low, high) /\ m.n = high + 1 /\ low <= high
       => Stored(Q, G, m.server, low, high + 1)
  /\ \A low \in Nat, high \in Nat :
       /\ Stored(Q, H, m.server, low, high) /\ m.n = high + 1
       /\ AllUpwards(Q, H)
       => AllUpwards(Q, G)

\* A task adds a message to its container, the only one with its server's.
LEMMA Gather ==
  ASSUME NEW Q, NEW H \in [Tasks -> Seq(Messages)], NEW t \in Tasks,
         NEW m \in Messages, NEW G, G = [H EXCEPT ![t] = Append(H[t], m)],
         Lone(Q, H, t, m.server)
  PROVE  Gathered(Q, H, G, m)
<1>lone. /\ \A i \in DOMAIN Q : ~ Has(Q[i], m.server)
         /\ \A u \in Tasks : u # t => ~ Has(H[u], m.server)
  BY DEF Lone
<1> DEFINE x == H[t]
           z == <<m>>
           y == x \o z
<1>1. /\ x \in Seq(Messages) /\ m.server \in Servers /\ m.n \in Nat
      /\ z \in Seq(Messages) /\ \A j \in DOMAIN z : z[j] = m
  <2>1. m.server \in Servers /\ m.n \in Nat
    BY DEF Messages
  <2>2. z \in Seq(Messages) /\ \A j \in DOMAIN z : z[j] = m
    OBVIOUS
  <2> QED
    BY <2>1, <2>2
<1>2. y = Append(x, m)
  BY <1>1, AppendJoins
<1>0. \A i \in DOMAIN x : x[i].n \in Nat
  <2>1. \A i \in DOMAIN x : x[i] \in Messages
    BY <1>1
  <2> QED
    BY <2>1 DEF Messages
<1>3. /\ Upwards(z)
      /\ \A s : Has(z, s) <=> m.server = s
      /\ \A s, n : HasMessage(z, s, n) <=> m.server = s /\ m.n = n
      /\ \A s, low, high : Between(z, s, low, high) <=>
                             (m.server = s => low < m.n /\ m.n <= high)
  BY OneMessage
<1>4. G[t] = y /\ \A u \in Tasks : u # t => G[u] = H[u]
  BY <1>2
<1> HIDE DEF x, z
<1>5. /\ \A s : Has(y, s) <=> Has(x, s) \/ Has(z, s)
      /\ \A s, n : HasMessage(y, s, n) <=> HasMessage(x, s, n) \/ HasMessage(z, s, n)
      /\ \A s, low, high : Between(y, s, low, high) <=>
                             Between(x, s, low, high) /\ Between(z, s, low, high)
      /\ Upwards(y) <=>
           /\ Upwards(x) /\ Upwards(z)
           /\ \A i \in DOMAIN x, j \in DOMAIN z :
                x[i].server = z[j].server => x[i].n < z[j].n
  BY <1>1, Joined
<1>6. /\ \A s : Has(y, s) <=> Has(x, s) \/ m.server = s
      /\ \A s, n : HasMessage(y, s, n) <=>
                     HasMessage(x, s, n) \/ (m.server = s /\ m.n = n)
      /\ \A s, low, high : Between(y, s, low, high) <=>
                             /\ Between(x, s, low, high)
                             /\ m.server = s => low < m.n /\ m.n <= high
  BY <1>3, <1>5
<1> HIDE DEF y
<1>7. ASSUME Apart(Q, H) PROVE Apart(Q, G)
  <2>1. /\ \A i, j \in DOMAIN Q, s \in Servers : Has(Q[i], s) /\ Has(Q[j], s) => i = j
        /\ \A u, v \in Tasks, s \in Servers : Has(H[u], s) /\ Has(H[v], s) => u = v
        /\ \A i \in DOMAIN Q, u \in Tasks, s \in Servers :
             ~ (Has(Q[i], s) /\ Has(H[u], s))
    BY <1>7 DEF Apart
  <2>2. \A u, v \in Tasks, s \in Servers : Has(G[u], s) /\ Has(G[v], s) => u = v
    <3> SUFFICES ASSUME NEW u \in Tasks, NEW v \in Tasks, NEW s \in Servers,
                        Has(G[u], s), Has(G[v], s)
                 PROVE  u = v
      OBVIOUS
    <3>1. CASE s = m.server
      BY <1>lone, <1>4, <3>1
    <3>2. CASE s # m.server
      <4>1. \A w \in Tasks : Has(G[w], s) => Has(H[w], s)
        BY <1>4, <1>6, <3>2 DEF x
      <4> QED
        BY <2>1, <4>1
    <3> QED
      BY <3>1, <3>2
  <2>3. \A i \in DOMAIN Q, u \in Tasks, s \in Servers :
          ~ (Has(Q[i], s) /\ Has(G[u], s))
    BY <1>lone, <1>4, <1>6, <2>1 DEF x
  <2> QED
    BY <2>1, <2>2, <2>3 DEF Apart
<1>8. ASSUME NEW s, NEW low, NEW high, s # m.server, Stored(Q, H, s, low, high)
      PROVE  Stored(Q, G, s, low, high)
  <2>1. \A u \in Tasks : /\ Between(G[u], s, low, high) <=> Between(H[u], s, low, high)
                         /\ \A n : HasMessage(G[u], s, n) <=> HasMessage(H[u], s, n)
    BY <1>4, <1>6, <1>8 DEF x
  <2> QED
    BY <1>8, <2>1 DEF Stored
<1>9. ASSUME NEW low \in Nat, NEW high \in Nat,
             Stored(Q, H, m.server, low, high), m.n = high + 1, low <= high
      PROVE  Stored(Q, G, m.server, low, high + 1)
  <2> DEFINE s == m.server
  <2>0. /\ \A i \in DOMAIN Q : Between(Q[i], s, low, high)
        /\ \A u \in Tasks : Between(H[u], s, low, high)
        /\ \A n \in low + 1 .. high : \/ \E i \in DOMAIN Q : HasMessage(Q[i], s, n)
                                      \/ \E u \in Tasks : HasMessage(H[u], s, n)
    BY <1>9 DEF Stored
  <2>1. \A i \in DOMAIN Q : Between(Q[i], s, low, high + 1)
    BY <1>lone DEF Between, Has
  <2>2. \A u \in Tasks : u # t => Between(G[u], s, low, high + 1)
    BY <1>lone, <1>4 DEF Between, Has
  <2>3. Between(x, s, low, high + 1)
    <3>1. Between(x, s, low, high)
      BY <2>0 DEF x
    <3> QED
      BY <1>0, <3>1 DEF Between
  <2>4. Between(G[t], s, low, high + 1)
    <3>1. low < m.n /\ m.n <= high + 1
      BY <1>9
    <3> QED
      BY <1>4, <1>6, <2>3, <3>1
  <2>5. ASSUME NEW n \in low + 1 .. high + 1
        PROVE  \/ \E i \in DOMAIN Q : HasMessage(Q[i], s, n)
               \/ \E u \in Tasks : HasMessage(G[u], s, n)
    <3>1. CASE n = high + 1
      <4>1. HasMessage(G[t], s, n)
        BY <1>4, <1>6, <1>9, <3>1
      <4> QED
        BY <4>1
    <3>2. CASE n # high + 1
      <4>1. n \in low + 1 .. high
        BY <3>2
      <4>2. \A u \in Tasks : HasMessage(H[u], s, n) => HasMessage(G[u], s, n)
        BY <1>4, <1>6 DEF x
      <4> QED
        BY <2>0, <4>1, <4>2
    <3> QED
      BY <3>1, <3>2
  <2> QED
    BY <2>1, <2>2, <2>4, <2>5 DEF Stored
<1>10. ASSUME NEW low \in Nat, NEW high \in Nat,
              Stored(Q, H, m.server, low, high), m.n = high + 1, AllUpwards(Q, H)
       PROVE  AllUpwards(Q, G)
  <2>1. Between(x, m.server, low, high) /\ Upwards(x)
    BY <1>10 DEF Stored, AllUpwards, x
  <2>3. \A i \in DOMAIN x, j \in DOMAIN z :
          x[i].server = z[j].server => x[i].n < z[j].n
    BY <1>0, <1>1, <1>10, <2>1 DEF Between
  <2>4. Upwards(G[t])
    BY <1>3, <1>4, <1>5, <2>1, <2>3
  <2> QED
    BY <1>4, <1>10, <2>4 DEF AllUpwards
<1> QED
  BY <1>7, <1>8, <1>9, <1>10 DEF Gathered

-----------------------------------------------------------------------------
(***************************************************************************)
(* Steps of a task that leave the containers where they are.               *)
(***************************************************************************)
LEMMA ShelvesType ==
  ASSUME Typed, OneWay
  PROVE  /\ Shelves \in Seq(Seq(Messages)) /\ Held \in [Tasks -> Seq(Messages)]
         /\ api = "queue" => Shelves = receive_queue
         /\ api = "out" => /\ Len(Shelves) = Len(out_buffers)
                           /\ DOMAIN Shelves = DOMAIN out_buffers
                           /\ \A i \in DOMAIN Shelves :
                                Shelves[i] = out_buffers[i].data
<1>1. api \in {"queue", "out"}
  BY DEF OneWay
<1>2. /\ receive_queue \in Seq(Seq(Messages)) /\ out_buffers \in Seq(OutBuffers)
      /\ task \in [Tasks -> TaskType]
  BY DEF Typed
<1>3. Held \in [Tasks -> Seq(Messages)]
  BY <1>2 DEF Held, TaskType
<1>4. ASSUME api = "queue" PROVE Shelves = receive_queue
  BY <1>4 DEF Shelves
<1>5. ASSUME api = "out"
      PROVE  /\ Shelves \in Seq(Seq(Messages)) /\ Len(Shelves) = Len(out_buffers)
             /\ DOMAIN Shelves = DOMAIN out_buffers
             /\ \A i \in DOMAIN Shelves : Shelves[i] = out_buffers[i].data
  <2> DEFINE M == Seq(Messages)
             n == Len(out_buffers)
  <2>1. n \in Nat /\ DOMAIN out_buffers = 1 .. n
        /\ \A i \in 1 .. n : out_buffers[i] \in OutBuffers
    BY <1>2
  <2>2. \A i \in 1 .. n : out_buffers[i].data \in M
    BY <2>1 DEF OutBuffers
  <2>3. Shelves = [i \in 1 .. n |-> out_buffers[i].data]
    BY <1>5, <2>1 DEF Shelves
  <2> HIDE DEF M, n
  <2>4. Shelves \in Seq(M) /\ Len(Shelves) = n /\ DOMAIN Shelves = 1 .. n
    BY <2>1, <2>2, <2>3
  <2>5. \A i \in 1 .. n : Shelves[i] = out_buffers[i].data
    BY <2>3
  <2> QED
    BY <2>1, <2>4, <2>5 DEF M, n
<1> QED
  BY <1>1, <1>2, <1>3, <1>4, <1>5

\* Containers that are only moved leave every message in its stage.
LEMMA MovedPlaced ==
  ASSUME Placed, Moved(Shelves, Held, Shelves', Held'),
         given' = given, published' = published, ready' = ready,
         socket' = socket, arrived' = arrived, cut' = cut
  PROVE  Placed'
<1>1. Apart(Shelves', Held')
  BY DEF Placed, Moved
<1>2. Sorted'
  BY DEF Placed, Sorted, Moved
<1>3. Lined'
  <2> SUFFICES ASSUME NEW s \in Servers
               PROVE  \E a, b, c, d \in 0 .. arrived'[s] : Staged(s, a, b, c, d)'
    BY DEF Lined
  <2>1. PICK a \in 0 .. arrived[s], b \in 0 .. arrived[s], c \in 0 .. arrived[s],
             d \in 0 .. arrived[s] : Staged(s, a, b, c, d)
    BY DEF Placed, Lined
  <2>2. Staged(s, a, b, c, d)'
    BY <2>1 DEF Staged, Moved
  <2> QED
    BY <2>2
<1> QED
  BY <1>1, <1>2, <1>3 DEF Placed

LEMMA StillPlaced ==
  ASSUME Placed, Shelves' = Shelves, Held' = Held,
         given' = given, published' = published, ready' = ready,
         socket' = socket, arrived' = arrived, cut' = cut
  PROVE  Placed'
<1>1. Moved(Shelves, Held, Shelves', Held')
  BY DEF Moved
<1> QED
  BY <1>1, MovedPlaced

LEMMA TaskWritten ==
  ASSUME Written, NEW t \in Tasks, \A u \in Tasks : u # t => task'[u] = task[u],
         \A i \in DOMAIN out_buffers' :
           Told(out_buffers'[i].data, out_buffers'[i].bytes_written),
         cut' = cut, WrittenOf(task'[t])
  PROVE  Written'
<1>1. \A x, y : Told(x, y)' <=> Told(x, y)
  BY DEF Told
<1>2. \A x : WrittenOf(x)' <=> WrittenOf(x)
  BY <1>1 DEF WrittenOf
<1>3. \A u \in Tasks : WrittenOf(task'[u])
  BY DEF Written
<1> QED
  BY <1>1, <1>2, <1>3 DEF Written

LEMMA TaskOneWay ==
  ASSUME OneWay, NEW t \in Tasks, \A u \in Tasks : u # t => task'[u] = task[u],
         task'[t].kind \in {task[t].kind, "none"},
         api' = api, call' = call, published' = published,
         api = "out" => receive_queue' = receive_queue,
         api = "queue" => out_buffers' = out_buffers,
         counter' = NoCounter <=> counter = NoCounter
  PROVE  OneWay'
<1>1. \A u \in Tasks : task'[u].kind \in {task[u].kind, "none"}
  OBVIOUS
<1> QED
  BY <1>1 DEF OneWay

\* Task t goes on; what has to be fresh for it, and for those still to come, is.
LEMMA TaskFresh ==
  ASSUME Fresh, NEW t \in Tasks, \A u \in Tasks : u # t => task'[u] = task[u],
         Shelves' = Shelves, Held' = Held, api' = api, call' = call,
         receive_queue' = receive_queue, out_buffers' = out_buffers,
         counter' = NoCounter <=> counter = NoCounter,
         task'[t].kind = "out" /\ task'[t].pc = "pop_container" <=>
           task[t].kind = "out" /\ task[t].pc = "pop_container",
         task'[t].pc \in Unserved => Lone(Shelves, Held, t, task'[t].server),
         counter # NoCounter =>
           \A i \in DOMAIN servers_in_use' :
             i <= Cardinality(ToCome') => Lone(Shelves, Held, 0, servers_in_use'[i])
  PROVE  Fresh'
<1>1. Resets' = Resets
  BY DEF Resets
<1>2. \A u \in Tasks : task'[u].pc \in Unserved =>
                         Lone(Shelves', Held', u, task'[u].server)
  BY DEF Fresh
<1> QED
  BY <1>1, <1>2 DEF Fresh

\* What a task holds, where it alone moves and keeps it
LEMMA HeldStays ==
  ASSUME NEW t \in Tasks, \A u \in Tasks : u # t => task'[u] = task[u],
         task'[t].held = task[t].held
  PROVE  Held' = Held
<1>1. \A u \in Tasks : task'[u].held = task[u].held
  OBVIOUS
<1> QED
  BY <1>1 DEF Held

\* The steps that only go on with a buffer more or less.
LEMMA GoOnPlaces ==
  ASSUME IInv, MInv, NEW t \in Tasks, NEW pc \in Steps, task' = Goto(t, pc),
         task[t].pc \in {"pop_buffer", "push_buffer"},
         \/ pc = "receive" /\ task[t].pc = "pop_buffer"
         \/ pc = "push_container",
         UNCHANGED <<servers_in_use, receive_queue, out_buffers, counter, rest>>
  PROVE  MInv'
<1>1. /\ servers_in_use' = servers_in_use /\ receive_queue' = receive_queue
      /\ out_buffers' = out_buffers /\ counter' = counter /\ published' = published
      /\ call' = call /\ api' = api /\ socket' = socket /\ ready' = ready
      /\ arrived' = arrived /\ given' = given /\ cut' = cut
  BY DEF rest, network, history
<1>2. task \in [Tasks -> TaskType] /\ task[t] \in TaskType
  BY DEF IInv, Typed
<1>3. /\ \A u \in Tasks : u # t => task'[u] = task[u]
      /\ task'[t] = [task[t] EXCEPT !.pc = pc]
  BY <1>2 DEF Goto
<1>4. /\ task'[t].pc = pc /\ task'[t].kind = task[t].kind
      /\ task'[t].server = task[t].server /\ task'[t].held = task[t].held
      /\ task'[t].written = task[t].written
  BY <1>2, <1>3 DEF TaskType
<1>5. Shelves' = Shelves /\ Held' = Held
  BY <1>1, <1>3, <1>4, HeldStays DEF Shelves
<1>6. OneWay'
  BY <1>1, <1>3, <1>4, TaskOneWay DEF MInv
<1>7. Written'
  <2>1. WrittenOf(task[t])
    BY DEF MInv, Written
  <2>2. task[t].held \in Seq(Messages)
    BY <1>2 DEF TaskType
  <2>3. Len(<< >>) = 0
    OBVIOUS
  <2>4. WrittenOf(task'[t])
    BY <1>4, <2>1, <2>3 DEF WrittenOf, HasContainer, Told
  <2>5. \A i \in DOMAIN out_buffers' :
        Told(out_buffers'[i].data, out_buffers'[i].bytes_written)
    BY <1>1 DEF MInv, Written
  <2> QED
    BY <1>1, <1>3, <2>4, <2>5, TaskWritten DEF MInv
<1>8. Fresh'
  <2>1. ToCome' = ToCome
    BY <1>3, <1>4 DEF ToCome
  <2>2. task'[t].pc \in Unserved => Lone(Shelves, Held, t, task'[t].server)
    BY <1>4 DEF MInv, Fresh, Unserved
  <2>3. counter # NoCounter =>
          \A i \in DOMAIN servers_in_use' :
            i <= Cardinality(ToCome') => Lone(Shelves, Held, 0, servers_in_use'[i])
    BY <1>1, <2>1 DEF MInv, Fresh
  <2>4. task'[t].kind = "out" /\ task'[t].pc = "pop_container" <=>
          task[t].kind = "out" /\ task[t].pc = "pop_container"
    BY <1>4
  <2>5. Fresh
    BY DEF MInv
  <2> QED
    BY <1>1, <1>3, <1>5, <2>2, <2>3, <2>4, <2>5, TaskFresh
<1>9. Placed'
  BY <1>1, <1>5, StillPlaced DEF MInv
<1> QED
  BY <1>6, <1>7, <1>8, <1>9 DEF MInv

LEMMA PopBufferPlaces ==
  ASSUME IInv, MInv, NEW t \in Tasks, PopBuffer(t)
  PROVE  MInv'
<1>1. /\ task[t].pc = "pop_buffer"
      /\ UNCHANGED <<servers_in_use, receive_queue, out_buffers, counter, rest>>
      /\ task' = Goto(t, "push_container") \/ task' = Goto(t, "receive")
  BY DEF PopBuffer, At
<1>2. "push_container" \in Steps /\ "receive" \in Steps
  BY DEF Steps, HasServer
<1> QED
  BY <1>1, <1>2, GoOnPlaces

LEMMA PushBufferPlaces ==
  ASSUME IInv, MInv, NEW t \in Tasks, PushBuffer(t)
  PROVE  MInv'
<1>1. /\ task[t].pc = "push_buffer" /\ task' = Goto(t, "push_container")
      /\ UNCHANGED <<servers_in_use, receive_queue, out_buffers, counter, rest>>
  BY DEF PushBuffer, ReturnBuffers, At
<1>2. "push_container" \in Steps
  BY DEF Steps, HasServer
<1> QED
  BY <1>1, <1>2, GoOnPlaces

\* A step of task t that leaves the containers and the network alone.
LEMMA HandsPlaces ==
  ASSUME MInv, NEW t \in Tasks, \A u \in Tasks : u # t => task'[u] = task[u],
         task'[t].held = task[t].held, task'[t].kind \in {task[t].kind, "none"},
         task[t].kind # "out", WrittenOf(task'[t]),
         UNCHANGED <<receive_queue, out_buffers, rest>>,
         counter' = NoCounter <=> counter = NoCounter,
         task'[t].pc \in Unserved => Lone(Shelves, Held, t, task'[t].server),
         counter # NoCounter =>
           \A i \in DOMAIN servers_in_use' :
             i <= Cardinality(ToCome') => Lone(Shelves, Held, 0, servers_in_use'[i])
  PROVE  MInv'
<1>1. /\ receive_queue' = receive_queue
      /\ out_buffers' = out_buffers /\ published' = published
      /\ call' = call /\ api' = api /\ socket' = socket /\ ready' = ready
      /\ arrived' = arrived /\ given' = given /\ cut' = cut
  BY DEF rest, network, history
<1>2. Shelves' = Shelves /\ Held' = Held
  BY <1>1, HeldStays DEF Shelves
<1>3. OneWay'
  BY <1>1, TaskOneWay DEF MInv
<1>4. Written'
  <2>1. \A i \in DOMAIN out_buffers' :
        Told(out_buffers'[i].data, out_buffers'[i].bytes_written)
    BY <1>1 DEF MInv, Written
  <2> QED
    BY <1>1, <2>1, TaskWritten DEF MInv
<1>5. Fresh'
  <2>1. Fresh
    BY DEF MInv
  <2>2. task'[t].kind # "out"
    OBVIOUS
  <2> QED
    BY <1>1, <1>2, <2>1, <2>2, TaskFresh
<1>6. Placed'
  BY <1>1, <1>2, StillPlaced DEF MInv
<1> QED
  BY <1>3, <1>4, <1>5, <1>6 DEF MInv

\* The first server in the queue is one that no task has received this round.
LEMMA PopServerPlaces ==
  ASSUME IInv, MInv, NEW t \in Tasks, PopServer(t)
  PROVE  MInv'
<1> DEFINE q == servers_in_use
           h == Head(q)
<1>1. task[t].pc = "pop_server"
  BY PopServerMoves DEF IInv
<1>2. task[t].kind = "receive" /\ counter # NoCounter /\ call = "none"
  BY <1>1, InRound DEF IInv
<1>3. Cardinality(ToCome) \in Nat /\ Cardinality(ToCome) >= 1
  <2> DEFINE T == ToCome \ {t}
  <2>1. /\ ToCome \in SUBSET Tasks /\ T \in SUBSET Tasks /\ t \in ToCome /\ t \notin T
        /\ \A u \in Tasks : u # t => (u \in ToCome <=> u \in T)
    BY <1>1 DEF ToCome
  <2> HIDE DEF T
  <2>2. /\ Cardinality(ToCome) \in Nat /\ Cardinality(T) \in Nat
        /\ Cardinality(T) = Cardinality(ToCome) - 1
    BY <2>1, CountMove
  <2> QED
    BY <2>2
<1>4. /\ q \in Seq(Servers) /\ q # << >> /\ Cardinality(ToCome) <= Len(q)
  <2>1. q \in Seq(Servers) /\ Cardinality(ToCome) <= Len(q)
    BY <1>2 DEF IInv, Typed, Turns
  <2> QED
    BY <1>3, <2>1
<1>5. /\ servers_in_use' = Tail(q)
      /\ Moves(t, task[t].kind, "pop_container", h, task[t].passes)
  BY <1>4, PopServerMoves DEF IInv
<1>6. /\ UNCHANGED rest /\ counter' = counter /\ receive_queue' = receive_queue
      /\ out_buffers' = out_buffers
  BY DEF PopServer
<1>7. /\ Tail(q) \in Seq(Servers) /\ Len(q) \in Nat \ {0}
      /\ Len(Tail(q)) = Len(q) - 1 /\ h = q[1]
      /\ \A i \in 1 .. Len(q) - 1 : Tail(q)[i] = q[i + 1]
      /\ DOMAIN q = 1 .. Len(q)
  BY <1>4, TailOf
<1>8. Counts(t, task[t].kind, "pop_container")
  BY <1>5, MoveCounts
<1>9. /\ \A u \in Tasks : u # t => task'[u] = task[u]
      /\ task'[t].kind = task[t].kind /\ task'[t].pc = "pop_container"
      /\ task'[t].server = h
  BY <1>5 DEF Moves
<1>10. task'[t].held = task[t].held /\ task'[t].written = task[t].written
  <2>1. task \in [Tasks -> TaskType] /\ task[t] \in TaskType
    BY DEF IInv, Typed
  <2>2. task' = [task EXCEPT ![t].pc = "pop_container",
                             ![t].server = Head(servers_in_use)]
    BY <1>4 DEF PopServer
  <2> QED
    BY <2>1, <2>2 DEF TaskType
<1>11. \A i \in DOMAIN q : i <= Cardinality(ToCome) => Lone(Shelves, Held, 0, q[i])
  BY <1>2 DEF MInv, Fresh
<1> HIDE DEF h, q
<1>12. Lone(Shelves, Held, t, h)
  <2>1. 1 \in DOMAIN q
    BY <1>7
  <2>2. \A u \in Tasks : u # 0
    BY PoolAssumption DEF Tasks
  <2>3. Lone(Shelves, Held, 0, h)
    BY <1>3, <1>7, <1>11, <2>1
  <2> QED
    BY <2>2, <2>3 DEF Lone
<1>13. ASSUME NEW i \in DOMAIN Tail(q), i <= Cardinality(ToCome')
       PROVE  Lone(Shelves, Held, 0, Tail(q)[i])
  <2>1. Cardinality(ToCome') = Cardinality(ToCome) - 1
    BY <1>1, <1>8 DEF Counts, One
  <2>2. DOMAIN Tail(q) = 1 .. Len(q) - 1
    BY <1>7
  <2>3. i + 1 \in DOMAIN q /\ i + 1 <= Cardinality(ToCome) /\ Tail(q)[i] = q[i + 1]
    BY <1>3, <1>7, <1>13, <2>1, <2>2
  <2> QED
    BY <1>11, <2>3
<1>14. WrittenOf(task'[t])
  <2>1. WrittenOf(task[t])
    BY DEF MInv, Written
  <2>2. task[t].held = << >> /\ task[t].written = 0
    BY <1>1, <2>1 DEF WrittenOf, HasContainer
  <2> QED
    BY <1>9, <1>10, <2>2 DEF WrittenOf, HasContainer
<1> QED
  BY <1>2, <1>5, <1>6, <1>9, <1>10, <1>12, <1>13, <1>14, HandsPlaces

\* The server given back is behind all that are still to be received.
LEMMA PushServerPlaces ==
  ASSUME ServersFit, IInv, MInv, NEW t \in Tasks, PushServer(t)
  PROVE  MInv'
<1> DEFINE q == servers_in_use
           h == task[t].server
<1>1. /\ task[t].pc = "push_server" /\ h \in Servers
      /\ Moves(t, task[t].kind, "decrement", NoServer, task[t].passes)
      /\ servers_in_use' = Append(q, h)
  BY PushServerMoves DEF IInv
<1>2. task[t].kind = "receive" /\ counter # NoCounter /\ call = "none"
  BY <1>1, InRound DEF IInv
<1>3. q \in Seq(Servers) /\ Cardinality(ToCome) <= Len(q)
  BY <1>2 DEF IInv, Typed, Turns
<1>4. /\ UNCHANGED rest /\ counter' = counter /\ receive_queue' = receive_queue
      /\ out_buffers' = out_buffers
  BY DEF PushServer, ReturnServer
<1>5. Counts(t, task[t].kind, "decrement")
  BY <1>1, MoveCounts
<1>6. /\ Append(q, h) \in Seq(Servers) /\ Len(q) \in Nat
      /\ Len(Append(q, h)) = Len(q) + 1
      /\ \A i \in 1 .. Len(q) : Append(q, h)[i] = q[i]
  BY <1>1, <1>3, AppendOf
<1>7. DOMAIN q = 1 .. Len(q) /\ DOMAIN Append(q, h) = 1 .. Len(q) + 1
  BY <1>3, <1>6
<1>8. /\ \A u \in Tasks : u # t => task'[u] = task[u]
      /\ task'[t].kind = task[t].kind /\ task'[t].pc = "decrement"
  BY <1>1 DEF Moves
<1>9. task'[t].held = task[t].held /\ task'[t].written = task[t].written
  <2>1. task \in [Tasks -> TaskType] /\ task[t] \in TaskType
    BY DEF IInv, Typed
  <2>2. task' = [task EXCEPT ![t].pc = "decrement", ![t].server = NoServer]
    BY DEF PushServer, ReturnServer
  <2> QED
    BY <2>1, <2>2 DEF TaskType
<1>10. \A i \in DOMAIN q : i <= Cardinality(ToCome) => Lone(Shelves, Held, 0, q[i])
  BY <1>2 DEF MInv, Fresh
<1> HIDE DEF h, q
<1>11. ASSUME NEW i \in DOMAIN Append(q, h), i <= Cardinality(ToCome')
       PROVE  Lone(Shelves, Held, 0, Append(q, h)[i])
  <2>1. Cardinality(ToCome) \in Nat /\ Cardinality(ToCome') = Cardinality(ToCome)
    BY <1>1, <1>5 DEF Counts, One
  <2>2. i \in DOMAIN q /\ Append(q, h)[i] = q[i]
    BY <1>3, <1>6, <1>7, <1>11, <2>1
  <2> QED
    BY <1>10, <1>11, <2>1, <2>2
<1>12. WrittenOf(task'[t])
  <2>1. WrittenOf(task[t])
    BY DEF MInv, Written
  <2>2. task[t].held = << >> /\ task[t].written = 0
    BY <1>1, <2>1 DEF WrittenOf, HasContainer
  <2> QED
    BY <1>8, <1>9, <2>2 DEF WrittenOf, HasContainer
<1>13. task'[t].pc \notin Unserved
  BY <1>8 DEF Unserved
<1> QED
  BY <1>1, <1>2, <1>4, <1>8, <1>9, <1>11, <1>12, <1>13, HandsPlaces DEF q

\* A task that ends holds nothing, and the countdown stays one.
LEMMA DecrementPlaces ==
  ASSUME IInv, MInv, NEW t \in Tasks, Decrement(t)
  PROVE  MInv'
<1>1. /\ task[t].pc = "decrement" /\ counter' = counter - 1
      /\ Moves(t, "none", "idle", NoServer, 0)
  BY DecrementMoves DEF IInv
<1>2. task[t].kind = "receive" /\ counter # NoCounter /\ call = "none"
  BY <1>1, InRound DEF IInv
<1>3. Counts(t, "none", "idle")
  BY <1>1, MoveCounts
<1>4. counter' # NoCounter
  <2>1. Cardinality(Receiving) \in Nat /\ Cardinality(Receiving') \in Nat
        /\ Cardinality(Receiving') = Cardinality(Receiving) - 1
    BY <1>2, <1>3 DEF Counts, One
  <2>2. counter = Cardinality(Receiving)
    BY <1>2 DEF IInv, CountdownExact, Receiving
  <2>3. counter' \in Nat
    BY <1>1, <2>1, <2>2
  <2> QED
    BY <2>3, PoolAssumption
<1>5. /\ UNCHANGED rest /\ servers_in_use' = servers_in_use
      /\ receive_queue' = receive_queue /\ out_buffers' = out_buffers
  BY DEF Decrement, queues
<1>6. /\ \A u \in Tasks : u # t => task'[u] = task[u]
      /\ task'[t].kind = "none" /\ task'[t].pc = "idle" /\ task'[t] = Idle
  <2>1. task \in [Tasks -> TaskType] /\ task' = [task EXCEPT ![t] = Idle]
    BY DEF IInv, Typed, Decrement
  <2> QED
    BY <1>1, <2>1 DEF Moves
<1>7. WrittenOf(task[t])
  BY DEF MInv, Written
<1>8. task[t].held = << >> /\ task'[t].held = << >> /\ task'[t].written = 0
  BY <1>1, <1>6, <1>7 DEF WrittenOf, HasContainer, Idle
<1>9. WrittenOf(task'[t]) /\ task'[t].pc \notin Unserved
  BY <1>6, <1>8 DEF WrittenOf, HasContainer, Unserved
<1>10. ToCome' = ToCome
  BY <1>1, <1>6 DEF ToCome
<1>11. \A i \in DOMAIN servers_in_use' :
         i <= Cardinality(ToCome') => Lone(Shelves, Held, 0, servers_in_use'[i])
  BY <1>2, <1>5, <1>10 DEF MInv, Fresh
<1> QED
  BY <1>2, <1>4, <1>5, <1>6, <1>8, <1>9, <1>11, HandsPlaces

-----------------------------------------------------------------------------
(***************************************************************************)
(* A task takes a container, and puts it back.                             *)
(***************************************************************************)
LEMMA LoneTaken ==
  ASSUME NEW Q \in Seq(Seq(Messages)), Q # << >>,
         NEW H, NEW t \in Tasks, NEW G, G[t] = Head(Q),
         \A u \in Tasks : u # t => G[u] = H[u]
  PROVE  \A u, s : Lone(Q, H, u, s) => Lone(Tail(Q), G, u, s)
<1> DEFINE M == Seq(Messages)
           P == Tail(Q)
<1>1. /\ P \in Seq(M) /\ Len(Q) \in Nat \ {0} /\ Len(P) = Len(Q) - 1
      /\ Head(Q) = Q[1] /\ \A i \in 1 .. Len(Q) - 1 : P[i] = Q[i + 1]
  <2>1. Q \in Seq(M)
    OBVIOUS
  <2> HIDE DEF M
  <2> QED
    BY <2>1, TailOf
<1>2. DOMAIN Q = 1 .. Len(Q) /\ DOMAIN P = 1 .. Len(Q) - 1
  BY <1>1
<1> HIDE DEF M, P
<1>3. \A i \in DOMAIN P : i + 1 \in DOMAIN Q /\ P[i] = Q[i + 1]
  BY <1>1, <1>2
<1>4. G[t] = Q[1] /\ 1 \in DOMAIN Q
  BY <1>1, <1>2
<1>5. \A u, s : Lone(Q, H, u, s) => Lone(P, G, u, s)
  BY <1>3, <1>4 DEF Lone
<1> QED
  BY <1>5 DEF P

LEMMA LonePut ==
  ASSUME NEW Q \in Seq(Seq(Messages)),
         NEW H \in [Tasks -> Seq(Messages)], NEW t \in Tasks, NEW G, G[t] = << >>,
         \A u \in Tasks : u # t => G[u] = H[u]
  PROVE  \A u, s : u # t /\ Lone(Q, H, u, s) => Lone(Append(Q, H[t]), G, u, s)
<1> DEFINE M == Seq(Messages)
           P == Append(Q, H[t])
<1>1. /\ P \in Seq(M) /\ Len(Q) \in Nat /\ Len(P) = Len(Q) + 1
      /\ P[Len(Q) + 1] = H[t] /\ \A i \in 1 .. Len(Q) : P[i] = Q[i]
  <2>1. Q \in Seq(M) /\ H[t] \in M
    OBVIOUS
  <2> HIDE DEF M
  <2> QED
    BY <2>1, AppendOf
<1>2. DOMAIN Q = 1 .. Len(Q) /\ DOMAIN P = 1 .. Len(Q) + 1
  BY <1>1
<1> HIDE DEF M, P
<1>3. \A i \in DOMAIN P : P[i] = H[t] \/ (i \in DOMAIN Q /\ P[i] = Q[i])
  BY <1>1, <1>2
<1>4. \A s : ~ Has(G[t], s)
  BY EmptyMessages
<1>5. \A u, s : u # t /\ Lone(Q, H, u, s) => Lone(P, G, u, s)
  BY <1>3, <1>4 DEF Lone
<1> QED
  BY <1>5 DEF P

\* What is fresh of servers, of tasks and in the queue
FreshServers ==
  /\ \A t \in Tasks :
       task[t].pc \in Unserved => Lone(Shelves, Held, t, task[t].server)
  /\ counter # NoCounter =>
       \A i \in DOMAIN servers_in_use :
         i <= Cardinality(ToCome) => Lone(Shelves, Held, 0, servers_in_use[i])

\* The first container goes to task t.
LEMMA TakenPlaces ==
  ASSUME IInv, MInv, NEW t \in Tasks, \A u \in Tasks : u # t => task'[u] = task[u],
         task[t].pc = "pop_container", task'[t].pc = "pop_buffer",
         task'[t].server = task[t].server, Shelves # << >>,
         Shelves' = Tail(Shelves), task'[t].held = Head(Shelves),
         UNCHANGED <<servers_in_use, counter, rest>>
  PROVE  Placed' /\ FreshServers'
<1>1. /\ servers_in_use' = servers_in_use /\ counter' = counter
      /\ given' = given /\ published' = published /\ ready' = ready
      /\ socket' = socket /\ arrived' = arrived /\ cut' = cut
  BY DEF rest, network, history
<1>2. Shelves \in Seq(Seq(Messages)) /\ Held \in [Tasks -> Seq(Messages)]
  BY ShelvesType DEF IInv, MInv
<1>3. /\ Held'[t] = Head(Shelves) /\ \A u \in Tasks : u # t => Held'[u] = Held[u]
      /\ Held' = [u \in Tasks |-> Held'[u]]
  BY DEF Held
<1>4. Held[t] = << >>
  BY DEF MInv, Written, WrittenOf, HasContainer, Held
<1>5. PICK Q, H, G : Q = Shelves /\ H = Held /\ G = Held'
  OBVIOUS
<1>6. G = [H EXCEPT ![t] = Head(Q)]
  <2>1. \A u \in Tasks : Held'[u] = [Held EXCEPT ![t] = Head(Shelves)][u]
    BY <1>2, <1>3
  <2>2. Held' = [u \in Tasks |-> [Held EXCEPT ![t] = Head(Shelves)][u]]
    BY <1>3, <2>1
  <2>3. [Held EXCEPT ![t] = Head(Shelves)] =
          [u \in Tasks |-> [Held EXCEPT ![t] = Head(Shelves)][u]]
    BY <1>2
  <2> QED
    BY <1>5, <2>2, <2>3
<1>7. Moved(Q, H, Tail(Q), G)
  BY <1>2, <1>4, <1>5, <1>6, TakeShelf
<1>8. \A u, s : Lone(Q, H, u, s) => Lone(Tail(Q), G, u, s)
  BY <1>2, <1>3, <1>5, LoneTaken
<1>9. Placed'
  <2>1. Moved(Shelves, Held, Shelves', Held')
    BY <1>5, <1>7
  <2> QED
    BY <1>1, <2>1, MovedPlaced DEF MInv
<1>10. \A u, s : Lone(Shelves, Held, u, s) => Lone(Shelves', Held', u, s)
  BY <1>5, <1>8
<1>11. FreshServers
  BY DEF MInv, Fresh, FreshServers
<1>12. FreshServers'
  <2>1. ToCome' = ToCome
    BY DEF ToCome
  <2>2. \A u \in Tasks : task'[u].pc \in Unserved =>
          task[u].pc \in Unserved /\ task'[u].server = task[u].server
    BY DEF Unserved
  <2> QED
    BY <1>1, <1>10, <1>11, <2>1, <2>2 DEF FreshServers
<1> QED
  BY <1>9, <1>12

\* Task t puts its container at the end.
LEMMA PutPlaces ==
  ASSUME IInv, MInv, NEW t \in Tasks, \A u \in Tasks : u # t => task'[u] = task[u],
         task[t].pc = "push_container", task'[t].pc \in {"idle", "push_server"},
         Shelves' = Append(Shelves, task[t].held), task'[t].held = << >>,
         UNCHANGED <<servers_in_use, counter, rest>>
  PROVE  Placed' /\ FreshServers'
<1>1. /\ servers_in_use' = servers_in_use /\ counter' = counter
      /\ given' = given /\ published' = published /\ ready' = ready
      /\ socket' = socket /\ arrived' = arrived /\ cut' = cut
  BY DEF rest, network, history
<1>2. Shelves \in Seq(Seq(Messages)) /\ Held \in [Tasks -> Seq(Messages)]
  BY ShelvesType DEF IInv, MInv
<1>3. /\ Held'[t] = << >> /\ \A u \in Tasks : u # t => Held'[u] = Held[u]
      /\ Held' = [u \in Tasks |-> Held'[u]] /\ Held[t] = task[t].held
  BY DEF Held
<1>5. PICK Q, H, G : Q = Shelves /\ H = Held /\ G = Held'
  OBVIOUS
<1>6. G = [H EXCEPT ![t] = << >>]
  <2>1. \A u \in Tasks : Held'[u] = [Held EXCEPT ![t] = << >>][u]
    BY <1>2, <1>3
  <2>2. Held' = [u \in Tasks |-> [Held EXCEPT ![t] = << >>][u]]
    BY <1>3, <2>1
  <2>3. [Held EXCEPT ![t] = << >>] = [u \in Tasks |-> [Held EXCEPT ![t] = << >>][u]]
    BY <1>2
  <2> QED
    BY <1>5, <2>2, <2>3
<1>7. Moved(Q, H, Append(Q, H[t]), G)
  BY <1>2, <1>5, <1>6, PutShelf
<1>8. \A u, s : u # t /\ Lone(Q, H, u, s) => Lone(Append(Q, H[t]), G, u, s)
  BY <1>2, <1>3, <1>5, LonePut
<1>9. Placed'
  <2>1. Moved(Shelves, Held, Shelves', Held')
    BY <1>3, <1>5, <1>7
  <2> QED
    BY <1>1, <2>1, MovedPlaced DEF MInv
<1>10. \A u, s : u # t /\ Lone(Shelves, Held, u, s) => Lone(Shelves', Held', u, s)
  BY <1>3, <1>5, <1>8
<1>11. FreshServers
  BY DEF MInv, Fresh, FreshServers
<1>12. FreshServers'
  <2>1. ToCome' = ToCome
    BY DEF ToCome
  <2>2. \A u \in Tasks : task'[u].pc \in Unserved => u # t /\ task'[u] = task[u]
    BY DEF Unserved
  <2>3. 0 # t
    BY PoolAssumption DEF Tasks
  <2> QED
    BY <1>1, <1>10, <1>11, <2>1, <2>2, <2>3 DEF FreshServers
<1> QED
  BY <1>9, <1>12

LEMMA SequenceIsFunction ==
  ASSUME NEW S, NEW q \in Seq(S), NEW n, Len(q) = n
  PROVE  q = [i \in 1 .. n |-> q[i]]
OBVIOUS

\* The data of the out buffers, without the first and with one more
LEMMA DataTaken ==
  ASSUME NEW q \in Seq(OutBuffers), q # << >>
  PROVE  [i \in DOMAIN Tail(q) |-> Tail(q)[i].data] = Tail([i \in DOMAIN q |-> q[i].data])
<1> DEFINE M == Seq(Messages)
           d == [i \in DOMAIN q |-> q[i].data]
           n == Len(q)
<1>1. /\ Tail(q) \in Seq(OutBuffers) /\ n \in Nat \ {0} /\ Len(Tail(q)) = n - 1
      /\ \A i \in 1 .. n - 1 : Tail(q)[i] = q[i + 1]
  BY TailOf
<1>2. DOMAIN Tail(q) = 1 .. n - 1 /\ DOMAIN q = 1 .. n
  BY <1>1
<1>3. d \in Seq(M) /\ Len(d) = n
  <2>1. \A i \in 1 .. n : q[i] \in OutBuffers
    BY <1>2
  <2>2. \A i \in 1 .. n : q[i].data \in M
    BY <2>1 DEF OutBuffers
  <2>3. d = [i \in 1 .. n |-> q[i].data]
    BY <1>2
  <2> HIDE DEF M, n
  <2> QED
    BY <1>1, <2>2, <2>3
<1>4. \A i \in 1 .. n : d[i] = q[i].data
  BY <1>2
<1> HIDE DEF d, M
<1>5. d # << >>
  BY <1>1, <1>3
<1>6. /\ Tail(d) \in Seq(M) /\ Len(Tail(d)) = n - 1
      /\ \A i \in 1 .. n - 1 : Tail(d)[i] = d[i + 1]
  BY <1>3, <1>5, TailOf
<1>7. \A i \in 1 .. n - 1 : Tail(d)[i] = Tail(q)[i].data
  BY <1>1, <1>4, <1>6
<1>8. Tail(d) = [i \in 1 .. n - 1 |-> Tail(d)[i]]
  BY <1>6, SequenceIsFunction
<1>9. Tail(d) = [i \in 1 .. n - 1 |-> Tail(q)[i].data]
  BY <1>7, <1>8
<1> QED
  BY <1>2, <1>9 DEF d

LEMMA DataPut ==
  ASSUME NEW q \in Seq(OutBuffers), NEW x \in OutBuffers
  PROVE  [i \in DOMAIN Append(q, x) |-> Append(q, x)[i].data] =
           Append([i \in DOMAIN q |-> q[i].data], x.data)
<1> DEFINE M == Seq(Messages)
           d == [i \in DOMAIN q |-> q[i].data]
           n == Len(q)
           p == Append(q, x)
<1>1. /\ p \in Seq(OutBuffers) /\ n \in Nat /\ Len(p) = n + 1
      /\ p[n + 1] = x /\ \A i \in 1 .. n : p[i] = q[i]
  BY AppendOf
<1>2. DOMAIN p = 1 .. n + 1 /\ DOMAIN q = 1 .. n
  BY <1>1
<1>3. d \in Seq(M) /\ Len(d) = n /\ x.data \in M
  <2>1. \A i \in 1 .. n : q[i] \in OutBuffers
    BY <1>2
  <2>2. x.data \in M /\ \A i \in 1 .. n : q[i].data \in M
    BY <2>1 DEF OutBuffers
  <2>3. d = [i \in 1 .. n |-> q[i].data]
    BY <1>2
  <2> HIDE DEF M, n
  <2> QED
    BY <1>1, <2>2, <2>3
<1>4. \A i \in 1 .. n : d[i] = q[i].data
  BY <1>2
<1> DEFINE y == x.data
<1> HIDE DEF d, M, p, y
<1>5. /\ Append(d, y) \in Seq(M) /\ Len(Append(d, y)) = n + 1
      /\ Append(d, y)[n + 1] = y /\ \A i \in 1 .. n : Append(d, y)[i] = d[i]
  <2>1. y \in M
    BY <1>3 DEF y
  <2> QED
    BY <1>3, <2>1, AppendOf
<1>6. \A i \in 1 .. n + 1 : Append(d, y)[i] = p[i].data
  <2> TAKE i \in 1 .. n + 1
  <2>1. i = n + 1 \/ i \in 1 .. n
    BY <1>1
  <2> QED
    BY <1>1, <1>4, <1>5, <2>1 DEF y
<1>7. Append(d, y) = [i \in 1 .. n + 1 |-> Append(d, y)[i]]
  BY <1>5, SequenceIsFunction
<1>8. Append(d, y) = [i \in 1 .. n + 1 |-> p[i].data]
  BY <1>6, <1>7
<1> QED
  BY <1>2, <1>8 DEF d, y, p

\* Which tasks receive into out buffers
LEMMA KindOfWay ==
  ASSUME IInv, MInv, NEW t \in Tasks, task[t].pc \in HasServer
  PROVE  /\ task[t].kind = "out" => api = "out" /\ call # "none"
         /\ task[t].kind # "out" => /\ api = "queue"
                                    /\ call # "none" \/ counter # NoCounter
<1>1. task[t] \in TaskType /\ task[t].kind # "none"
  BY DEF IInv, Typed, Shape, ShapeOf, HasServer
<1>2. api \in {"queue", "out"}
  BY DEF MInv, OneWay
<1>3. task[t].kind \in {"receive", "blocking", "out"}
  BY <1>1 DEF TaskType, TaskKinds
<1> QED
  BY <1>1, <1>2, <1>3 DEF MInv, OneWay, IInv, Phases

\* The task that takes a queue, or an out buffer, which is empty.
LEMMA PopContainerPlaces ==
  ASSUME IInv, MInv, NEW t \in Tasks, PopContainer(t)
  PROVE  MInv'
<1>1. /\ task[t].pc = "pop_container"
      /\ Moves(t, task[t].kind, "pop_buffer", task[t].server, task[t].passes)
      /\ IF task[t].kind = "out"
         THEN /\ receive_queue' = receive_queue
              /\ out_buffers # << >> /\ out_buffers' = Tail(out_buffers)
         ELSE /\ out_buffers' = out_buffers
              /\ receive_queue # << >> /\ receive_queue' = Tail(receive_queue)
  BY PopContainerMoves DEF IInv
<1>2. /\ UNCHANGED <<servers_in_use, counter, rest>> /\ counter' = counter
      /\ published' = published /\ call' = call /\ api' = api /\ cut' = cut
  BY DEF PopContainer, rest, history
<1>3. /\ \A u \in Tasks : u # t => task'[u] = task[u]
      /\ task'[t].kind = task[t].kind /\ task'[t].pc = "pop_buffer"
      /\ task'[t].server = task[t].server
  BY <1>1 DEF Moves
<1>4. /\ task'[t].written = task[t].written
      /\ task'[t].held = IF task[t].kind = "out" THEN << >> ELSE Head(receive_queue)
  <2>1. task \in [Tasks -> TaskType] /\ task[t] \in TaskType
    BY DEF IInv, Typed
  <2>2. task' = [task EXCEPT ![t].pc = "pop_buffer",
                             ![t].held = IF task[t].kind = "out" THEN << >>
                                         ELSE Head(receive_queue)]
    BY <1>1 DEF PopContainer
  <2> QED
    BY <2>1, <2>2 DEF TaskType
<1>5. /\ task[t].kind = "out" => api = "out" /\ call # "none"
      /\ task[t].kind # "out" => /\ api = "queue"
                                 /\ call # "none" \/ counter # NoCounter
  BY <1>1, KindOfWay DEF HasServer
<1>6. OneWay'
  BY <1>1, <1>2, <1>3, <1>5, TaskOneWay DEF MInv
<1>7. out_buffers \in Seq(OutBuffers) /\ receive_queue \in Seq(Seq(Messages))
  BY DEF IInv, Typed
<1>8. ASSUME task[t].kind = "out"
      PROVE  /\ Tail(out_buffers) \in Seq(OutBuffers)
             /\ Len(out_buffers) \in Nat \ {0}
             /\ Len(out_buffers') = Len(out_buffers) - 1
             /\ DOMAIN out_buffers' = 1 .. Len(out_buffers) - 1
             /\ DOMAIN out_buffers = 1 .. Len(out_buffers)
             /\ \A i \in 1 .. Len(out_buffers) - 1 :
                  out_buffers'[i] = out_buffers[i + 1]
  <2>1. /\ Tail(out_buffers) \in Seq(OutBuffers)
        /\ Len(out_buffers) \in Nat \ {0}
        /\ Len(Tail(out_buffers)) = Len(out_buffers) - 1
        /\ \A i \in 1 .. Len(out_buffers) - 1 :
             Tail(out_buffers)[i] = out_buffers[i + 1]
    BY <1>1, <1>7, <1>8, TailOf
  <2>2. DOMAIN Tail(out_buffers) = 1 .. Len(out_buffers) - 1
        /\ DOMAIN out_buffers = 1 .. Len(out_buffers)
    BY <1>7, <2>1
  <2> QED
    BY <1>1, <1>8, <2>1, <2>2
<1>9. Written'
  <2>1. WrittenOf(task[t]) /\ task[t].written = 0
    BY <1>1 DEF MInv, Written, WrittenOf
  <2>2. WrittenOf(task'[t])
    BY <1>3, <1>4, <2>1 DEF WrittenOf, HasContainer
  <2>3. \A i \in DOMAIN out_buffers' :
          Told(out_buffers'[i].data, out_buffers'[i].bytes_written)
    <3>1. CASE task[t].kind = "out"
      <4>1. \A i \in 1 .. Len(out_buffers) - 1 : i + 1 \in DOMAIN out_buffers
        BY <1>8, <3>1
      <4> QED
        BY <1>8, <3>1, <4>1 DEF MInv, Written
    <3>2. CASE task[t].kind # "out"
      BY <1>1, <3>2 DEF MInv, Written
    <3> QED
      BY <3>1, <3>2
  <2> QED
    BY <1>2, <1>3, <2>2, <2>3, TaskWritten DEF MInv
<1>10. /\ Cardinality(Resets) \in Nat /\ Cardinality(Resets') \in Nat
       /\ task[t].kind = "out" => Cardinality(Resets') = Cardinality(Resets) - 1
       /\ task[t].kind # "out" => Cardinality(Resets') = Cardinality(Resets)
  <2>1. /\ Resets \in SUBSET Tasks /\ Resets' \in SUBSET Tasks
        /\ \A u \in Tasks : u # t => (u \in Resets <=> u \in Resets')
        /\ t \in Resets <=> task[t].kind = "out"
        /\ t \notin Resets'
    BY <1>1, <1>3 DEF Resets
  <2>2. /\ Cardinality(Resets) \in Nat /\ Cardinality(Resets') \in Nat
        /\ (t \in Resets <=> t \in Resets') => Cardinality(Resets') = Cardinality(Resets)
        /\ t \in Resets /\ t \notin Resets' =>
             Cardinality(Resets') = Cardinality(Resets) - 1
    BY <2>1, CountMove
  <2> QED
    BY <2>1, <2>2
<1>11. /\ Cardinality(Resets) <= Len(out_buffers)
       /\ \A i \in DOMAIN out_buffers :
            i <= Cardinality(Resets) => out_buffers[i].data = << >>
  BY DEF MInv, Fresh
<1>12. /\ Shelves # << >> /\ Shelves' = Tail(Shelves) /\ task'[t].held = Head(Shelves)
  <2>1. CASE task[t].kind # "out"
    <3>1. Shelves = receive_queue /\ Shelves' = receive_queue'
      BY <1>2, <1>5, <2>1 DEF Shelves
    <3> QED
      BY <1>1, <1>4, <2>1, <3>1
  <2>2. CASE task[t].kind = "out"
    <3>1. /\ Shelves = [i \in DOMAIN out_buffers |-> out_buffers[i].data]
          /\ Shelves' = [i \in DOMAIN out_buffers' |-> out_buffers'[i].data]
      BY <1>2, <1>5, <2>2 DEF Shelves
    <3>2. Shelves' = Tail(Shelves)
      BY <1>1, <1>7, <2>2, <3>1, DataTaken
    <3>3. /\ Shelves \in Seq(Seq(Messages)) /\ Len(Shelves) = Len(out_buffers)
          /\ DOMAIN Shelves = DOMAIN out_buffers
          /\ \A i \in DOMAIN Shelves : Shelves[i] = out_buffers[i].data
      BY <1>5, <2>2, ShelvesType DEF IInv, MInv
    <3>4. 1 \in DOMAIN out_buffers /\ 1 <= Cardinality(Resets)
      BY <1>8, <1>10, <2>2
    <3>5. Shelves[1] = << >>
      BY <1>11, <3>3, <3>4
    <3> DEFINE M == Seq(Messages)
    <3>6. Shelves \in Seq(M) /\ Len(Shelves) \in Nat \ {0}
      BY <1>8, <2>2, <3>3
    <3> HIDE DEF M
    <3>7. Shelves # << >> /\ Head(Shelves) = Shelves[1]
      BY <3>6
    <3> QED
      BY <1>4, <2>2, <3>2, <3>5, <3>7
  <2> QED
    BY <2>1, <2>2
<1>13. Placed' /\ FreshServers'
  BY <1>1, <1>2, <1>3, <1>12, TakenPlaces
<1>14. Fresh'
  <2>1. ~ (api' = "queue" /\ call' = "none" /\ counter' = NoCounter)
    BY <1>2, <1>5
  <2>2. /\ Cardinality(Resets') <= Len(out_buffers')
        /\ \A i \in DOMAIN out_buffers' :
             i <= Cardinality(Resets') => out_buffers'[i].data = << >>
    <3>1. CASE task[t].kind # "out"
      BY <1>1, <1>10, <1>11, <3>1
    <3>2. CASE task[t].kind = "out"
      <4>1. Cardinality(Resets') <= Len(out_buffers')
        BY <1>8, <1>10, <1>11, <3>2
      <4>2. ASSUME NEW i \in DOMAIN out_buffers', i <= Cardinality(Resets')
            PROVE  out_buffers'[i].data = << >>
        <5>1. /\ i + 1 \in DOMAIN out_buffers /\ i + 1 <= Cardinality(Resets)
              /\ out_buffers'[i] = out_buffers[i + 1]
          BY <1>8, <1>10, <3>2, <4>2
        <5> QED
          BY <1>11, <5>1
      <4> QED
        BY <4>1, <4>2
    <3> QED
      BY <3>1, <3>2
  <2> QED
    BY <1>13, <2>1, <2>2 DEF Fresh, FreshServers
<1> QED
  BY <1>6, <1>9, <1>13, <1>14 DEF MInv

\* The task that puts back a queue, or an out buffer with what it tells.
LEMMA PushContainerPlaces ==
  ASSUME IInv, MInv, NEW t \in Tasks, PushContainer(t)
  PROVE  MInv'
<1> DEFINE x == OutBuffer(task[t].held, task[t].written)
<1>1. /\ task[t].pc = "push_container"
      /\ IF task[t].kind = "receive"
         THEN Moves(t, task[t].kind, "push_server", task[t].server, 0)
         ELSE Moves(t, "none", "idle", NoServer, 0)
      /\ IF task[t].kind = "out"
         THEN /\ receive_queue' = receive_queue
              /\ out_buffers' = Append(out_buffers, x)
         ELSE /\ out_buffers' = out_buffers
              /\ receive_queue' = Append(receive_queue, task[t].held)
  BY PushContainerMoves DEF IInv
<1>2. /\ UNCHANGED <<servers_in_use, counter, rest>> /\ counter' = counter
      /\ published' = published /\ call' = call /\ api' = api /\ cut' = cut
  BY DEF PushContainer, rest, history
<1>3. /\ \A u \in Tasks : u # t => task'[u] = task[u]
      /\ task'[t].kind \in {task[t].kind, "none"}
      /\ task'[t].pc \in {"idle", "push_server"}
  BY <1>1 DEF Moves
<1>4. task \in [Tasks -> TaskType] /\ task[t] \in TaskType
  BY DEF IInv, Typed
<1>5. task'[t].written = 0 /\ task'[t].held = << >>
  <2>1. task' = [Ended(t) EXCEPT ![t].held = << >>, ![t].written = 0,
                                 ![t].passes = 0]
    BY DEF PushContainer
  <2>2. CASE task[t].kind = "receive"
    BY <1>4, <2>1, <2>2 DEF Ended, Goto, TaskType
  <2>3. CASE task[t].kind # "receive"
    BY <1>4, <2>1, <2>3 DEF Ended, Idle
  <2> QED
    BY <2>2, <2>3
<1>6. /\ task[t].kind = "out" => api = "out" /\ call # "none"
      /\ task[t].kind # "out" => /\ api = "queue"
                                 /\ call # "none" \/ counter # NoCounter
  BY <1>1, KindOfWay DEF HasServer
<1>7. OneWay'
  BY <1>1, <1>2, <1>3, <1>6, TaskOneWay DEF MInv
<1>8. /\ out_buffers \in Seq(OutBuffers) /\ receive_queue \in Seq(Seq(Messages))
      /\ x \in OutBuffers /\ x.data = task[t].held /\ x.bytes_written = task[t].written
  BY <1>4 DEF IInv, Typed, OutBuffer, OutBuffers, TaskType
<1> HIDE DEF x
<1>9. ASSUME task[t].kind = "out"
      PROVE  /\ Len(out_buffers) \in Nat
             /\ Len(out_buffers') = Len(out_buffers) + 1
             /\ DOMAIN out_buffers = 1 .. Len(out_buffers)
             /\ DOMAIN out_buffers' = 1 .. Len(out_buffers) + 1
             /\ \A i \in 1 .. Len(out_buffers) : out_buffers'[i] = out_buffers[i]
             /\ out_buffers'[Len(out_buffers) + 1] = x
  <2> DEFINE p == Append(out_buffers, x)
  <2>1. /\ p \in Seq(OutBuffers) /\ Len(out_buffers) \in Nat
        /\ Len(p) = Len(out_buffers) + 1 /\ p[Len(out_buffers) + 1] = x
        /\ \A i \in 1 .. Len(out_buffers) : p[i] = out_buffers[i]
    BY <1>8, AppendOf
  <2> HIDE DEF p
  <2>2. DOMAIN p = 1 .. Len(out_buffers) + 1
        /\ DOMAIN out_buffers = 1 .. Len(out_buffers)
    BY <1>8, <2>1
  <2> QED
    BY <1>1, <1>9, <2>1, <2>2 DEF p
<1>10. Written'
  <2>1. WrittenOf(task[t])
    BY DEF MInv, Written
  <2>2. WrittenOf(task'[t])
    BY <1>3, <1>5 DEF WrittenOf, HasContainer
  <2>3. \A i \in DOMAIN out_buffers' :
          Told(out_buffers'[i].data, out_buffers'[i].bytes_written)
    <3>1. CASE task[t].kind = "out"
      <4>1. Told(x.data, x.bytes_written)
        BY <1>1, <1>8, <2>1, <3>1 DEF WrittenOf
      <4>2. \A i \in DOMAIN out_buffers : 
              Told(out_buffers[i].data, out_buffers[i].bytes_written)
        BY DEF MInv, Written
      <4>3. \A i \in DOMAIN out_buffers' :
              i = Len(out_buffers) + 1 \/ i \in 1 .. Len(out_buffers)
        BY <1>9, <3>1
      <4> QED
        BY <1>9, <3>1, <4>1, <4>2, <4>3
    <3>2. CASE task[t].kind # "out"
      BY <1>1, <3>2 DEF MInv, Written
    <3> QED
      BY <3>1, <3>2
  <2> QED
    BY <1>2, <1>3, <2>2, <2>3, TaskWritten DEF MInv
<1>11. Resets' = Resets
  BY <1>1, <1>3 DEF Resets
<1>12. /\ Cardinality(Resets) <= Len(out_buffers) /\ Cardinality(Resets) \in Nat
       /\ \A i \in DOMAIN out_buffers :
            i <= Cardinality(Resets) => out_buffers[i].data = << >>
  <2>1. Resets \in SUBSET Tasks
    BY DEF Resets
  <2>2. Cardinality(Resets) \in Nat
    BY <2>1, CountMove
  <2> QED
    BY <2>2 DEF MInv, Fresh
<1>13. Shelves' = Append(Shelves, task[t].held)
  <2>1. CASE task[t].kind # "out"
    BY <1>1, <1>2, <1>6, <2>1 DEF Shelves
  <2>2. CASE task[t].kind = "out"
    <3>1. /\ Shelves = [i \in DOMAIN out_buffers |-> out_buffers[i].data]
          /\ Shelves' = [i \in DOMAIN out_buffers' |-> out_buffers'[i].data]
      BY <1>2, <1>6, <2>2 DEF Shelves
    <3> QED
      BY <1>1, <1>8, <2>2, <3>1, DataPut
  <2> QED
    BY <2>1, <2>2
<1>14. Placed' /\ FreshServers'
  BY <1>1, <1>2, <1>3, <1>5, <1>13, PutPlaces
<1>15. Fresh'
  <2>1. ~ (api' = "queue" /\ call' = "none" /\ counter' = NoCounter)
    BY <1>2, <1>6
  <2>2. /\ Cardinality(Resets') <= Len(out_buffers')
        /\ \A i \in DOMAIN out_buffers' :
             i <= Cardinality(Resets') => out_buffers'[i].data = << >>
    <3>1. CASE task[t].kind # "out"
      BY <1>1, <1>11, <1>12, <3>1
    <3>2. CASE task[t].kind = "out"
      <4>1. Cardinality(Resets') <= Len(out_buffers')
        BY <1>9, <1>11, <1>12, <3>2
      <4>2. ASSUME NEW i \in DOMAIN out_buffers', i <= Cardinality(Resets')
            PROVE  out_buffers'[i].data = << >>
        <5>1. i \in DOMAIN out_buffers /\ out_buffers'[i] = out_buffers[i]
          BY <1>9, <1>11, <1>12, <3>2, <4>2
        <5> QED
          BY <1>11, <1>12, <4>2, <5>1
      <4> QED
        BY <4>1, <4>2
    <3> QED
      BY <3>1, <3>2
  <2> QED
    BY <1>14, <2>1, <2>2 DEF Fresh, FreshServers
<1> QED
  BY <1>7, <1>10, <1>14, <1>15 DEF MInv

-----------------------------------------------------------------------------
(***************************************************************************)
(* A task receives a message, or finds that there is none.                 *)
(***************************************************************************)

\* The stages of a server when no message of it is given or published.
LEMMA StagedStill ==
  ASSUME NEW s \in Servers, NEW a \in Nat, NEW b \in Nat, NEW c \in Nat,
         NEW d \in Nat, NEW e \in Nat, NEW f \in Nat,
         Staged(s, a, b, c, d), given' = given, published' = published,
         arrived' = arrived, cut \subseteq cut', b <= f, f <= e, e <= arrived[s],
         Stored(Shelves', Held', s, b, f), Numbers(ready'[s], f, e),
         Unread(socket'[s], e, arrived[s])
  PROVE  Staged(s, a, b, f, e)'
BY DEF Staged

\* One message more with task t, the only one that has any of its server.
LEMMA MorePlaced ==
  ASSUME IInv, MInv, NEW t \in Tasks, NEW s \in Servers, NEW m \in Messages,
         m.server = s, Lone(Shelves, Held, t, s), Shelves' = Shelves,
         \A u \in Tasks : u # t => task'[u] = task[u],
         task'[t].held = Append(task[t].held, m)
  PROVE  /\ Apart(Shelves', Held')
         /\ \A z, low, high : z # s /\ Stored(Shelves, Held, z, low, high) =>
                                Stored(Shelves', Held', z, low, high)
         /\ \A low \in Nat, high \in Nat :
              /\ Stored(Shelves, Held, s, low, high) /\ m.n = high + 1 /\ low <= high
              => Stored(Shelves', Held', s, low, high + 1)
         /\ \A low \in Nat, high \in Nat :
              /\ Stored(Shelves, Held, s, low, high) /\ m.n = high + 1
              => AllUpwards(Shelves', Held')
         /\ \A u, z : z # s /\ Lone(Shelves, Held, u, z) => Lone(Shelves', Held', u, z)
         /\ Lone(Shelves', Held', t, s)
<1>1. Shelves \in Seq(Seq(Messages)) /\ Held \in [Tasks -> Seq(Messages)]
  BY ShelvesType DEF IInv, MInv
<1>2. /\ Held'[t] = Append(Held[t], m)
      /\ \A u \in Tasks : u # t => Held'[u] = Held[u]
      /\ Held' = [u \in Tasks |-> Held'[u]]
  BY DEF Held
<1>3. PICK Q, H, G : Q = Shelves /\ H = Held /\ G = Held'
  OBVIOUS
<1>4. G = [H EXCEPT ![t] = Append(H[t], m)]
  <2> DEFINE y == Append(Held[t], m)
  <2>1. Held'[t] = y
    BY <1>2
  <2> HIDE DEF y
  <2>2. \A u \in Tasks : Held'[u] = [Held EXCEPT ![t] = y][u]
    BY <1>1, <1>2, <2>1
  <2>3. Held' = [u \in Tasks |-> [Held EXCEPT ![t] = y][u]]
    BY <1>2, <2>2
  <2>4. [Held EXCEPT ![t] = y] = [u \in Tasks |-> [Held EXCEPT ![t] = y][u]]
    BY <1>1
  <2>5. Held' = [Held EXCEPT ![t] = y]
    BY <2>3, <2>4
  <2> QED
    BY <1>3, <2>5 DEF y
<1>5. Lone(Q, H, t, m.server)
  BY <1>3
<1>6. Gathered(Q, H, G, m)
  <2>1. H \in [Tasks -> Seq(Messages)]
    BY <1>1, <1>3
  <2> QED
    BY <1>4, <1>5, <2>1, Gather
<1>7. Apart(Q, H) /\ AllUpwards(Q, H)
  BY <1>3 DEF MInv, Placed, Sorted
<1>8. \A z : z # s /\ Has(Held'[t], z) => Has(Held[t], z)
  <2> DEFINE w == Held[t]
             v == <<m>>
  <2>1. w \in Seq(Messages) /\ v \in Seq(Messages) /\ Append(w, m) = w \o v
    BY <1>1, AppendJoins
  <2>2. \A z : Has(v, z) <=> m.server = z
    BY OneMessage
  <2> HIDE DEF w, v
  <2>3. \A z : Has(w \o v, z) <=> Has(w, z) \/ Has(v, z)
    BY <2>1, Joined
  <2>4. \A z : z # s /\ Has(Append(w, m), z) => Has(w, z)
    BY <2>1, <2>2, <2>3
  <2> QED
    BY <1>2, <2>4 DEF w
<1>9. \A u, z : z # s /\ Lone(Shelves, Held, u, z) => Lone(Shelves', Held', u, z)
  BY <1>2, <1>8 DEF Lone
<1>10. Lone(Shelves', Held', t, s)
  BY <1>2 DEF Lone
<1> QED
  BY <1>3, <1>6, <1>7, <1>9, <1>10 DEF Gathered

LEMMA ReceiveOnePlaces ==
  ASSUME IInv, MInv, NEW t \in Tasks, ReceiveOne(t)
  PROVE  MInv'
<1> DEFINE s    == task[t].server
           r    == receive_loop(s)
           m    == [server |-> s, n |-> r.n]
           got  == Append(task[t].held, m)
           last == task[t].passes + 1 = PASSES
<1>1. /\ task[t].pc = "receive" /\ s \in Servers
      /\ \A u \in Tasks : u # t => task'[u] = task[u]
      /\ task'[t].kind = task[t].kind /\ task'[t].server = s
      /\ task'[t].pc \in {"receive", "push_buffer"}
  BY ReceiveOneMoves DEF IInv, Moves
<1>2. task \in [Tasks -> TaskType] /\ task[t] \in TaskType
  BY DEF IInv, Typed
<1>3. /\ socket' = [socket EXCEPT ![s] = r.socket]
      /\ ready' = [ready EXCEPT ![s] = r.ready]
      /\ task' = IF r.found
                 THEN [task EXCEPT ![t].held = got, ![t].passes = @ + 1,
                                   ![t].pc = IF last THEN "push_buffer" ELSE @]
                 ELSE [task EXCEPT ![t].pc = "push_buffer",
                                   ![t].written = Len(task[t].held)]
      /\ cut' = IF r.found /\ last /\ task[t].kind = "out"
                THEN cut \cup ToSet(got) ELSE cut
  BY DEF ReceiveOne
<1>4. /\ r.found \in BOOLEAN /\ r.found => r.n \in Nat \ {0}
  BY <1>1, ReceiveLoopType DEF IInv
<1>5. /\ receive_queue' = receive_queue /\ out_buffers' = out_buffers
      /\ servers_in_use' = servers_in_use /\ published' = published
      /\ counter' = counter /\ call' = call /\ api' = api /\ arrived' = arrived
      /\ given' = given
  BY DEF ReceiveOne, pool, queues
<1>6. /\ socket \in [Servers -> Seq(Packet)] /\ ready \in [Servers -> Seq(Nat \ {0})]
      /\ arrived \in [Servers -> Nat]
  BY DEF IInv, Typed
<1>7. PICK a \in 0 .. arrived[s], b \in 0 .. arrived[s], c \in 0 .. arrived[s],
           d \in 0 .. arrived[s] : Staged(s, a, b, c, d)
  BY <1>1 DEF MInv, Placed, Lined
<1>8. /\ a \in Nat /\ b \in Nat /\ c \in Nat /\ d \in Nat /\ arrived[s] \in Nat
      /\ a <= b /\ b <= c /\ c <= d /\ d <= arrived[s]
      /\ Numbers(ready[s], c, d) /\ Unread(socket[s], d, arrived[s])
      /\ Stored(Shelves, Held, s, b, c)
  BY <1>1, <1>6, <1>7 DEF Staged
<1>9. PICK e \in Nat, f \in Nat :
        /\ f = (IF r.found THEN c + 1 ELSE c)
        /\ r.found => r.n = c + 1
        /\ f <= e /\ e <= arrived[s]
        /\ Numbers(r.ready, f, e)
        /\ Unread(r.socket, e, arrived[s])
  BY <1>1, <1>8, LoopReads DEF IInv
<1>10. /\ ready'[s] = r.ready /\ socket'[s] = r.socket
       /\ \A z \in Servers : z # s => ready'[z] = ready[z] /\ socket'[z] = socket[z]
  <2> HIDE DEF r
  <2> QED
    BY <1>1, <1>3, <1>6
<1>11. cut \subseteq cut'
  BY <1>3
<1>12. Shelves' = Shelves
  BY <1>5 DEF Shelves
<1>13. Lone(Shelves, Held, t, s)
  BY <1>1 DEF MInv, Fresh, Unserved
<1> HIDE DEF r
<1>14. /\ r.found => /\ task'[t].held = got /\ task'[t].written = task[t].written
                     /\ task'[t].pc = "push_buffer" => last
       /\ ~ r.found => /\ task'[t].held = task[t].held
                       /\ task'[t].written = Len(task[t].held)
                       /\ task'[t].pc = "push_buffer"
  <2> HIDE DEF got, last
  <2>1. CASE r.found
    BY <1>1, <1>2, <1>3, <2>1 DEF TaskType
  <2>2. CASE ~ r.found
    BY <1>2, <1>3, <2>2 DEF TaskType
  <2> QED
    BY <2>1, <2>2
<1>15. r.found => m \in Messages /\ m.server = s /\ m.n = c + 1
  BY <1>1, <1>4, <1>9 DEF Messages
<1>16. task[t].held \in Seq(Messages)
  BY <1>2 DEF TaskType
<1>17. OneWay'
  BY <1>1, <1>5, TaskOneWay DEF MInv
<1>18. /\ Apart(Shelves', Held') /\ AllUpwards(Shelves', Held')
       /\ Stored(Shelves', Held', s, b, f)
       /\ \A z, low, high : z # s /\ Stored(Shelves, Held, z, low, high) =>
                              Stored(Shelves', Held', z, low, high)
       /\ \A u, z : z # s /\ Lone(Shelves, Held, u, z) => Lone(Shelves', Held', u, z)
       /\ Lone(Shelves', Held', t, s)
  <2>1. CASE r.found
    <3>1. task'[t].held = Append(task[t].held, m) /\ f = c + 1
      BY <1>9, <1>14, <2>1
    <3>2. m \in Messages /\ m.server = s /\ m.n = c + 1
      BY <1>15, <2>1
    <3> HIDE DEF s, m, got
    <3>3. /\ Apart(Shelves', Held')
          /\ \A z, low, high : z # s /\ Stored(Shelves, Held, z, low, high) =>
                                 Stored(Shelves', Held', z, low, high)
          /\ \A low \in Nat, high \in Nat :
               /\ Stored(Shelves, Held, s, low, high) /\ m.n = high + 1 /\ low <= high
               => Stored(Shelves', Held', s, low, high + 1)
          /\ \A low \in Nat, high \in Nat :
               /\ Stored(Shelves, Held, s, low, high) /\ m.n = high + 1
               => AllUpwards(Shelves', Held')
          /\ \A u, z : z # s /\ Lone(Shelves, Held, u, z) => Lone(Shelves', Held', u, z)
          /\ Lone(Shelves', Held', t, s)
      BY <1>1, <1>12, <1>13, <3>1, <3>2, MorePlaced
    <3> QED
      BY <1>8, <3>1, <3>2, <3>3
  <2>2. CASE ~ r.found
    <3>1. Held' = Held /\ f = c
      BY <1>1, <1>9, <1>14, <2>2, HeldStays
    <3>2. Apart(Shelves, Held) /\ AllUpwards(Shelves, Held)
      BY DEF MInv, Placed, Sorted
    <3> QED
      BY <1>8, <1>12, <1>13, <3>1, <3>2
  <2> QED
    BY <2>1, <2>2
<1>19. Written'
  <2>1. WrittenOf(task[t]) /\ task[t].written = 0
    BY <1>1 DEF MInv, Written, WrittenOf
  <2>2. \A x, y : Told(x, y) => Told(x, y)'
    BY <1>11 DEF Told
  <2>3. \A x : WrittenOf(x) => WrittenOf(x)'
    BY <2>2 DEF WrittenOf
  <2>4. PICK x : x = task'[t]
    OBVIOUS
  <2>5. WrittenOf(x)'
    <3>1. CASE x.pc = "receive"
      <4>1. x.written = 0
        BY <1>14, <2>1, <2>4, <3>1
      <4> QED
        BY <3>1, <4>1 DEF WrittenOf, HasContainer
    <3>2. CASE x.pc = "push_buffer" /\ ~ r.found
      <4>1. x.written = Len(x.held)
        BY <1>14, <2>4, <3>2
      <4> QED
        BY <3>2, <4>1 DEF WrittenOf, HasContainer, Told
    <3>3. CASE x.pc = "push_buffer" /\ r.found
      <4>1. x.written = 0 /\ x.held = got /\ last /\ x.kind = task[t].kind
        BY <1>1, <1>14, <2>1, <2>4, <3>3
      <4>2. x.kind = "out" => \A i \in DOMAIN x.held : x.held[i] \in cut'
        <5> HIDE DEF got, last
        <5> QED
          BY <1>3, <3>3, <4>1 DEF ToSet
      <4> QED
        BY <3>3, <4>1, <4>2 DEF WrittenOf, HasContainer, Told
    <3> QED
      BY <1>1, <2>4, <3>1, <3>2, <3>3
  <2>6. \A u \in Tasks : WrittenOf(task[u])
    BY DEF MInv, Written
  <2>7. \A i \in DOMAIN out_buffers :
          Told(out_buffers[i].data, out_buffers[i].bytes_written)
    BY DEF MInv, Written
  <2> QED
    BY <1>1, <1>5, <2>2, <2>3, <2>4, <2>5, <2>6, <2>7 DEF Written
<1>20. Fresh'
  <2>1. \A u \in Tasks : u # t => task[u].server # s
    BY <1>1, PoolAssumption DEF IInv, Owners
  <2>2. \A i \in DOMAIN servers_in_use : servers_in_use[i] # s
    BY <1>1 DEF IInv, Owners
  <2>3. ToCome' = ToCome /\ Resets' = Resets
    BY <1>1 DEF ToCome, Resets
  <2>4. \A u \in Tasks : task'[u].pc \in Unserved =>
                           Lone(Shelves', Held', u, task'[u].server)
    BY <1>1, <1>18, <2>1 DEF MInv, Fresh
  <2>5. counter' # NoCounter =>
          \A i \in DOMAIN servers_in_use' :
            i <= Cardinality(ToCome') => Lone(Shelves', Held', 0, servers_in_use'[i])
    BY <1>5, <1>18, <2>2, <2>3 DEF MInv, Fresh
  <2> QED
    BY <1>5, <2>3, <2>4, <2>5 DEF MInv, Fresh
<1>21. Placed'
  <2>1. Sorted'
    BY <1>5, <1>18 DEF MInv, Placed, Sorted
  <2>2. ASSUME NEW z \in Servers
        PROVE  \E k, l, n, o \in 0 .. arrived'[z] : Staged(z, k, l, n, o)'
    <3>1. CASE z = s
      <4>1. /\ Staged(z, a, b, c, d) /\ b <= f /\ f <= e /\ e <= arrived[z]
            /\ Stored(Shelves', Held', z, b, f)
            /\ Numbers(ready'[z], f, e) /\ Unread(socket'[z], e, arrived[z])
        <5> HIDE DEF s
        <5>1. b <= f
          BY <1>8, <1>9
        <5> QED
          BY <1>7, <1>9, <1>10, <1>18, <3>1, <5>1
      <4>2. Staged(z, a, b, f, e)'
        BY <1>5, <1>8, <1>9, <1>11, <4>1, StagedStill
      <4>3. /\ a \in 0 .. arrived'[z] /\ b \in 0 .. arrived'[z]
            /\ f \in 0 .. arrived'[z] /\ e \in 0 .. arrived'[z]
        BY <1>5, <1>7, <1>8, <1>9, <3>1
      <4> QED
        BY <4>2, <4>3
    <3>2. CASE z # s
      <4>1. PICK k \in 0 .. arrived[z], l \in 0 .. arrived[z], n \in 0 .. arrived[z],
                 o \in 0 .. arrived[z] : Staged(z, k, l, n, o)
        BY DEF MInv, Placed, Lined
      <4>2. arrived[z] \in Nat
        BY <1>6
      <4>3. /\ k \in Nat /\ l \in Nat /\ n \in Nat /\ o \in Nat
            /\ l <= n /\ n <= o /\ o <= arrived[z]
            /\ Stored(Shelves, Held, z, l, n)
            /\ Numbers(ready[z], n, o) /\ Unread(socket[z], o, arrived[z])
        BY <4>1, <4>2 DEF Staged
      <4>4. /\ Stored(Shelves', Held', z, l, n)
            /\ Numbers(ready'[z], n, o) /\ Unread(socket'[z], o, arrived[z])
        BY <1>10, <1>18, <3>2, <4>3
      <4>5. Staged(z, k, l, n, o)'
        BY <1>5, <1>11, <4>1, <4>3, <4>4, StagedStill
      <4> QED
        BY <1>5, <4>1, <4>5
    <3> QED
      BY <3>1, <3>2
  <2> QED
    BY <1>18, <2>1, <2>2 DEF Placed, Lined
<1> QED
  BY <1>17, <1>19, <1>20, <1>21 DEF MInv

-----------------------------------------------------------------------------
(***************************************************************************)
(* Steps of the network and of the application while the tasks and their   *)
(* containers stay as they are.                                            *)
(***************************************************************************)
LEMMA SameHands ==
  ASSUME MInv, UNCHANGED <<task, servers_in_use, receive_queue, out_buffers, counter,
                           call, api, cut>>,
         api = "out" => published' = << >>
  PROVE  OneWay' /\ Written' /\ Fresh' /\ Shelves' = Shelves /\ Held' = Held
<1>1. Shelves' = Shelves /\ Held' = Held
  BY DEF Shelves, Held
<1>2. OneWay'
  BY DEF MInv, OneWay
<1>3. Written'
  BY DEF MInv, Written, WrittenOf, Told
<1>4. Fresh'
  <2>1. ToCome' = ToCome /\ Resets' = Resets
    BY DEF ToCome, Resets
  <2> QED
    BY <1>1, <2>1 DEF MInv, Fresh
<1> QED
  BY <1>1, <1>2, <1>3, <1>4

\* One packet more in a socket goes on where the others end.
LEMMA UnreadMore ==
  ASSUME NEW q \in Seq(Packet), NEW p \in Packet, NEW low \in Nat, NEW high \in Nat,
         low <= high, Unread(q, low, high), p.low = high, p.low <= p.high
  PROVE  Unread(Append(q, p), low, p.high)
<1> DEFINE r == Append(q, p)
           l == Len(q) + 1
<1>1. /\ r \in Seq(Packet) /\ Len(q) \in Nat /\ Len(r) = l /\ r[l] = p
      /\ \A i \in 1 .. Len(q) : r[i] = q[i]
  BY AppendOf
<1>2. /\ DOMAIN q = 1 .. Len(q) /\ DOMAIN r = 1 .. l /\ r # << >> /\ l \in Nat
      /\ q = << >> <=> Len(q) = 0
  BY <1>1
<1>3. /\ q = << >> => low = high
      /\ q # << >> => q[1].low = low /\ q[Len(q)].high = high
      /\ \A i \in DOMAIN q : low <= q[i].low /\ q[i].low <= q[i].high /\ q[i].high <= high
      /\ \A i, j \in DOMAIN q : i < j => q[i].high <= q[j].low
      /\ \A i \in DOMAIN q : i # Len(q) => q[i].high = q[i + 1].low
  BY DEF Unread
<1>4. p.low \in Nat /\ p.high \in Nat
  BY DEF Packet
<1>5. \A i \in 1 .. Len(q) : q[i].low \in Nat /\ q[i].high \in Nat
  <2>1. \A i \in 1 .. Len(q) : q[i] \in Packet
    OBVIOUS
  <2> QED
    BY <2>1 DEF Packet
<1> HIDE DEF r
<1>6. \A i \in DOMAIN r : i \in 1 .. Len(q) \/ i = l
  BY <1>1, <1>2
<1>7. r[1].low = low /\ r[Len(r)].high = p.high
  <2>1. CASE q = << >>
    BY <1>1, <1>2, <1>3, <2>1
  <2>2. CASE q # << >>
    <3>1. 1 \in 1 .. Len(q)
      BY <1>1, <1>2, <2>2
    <3> QED
      BY <1>1, <1>3, <2>2, <3>1
  <2> QED
    BY <2>1, <2>2
<1>8. ASSUME NEW i \in DOMAIN r
      PROVE  low <= r[i].low /\ r[i].low <= r[i].high /\ r[i].high <= p.high
  <2>1. CASE i = l
    BY <1>1, <1>4, <2>1
  <2>2. CASE i \in 1 .. Len(q)
    BY <1>1, <1>2, <1>3, <1>4, <1>5, <2>2
  <2> QED
    BY <1>6, <2>1, <2>2
<1>9. ASSUME NEW i \in DOMAIN r, NEW j \in DOMAIN r, i < j PROVE r[i].high <= r[j].low
  <2>1. i \in 1 .. Len(q)
    BY <1>1, <1>2, <1>9
  <2>2. CASE j = l
    BY <1>1, <1>2, <1>3, <2>1, <2>2
  <2>3. CASE j \in 1 .. Len(q)
    BY <1>1, <1>2, <1>3, <1>9, <2>1, <2>3
  <2> QED
    BY <1>6, <2>2, <2>3
<1>10. ASSUME NEW i \in DOMAIN r, i # Len(r) PROVE r[i].high = r[i + 1].low
  <2>1. i \in 1 .. Len(q) /\ q # << >>
    BY <1>1, <1>2, <1>6, <1>10
  <2>2. CASE i = Len(q)
    BY <1>1, <1>3, <2>1, <2>2
  <2>3. CASE i # Len(q)
    <3>1. i + 1 \in 1 .. Len(q)
      BY <1>1, <2>1, <2>3
    <3> QED
      BY <1>1, <1>2, <1>3, <2>1, <2>3, <3>1
  <2> QED
    BY <2>2, <2>3
<1>11. Unread(r, low, p.high)
  BY <1>2, <1>7, <1>8, <1>9, <1>10 DEF Unread
<1> QED
  BY <1>11 DEF r

LEMMA ArrivePlaces ==
  ASSUME IInv, MInv, NEW s \in Servers, NEW kind \in Kinds, NEW count \in Nat,
         Arrive(s, kind, count)
  PROVE  MInv'
<1> DEFINE p == [kind |-> kind, low |-> arrived[s], high |-> arrived[s] + count]
<1>1. /\ UNCHANGED <<task, servers_in_use, receive_queue, out_buffers, counter,
                     call, api, cut>>
      /\ published' = published /\ ready' = ready /\ given' = given
  BY DEF Arrive, pool, queues, history
<1>2. /\ arrived' = [arrived EXCEPT ![s] = @ + count]
      /\ socket' = [socket EXCEPT ![s] = Append(@, p)]
  BY DEF Arrive
<1>3. /\ socket \in [Servers -> Seq(Packet)] /\ arrived \in [Servers -> Nat]
  BY DEF IInv, Typed
<1>4. /\ arrived'[s] = arrived[s] + count
      /\ socket'[s] = Append(socket[s], p)
      /\ \A z \in Servers : z # s => arrived'[z] = arrived[z] /\ socket'[z] = socket[z]
  BY <1>2, <1>3
<1>5. p \in Packet /\ p.low = arrived[s] /\ p.high = arrived[s] + count
  BY <1>3 DEF Packet
<1>6. OneWay' /\ Written' /\ Fresh' /\ Shelves' = Shelves /\ Held' = Held
  BY <1>1, SameHands DEF MInv, OneWay
<1>7. Apart(Shelves', Held') /\ Sorted'
  BY <1>1, <1>6 DEF MInv, Placed, Sorted
<1> HIDE DEF p
<1>8. ASSUME NEW z \in Servers
      PROVE  \E a, b, c, d \in 0 .. arrived'[z] : Staged(z, a, b, c, d)'
  <2>1. PICK a \in 0 .. arrived[z], b \in 0 .. arrived[z], c \in 0 .. arrived[z],
             d \in 0 .. arrived[z] : Staged(z, a, b, c, d)
    BY DEF MInv, Placed, Lined
  <2>2. arrived[z] \in Nat /\ socket[z] \in Seq(Packet) /\ d \in Nat
    BY <1>3, <2>1
  <2>3. arrived'[z] \in Nat /\ arrived[z] <= arrived'[z]
    BY <1>4, <2>2
  <2>4. Unread(socket'[z], d, arrived'[z])
    <3>1. Unread(socket[z], d, arrived[z]) /\ d <= arrived[z]
      BY <2>1 DEF Staged
    <3>2. CASE z # s
      BY <1>4, <3>1, <3>2
    <3>3. CASE z = s
      <4>1. Unread(Append(socket[s], p), d, p.high)
        BY <1>5, <2>2, <3>1, <3>3, UnreadMore
      <4> QED
        BY <1>4, <1>5, <3>3, <4>1
    <3> QED
      BY <3>2, <3>3
  <2>5. Staged(z, a, b, c, d)'
    <3>1. d <= arrived'[z]
      BY <2>1, <2>2, <2>3
    <3> QED
      BY <1>1, <1>6, <2>1, <2>4, <3>1 DEF Staged
  <2>6. \A k \in 0 .. arrived[z] : k \in 0 .. arrived'[z]
    BY <2>2, <2>3
  <2> QED
    BY <2>1, <2>5, <2>6
<1> QED
  BY <1>6, <1>7, <1>8 DEF MInv, Placed, Lined

\* The first of the published messages of its server is the next one.
LEMMA FirstPublished ==
  ASSUME NEW m \in Messages, NEW p \in Seq(Messages), NEW q, q = <<m>> \o p,
         Upwards(q), NEW a \in Nat, NEW b \in Nat, a <= b,
         Between(q, m.server, a, b),
         \A n \in a + 1 .. b : HasMessage(q, m.server, n)
  PROVE  /\ m.n = a + 1 /\ a + 1 <= b /\ Between(p, m.server, a + 1, b)
         /\ \A n \in (a + 1) + 1 .. b : HasMessage(p, m.server, n)
<1> DEFINE x == <<m>>
           s == m.server
<1>1. /\ x \in Seq(Messages) /\ DOMAIN x = {1} /\ x[1] = m
      /\ \A n : HasMessage(x, s, n) <=> m.n = n
      /\ \A low, high : Between(x, s, low, high) <=> low < m.n /\ m.n <= high
  BY OneMessage
<1>2. m.n \in Nat /\ \A j \in DOMAIN p : p[j].n \in Nat
  <2>1. \A j \in DOMAIN p : p[j] \in Messages
    OBVIOUS
  <2> QED
    BY <2>1 DEF Messages
<1> HIDE DEF x
<1>3. q = x \o p
  BY DEF x
<1>4. /\ \A n : HasMessage(q, s, n) <=> HasMessage(x, s, n) \/ HasMessage(p, s, n)
      /\ \A low, high : Between(q, s, low, high) <=>
                          Between(x, s, low, high) /\ Between(p, s, low, high)
      /\ \A i \in DOMAIN x, j \in DOMAIN p : x[i].server = p[j].server => x[i].n < p[j].n
  <2>1. x \in Seq(Messages) /\ p \in Seq(Messages) /\ Upwards(x \o p)
    BY <1>1, <1>3
  <2> QED
    BY <1>3, <2>1, Joined
<1>5. \A j \in DOMAIN p : p[j].server = s => m.n < p[j].n
  BY <1>1, <1>4
<1>6. a < m.n /\ m.n <= b /\ Between(p, s, a, b)
  BY <1>1, <1>4
<1>7. m.n = a + 1
  <2>1. a + 1 \in a + 1 .. b
    BY <1>2, <1>6
  <2>2. HasMessage(x, s, a + 1) \/ HasMessage(p, s, a + 1)
    BY <1>4, <2>1
  <2>3. CASE HasMessage(x, s, a + 1)
    BY <1>1, <2>3
  <2>4. CASE HasMessage(p, s, a + 1)
    BY <1>2, <1>5, <1>6, <2>4 DEF HasMessage
  <2> QED
    BY <2>2, <2>3, <2>4
<1>8. Between(p, s, a + 1, b)
  BY <1>5, <1>6, <1>7 DEF Between
<1>9. \A n \in (a + 1) + 1 .. b : HasMessage(p, s, n)
  <2> TAKE n \in (a + 1) + 1 .. b
  <2>1. n \in a + 1 .. b /\ n # m.n
    BY <1>7
  <2> QED
    BY <1>1, <1>4, <2>1
<1> QED
  BY <1>6, <1>7, <1>8, <1>9

LEMMA TakePublishedPlaces ==
  ASSUME IInv, MInv, take_published
  PROVE  MInv'
<1>1. /\ published # << >> /\ given' = given \o <<Head(published)>>
      /\ published' = Tail(published)
      /\ UNCHANGED <<task, servers_in_use, receive_queue, out_buffers, counter,
                     call, api, cut>>
      /\ ready' = ready /\ arrived' = arrived /\ socket' = socket
  BY DEF take_published, Give, network
<1>2. published \in Seq(Messages) /\ given \in Seq(Messages)
  BY DEF IInv, Typed, MInv, Placed, Sorted
<1>3. PICK m, p, q : m = Head(published) /\ p = Tail(published) /\ q = published
  OBVIOUS
<1>4. m \in Messages /\ p \in Seq(Messages) /\ q = <<m>> \o p
  BY <1>1, <1>2, <1>3, FirstAndRest
<1>5. api # "out"
  BY <1>1 DEF MInv, OneWay
<1>6. OneWay' /\ Written' /\ Fresh' /\ Shelves' = Shelves /\ Held' = Held
  BY <1>1, <1>5, SameHands
<1>7. Upwards(q) /\ Upwards(given) /\ Apart(Shelves, Held) /\ AllUpwards(Shelves, Held)
  BY <1>3 DEF MInv, Placed, Sorted
<1> DEFINE x == <<m>>
<1>8. /\ x \in Seq(Messages) /\ Upwards(x) /\ \A i \in DOMAIN x : x[i] = m
      /\ \A s, n : HasMessage(x, s, n) <=> m.server = s /\ m.n = n
      /\ \A s, low, high : Between(x, s, low, high) <=>
                             (m.server = s => low < m.n /\ m.n <= high)
  BY <1>4, OneMessage
<1> HIDE DEF x
<1>9. q = x \o p /\ given' = given \o x /\ published' = p /\ published = q
  BY <1>1, <1>3, <1>4 DEF x
<1>10. /\ \A s, n : HasMessage(q, s, n) <=> HasMessage(x, s, n) \/ HasMessage(p, s, n)
       /\ \A s, low, high : Between(q, s, low, high) <=>
                              Between(x, s, low, high) /\ Between(p, s, low, high)
       /\ Upwards(p)
  BY <1>4, <1>7, <1>8, <1>9, Joined
<1>11. /\ given \o x \in Seq(Messages)
       /\ \A s, n : HasMessage(given \o x, s, n) <=>
                      HasMessage(given, s, n) \/ HasMessage(x, s, n)
       /\ \A s, low, high : Between(given \o x, s, low, high) <=>
                              Between(given, s, low, high) /\ Between(x, s, low, high)
       /\ Upwards(given \o x) <=>
            /\ Upwards(given) /\ Upwards(x)
            /\ \A i \in DOMAIN given, j \in DOMAIN x :
                 given[i].server = x[j].server => given[i].n < x[j].n
  BY <1>2, <1>8, Joined
<1>12. ASSUME NEW s \in Servers
       PROVE  /\ \E a, b, c, d \in 0 .. arrived'[s] : Staged(s, a, b, c, d)'
              /\ m.server = s => \A i \in DOMAIN given :
                                   given[i].server = s => given[i].n < m.n
  <2>1. PICK a \in 0 .. arrived[s], b \in 0 .. arrived[s], c \in 0 .. arrived[s],
             d \in 0 .. arrived[s] : Staged(s, a, b, c, d)
    BY DEF MInv, Placed, Lined
  <2>2. /\ a <= b /\ b <= c /\ c <= d /\ d <= arrived[s]
        /\ Between(given, s, 0, a)
        /\ \A n \in 1 .. a : HasMessage(given, s, n) \/ [server |-> s, n |-> n] \in cut
        /\ Between(q, s, a, b)
        /\ \A n \in a + 1 .. b : HasMessage(q, s, n)
        /\ Stored(Shelves, Held, s, b, c)
        /\ Numbers(ready[s], c, d)
        /\ Unread(socket[s], d, arrived[s])
    BY <1>3, <2>1 DEF Staged
  <2>3. arrived[s] \in Nat /\ a \in Nat /\ b \in Nat
    BY <2>1 DEF IInv, Typed
  <2>4. CASE m.server # s
    <3>1. Staged(s, a, b, c, d)'
      BY <1>1, <1>6, <1>8, <1>9, <1>10, <1>11, <2>2, <2>4 DEF Staged
    <3> QED
      BY <1>1, <2>1, <2>4, <3>1
  <2>5. CASE m.server = s
    <3>1. /\ m.n = a + 1 /\ a + 1 <= b /\ Between(p, s, a + 1, b)
          /\ \A n \in (a + 1) + 1 .. b : HasMessage(p, s, n)
      BY <1>4, <1>7, <2>2, <2>3, <2>5, FirstPublished
    <3>2. \A i \in DOMAIN given : given[i].n \in Nat
      <4>1. \A i \in DOMAIN given : given[i] \in Messages
        BY <1>2
      <4> QED
        BY <4>1 DEF Messages
    <3>3. \A i \in DOMAIN given : given[i].server = s => given[i].n < m.n
      BY <2>2, <2>3, <3>1, <3>2 DEF Between
    <3>4. Between(given', s, 0, a + 1)
      <4>1. Between(given, s, 0, a + 1)
        BY <2>2, <2>3, <3>2 DEF Between
      <4>2. Between(x, s, 0, a + 1)
        BY <1>8, <2>3, <3>1
      <4> QED
        BY <1>9, <1>11, <4>1, <4>2
    <3>5. ASSUME NEW n \in 1 .. a + 1
          PROVE  HasMessage(given', s, n) \/ [server |-> s, n |-> n] \in cut'
      <4>1. n \in 1 .. a \/ n = m.n
        BY <2>3, <3>1
      <4>2. CASE n \in 1 .. a
        BY <1>1, <1>9, <1>11, <2>2, <4>2
      <4>3. CASE n = m.n
        <5>1. HasMessage(x, s, n)
          BY <1>8, <2>5, <4>3
        <5> QED
          BY <1>9, <1>11, <5>1
      <4> QED
        BY <4>1, <4>2, <4>3
    <3>6. Staged(s, a + 1, b, c, d)'
      BY <1>1, <1>6, <1>9, <2>2, <3>1, <3>4, <3>5 DEF Staged
    <3>7. a + 1 \in 0 .. arrived[s]
      BY <2>1, <2>3, <3>1
    <3> QED
      BY <1>1, <2>1, <3>3, <3>6, <3>7
  <2> QED
    BY <2>4, <2>5
<1>13. Upwards(given')
  <2>1. m.server \in Servers
    BY <1>4 DEF Messages
  <2>2. \A i \in DOMAIN given, j \in DOMAIN x :
          given[i].server = x[j].server => given[i].n < x[j].n
    BY <1>8, <1>12, <2>1
  <2> QED
    BY <1>7, <1>8, <1>9, <1>11, <2>2
<1>14. Sorted' /\ Apart(Shelves', Held')
  BY <1>6, <1>7, <1>9, <1>10, <1>11, <1>13 DEF Sorted
<1> QED
  BY <1>6, <1>12, <1>14 DEF MInv, Placed, Lined

-----------------------------------------------------------------------------
(***************************************************************************)
(* The next out buffer.                                                    *)
(***************************************************************************)

LEMMA BackBy ==
  ASSUME NEW n \in Int, NEW k \in Int, NEW i \in Int, i <= n - 1, ~ (i <= n - k)
  PROVE  i - (n - k) \in 1 .. k - 1 /\ (n - k) + (i - (n - k)) = i
OBVIOUS

\* p is q with entry k taken out, the rest rotated, and x at the end.
Rotation(S, q, k, x, p) ==
  /\ Len(q) \in Nat \ {0} /\ p \in Seq(S) /\ Len(p) = Len(q) /\ p[Len(q)] = x
  /\ \A i \in 1 .. Len(q) - 1 :
       p[i] = q[IF i <= Len(q) - k THEN i + k ELSE i - (Len(q) - k)]

LEMMA Rotated ==
  ASSUME NEW S, NEW q \in Seq(S), NEW k \in DOMAIN q, NEW x \in S
  PROVE  Rotation(S, q, k, x,
                  SubSeq(q, k + 1, Len(q)) \o SubSeq(q, 1, k - 1) \o <<x>>)
<1> DEFINE n == Len(q)
           u == SubSeq(q, k + 1, n)
           v == SubSeq(q, 1, k - 1)
           w == u \o v
           p == SubSeq(q, k + 1, Len(q)) \o SubSeq(q, 1, k - 1) \o <<x>>
<1>1. n \in Nat \ {0} /\ k \in 1 .. n /\ \A i \in 1 .. n : q[i] \in S
  OBVIOUS
<1>2. /\ u \in Seq(S) /\ Len(u) = n - k /\ \A i \in 1 .. n - k : u[i] = q[k + i]
  <2>1. k \in 0 .. Len(q)
    BY <1>1
  <2> QED
    BY <2>1, RestOf
<1>3. /\ v \in Seq(S) /\ Len(v) = k - 1 /\ \A i \in 1 .. k - 1 : v[i] = q[i]
  BY <1>1
<1> HIDE DEF u, v, n
<1>4. /\ w \in Seq(S) /\ Len(w) = n - 1
      /\ \A i \in 1 .. n - k : w[i] = u[i]
      /\ \A i \in 1 .. k - 1 : w[(n - k) + i] = v[i]
  <2>1. /\ w \in Seq(S) /\ Len(w) = Len(u) + Len(v)
        /\ \A i \in 1 .. Len(u) : w[i] = u[i]
        /\ \A i \in 1 .. Len(v) : w[Len(u) + i] = v[i]
    <3>1. u \in Seq(S) /\ v \in Seq(S)
      BY <1>2, <1>3
    <3> QED
      BY <3>1, JoinOf
  <2> HIDE DEF w
  <2>2. /\ Len(u) = n - k /\ Len(v) = k - 1 /\ (n - k) + (k - 1) = n - 1
    BY <1>1, <1>2, <1>3
  <2> QED
    BY <2>1, <2>2
<1> HIDE DEF w
<1>5. p = w \o <<x>>
  BY DEF w, u, v, n
<1> HIDE DEF p
<1>6. p \in Seq(S) /\ Len(p) = n /\ p[n] = x /\ \A i \in 1 .. n - 1 : p[i] = w[i]
  <2>1. <<x>> \in Seq(S) /\ Len(<<x>>) = 1 /\ <<x>>[1] = x
    OBVIOUS
  <2>2. /\ w \o <<x>> \in Seq(S) /\ Len(w \o <<x>>) = Len(w) + Len(<<x>>)
        /\ \A i \in 1 .. Len(w) : (w \o <<x>>)[i] = w[i]
        /\ \A i \in 1 .. Len(<<x>>) : (w \o <<x>>)[Len(w) + i] = <<x>>[i]
    BY <1>4, <2>1, JoinOf
  <2> DEFINE y == <<x>>
             z == w \o y
  <2> HIDE DEF y, z
  <2>4. Len(w) + 1 = n
    BY <1>1, <1>4
  <2>3. z[n] = x
    <3>1. Len(y) = 1 /\ y[1] = x /\ \A i \in 1 .. Len(y) : z[Len(w) + i] = y[i]
      BY <2>1, <2>2 DEF y, z
    <3> QED
      BY <2>4, <3>1
  <2>5. p = z /\ z \in Seq(S) /\ Len(z) = Len(w) + 1 /\ \A i \in 1 .. Len(w) : z[i] = w[i]
    BY <1>5, <2>1, <2>2 DEF y, z
  <2> QED
    BY <1>1, <1>4, <2>3, <2>4, <2>5
<1>7. ASSUME NEW i \in 1 .. n - 1
      PROVE  p[i] = q[IF i <= n - k THEN i + k ELSE i - (n - k)]
  <2>0. n \in Int /\ k \in Int /\ i \in Int /\ 1 <= i /\ i <= n - 1 /\ 1 <= k /\ k <= n
    BY <1>1
  <2>1. CASE i <= n - k
    <3>1. i \in 1 .. n - k /\ k + i = i + k
      BY <2>0, <2>1
    <3>2. p[i] = u[i] /\ u[i] = q[k + i]
      BY <1>2, <1>4, <1>6, <3>1
    <3> QED
      BY <2>1, <3>1, <3>2
  <2>2. CASE ~ (i <= n - k)
    <3> DEFINE j == i - (n - k)
    <3>1. j \in 1 .. k - 1 /\ (n - k) + j = i
      BY <2>0, <2>2, BackBy
    <3>2. w[i] = v[j] /\ v[j] = q[j]
      <4> HIDE DEF j
      <4> QED
        BY <1>3, <1>4, <3>1
    <3> QED
      BY <1>6, <2>2, <3>2
  <2> QED
    BY <2>1, <2>2
<1>8. Rotation(S, q, k, x, p)
  BY <1>1, <1>6, <1>7 DEF Rotation, n
<1> QED
  BY <1>8 DEF p

\* P has what Q has but for Q[k], each where g says, and an empty one more.
Without(Q, P, k, g) ==
  /\ \A i \in DOMAIN P : \/ P[i] = << >>
                         \/ g[i] \in DOMAIN Q /\ g[i] # k /\ P[i] = Q[g[i]]
  /\ \A i, j \in DOMAIN P : g[i] = g[j] => i = j
  /\ \A j \in DOMAIN Q : j # k => \E i \in DOMAIN P : P[i] = Q[j]

LEMMA RotatedWithout ==
  ASSUME NEW S, NEW Q \in Seq(S), NEW k \in DOMAIN Q, NEW P, Len(P) = Len(Q),
         P \in Seq(S), P[Len(Q)] = << >>,
         \A i \in 1 .. Len(Q) - 1 :
           P[i] = Q[IF i <= Len(Q) - k THEN i + k ELSE i - (Len(Q) - k)]
  PROVE  \E g : Without(Q, P, k, g)
<1> DEFINE n == Len(Q)
           g == [i \in 1 .. n |-> IF i <= n - k THEN i + k ELSE i - (n - k)]
<1>1. /\ n \in Nat \ {0} /\ k \in 1 .. n /\ DOMAIN Q = 1 .. n /\ DOMAIN P = 1 .. n
  OBVIOUS
<1> HIDE DEF n
<1>2. /\ P[n] = << >>
      /\ \A i \in 1 .. n - 1 : P[i] = Q[IF i <= n - k THEN i + k ELSE i - (n - k)]
  BY DEF n
<1>3. \A i \in 1 .. n : g[i] = IF i <= n - k THEN i + k ELSE i - (n - k)
  OBVIOUS
<1> HIDE DEF g
<1>4. ASSUME NEW i \in 1 .. n
      PROVE  P[i] = << >> \/ (g[i] \in 1 .. n /\ g[i] # k /\ P[i] = Q[g[i]])
  <2>1. CASE i = n
    BY <1>2, <2>1
  <2>2. CASE i # n
    <3>1. i \in 1 .. n - 1
      BY <1>1, <2>2
    <3>2. P[i] = Q[g[i]]
      BY <1>2, <1>3, <3>1
    <3>3. g[i] \in 1 .. n /\ g[i] # k
      BY <1>1, <1>3, <3>1
    <3> QED
      BY <3>2, <3>3
  <2> QED
    BY <2>1, <2>2
<1>5. ASSUME NEW i \in 1 .. n, NEW j \in 1 .. n, g[i] = g[j] PROVE i = j
  BY <1>1, <1>3, <1>5
<1>6. ASSUME NEW j \in 1 .. n, j # k PROVE \E i \in 1 .. n : P[i] = Q[j]
  <2>1. CASE j > k
    <3>1. j - k \in 1 .. n - 1 /\ j - k <= n - k /\ (j - k) + k = j
      BY <1>1, <2>1
    <3>2. P[j - k] = Q[j]
      BY <1>2, <3>1
    <3> QED
      BY <1>1, <3>1, <3>2
  <2>2. CASE j < k
    <3> DEFINE i == j + (n - k)
    <3>1. i \in 1 .. n - 1 /\ ~ (i <= n - k) /\ i - (n - k) = j
      BY <1>1, <2>2
    <3> HIDE DEF i
    <3>2. P[i] = Q[j]
      BY <1>2, <3>1
    <3> QED
      BY <1>1, <3>1, <3>2
  <2> QED
    BY <1>1, <1>6, <2>1, <2>2
<1>7. Without(Q, P, k, g)
  BY <1>1, <1>4, <1>5, <1>6 DEF Without
<1> QED
  BY <1>7

\* Without one of the containers: the messages of its servers are all gone.
LEMMA WithoutOne ==
  ASSUME NEW Q, NEW P, NEW k \in DOMAIN Q, NEW g, Without(Q, P, k, g),
         NEW H, \A t \in Tasks : H[t] = << >>, Apart(Q, H), AllUpwards(Q, H)
  PROVE  /\ Apart(P, H) /\ AllUpwards(P, H)
         /\ \A s, low, high : ~ Has(Q[k], s) /\ Stored(Q, H, s, low, high) =>
                                Stored(P, H, s, low, high)
         /\ \A s \in Servers, low \in Nat, high \in Nat :
              Has(Q[k], s) /\ Stored(Q, H, s, low, high) =>
                /\ Stored(P, H, s, high, high) /\ Between(Q[k], s, low, high)
                /\ \A n \in low + 1 .. high : HasMessage(Q[k], s, n)
<1>1. /\ \A i \in DOMAIN P : \/ P[i] = << >>
                             \/ g[i] \in DOMAIN Q /\ g[i] # k /\ P[i] = Q[g[i]]
      /\ \A i, j \in DOMAIN P : g[i] = g[j] => i = j
      /\ \A j \in DOMAIN Q : j # k => \E i \in DOMAIN P : P[i] = Q[j]
  BY DEF Without
<1>2. \A i \in DOMAIN P : \A s : Has(P[i], s) =>
        g[i] \in DOMAIN Q /\ g[i] # k /\ P[i] = Q[g[i]]
  BY <1>1, EmptyMessages
<1>3. \A i, j \in DOMAIN Q, s \in Servers : Has(Q[i], s) /\ Has(Q[j], s) => i = j
  BY DEF Apart
<1>4. /\ \A t \in Tasks : \A s : ~ Has(H[t], s)
      /\ \A t \in Tasks : \A s, n : ~ HasMessage(H[t], s, n)
      /\ \A t \in Tasks : \A s, low, high : Between(H[t], s, low, high)
  BY EmptyMessages
<1>5. Apart(P, H)
  <2>1. \A i, j \in DOMAIN P, s \in Servers : Has(P[i], s) /\ Has(P[j], s) => i = j
    <3> SUFFICES ASSUME NEW i \in DOMAIN P, NEW j \in DOMAIN P, NEW s \in Servers,
                        Has(P[i], s), Has(P[j], s)
                 PROVE  i = j
      OBVIOUS
    <3>1. g[i] \in DOMAIN Q /\ g[j] \in DOMAIN Q /\ P[i] = Q[g[i]] /\ P[j] = Q[g[j]]
      BY <1>2
    <3>2. g[i] = g[j]
      BY <1>3, <3>1
    <3> QED
      BY <1>1, <3>2
  <2> QED
    BY <1>4, <2>1 DEF Apart
<1>6. AllUpwards(P, H)
  BY <1>1, EmptyMessages DEF AllUpwards
<1>7. ASSUME NEW s, NEW low, NEW high, ~ Has(Q[k], s), Stored(Q, H, s, low, high)
      PROVE  Stored(P, H, s, low, high)
  <2>1. /\ \A i \in DOMAIN Q : Between(Q[i], s, low, high)
        /\ \A n \in low + 1 .. high : \E i \in DOMAIN Q : HasMessage(Q[i], s, n)
    BY <1>4, <1>7 DEF Stored
  <2>2. \A i \in DOMAIN P : Between(P[i], s, low, high)
    BY <1>1, <2>1, EmptyMessages
  <2>3. \A n \in low + 1 .. high : \E i \in DOMAIN P : HasMessage(P[i], s, n)
    <3> TAKE n \in low + 1 .. high
    <3>1. PICK j \in DOMAIN Q : HasMessage(Q[j], s, n)
      BY <2>1
    <3>2. j # k
      BY <1>7, <3>1 DEF Has, HasMessage
    <3> QED
      BY <1>1, <3>1, <3>2
  <2> QED
    BY <1>4, <2>2, <2>3 DEF Stored
<1>8. ASSUME NEW s \in Servers, NEW low \in Nat, NEW high \in Nat,
             Has(Q[k], s), Stored(Q, H, s, low, high)
      PROVE  /\ Stored(P, H, s, high, high) /\ Between(Q[k], s, low, high)
             /\ \A n \in low + 1 .. high : HasMessage(Q[k], s, n)
  <2>1. \A i \in DOMAIN Q : i # k => ~ Has(Q[i], s)
    BY <1>3, <1>8
  <2>2. \A i \in DOMAIN P : ~ Has(P[i], s)
    BY <1>2, <2>1
  <2>3. \A i \in DOMAIN P : Between(P[i], s, high, high)
    BY <2>2 DEF Between, Has
  <2>4. high + 1 .. high = {}
    OBVIOUS
  <2>5. Stored(P, H, s, high, high)
    BY <1>4, <2>3, <2>4 DEF Stored
  <2>6. \A n \in low + 1 .. high : HasMessage(Q[k], s, n)
    <3> TAKE n \in low + 1 .. high
    <3>1. PICK j \in DOMAIN Q : HasMessage(Q[j], s, n)
      BY <1>4, <1>8 DEF Stored
    <3>2. Has(Q[j], s)
      BY <3>1 DEF Has, HasMessage
    <3> QED
      BY <2>1, <3>1, <3>2
  <2> QED
    BY <1>8, <2>5, <2>6 DEF Stored
<1> QED
  BY <1>5, <1>6, <1>7, <1>8

\* What the application gets of an out buffer: all of it, or nothing and all is cut.
LEMMA ToldPart ==
  ASSUME NEW data \in Seq(Messages), NEW w, Told(data, w)
  PROVE  \/ SubSeq(data, 1, w) = data
         \/ SubSeq(data, 1, w) = << >> /\ \A i \in DOMAIN data : data[i] \in cut
<1>1. CASE w = Len(data)
  BY <1>1
<1>2. CASE w = 0 /\ \A i \in DOMAIN data : data[i] \in cut
  BY <1>2
<1> QED
  BY <1>1, <1>2 DEF Told

\* The stages of a server of the buffer that is given.
LEMMA GivenAll ==
  ASSUME NEW s \in Servers, NEW a \in Nat, NEW b \in Nat, NEW c \in Nat, NEW d \in Nat,
         Staged(s, a, b, c, d), published = << >>, published' = << >>,
         NEW D \in Seq(Messages), NEW x, given \in Seq(Messages), given' = given \o x,
         x = D \/ (x = << >> /\ \A i \in DOMAIN D : D[i] \in cut),
         Between(D, s, b, c), \A n \in b + 1 .. c : HasMessage(D, s, n),
         Stored(Shelves', Held', s, c, c),
         cut' = cut, ready' = ready, arrived' = arrived, socket' = socket
  PROVE  Staged(s, c, c, c, d)'
<1>1. /\ a <= b /\ b <= c /\ c <= d /\ d <= arrived[s]
      /\ Between(given, s, 0, a)
      /\ \A n \in 1 .. a : HasMessage(given, s, n) \/ [server |-> s, n |-> n] \in cut
      /\ \A n \in a + 1 .. b : HasMessage(published, s, n)
      /\ Numbers(ready[s], c, d)
      /\ Unread(socket[s], d, arrived[s])
  BY DEF Staged
<1>2. a = b
  <2>1. ~ (a + 1 \in a + 1 .. b)
    BY <1>1, EmptyMessages
  <2> QED
    BY <1>1, <2>1
<1>3. x \in Seq(Messages)
  BY EmptyMessages
<1>4. /\ \A n : HasMessage(given \o x, s, n) <=>
                  HasMessage(given, s, n) \/ HasMessage(x, s, n)
      /\ \A low, high : Between(given \o x, s, low, high) <=>
                          Between(given, s, low, high) /\ Between(x, s, low, high)
  BY <1>3, Joined
<1>5. \A y \in Seq(Messages) : \A i \in DOMAIN y :
        y[i].n \in Nat /\ y[i] = [server |-> y[i].server, n |-> y[i].n]
  <2> TAKE y \in Seq(Messages)
  <2>1. \A i \in DOMAIN y : y[i] \in Messages
    OBVIOUS
  <2> QED
    BY <2>1 DEF Messages
<1>6. Between(given, s, 0, c)
  <2>1. \A i \in DOMAIN given : given[i].n \in Nat
    BY <1>5
  <2> QED
    BY <1>1, <2>1 DEF Between
<1>7. Between(x, s, 0, c)
  <2>1. \A i \in DOMAIN D : D[i].n \in Nat
    BY <1>5
  <2>2. Between(D, s, 0, c)
    BY <2>1 DEF Between
  <2> QED
    BY <2>2, EmptyMessages
<1>8. ASSUME NEW n \in 1 .. c
      PROVE  HasMessage(given', s, n) \/ [server |-> s, n |-> n] \in cut
  <2>1. CASE n \in 1 .. a
    BY <1>1, <1>4, <2>1
  <2>2. CASE n \in b + 1 .. c
    <3>1. HasMessage(D, s, n)
      BY <2>2
    <3>2. CASE x = D
      BY <1>4, <3>1, <3>2
    <3>3. CASE \A i \in DOMAIN D : D[i] \in cut
      <4>1. PICK i \in DOMAIN D : D[i].server = s /\ D[i].n = n
        BY <3>1 DEF HasMessage
      <4>2. D[i] = [server |-> s, n |-> n]
        BY <1>5, <4>1
      <4> QED
        BY <3>3, <4>2
    <3> QED
      BY <3>2, <3>3
  <2>3. n \in 1 .. a \/ n \in b + 1 .. c
    BY <1>2
  <2> QED
    BY <2>1, <2>2, <2>3
<1>9. \A n : ~ (n \in c + 1 .. c)
  OBVIOUS
<1>10. Between(published', s, c, c)
  BY EmptyMessages
<1> QED
  BY <1>1, <1>4, <1>6, <1>7, <1>8, <1>9, <1>10 DEF Staged

LEMMA NextOutBufferPlaces ==
  ASSUME IInv, MInv, get_next_out_buffer
  PROVE  MInv'
<1> DEFINE e == OutBuffer(<< >>, 0)
<1>1. PICK k \in DOMAIN out_buffers :
        /\ out_buffers[k].data # << >>
        /\ given' = given \o SubSeq(out_buffers[k].data, 1, out_buffers[k].bytes_written)
        /\ out_buffers' = SubSeq(out_buffers, k + 1, Len(out_buffers))
                            \o SubSeq(out_buffers, 1, k - 1) \o <<e>>
  BY DEF get_next_out_buffer, Give
<1>2. /\ call = "none" /\ call' = call /\ task' = task /\ counter' = counter
      /\ servers_in_use' = servers_in_use /\ receive_queue' = receive_queue
      /\ published' = published /\ api' = api /\ cut' = cut
      /\ ready' = ready /\ arrived' = arrived /\ socket' = socket
  BY DEF get_next_out_buffer, Calling, network
<1>3. api = "out" /\ counter = NoCounter /\ published = << >> /\ published' = << >>
  BY <1>1, <1>2 DEF MInv, OneWay
<1>4. NoTasks
  BY <1>2, <1>3, QuietTasks
<1>5. out_buffers \in Seq(OutBuffers) /\ given \in Seq(Messages)
  BY DEF IInv, Typed, MInv, Placed, Sorted
<1>6. e \in OutBuffers /\ e.data = << >> /\ e.bytes_written = 0
  BY EmptyMessages DEF OutBuffer, OutBuffers
<1> HIDE DEF e
<1>7. PICK q, p : q = out_buffers /\ p = out_buffers'
  OBVIOUS
<1> DEFINE n == Len(q)
<1>8. /\ n \in Nat \ {0} /\ p \in Seq(OutBuffers) /\ Len(p) = n /\ p[n] = e
      /\ \A i \in 1 .. n - 1 : p[i] = q[IF i <= n - k THEN i + k ELSE i - (n - k)]
  <2>1. q \in Seq(OutBuffers) /\ k \in DOMAIN q /\ e \in OutBuffers
    BY <1>1, <1>5, <1>6, <1>7
  <2>2. Rotation(OutBuffers, q, k, e,
                 SubSeq(q, k + 1, Len(q)) \o SubSeq(q, 1, k - 1) \o <<e>>)
    BY <2>1, Rotated
  <2>3. p = SubSeq(q, k + 1, Len(q)) \o SubSeq(q, 1, k - 1) \o <<e>>
    BY <1>1, <1>7
  <2>4. Rotation(OutBuffers, q, k, e, p)
    BY <2>2, <2>3, Zenon
  <2> QED
    BY <2>4 DEF Rotation
<1>9. DOMAIN q = 1 .. n /\ DOMAIN p = 1 .. n /\ k \in 1 .. n
  BY <1>1, <1>5, <1>7, <1>8
<1> DEFINE Q == [i \in DOMAIN q |-> q[i].data]
           P == [i \in DOMAIN p |-> p[i].data]
           D == q[k].data
           w == q[k].bytes_written
           x == SubSeq(D, 1, w)
<1>10. Shelves = Q /\ Shelves' = P
  BY <1>2, <1>3, <1>7 DEF Shelves
<1>11. /\ Q \in Seq(Seq(Messages)) /\ Len(Q) = n /\ DOMAIN Q = 1 .. n /\ Q[k] = D
       /\ D \in Seq(Messages)
  <2>1. /\ Shelves \in Seq(Seq(Messages)) /\ Len(Shelves) = Len(out_buffers)
        /\ DOMAIN Shelves = DOMAIN out_buffers
        /\ \A i \in DOMAIN Shelves : Shelves[i] = out_buffers[i].data
    BY <1>3, ShelvesType DEF IInv, MInv
  <2>2. q[k] \in OutBuffers
    BY <1>5, <1>7, <1>9
  <2> QED
    BY <1>7, <1>9, <1>10, <2>1, <2>2 DEF OutBuffers
<1>12. P \in Seq(Seq(Messages)) /\ Len(P) = n /\ DOMAIN P = 1 .. n
  <2> DEFINE M == Seq(Messages)
  <2>1. \A i \in 1 .. n : p[i] \in OutBuffers
    BY <1>8, <1>9
  <2>2. \A i \in 1 .. n : p[i].data \in M
    BY <2>1 DEF OutBuffers
  <2>3. P = [i \in 1 .. n |-> p[i].data]
    BY <1>9
  <2> HIDE DEF M, n, P
  <2>4. P \in Seq(M) /\ Len(P) = n /\ DOMAIN P = 1 .. n
    BY <1>8, <2>2, <2>3
  <2> QED
    BY <2>4 DEF M
<1>13. /\ \A i \in 1 .. n : Q[i] = q[i].data /\ P[i] = p[i].data
  BY <1>9
<1>14. \A i \in 1 .. n - 1 : (IF i <= n - k THEN i + k ELSE i - (n - k)) \in 1 .. n
  BY <1>8, <1>9
<1> HIDE DEF Q, P, n, D
<1>15. \E g : Without(Q, P, k, g)
  <2>1. P[n] = << >>
    BY <1>6, <1>8, <1>13
  <2>2. \A i \in 1 .. n - 1 : P[i] = Q[IF i <= n - k THEN i + k ELSE i - (n - k)]
    <3> TAKE i \in 1 .. n - 1
    <3> DEFINE j == IF i <= n - k THEN i + k ELSE i - (n - k)
    <3>1. j \in 1 .. n /\ i \in 1 .. n /\ p[i] = q[j]
      BY <1>8, <1>14
    <3> HIDE DEF j
    <3>2. P[i] = Q[j]
      BY <1>13, <3>1
    <3> QED
      BY <3>2 DEF j
  <2>3. k \in DOMAIN Q
    BY <1>9, <1>11
  <2> DEFINE S == Seq(Messages)
  <2>4. Q \in Seq(S) /\ P \in Seq(S)
    BY <1>11, <1>12
  <2> HIDE DEF S
  <2> QED
    BY <1>11, <1>12, <2>1, <2>2, <2>3, <2>4, RotatedWithout
<1>16. \A t \in Tasks : Held[t] = << >>
  BY <1>4 DEF NoTasks, MInv, Written, WrittenOf, HasContainer, Held
<1>17. Held' = Held
  BY <1>2 DEF Held
<1>18. Apart(Q, Held) /\ AllUpwards(Q, Held)
  BY <1>10 DEF MInv, Placed, Sorted
<1>19. PICK H : H = Held
  OBVIOUS
<1>20. /\ Apart(P, H) /\ AllUpwards(P, H)
       /\ \A s, low, high : ~ Has(Q[k], s) /\ Stored(Q, H, s, low, high) =>
                              Stored(P, H, s, low, high)
       /\ \A s \in Servers, low \in Nat, high \in Nat :
            Has(Q[k], s) /\ Stored(Q, H, s, low, high) =>
              /\ Stored(P, H, s, high, high) /\ Between(Q[k], s, low, high)
              /\ \A m \in low + 1 .. high : HasMessage(Q[k], s, m)
  <2>1. PICK g : Without(Q, P, k, g)
    BY <1>15
  <2>2. k \in DOMAIN Q
    BY <1>9, <1>11
  <2> QED
    BY <1>16, <1>18, <1>19, <2>1, <2>2, WithoutOne
<1>21. x = D \/ (x = << >> /\ \A i \in DOMAIN D : D[i] \in cut)
  <2>1. Told(D, w)
    BY <1>1, <1>7 DEF MInv, Written, D
  <2> QED
    BY <1>11, <2>1, ToldPart
<1>22. given' = given \o x /\ Upwards(D) /\ Upwards(given)
  <2>1. Upwards(Q[k])
    BY <1>9, <1>11, <1>18 DEF AllUpwards
  <2> QED
    BY <1>1, <1>7, <1>11, <2>1 DEF D, MInv, Placed, Sorted
<1> HIDE DEF x
<1>23. x \in Seq(Messages) /\ Upwards(x)
  BY <1>11, <1>21, <1>22, EmptyMessages
<1>24. /\ given \o x \in Seq(Messages)
       /\ \A s, m : HasMessage(given \o x, s, m) <=>
                      HasMessage(given, s, m) \/ HasMessage(x, s, m)
       /\ \A s, low, high : Between(given \o x, s, low, high) <=>
                              Between(given, s, low, high) /\ Between(x, s, low, high)
       /\ Upwards(given \o x) <=>
            /\ Upwards(given) /\ Upwards(x)
            /\ \A i \in DOMAIN given, j \in DOMAIN x :
                 given[i].server = x[j].server => given[i].n < x[j].n
  BY <1>5, <1>23, Joined
<1>25. ASSUME NEW s \in Servers
       PROVE  /\ \E a, b, c, d \in 0 .. arrived'[s] : Staged(s, a, b, c, d)'
              /\ \A i \in DOMAIN given, j \in DOMAIN x :
                   given[i].server = s /\ x[j].server = s => given[i].n < x[j].n
  <2>1. PICK a \in 0 .. arrived[s], b \in 0 .. arrived[s], c \in 0 .. arrived[s],
             d \in 0 .. arrived[s] : Staged(s, a, b, c, d)
    BY DEF MInv, Placed, Lined
  <2>2. arrived[s] \in Nat /\ a \in Nat /\ b \in Nat /\ c \in Nat /\ d \in Nat
    BY <2>1 DEF IInv, Typed
  <2>3. Stored(Q, H, s, b, c)
    BY <1>10, <1>19, <2>1 DEF Staged
  <2>4. CASE ~ Has(D, s)
    <3>1. ~ Has(x, s)
      BY <1>21, <2>4, EmptyMessages
    <3>2. Between(x, s, 0, a)
      BY <3>1 DEF Has, Between
    <3>3. Stored(Shelves', Held', s, b, c)
      BY <1>10, <1>11, <1>17, <1>19, <1>20, <2>3, <2>4
    <3>4. Staged(s, a, b, c, d)'
      BY <1>2, <1>22, <1>24, <2>1, <3>2, <3>3 DEF Staged
    <3>5. \A j \in DOMAIN x : x[j].server # s
      BY <3>1 DEF Has
    <3> QED
      BY <1>2, <2>1, <3>4, <3>5
  <2>5. CASE Has(D, s)
    <3>1. /\ Stored(Shelves', Held', s, c, c) /\ Between(D, s, b, c)
          /\ \A m \in b + 1 .. c : HasMessage(D, s, m)
      BY <1>10, <1>11, <1>17, <1>19, <1>20, <2>2, <2>3, <2>5
    <3>2. Staged(s, c, c, c, d)'
      BY <1>2, <1>3, <1>5, <1>11, <1>21, <1>22, <2>1, <2>2, <3>1, GivenAll
    <3>3. \A i \in DOMAIN given, j \in DOMAIN x :
            given[i].server = s /\ x[j].server = s => given[i].n < x[j].n
      <4>1. Between(given, s, 0, a) /\ a <= b
        BY <2>1 DEF Staged
      <4>2. Between(x, s, b, c)
        BY <1>21, <3>1, EmptyMessages
      <4>3. /\ \A i \in DOMAIN given : given[i].n \in Nat
            /\ \A j \in DOMAIN x : x[j].n \in Nat
        <5>1. /\ \A i \in DOMAIN given : given[i] \in Messages
              /\ \A j \in DOMAIN x : x[j] \in Messages
          BY <1>5, <1>23
        <5> QED
          BY <5>1 DEF Messages
      <4> QED
        BY <2>2, <4>1, <4>2, <4>3 DEF Between
    <3> QED
      BY <1>2, <2>1, <3>2, <3>3
  <2> QED
    BY <2>4, <2>5
<1>26. Upwards(given')
  <2>1. \A i \in DOMAIN given : given[i].server \in Servers
    <3>1. \A i \in DOMAIN given : given[i] \in Messages
      BY <1>5
    <3> QED
      BY <3>1 DEF Messages
  <2>2. \A i \in DOMAIN given, j \in DOMAIN x :
          given[i].server = x[j].server => given[i].n < x[j].n
    BY <1>25, <2>1
  <2> QED
    BY <1>22, <1>23, <1>24, <2>2
<1>27. Placed'
  <2>1. Apart(Shelves', Held') /\ AllUpwards(Shelves', Held')
    BY <1>10, <1>17, <1>19, <1>20
  <2>2. Upwards(published')
    BY <1>3, EmptyMessages
  <2>3. Sorted'
    BY <1>22, <1>24, <1>26, <2>1, <2>2 DEF Sorted
  <2> QED
    BY <1>25, <2>1, <2>3 DEF Placed, Lined
<1>28. OneWay'
  BY <1>2, <1>3 DEF MInv, OneWay
<1>29. Written'
  <2>1. Told(e.data, e.bytes_written)
    BY <1>6 DEF Told
  <2>2. \A i \in 1 .. n : Told(q[i].data, q[i].bytes_written)
    BY <1>7, <1>9 DEF MInv, Written
  <2>3. \A i \in 1 .. n : Told(p[i].data, p[i].bytes_written)
    <3> TAKE i \in 1 .. n
    <3>1. CASE i = n
      BY <1>8, <2>1, <3>1
    <3>2. CASE i # n
      <4> DEFINE j == IF i <= n - k THEN i + k ELSE i - (n - k)
      <4>1. i \in 1 .. n - 1
        BY <1>8, <3>2
      <4>2. j \in 1 .. n /\ p[i] = q[j]
        BY <1>8, <1>14, <4>1
      <4> HIDE DEF j
      <4> QED
        BY <2>2, <4>2
    <3> QED
      BY <3>1, <3>2
  <2>4. \A y, z : Told(y, z)' <=> Told(y, z)
    BY <1>2 DEF Told
  <2>5. \A t \in Tasks : WrittenOf(task[t])'
    BY <1>2, <2>4 DEF MInv, Written, WrittenOf
  <2> QED
    BY <1>7, <1>9, <2>3, <2>4, <2>5 DEF Written
<1>30. Fresh'
  <2>1. Resets' = {}
    BY <1>2, <1>4 DEF Resets, NoTasks
  <2>2. Cardinality(Resets') = 0
    BY <2>1, FS_EmptySet
  <2>3. \A i \in DOMAIN out_buffers' : ~ (i <= 0)
    BY <1>7, <1>9
  <2>4. 0 <= Len(out_buffers')
    BY <1>7, <1>8
  <2>5. \A t \in Tasks : task'[t].pc \notin Unserved
    BY <1>2, <1>4 DEF NoTasks, Unserved
  <2> QED
    BY <1>2, <1>3, <2>2, <2>3, <2>4, <2>5 DEF Fresh
<1> QED
  BY <1>27, <1>28, <1>29, <1>30 DEF MInv

-----------------------------------------------------------------------------
(***************************************************************************)
(* Rounds begin and end.                                                   *)
(***************************************************************************)
LEMMA StutterPlaces ==
  ASSUME MInv, UNCHANGED vars
  PROVE  MInv'
<1>1. /\ UNCHANGED <<task, servers_in_use, receive_queue, out_buffers, counter,
                     call, api, cut>>
      /\ published' = published /\ ready' = ready /\ given' = given
      /\ arrived' = arrived /\ socket' = socket /\ cut' = cut
  BY DEF vars, pool, queues, network, history
<1>2. OneWay' /\ Written' /\ Fresh' /\ Shelves' = Shelves /\ Held' = Held
  BY <1>1, SameHands DEF MInv, OneWay
<1>3. Placed'
  BY <1>1, <1>2, StillPlaced DEF MInv
<1> QED
  BY <1>2, <1>3 DEF MInv

LEMMA CreateServerPlaces ==
  ASSUME MInv, NEW s \in Servers, create_server(s)
  PROVE  MInv'
<1>1. /\ UNCHANGED <<task, servers_in_use, receive_queue, out_buffers, counter,
                     call, api, cut>>
      /\ published' = published /\ ready' = ready /\ given' = given
      /\ arrived' = arrived /\ socket' = socket /\ cut' = cut
  BY DEF create_server, queues, network
<1>2. OneWay' /\ Written' /\ Fresh' /\ Shelves' = Shelves /\ Held' = Held
  BY <1>1, SameHands DEF MInv, OneWay
<1>3. Placed'
  BY <1>1, <1>2, StillPlaced DEF MInv
<1> QED
  BY <1>2, <1>3 DEF MInv

\* A round begins: the containers are all empty.
LEMMA StartPlaces ==
  ASSUME IInv, MInv, NoTasks, IInv',
         \A i \in DOMAIN Shelves : Shelves[i] = << >>,
         \A t \in Tasks : /\ task'[t].held = << >> /\ task'[t].written = 0
                          /\ task'[t].pc \notin {"push_buffer", "push_container"}
                          /\ task'[t].kind # (IF api = "out" THEN "receive" ELSE "out")
                          /\ task'[t].kind # (IF api = "out" THEN "blocking" ELSE "out"),
         receive_queue' = receive_queue, out_buffers' = out_buffers,
         published' = published, api' = api, given' = given, cut' = cut,
         ready' = ready, arrived' = arrived, socket' = socket,
         api = "out" => counter' = NoCounter /\ call' = "receive_blocking_out_buffer",
         api = "queue" => call' \in {"none", "receive_blocking"}
  PROVE  MInv'
<1>1. \A t \in Tasks : task[t].held = << >>
  BY DEF NoTasks, MInv, Written, WrittenOf, HasContainer
<1>2. Shelves' = Shelves /\ Held' = Held
  <2>1. \A t \in Tasks : task'[t].held = task[t].held
    BY <1>1
  <2> QED
    BY <2>1 DEF Shelves, Held
<1>3. Placed'
  BY <1>2, StillPlaced DEF MInv
<1>4. api \in {"queue", "out"}
  BY DEF MInv, OneWay
<1>5. OneWay'
  <2>1. \A t \in Tasks : task'[t].kind \in {"none", "receive", "blocking", "out"}
    BY DEF IInv, Typed, TaskType, TaskKinds
  <2>2. CASE api = "out"
    BY <2>1, <2>2 DEF MInv, OneWay
  <2>3. CASE api = "queue"
    BY <2>1, <2>3 DEF MInv, OneWay
  <2> QED
    BY <1>4, <2>2, <2>3
<1>6. Written'
  <2>1. \A x, y : Told(x, y)' <=> Told(x, y)
    BY DEF Told
  <2>2. \A t \in Tasks : WrittenOf(task'[t])
    BY DEF WrittenOf
  <2>3. \A x : WrittenOf(x)' <=> WrittenOf(x)
    BY <2>1 DEF WrittenOf
  <2> QED
    BY <2>1, <2>2, <2>3 DEF MInv, Written
<1>7. Fresh'
  <2>1. \A u, s : Lone(Shelves', Held', u, s)
    <3>1. \A u \in Tasks : Held[u] = << >>
      BY <1>1 DEF Held
    <3> QED
      BY <1>2, <3>1, EmptyMessages DEF Lone
  <2>2. api = "queue" => \A i \in DOMAIN receive_queue' : receive_queue'[i] = << >>
    BY DEF Shelves
  <2>3. \A i \in DOMAIN out_buffers' : out_buffers'[i].data = << >>
    <3>1. CASE api = "out"
      <4>1. Shelves = [i \in DOMAIN out_buffers |-> out_buffers[i].data]
        BY <3>1 DEF Shelves
      <4>2. \A i \in DOMAIN out_buffers : Shelves[i] = out_buffers[i].data
                                          /\ i \in DOMAIN Shelves
        BY <4>1
      <4> QED
        BY <4>2
    <3>2. CASE api = "queue"
      BY <3>2 DEF MInv, OneWay
    <3> QED
      BY <1>4, <3>1, <3>2
  <2>4. Cardinality(Resets') <= Len(out_buffers')
    <3>1. max_servers \in Nat
      BY PoolAssumption
    <3>2. Resets' \in SUBSET (1 .. max_servers)
      <4>1. \A t \in Tasks : task'[t].pc = "pop_container" => ~ (t > max_servers)
        BY DEF IInv, Shape, ShapeOf
      <4> QED
        BY <3>1, <4>1 DEF Resets, Tasks
    <3>3. Cardinality(Resets') <= max_servers
      BY <3>1, <3>2, CountBound
    <3>4. Len(out_buffers) = max_servers
      <4>1. Cardinality(OutLoans) = 0
        BY FS_EmptySet DEF NoTasks
      <4>2. Len(out_buffers) \in Nat /\ Len(out_buffers) + 0 = max_servers
        BY <4>1 DEF IInv, Loans, Typed
      <4> QED
        BY <4>2
    <3> QED
      BY <3>3, <3>4
  <2> QED
    BY <2>1, <2>2, <2>3, <2>4 DEF Fresh
<1> QED
  BY <1>3, <1>5, <1>6, <1>7 DEF MInv

LEMMA ReceivePlaces ==
  ASSUME IInv, MInv, IInv', receive
  PROVE  MInv'
<1> DEFINE x == Spawned("receive", "pop_server", NoServer)
<1>1. /\ call = "none" /\ counter = NoCounter /\ api = "queue"
      /\ task' = [t \in Tasks |-> IF t <= Cardinality(servers) THEN x ELSE Idle]
      /\ receive_queue' = receive_queue /\ out_buffers' = out_buffers
      /\ published' = published /\ call' = call /\ api' = api
      /\ socket' = socket /\ arrived' = arrived /\ ready' = ready
      /\ given' = given /\ cut' = cut
  BY DEF receive, Spawn, BetweenRounds, Calling, network
<1>2. NoTasks
  BY <1>1, QuietTasks
<1>3. \A i \in DOMAIN Shelves : Shelves[i] = << >>
  BY <1>1 DEF Shelves, MInv, Fresh
<1>4. /\ x.held = << >> /\ x.written = 0 /\ x.pc = "pop_server" /\ x.kind = "receive"
      /\ Idle.held = << >> /\ Idle.written = 0 /\ Idle.pc = "idle" /\ Idle.kind = "none"
  BY DEF Spawned, Idle
<1> HIDE DEF x
<1>5. \A t \in Tasks : task'[t] \in {x, Idle}
  BY <1>1
<1>6. \A t \in Tasks : /\ task'[t].held = << >> /\ task'[t].written = 0
                       /\ task'[t].pc \notin {"push_buffer", "push_container"}
                       /\ task'[t].kind # (IF api = "out" THEN "receive" ELSE "out")
                       /\ task'[t].kind # (IF api = "out" THEN "blocking" ELSE "out")
  BY <1>1, <1>4, <1>5
<1> QED
  BY <1>1, <1>2, <1>3, <1>6, StartPlaces

LEMMA BlockPlaces ==
  ASSUME IInv, MInv, IInv', call = "none", counter = NoCounter,
         NEW name, NEW kind, Block(name, kind),
         \/ api = "queue" /\ name = "receive_blocking" /\ kind = "blocking"
         \/ /\ api = "out" /\ name = "receive_blocking_out_buffer" /\ kind = "out"
            /\ \A i \in DOMAIN out_buffers : out_buffers[i].data = << >>
  PROVE  MInv'
<1> DEFINE order == SetToSeq(servers)
           x(t)  == Spawned(kind, "pop_container", order[t])
<1>1. /\ call' = name
      /\ task' = [t \in Tasks |-> IF t <= Len(order) THEN x(t) ELSE Idle]
      /\ receive_queue' = receive_queue /\ out_buffers' = out_buffers
      /\ published' = published /\ api' = api /\ counter' = counter
      /\ socket' = socket /\ arrived' = arrived /\ ready' = ready
      /\ given' = given /\ cut' = cut
  BY DEF Block, network, pool, queues
<1>2. NoTasks
  BY QuietTasks
<1>3. \A i \in DOMAIN Shelves : Shelves[i] = << >>
  <2>1. CASE api = "queue"
    BY <2>1 DEF Shelves, MInv, Fresh
  <2>2. CASE api = "out"
    <3>1. Shelves = [i \in DOMAIN out_buffers |-> out_buffers[i].data]
      BY <2>2 DEF Shelves
    <3> QED
      BY <2>2, <3>1
  <2> QED
    BY <2>1, <2>2
<1> HIDE DEF order
<1>4. /\ \A t \in Tasks : /\ x(t).held = << >> /\ x(t).written = 0
                          /\ x(t).pc = "pop_container" /\ x(t).kind = kind
      /\ Idle.held = << >> /\ Idle.written = 0 /\ Idle.pc = "idle" /\ Idle.kind = "none"
  BY DEF Spawned, Idle
<1> HIDE DEF x
<1>5. \A t \in Tasks : task'[t] = x(t) \/ task'[t] = Idle
  BY <1>1
<1>6. \A t \in Tasks : /\ task'[t].held = << >> /\ task'[t].written = 0
                       /\ task'[t].pc \notin {"push_buffer", "push_container"}
                       /\ task'[t].kind # (IF api = "out" THEN "receive" ELSE "out")
                       /\ task'[t].kind # (IF api = "out" THEN "blocking" ELSE "out")
  BY <1>4, <1>5
<1> QED
  BY <1>1, <1>2, <1>3, <1>6, StartPlaces

\* A round ends: all that the queues hold is published.
LEMMA PublishPlaces ==
  ASSUME IInv, MInv, NoTasks, api = "queue", move_received_to_published,
         call' = "none", counter' = NoCounter, task' = task,
         out_buffers' = out_buffers, api' = api, given' = given, cut' = cut,
         ready' = ready, arrived' = arrived, socket' = socket
  PROVE  MInv'
<1>1. receive_queue \in Seq(Seq(Messages)) /\ published \in Seq(Messages)
  BY DEF IInv, Typed
<1>2. PICK q, z : q = receive_queue /\ z = FlattenSeq(receive_queue)
  OBVIOUS
<1>3. /\ published' = published \o z
      /\ receive_queue' = [i \in DOMAIN receive_queue |-> << >>]
  BY <1>2 DEF move_received_to_published
<1>4. Shelves = q /\ Shelves' = receive_queue' /\ Held' = Held
  BY <1>2 DEF Shelves, Held
<1>5. \A t \in Tasks : task[t].held = << >> /\ Held[t] = << >>
  BY DEF NoTasks, MInv, Written, WrittenOf, HasContainer, Held
<1>6. /\ \A i \in DOMAIN q : Upwards(q[i])
      /\ \A i, j \in DOMAIN q, s \in Servers : Has(q[i], s) /\ Has(q[j], s) => i = j
  BY <1>4 DEF MInv, Placed, Sorted, AllUpwards, Apart
<1>7. Together(q, Len(q), z)
  BY <1>1, <1>2, <1>6, FlattenTogether
<1>8. DOMAIN q = 1 .. Len(q)
  BY <1>1, <1>2
<1>9. /\ z \in Seq(Messages) /\ Upwards(z)
      /\ \A s, n : HasMessage(z, s, n) <=> \E i \in DOMAIN q : HasMessage(q[i], s, n)
      /\ \A s, low, high : Between(z, s, low, high) <=>
                             \A i \in DOMAIN q : Between(q[i], s, low, high)
  BY <1>7, <1>8 DEF Together
<1>10. \A i \in DOMAIN receive_queue' : receive_queue'[i] = << >>
  BY <1>3
<1>11. /\ published \o z \in Seq(Messages)
       /\ \A s, n : HasMessage(published \o z, s, n) <=>
                      HasMessage(published, s, n) \/ HasMessage(z, s, n)
       /\ \A s, low, high : Between(published \o z, s, low, high) <=>
                              Between(published, s, low, high) /\ Between(z, s, low, high)
       /\ Upwards(published \o z) <=>
            /\ Upwards(published) /\ Upwards(z)
            /\ \A i \in DOMAIN published, j \in DOMAIN z :
                 published[i].server = z[j].server => published[i].n < z[j].n
  BY <1>1, <1>9, Joined
<1>12. /\ \A i \in DOMAIN published : published[i].n \in Nat /\ published[i].server \in Servers
       /\ \A j \in DOMAIN z : z[j].n \in Nat
  <2>1. /\ \A i \in DOMAIN published : published[i] \in Messages
        /\ \A j \in DOMAIN z : z[j] \in Messages
    BY <1>1, <1>9
  <2> QED
    BY <2>1 DEF Messages
<1>13. ASSUME NEW s \in Servers
       PROVE  /\ \E a, b, c, d \in 0 .. arrived'[s] : Staged(s, a, b, c, d)'
              /\ \A i \in DOMAIN published, j \in DOMAIN z :
                   published[i].server = s /\ z[j].server = s =>
                     published[i].n < z[j].n
  <2>1. PICK a \in 0 .. arrived[s], b \in 0 .. arrived[s], c \in 0 .. arrived[s],
             d \in 0 .. arrived[s] : Staged(s, a, b, c, d)
    BY DEF MInv, Placed, Lined
  <2>2. arrived[s] \in Nat /\ a \in Nat /\ b \in Nat /\ c \in Nat /\ d \in Nat
    BY <2>1 DEF IInv, Typed
  <2>3. /\ a <= b /\ b <= c /\ c <= d /\ d <= arrived[s]
        /\ Between(published, s, a, b)
        /\ \A n \in a + 1 .. b : HasMessage(published, s, n)
        /\ Stored(q, Held, s, b, c)
    BY <1>4, <2>1 DEF Staged
  <2>4. /\ Between(z, s, b, c)
        /\ \A n \in b + 1 .. c : HasMessage(z, s, n)
    <3>1. \A t \in Tasks : \A n : ~ HasMessage(Held[t], s, n)
      BY <1>5, EmptyMessages
    <3> QED
      BY <1>9, <2>3, <3>1 DEF Stored
  <2>5. \A i \in DOMAIN published, j \in DOMAIN z :
          published[i].server = s /\ z[j].server = s => published[i].n < z[j].n
    BY <1>12, <2>2, <2>3, <2>4 DEF Between
  <2>6. Between(published', s, a, c)
    <3>1. Between(published, s, a, c)
      BY <1>12, <2>2, <2>3 DEF Between
    <3>2. Between(z, s, a, c)
      BY <1>12, <2>2, <2>3, <2>4 DEF Between
    <3> QED
      BY <1>3, <1>11, <3>1, <3>2
  <2>7. ASSUME NEW n \in a + 1 .. c PROVE HasMessage(published', s, n)
    <3>1. n \in a + 1 .. b \/ n \in b + 1 .. c
      BY <2>2
    <3> QED
      BY <1>3, <1>11, <2>3, <2>4, <3>1
  <2>8. Stored(Shelves', Held', s, c, c)
    <3>1. \A n : ~ (n \in c + 1 .. c)
      BY <2>2
    <3> QED
      BY <1>4, <1>5, <1>10, <3>1, EmptyMessages DEF Stored
  <2>9. Staged(s, a, c, c, d)'
    <3>1. a <= c /\ c <= c
      BY <2>2, <2>3
    <3> QED
      BY <2>1, <2>3, <2>6, <2>7, <2>8, <3>1 DEF Staged
  <2> QED
    BY <2>1, <2>5, <2>9
<1>14. Upwards(published')
  <2>1. \A i \in DOMAIN published, j \in DOMAIN z :
          published[i].server = z[j].server => published[i].n < z[j].n
    BY <1>12, <1>13
  <2>2. Upwards(published)
    BY DEF MInv, Placed, Sorted
  <2> QED
    BY <1>3, <1>9, <1>11, <2>1, <2>2
<1>15. Placed'
  <2>1. \A i \in DOMAIN Shelves' : Shelves'[i] = << >>
    BY <1>4, <1>10
  <2>2. \A t \in Tasks : Held'[t] = << >>
    BY <1>4, <1>5
  <2>3. Apart(Shelves', Held') /\ AllUpwards(Shelves', Held')
    <3>1. /\ \A i \in DOMAIN Shelves' : \A s : ~ Has(Shelves'[i], s)
          /\ \A t \in Tasks : \A s : ~ Has(Held'[t], s)
      BY <2>1, <2>2, EmptyMessages
    <3>2. AllUpwards(Shelves', Held')
      BY <2>1, <2>2, EmptyMessages DEF AllUpwards
    <3> QED
      BY <3>1, <3>2 DEF Apart
  <2>4. Sorted'
    BY <1>14, <2>3 DEF MInv, Placed, Sorted
  <2> QED
    BY <1>13, <2>3, <2>4 DEF Placed, Lined
<1>16. OneWay'
  BY DEF MInv, OneWay
<1>17. Written'
  BY DEF MInv, Written, WrittenOf, Told
<1>18. Fresh'
  <2>1. Resets' = Resets
    BY DEF Resets
  <2>2. \A t \in Tasks : task'[t].pc \notin Unserved
    BY DEF NoTasks, Unserved
  <2> QED
    BY <1>10, <2>1, <2>2 DEF MInv, Fresh
<1> QED
  BY <1>15, <1>16, <1>17, <1>18 DEF MInv

LEMMA FinishReceivePlaces ==
  ASSUME IInv, MInv, finish_receive
  PROVE  MInv'
<1>1. /\ call = "none" /\ counter = 0 /\ move_received_to_published
      /\ counter' = NoCounter /\ out_buffers' = out_buffers /\ api' = api
      /\ task' = task /\ call' = call /\ socket' = socket /\ arrived' = arrived
      /\ ready' = ready /\ cut' = cut /\ given' = given
  BY DEF finish_receive, Join, Calling, network, history
<1>2. NoTasks
  BY <1>1, QuietTasks
<1>3. counter # NoCounter
  BY <1>1, PoolAssumption
<1>4. api = "queue"
  BY <1>3 DEF MInv, OneWay
<1> QED
  BY <1>1, <1>2, <1>4, PublishPlaces

LEMMA ReturnBlockingPlaces ==
  ASSUME IInv, MInv, ReturnBlocking
  PROVE  MInv'
<1>1. /\ call # "none" /\ call' = "none" /\ NoneRunning
      /\ out_buffers' = out_buffers /\ api' = api /\ servers_in_use' = servers_in_use
      /\ counter' = counter /\ task' = task /\ socket' = socket
      /\ arrived' = arrived /\ ready' = ready /\ cut' = cut /\ given' = given
      /\ IF call = "receive_blocking" THEN move_received_to_published
         ELSE published' = published /\ receive_queue' = receive_queue
  BY DEF ReturnBlocking, Calling, network, history
<1>2. counter = NoCounter
  BY <1>1 DEF IInv, Phases
<1>3. NoTasks
  <2>1. \A t \in Tasks : task[t].kind = "none"
    BY <1>1 DEF NoneRunning, Idle
  <2> QED
    BY <2>1, NoTasksWhenIdle DEF IInv
<1>4. CASE call = "receive_blocking"
  <2>1. api = "queue"
    BY <1>4 DEF MInv, OneWay
  <2> QED
    BY <1>1, <1>2, <1>3, <1>4, <2>1, PublishPlaces
<1>5. CASE call # "receive_blocking"
  <2>1. api = "out" /\ published' = published /\ receive_queue' = receive_queue
    BY <1>1, <1>5 DEF MInv, OneWay
  <2>2. Shelves' = Shelves /\ Held' = Held
    BY <1>1, <2>1 DEF Shelves, Held
  <2>3. Placed'
    BY <1>1, <2>1, <2>2, StillPlaced DEF MInv
  <2>4. OneWay'
    BY <1>1, <2>1 DEF MInv, OneWay
  <2>5. Written'
    BY <1>1 DEF MInv, Written, WrittenOf, Told
  <2>6. Fresh'
    <3>1. Resets' = Resets
      BY <1>1 DEF Resets
    <3>2. \A t \in Tasks : task'[t].pc \notin Unserved
      BY <1>1, <1>3 DEF NoTasks, Unserved
    <3> QED
      BY <1>1, <1>2, <2>1, <3>1, <3>2 DEF MInv, Fresh
  <2> QED
    BY <2>3, <2>4, <2>5, <2>6 DEF MInv
<1> QED
  BY <1>4, <1>5

LEMMA InitPlaces ==
  ASSUME Init
  PROVE  MInv
<1>1. /\ \A t \in Tasks : /\ task[t] = Idle /\ task[t].held = << >>
                          /\ task[t].written = 0 /\ task[t].pc = "idle"
                          /\ task[t].kind = "none"
      /\ max_servers \in Nat
  BY PoolAssumption DEF Init, Idle
<1>2. /\ out_buffers = [i \in 1 .. max_servers |-> OutBuffer(<< >>, 0)]
      /\ receive_queue = [i \in 1 .. max_servers |-> << >>]
      /\ published = << >> /\ given = << >> /\ cut = {} /\ call = "none"
      /\ counter = NoCounter /\ api \in {"queue", "out"}
      /\ \A s \in Servers : arrived[s] = 0 /\ ready[s] = << >> /\ socket[s] = << >>
  BY DEF Init
<1>3. /\ \A i \in DOMAIN receive_queue : receive_queue[i] = << >>
      /\ \A i \in DOMAIN out_buffers : /\ out_buffers[i].data = << >>
                                       /\ out_buffers[i].bytes_written = 0
  BY <1>2 DEF OutBuffer
<1>4. /\ \A i \in DOMAIN Shelves : Shelves[i] = << >>
      /\ \A t \in Tasks : Held[t] = << >>
  <2>1. CASE api = "out"
    BY <1>1, <1>3, <2>1 DEF Shelves, Held
  <2>2. CASE api = "queue"
    BY <1>1, <1>3, <2>2 DEF Shelves, Held
  <2> QED
    BY <1>2, <2>1, <2>2
<1>5. OneWay
  BY <1>1, <1>2, <1>3 DEF OneWay
<1>6. Written
  <2>1. Told(<< >>, 0)
    BY DEF Told
  <2>2. \A t \in Tasks : WrittenOf(task[t])
    BY <1>1 DEF WrittenOf
  <2> QED
    BY <1>3, <2>1, <2>2 DEF Written
<1>7. Fresh
  <2>1. Resets = {}
    BY <1>1 DEF Resets
  <2>2. Cardinality(Resets) = 0
    BY <2>1, FS_EmptySet
  <2>3. Len(out_buffers) \in Nat
    <3> DEFINE o == OutBuffer(<< >>, 0)
    <3>1. out_buffers = [i \in 1 .. max_servers |-> o]
      BY <1>2
    <3> HIDE DEF o
    <3>2. out_buffers \in Seq({o})
      BY <1>1, <3>1
    <3> QED
      BY <3>2
  <2>4. 0 <= Len(out_buffers)
    BY <2>3
  <2>5. \A t \in Tasks : task[t].pc \notin Unserved
    BY <1>1 DEF Unserved
  <2> QED
    BY <1>2, <1>3, <2>2, <2>4, <2>5 DEF Fresh
<1>8. Apart(Shelves, Held) /\ AllUpwards(Shelves, Held)
  <2>1. /\ \A i \in DOMAIN Shelves : \A s : ~ Has(Shelves[i], s)
        /\ \A t \in Tasks : \A s : ~ Has(Held[t], s)
    BY <1>4, EmptyMessages
  <2>2. AllUpwards(Shelves, Held)
    BY <1>4, EmptyMessages DEF AllUpwards
  <2> QED
    BY <2>1, <2>2 DEF Apart
<1>9. Sorted
  BY <1>2, <1>8, EmptyMessages DEF Sorted
<1>10. ASSUME NEW s \in Servers
       PROVE  \E a, b, c, d \in 0 .. arrived[s] : Staged(s, a, b, c, d)
  <2>1. arrived[s] = 0 /\ ready[s] = << >> /\ socket[s] = << >>
    BY <1>2
  <2>2. Stored(Shelves, Held, s, 0, 0)
    <3>1. \A n : ~ (n \in 0 + 1 .. 0)
      OBVIOUS
    <3> QED
      BY <1>4, <3>1, EmptyMessages DEF Stored
  <2>3. Numbers(<< >>, 0, 0)
    <3>1. << >> \in Seq(Nat) /\ Len(<< >>) = 0 - 0 /\ DOMAIN << >> = {}
      OBVIOUS
    <3> QED
      BY <3>1 DEF Numbers
  <2>4. Unread(<< >>, 0, 0)
    BY DEF Unread
  <2>5. /\ \A n : ~ (n \in 1 .. 0) /\ ~ (n \in 0 + 1 .. 0)
        /\ Between(<< >>, s, 0, 0)
    BY EmptyMessages
  <2>6. Staged(s, 0, 0, 0, 0)
    BY <1>2, <2>1, <2>2, <2>3, <2>4, <2>5 DEF Staged
  <2>7. 0 \in 0 .. arrived[s]
    BY <2>1
  <2> QED
    BY <2>6, <2>7
<1> QED
  BY <1>5, <1>6, <1>7, <1>8, <1>9, <1>10 DEF MInv, Placed, Lined

LEMMA StepPlaces ==
  ASSUME ServersFit, IInv, MInv, [Next]_vars
  PROVE  MInv'
<1>0. IInv'
  BY StepKeeps
<1>1. ASSUME NEW t \in Tasks, TaskStep(t) PROVE MInv'
  BY <1>1, PopServerPlaces, PopContainerPlaces, PopBufferPlaces, ReceiveOnePlaces,
     PushBufferPlaces, PushContainerPlaces, PushServerPlaces, DecrementPlaces
     DEF TaskStep
<1>2. ASSUME NEW s \in Servers, create_server(s) PROVE MInv'
  BY <1>2, CreateServerPlaces
<1>3. ASSUME NEW s \in Servers, NEW kind \in Kinds, NEW count \in 0 .. MaxPackets,
             Arrive(s, kind, count)
      PROVE  MInv'
  <2>1. count \in Nat
    BY PoolAssumption
  <2> QED
    BY <1>3, <2>1, ArrivePlaces
<1>4. CASE receive
  BY <1>0, <1>4, ReceivePlaces
<1>5. CASE finish_receive
  BY <1>5, FinishReceivePlaces
<1>6. CASE receive_blocking
  <2>1. /\ call = "none" /\ counter = NoCounter /\ api = "queue"
        /\ Block("receive_blocking", "blocking")
    BY <1>6 DEF receive_blocking, BetweenRounds, Calling
  <2> QED
    BY <1>0, <2>1, BlockPlaces
<1>7. CASE receive_blocking_out_buffer
  <2>1. /\ call = "none" /\ counter = NoCounter /\ api = "out"
        /\ \A i \in DOMAIN out_buffers : out_buffers[i].data = << >>
        /\ Block("receive_blocking_out_buffer", "out")
    BY <1>7 DEF receive_blocking_out_buffer, BetweenRounds, Calling
  <2> QED
    BY <1>0, <2>1, BlockPlaces
<1>8. CASE ReturnBlocking
  BY <1>8, ReturnBlockingPlaces
<1>9. CASE take_published
  BY <1>9, TakePublishedPlaces
<1>10. CASE get_next_out_buffer
  BY <1>10, NextOutBufferPlaces
<1>11. CASE UNCHANGED vars
  BY <1>11, StutterPlaces
<1> QED
  BY <1>1, <1>2, <1>3, <1>4, <1>5, <1>6, <1>7, <1>8, <1>9, <1>10, <1>11 DEF Next

LEMMA MessagesInductive ==
  ASSUME ServersFit
  PROVE  Spec => [](IInv /\ MInv)
<1>1. Init => IInv /\ MInv
  BY InitHolds, InitPlaces
<1>2. IInv /\ MInv /\ [Next]_vars => IInv' /\ MInv'
  BY StepKeeps, StepPlaces
<1> QED
  BY <1>1, <1>2, PTL DEF Spec

(***************************************************************************)
(* The application gets the messages of a server in the order in which the *)
(* server published them, in any number of rounds of receive and           *)
(* finish_receive or of the blocking calls, whichever queue or out buffer  *)
(* the task of a round was given: what take_published and                  *)
(* get_next_out_buffer gave and what is still published is in order.       *)
(***************************************************************************)
THEOREM GivenAreInOrder ==
  ASSUME ServersFit
  PROVE  Spec => []GivenInOrder
<1>1. ASSUME IInv, MInv PROVE GivenInOrder
  <2>1. /\ given \in Seq(Messages) /\ published \in Seq(Messages)
        /\ Upwards(given) /\ Upwards(published)
    BY <1>1 DEF IInv, Typed, MInv, Placed, Sorted
  <2>2. ASSUME NEW i \in DOMAIN given, NEW j \in DOMAIN published,
               given[i].server = published[j].server
        PROVE  given[i].n < published[j].n
    <3> DEFINE s == given[i].server
    <3>1. given[i] \in Messages /\ published[j] \in Messages
      BY <2>1
    <3>2. s \in Servers /\ given[i].n \in Nat /\ published[j].n \in Nat
      BY <3>1 DEF Messages
    <3>3. arrived[s] \in Nat
      BY <1>1, <3>2 DEF IInv, Typed
    <3>4. PICK a \in 0 .. arrived[s], b \in 0 .. arrived[s], c \in 0 .. arrived[s],
               d \in 0 .. arrived[s] : Staged(s, a, b, c, d)
      BY <1>1, <3>2 DEF MInv, Placed, Lined
    <3>5. given[i].n <= a
      BY <3>4 DEF Staged, Between
    <3>6. a < published[j].n
      BY <2>2, <3>4 DEF Staged, Between
    <3> QED
      BY <3>2, <3>3, <3>5, <3>6
  <2>3. Upwards(given \o published)
    BY <2>1, <2>2, Joined
  <2> QED
    BY <2>3 DEF GivenInOrder, Upwards
<1> QED
  BY <1>1, MessagesInductive, PTL

-----------------------------------------------------------------------------
(***************************************************************************)
(* Where a message is, stage by stage.                                     *)
(***************************************************************************)
LEMMA InPlace ==
  ASSUME NEW place, NEW x \in Seq(Messages), NEW s, NEW n
  PROVE  LET P == In(place, x, [server |-> s, n |-> n])
         IN  /\ P # {} <=> HasMessage(x, s, n)
             /\ P # {} => Has(x, s)
             /\ Upwards(x) => \A y, z \in P : y = z
<1> DEFINE m == [server |-> s, n |-> n]
           P == In(place, x, m)
<1>1. \A i \in DOMAIN x : x[i] \in Messages
  OBVIOUS
<1>2. \A i \in DOMAIN x : x[i] = m <=> x[i].server = s /\ x[i].n = n
  BY <1>1 DEF Messages
<1>3. \A i \in DOMAIN x : x[i].n \in Nat /\ i \in Nat
  BY <1>1 DEF Messages
<1> HIDE DEF m
<1>4. \A z : z \in P <=> \E i \in DOMAIN x : z = <<place, i>> /\ x[i] = m
  BY DEF In
<1> HIDE DEF P
<1>5. P # {} <=> HasMessage(x, s, n)
  BY <1>2, <1>4 DEF HasMessage
<1>6. P # {} => Has(x, s)
  BY <1>2, <1>4 DEF Has
<1>7. ASSUME Upwards(x), NEW y \in P, NEW z \in P PROVE y = z
  <2>1. PICK i \in DOMAIN x : y = <<place, i>> /\ x[i] = m
    BY <1>4
  <2>2. PICK j \in DOMAIN x : z = <<place, j>> /\ x[j] = m
    BY <1>4
  <2>3. ~ (i < j) /\ ~ (j < i)
    BY <1>2, <1>3, <1>7, <2>1, <2>2 DEF Upwards
  <2>4. i = j
    BY <1>3, <2>3
  <2> QED
    BY <2>1, <2>2, <2>4
<1> QED
  BY <1>5, <1>6, <1>7 DEF P, m

\* Set P of places has a message with numbers in (low, high], once.
OnceIn(P, n, low, high) ==
  /\ P # {} <=> low < n /\ n <= high
  /\ \A x, y \in P : x = y

\* It has the message at most once, and then its number is at most high.
Before(P, n, high) == (P # {} => n <= high) /\ \A x, y \in P : x = y

\* The messages that a socket, a channel, the containers, the published queue
\* and the application have
InSocket(s, n) ==
  {<<<<"socket", s>>, i>> : i \in {i \in DOMAIN socket[s] :
     socket[s][i].low < n /\ n <= socket[s][i].high}}

InReady(s, n) ==
  In(<<"ready", s>>, [i \in DOMAIN ready[s] |-> [server |-> s, n |-> ready[s][i]]],
     [server |-> s, n |-> n])

InHands(s, n) ==
  UNION {In(<<"task", t>>, task[t].held, [server |-> s, n |-> n]) : t \in Tasks}

InQueues(s, n) ==
  UNION {In(<<"queue", i>>, receive_queue[i], [server |-> s, n |-> n]) :
           i \in DOMAIN receive_queue}

InOut(s, n) ==
  UNION {In(<<"out", i>>, out_buffers[i].data, [server |-> s, n |-> n]) :
           i \in DOMAIN out_buffers}

InPublished(s, n) == In(<<"published", 0>>, published, [server |-> s, n |-> n])

InGiven(s, n) == In(<<"given", 0>>, given, [server |-> s, n |-> n])

LEMMA PlacesAre ==
  ASSUME NEW s, NEW n
  PROVE  Places(s, n) = InSocket(s, n) \cup InReady(s, n)
                          \cup (InHands(s, n) \cup InQueues(s, n) \cup InOut(s, n))
                          \cup InPublished(s, n) \cup InGiven(s, n)
<1>1. Places(s, n) = InSocket(s, n) \cup InReady(s, n) \cup InHands(s, n)
                       \cup InQueues(s, n) \cup InOut(s, n)
                       \cup InPublished(s, n) \cup InGiven(s, n)
  BY DEF Places, InSocket, InReady, InHands, InQueues, InOut, InPublished, InGiven
<1> QED
  BY <1>1

\* A message up to e is in one place, unless it should be in G and is not.
Settled(all, G, n, a, e) ==
  /\ \A x, y \in all : x = y
  /\ all = {} => n > e \/ (n <= a /\ G = {})
  /\ n > e => all = {}

\* Five stages that follow each other have a message once.
LEMMA OneStage ==
  ASSUME NEW a \in Nat, NEW b \in Nat, NEW c \in Nat, NEW d \in Nat, NEW e \in Nat,
         a <= b, b <= c, c <= d, d <= e, NEW n \in Nat \ {0},
         NEW G, NEW P, NEW C, NEW R, NEW U,
         Before(G, n, a), OnceIn(P, n, a, b), OnceIn(C, n, b, c), OnceIn(R, n, c, d), OnceIn(U, n, d, e)
  PROVE  Settled(U \cup R \cup C \cup P \cup G, G, n, a, e)
<1> DEFINE all == U \cup R \cup C \cup P \cup G
<1> USE DEF Before, Settled
<1>1. CASE n <= a
  <2>1. P = {} /\ C = {} /\ R = {} /\ U = {}
    BY <1>1 DEF OnceIn
  <2>2. all = G /\ ~ (n > e)
    BY <1>1, <2>1
  <2> QED
    BY <1>1, <2>2
<1>2. CASE a < n /\ n <= b
  <2>1. G = {} /\ P # {} /\ C = {} /\ R = {} /\ U = {}
    BY <1>2 DEF OnceIn
  <2>2. all = P /\ ~ (n > e)
    BY <1>2, <2>1
  <2> QED
    BY <2>1, <2>2 DEF OnceIn
<1>3. CASE b < n /\ n <= c
  <2>1. G = {} /\ P = {} /\ C # {} /\ R = {} /\ U = {}
    BY <1>3 DEF OnceIn
  <2>2. all = C /\ ~ (n > e)
    BY <1>3, <2>1
  <2> QED
    BY <2>1, <2>2 DEF OnceIn
<1>4. CASE c < n /\ n <= d
  <2>1. G = {} /\ P = {} /\ C = {} /\ R # {} /\ U = {}
    BY <1>4 DEF OnceIn
  <2>2. all = R /\ ~ (n > e)
    BY <1>4, <2>1
  <2> QED
    BY <2>1, <2>2 DEF OnceIn
<1>5. CASE d < n /\ n <= e
  <2>1. G = {} /\ P = {} /\ C = {} /\ R = {} /\ U # {}
    BY <1>5 DEF OnceIn
  <2>2. all = U /\ ~ (n > e)
    BY <1>5, <2>1
  <2> QED
    BY <2>1, <2>2 DEF OnceIn
<1>6. CASE n > e
  <2>1. G = {} /\ P = {} /\ C = {} /\ R = {} /\ U = {}
    BY <1>6 DEF OnceIn
  <2>2. all = {}
    BY <2>1
  <2> QED
    BY <1>6, <2>2
<1>7. \/ n <= a
      \/ a < n /\ n <= b
      \/ b < n /\ n <= c
      \/ c < n /\ n <= d
      \/ d < n /\ n <= e
      \/ n > e
  OBVIOUS
<1> QED
  BY <1>1, <1>2, <1>3, <1>4, <1>5, <1>6, <1>7

\* The packets of a socket.
LEMMA OnceInSocket ==
  ASSUME NEW s \in Servers, NEW n \in Nat, NEW d \in Nat, arrived[s] \in Nat,
         socket[s] \in Seq(Packet), Unread(socket[s], d, arrived[s])
  PROVE  OnceIn(InSocket(s, n), n, d, arrived[s])
<1> DEFINE q == socket[s]
           N(i) == q[i].low < n /\ n <= q[i].high
<1>1. /\ q = << >> => d = arrived[s]
      /\ q # << >> => q[1].low = d /\ q[Len(q)].high = arrived[s]
      /\ \A i \in DOMAIN q : d <= q[i].low /\ q[i].low <= q[i].high
                            /\ q[i].high <= arrived[s]
      /\ \A i, j \in DOMAIN q : i < j => q[i].high <= q[j].low
      /\ \A i \in DOMAIN q : i # Len(q) => q[i].high = q[i + 1].low
  BY DEF Unread
<1>2. /\ q \in Seq(Packet) /\ Len(q) \in Nat /\ DOMAIN q = 1 .. Len(q)
      /\ q = << >> <=> Len(q) = 0
  OBVIOUS
<1>3. \A i \in DOMAIN q : i \in Nat /\ q[i].low \in Nat /\ q[i].high \in Nat
  <2>1. \A i \in DOMAIN q : q[i] \in Packet
    BY <1>2
  <2> QED
    BY <1>2, <2>1 DEF Packet
<1>4. \A z : z \in InSocket(s, n) <=>
               \E i \in DOMAIN q : z = <<<<"socket", s>>, i>> /\ N(i)
  BY DEF InSocket
<1> HIDE DEF q
<1>5. \A i \in DOMAIN q : N(i) => d < n /\ n <= arrived[s]
  BY <1>1, <1>3
<1>6. ASSUME d < n, n <= arrived[s] PROVE \E i \in DOMAIN q : N(i)
  <2> DEFINE S == {i \in DOMAIN q : n <= q[i].high}
  <2>1. q # << >> /\ Len(q) \in DOMAIN q
    BY <1>1, <1>2, <1>6
  <2>2. S \in SUBSET Nat /\ S # {}
    BY <1>1, <1>3, <1>6, <2>1
  <2> HIDE DEF S
  <2>3. PICK i \in S : \A j \in S : i <= j
    BY <2>2, LeastNat
  <2>4. i \in DOMAIN q /\ n <= q[i].high
    BY <2>3 DEF S
  <2>5. q[i].low < n
    <3>1. CASE i = 1
      BY <1>1, <1>6, <2>1, <3>1
    <3>2. CASE i # 1
      <4>1. i - 1 \in DOMAIN q /\ i - 1 # Len(q) /\ (i - 1) + 1 = i /\ ~ (i <= i - 1)
        BY <1>2, <2>4, <3>2
      <4>2. i - 1 \notin S
        BY <2>3, <4>1
      <4>3. ~ (n <= q[i - 1].high)
        BY <4>1, <4>2 DEF S
      <4>4. q[i - 1].high = q[i].low
        BY <1>1, <4>1
      <4> QED
        BY <1>3, <2>4, <4>3, <4>4
    <3> QED
      BY <3>1, <3>2
  <2> QED
    BY <2>4, <2>5
<1>7. \A i, j \in DOMAIN q : N(i) /\ N(j) => ~ (i < j)
  BY <1>1, <1>3
<1>8. \A i, j \in DOMAIN q : N(i) /\ N(j) => i = j
  BY <1>3, <1>7
<1> HIDE DEF N
<1>9. InSocket(s, n) # {} <=> \E i \in DOMAIN q : N(i)
  BY <1>4
<1>10. InSocket(s, n) # {} <=> d < n /\ n <= arrived[s]
  BY <1>5, <1>6, <1>9
<1>11. ASSUME NEW x \in InSocket(s, n), NEW y \in InSocket(s, n) PROVE x = y
  <2>1. PICK i \in DOMAIN q : x = <<<<"socket", s>>, i>> /\ N(i)
    BY <1>4
  <2>2. PICK j \in DOMAIN q : y = <<<<"socket", s>>, j>> /\ N(j)
    BY <1>4
  <2>3. i = j
    BY <1>8, <2>1, <2>2
  <2> QED
    BY <2>1, <2>2, <2>3
<1> QED
  BY <1>10, <1>11 DEF OnceIn

\* The messages a channel has ready.
LEMMA OnceInReady ==
  ASSUME NEW s \in Servers, NEW n \in Nat, NEW c \in Nat, NEW d \in Nat, c <= d,
         Numbers(ready[s], c, d)
  PROVE  OnceIn(InReady(s, n), n, c, d)
<1> DEFINE r == ready[s]
<1>1. DOMAIN r = 1 .. d - c /\ \A i \in 1 .. d - c : r[i] = c + i
  BY DEF Numbers
<1>2. \A i \in DOMAIN r : [server |-> s, n |-> r[i]] = [server |-> s, n |-> n]
                            <=> r[i] = n
  OBVIOUS
<1>3. \A z : z \in InReady(s, n) <=>
               \E i \in DOMAIN r : z = <<<<"ready", s>>, i>> /\ r[i] = n
  BY <1>2 DEF InReady, In
<1> HIDE DEF r
<1>4. \A z : z \in InReady(s, n) <=>
               \E i \in 1 .. d - c : z = <<<<"ready", s>>, i>> /\ c + i = n
  BY <1>1, <1>3
<1>5. InReady(s, n) # {} <=> \E i \in 1 .. d - c : c + i = n
  BY <1>4
<1>6. ASSUME c < n, n <= d PROVE n - c \in 1 .. d - c /\ c + (n - c) = n
  BY <1>6
<1>7. InReady(s, n) # {} <=> c < n /\ n <= d
  BY <1>5, <1>6
<1>8. ASSUME NEW x \in InReady(s, n), NEW y \in InReady(s, n) PROVE x = y
  <2>1. PICK i \in 1 .. d - c : x = <<<<"ready", s>>, i>> /\ c + i = n
    BY <1>4
  <2>2. PICK j \in 1 .. d - c : y = <<<<"ready", s>>, j>> /\ c + j = n
    BY <1>4
  <2>3. i = j
    BY <2>1, <2>2
  <2> QED
    BY <2>1, <2>2, <2>3
<1> QED
  BY <1>7, <1>8 DEF OnceIn

\* Where containers H of the tasks, and Q on shelves of that name, have m
InContainers(Q, H, shelf, m) ==
  (UNION {In(<<"task", t>>, H[t], m) : t \in Tasks})
    \cup (UNION {In(<<shelf, i>>, Q[i], m) : i \in DOMAIN Q})

LEMMA OnceInContainers ==
  ASSUME NEW Q \in Seq(Seq(Messages)), NEW H \in [Tasks -> Seq(Messages)],
         NEW shelf, NEW s \in Servers, NEW n \in Nat, NEW b \in Nat, NEW c \in Nat,
         Apart(Q, H), AllUpwards(Q, H), Stored(Q, H, s, b, c)
  PROVE  OnceIn(InContainers(Q, H, shelf, [server |-> s, n |-> n]), n, b, c)
<1> DEFINE m == [server |-> s, n |-> n]
           A == UNION {In(<<"task", t>>, H[t], m) : t \in Tasks}
           B == UNION {In(<<shelf, i>>, Q[i], m) : i \in DOMAIN Q}
<1>1. \A i \in DOMAIN Q : Q[i] \in Seq(Messages)
  OBVIOUS
<1>2. \A t \in Tasks : H[t] \in Seq(Messages)
  OBVIOUS
<1>3. \A t \in Tasks :
        /\ In(<<"task", t>>, H[t], m) # {} <=> HasMessage(H[t], s, n)
        /\ In(<<"task", t>>, H[t], m) # {} => Has(H[t], s)
        /\ \A y, z \in In(<<"task", t>>, H[t], m) : y = z
  BY <1>2, InPlace DEF AllUpwards
<1>4. \A i \in DOMAIN Q :
        /\ In(<<shelf, i>>, Q[i], m) # {} <=> HasMessage(Q[i], s, n)
        /\ In(<<shelf, i>>, Q[i], m) # {} => Has(Q[i], s)
        /\ \A y, z \in In(<<shelf, i>>, Q[i], m) : y = z
  BY <1>1, InPlace DEF AllUpwards
<1> HIDE DEF m
<1>5. \A z : z \in A <=> \E t \in Tasks : z \in In(<<"task", t>>, H[t], m)
  OBVIOUS
<1>6. \A z : z \in B <=> \E i \in DOMAIN Q : z \in In(<<shelf, i>>, Q[i], m)
  OBVIOUS
<1> HIDE DEF A, B
<1>7. A \cup B # {} <=> \/ \E t \in Tasks : HasMessage(H[t], s, n)
                        \/ \E i \in DOMAIN Q : HasMessage(Q[i], s, n)
  <2>1. A # {} <=> \E t \in Tasks : HasMessage(H[t], s, n)
    BY <1>3, <1>5
  <2>2. B # {} <=> \E i \in DOMAIN Q : HasMessage(Q[i], s, n)
    BY <1>4, <1>6
  <2> QED
    BY <2>1, <2>2
<1>8. \A t \in Tasks : HasMessage(H[t], s, n) => b < n /\ n <= c
  BY DEF Stored, Between, HasMessage
<1>9. \A i \in DOMAIN Q : HasMessage(Q[i], s, n) => b < n /\ n <= c
  BY DEF Stored, Between, HasMessage
<1>10. ASSUME b < n, n <= c
       PROVE  \/ \E t \in Tasks : HasMessage(H[t], s, n)
              \/ \E i \in DOMAIN Q : HasMessage(Q[i], s, n)
  <2>1. n \in b + 1 .. c
    BY <1>10
  <2> QED
    BY <2>1 DEF Stored
<1>11. A \cup B # {} <=> b < n /\ n <= c
  BY <1>7, <1>8, <1>9, <1>10
<1>12. ASSUME NEW y \in A \cup B, NEW z \in A \cup B PROVE y = z
  <2>1. CASE y \in A /\ z \in A
    <3>1. PICK t \in Tasks : y \in In(<<"task", t>>, H[t], m)
      BY <1>5, <2>1
    <3>2. PICK u \in Tasks : z \in In(<<"task", u>>, H[u], m)
      BY <1>5, <2>1
    <3>3. Has(H[t], s) /\ Has(H[u], s)
      BY <1>3, <3>1, <3>2
    <3>4. t = u
      BY <3>3 DEF Apart
    <3> QED
      BY <1>3, <3>1, <3>2, <3>4
  <2>2. CASE y \in B /\ z \in B
    <3>1. PICK i \in DOMAIN Q : y \in In(<<shelf, i>>, Q[i], m)
      BY <1>6, <2>2
    <3>2. PICK j \in DOMAIN Q : z \in In(<<shelf, j>>, Q[j], m)
      BY <1>6, <2>2
    <3>3. Has(Q[i], s) /\ Has(Q[j], s)
      BY <1>4, <3>1, <3>2
    <3>4. i = j
      BY <3>3 DEF Apart
    <3> QED
      BY <1>4, <3>1, <3>2, <3>4
  <2>3. ASSUME NEW v \in A, NEW w \in B PROVE FALSE
    <3>1. PICK t \in Tasks : v \in In(<<"task", t>>, H[t], m)
      BY <1>5
    <3>2. PICK i \in DOMAIN Q : w \in In(<<shelf, i>>, Q[i], m)
      BY <1>6
    <3>3. Has(H[t], s) /\ Has(Q[i], s)
      BY <1>3, <1>4, <3>1, <3>2
    <3> QED
      BY <3>3 DEF Apart
  <2> QED
    BY <2>1, <2>2, <2>3
<1> QED
  BY <1>11, <1>12 DEF OnceIn, InContainers, A, B, m

\* A sequence with no message is no place.
LEMMA NotInEmpty ==
  ASSUME NEW place, NEW m
  PROVE  In(place, << >>, m) = {}
BY DEF In

LEMMA OnceStored ==
  ASSUME Typed, OneWay, Placed, NEW s \in Servers, NEW n \in Nat,
         NEW b \in Nat, NEW c \in Nat, Stored(Shelves, Held, s, b, c)
  PROVE  OnceIn(InHands(s, n) \cup InQueues(s, n) \cup InOut(s, n), n, b, c)
<1> DEFINE m == [server |-> s, n |-> n]
           A == UNION {In(<<"task", t>>, Held[t], m) : t \in Tasks}
           B(shelf) == UNION {In(<<shelf, i>>, Shelves[i], m) : i \in DOMAIN Shelves}
<1>1. Shelves \in Seq(Seq(Messages)) /\ Held \in [Tasks -> Seq(Messages)]
  BY ShelvesType
<1>2. Apart(Shelves, Held) /\ AllUpwards(Shelves, Held)
  BY DEF Placed, Sorted
<1>3. \A shelf : OnceIn(InContainers(Shelves, Held, shelf, m), n, b, c)
  BY <1>1, <1>2, OnceInContainers
<1>4. \A shelf : InContainers(Shelves, Held, shelf, m) = A \cup B(shelf)
  BY DEF InContainers
<1>5. A = InHands(s, n)
  BY DEF InHands, Held
<1>6. CASE api = "queue"
  <2>1. B("queue") = InQueues(s, n)
    BY <1>6, ShelvesType DEF InQueues
  <2>2. \A i \in DOMAIN out_buffers : out_buffers[i].data = << >>
    BY <1>6 DEF OneWay
  <2>3. \A i \in DOMAIN out_buffers : In(<<"out", i>>, out_buffers[i].data, m) = {}
    BY <2>2, NotInEmpty
  <2>4. InOut(s, n) = {}
    BY <2>3 DEF InOut
  <2>5. InContainers(Shelves, Held, "queue", m)
          = InHands(s, n) \cup InQueues(s, n) \cup InOut(s, n)
    BY <1>4, <1>5, <2>1, <2>4
  <2> QED
    BY <1>3, <2>5
<1>7. CASE api = "out"
  <2>1. DOMAIN Shelves = DOMAIN out_buffers
        /\ \A i \in DOMAIN out_buffers : Shelves[i] = out_buffers[i].data
    BY <1>7, ShelvesType
  <2>2. B("out") = InOut(s, n)
    BY <2>1 DEF InOut
  <2>3. \A i \in DOMAIN receive_queue : receive_queue[i] = << >>
    BY <1>7 DEF OneWay
  <2>4. \A i \in DOMAIN receive_queue : In(<<"queue", i>>, receive_queue[i], m) = {}
    BY <2>3, NotInEmpty
  <2>5. InQueues(s, n) = {}
    BY <2>4 DEF InQueues
  <2>6. InContainers(Shelves, Held, "out", m)
          = InHands(s, n) \cup InQueues(s, n) \cup InOut(s, n)
    BY <1>4, <1>5, <2>2, <2>5
  <2> QED
    BY <1>3, <2>6
<1> QED
  BY <1>6, <1>7 DEF OneWay

(***************************************************************************)
(* No message that arrived is lost or doubled on its way to the            *)
(* application, for any number of servers that fit, any interleaving of    *)
(* the tasks and whatever ends the loop of receive_server or of            *)
(* receive_server_into_out_buffer: each is in the socket, in the channel,  *)
(* with a task, in a queue or an out buffer, published or given, and in    *)
(* one of these only, or an out buffer that says it holds no bytes had it. *)
(***************************************************************************)
THEOREM MessagesInOnePlace ==
  ASSUME ServersFit
  PROVE  Spec => []EachInOnePlace
<1>1. ASSUME IInv, MInv, NEW s \in Servers, NEW n \in 1 .. MaxPackets
      PROVE  /\ \A x, y \in Places(s, n) : x = y
             /\ Places(s, n) = {} => n > arrived[s] \/ [server |-> s, n |-> n] \in cut
             /\ n > arrived[s] => Places(s, n) = {}
  <2>1. n \in Nat \ {0}
    BY PoolAssumption
  <2>2. arrived[s] \in Nat /\ socket[s] \in Seq(Packet) /\ published \in Seq(Messages)
    BY <1>1 DEF IInv, Typed
  <2>3. PICK a \in 0 .. arrived[s], b \in 0 .. arrived[s], c \in 0 .. arrived[s],
             d \in 0 .. arrived[s] : Staged(s, a, b, c, d)
    BY <1>1 DEF MInv, Placed, Lined
  <2>4. /\ a \in Nat /\ b \in Nat /\ c \in Nat /\ d \in Nat
        /\ a <= b /\ b <= c /\ c <= d /\ d <= arrived[s]
    BY <2>2, <2>3 DEF Staged
  <2>5. OnceIn(InSocket(s, n), n, d, arrived[s])
    BY <2>1, <2>2, <2>3, <2>4, OnceInSocket DEF Staged
  <2>6. OnceIn(InReady(s, n), n, c, d)
    BY <2>1, <2>3, <2>4, OnceInReady DEF Staged
  <2>7. OnceIn(InHands(s, n) \cup InQueues(s, n) \cup InOut(s, n), n, b, c)
    BY <1>1, <2>1, <2>3, <2>4, OnceStored DEF Staged, IInv, MInv
  <2>8. OnceIn(InPublished(s, n), n, a, b)
    <3>1. /\ InPublished(s, n) # {} <=> HasMessage(published, s, n)
          /\ \A x, y \in InPublished(s, n) : x = y
      BY <1>1, <2>2, InPlace DEF InPublished, MInv, Placed, Sorted
    <3>2. HasMessage(published, s, n) => a < n /\ n <= b
      BY <2>3 DEF Staged, Between, HasMessage
    <3>3. ASSUME a < n, n <= b PROVE HasMessage(published, s, n)
      <4>1. n \in a + 1 .. b
        BY <2>1, <2>4, <3>3
      <4> QED
        BY <2>3, <4>1 DEF Staged
    <3> QED
      BY <3>1, <3>2, <3>3 DEF OnceIn
  <2>9. /\ InGiven(s, n) # {} <=> HasMessage(given, s, n)
        /\ \A x, y \in InGiven(s, n) : x = y
    BY <1>1, InPlace DEF InGiven, MInv, Placed, Sorted
  <2>10. InGiven(s, n) # {} => n <= a
    BY <2>3, <2>9 DEF Staged, Between, HasMessage
  <2>11. ASSUME n <= a, InGiven(s, n) = {} PROVE [server |-> s, n |-> n] \in cut
    <3>1. n \in 1 .. a
      BY <2>1, <2>4, <2>11
    <3> QED
      BY <2>3, <2>9, <2>11, <3>1 DEF Staged
  <2> DEFINE G == InGiven(s, n)
             P == InPublished(s, n)
             C == InHands(s, n) \cup InQueues(s, n) \cup InOut(s, n)
             R == InReady(s, n)
             U == InSocket(s, n)
             e == arrived[s]
             all == U \cup R \cup C \cup P \cup G
  <2>12. Places(s, n) = all
    BY PlacesAre
  <2>13. /\ G # {} => n <= a
         /\ \A x, y \in G : x = y
         /\ OnceIn(P, n, a, b) /\ OnceIn(C, n, b, c)
         /\ OnceIn(R, n, c, d) /\ OnceIn(U, n, d, e) /\ e \in Nat /\ d <= e
    BY <2>2, <2>4, <2>5, <2>6, <2>7, <2>8, <2>9, <2>10
  <2>14. G = {} /\ n <= a => [server |-> s, n |-> n] \in cut
    BY <2>11
  <2> HIDE DEF G, P, C, R, U, e
  <2>15. Settled(all, G, n, a, e)
    BY <2>1, <2>4, <2>13, OneStage DEF Before
  <2> HIDE DEF all
  <2>16. /\ \A x, y \in all : x = y
         /\ all = {} => n > e \/ [server |-> s, n |-> n] \in cut
         /\ n > e => all = {}
    BY <2>14, <2>15 DEF Settled
  <2> QED
    BY <2>12, <2>16 DEF e
<1>2. IInv /\ MInv => EachInOnePlace
  BY <1>1 DEF EachInOnePlace
<1> QED
  BY <1>2, MessagesInductive, PTL
=============================================================================
