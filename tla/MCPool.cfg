\* Two servers in a pool with room for two.  Two packets per receive_loop and two
\* messages per task, so that both limits end a loop early.
CONSTANTS
  Servers = {s1, s2}
  max_servers = 2
  LOOP = 2
  PASSES = 2
  NoServer = NoServer
  NoCounter = NoCounter
  MaxPackets = 3
SPECIFICATION Spec
INVARIANTS TypeOK ServersKept ArraysReturned CountdownExact EachInOnePlace GivenInOrder EveryServerServed
PROPERTY RoundEnds
