---------------------------- MODULE MCEventStream ----------------------------
EXTENDS EventStream

\* The polls of the first workspace's tailer may overlap.
MCPolls == {<<1, 1>>, <<1, 2>>, <<2, 1>>}

\* A session under way: the first event of each workspace has been published, broadcast
\* and received.
SessionInit ==
  /\ next = [w \in Workspace |-> 1]
  /\ publish = [p \in Publisher |-> None]
  /\ log = [w \in Workspace |-> <<1>>]
  /\ size = [w \in Workspace |-> 1]
  /\ poll = [t \in Polls |-> IdlePoll]
  /\ client = [c \in Client |-> [Disconnected EXCEPT !.phase = "live"]]
  /\ wire = [c \in Client |-> <<>>]
  /\ lastId = [c \in Client |-> <<1, 1>>]
  /\ known = [c \in Client |-> {<<w, 1>> : w \in Workspace}]
  /\ owed = [c \in Client |-> {}]
  /\ faults = 0

SessionSpec == SessionInit /\ [][Next]_vars /\ Fairness
===============================================================================
