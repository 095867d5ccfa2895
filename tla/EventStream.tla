------------------------------ MODULE EventStream ------------------------------
(***************************************************************************)
(* The live event stream of the web UI: publishEvent of any process        *)
(* appends to a workspace's events.ndjson, the server polls the files and  *)
(* broadcasts what is new, and a browser that reconnects says by           *)
(* Last-Event-ID from where on it wants to have what it has missed.        *)
(*                                                                         *)
(* A file is a sequence of event numbers, its size the number of its lines *)
(* (a line is appended by one write).  A connection is a channel in order; *)
(* what is on its way when it breaks is lost.  The "connected" message and *)
(* lines that are no events carry no number and are left out.              *)
(***************************************************************************)
EXTENDS Integers, Sequences, FiniteSets

CONSTANTS
  Workspaces,    \* how many workspaces the server shows
  Publisher,     \* the processes that publish
  Client,        \* the browsers
  Polls,         \* the polls, by workspace and number, that may be under way at once:
                 \* setInterval does not wait for the last one
  MaxReplay,     \* maxReplayLines (1000)
  MaxEvents,     \* bounds the events of all workspaces together
  MaxFaults      \* bounds the broken connections and restarts of the server

ASSUME EventStreamAssumption ==
  /\ {Workspaces, MaxReplay, MaxEvents} \subseteq Nat \ {0}
  /\ Polls \subseteq (1..Workspaces) \X Nat
  /\ MaxFaults \in Nat

Workspace == 1..Workspaces
Event     == Workspace \X (1..MaxEvents)

VARIABLES
  next,      \* metadata.event_seq of each workspace
  publish,   \* publishEvent of each process: the event it has a number for
  log,       \* events.ndjson of each workspace
  size,      \* what a tailer has read; -1 before its first poll
  poll,      \* the polls of each tailer under way
  client,    \* the server's side of each connection (SseClient and its replay)
  wire,      \* what is on its way to each browser
  lastId,    \* the id of the last event a browser has got
  known,     \* the events a browser has got, or has been told are missing
  owed,      \* history: the events that each browser must learn of
  faults     \* the faults so far

serverVars  == <<size, poll, client, wire>>
browserVars == <<lastId, known>>
vars == <<next, publish, log, serverVars, browserVars, owed, faults>>

None == <<0, 0>>    \* no event
IdlePoll == [pc |-> "idle", to |-> 0, from |-> 0]

\* phase: off, reading and writing the replay of workspace ws, live.  upto: how much
\* of the file the replay has read.
Disconnected == [phase |-> "off", ws |-> 1, replaying |-> FALSE, cursor |-> None,
                 upto |-> 0, pending |-> <<>>]

Message == [event : Event \cup {None}, missing : SUBSET Event]
Of(e)   == [event |-> e, missing |-> {}]

Connection ==
  [phase : {"off", "read", "write", "live"}, ws : Workspace, replaying : BOOLEAN,
   cursor : Event \cup {None}, upto : Nat, pending : Seq(Message)]

TypeOK ==
  /\ next \in [Workspace -> Nat]
  /\ publish \in [Publisher -> Event \cup {None}]
  /\ log \in [Workspace -> Seq(1..MaxEvents)]
  /\ size \in [Workspace -> Nat \cup {-1}]
  /\ poll \in [Polls -> [pc : {"idle", "stat", "open", "read"}, to : Nat, from : Nat]]
  /\ client \in [Client -> Connection]
  /\ wire \in [Client -> Seq(Message)]
  /\ lastId \in [Client -> Event \cup {None}]
  /\ known \in [Client -> SUBSET Event]
  /\ owed \in [Client -> SUBSET Event]
  /\ faults \in Nat

Init ==
  /\ next = [w \in Workspace |-> 0]
  /\ publish = [p \in Publisher |-> None]
  /\ log = [w \in Workspace |-> <<>>]
  /\ size = [w \in Workspace |-> -1]
  /\ poll = [t \in Polls |-> IdlePoll]
  /\ client = [c \in Client |-> Disconnected]
  /\ wire = [c \in Client |-> <<>>]
  /\ lastId = [c \in Client |-> None]
  /\ known = [c \in Client |-> {}]
  /\ owed = [c \in Client |-> {}]
  /\ faults = 0

-----------------------------------------------------------------------------
(* publishEvent: the number and the line are two steps *)

Taken == {e \in Event : e[2] <= next[e[1]]}

\* nextEventSeq
TakeNumber(p, w) ==
  /\ publish[p] = None /\ Cardinality(Taken) < MaxEvents
  /\ next' = [next EXCEPT ![w] = @ + 1]
  /\ publish' = [publish EXCEPT ![p] = <<w, next[w] + 1>>]
  /\ UNCHANGED <<log, serverVars, browserVars, owed, faults>>

\* A browser must learn of an event when the line comes in the order of the numbers,
\* the tailer is up and the browser has an id to resume from.
AppendLine(p) ==
  /\ publish[p] # None
  /\ LET w == publish[p][1]
         n == publish[p][2]
         inOrder == \A i \in DOMAIN log[w] : log[w][i] < n
     IN /\ log' = [log EXCEPT ![w] = Append(@, n)]
        /\ owed' = [c \in Client |->
             IF inOrder /\ size[w] >= 0 /\ lastId[c] # None
             THEN owed[c] \cup {<<w, n>>} ELSE owed[c]]
  /\ publish' = [publish EXCEPT ![p] = None]
  /\ UNCHANGED <<next, serverVars, browserVars, faults>>

\* The process dies with a number and no line.
PublisherDies(p) ==
  /\ publish[p] # None
  /\ publish' = [publish EXCEPT ![p] = None]
  /\ UNCHANGED <<next, log, serverVars, browserVars, owed, faults>>

-----------------------------------------------------------------------------
(* startEventTailer: one poll is a stat, an open and a read *)

\* The new lines go to every open connection: on the wire, or to pending while the
\* connection replays.
Broadcast(events) ==
  LET messages == [i \in DOMAIN events |-> Of(events[i])]
  IN /\ wire' = [c \in Client |->
          IF client[c].phase # "off" /\ ~client[c].replaying
          THEN wire[c] \o messages ELSE wire[c]]
     /\ client' = [c \in Client |->
          IF client[c].phase # "off" /\ client[c].replaying
          THEN [client[c] EXCEPT !.pending = @ \o messages] ELSE client[c]]

\* A poll that starts with nothing new to see returns at once and is left out.
PollStat(t) ==
  /\ poll[t].pc = "idle" /\ size[t[1]] # Len(log[t[1]])
  /\ poll' = [poll EXCEPT ![t] = [IdlePoll EXCEPT !.pc = "stat", !.to = Len(log[t[1]])]]
  /\ UNCHANGED <<next, publish, log, size, client, wire, browserVars, owed, faults>>

\* The first poll only notes how long the file is; a file that seems shorter than what
\* was read (an older stat) takes the tailer back.
PollCheck(t) ==
  LET w == t[1]
      s == poll[t].to
  IN
  /\ poll[t].pc = "stat"
  /\ size' = [size EXCEPT ![w] = IF s < size[w] \/ size[w] = -1 THEN s ELSE @]
  /\ poll' = [poll EXCEPT ![t] =
       IF size[w] # -1 /\ s > size[w] THEN [@ EXCEPT !.pc = "open"] ELSE IdlePoll]
  /\ UNCHANGED <<next, publish, log, client, wire, browserVars, owed, faults>>

\* Another poll may have gone further since: the buffer cannot have a negative length.
PollOpened(t) ==
  /\ poll[t].pc = "open"
  /\ poll' = [poll EXCEPT ![t] =
       IF poll[t].to >= size[t[1]] THEN [@ EXCEPT !.pc = "read", !.from = size[t[1]]]
       ELSE IdlePoll]
  /\ UNCHANGED <<next, publish, log, size, client, wire, browserVars, owed, faults>>

Lines(w, from, to) == [i \in 1..(to - from) |-> <<w, log[w][from + i]>>]

PollRead(t) ==
  /\ poll[t].pc = "read"
  /\ Broadcast(Lines(t[1], poll[t].from, poll[t].to))
  /\ size' = [size EXCEPT ![t[1]] = poll[t].to]
  /\ poll' = [poll EXCEPT ![t] = IdlePoll]
  /\ UNCHANGED <<next, publish, log, browserVars, owed, faults>>

-----------------------------------------------------------------------------
(* GET /events *)

\* What would go wrong: a connection takes part in broadcasts from its start on.
AcceptedLive(id) == [Disconnected EXCEPT !.phase = "read", !.cursor = id]

\* Only a connection with an id buffers what is broadcast while it replays.
Accepted(id) ==
  [Disconnected EXCEPT !.phase = "read", !.cursor = id, !.replaying = (id # None)]

Connect(c) ==
  /\ client[c].phase = "off"
  /\ client' = [client EXCEPT ![c] = Accepted(lastId[c])]
  /\ UNCHANGED <<next, publish, log, size, poll, wire, browserVars, owed, faults>>

\* What would go wrong: the number of the id is taken for every workspace.
CursorOfAll(c, w) == client[c].cursor[2]

\* parseCursors: the id names one workspace, the others are replayed from their start.
Cursor(c, w) == IF client[c].cursor[1] = w THEN client[c].cursor[2] ELSE 0

ReplayRead(c) ==
  /\ client[c].phase = "read"
  /\ client' = [client EXCEPT ![c].phase = "write", ![c].upto = Len(log[client[c].ws])]
  /\ UNCHANGED <<next, publish, log, size, poll, wire, browserVars, owed, faults>>

\* The lines after the cursor, by their places in the file
Candidates(c) ==
  {i \in 1..client[c].upto : log[client[c].ws][i] > Cursor(c, client[c].ws)}

\* The last MaxReplay of them
ToSend(c) ==
  {i \in Candidates(c) : Cardinality({k \in Candidates(c) : k > i}) < MaxReplay}

Ascending(S) ==
  [n \in 1..Cardinality(S) |-> CHOOSE i \in S : Cardinality({k \in S : k <= i}) = n]

\* replayEvents: before the lines comes a warning when some are left out.
Replay(c) ==
  LET Number(i) == <<client[c].ws, log[client[c].ws][i]>>
      line      == Ascending(ToSend(c))
      warning   == [event |-> None, missing |-> {Number(i) : i \in Candidates(c) \ ToSend(c)}]
  IN (IF ToSend(c) # Candidates(c) THEN <<warning>> ELSE <<>>)
     \o [n \in DOMAIN line |-> Of(Number(line[n]))]

\* After the last workspace what was buffered follows, in the same turn.
ReplayWrite(c) ==
  LET last == client[c].ws = Workspaces
  IN
  /\ client[c].phase = "write"
  /\ wire' = [wire EXCEPT ![c] = @ \o Replay(c) \o IF last THEN client[c].pending ELSE <<>>]
  /\ client' = [client EXCEPT ![c] =
       IF last THEN [Disconnected EXCEPT !.phase = "live"]
       ELSE [client[c] EXCEPT !.phase = "read", !.ws = client[c].ws + 1]]
  /\ UNCHANGED <<next, publish, log, size, poll, browserVars, owed, faults>>

-----------------------------------------------------------------------------
(* The browser (EventSource) and what may break *)

Receive(c) ==
  /\ wire[c] # <<>>
  /\ LET m == Head(wire[c])
     IN /\ lastId' = [lastId EXCEPT ![c] = IF m.event = None THEN @ ELSE m.event]
        /\ known' = [known EXCEPT ![c] = @ \cup m.missing \cup ({m.event} \ {None})]
  /\ wire' = [wire EXCEPT ![c] = Tail(@)]
  /\ UNCHANGED <<next, publish, log, size, poll, client, owed, faults>>

Breaks(c) ==
  /\ client[c].phase # "off" /\ faults < MaxFaults
  /\ faults' = faults + 1
  /\ client' = [client EXCEPT ![c] = Disconnected]
  /\ wire' = [wire EXCEPT ![c] = <<>>]
  /\ UNCHANGED <<next, publish, log, size, poll, browserVars, owed>>

ServerRestarts ==
  /\ faults < MaxFaults
  /\ faults' = faults + 1
  /\ size' = [w \in Workspace |-> -1]
  /\ poll' = [t \in Polls |-> IdlePoll]
  /\ client' = [c \in Client |-> Disconnected]
  /\ wire' = [c \in Client |-> <<>>]
  /\ UNCHANGED <<next, publish, log, browserVars, owed>>

Poll(t) == PollStat(t) \/ PollCheck(t) \/ PollOpened(t) \/ PollRead(t)

Next ==
  \/ \E p \in Publisher :
       (\E w \in Workspace : TakeNumber(p, w)) \/ AppendLine(p) \/ PublisherDies(p)
  \/ \E t \in Polls : Poll(t)
  \/ \E c \in Client : Connect(c) \/ ReplayRead(c) \/ ReplayWrite(c) \/ Receive(c) \/ Breaks(c)
  \/ ServerRestarts

\* The timer of a tailer goes on firing, a read that was started ends, a browser
\* reconnects by itself (EventSource) and reads what it is sent.
Fairness ==
  /\ \A t \in Polls : WF_vars(Poll(t))
  /\ \A c \in Client :
       WF_vars(Connect(c)) /\ WF_vars(ReplayRead(c)) /\ WF_vars(ReplayWrite(c)) /\ WF_vars(Receive(c))

Spec == Init /\ [][Next]_vars /\ Fairness

-----------------------------------------------------------------------------
(* Properties *)

\* What a browser would ask for next leaves out nothing that it has missed: every event
\* it is owed, up to its Last-Event-ID, it has got or was told is missing (ui.ts 582,
\* 778, 790).
CursorHasSeenAll ==
  \A c \in Client : \A e \in owed[c] :
    e[1] = lastId[c][1] /\ e[2] <= lastId[c][2] => e \in known[c]

\* A browser catches up: what is published while it reconnects, while its replay is being
\* read, while two polls overlap or before the server restarts has reached it once
\* publishing rests, or it has been told that it is missing (README 456: the server fills
\* in what was missed).
Delivered ==
  \A c \in Client : <>[](owed[c] \subseteq known[c])
================================================================================
