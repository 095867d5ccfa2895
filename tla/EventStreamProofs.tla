-------------------------- MODULE EventStreamProofs --------------------------
(***************************************************************************)
(* A browser that reconnects never resumes from beyond an event it has     *)
(* missed, for any number of workspaces, browsers, publishers and          *)
(* overlapping polls.                                                      *)
(***************************************************************************)
EXTENDS EventStream, FiniteSetTheorems, SequenceTheorems, TLAPS

(***************************************************************************)
(* The inductive invariant.  A sequence of messages tells a browser of     *)
(* events; it is sound for what the browser has and is owed when no event  *)
(* in it comes before a lower one of the same workspace that is owed.      *)
(***************************************************************************)
Tells(m) == m.missing \cup ({m.event} \ {None})
Heard(s) == UNION {Tells(s[i]) : i \in DOMAIN s}

Sound(s, has, due) ==
  \A i \in DOMAIN s : \A e \in due :
    s[i].event[1] = e[1] /\ e[2] <= s[i].event[2]
      => e \in has \/ \E j \in 1..i : e \in Tells(s[j])

InLog(e) == \E i \in DOMAIN log[e[1]] : log[e[1]][i] = e[2]

Known(e) == e = None \/ InLog(e)

\* Whatever carries an event has it from the file.
FromTheLog(c) ==
  /\ Known(lastId[c]) /\ Known(client[c].cursor)
  /\ \A i \in DOMAIN wire[c] : Known(wire[c][i].event)
  /\ \A i \in DOMAIN client[c].pending : Known(client[c].pending[i].event)

\* An event that is owed was above all numbers in the file when it came.
OwedInOrder(c) ==
  \A e \in owed[c] :
    \E i \in DOMAIN log[e[1]] :
      /\ log[e[1]][i] = e[2]
      /\ \A k \in 1..(i - 1) : log[e[1]][k] < e[2]

PollsInTheFile ==
  /\ \A w \in Workspace : size[w] <= Len(log[w])
  /\ \A t \in Polls :
       /\ poll[t].to <= Len(log[t[1]]) /\ poll[t].from <= poll[t].to
       /\ poll[t].pc \in {"open", "read"} => size[t[1]] >= 0

\* A connection buffers exactly while it replays to a browser with an id, and a
\* browser without an id is owed nothing.
Phases(c) ==
  /\ client[c].replaying <=> client[c].cursor # None
  /\ client[c].replaying => client[c].phase \in {"read", "write"}
  /\ ~client[c].replaying => client[c].pending = <<>>
  /\ lastId[c] = None => owed[c] = {}
  /\ client[c].phase = "write" => client[c].upto <= Len(log[client[c].ws])

\* What the replay of a browser with an id has still to tell it
ToReplay(c) ==
  {e \in Event :
    /\ client[c].replaying /\ client[c].ws <= e[1]
    /\ Cursor(c, e[1]) < e[2]
    /\ \E i \in DOMAIN log[e[1]] :
         /\ log[e[1]][i] = e[2]
         /\ client[c].ws = e[1] /\ client[c].phase = "write" => i <= client[c].upto}

\* What a browser has, or will have without any further poll
Covered(c) == known[c] \cup Heard(wire[c]) \cup Heard(client[c].pending) \cup ToReplay(c)

\* The places of a workspace's file that its tailer has behind it; all of them before
\* the first poll, which broadcasts nothing
Behind(w) ==
  {i \in DOMAIN log[w] :
    \/ size[w] = -1 \/ i <= size[w]
    \/ \E t \in Polls : t[1] = w /\ poll[t].pc = "read" /\ i <= poll[t].from}

\* What the tailer has behind it has been told to a connection that was owed it.
BehindIsCovered(c) ==
  client[c].phase # "off" =>
    \A e \in owed[c] : \A i \in Behind(e[1]) : log[e[1]][i] = e[2] => e \in Covered(c)

\* The id that a replay starts from hides nothing, nor does the last one received.
CursorHidesNothing(c) ==
  \A e \in owed[c] :
    e[1] = client[c].cursor[1] /\ e[2] <= client[c].cursor[2] => e \in known[c]

HasSeenAll(c) ==
  \A e \in owed[c] : e[1] = lastId[c][1] /\ e[2] <= lastId[c][2] => e \in known[c]

WireIsSound(c) == Sound(wire[c], known[c], owed[c])

PendingIsSound(c) ==
  Sound(client[c].pending, known[c] \cup Heard(wire[c]) \cup ToReplay(c), owed[c])

\* The parts that say nothing of the polls
Told(c) ==
  /\ FromTheLog(c)
  /\ OwedInOrder(c)
  /\ Phases(c)
  /\ CursorHidesNothing(c)
  /\ HasSeenAll(c)
  /\ WireIsSound(c)
  /\ PendingIsSound(c)

StreamInv ==
  /\ TypeOK
  /\ PollsInTheFile
  /\ \A c \in Client : Told(c) /\ BehindIsCovered(c)

USE EventStreamAssumption

-----------------------------------------------------------------------------
(* Sequences of messages *)

LEMMA HeardOfConcat ==
  ASSUME NEW s \in Seq(Message), NEW t \in Seq(Message)
  PROVE  Heard(s \o t) = Heard(s) \cup Heard(t)
<1> DEFINE u == s \o t
<1>1. u \in Seq(Message) /\ Len(u) = Len(s) + Len(t) /\ Len(s) \in Nat /\ Len(t) \in Nat
  BY ConcatProperties, LenProperties
<1>2. \A i \in 1..Len(s) : u[i] = s[i]
  BY ConcatProperties, LenProperties
<1>3. \A i \in 1..Len(t) : u[Len(s) + i] = t[i]
  <2> SUFFICES ASSUME NEW i \in 1..Len(t) PROVE u[Len(s) + i] = t[i]
    OBVIOUS
  <2>1. Len(s) + i \in 1..(Len(s) + Len(t)) /\ ~(Len(s) + i <= Len(s)) /\ Len(s) + i - Len(s) = i
    BY <1>1
  <2> QED BY <2>1, ConcatProperties
<1>4. DOMAIN s = 1..Len(s) /\ DOMAIN t = 1..Len(t) /\ DOMAIN u = 1..Len(u)
  BY <1>1, LenProperties
<1> HIDE DEF u
<1>5. \A i \in DOMAIN u : i \in DOMAIN s \/ \E k \in DOMAIN t : i = Len(s) + k
  <2> SUFFICES ASSUME NEW i \in DOMAIN u, i \notin DOMAIN s PROVE \E k \in DOMAIN t : i = Len(s) + k
    OBVIOUS
  <2>1. i - Len(s) \in DOMAIN t /\ i = Len(s) + (i - Len(s))
    BY <1>1, <1>4
  <2> QED BY <2>1
<1>6. Heard(u) \subseteq Heard(s) \cup Heard(t)
  BY <1>2, <1>3, <1>4, <1>5 DEF Heard
<1>7. \A i \in DOMAIN s : i \in DOMAIN u
  BY <1>1, <1>4
<1>8. \A i \in DOMAIN t : Len(s) + i \in DOMAIN u
  BY <1>1, <1>4
<1>9. Heard(s) \subseteq Heard(u)
  BY <1>2, <1>4, <1>7 DEF Heard
<1>10. Heard(t) \subseteq Heard(u)
  BY <1>3, <1>4, <1>8 DEF Heard
<1> QED BY <1>6, <1>9, <1>10 DEF u

LEMMA SoundOfConcat ==
  ASSUME NEW s \in Seq(Message), NEW t \in Seq(Message), NEW has, NEW due,
         Sound(s, has, due), Sound(t, has \cup Heard(s), due)
  PROVE  Sound(s \o t, has, due)
<1> DEFINE u == s \o t
<1>1. u \in Seq(Message) /\ Len(u) = Len(s) + Len(t) /\ Len(s) \in Nat /\ Len(t) \in Nat
  BY ConcatProperties, LenProperties
<1>2. \A i \in 1..Len(s) : u[i] = s[i]
  BY ConcatProperties, LenProperties
<1>3. \A i \in 1..Len(t) : u[Len(s) + i] = t[i]
  <2> SUFFICES ASSUME NEW i \in 1..Len(t) PROVE u[Len(s) + i] = t[i]
    OBVIOUS
  <2>1. Len(s) + i \in 1..(Len(s) + Len(t)) /\ ~(Len(s) + i <= Len(s)) /\ Len(s) + i - Len(s) = i
    BY <1>1
  <2> QED BY <2>1, ConcatProperties
<1>4. DOMAIN s = 1..Len(s) /\ DOMAIN t = 1..Len(t) /\ DOMAIN u = 1..Len(u)
  BY <1>1, LenProperties
<1> HIDE DEF u
<1> SUFFICES ASSUME NEW i \in DOMAIN u, NEW e \in due, u[i].event[1] = e[1], e[2] <= u[i].event[2],
                    e \notin has
             PROVE  \E j \in 1..i : e \in Tells(u[j])
  BY DEF Sound, u
<1>5. CASE i \in DOMAIN s
  <2>1. PICK j \in 1..i : e \in Tells(s[j])
    BY <1>2, <1>4, <1>5 DEF Sound
  <2>2. j \in 1..Len(s)
    BY <1>1, <1>4, <1>5, <2>1
  <2> QED BY <1>2, <2>1, <2>2
<1>6. CASE i \notin DOMAIN s
  <2> DEFINE k == i - Len(s)
  <2>1. k \in DOMAIN t /\ i = Len(s) + k /\ k \in Nat
    BY <1>1, <1>4, <1>6
  <2> HIDE DEF k
  <2>2. u[i] = t[k]
    BY <1>3, <1>4, <2>1
  <2>3. e \in has \cup Heard(s) \/ \E j \in 1..k : e \in Tells(t[j])
    BY <2>1, <2>2 DEF Sound
  <2>4. CASE e \in Heard(s)
    <3>1. PICK j \in DOMAIN s : e \in Tells(s[j])
      BY <2>4 DEF Heard
    <3>2. j \in 1..i /\ j \in 1..Len(s)
      BY <1>1, <1>4, <2>1, <3>1
    <3> QED BY <1>2, <3>1, <3>2
  <2>5. CASE \E j \in 1..k : e \in Tells(t[j])
    <3>1. PICK j \in 1..k : e \in Tells(t[j])
      BY <2>5
    <3>2. Len(s) + j \in 1..i /\ j \in 1..Len(t)
      BY <1>1, <1>4, <2>1, <3>1
    <3> QED BY <1>3, <3>1, <3>2
  <2> QED BY <2>3, <2>4, <2>5
<1> QED BY <1>5, <1>6

LEMMA KnownOfConcat ==
  ASSUME NEW s \in Seq(Message), NEW t \in Seq(Message),
         \A i \in DOMAIN s : Known(s[i].event), \A i \in DOMAIN t : Known(t[i].event)
  PROVE  \A i \in DOMAIN (s \o t) : Known((s \o t)[i].event)
<1>1. /\ Len(s) \in Nat /\ Len(t) \in Nat /\ DOMAIN s = 1..Len(s) /\ DOMAIN t = 1..Len(t)
      /\ DOMAIN (s \o t) = 1..(Len(s) + Len(t))
      /\ \A i \in 1..(Len(s) + Len(t)) : (s \o t)[i] = IF i <= Len(s) THEN s[i] ELSE t[i - Len(s)]
  BY ConcatProperties, LenProperties
<1> SUFFICES ASSUME NEW i \in 1..(Len(s) + Len(t)) PROVE Known((s \o t)[i].event)
  BY <1>1
<1>2. CASE i <= Len(s)
  <2>1. i \in DOMAIN s
    BY <1>1, <1>2
  <2> QED BY <1>1, <1>2, <2>1
<1>3. CASE ~(i <= Len(s))
  <2>1. i - Len(s) \in DOMAIN t
    BY <1>1, <1>3
  <2> QED BY <1>1, <1>3, <2>1
<1> QED BY <1>2, <1>3

LEMMA SoundWithMore ==
  ASSUME NEW s, NEW has, NEW more, NEW due, Sound(s, has, due), has \subseteq more
  PROVE  Sound(s, more, due)
BY DEF Sound

\* An event above all that a sequence carries may become owed.
LEMMA SoundWithNew ==
  ASSUME NEW s, NEW has, NEW due, NEW new \in Event, Sound(s, has, due),
         \A i \in DOMAIN s : s[i].event \in Event /\ s[i].event[1] = new[1] => s[i].event[2] < new[2],
         \A i \in DOMAIN s : s[i].event \in Event \cup {None}
  PROVE  Sound(s, has, due \cup {new})
<1>1. new[1] # 0 /\ new[2] \in Nat
  BY DEF Event, Workspace
<1>2. \A i \in DOMAIN s : ~(s[i].event[1] = new[1] /\ new[2] <= s[i].event[2])
  <2> SUFFICES ASSUME NEW i \in DOMAIN s, s[i].event[1] = new[1] PROVE ~(new[2] <= s[i].event[2])
    OBVIOUS
  <2>1. s[i].event \in Event
    BY <1>1 DEF None
  <2> QED BY <1>1, <2>1 DEF Event
<1> QED BY <1>2 DEF Sound

LEMMA HeardAtHead ==
  ASSUME NEW s \in Seq(Message), s # <<>>
  PROVE  Heard(s) = Tells(Head(s)) \cup Heard(Tail(s))
<1>1. /\ Tail(s) \in Seq(Message) /\ Len(Tail(s)) = Len(s) - 1 /\ Head(s) = s[1]
      /\ \A i \in 1..Len(Tail(s)) : Tail(s)[i] = s[i + 1]
  BY HeadTailProperties
<1>2. DOMAIN s = 1..Len(s) /\ DOMAIN Tail(s) = 1..Len(Tail(s)) /\ Len(s) \in Nat /\ Len(s) > 0
  BY <1>1, LenProperties, EmptySeq
<1>3. Heard(s) \subseteq Tells(Head(s)) \cup Heard(Tail(s))
  <2> SUFFICES ASSUME NEW i \in DOMAIN s, i # 1 PROVE Tells(s[i]) \subseteq Heard(Tail(s))
    BY <1>1 DEF Heard
  <2>1. i - 1 \in DOMAIN Tail(s) /\ i - 1 + 1 = i
    BY <1>1, <1>2
  <2>2. Tail(s)[i - 1] = s[i]
    BY <1>1, <1>2, <2>1
  <2> QED BY <2>1, <2>2 DEF Heard
<1>4. Tells(Head(s)) \subseteq Heard(s)
  BY <1>1, <1>2 DEF Heard
<1>5. Heard(Tail(s)) \subseteq Heard(s)
  <2> SUFFICES ASSUME NEW i \in DOMAIN Tail(s) PROVE Tells(Tail(s)[i]) \subseteq Heard(s)
    BY DEF Heard
  <2>1. i + 1 \in DOMAIN s /\ Tail(s)[i] = s[i + 1]
    BY <1>1, <1>2
  <2> QED BY <2>1 DEF Heard
<1> QED BY <1>3, <1>4, <1>5

LEMMA SoundTail ==
  ASSUME NEW s \in Seq(Message), s # <<>>, NEW has, NEW due, Sound(s, has, due)
  PROVE  Sound(Tail(s), has \cup Tells(Head(s)), due)
<1>1. /\ Tail(s) \in Seq(Message) /\ Len(Tail(s)) = Len(s) - 1 /\ Head(s) = s[1]
      /\ \A i \in 1..Len(Tail(s)) : Tail(s)[i] = s[i + 1]
  BY HeadTailProperties
<1>2. DOMAIN s = 1..Len(s) /\ DOMAIN Tail(s) = 1..Len(Tail(s)) /\ Len(s) \in Nat /\ Len(s) > 0
  BY <1>1, LenProperties, EmptySeq
<1> SUFFICES ASSUME NEW i \in DOMAIN Tail(s), NEW e \in due, Tail(s)[i].event[1] = e[1],
                    e[2] <= Tail(s)[i].event[2], e \notin has, e \notin Tells(Head(s))
             PROVE  \E j \in 1..i : e \in Tells(Tail(s)[j])
  BY DEF Sound
<1>3. i + 1 \in DOMAIN s /\ Tail(s)[i] = s[i + 1]
  BY <1>1, <1>2
<1>4. PICK j \in 1..(i + 1) : e \in Tells(s[j])
  BY <1>3 DEF Sound
<1>5. j # 1
  BY <1>1, <1>4
<1>6. j - 1 \in 1..i /\ j - 1 \in 1..Len(Tail(s)) /\ j - 1 + 1 = j
  BY <1>1, <1>2, <1>4, <1>5
<1> QED BY <1>1, <1>4, <1>6

-----------------------------------------------------------------------------
(* What the model's operators compute *)

\* A number that may still be taken is one of the bounded ones.
LEMMA NextIsBounded ==
  ASSUME next \in [Workspace -> Nat], NEW w \in Workspace, Cardinality(Taken) < MaxEvents
  PROVE  next[w] + 1 \in 1..MaxEvents
<1> SUFFICES ASSUME next[w] >= MaxEvents PROVE FALSE
  BY DEF Workspace
<1> DEFINE Row == {<<w, n>> : n \in 1..MaxEvents}
           place == [n \in 1..MaxEvents |-> <<w, n>>]
<1>1. IsFiniteSet(Event) /\ IsFiniteSet(1..MaxEvents) /\ Cardinality(1..MaxEvents) = MaxEvents
  <2>1. IsFiniteSet(Workspace) /\ IsFiniteSet(1..MaxEvents) /\ Cardinality(1..MaxEvents) = MaxEvents
    BY FS_Interval DEF Workspace
  <2> QED BY <2>1, FS_Product DEF Event
<1>2. Taken \subseteq Event
  BY DEF Taken
<1>3. IsFiniteSet(Taken)
  BY <1>1, <1>2, FS_Subset
<1>4. place \in Injection(1..MaxEvents, Taken)
  <2>1. \A n \in 1..MaxEvents : <<w, n>> \in Taken
    BY DEF Taken, Event
  <2> QED BY <2>1 DEF Injection, IsInjective
<1>5. Cardinality(1..MaxEvents) <= Cardinality(Taken)
  BY <1>3, <1>4, FS_Injection
<1> QED BY <1>1, <1>3, <1>5, FS_CardinalityType

LEMMA AscendingIsSorted ==
  ASSUME NEW S \in SUBSET Nat, IsFiniteSet(S)
  PROVE  /\ Cardinality(S) \in Nat
         /\ DOMAIN Ascending(S) = 1..Cardinality(S)
         /\ \A n \in DOMAIN Ascending(S) : Ascending(S)[n] \in S
         /\ \A i \in S : \E n \in DOMAIN Ascending(S) : Ascending(S)[n] = i
         /\ \A m, n \in DOMAIN Ascending(S) : Ascending(S)[m] <= Ascending(S)[n] => m <= n
<1> DEFINE Below(i) == {k \in S : k <= i}
           rank == [i \in S |-> Cardinality(Below(i))]
           size_ == Cardinality(S)
<1>1. size_ \in Nat
  BY FS_CardinalityType
<1>2. \A i \in S : IsFiniteSet(Below(i)) /\ Cardinality(Below(i)) \in 1..size_
  <2> SUFFICES ASSUME NEW i \in S PROVE IsFiniteSet(Below(i)) /\ Cardinality(Below(i)) \in 1..size_
    OBVIOUS
  <2>1. Below(i) \in SUBSET S /\ i \in Below(i)
    OBVIOUS
  <2>2. IsFiniteSet(Below(i)) /\ Cardinality(Below(i)) <= size_
    BY <2>1, FS_Subset
  <2>3. Cardinality(Below(i)) \in Nat /\ Cardinality(Below(i)) # 0
    BY <2>1, <2>2, FS_CardinalityType, FS_EmptySet
  <2> QED BY <1>1, <2>2, <2>3
<1>3. \A i, j \in S : i < j => Cardinality(Below(i)) < Cardinality(Below(j))
  <2> SUFFICES ASSUME NEW i \in S, NEW j \in S, i < j
               PROVE  Cardinality(Below(i)) < Cardinality(Below(j))
    OBVIOUS
  <2> i \in Nat /\ j \in Nat
    OBVIOUS
  <2>1. Below(i) \in SUBSET Below(j)
    <3>1. \A k \in Below(i) : k \in Nat /\ k \in S /\ k <= i
      OBVIOUS
    <3>2. \A k \in Below(i) : k <= j
      BY <3>1
    <3> QED BY <3>1, <3>2
  <2>2. j \in Below(j) /\ j \notin Below(i)
    OBVIOUS
  <2>3. Cardinality(Below(i)) <= Cardinality(Below(j)) /\ Cardinality(Below(i)) # Cardinality(Below(j))
    BY <1>2, <2>1, <2>2, FS_Subset
  <2> QED BY <1>1, <1>2, <2>3
<1> HIDE DEF Below
<1>4. rank \in Injection(S, 1..size_)
  <2>1. rank \in [S -> 1..size_]
    BY <1>2
  <2>2. \A i, j \in S : rank[i] = rank[j] => i = j
    <3> SUFFICES ASSUME NEW i \in S, NEW j \in S, rank[i] = rank[j], i # j PROVE FALSE
      OBVIOUS
    <3>1. i < j \/ j < i
      OBVIOUS
    <3> QED BY <1>1, <1>2, <1>3, <3>1
  <2> QED BY <2>1, <2>2 DEF Injection, IsInjective
<1>5. rank \in Surjection(S, 1..size_)
  <2>1. IsFiniteSet(1..size_) /\ Cardinality(1..size_) = size_
    BY <1>1, FS_Interval
  <2> QED BY <1>4, <2>1, FS_Injection
<1>6. \A n \in 1..size_ : Ascending(S)[n] \in S /\ Cardinality(Below(Ascending(S)[n])) = n
  <2> SUFFICES ASSUME NEW n \in 1..size_
               PROVE  Ascending(S)[n] \in S /\ Cardinality(Below(Ascending(S)[n])) = n
    OBVIOUS
  <2>1. \E i \in S : Cardinality(Below(i)) = n
    BY <1>5 DEF Surjection
  <2>2. Ascending(S)[n] = CHOOSE i \in S : Cardinality(Below(i)) = n
    BY DEF Ascending, Below
  <2> QED BY <2>1, <2>2
<1>7. DOMAIN Ascending(S) = 1..size_
  BY DEF Ascending
<1>8. \A i \in S : \E n \in DOMAIN Ascending(S) : Ascending(S)[n] = i
  <2> SUFFICES ASSUME NEW i \in S PROVE \E n \in DOMAIN Ascending(S) : Ascending(S)[n] = i
    OBVIOUS
  <2> DEFINE n == Cardinality(Below(i))
  <2>1. n \in 1..size_
    BY <1>2
  <2>2. rank[Ascending(S)[n]] = rank[i]
    BY <1>6, <2>1
  <2>3. Ascending(S)[n] = i
    BY <1>4, <1>6, <2>1, <2>2 DEF Injection, IsInjective
  <2> QED BY <1>7, <2>1, <2>3
<1>9. \A m, n \in DOMAIN Ascending(S) : Ascending(S)[m] <= Ascending(S)[n] => m <= n
  <2> SUFFICES ASSUME NEW m \in 1..size_, NEW n \in 1..size_, Ascending(S)[m] <= Ascending(S)[n], ~(m <= n)
               PROVE  FALSE
    BY <1>7
  <2>1. Ascending(S)[m] # Ascending(S)[n]
    BY <1>1, <1>6
  <2>2. Ascending(S)[m] \in Nat /\ Ascending(S)[n] \in Nat
    BY <1>6
  <2>3. Ascending(S)[m] < Ascending(S)[n]
    BY <2>1, <2>2
  <2>4. m < n
    BY <1>3, <1>6, <2>3
  <2> QED BY <1>1, <2>4
<1> QED BY <1>1, <1>6, <1>7, <1>8, <1>9

\* What a replay writes for a workspace: the candidates in their order, the ones that
\* are left out in a warning before them.
LEMMA ReplayIsComplete ==
  ASSUME TypeOK, NEW c \in Client, client[c].upto <= Len(log[client[c].ws])
  PROVE  LET Number(i) == <<client[c].ws, log[client[c].ws][i]>>
         IN /\ Replay(c) \in Seq(Message)
            /\ \A k \in Candidates(c) : Number(k) \in Heard(Replay(c))
            /\ \A n \in DOMAIN Replay(c) :
                 \/ Replay(c)[n].event = None
                 \/ \E i \in Candidates(c) :
                      /\ Replay(c)[n].event = Number(i)
                      /\ \A k \in Candidates(c) : k <= i =>
                           \E j \in 1..n : Number(k) \in Tells(Replay(c)[j])
<1> DEFINE w         == client[c].ws
           Number(i) == <<w, log[w][i]>>
           line      == Ascending(ToSend(c))
           warning   == [event |-> None, missing |-> {Number(i) : i \in Candidates(c) \ ToSend(c)}]
           front     == IF ToSend(c) # Candidates(c) THEN <<warning>> ELSE <<>>
           lines     == [n \in DOMAIN line |-> Of(Number(line[n]))]
           r         == Replay(c)
<1>1. w \in Workspace /\ client[c].upto \in Nat /\ log[w] \in Seq(1..MaxEvents) /\ Len(log[w]) \in Nat
  BY LenProperties DEF TypeOK, Connection
<1>2. \A i \in Candidates(c) : i \in 1..client[c].upto /\ i \in 1..Len(log[w]) /\ Number(i) \in Event
  <2> SUFFICES ASSUME NEW i \in Candidates(c)
               PROVE  i \in 1..client[c].upto /\ i \in 1..Len(log[w]) /\ Number(i) \in Event
    OBVIOUS
  <2>1. i \in 1..client[c].upto /\ i \in 1..Len(log[w])
    BY <1>1 DEF Candidates
  <2>2. log[w][i] \in 1..MaxEvents
    BY <1>1, <2>1, ElementOfSeq
  <2> QED BY <1>1, <2>1, <2>2 DEF Event
<1>3. ToSend(c) \subseteq Candidates(c) /\ ToSend(c) \in SUBSET Nat /\ IsFiniteSet(ToSend(c))
  <2>1. ToSend(c) \subseteq Candidates(c)
    BY DEF ToSend
  <2>2. ToSend(c) \subseteq 1..client[c].upto
    BY <1>2, <2>1
  <2>3. \A n \in Nat : IsFiniteSet(1..n)
    BY FS_Interval
  <2>4. IsFiniteSet(1..client[c].upto)
    BY <1>1, <2>3
  <2>5. IsFiniteSet(ToSend(c))
    BY <2>2, <2>4, FS_Subset
  <2>6. ToSend(c) \in SUBSET Nat
    BY <1>1, <2>2
  <2> QED BY <2>1, <2>5, <2>6
<1> DEFINE m == Cardinality(ToSend(c))
<1>4. /\ m \in Nat /\ DOMAIN line = 1..m
      /\ \A n \in 1..m : line[n] \in ToSend(c)
      /\ \A i \in ToSend(c) : \E n \in 1..m : line[n] = i
      /\ \A n, k \in 1..m : line[n] <= line[k] => n <= k
  BY <1>3, AscendingIsSorted
<1> HIDE DEF m, line
<1>6. lines \in Seq(Message) /\ Len(lines) = m /\ \A n \in 1..m : lines[n] = Of(Number(line[n]))
  <2>1. \A n \in 1..m : Of(Number(line[n])) \in Message
    BY <1>2, <1>3, <1>4 DEF Of, Message
  <2>2. lines = [n \in 1..m |-> Of(Number(line[n]))]
    BY <1>4
  <2>3. lines \in [1..m -> Message]
    BY <2>1, <2>2
  <2> QED BY <1>4, <2>2, <2>3
<1>7. warning \in Message /\ Tells(warning) = {Number(i) : i \in Candidates(c) \ ToSend(c)}
  <2>1. {Number(i) : i \in Candidates(c) \ ToSend(c)} \in SUBSET Event
    BY <1>2
  <2> QED BY <2>1 DEF Message, Tells
<1> HIDE DEF warning, lines
<1>8. /\ front \in Seq(Message) /\ Len(front) \in {0, 1}
      /\ ToSend(c) # Candidates(c) => Len(front) = 1 /\ front[1] = warning
      /\ Len(front) = 1 => front[1] = warning
  <2>1. CASE ToSend(c) # Candidates(c)
    BY <1>7, <2>1
  <2>2. CASE ToSend(c) = Candidates(c)
    BY <2>2, EmptySeq
  <2> QED BY <2>1, <2>2
<1>9. r = front \o lines
  BY DEF Replay, line, lines, warning
<1> HIDE DEF front, r
<1>10. /\ r \in Seq(Message) /\ Len(r) = Len(front) + m
       /\ \A n \in 1..Len(r) : r[n] = IF n <= Len(front) THEN front[n] ELSE lines[n - Len(front)]
       /\ DOMAIN r = 1..Len(r)
  <2>1. /\ front \o lines \in Seq(Message) /\ Len(front \o lines) = Len(front) + Len(lines)
        /\ \A n \in 1..(Len(front) + Len(lines)) :
             (front \o lines)[n] = IF n <= Len(front) THEN front[n] ELSE lines[n - Len(front)]
    <3>1. front \in Seq(Message) /\ lines \in Seq(Message)
      BY <1>6, <1>8
    <3> QED BY <3>1, ConcatProperties
  <2>2. r \in Seq(Message) /\ Len(r) = Len(front) + m
    BY <1>6, <1>9, <2>1
  <2>3. \A n \in 1..Len(r) : r[n] = IF n <= Len(front) THEN front[n] ELSE lines[n - Len(front)]
    BY <1>6, <1>9, <2>1
  <2>4. DOMAIN r = 1..Len(r)
    BY <2>2, LenProperties
  <2> QED BY <2>2, <2>3, <2>4
\* Where each candidate is told
<1>11. \A k \in Candidates(c) \ ToSend(c) : 1 \in DOMAIN r /\ Len(front) = 1 /\ Number(k) \in Tells(r[1])
  <2> SUFFICES ASSUME NEW k \in Candidates(c) \ ToSend(c)
               PROVE  1 \in DOMAIN r /\ Len(front) = 1 /\ Number(k) \in Tells(r[1])
    OBVIOUS
  <2>1. Len(front) = 1 /\ front[1] = warning
    BY <1>8
  <2>2. 1 \in 1..Len(r) /\ r[1] = warning
    BY <1>4, <1>10, <2>1
  <2> QED BY <1>7, <1>10, <2>1, <2>2
<1>12. \A n \in 1..m : /\ Len(front) + n \in DOMAIN r /\ r[Len(front) + n].event = Number(line[n])
                       /\ Number(line[n]) \in Tells(r[Len(front) + n])
  <2> SUFFICES ASSUME NEW n \in 1..m
               PROVE  /\ Len(front) + n \in DOMAIN r /\ r[Len(front) + n].event = Number(line[n])
                      /\ Number(line[n]) \in Tells(r[Len(front) + n])
    OBVIOUS
  <2>1. Len(front) + n \in 1..Len(r) /\ ~(Len(front) + n <= Len(front)) /\ Len(front) + n - Len(front) = n
    BY <1>4, <1>8, <1>10
  <2>2. r[Len(front) + n] = Of(Number(line[n]))
    BY <1>6, <1>10, <2>1
  <2>3. Number(line[n]) \in Event
    BY <1>2, <1>3, <1>4
  <2>4. Number(line[n]) # None
    BY <2>3 DEF Event, None, Workspace
  <2> QED BY <1>10, <2>1, <2>2, <2>4 DEF Of, Tells
<1>13. \A k \in Candidates(c) : Number(k) \in Heard(r)
  <2> SUFFICES ASSUME NEW k \in Candidates(c) PROVE \E n \in DOMAIN r : Number(k) \in Tells(r[n])
    BY DEF Heard
  <2>1. CASE k \in ToSend(c)
    <3>1. PICK n \in 1..m : line[n] = k
      BY <1>4, <2>1
    <3> QED BY <1>12, <3>1
  <2>2. CASE k \notin ToSend(c)
    BY <1>11, <2>2
  <2> QED BY <2>1, <2>2
<1>14. ASSUME NEW n \in DOMAIN r, r[n].event # None
       PROVE  \E i \in Candidates(c) :
                /\ r[n].event = Number(i)
                /\ \A k \in Candidates(c) : k <= i => \E j \in 1..n : Number(k) \in Tells(r[j])
  <2>1. n \in Nat /\ ~(n <= Len(front)) /\ n - Len(front) \in 1..m
    <3>1. n \in 1..(Len(front) + m) /\ Len(front) \in Nat
      BY <1>8, <1>10
    <3>2. ASSUME n <= Len(front) PROVE FALSE
      <4>1. n >= 1 /\ n \in Nat
        BY <1>4, <3>1
      <4>2. CASE Len(front) = 0
        BY <3>2, <4>1, <4>2
      <4>3. CASE Len(front) = 1
        <5>1. n = 1
          BY <3>2, <4>1, <4>3
        <5>2. r[n] = warning
          BY <1>8, <1>10, <4>3, <5>1
        <5> QED BY <1>14, <5>2 DEF warning
      <4> QED BY <1>8, <4>2, <4>3
    <3> QED BY <1>4, <3>1, <3>2
  <2> DEFINE q == n - Len(front)
  <2>2. q \in 1..m /\ n = Len(front) + q
    BY <1>8, <2>1
  <2> HIDE DEF q
  <2>3. line[q] \in ToSend(c) /\ line[q] \in Candidates(c) /\ r[n].event = Number(line[q])
    BY <1>3, <1>4, <1>12, <2>2
  <2>4. ASSUME NEW k \in Candidates(c), k <= line[q]
        PROVE  \E j \in 1..n : Number(k) \in Tells(r[j])
    <3>1. CASE k \in ToSend(c)
      <4>1. PICK p \in 1..m : line[p] = k
        BY <1>4, <3>1
      <4>2. p <= q
        BY <1>4, <2>2, <2>4, <4>1
      <4>3. Len(front) + p \in 1..n
        BY <1>8, <2>1, <2>2, <4>1, <4>2
      <4> QED BY <1>12, <4>1, <4>3
    <3>2. CASE k \notin ToSend(c)
      <4>1. 1 \in 1..n
        BY <2>1, <1>8
      <4> QED BY <1>11, <3>2, <4>1
    <3> QED BY <3>1, <3>2
  <2> QED BY <2>3, <2>4
<1> QED BY <1>10, <1>13, <1>14 DEF r

-----------------------------------------------------------------------------
(* Steps *)

LEMMA FunctionIsSeq ==
  ASSUME NEW S, NEW n \in Nat, NEW m \in [1..n -> S]
  PROVE  m \in Seq(S)
BY SeqDef

\* The messages that carry a part of a file
LEMMA PartIsCarried ==
  ASSUME NEW w \in Workspace, NEW f \in Seq(1..MaxEvents), NEW from \in Nat, NEW n \in Nat,
         from + n <= Len(f), NEW m, DOMAIN m = 1..n, m = [i \in DOMAIN m |-> m[i]],
         \A i \in 1..n : m[i] = Of(<<w, f[from + i]>>)
  PROVE  /\ m \in Seq(Message) /\ DOMAIN m = 1..n
         /\ \A i \in 1..n : /\ from + i \in DOMAIN f
                            /\ m[i].event = <<w, f[from + i]>>
                            /\ <<w, f[from + i]>> \in Event
                            /\ <<w, f[from + i]>> \in Tells(m[i])
<1>1. Len(f) \in Nat /\ DOMAIN f = 1..Len(f)
  BY LenProperties
<1>2. ASSUME NEW i \in 1..n
      PROVE  /\ from + i \in DOMAIN f
             /\ <<w, f[from + i]>> \in Event /\ <<w, f[from + i]>> # None
  <2>1. from + i \in 1..Len(f)
    BY <1>1
  <2>2. f[from + i] \in 1..MaxEvents
    BY <2>1, ElementOfSeq
  <2> QED BY <1>1, <2>1, <2>2 DEF Event, None, Workspace
<1>3. \A i \in 1..n : /\ m[i].event = <<w, f[from + i]>> /\ m[i] \in Message
                      /\ <<w, f[from + i]>> \in Tells(m[i])
  <2> SUFFICES ASSUME NEW i \in 1..n
               PROVE  /\ m[i].event = <<w, f[from + i]>> /\ m[i] \in Message
                      /\ <<w, f[from + i]>> \in Tells(m[i])
    OBVIOUS
  <2>1. PICK e \in Event : e = <<w, f[from + i]>> /\ e # None
    BY <1>2
  <2>2. m[i] = [event |-> e, missing |-> {}]
    BY <2>1 DEF Of
  <2>3. m[i] \in Message /\ m[i].event = e /\ e \in Tells(m[i])
    BY <2>1, <2>2 DEF Message, Tells
  <2> QED BY <2>1, <2>3
<1>4. m \in [1..n -> Message]
  BY <1>3
<1>5. m \in Seq(Message)
  BY <1>4, FunctionIsSeq
<1> QED BY <1>2, <1>3, <1>5

\* Sent in the order of the file, they are sound when what is owed from before the part
\* is covered.
LEMMA PartIsSound ==
  ASSUME NEW w, NEW f \in Seq(1..MaxEvents), NEW from \in Nat, NEW n \in Nat,
         from + n <= Len(f), NEW m, DOMAIN m = 1..n,
         \A i \in 1..n : m[i].event = <<w, f[from + i]>> /\ <<w, f[from + i]>> \in Tells(m[i]),
         NEW has, NEW due \in SUBSET Event,
         \A e \in due : e[1] = w =>
           \E p \in DOMAIN f : /\ f[p] = e[2] /\ \A k \in 1..(p - 1) : f[k] < e[2]
                               /\ p <= from => e \in has
  PROVE  Sound(m, has, due)
<1>1. Len(f) \in Nat /\ DOMAIN f = 1..Len(f)
  BY LenProperties
<1> SUFFICES ASSUME NEW i \in 1..n, NEW e \in due, m[i].event[1] = e[1], e[2] <= m[i].event[2],
                    e \notin has
             PROVE  \E j \in 1..i : e \in Tells(m[j])
  BY DEF Sound
<1>2. e[1] = w /\ e[2] <= f[from + i]
  <2>1. PICK x : x = f[from + i]
    OBVIOUS
  <2>2. m[i].event = <<w, x>>
    BY <2>1
  <2> QED BY <2>1, <2>2
<1>3. e = <<w, e[2]>> /\ e[2] \in Nat
  BY <1>2 DEF Event
<1>4. PICK p \in 1..Len(f) : f[p] = e[2] /\ (\A k \in 1..(p - 1) : f[k] < e[2]) /\ ~(p <= from)
  BY <1>1, <1>2
<1>5. p <= from + i
  <2>1. ASSUME from + i < p PROVE FALSE
    <3>1. from + i \in 1..(p - 1) /\ from + i \in 1..Len(f)
      BY <1>1, <1>4, <2>1
    <3>2. f[from + i] < e[2]
      BY <1>4, <3>1
    <3>3. PICK x \in 1..MaxEvents : x = f[from + i]
      BY <3>1, ElementOfSeq
    <3>4. PICK y \in Nat : y = e[2]
      BY <1>3
    <3>5. y <= x /\ x < y
      BY <1>2, <3>2, <3>3, <3>4
    <3> QED BY <3>5
  <2> QED BY <1>4, <2>1
<1>6. PICK j \in Nat : j = p - from
  BY <1>4
<1>7. j \in 1..i /\ j \in 1..n /\ from + j = p
  BY <1>4, <1>5, <1>6
<1>8. <<w, f[from + j]>> \in Tells(m[j])
  BY <1>7
<1>9. e \in Tells(m[j])
  BY <1>3, <1>4, <1>7, <1>8
<1> QED BY <1>7, <1>9

\* What a poll broadcasts when it has read the file
Chunk(t) ==
  LET events == Lines(t[1], poll[t].from, poll[t].to)
  IN [i \in DOMAIN events |-> Of(events[i])]

LEMMA ChunkIsSound ==
  ASSUME StreamInv, NEW t \in Polls, poll[t].pc = "read"
  PROVE  /\ Chunk(t) \in Seq(Message)
         /\ \A i \in DOMAIN Chunk(t) : Chunk(t)[i].event \in Event /\ InLog(Chunk(t)[i].event)
         /\ \A i \in DOMAIN log[t[1]] :
              poll[t].from < i /\ i <= poll[t].to => <<t[1], log[t[1]][i]>> \in Heard(Chunk(t))
         /\ \A c \in Client : client[c].phase # "off" => Sound(Chunk(t), Covered(c), owed[c])
<1> TypeOK /\ PollsInTheFile
  BY DEF StreamInv
<1>1. PICK w \in Workspace : w = t[1]
  BY DEF Workspace
<1>2. PICK f \in Seq(1..MaxEvents) : f = log[w]
  BY DEF TypeOK
<1>3. PICK from \in Nat, to \in Nat : from = poll[t].from /\ to = poll[t].to
  BY DEF TypeOK
<1>4. from <= to /\ to <= Len(f)
  BY <1>1, <1>2, <1>3 DEF PollsInTheFile
<1>5. PICK n \in Nat : n = to - from /\ from + n = to
  BY <1>4
<1>6. PICK m : m = [i \in 1..n |-> Of(<<w, f[from + i]>>)]
  OBVIOUS
<1>7. Chunk(t) = m
  BY <1>1, <1>2, <1>3, <1>5, <1>6 DEF Chunk, Lines
<1>8. /\ m \in Seq(Message) /\ DOMAIN m = 1..n
      /\ \A i \in 1..n : /\ from + i \in DOMAIN f
                         /\ m[i].event = <<w, f[from + i]>>
                         /\ <<w, f[from + i]>> \in Event
                         /\ <<w, f[from + i]>> \in Tells(m[i])
  <2>1. from + n <= Len(f)
    BY <1>4, <1>5
  <2>2. DOMAIN m = 1..n /\ m = [i \in DOMAIN m |-> m[i]] /\ \A i \in 1..n : m[i] = Of(<<w, f[from + i]>>)
    BY <1>6
  <2> QED BY <2>1, <2>2, PartIsCarried
<1>9. ASSUME NEW c \in Client, client[c].phase # "off"
      PROVE  Sound(m, Covered(c), owed[c])
  <2>1. owed[c] \in SUBSET Event
    BY DEF TypeOK
  <2>2. ASSUME NEW e \in owed[c], e[1] = w
        PROVE  \E p \in DOMAIN f : /\ f[p] = e[2] /\ \A k \in 1..(p - 1) : f[k] < e[2]
                                   /\ p <= from => e \in Covered(c)
    <3>1. PICK p \in DOMAIN f : f[p] = e[2] /\ \A k \in 1..(p - 1) : f[k] < e[2]
      BY <1>2, <2>2 DEF StreamInv, Told, OwedInOrder
    <3>2. p <= from => p \in Behind(w)
      BY <1>1, <1>2, <1>3 DEF Behind
    <3>3. p <= from => e \in Covered(c)
      BY <1>2, <1>9, <2>2, <3>1, <3>2 DEF StreamInv, BehindIsCovered
    <3> QED BY <3>1, <3>3
  <2> HIDE DEF Covered
  <2>3. PICK has : has = Covered(c)
    OBVIOUS
  <2>4. PICK due \in SUBSET Event : due = owed[c]
    BY <2>1
  <2>5. from + n <= Len(f)
    BY <1>4, <1>5
  <2>6. \A i \in 1..n : m[i].event = <<w, f[from + i]>> /\ <<w, f[from + i]>> \in Tells(m[i])
    BY <1>8
  <2>7. \A e \in due : e[1] = w =>
          \E p \in DOMAIN f : /\ f[p] = e[2] /\ \A k \in 1..(p - 1) : f[k] < e[2]
                              /\ p <= from => e \in has
    BY <2>2, <2>3, <2>4
  <2>8. DOMAIN m = 1..n
    BY <1>8
  <2>9. Sound(m, has, due)
    BY <2>5, <2>6, <2>7, <2>8, PartIsSound
  <2> QED BY <2>3, <2>4, <2>9
<1>10. \A i \in 1..n : InLog(<<w, f[from + i]>>)
  BY <1>2, <1>8 DEF InLog
<1>11. ASSUME NEW i \in DOMAIN f, from < i, i <= to
       PROVE  <<w, f[i]>> \in Heard(m)
  <2>1. Len(f) \in Nat /\ DOMAIN f = 1..Len(f)
    BY LenProperties
  <2>2. PICK j \in 1..n : from + j = i
    <3>1. i - from \in 1..n /\ from + (i - from) = i
      BY <1>5, <1>11, <2>1
    <3> QED BY <3>1
  <2>3. <<w, f[i]>> \in Tells(m[j])
    BY <1>8, <2>2
  <2> QED BY <1>8, <2>2, <2>3 DEF Heard
<1> QED BY <1>1, <1>2, <1>3, <1>7, <1>8, <1>9, <1>10, <1>11

LEMMA DisconnectedIsTyped ==
  ASSUME NEW id \in Event \cup {None}
  PROVE  /\ Disconnected \in Connection /\ Accepted(id) \in Connection
         /\ [Disconnected EXCEPT !.phase = "live"] \in Connection
<1>1. <<>> \in Seq(Message) /\ 1 \in Workspace
  BY EmptySeq DEF Workspace
<1> QED BY <1>1 DEF Disconnected, Accepted, Connection

\* A poll's broadcast and a replay leave sequences of messages.
LEMMA WiresAreTyped ==
  ASSUME StreamInv, Next
  PROVE  client' \in [Client -> Connection] /\ wire' \in [Client -> Seq(Message)]
<1> TypeOK /\ PollsInTheFile
  BY DEF StreamInv
<1> client \in [Client -> Connection] /\ wire \in [Client -> Seq(Message)]
  BY DEF TypeOK
<1>1. ASSUME NEW t \in Polls, PollRead(t)
      PROVE  client' \in [Client -> Connection] /\ wire' \in [Client -> Seq(Message)]
  <2>1. PICK m \in Seq(Message) : m = Chunk(t)
    BY <1>1, ChunkIsSound DEF PollRead
  <2>2. /\ wire' = [c \in Client |-> IF client[c].phase # "off" /\ ~client[c].replaying
                                     THEN wire[c] \o m ELSE wire[c]]
        /\ client' = [c \in Client |-> IF client[c].phase # "off" /\ client[c].replaying
                                       THEN [client[c] EXCEPT !.pending = @ \o m] ELSE client[c]]
    BY <1>1, <2>1 DEF PollRead, Broadcast, Chunk
  <2>3. \A c \in Client : wire[c] \o m \in Seq(Message)
    BY ConcatProperties
  <2>4. \A c \in Client : [client[c] EXCEPT !.pending = @ \o m] \in Connection
    <3> SUFFICES ASSUME NEW c \in Client PROVE [client[c] EXCEPT !.pending = @ \o m] \in Connection
      OBVIOUS
    <3>1. PICK x \in Seq(Message) : x = client[c].pending
      BY DEF Connection
    <3>2. PICK y \in Seq(Message) : y = x \o m
      BY ConcatProperties
    <3>3. [client[c] EXCEPT !.pending = y] \in Connection
      BY DEF Connection
    <3> QED BY <3>1, <3>2, <3>3
  <2> QED BY <2>2, <2>3, <2>4
<1>2. ASSUME NEW c \in Client, Connect(c)
      PROVE  client' \in [Client -> Connection] /\ wire' \in [Client -> Seq(Message)]
  <2>1. lastId[c] \in Event \cup {None}
    BY DEF TypeOK
  <2> QED BY <1>2, <2>1, DisconnectedIsTyped DEF Connect
<1>3. ASSUME NEW c \in Client, ReplayRead(c)
      PROVE  client' \in [Client -> Connection] /\ wire' \in [Client -> Seq(Message)]
  <2>1. PICK n \in Nat : n = Len(log[client[c].ws])
    BY LenProperties DEF TypeOK, Connection
  <2>2. client' = [client EXCEPT ![c].phase = "write", ![c].upto = n]
    BY <1>3, <2>1 DEF ReplayRead
  <2>3. client' \in [Client -> Connection]
    BY <2>2 DEF Connection
  <2> QED BY <1>3, <2>3 DEF ReplayRead
<1>4. ASSUME NEW c \in Client, ReplayWrite(c)
      PROVE  client' \in [Client -> Connection] /\ wire' \in [Client -> Seq(Message)]
  <2> DEFINE last == client[c].ws = Workspaces
  <2>1. PICK r \in Seq(Message) : r = Replay(c)
    BY <1>4, ReplayIsComplete DEF ReplayWrite, StreamInv, Told, Phases
  <2>2. PICK x \in Seq(Message) : x = IF last THEN client[c].pending ELSE <<>>
    BY EmptySeq DEF Connection
  <2>3. PICK y \in Seq(Message) : y = wire[c] \o r \o x
    BY ConcatProperties
  <2>4. wire' = [wire EXCEPT ![c] = y]
    BY <1>4, <2>1, <2>2, <2>3 DEF ReplayWrite
  <2>5. wire' \in [Client -> Seq(Message)]
    BY <2>4
  <2>6. CASE last
    BY <1>4, <2>5, <2>6, DisconnectedIsTyped DEF ReplayWrite
  <2>7. CASE ~last
    <3>1. client[c].ws + 1 \in Workspace
      BY <2>7 DEF Connection, Workspace
    <3>2. [client[c] EXCEPT !.phase = "read", !.ws = client[c].ws + 1] \in Connection
      BY <3>1 DEF Connection
    <3> QED BY <1>4, <2>5, <2>7, <3>2 DEF ReplayWrite
  <2> QED BY <2>6, <2>7
<1>5. ASSUME NEW c \in Client, Receive(c)
      PROVE  client' \in [Client -> Connection] /\ wire' \in [Client -> Seq(Message)]
  <2>1. Tail(wire[c]) \in Seq(Message)
    BY <1>5, HeadTailProperties DEF Receive
  <2> QED BY <1>5, <2>1 DEF Receive
<1>6. ASSUME NEW c \in Client, Breaks(c)
      PROVE  client' \in [Client -> Connection] /\ wire' \in [Client -> Seq(Message)]
  <2>1. None \in Event \cup {None}
    OBVIOUS
  <2> QED BY <1>6, <2>1, DisconnectedIsTyped, EmptySeq DEF Breaks
<1>7. CASE ServerRestarts
  <2>1. None \in Event \cup {None}
    OBVIOUS
  <2> QED BY <1>7, <2>1, DisconnectedIsTyped, EmptySeq DEF ServerRestarts
<1>8. CASE UNCHANGED <<client, wire>>
  BY <1>8
<1>9. CASE \E p \in Publisher : (\E w \in Workspace : TakeNumber(p, w)) \/ AppendLine(p) \/ PublisherDies(p)
  BY <1>8, <1>9 DEF TakeNumber, AppendLine, PublisherDies, serverVars
<1>10. CASE \E t \in Polls : PollStat(t) \/ PollCheck(t) \/ PollOpened(t)
  BY <1>8, <1>10 DEF PollStat, PollCheck, PollOpened
<1> QED BY <1>1, <1>2, <1>3, <1>4, <1>5, <1>6, <1>7, <1>9, <1>10 DEF Next, Poll

LEMMA TypeStep ==
  ASSUME StreamInv, Next
  PROVE  TypeOK'
<1> TypeOK /\ PollsInTheFile
  BY DEF StreamInv
<1>1. client' \in [Client -> Connection] /\ wire' \in [Client -> Seq(Message)]
  BY WiresAreTyped
<1> DEFINE PollState == [pc : {"idle", "stat", "open", "read"}, to : Nat, from : Nat]
           Rest ==
      /\ next' \in [Workspace -> Nat] /\ publish' \in [Publisher -> Event \cup {None}]
      /\ log' \in [Workspace -> Seq(1..MaxEvents)]
      /\ size' \in [Workspace -> Nat \cup {-1}]
      /\ poll' \in [Polls -> PollState]
      /\ lastId' \in [Client -> Event \cup {None}] /\ known' \in [Client -> SUBSET Event]
      /\ owed' \in [Client -> SUBSET Event] /\ faults' \in Nat
<1>2. /\ next \in [Workspace -> Nat] /\ publish \in [Publisher -> Event \cup {None}]
      /\ log \in [Workspace -> Seq(1..MaxEvents)]
      /\ size \in [Workspace -> Nat \cup {-1}]
      /\ poll \in [Polls -> PollState]
      /\ lastId \in [Client -> Event \cup {None}] /\ known \in [Client -> SUBSET Event]
      /\ owed \in [Client -> SUBSET Event] /\ faults \in Nat
  BY DEF TypeOK
<1>3. IdlePoll \in PollState
  BY DEF IdlePoll
<1>4. ASSUME NEW x \in PollState, NEW y \in {"idle", "stat", "open", "read"}, NEW n \in Nat
      PROVE  /\ x.to \in Nat /\ [x EXCEPT !.pc = y] \in PollState
             /\ [x EXCEPT !.pc = y, !.from = n] \in PollState
             /\ [x EXCEPT !.pc = y, !.to = n] \in PollState
  OBVIOUS
<1> HIDE DEF PollState
<1>5. \A w \in Workspace : log[w] \in Seq(1..MaxEvents) /\ Len(log[w]) \in Nat
  BY LenProperties DEF TypeOK
<1>6. \A t \in Polls : t[1] \in Workspace
  BY DEF Workspace
<1>7. ASSUME NEW p \in Publisher, NEW w \in Workspace, TakeNumber(p, w) PROVE Rest
  <2>1. next[w] + 1 \in 1..MaxEvents
    BY <1>7, NextIsBounded DEF TakeNumber, TypeOK
  <2>2. <<w, next[w] + 1>> \in Event
    BY <2>1 DEF Event
  <2>3. /\ next' = [next EXCEPT ![w] = @ + 1] /\ publish' = [publish EXCEPT ![p] = <<w, next[w] + 1>>]
        /\ UNCHANGED <<log, size, poll, lastId, known, owed, faults>>
    BY <1>7 DEF TakeNumber, serverVars, browserVars
  <2>4. publish' \in [Publisher -> Event \cup {None}]
    BY <1>2, <2>2, <2>3
  <2>5. next' \in [Workspace -> Nat]
    BY <1>2, <2>3
  <2> QED BY <1>2, <2>3, <2>4, <2>5
<1>8. ASSUME NEW p \in Publisher, AppendLine(p) PROVE Rest
  <2>1. PICK w \in Workspace, n \in 1..MaxEvents : publish[p] = <<w, n>>
    <3>1. publish[p] \in Event
      BY <1>2, <1>8 DEF AppendLine
    <3> QED BY <3>1 DEF Event
  <2>2. <<w, n>> \in Event
    BY DEF Event
  <2>3. PICK f \in Seq(1..MaxEvents) : f = Append(log[w], n)
    BY <1>5, AppendProperties
  <2>4. log' = [log EXCEPT ![w] = f]
    BY <1>8, <2>1, <2>3 DEF AppendLine
  <2>5. log' \in [Workspace -> Seq(1..MaxEvents)]
    BY <2>4 DEF TypeOK
  <2>6. /\ publish' = [publish EXCEPT ![p] = None]
        /\ UNCHANGED <<next, size, poll, lastId, known, faults>>
    BY <1>8 DEF AppendLine, serverVars, browserVars
  <2>7. \A c \in Client : owed'[c] = owed[c] \/ owed'[c] = owed[c] \cup {<<w, n>>}
    BY <1>8, <2>1 DEF AppendLine
  <2>8. owed' = [c \in Client |-> owed'[c]]
    BY <1>8 DEF AppendLine
  <2>9. owed' \in [Client -> SUBSET Event]
    BY <2>2, <2>7, <2>8 DEF TypeOK
  <2> QED BY <1>2, <2>5, <2>6, <2>9
<1>9. ASSUME NEW p \in Publisher, PublisherDies(p) PROVE Rest
  BY <1>2, <1>9 DEF PublisherDies, serverVars, browserVars
<1>10. ASSUME NEW t \in Polls, Poll(t) PROVE Rest
  <2>1. UNCHANGED <<next, publish, log, lastId, known, owed, faults>>
    BY <1>10 DEF Poll, PollStat, PollCheck, PollOpened, PollRead, browserVars
  <2>2. PICK w \in Workspace : w = t[1]
    BY <1>6
  <2>3. PICK n \in Nat : n = Len(log[w])
    BY <1>5
  <2>4. size' \in [Workspace -> Nat \cup {-1}]
    <3>1. poll[t].to \in Nat
      BY <1>2, <1>4
    <3> QED BY <1>2, <1>10, <2>2, <3>1 DEF Poll, PollStat, PollCheck, PollOpened, PollRead
  <2>6. ASSUME PollStat(t) PROVE poll' \in [Polls -> PollState]
    <3>1. [IdlePoll EXCEPT !.pc = "stat", !.to = n] \in PollState
      BY <1>3, <1>4
    <3> QED BY <1>2, <2>2, <2>3, <2>6, <3>1 DEF PollStat
  <2>7. ASSUME PollCheck(t) PROVE poll' \in [Polls -> PollState]
    <3>1. [poll[t] EXCEPT !.pc = "open"] \in PollState
      BY <1>2, <1>4
    <3> QED BY <1>2, <1>3, <2>7, <3>1 DEF PollCheck
  <2>8. ASSUME PollOpened(t) PROVE poll' \in [Polls -> PollState]
    <3>1. size[w] >= 0
      BY <2>2, <2>8 DEF PollOpened, PollsInTheFile
    <3>2. size[w] \in Nat
      BY <1>2, <3>1
    <3>3. [poll[t] EXCEPT !.pc = "read", !.from = size[w]] \in PollState
      BY <1>2, <1>4, <3>2
    <3> QED BY <1>2, <1>3, <2>2, <2>8, <3>3 DEF PollOpened
  <2>9. ASSUME PollRead(t) PROVE poll' \in [Polls -> PollState]
    BY <1>2, <1>3, <2>9 DEF PollRead
  <2>10. poll' \in [Polls -> PollState]
    BY <1>10, <2>6, <2>7, <2>8, <2>9 DEF Poll
  <2> QED BY <1>2, <2>1, <2>4, <2>10
<1>11. ASSUME NEW c \in Client, Receive(c) PROVE Rest
  <2>1. PICK m \in Message : m = Head(wire[c])
    BY <1>11, HeadTailProperties DEF Receive, TypeOK
  <2>2. m.event \in Event \cup {None} /\ m.missing \in SUBSET Event
    BY DEF Message
  <2>3. /\ lastId' = [lastId EXCEPT ![c] = IF m.event = None THEN @ ELSE m.event]
        /\ known' = [known EXCEPT ![c] = @ \cup m.missing \cup ({m.event} \ {None})]
        /\ UNCHANGED <<next, publish, log, size, poll, owed, faults>>
    BY <1>11, <2>1 DEF Receive
  <2>4. lastId' \in [Client -> Event \cup {None}]
    BY <1>2, <2>2, <2>3
  <2>5. known' \in [Client -> SUBSET Event]
    BY <1>2, <2>2, <2>3
  <2> QED BY <1>2, <2>3, <2>4, <2>5
<1>12. ASSUME NEW c \in Client, Connect(c) \/ ReplayRead(c) \/ ReplayWrite(c) \/ Breaks(c) PROVE Rest
  <2>1. UNCHANGED <<next, publish, log, size, poll, lastId, known, owed>> /\ faults' \in Nat
    <3>1. CASE Connect(c)
      BY <1>2, <3>1 DEF Connect, browserVars
    <3>2. CASE ReplayRead(c)
      BY <1>2, <3>2 DEF ReplayRead, browserVars
    <3>3. CASE ReplayWrite(c)
      BY <1>2, <3>3 DEF ReplayWrite, browserVars
    <3>4. CASE Breaks(c)
      BY <1>2, <3>4 DEF Breaks, browserVars
    <3> QED BY <1>12, <3>1, <3>2, <3>3, <3>4
  <2> QED BY <1>2, <2>1
<1>13. ASSUME ServerRestarts PROVE Rest
  <2>1. size' \in [Workspace -> Nat \cup {-1}]
    BY <1>13 DEF ServerRestarts
  <2>2. poll' \in [Polls -> PollState]
    BY <1>13, <1>3 DEF ServerRestarts
  <2>3. UNCHANGED <<next, publish, log, lastId, known, owed>> /\ faults' \in Nat
    BY <1>2, <1>13 DEF ServerRestarts, browserVars
  <2> QED BY <1>2, <2>1, <2>2, <2>3
<1>14. Rest
  BY <1>7, <1>8, <1>9, <1>10, <1>11, <1>12, <1>13 DEF Next
<1> QED BY <1>1, <1>14 DEF TypeOK, PollState

\* Appending to one file leaves what is in the files.
LEMMA FilesGrow ==
  ASSUME TypeOK, Next
  PROVE  \A w \in Workspace :
           /\ Len(log[w]) \in Nat /\ DOMAIN log[w] = 1..Len(log[w])
           /\ Len(log'[w]) \in Nat /\ DOMAIN log'[w] = 1..Len(log'[w])
           /\ Len(log[w]) <= Len(log'[w])
           /\ \A i \in 1..Len(log[w]) : log'[w][i] = log[w][i]
<1>1. \A w \in Workspace : log[w] \in Seq(1..MaxEvents) /\ Len(log[w]) \in Nat /\ DOMAIN log[w] = 1..Len(log[w])
  BY LenProperties DEF TypeOK
<1>2. CASE log' = log
  BY <1>1, <1>2
<1>3. CASE \E p \in Publisher : AppendLine(p)
  <2>1. PICK p \in Publisher : AppendLine(p)
    BY <1>3
  <2>2. publish[p] \in Event
    BY <2>1 DEF AppendLine, TypeOK
  <2>3. PICK w \in Workspace, n \in 1..MaxEvents : publish[p] = <<w, n>>
    BY <2>2 DEF Event
  <2>4. PICK f \in Seq(1..MaxEvents) : f = Append(log[w], n)
    BY <1>1, AppendProperties
  <2>5. log' = [log EXCEPT ![w] = f]
    BY <2>1, <2>3, <2>4 DEF AppendLine
  <2>6. /\ Len(f) = Len(log[w]) + 1 /\ DOMAIN f = 1..Len(f)
        /\ \A i \in 1..Len(log[w]) : f[i] = log[w][i]
    BY <1>1, <2>4, AppendProperties, LenProperties
  <2>7. \A v \in Workspace : log'[v] = IF v = w THEN f ELSE log[v]
    BY <2>5 DEF TypeOK
  <2> SUFFICES ASSUME NEW v \in Workspace
               PROVE  /\ Len(log[v]) \in Nat /\ DOMAIN log[v] = 1..Len(log[v])
                      /\ Len(log'[v]) \in Nat /\ DOMAIN log'[v] = 1..Len(log'[v])
                      /\ Len(log[v]) <= Len(log'[v])
                      /\ \A i \in 1..Len(log[v]) : log'[v][i] = log[v][i]
    OBVIOUS
  <2>8. CASE v = w
    BY <1>1, <2>6, <2>7, <2>8
  <2>9. CASE v # w
    BY <1>1, <2>7, <2>9
  <2> QED BY <2>8, <2>9
<1>4. log' = log \/ \E p \in Publisher : AppendLine(p)
  BY DEF Next, TakeNumber, PublisherDies, Poll, PollStat, PollCheck, PollOpened, PollRead, Connect,
         ReplayRead, ReplayWrite, Receive, Breaks, ServerRestarts
<1> QED BY <1>2, <1>3, <1>4

LEMMA PollsStep ==
  ASSUME StreamInv, Next
  PROVE  PollsInTheFile'
<1> TypeOK /\ PollsInTheFile
  BY DEF StreamInv
<1>1. /\ \A w \in Workspace : size[w] \in Nat \cup {-1} /\ size[w] <= Len(log[w]) /\ Len(log[w]) \in Nat
      /\ size \in [Workspace -> Nat \cup {-1}]
      /\ \A w \in Workspace : Len(log'[w]) \in Nat /\ Len(log[w]) <= Len(log'[w])
      /\ \A t \in Polls : t[1] \in Workspace /\ poll[t].to \in Nat /\ poll[t].from \in Nat
      /\ DOMAIN poll = Polls
  BY FilesGrow DEF TypeOK, PollsInTheFile, Workspace
<1>2. CASE UNCHANGED <<size, poll>>
  <2>1. \A w \in Workspace : size'[w] <= Len(log'[w])
    BY <1>1, <1>2
  <2>2. ASSUME NEW t \in Polls
        PROVE  /\ poll'[t].to <= Len(log'[t[1]]) /\ poll'[t].from <= poll'[t].to
               /\ poll'[t].pc \in {"open", "read"} => size'[t[1]] >= 0
    <3>1. /\ poll[t].to <= Len(log[t[1]]) /\ poll[t].from <= poll[t].to
          /\ poll[t].pc \in {"open", "read"} => size[t[1]] >= 0
      BY DEF PollsInTheFile
    <3>2. PICK w \in Workspace : w = t[1]
      BY <1>1
    <3> QED BY <1>1, <1>2, <3>1, <3>2
  <2> QED BY <2>1, <2>2 DEF PollsInTheFile
<1>3. ASSUME NEW t \in Polls, Poll(t) PROVE PollsInTheFile'
  <2>1. PICK w \in Workspace : w = t[1]
    BY <1>1
  <2>2. log' = log
    BY <1>3 DEF Poll, PollStat, PollCheck, PollOpened, PollRead
  <2>3. IdlePoll.pc = "idle" /\ IdlePoll.to = 0 /\ IdlePoll.from = 0
    BY DEF IdlePoll
  <2>4. \A u \in Polls : poll[u].to <= Len(log[u[1]]) /\ poll[u].from <= poll[u].to
                         /\ (poll[u].pc \in {"open", "read"} => size[u[1]] >= 0)
    BY DEF PollsInTheFile
  <2>5. CASE PollStat(t)
    <3>1. /\ poll'[t].pc = "stat" /\ poll'[t].to = Len(log[w]) /\ poll'[t].from = 0 /\ size' = size
          /\ \A u \in Polls : u # t => poll'[u] = poll[u]
      BY <1>1, <2>1, <2>5 DEF PollStat, IdlePoll
    <3> QED BY <1>1, <2>1, <2>2, <2>4, <3>1 DEF PollsInTheFile
  <2>6. CASE PollCheck(t)
    <3>1. /\ poll'[t] = IdlePoll \/ (poll'[t].pc = "open" /\ poll'[t].to = poll[t].to
                                     /\ poll'[t].from = poll[t].from /\ size'[w] # -1)
          /\ \A u \in Polls : u # t => poll'[u] = poll[u]
      BY <1>1, <2>1, <2>6 DEF PollCheck
    <3>2. /\ size'[w] = poll[t].to \/ size'[w] = size[w]
          /\ \A v \in Workspace : v # w => size'[v] = size[v]
      BY <1>1, <2>1, <2>6 DEF PollCheck
    <3>3. \A v \in Workspace : size'[v] \in Nat \cup {-1} /\ size'[v] <= Len(log[v])
                               /\ (size[v] >= 0 => size'[v] >= 0)
      <4>1. poll[t].to \in Nat /\ poll[t].to <= Len(log[w])
        BY <1>1, <2>1, <2>4
      <4> SUFFICES ASSUME NEW v \in Workspace
                   PROVE  /\ size'[v] \in Nat \cup {-1} /\ size'[v] <= Len(log[v])
                          /\ size[v] >= 0 => size'[v] >= 0
        OBVIOUS
      <4>2. CASE v = w
        BY <1>1, <3>2, <4>1, <4>2
      <4>3. CASE v # w
        BY <1>1, <3>2, <4>3
      <4> QED BY <4>2, <4>3
    <3>4. \A u \in Polls : u # t => /\ poll'[u].to <= Len(log[u[1]]) /\ poll'[u].from <= poll'[u].to
                                    /\ poll'[u].pc \in {"open", "read"} => size'[u[1]] >= 0
      BY <1>1, <2>4, <3>1, <3>3
    <3>5. /\ poll'[t].to <= Len(log[w]) /\ poll'[t].from <= poll'[t].to
          /\ poll'[t].pc \in {"open", "read"} => size'[w] >= 0
      BY <1>1, <2>1, <2>3, <2>4, <3>1, <3>3
    <3> QED BY <2>1, <2>2, <3>3, <3>4, <3>5 DEF PollsInTheFile
  <2>7. CASE PollOpened(t)
    <3>1. /\ poll'[t] = IdlePoll \/ (poll'[t].pc = "read" /\ poll'[t].to = poll[t].to
                                     /\ poll'[t].from = size[w] /\ poll[t].to >= size[w])
          /\ \A u \in Polls : u # t => poll'[u] = poll[u]
          /\ size' = size /\ poll[t].pc = "open"
      BY <1>1, <2>1, <2>7 DEF PollOpened
    <3>2. /\ poll'[t].to <= Len(log[w]) /\ poll'[t].from <= poll'[t].to
          /\ poll'[t].pc \in {"open", "read"} => size'[w] >= 0
      BY <1>1, <2>1, <2>3, <2>4, <3>1
    <3>3. ASSUME NEW u \in Polls, u # t
          PROVE  /\ poll'[u].to <= Len(log[u[1]]) /\ poll'[u].from <= poll'[u].to
                 /\ poll'[u].pc \in {"open", "read"} => size'[u[1]] >= 0
      BY <2>4, <3>1, <3>3
    <3> QED BY <1>1, <2>1, <2>2, <3>1, <3>2, <3>3 DEF PollsInTheFile
  <2>8. CASE PollRead(t)
    <3>1. /\ poll'[t] = IdlePoll /\ \A u \in Polls : u # t => poll'[u] = poll[u]
          /\ size'[w] = poll[t].to /\ \A v \in Workspace : v # w => size'[v] = size[v]
      BY <1>1, <2>1, <2>8 DEF PollRead
    <3>2. \A v \in Workspace : size'[v] <= Len(log[v]) /\ (size[v] >= 0 => size'[v] >= 0)
      <4>1. poll[t].to \in Nat /\ poll[t].to <= Len(log[w])
        BY <1>1, <2>1, <2>4
      <4> SUFFICES ASSUME NEW v \in Workspace
                   PROVE  size'[v] <= Len(log[v]) /\ (size[v] >= 0 => size'[v] >= 0)
        OBVIOUS
      <4>2. CASE v = w
        BY <1>1, <3>1, <4>1, <4>2
      <4>3. CASE v # w
        BY <1>1, <3>1, <4>3
      <4> QED BY <4>2, <4>3
    <3>3. ASSUME NEW u \in Polls
          PROVE  /\ poll'[u].to <= Len(log[u[1]]) /\ poll'[u].from <= poll'[u].to
                 /\ poll'[u].pc \in {"open", "read"} => size'[u[1]] >= 0
      <4>1. PICK v \in Workspace : v = u[1]
        BY <1>1
      <4>2. CASE u = t
        BY <1>1, <2>3, <3>1, <4>1, <4>2
      <4>3. CASE u # t
        BY <1>1, <2>4, <3>1, <3>2, <4>1, <4>3
      <4> QED BY <4>2, <4>3
    <3> QED BY <2>2, <3>2, <3>3 DEF PollsInTheFile
  <2> QED BY <1>3, <2>5, <2>6, <2>7, <2>8 DEF Poll
<1>4. CASE ServerRestarts
  <2>1. /\ \A w \in Workspace : size'[w] = -1
        /\ \A t \in Polls : poll'[t] = IdlePoll
        /\ log' = log
    BY <1>4 DEF ServerRestarts
  <2> QED BY <1>1, <2>1 DEF PollsInTheFile, IdlePoll
<1>5. (\E t \in Polls : Poll(t)) \/ ServerRestarts \/ UNCHANGED <<size, poll>>
  BY DEF Next, TakeNumber, AppendLine, PublisherDies, Connect, ReplayRead, ReplayWrite, Receive, Breaks, serverVars
<1> QED BY <1>2, <1>3, <1>4, <1>5

-----------------------------------------------------------------------------
(* What a step does to what a browser has been told *)

\* What a step leaves alone for a browser stays as it was.
LEMMA OthersAreKept ==
  ASSUME NEW c \in Client, log' = log, client'[c] = client[c], wire'[c] = wire[c],
         lastId'[c] = lastId[c], known'[c] = known[c], owed'[c] = owed[c], Told(c)
  PROVE  Told(c)' /\ Covered(c)' = Covered(c)
<1>1. FromTheLog(c)' /\ Phases(c)' /\ CursorHidesNothing(c)' /\ HasSeenAll(c)'
  <2>1. FromTheLog(c)'
    BY DEF Told, FromTheLog, Known, InLog
  <2>2. Phases(c)'
    BY DEF Told, Phases
  <2>3. CursorHidesNothing(c)' /\ HasSeenAll(c)'
    BY DEF Told, CursorHidesNothing, HasSeenAll
  <2> QED BY <2>1, <2>2, <2>3
<1>6. OwedInOrder(c)'
  BY DEF Told, OwedInOrder
<1>2. WireIsSound(c)'
  BY DEF Told, WireIsSound, Sound
<1>3. ToReplay(c)' = ToReplay(c)
  BY DEF ToReplay, Cursor
<1>4. PendingIsSound(c)'
  BY <1>3 DEF Told, PendingIsSound, Sound, Heard
<1>5. Covered(c)' = Covered(c)
  BY <1>3 DEF Covered, Heard
<1> QED BY <1>1, <1>2, <1>4, <1>5, <1>6 DEF Told

\* What is told, kept and behind no more than before stays covered.
LEMMA CoveredIsKept ==
  ASSUME NEW c \in Client, log' = log, owed'[c] \subseteq Event, owed'[c] = owed[c], BehindIsCovered(c),
         client'[c].phase # "off" => client[c].phase # "off",
         \A w \in Workspace : Behind(w)' \subseteq Behind(w),
         Covered(c) \subseteq Covered(c)'
  PROVE  BehindIsCovered(c)'
<1> SUFFICES ASSUME client'[c].phase # "off", NEW e \in owed[c], NEW i \in Behind(e[1])', log[e[1]][i] = e[2]
             PROVE  e \in Covered(c)
  BY DEF BehindIsCovered
<1>1. e[1] \in Workspace
  BY DEF Event
<1>2. i \in Behind(e[1])
  BY <1>1
<1> QED BY <1>2 DEF BehindIsCovered

\* Steps that are not a poll's read leave no more behind than before.
LEMMA BehindShrinks ==
  ASSUME TypeOK, PollsInTheFile, log' = log,
         UNCHANGED <<size, poll>> \/ \E t \in Polls : PollStat(t) \/ PollCheck(t) \/ PollOpened(t)
  PROVE  \A w \in Workspace : Behind(w)' \subseteq Behind(w)
<1>1. CASE UNCHANGED <<size, poll>>
  BY <1>1 DEF Behind
<1>2. ASSUME NEW t \in Polls, PollStat(t) \/ PollCheck(t) \/ PollOpened(t), NEW w \in Workspace
      PROVE  Behind(w)' \subseteq Behind(w)
  <2>1. /\ size \in [Workspace -> Nat \cup {-1}] /\ size[w] \in Nat \cup {-1} /\ DOMAIN poll = Polls
        /\ poll[t].to \in Nat /\ t[1] \in Workspace
        /\ poll[t] \in [pc : {"idle", "stat", "open", "read"}, to : Nat, from : Nat]
    BY DEF TypeOK, Workspace
  <2>2. \A i \in DOMAIN log[w] : i \in Nat
    BY LenProperties DEF TypeOK
  <2>3. \A u \in Polls : u # t => poll'[u] = poll[u]
    BY <1>2, <2>1 DEF PollStat, PollCheck, PollOpened
  <2>4. ASSUME NEW i \in DOMAIN log[w], size'[w] = -1 \/ i <= size'[w]
        PROVE  size[w] = -1 \/ i <= size[w]
    <3>1. CASE size' = size
      BY <2>4, <3>1
    <3>2. CASE PollCheck(t)
      <4>1. CASE w # t[1]
        BY <2>1, <2>4, <3>2, <4>1 DEF PollCheck
      <4>2. CASE w = t[1]
        <5>1. size'[w] = IF poll[t].to < size[w] \/ size[w] = -1 THEN poll[t].to ELSE size[w]
          BY <2>1, <3>2, <4>2 DEF PollCheck
        <5> QED BY <2>1, <2>2, <2>4, <5>1
      <4> QED BY <4>1, <4>2
    <3> QED BY <1>2, <3>1, <3>2 DEF PollStat, PollOpened
  <2>5. ASSUME NEW i \in DOMAIN log[w], t[1] = w, poll'[t].pc = "read", i <= poll'[t].from
        PROVE  i <= size[w]
    <3>1. ~PollStat(t)
      BY <2>1, <2>5 DEF PollStat, IdlePoll
    <3>2. ~PollCheck(t)
      BY <2>1, <2>5 DEF PollCheck, IdlePoll
    <3>3. PollOpened(t)
      BY <1>2, <3>1, <3>2
    <3> QED BY <2>1, <2>5, <3>3 DEF PollOpened, IdlePoll
  <2> QED BY <2>3, <2>4, <2>5 DEF Behind
<1> QED BY <1>1, <1>2

LEMMA ConnectStep ==
  ASSUME StreamInv, NEW c \in Client, Connect(c)
  PROVE  Told(c)' /\ BehindIsCovered(c)'
<1>1. PICK id \in Event \cup {None} : id = lastId[c]
  BY DEF StreamInv, TypeOK
<1>2. /\ client'[c].phase = "read" /\ client'[c].ws = 1 /\ client'[c].cursor = id
      /\ client'[c].replaying = (id # None) /\ client'[c].pending = <<>>
      /\ UNCHANGED <<log, wire, lastId, known, owed>>
  <2>1. client' = [client EXCEPT ![c] = Accepted(id)] /\ DOMAIN client = Client
    BY <1>1 DEF Connect, StreamInv, TypeOK
  <2>2. client'[c] = Accepted(id)
    BY <2>1
  <2> QED BY <2>2 DEF Accepted, Disconnected, Connect, browserVars
<1>3. owed[c] \subseteq Event
  BY DEF StreamInv, TypeOK
<1>4. Told(c)
  BY DEF StreamInv
<1>5. ASSUME NEW e \in owed[c], e \notin known[c]
      PROVE  e \in ToReplay(c)'
  <2>1. id # None
    BY <1>1, <1>4, <1>5 DEF Told, Phases
  <2>2. \E i \in DOMAIN log[e[1]] : log[e[1]][i] = e[2]
    BY <1>4, <1>5 DEF Told, OwedInOrder
  <2>3. e \in Event /\ e[1] \in Workspace /\ e[2] \in 1..MaxEvents /\ 1 <= e[1]
    BY <1>3, <1>5 DEF Event, Workspace
  <2>4. ~(e[1] = id[1] /\ e[2] <= id[2])
    BY <1>1, <1>4, <1>5 DEF Told, HasSeenAll
  <2>5. id[2] \in Nat
    BY <2>1 DEF Event
  <2>6. Cursor(c, e[1])' < e[2]
    BY <1>2, <2>3, <2>4, <2>5 DEF Cursor
  <2> QED BY <1>2, <2>1, <2>2, <2>3, <2>6 DEF ToReplay
<1>6. FromTheLog(c)'
  <2>1. \A e : Known(e)' <=> Known(e)
    BY <1>2 DEF Known, InLog
  <2>2. Known(id) /\ \A i \in DOMAIN wire[c] : Known(wire[c][i].event)
    BY <1>1, <1>4 DEF Told, FromTheLog
  <2>3. \A i \in DOMAIN client'[c].pending : FALSE
    BY <1>2
  <2> QED BY <1>1, <1>2, <2>1, <2>2, <2>3 DEF FromTheLog
<1>7. OwedInOrder(c)' /\ HasSeenAll(c)'
  BY <1>2, <1>4 DEF Told, OwedInOrder, HasSeenAll
<1>8. Phases(c)'
  BY <1>2, <1>4 DEF Told, Phases
<1>9. CursorHidesNothing(c)'
  BY <1>1, <1>2, <1>4 DEF Told, HasSeenAll, CursorHidesNothing
<1>10. WireIsSound(c)'
  BY <1>2, <1>4 DEF Told, WireIsSound, Sound
<1>11. PendingIsSound(c)'
  <2>1. client'[c].pending = <<>>
    BY <1>2
  <2> QED BY <2>1 DEF PendingIsSound, Sound
<1>12. BehindIsCovered(c)'
  BY <1>2, <1>5 DEF BehindIsCovered, Covered
<1> QED BY <1>6, <1>7, <1>8, <1>9, <1>10, <1>11, <1>12 DEF Told

LEMMA ReplayReadStep ==
  ASSUME StreamInv, NEW c \in Client, ReplayRead(c)
  PROVE  Told(c)' /\ Covered(c)' = Covered(c)
<1>1. PICK x \in Connection : x = client[c]
  BY DEF StreamInv, TypeOK
<1>2. PICK n \in Nat : n = Len(log[x.ws]) /\ DOMAIN log[x.ws] = 1..n
  <2>1. log[x.ws] \in Seq(1..MaxEvents)
    BY DEF StreamInv, TypeOK, Connection
  <2> QED BY <2>1, LenProperties
<1>3. /\ client'[c].phase = "write" /\ client'[c].ws = x.ws /\ client'[c].cursor = x.cursor
      /\ client'[c].replaying = x.replaying /\ client'[c].pending = x.pending
      /\ client'[c].upto = n /\ x.phase = "read"
      /\ UNCHANGED <<log, wire, lastId, known, owed>>
  <2>1. client' = [client EXCEPT ![c].phase = "write", ![c].upto = n] /\ DOMAIN client = Client
    BY <1>1, <1>2 DEF ReplayRead, StreamInv, TypeOK
  <2>2. client'[c] = [x EXCEPT !.phase = "write", !.upto = n]
    BY <1>1, <2>1
  <2>3. /\ client'[c].phase = "write" /\ client'[c].ws = x.ws /\ client'[c].cursor = x.cursor
        /\ client'[c].replaying = x.replaying /\ client'[c].pending = x.pending /\ client'[c].upto = n
    BY <2>2 DEF Connection
  <2> QED BY <1>1, <2>3 DEF ReplayRead, browserVars
<1>4. Told(c)
  BY DEF StreamInv
<1>5. ToReplay(c)' = ToReplay(c)
  <2>1. \A w : Cursor(c, w)' = Cursor(c, w)
    BY <1>1, <1>3 DEF Cursor
  <2> QED BY <1>1, <1>2, <1>3, <2>1 DEF ToReplay
<1>6. FromTheLog(c)'
  BY <1>1, <1>3, <1>4 DEF Told, FromTheLog, Known, InLog
<1>7. OwedInOrder(c)' /\ HasSeenAll(c)'
  BY <1>3, <1>4 DEF Told, OwedInOrder, HasSeenAll
<1>8. Phases(c)'
  BY <1>1, <1>2, <1>3, <1>4 DEF Told, Phases
<1>9. CursorHidesNothing(c)'
  BY <1>1, <1>3, <1>4 DEF Told, CursorHidesNothing
<1>10. WireIsSound(c)'
  BY <1>3, <1>4 DEF Told, WireIsSound, Sound
<1>11. PendingIsSound(c)'
  BY <1>1, <1>3, <1>4, <1>5 DEF Told, PendingIsSound, Sound, Heard
<1>12. Covered(c)' = Covered(c)
  BY <1>1, <1>3, <1>5 DEF Covered, Heard
<1> QED BY <1>6, <1>7, <1>8, <1>9, <1>10, <1>11, <1>12 DEF Told

LEMMA ReceiveStep ==
  ASSUME StreamInv, NEW c \in Client, Receive(c)
  PROVE  Told(c)' /\ Covered(c)' = Covered(c)
<1>1. PICK s \in Seq(Message) : s = wire[c]
  BY DEF StreamInv, TypeOK
<1>2. PICK has : has = known[c]
  OBVIOUS
<1>3. s # <<>>
  BY <1>1 DEF Receive
<1>4. PICK m \in Message : m = Head(s) /\ m = s[1]
  BY <1>3, HeadTailProperties
<1>5. PICK r \in Seq(Message) : r = Tail(s)
  BY <1>3, HeadTailProperties
<1>6. /\ Len(r) \in Nat /\ DOMAIN r = 1..Len(r) /\ DOMAIN s = 1..(Len(r) + 1)
      /\ \A i \in 1..Len(r) : r[i] = s[i + 1]
  <2>1. Len(r) = Len(s) - 1 /\ \A i \in 1..Len(r) : r[i] = s[i + 1]
    BY <1>3, <1>5, HeadTailProperties
  <2>2. Len(r) \in Nat /\ DOMAIN r = 1..Len(r) /\ Len(s) \in Nat /\ DOMAIN s = 1..Len(s)
    BY LenProperties
  <2>3. Len(s) = Len(r) + 1
    BY <2>1, <2>2
  <2> QED BY <2>1, <2>2, <2>3
<1>7. /\ lastId'[c] = IF m.event = None THEN lastId[c] ELSE m.event
      /\ known'[c] = has \cup Tells(m) /\ wire'[c] = r
      /\ UNCHANGED <<log, client, owed>>
  <2>1. DOMAIN lastId = Client /\ DOMAIN known = Client /\ DOMAIN wire = Client
    BY DEF StreamInv, TypeOK
  <2> QED BY <1>1, <1>2, <1>4, <1>5, <2>1 DEF Receive, Tells
<1>8. Told(c)
  BY DEF StreamInv
<1>9. Heard(s) = Tells(m) \cup Heard(r)
  BY <1>3, <1>4, <1>5, HeardAtHead
<1>10. Sound(s, has, owed[c])
  BY <1>1, <1>2, <1>8 DEF Told, WireIsSound
<1>11. ToReplay(c)' = ToReplay(c)
  BY <1>7 DEF ToReplay, Cursor
<1>12. known'[c] \cup Heard(wire[c])' = has \cup Heard(s)
  <2>1. Heard(wire[c])' = Heard(r)
    BY <1>7 DEF Heard
  <2> QED BY <1>7, <1>9, <2>1
<1>13. FromTheLog(c)'
  <2>1. \A e : Known(e)' <=> Known(e)
    BY <1>7 DEF Known, InLog
  <2>2. \A i \in DOMAIN s : Known(s[i].event)
    BY <1>1, <1>8 DEF Told, FromTheLog
  <2>3. \A i \in DOMAIN r : Known(r[i].event)
    <3> SUFFICES ASSUME NEW i \in 1..Len(r) PROVE Known(r[i].event)
      BY <1>6
    <3>1. i + 1 \in DOMAIN s /\ r[i] = s[i + 1]
      BY <1>6
    <3> QED BY <2>2, <3>1
  <2>4. Known(m.event)
    <3>1. 1 \in DOMAIN s
      BY <1>6
    <3> QED BY <1>4, <2>2, <3>1
  <2> QED BY <1>7, <1>8, <2>1, <2>3, <2>4 DEF Told, FromTheLog
<1>14. OwedInOrder(c)'
  BY <1>7, <1>8 DEF Told, OwedInOrder
<1>15. Phases(c)'
  BY <1>7, <1>8 DEF Told, Phases
<1>16. CursorHidesNothing(c)'
  BY <1>2, <1>7, <1>8 DEF Told, CursorHidesNothing
<1>17. HasSeenAll(c)'
  <2>1. CASE m.event = None
    BY <1>2, <1>7, <1>8, <2>1 DEF Told, HasSeenAll
  <2>2. CASE m.event # None
    <3>1. 1 \in DOMAIN s
      BY <1>6
    <3>2. \A e \in owed[c] : s[1].event[1] = e[1] /\ e[2] <= s[1].event[2]
                            => e \in has \/ \E j \in 1..1 : e \in Tells(s[j])
      BY <1>10, <3>1 DEF Sound
    <3>3. \A e \in owed[c] : m.event[1] = e[1] /\ e[2] <= m.event[2] => e \in has \cup Tells(m)
      BY <1>4, <3>2
    <3> QED BY <1>7, <2>2, <3>3 DEF HasSeenAll
  <2> QED BY <2>1, <2>2
<1>18. WireIsSound(c)'
  <2>1. Sound(r, has \cup Tells(m), owed[c])
    BY <1>3, <1>4, <1>5, <1>10, SoundTail
  <2> QED BY <1>7, <2>1 DEF WireIsSound
<1>19. PendingIsSound(c)'
  <2>1. Sound(client[c].pending, has \cup Heard(s) \cup ToReplay(c), owed[c])
    BY <1>1, <1>2, <1>8 DEF Told, PendingIsSound
  <2>2. Sound(client[c].pending, known'[c] \cup Heard(wire[c])' \cup ToReplay(c)', owed[c])
    BY <1>11, <1>12, <2>1
  <2> QED BY <1>7, <2>2 DEF PendingIsSound, Sound
<1>20. Covered(c)' = Covered(c)
  BY <1>1, <1>2, <1>7, <1>11, <1>12 DEF Covered
<1> QED BY <1>13, <1>14, <1>15, <1>16, <1>17, <1>18, <1>19, <1>20 DEF Told

\* A broken connection takes what is on its way with it.
LEMMA BrokenStep ==
  ASSUME NEW c \in Client, Told(c), client'[c] = Disconnected, wire'[c] = <<>>,
         log' = log, lastId'[c] = lastId[c], known'[c] = known[c], owed'[c] = owed[c],
         owed[c] \subseteq Event
  PROVE  Told(c)' /\ BehindIsCovered(c)'
<1>1. /\ client'[c].phase = "off" /\ client'[c].cursor = None
      /\ client'[c].replaying = FALSE /\ client'[c].pending = <<>>
  BY DEF Disconnected
<1>2. FromTheLog(c)'
  BY <1>1 DEF Told, FromTheLog, Known, InLog
<1>3. OwedInOrder(c)'
  BY DEF Told, OwedInOrder
<1>4. HasSeenAll(c)' /\ Phases(c)'
  BY <1>1 DEF Told, HasSeenAll, Phases
<1>5. CursorHidesNothing(c)'
  <2>1. \A e \in owed[c] : e[1] # 0
    BY DEF Event, Workspace
  <2> QED BY <1>1, <2>1 DEF CursorHidesNothing, None
<1>6. WireIsSound(c)' /\ PendingIsSound(c)'
  BY <1>1 DEF WireIsSound, PendingIsSound, Sound
<1>7. BehindIsCovered(c)'
  BY <1>1 DEF BehindIsCovered
<1> QED BY <1>2, <1>3, <1>4, <1>5, <1>6, <1>7 DEF Told

\* A replay tells of all that it had still to tell of its workspace.
LEMMA ReplayTells ==
  ASSUME StreamInv, NEW c \in Client, client[c].phase = "write"
  PROVE  /\ Replay(c) \in Seq(Message)
         /\ Sound(Replay(c), known[c], owed[c])
         /\ \A e \in ToReplay(c) : e[1] = client[c].ws => e \in Heard(Replay(c))
         /\ \A n \in DOMAIN Replay(c) : Known(Replay(c)[n].event)
<1>1. PICK x \in Connection : x = client[c]
  BY DEF StreamInv, TypeOK
<1>2. PICK w \in Workspace, upto \in Nat : w = x.ws /\ upto = x.upto
  BY DEF Connection
<1>3. PICK f \in Seq(1..MaxEvents) : f = log[w]
  BY DEF StreamInv, TypeOK
<1>4. Len(f) \in Nat /\ DOMAIN f = 1..Len(f)
  BY LenProperties
<1>5. Told(c) /\ upto <= Len(f)
  BY <1>1, <1>2, <1>3 DEF StreamInv, Told, Phases
<1>6. Candidates(c) = {i \in 1..upto : f[i] > Cursor(c, w)}
  BY <1>1, <1>2, <1>3 DEF Candidates
<1>7. PICK r : r = Replay(c)
  OBVIOUS
<1>8. /\ r \in Seq(Message)
      /\ \A k \in Candidates(c) : <<w, f[k]>> \in Heard(r)
      /\ \A n \in DOMAIN r :
           \/ r[n].event = None
           \/ \E i \in Candidates(c) :
                /\ r[n].event = <<w, f[i]>>
                /\ \A k \in Candidates(c) : k <= i => \E j \in 1..n : <<w, f[k]>> \in Tells(r[j])
  BY <1>1, <1>2, <1>3, <1>5, <1>7, ReplayIsComplete DEF StreamInv
<1>9. owed[c] \subseteq Event
  BY DEF StreamInv, TypeOK
<1>10. ASSUME NEW n \in DOMAIN r, NEW e \in owed[c], r[n].event[1] = e[1], e[2] <= r[n].event[2],
              e \notin known[c]
       PROVE  \E j \in 1..n : e \in Tells(r[j])
  <2>1. e = <<e[1], e[2]>> /\ e[1] \in Workspace /\ e[2] \in 1..MaxEvents
    BY <1>9 DEF Event
  <2>2. r[n].event # None
    BY <1>10, <2>1 DEF None, Workspace
  <2>3. PICK i \in Candidates(c) :
          /\ r[n].event = <<w, f[i]>>
          /\ \A k \in Candidates(c) : k <= i => \E j \in 1..n : <<w, f[k]>> \in Tells(r[j])
    BY <1>8, <2>2
  <2>4. e[1] = w /\ e[2] <= f[i]
    BY <1>10, <2>3
  <2>5. PICK p \in 1..Len(f) : f[p] = e[2] /\ \A k \in 1..(p - 1) : f[k] < e[2]
    BY <1>3, <1>4, <1>5, <2>4 DEF Told, OwedInOrder
  <2>6. i \in 1..upto /\ f[i] \in 1..MaxEvents
    <3>1. i \in 1..upto /\ i \in 1..Len(f)
      BY <1>4, <1>5, <1>6
    <3> QED BY <3>1, ElementOfSeq
  <2>7. p <= i
    <3>1. ASSUME i < p PROVE FALSE
      <4>1. i \in 1..(p - 1)
        BY <2>5, <2>6, <3>1
      <4>2. f[i] < e[2]
        BY <2>5, <4>1
      <4> QED BY <2>1, <2>4, <2>6, <4>2
    <3> QED BY <2>6, <3>1
  <2>8. e[2] > Cursor(c, w)
    <3>1. CASE client[c].cursor[1] = w
      <4>1. ~(e[2] <= client[c].cursor[2])
        BY <1>5, <1>10, <2>4, <3>1 DEF Told, CursorHidesNothing
      <4>2. client[c].cursor[2] \in Nat
        <5>1. x.cursor \in Event \/ x.cursor = None
          BY DEF Connection
        <5> QED BY <1>1, <5>1 DEF Event, None
      <4> QED BY <2>1, <3>1, <4>1, <4>2 DEF Cursor
    <3>2. CASE client[c].cursor[1] # w
      BY <2>1, <3>2 DEF Cursor
    <3> QED BY <3>1, <3>2
  <2>9. p \in Candidates(c)
    BY <1>6, <2>5, <2>6, <2>7, <2>8
  <2>10. e = <<w, f[p]>>
    BY <2>1, <2>4, <2>5
  <2> QED BY <2>3, <2>7, <2>9, <2>10
<1>11. Sound(r, known[c], owed[c])
  BY <1>10 DEF Sound
<1>12. ASSUME NEW e \in ToReplay(c), e[1] = w
       PROVE  e \in Heard(r)
  <2>1. PICK i \in DOMAIN f : f[i] = e[2] /\ i <= upto
    BY <1>1, <1>2, <1>3, <1>12 DEF ToReplay
  <2>2. e = <<w, e[2]>> /\ e[2] \in Nat /\ Cursor(c, w) < e[2]
    BY <1>12 DEF ToReplay, Event
  <2>3. i \in Candidates(c)
    <3>1. i \in 1..upto
      BY <1>4, <2>1
    <3>2. f[i] > Cursor(c, w)
      BY <2>1, <2>2
    <3> QED BY <1>6, <3>1, <3>2
  <2> QED BY <1>8, <2>1, <2>2, <2>3
<1>13. ASSUME NEW n \in DOMAIN r, r[n].event # None
       PROVE  InLog(r[n].event)
  <2>1. PICK i \in Candidates(c) : r[n].event = <<w, f[i]>>
    BY <1>8, <1>13
  <2>2. i \in DOMAIN f
    BY <1>4, <1>5, <1>6
  <2> QED BY <1>3, <2>1, <2>2 DEF InLog
<1> QED BY <1>1, <1>2, <1>7, <1>8, <1>11, <1>12, <1>13 DEF Known

LEMMA ReplayWriteStep ==
  ASSUME StreamInv, NEW c \in Client, ReplayWrite(c)
  PROVE  Told(c)' /\ Covered(c) \subseteq Covered(c)'
<1>1. PICK x \in Connection : x = client[c]
  BY DEF StreamInv, TypeOK
<1>2. PICK s \in Seq(Message) : s = wire[c]
  BY DEF StreamInv, TypeOK
<1>3. PICK r \in Seq(Message) : r = Replay(c)
  BY ReplayTells DEF ReplayWrite
<1>4. x.phase = "write"
  BY <1>1 DEF ReplayWrite
<1>5. /\ Sound(r, known[c], owed[c])
      /\ \A e \in ToReplay(c) : e[1] = x.ws => e \in Heard(r)
      /\ \A n \in DOMAIN r : Known(r[n].event)
  BY <1>1, <1>3, <1>4, ReplayTells
<1>6. Told(c)
  BY DEF StreamInv
<1>7. PICK sr \in Seq(Message) : sr = s \o r
  BY ConcatProperties
<1>8. Sound(sr, known[c], owed[c]) /\ Heard(sr) = Heard(s) \cup Heard(r)
  <2>1. Sound(s, known[c], owed[c])
    BY <1>2, <1>6 DEF Told, WireIsSound
  <2>2. Sound(r, known[c] \cup Heard(s), owed[c])
    BY <1>5, SoundWithMore
  <2> QED BY <1>7, <2>1, <2>2, SoundOfConcat, HeardOfConcat
<1>9. PICK y \in Seq(Message) : y = x.pending
  BY DEF Connection
<1>10. Sound(y, known[c] \cup Heard(s) \cup ToReplay(c), owed[c])
  BY <1>1, <1>2, <1>6, <1>9 DEF Told, PendingIsSound
<1>11. UNCHANGED <<log, lastId, known, owed>> /\ DOMAIN wire = Client /\ DOMAIN client = Client
  BY DEF ReplayWrite, browserVars, StreamInv, TypeOK
<1>12. \A e : Known(e)' <=> Known(e)
  BY <1>11 DEF Known, InLog
<1>13. /\ \A i \in DOMAIN s : Known(s[i].event)
       /\ \A i \in DOMAIN y : Known(y[i].event)
       /\ Known(lastId[c]) /\ Known(x.cursor) /\ Known(None)
  BY <1>1, <1>2, <1>6, <1>9 DEF Told, FromTheLog, Known
<1>14. OwedInOrder(c)' /\ HasSeenAll(c)'
  BY <1>6, <1>11 DEF Told, OwedInOrder, HasSeenAll
<1>15. \A i \in DOMAIN sr : Known(sr[i].event)
  BY <1>5, <1>7, <1>13, KnownOfConcat
<1>16. CASE x.ws = Workspaces
  <2>1. PICK z \in Seq(Message) : z = sr \o y
    BY ConcatProperties
  <2>2. wire'[c] = z
    BY <1>1, <1>2, <1>3, <1>7, <1>9, <1>11, <1>16, <2>1 DEF ReplayWrite
  <2>3. /\ client'[c].phase = "live" /\ client'[c].cursor = None
        /\ client'[c].replaying = FALSE /\ client'[c].pending = <<>>
    <3>1. client'[c] = [Disconnected EXCEPT !.phase = "live"]
      BY <1>1, <1>11, <1>16 DEF ReplayWrite
    <3> QED BY <3>1 DEF Disconnected
  <2>4. ToReplay(c) \subseteq Heard(r)
    <3>1. \A e \in ToReplay(c) : e[1] = x.ws
      BY <1>1, <1>16 DEF ToReplay, Event, Workspace
    <3> QED BY <1>5, <3>1
  <2>5. Sound(y, known[c] \cup Heard(sr), owed[c])
    <3>1. known[c] \cup Heard(s) \cup ToReplay(c) \subseteq known[c] \cup Heard(sr)
      BY <1>8, <2>4
    <3> QED BY <1>10, <3>1, SoundWithMore
  <2>6. Sound(z, known[c], owed[c]) /\ Heard(z) = Heard(sr) \cup Heard(y)
    BY <1>8, <2>1, <2>5, SoundOfConcat, HeardOfConcat
  <2>7. WireIsSound(c)' /\ PendingIsSound(c)'
    <3>1. WireIsSound(c)'
      BY <1>11, <2>2, <2>6 DEF WireIsSound
    <3>2. PendingIsSound(c)'
      BY <2>3 DEF PendingIsSound, Sound
    <3> QED BY <3>1, <3>2
  <2>8. FromTheLog(c)'
    <3>1. \A i \in DOMAIN z : Known(z[i].event)
      BY <1>13, <1>15, <2>1, KnownOfConcat
    <3> QED BY <1>11, <1>12, <1>13, <2>2, <2>3, <3>1 DEF FromTheLog
  <2>9. Phases(c)'
    BY <1>6, <1>11, <2>3 DEF Told, Phases
  <2>10. CursorHidesNothing(c)'
    <3>1. \A e \in owed[c] : e[1] # 0
      BY DEF StreamInv, TypeOK, Event, Workspace
    <3> QED BY <1>11, <2>3, <3>1 DEF CursorHidesNothing, None
  <2>11. Covered(c) \subseteq Covered(c)'
    <3>1. Heard(wire[c])' = Heard(z)
      BY <2>2 DEF Heard
    <3> QED BY <1>1, <1>2, <1>8, <1>9, <1>11, <2>4, <2>6, <3>1 DEF Covered
  <2> QED BY <1>14, <2>7, <2>8, <2>9, <2>10, <2>11 DEF Told
<1>17. CASE x.ws # Workspaces
  <2>1. sr \o <<>> = sr
    BY ConcatEmptySeq
  <2>2. wire'[c] = sr
    BY <1>1, <1>2, <1>3, <1>7, <1>11, <1>17, <2>1 DEF ReplayWrite
  <2>3. /\ client'[c].phase = "read" /\ client'[c].cursor = x.cursor /\ client'[c].ws = x.ws + 1
        /\ client'[c].replaying = x.replaying /\ client'[c].pending = y
    <3>1. client'[c] = [x EXCEPT !.phase = "read", !.ws = x.ws + 1]
      BY <1>1, <1>11, <1>17 DEF ReplayWrite
    <3> QED BY <1>9, <3>1 DEF Connection
  <2>4. ToReplay(c) \subseteq Heard(r) \cup ToReplay(c)'
    <3> SUFFICES ASSUME NEW e \in ToReplay(c), e[1] # x.ws PROVE e \in ToReplay(c)'
      BY <1>5
    <3>1. e \in Event /\ e[1] \in Nat /\ x.ws \in Nat /\ x.ws <= e[1]
      BY <1>1 DEF ToReplay, Event, Workspace, Connection
    <3>2. x.ws + 1 <= e[1]
      BY <3>1
    <3>3. Cursor(c, e[1])' = Cursor(c, e[1])
      BY <1>1, <2>3 DEF Cursor
    <3> QED BY <1>1, <1>11, <2>3, <3>1, <3>2, <3>3 DEF ToReplay
  <2>5. WireIsSound(c)'
    BY <1>8, <1>11, <2>2 DEF WireIsSound
  <2>6. PendingIsSound(c)'
    <3>1. Heard(wire[c])' = Heard(sr)
      BY <2>2 DEF Heard
    <3>2. known[c] \cup Heard(s) \cup ToReplay(c) \subseteq known[c] \cup Heard(sr) \cup ToReplay(c)'
      BY <1>8, <2>4
    <3>3. Sound(y, known[c] \cup Heard(sr) \cup ToReplay(c)', owed[c])
      BY <1>10, <3>2, SoundWithMore
    <3> QED BY <1>11, <2>3, <3>1, <3>3 DEF PendingIsSound, Sound
  <2>7. FromTheLog(c)'
    BY <1>11, <1>12, <1>13, <1>15, <2>2, <2>3 DEF FromTheLog
  <2>8. Phases(c)'
    BY <1>1, <1>6, <1>9, <1>11, <2>3 DEF Told, Phases
  <2>9. CursorHidesNothing(c)'
    BY <1>1, <1>6, <1>11, <2>3 DEF Told, CursorHidesNothing
  <2>10. Covered(c) \subseteq Covered(c)'
    <3>1. Heard(wire[c])' = Heard(sr)
      BY <2>2 DEF Heard
    <3>2. Heard(client[c].pending)' = Heard(y)
      BY <2>3 DEF Heard
    <3> QED BY <1>1, <1>2, <1>8, <1>9, <1>11, <2>4, <3>1, <3>2 DEF Covered
  <2> QED BY <1>14, <2>5, <2>6, <2>7, <2>8, <2>9, <2>10 DEF Told
<1> QED BY <1>16, <1>17

LEMMA PollReadStep ==
  ASSUME StreamInv, NEW t \in Polls, PollRead(t), NEW c \in Client
  PROVE  Told(c)' /\ BehindIsCovered(c)'
<1>1. PICK x \in Connection : x = client[c]
  BY DEF StreamInv, TypeOK
<1>2. PICK s \in Seq(Message) : s = wire[c]
  BY DEF StreamInv, TypeOK
<1>3. PICK m \in Seq(Message) : m = Chunk(t)
  BY ChunkIsSound DEF PollRead
<1>4. PICK y \in Seq(Message) : y = x.pending
  BY DEF Connection
<1>5. /\ wire'[c] = IF x.phase # "off" /\ ~x.replaying THEN s \o m ELSE s
      /\ client'[c] = IF x.phase # "off" /\ x.replaying THEN [x EXCEPT !.pending = y \o m] ELSE x
      /\ UNCHANGED <<log, lastId, known, owed>>
  BY <1>1, <1>2, <1>3, <1>4 DEF PollRead, Broadcast, Chunk, browserVars
<1>6. Told(c) /\ BehindIsCovered(c)
  BY DEF StreamInv
<1>7. \A e : Known(e)' <=> Known(e)
  BY <1>5 DEF Known, InLog
<1>8. /\ \A i \in DOMAIN s : Known(s[i].event)
      /\ \A i \in DOMAIN y : Known(y[i].event)
      /\ \A i \in DOMAIN m : Known(m[i].event)
      /\ Known(lastId[c]) /\ Known(x.cursor)
  BY <1>1, <1>2, <1>3, <1>4, <1>6, ChunkIsSound DEF Told, FromTheLog, Known, PollRead
<1>9. /\ x.phase # "off" => Sound(m, Covered(c), owed[c])
      /\ \A i \in DOMAIN log[t[1]] :
           poll[t].from < i /\ i <= poll[t].to => <<t[1], log[t[1]][i]>> \in Heard(m)
  BY <1>1, <1>3, ChunkIsSound DEF PollRead
<1>10. OwedInOrder(c)' /\ HasSeenAll(c)'
  BY <1>5, <1>6 DEF Told, OwedInOrder, HasSeenAll
<1>11. /\ Sound(s, known[c], owed[c])
       /\ Sound(y, known[c] \cup Heard(s) \cup ToReplay(c), owed[c])
       /\ Covered(c) = known[c] \cup Heard(s) \cup Heard(y) \cup ToReplay(c)
  BY <1>1, <1>2, <1>4, <1>6 DEF Told, WireIsSound, PendingIsSound, Covered
\* What the tailer has behind it now, it had before or has just broadcast.
<1>12. ASSUME x.phase # "off", Covered(c) \cup Heard(m) \subseteq Covered(c)'
       PROVE  BehindIsCovered(c)'
  <2> SUFFICES ASSUME NEW e \in owed[c], NEW i \in Behind(e[1])', log[e[1]][i] = e[2], e \notin Covered(c)
               PROVE  e \in Heard(m)
    BY <1>5, <1>12 DEF BehindIsCovered
  <2>1. PICK w \in Workspace : w = e[1] /\ e = <<w, e[2]>>
    BY DEF StreamInv, TypeOK, Event
  <2>2. i \in DOMAIN log[w] /\ i \in Nat /\ ~(i \in Behind(w))
    <3>1. i \in DOMAIN log[w]
      BY <1>5, <2>1 DEF Behind
    <3>2. i \in Nat
      <4>1. log[w] \in Seq(1..MaxEvents)
        BY DEF StreamInv, TypeOK
      <4>2. DOMAIN log[w] = 1..Len(log[w]) /\ Len(log[w]) \in Nat
        BY <4>1, LenProperties
      <4> QED BY <3>1, <4>2
    <3>3. ~(i \in Behind(w))
      BY <1>1, <1>6, <1>12, <2>1 DEF BehindIsCovered
    <3> QED BY <3>1, <3>2, <3>3
  <2>3. /\ size \in [Workspace -> Nat \cup {-1}] /\ t[1] \in Workspace /\ DOMAIN poll = Polls
        /\ poll[t].to \in Nat /\ poll[t].from \in Nat
    BY DEF StreamInv, TypeOK, Workspace
  <2>4. /\ size' = [size EXCEPT ![t[1]] = poll[t].to] /\ poll[t].pc = "read"
        /\ poll'[t].pc = "idle" /\ \A u \in Polls : u # t => poll'[u] = poll[u]
    BY <2>3 DEF PollRead, IdlePoll
  <2>5. size'[w] = -1 \/ i <= size'[w]
    <3>1. size'[w] = -1 \/ i <= size'[w] \/ \E u \in Polls : u[1] = w /\ poll'[u].pc = "read" /\ i <= poll'[u].from
      BY <2>1 DEF Behind
    <3>2. ASSUME NEW u \in Polls, u[1] = w, poll'[u].pc = "read", i <= poll'[u].from PROVE FALSE
      BY <2>2, <2>4, <3>2 DEF Behind
    <3> QED BY <3>1, <3>2
  <2>6. w = t[1]
    <3>1. ASSUME w # t[1] PROVE FALSE
      <4>1. size'[w] = size[w]
        BY <2>3, <2>4, <3>1
      <4> QED BY <2>2, <2>5, <4>1 DEF Behind
    <3> QED BY <3>1
  <2>7. i <= poll[t].to
    <3>1. size'[w] = poll[t].to
      BY <2>3, <2>4, <2>6
    <3> QED BY <2>3, <2>5, <3>1
  <2>8. poll[t].from < i
    <3>1. ~(i <= poll[t].from)
      BY <2>2, <2>4, <2>6 DEF Behind
    <3> QED BY <2>2, <2>3, <3>1
  <2> QED BY <1>9, <2>1, <2>2, <2>6, <2>7, <2>8
<1>13. CASE x.phase = "off"
  <2>1. client'[c] = client[c] /\ wire'[c] = wire[c]
    BY <1>1, <1>2, <1>5, <1>13
  <2> QED BY <1>1, <1>5, <1>6, <1>13, <2>1, OthersAreKept DEF BehindIsCovered
<1>14. CASE x.phase # "off" /\ ~x.replaying
  <2>1. PICK z \in Seq(Message) : z = s \o m
    BY ConcatProperties
  <2>2. wire'[c] = z /\ client'[c] = x
    BY <1>5, <1>14, <2>1
  <2>3. y = <<>> /\ Heard(y) = {} /\ ToReplay(c) = {}
    <3>1. y = <<>>
      BY <1>1, <1>4, <1>6, <1>14 DEF Told, Phases
    <3>2. ToReplay(c) = {}
      BY <1>1, <1>14 DEF ToReplay
    <3> QED BY <3>1, <3>2 DEF Heard
  <2>4. Sound(z, known[c], owed[c]) /\ Heard(z) = Heard(s) \cup Heard(m)
    <3>1. Covered(c) = known[c] \cup Heard(s)
      BY <1>11, <2>3
    <3> QED BY <1>9, <1>11, <1>14, <2>1, <3>1, SoundOfConcat, HeardOfConcat
  <2>5. WireIsSound(c)'
    BY <1>5, <2>2, <2>4 DEF WireIsSound
  <2>6. PendingIsSound(c)'
    <3>1. client'[c].pending = <<>>
      BY <1>4, <2>2, <2>3
    <3> QED BY <3>1 DEF PendingIsSound, Sound
  <2>7. FromTheLog(c)'
    <3>1. \A i \in DOMAIN z : Known(z[i].event)
      BY <1>8, <2>1, KnownOfConcat
    <3> QED BY <1>4, <1>5, <1>7, <1>8, <2>2, <3>1 DEF FromTheLog
  <2>8. Phases(c)' /\ CursorHidesNothing(c)'
    BY <1>1, <1>5, <1>6, <2>2 DEF Told, Phases, CursorHidesNothing
  <2>9. Covered(c) \cup Heard(m) \subseteq Covered(c)'
    <3>1. Heard(wire[c])' = Heard(z)
      BY <2>2 DEF Heard
    <3> QED BY <1>5, <1>11, <2>3, <2>4, <3>1 DEF Covered
  <2> QED BY <1>10, <1>12, <1>14, <2>5, <2>6, <2>7, <2>8, <2>9 DEF Told
<1>15. CASE x.phase # "off" /\ x.replaying
  <2>1. PICK z \in Seq(Message) : z = y \o m
    BY ConcatProperties
  <2>2. /\ wire'[c] = s /\ client'[c].phase = x.phase /\ client'[c].cursor = x.cursor
        /\ client'[c].ws = x.ws /\ client'[c].replaying = x.replaying /\ client'[c].upto = x.upto
        /\ client'[c].pending = z
    <3>1. wire'[c] = s /\ client'[c] = [x EXCEPT !.pending = z]
      BY <1>5, <1>15, <2>1
    <3> QED BY <3>1 DEF Connection
  <2>3. Cursor(c, 1)' = Cursor(c, 1) /\ \A w : Cursor(c, w)' = Cursor(c, w)
    BY <1>1, <2>2 DEF Cursor
  <2>4. ToReplay(c)' = ToReplay(c)
    BY <1>1, <1>5, <2>2, <2>3 DEF ToReplay
  <2>5. Heard(wire[c])' = Heard(s)
    BY <2>2 DEF Heard
  <2>6. Sound(z, known[c] \cup Heard(s) \cup ToReplay(c), owed[c]) /\ Heard(z) = Heard(y) \cup Heard(m)
    <3>1. PICK has : has = known[c] \cup Heard(s) \cup ToReplay(c)
      OBVIOUS
    <3>2. Covered(c) = has \cup Heard(y)
      BY <1>11, <3>1
    <3>3. Sound(y, has, owed[c])
      BY <1>11, <3>1
    <3> QED BY <1>9, <1>15, <2>1, <3>1, <3>2, <3>3, SoundOfConcat, HeardOfConcat
  <2>7. WireIsSound(c)'
    BY <1>5, <1>11, <2>2 DEF WireIsSound
  <2>8. PendingIsSound(c)'
    BY <1>5, <2>2, <2>4, <2>5, <2>6 DEF PendingIsSound
  <2>9. FromTheLog(c)'
    <3>1. \A i \in DOMAIN z : Known(z[i].event)
      BY <1>8, <2>1, KnownOfConcat
    <3> QED BY <1>5, <1>7, <1>8, <2>2, <3>1 DEF FromTheLog
  <2>10. Phases(c)' /\ CursorHidesNothing(c)'
    BY <1>1, <1>5, <1>6, <1>15, <2>2 DEF Told, Phases, CursorHidesNothing
  <2>11. Covered(c) \cup Heard(m) \subseteq Covered(c)'
    <3>1. Heard(client[c].pending)' = Heard(z)
      BY <2>2 DEF Heard
    <3> QED BY <1>5, <1>11, <2>4, <2>5, <2>6, <3>1 DEF Covered
  <2> QED BY <1>10, <1>12, <1>15, <2>7, <2>8, <2>9, <2>10, <2>11 DEF Told
<1> QED BY <1>13, <1>14, <1>15

LEMMA AppendStep ==
  ASSUME StreamInv, Next, NEW p \in Publisher, AppendLine(p), NEW c \in Client
  PROVE  Told(c)' /\ BehindIsCovered(c)'
<1>1. PICK w \in Workspace, n \in 1..MaxEvents : publish[p] = <<w, n>>
  <2>1. publish[p] \in Event
    BY DEF StreamInv, TypeOK, AppendLine
  <2> QED BY <2>1 DEF Event
<1>2. PICK new \in Event : new = <<w, n>> /\ new[1] = w /\ new[2] = n
  <2>1. <<w, n>> \in Event
    BY DEF Event
  <2> QED BY <2>1
<1>3. PICK inOrder : inOrder = \A i \in DOMAIN log[w] : log[w][i] < n
  OBVIOUS
<1>4. /\ log' = [log EXCEPT ![w] = Append(@, n)]
      /\ owed'[c] = IF inOrder /\ size[w] >= 0 /\ lastId[c] # None
                     THEN owed[c] \cup {new} ELSE owed[c]
      /\ UNCHANGED <<size, poll, client, wire, lastId, known>>
  BY <1>1, <1>2, <1>3 DEF AppendLine, serverVars, browserVars
<1>5. Told(c) /\ BehindIsCovered(c) /\ owed[c] \subseteq Event
  BY DEF StreamInv, TypeOK
<1>6. \A v \in Workspace :
        /\ Len(log[v]) \in Nat /\ DOMAIN log[v] = 1..Len(log[v])
        /\ Len(log'[v]) \in Nat /\ DOMAIN log'[v] = 1..Len(log'[v])
        /\ Len(log[v]) <= Len(log'[v])
        /\ \A i \in 1..Len(log[v]) : log'[v][i] = log[v][i]
  BY FilesGrow DEF StreamInv
<1>7. PICK len \in Nat : len = Len(log[w]) /\ DOMAIN log[w] = 1..len
  BY <1>6
<1>8. /\ Len(log'[w]) = len + 1 /\ log'[w][len + 1] = n
      /\ \A v \in Workspace : v # w => log'[v] = log[v]
  <2>1. log[w] \in Seq(1..MaxEvents) /\ DOMAIN log = Workspace
    BY DEF StreamInv, TypeOK
  <2>2. log'[w] = Append(log[w], n)
    BY <1>4, <2>1
  <2> QED BY <1>4, <1>7, <2>1, <2>2, AppendProperties
<1>9. \A e \in Event : InLog(e) => InLog(e)'
  <2> SUFFICES ASSUME NEW e \in Event, InLog(e) PROVE InLog(e)'
    OBVIOUS
  <2>1. PICK v \in Workspace : v = e[1]
    BY DEF Event
  <2>2. PICK i \in 1..Len(log[v]) : log[v][i] = e[2]
    BY <1>6, <2>1 DEF InLog
  <2>3. i \in DOMAIN log'[v] /\ log'[v][i] = e[2]
    BY <1>6, <2>2
  <2> QED BY <2>1, <2>3 DEF InLog
<1>10. \A e \in Event \cup {None} : Known(e) => Known(e)'
  BY <1>9 DEF Known
\* An event of the workspace that is in the file comes before the new one when that is owed.
<1>11. ASSUME inOrder, NEW e \in Event \cup {None}, Known(e), e[1] = w
       PROVE  e \in Event /\ e[2] < n
  <2>1. e \in Event
    BY <1>11 DEF None, Workspace
  <2>2. InLog(e)
    BY <1>11, <2>1 DEF Known, None, Event, Workspace
  <2>3. PICK i \in DOMAIN log[w] : log[w][i] = e[2]
    BY <1>11, <2>2 DEF InLog
  <2> QED BY <1>3, <1>11, <2>1, <2>3
<1>12. /\ lastId[c] \in Event \cup {None} /\ client[c].cursor \in Event \cup {None}
       /\ client[c] \in Connection
       /\ \A i \in DOMAIN wire[c] : wire[c][i].event \in Event \cup {None}
       /\ \A i \in DOMAIN client[c].pending : client[c].pending[i].event \in Event \cup {None}
  <2>1. lastId[c] \in Event \cup {None} /\ client[c] \in Connection /\ wire[c] \in Seq(Message)
    BY DEF StreamInv, TypeOK
  <2>2. client[c].cursor \in Event \cup {None} /\ client[c].pending \in Seq(Message)
    BY <2>1 DEF Connection
  <2>3. ASSUME NEW s \in Seq(Message), NEW i \in DOMAIN s PROVE s[i].event \in Event \cup {None}
    <3>1. s[i] \in Message
      BY ElementOfSeq, LenProperties
    <3> QED BY <3>1 DEF Message
  <2> QED BY <2>1, <2>2, <2>3
<1>13. /\ Known(lastId[c]) /\ Known(client[c].cursor)
       /\ \A i \in DOMAIN wire[c] : Known(wire[c][i].event)
       /\ \A i \in DOMAIN client[c].pending : Known(client[c].pending[i].event)
  BY <1>5 DEF Told, FromTheLog
<1>14. FromTheLog(c)'
  BY <1>4, <1>10, <1>12, <1>13 DEF FromTheLog
<1>15. OwedInOrder(c)'
  <2>1. ASSUME NEW e \in owed[c]
        PROVE  \E i \in DOMAIN log'[e[1]] : log'[e[1]][i] = e[2] /\ \A k \in 1..(i - 1) : log'[e[1]][k] < e[2]
    <3>1. PICK v \in Workspace : v = e[1]
      BY <1>5 DEF Event
    <3>2. PICK i \in 1..Len(log[v]) : log[v][i] = e[2] /\ \A k \in 1..(i - 1) : log[v][k] < e[2]
      BY <1>5, <1>6, <3>1 DEF Told, OwedInOrder
    <3>3. i \in DOMAIN log'[v] /\ log'[v][i] = e[2]
      BY <1>6, <3>2
    <3>4. \A k \in 1..(i - 1) : log'[v][k] < e[2]
      <4>1. \A k \in 1..(i - 1) : k \in 1..Len(log[v])
        BY <1>6, <3>2
      <4> QED BY <1>6, <3>2, <4>1
    <3> QED BY <3>1, <3>3, <3>4
  <2>2. ASSUME inOrder
        PROVE  \E i \in DOMAIN log'[w] : log'[w][i] = n /\ \A k \in 1..(i - 1) : log'[w][k] < n
    <3>1. len + 1 \in DOMAIN log'[w] /\ log'[w][len + 1] = n /\ len + 1 - 1 = len
      BY <1>6, <1>8
    <3>2. \A k \in 1..len : log'[w][k] < n
      BY <1>3, <1>6, <1>7, <2>2
    <3> QED BY <3>1, <3>2
  <2>3. CASE owed'[c] = owed[c]
    BY <2>1, <2>3 DEF OwedInOrder
  <2>4. CASE inOrder /\ owed'[c] = owed[c] \cup {new}
    BY <1>2, <2>1, <2>2, <2>4 DEF OwedInOrder
  <2> QED BY <1>4, <2>3, <2>4
<1>16. Phases(c)'
  <2>1. ASSUME client[c].phase = "write" PROVE client[c].upto <= Len(log'[client[c].ws])
    <3>1. PICK v \in Workspace, u \in Nat : v = client[c].ws /\ u = client[c].upto
      BY <1>12 DEF Connection
    <3>2. u <= Len(log[v])
      BY <1>5, <2>1, <3>1 DEF Told, Phases
    <3> QED BY <1>6, <3>1, <3>2
  <2> QED BY <1>4, <1>5, <2>1 DEF Told, Phases
<1>17. CursorHidesNothing(c)' /\ HasSeenAll(c)'
  <2>1. ASSUME inOrder, NEW e \in Event \cup {None}, Known(e) PROVE ~(new[1] = e[1] /\ new[2] <= e[2])
    <3>1. ASSUME w = e[1], n <= e[2] PROVE FALSE
      <4>1. e[2] \in Nat /\ e[2] < n
        BY <1>11, <2>1, <3>1 DEF Event
      <4> QED BY <3>1, <4>1
    <3> QED BY <1>2, <3>1
  <2>2. inOrder => ~(new[1] = client[c].cursor[1] /\ new[2] <= client[c].cursor[2])
    BY <1>12, <1>13, <2>1
  <2>3. inOrder => ~(new[1] = lastId[c][1] /\ new[2] <= lastId[c][2])
    BY <1>12, <1>13, <2>1
  <2>4. CursorHidesNothing(c)'
    BY <1>4, <1>5, <2>2 DEF Told, CursorHidesNothing
  <2>5. HasSeenAll(c)'
    BY <1>4, <1>5, <2>3 DEF Told, HasSeenAll
  <2> QED BY <2>4, <2>5
<1>18. ASSUME NEW s, NEW has, Sound(s, has, owed[c]),
              \A i \in DOMAIN s : s[i].event \in Event \cup {None} /\ Known(s[i].event)
       PROVE  Sound(s, has, owed'[c])
  <2>1. CASE owed'[c] = owed[c]
    BY <1>18, <2>1
  <2>2. CASE inOrder /\ owed'[c] = owed[c] \cup {new}
    <3>1. \A i \in DOMAIN s : s[i].event \in Event /\ s[i].event[1] = new[1] => s[i].event[2] < new[2]
      BY <1>2, <1>11, <1>18, <2>2
    <3>2. \A i \in DOMAIN s : s[i].event \in Event \cup {None}
      BY <1>18
    <3>3. Sound(s, has, owed[c] \cup {new})
      BY <1>18, <3>1, <3>2, SoundWithNew
    <3> QED BY <2>2, <3>3
  <2> QED BY <1>4, <2>1, <2>2
<1>19. WireIsSound(c)'
  <2>1. Sound(wire[c], known[c], owed'[c])
    BY <1>5, <1>12, <1>13, <1>18 DEF Told, WireIsSound
  <2> QED BY <1>4, <2>1 DEF WireIsSound, Sound
<1>20. ToReplay(c) \subseteq ToReplay(c)'
  <2> SUFFICES ASSUME NEW e \in ToReplay(c) PROVE e \in ToReplay(c)'
    OBVIOUS
  <2>1. PICK v \in Workspace : v = e[1] /\ e \in Event
    BY DEF ToReplay, Event
  <2>2. PICK i \in 1..Len(log[v]) :
          /\ log[v][i] = e[2]
          /\ client[c].ws = v /\ client[c].phase = "write" => i <= client[c].upto
    BY <1>6, <2>1 DEF ToReplay
  <2>3. i \in DOMAIN log'[v] /\ log'[v][i] = e[2]
    BY <1>6, <2>2
  <2>4. client[c].replaying /\ client[c].ws <= e[1] /\ Cursor(c, e[1]) < e[2] /\ Cursor(c, e[1])' = Cursor(c, e[1])
    BY <1>4 DEF ToReplay, Cursor
  <2> QED BY <1>4, <2>1, <2>2, <2>3, <2>4 DEF ToReplay
<1>21. PendingIsSound(c)'
  <2>1. Sound(client[c].pending, known[c] \cup Heard(wire[c]) \cup ToReplay(c), owed[c])
    BY <1>5 DEF Told, PendingIsSound
  <2>2. Sound(client[c].pending, known[c] \cup Heard(wire[c]) \cup ToReplay(c)', owed[c])
    BY <1>20, <2>1, SoundWithMore
  <2>3. Sound(client[c].pending, known[c] \cup Heard(wire[c]) \cup ToReplay(c)', owed'[c])
    BY <1>12, <1>13, <1>18, <2>2
  <2> QED BY <1>4, <2>3 DEF PendingIsSound, Sound, Heard
<1>22. Covered(c) \subseteq Covered(c)'
  <2>1. Heard(wire[c])' = Heard(wire[c]) /\ Heard(client[c].pending)' = Heard(client[c].pending)
    BY <1>4 DEF Heard
  <2> QED BY <1>4, <1>20, <2>1 DEF Covered
<1>23. BehindIsCovered(c)'
  <2> SUFFICES ASSUME client[c].phase # "off", NEW e \in owed'[c], NEW i \in Behind(e[1])', log'[e[1]][i] = e[2]
               PROVE  e \in Covered(c)
    BY <1>4, <1>22 DEF BehindIsCovered
  <2>1. PICK v \in Workspace : v = e[1] /\ e \in Event
    BY <1>4, <1>5 DEF Event
  <2>2. i \in 1..Len(log'[v]) /\ i \in Nat
    BY <1>6, <2>1 DEF Behind
  <2>3. size[v] = -1 \/ i <= size[v] \/ \E t \in Polls : t[1] = v /\ poll[t].pc = "read" /\ i <= poll[t].from
    BY <1>4, <2>1 DEF Behind
  <2>4. CASE i <= Len(log[v])
    <3>1. i \in 1..Len(log[v]) /\ log[v][i] = e[2]
      BY <1>6, <2>1, <2>2, <2>4
    <3>2. i \in Behind(v)
      BY <1>6, <2>3, <3>1 DEF Behind
    <3>3. e \in owed[c]
      <4>1. ASSUME inOrder, e = new PROVE FALSE
        <5>1. log[w][i] = n /\ i \in DOMAIN log[w]
          BY <1>2, <1>6, <2>1, <3>1, <4>1
        <5>2. n < n
          BY <1>3, <4>1, <5>1
        <5> QED BY <5>2
      <4> QED BY <1>4, <4>1
    <3> QED BY <1>5, <2>1, <3>1, <3>2, <3>3 DEF BehindIsCovered
  <2>5. CASE ~(i <= Len(log[v]))
    <3>1. v = w
      BY <1>6, <1>8, <2>2, <2>5
    <3>2. size[v] = -1
      <4>1. size[v] <= Len(log[v]) /\ size[v] \in Nat \cup {-1}
        BY DEF StreamInv, PollsInTheFile, TypeOK
      <4>2. ASSUME NEW t \in Polls, t[1] = v, i <= poll[t].from PROVE FALSE
        <5>1. poll[t].to <= Len(log[v]) /\ poll[t].from <= poll[t].to /\ poll[t].to \in Nat /\ poll[t].from \in Nat
          <6>1. poll[t] \in [pc : {"idle", "stat", "open", "read"}, to : Nat, from : Nat]
            BY DEF StreamInv, TypeOK
          <6>2. poll[t].to \in Nat /\ poll[t].from \in Nat
            BY <6>1
          <6>3. poll[t].to <= Len(log[v]) /\ poll[t].from <= poll[t].to
            BY <4>2 DEF StreamInv, PollsInTheFile
          <6> QED BY <6>2, <6>3
        <5>2. Len(log[v]) \in Nat
          BY <1>6
        <5> QED BY <2>2, <2>5, <4>2, <5>1, <5>2
      <4>3. ~(i <= size[v])
        <5>1. Len(log[v]) \in Nat
          BY <1>6
        <5> QED BY <2>2, <2>5, <4>1, <5>1
      <4> QED BY <2>3, <4>2, <4>3
    <3>3. e \in owed[c]
      BY <1>4, <3>1, <3>2
    <3>4. PICK k \in DOMAIN log[v] : log[v][k] = e[2]
      BY <1>5, <2>1, <3>3 DEF Told, OwedInOrder
    <3>5. k \in Behind(v)
      BY <3>2 DEF Behind
    <3> QED BY <1>5, <2>1, <3>3, <3>4, <3>5 DEF BehindIsCovered
  <2> QED BY <2>4, <2>5
<1> QED BY <1>14, <1>15, <1>16, <1>17, <1>19, <1>21, <1>23 DEF Told

-----------------------------------------------------------------------------
LEMMA StreamInit == Init => StreamInv
<1> SUFFICES ASSUME Init PROVE StreamInv
  OBVIOUS
<1>1. /\ \A c \in Client : /\ client[c] = Disconnected /\ wire[c] = <<>> /\ lastId[c] = None
                            /\ known[c] = {} /\ owed[c] = {}
      /\ \A w \in Workspace : log[w] = <<>> /\ size[w] = -1
      /\ \A t \in Polls : poll[t] = IdlePoll /\ t[1] \in Workspace
  BY DEF Init, Workspace
<1>2. TypeOK
  <2>1. Disconnected \in Connection
    BY DisconnectedIsTyped
  <2>2. <<>> \in Seq(Message) /\ <<>> \in Seq(1..MaxEvents)
    BY EmptySeq
  <2>3. IdlePoll \in [pc : {"idle", "stat", "open", "read"}, to : Nat, from : Nat]
    BY DEF IdlePoll
  <2> QED BY <2>1, <2>2, <2>3 DEF Init, TypeOK
<1>3. PollsInTheFile
  <2>1. Len(<<>>) = 0
    OBVIOUS
  <2> QED BY <1>1, <2>1 DEF PollsInTheFile, IdlePoll
<1>4. ASSUME NEW c \in Client PROVE Told(c) /\ BehindIsCovered(c)
  <2>1. /\ client[c].phase = "off" /\ client[c].cursor = None
        /\ client[c].replaying = FALSE /\ client[c].pending = <<>>
    BY <1>1 DEF Disconnected
  <2>2. FromTheLog(c)
    BY <1>1, <2>1 DEF FromTheLog, Known
  <2>3. OwedInOrder(c) /\ CursorHidesNothing(c) /\ HasSeenAll(c)
    BY <1>1 DEF OwedInOrder, CursorHidesNothing, HasSeenAll
  <2>4. Phases(c) /\ BehindIsCovered(c)
    BY <1>1, <2>1 DEF Phases, BehindIsCovered
  <2>5. WireIsSound(c) /\ PendingIsSound(c)
    BY <1>1, <2>1 DEF WireIsSound, PendingIsSound, Sound
  <2> QED BY <2>2, <2>3, <2>4, <2>5 DEF Told
<1> QED BY <1>2, <1>3, <1>4 DEF StreamInv

LEMMA StreamStep == StreamInv /\ [Next]_vars => StreamInv'
<1> SUFFICES ASSUME StreamInv, [Next]_vars PROVE StreamInv'
  OBVIOUS
<1>1. TypeOK /\ PollsInTheFile /\ \A c \in Client : Told(c) /\ BehindIsCovered(c) /\ owed[c] \subseteq Event
  BY DEF StreamInv, TypeOK
<1>2. ASSUME UNCHANGED <<log, lastId, known, owed, client, wire>>,
             UNCHANGED <<size, poll>> \/ \E t \in Polls : PollStat(t) \/ PollCheck(t) \/ PollOpened(t),
             NEW c \in Client
      PROVE  Told(c)' /\ BehindIsCovered(c)'
  <2>1. Told(c)' /\ Covered(c)' = Covered(c)
    BY <1>1, <1>2, OthersAreKept
  <2>2. \A w \in Workspace : Behind(w)' \subseteq Behind(w)
    BY <1>1, <1>2, BehindShrinks
  <2>3. owed'[c] \subseteq Event /\ owed'[c] = owed[c] /\ (client'[c].phase # "off" => client[c].phase # "off")
    BY <1>1, <1>2
  <2> QED BY <1>1, <1>2, <2>1, <2>2, <2>3, CoveredIsKept
<1>3. CASE UNCHANGED vars
  <2>1. TypeOK' /\ PollsInTheFile'
    BY <1>1, <1>3 DEF TypeOK, PollsInTheFile, vars, serverVars, browserVars
  <2>2. UNCHANGED <<log, lastId, known, owed, client, wire>> /\ UNCHANGED <<size, poll>>
    BY <1>3 DEF vars, serverVars, browserVars
  <2> QED BY <1>2, <2>1, <2>2 DEF StreamInv
<1>4. CASE Next
  <2>1. TypeOK' /\ PollsInTheFile'
    BY <1>4, TypeStep, PollsStep
  <2> SUFFICES ASSUME NEW c \in Client PROVE Told(c)' /\ BehindIsCovered(c)'
    BY <2>1 DEF StreamInv
  \* A step of one browser's connection
  <2>2. ASSUME NEW d \in Client, Connect(d) \/ ReplayRead(d) \/ ReplayWrite(d) \/ Receive(d) \/ Breaks(d)
        PROVE  Told(c)' /\ BehindIsCovered(c)'
    <3>1. UNCHANGED <<log, owed, size, poll>>
      BY <2>2 DEF Connect, ReplayRead, ReplayWrite, Receive, Breaks
    <3>2. \A w \in Workspace : Behind(w)' \subseteq Behind(w)
      BY <1>1, <3>1, BehindShrinks
    <3>3. ASSUME Told(c)', Covered(c) \subseteq Covered(c)', client'[c].phase # "off" => client[c].phase # "off"
          PROVE  BehindIsCovered(c)'
      BY <1>1, <3>1, <3>2, <3>3, CoveredIsKept
    <3>4. DOMAIN client = Client /\ DOMAIN wire = Client /\ DOMAIN lastId = Client /\ DOMAIN known = Client
      BY <1>1 DEF TypeOK
    <3>5. CASE c # d
      <4>1. client'[c] = client[c] /\ wire'[c] = wire[c] /\ lastId'[c] = lastId[c] /\ known'[c] = known[c]
        <5>1. CASE Connect(d)
          BY <3>4, <3>5, <5>1 DEF Connect, browserVars
        <5>2. CASE ReplayRead(d)
          BY <3>4, <3>5, <5>2 DEF ReplayRead, browserVars
        <5>3. CASE ReplayWrite(d)
          BY <3>4, <3>5, <5>3 DEF ReplayWrite, browserVars
        <5>4. CASE Receive(d)
          BY <3>4, <3>5, <5>4 DEF Receive
        <5>5. CASE Breaks(d)
          BY <3>4, <3>5, <5>5 DEF Breaks, browserVars
        <5> QED BY <2>2, <5>1, <5>2, <5>3, <5>4, <5>5
      <4>2. Told(c)' /\ Covered(c)' = Covered(c)
        BY <1>1, <3>1, <4>1, OthersAreKept
      <4> QED BY <3>3, <4>1, <4>2
    <3>6. CASE c = d /\ Connect(d)
      BY <3>6, ConnectStep
    <3>7. CASE c = d /\ ReplayRead(d)
      <4>1. Told(c)' /\ Covered(c)' = Covered(c)
        BY <3>7, ReplayReadStep
      <4>2. client[c].phase # "off"
        BY <3>7 DEF ReplayRead
      <4> QED BY <3>3, <4>1, <4>2
    <3>8. CASE c = d /\ ReplayWrite(d)
      <4>1. Told(c)' /\ Covered(c) \subseteq Covered(c)'
        BY <3>8, ReplayWriteStep
      <4>2. client[c].phase # "off"
        BY <3>8 DEF ReplayWrite
      <4> QED BY <3>3, <4>1, <4>2
    <3>9. CASE c = d /\ Receive(d)
      <4>1. Told(c)' /\ Covered(c)' = Covered(c)
        BY <3>9, ReceiveStep
      <4>2. client'[c] = client[c]
        BY <3>9 DEF Receive
      <4> QED BY <3>3, <4>1, <4>2
    <3>10. CASE c = d /\ Breaks(d)
      <4>1. client'[c] = Disconnected /\ wire'[c] = <<>> /\ log' = log /\ lastId'[c] = lastId[c]
            /\ known'[c] = known[c] /\ owed'[c] = owed[c]
        BY <3>4, <3>10 DEF Breaks, browserVars
      <4> QED BY <1>1, <4>1, BrokenStep
    <3> QED BY <2>2, <3>5, <3>6, <3>7, <3>8, <3>9, <3>10
  <2>3. CASE ServerRestarts
    <3>1. client'[c] = Disconnected /\ wire'[c] = <<>> /\ log' = log /\ lastId'[c] = lastId[c]
          /\ known'[c] = known[c] /\ owed'[c] = owed[c]
      BY <2>3 DEF ServerRestarts, browserVars
    <3> QED BY <1>1, <3>1, BrokenStep
  <2>4. ASSUME NEW p \in Publisher, (\E w \in Workspace : TakeNumber(p, w)) \/ AppendLine(p) \/ PublisherDies(p)
        PROVE  Told(c)' /\ BehindIsCovered(c)'
    <3>1. CASE AppendLine(p)
      BY <1>4, <3>1, AppendStep
    <3>2. CASE (\E w \in Workspace : TakeNumber(p, w)) \/ PublisherDies(p)
      <4>1. UNCHANGED <<log, lastId, known, owed, client, wire>> /\ UNCHANGED <<size, poll>>
        BY <3>2 DEF TakeNumber, PublisherDies, serverVars, browserVars
      <4> QED BY <1>2, <4>1
    <3> QED BY <2>4, <3>1, <3>2
  <2>5. ASSUME NEW t \in Polls, Poll(t)
        PROVE  Told(c)' /\ BehindIsCovered(c)'
    <3>1. CASE PollRead(t)
      BY <3>1, PollReadStep
    <3>2. CASE PollStat(t) \/ PollCheck(t) \/ PollOpened(t)
      <4>1. UNCHANGED <<log, lastId, known, owed, client, wire>>
        BY <3>2 DEF PollStat, PollCheck, PollOpened, browserVars
      <4> QED BY <1>2, <3>2, <4>1
    <3> QED BY <2>5, <3>1, <3>2 DEF Poll
  <2> QED BY <1>4, <2>2, <2>3, <2>4, <2>5 DEF Next
<1> QED BY <1>3, <1>4

THEOREM StreamInvariant == Spec => []StreamInv
<1>1. Init => StreamInv
  BY StreamInit
<1>2. StreamInv /\ [Next]_vars => StreamInv'
  BY StreamStep
<1> QED BY <1>1, <1>2, PTL DEF Spec

\* Every state of the stream is of its type: a number that is taken stays one of the
\* file's, a poll never reads backwards (ui.ts 606-660).
THEOREM TypeCorrect == Spec => []TypeOK
<1>1. StreamInv => TypeOK
  BY DEF StreamInv
<1> QED BY <1>1, StreamInvariant, PTL

\* The Last-Event-ID a browser reconnects with hides no event it is owed and has neither
\* got nor been told of, however its replay, the overlapping polls, the appends of other
\* processes and broken connections interleave (ui.ts 582, 778, 790).
THEOREM ResumesBehindNothingMissed == Spec => []CursorHasSeenAll
<1>1. StreamInv => CursorHasSeenAll
  BY DEF StreamInv, Told, HasSeenAll, CursorHasSeenAll
<1> QED BY <1>1, StreamInvariant, PTL
==============================================================================
