------------------------------ MODULE OutboxProofs ------------------------------
(***************************************************************************)
(* That the outbox implements Delivery, for every number of events and     *)
(* processes, and that no event is given up early.                         *)
(***************************************************************************)
EXTENDS Outbox, TLAPS

Busy == {"send", "complete", "failed", "letter", "record", "drop"}

\* Nothing has become of an event.
Fresh(e) == ~row[e].in /\ e \notin received /\ e \notin failed

\* An event that is being published is fresh, and published by one process.
Publishing ==
  /\ \A p \in Process : publish[p].pc # "idle" =>
       publish[p].event \in Event /\ publish[p].event <= next /\ Fresh(publish[p].event)
  /\ \A p, q \in Process : publish[p].pc # "idle" /\ publish[q].pc # "idle" /\ p # q
       => publish[p].event # publish[q].event
  /\ \A e \in Event : e > next => Fresh(e)

\* A drain works on an event that was put into the outbox, and is about to
\* delete the row only for a reason.
Claimed ==
  \A p \in Process :
    /\ drain[p].pc \in Busy => drain[p].event \in Event /\ ~Fresh(drain[p].event)
    /\ drain[p].pc = "complete" => drain[p].event \in received
    /\ drain[p].pc = "drop" => drain[p].event \in failed

\* The attempts that rows and drains count have been made.
Counted ==
  /\ \A e \in Event : row[e].attempts <= tries[e]
  /\ \A p \in Process :
       /\ drain[p].pc \in Busy => drain[p].attempts <= tries[drain[p].event]
       /\ drain[p].pc \in {"failed", "letter", "record"} => drain[p].attempts < tries[drain[p].event]
       /\ drain[p].pc \in {"letter", "record"} => drain[p].attempts >= MaxRetries
  /\ GivenUpLast

IInv == TypeOK /\ Publishing /\ Claimed /\ Counted

USE OutboxAssumption

LEMMA RowChanges ==
  ASSUME NEW r \in RowType, NEW o \in Process \cup {None, Gone}, NEW n \in Nat
  PROVE  /\ [r EXCEPT !.due = TRUE] \in RowType
         /\ [r EXCEPT !.locked = FALSE] \in RowType
         /\ [r EXCEPT !.owner = o] \in RowType
         /\ [r EXCEPT !.owner = o, !.locked = TRUE] \in RowType
         /\ [r EXCEPT !.attempts = n, !.due = FALSE, !.locked = FALSE, !.owner = None] \in RowType
BY DEF RowType

LEMMA DrainClaims ==
  ASSUME NEW r \in DrainType, NEW e \in Event, NEW n \in Nat
  PROVE  [r EXCEPT !.pc = "send", !.event = e, !.attempts = n, !.late = FALSE] \in DrainType
BY DEF DrainType, DrainPc

LEMMA DrainGoesOn ==
  ASSUME NEW n \in Nat
  PROVE  [Idle EXCEPT !.pc = "claim", !.processed = n] \in DrainType
BY DEF DrainType, DrainPc, Idle

LEMMA InitIInv == Init => IInv
BY DEF Init, IInv, TypeOK, Publishing, Claimed, Counted, GivenUpLast, Busy, Fresh, NoRow, RowType,
  DrainType, DrainPc, Idle

LEMMA NumberedIInv ==
  ASSUME IInv, NEW p \in Process, Numbered(p)
  PROVE  IInv'
<1>1. TypeOK'
  BY DEF IInv, TypeOK, RowType, DrainType, DrainPc, Claimed, Publishing, Busy, Numbered
<1>2. Publishing'
  BY DEF IInv, TypeOK, RowType, DrainType, DrainPc, Claimed, Publishing, Fresh, Busy, Numbered
<1>3. Claimed'
  BY DEF IInv, TypeOK, RowType, DrainType, DrainPc, Claimed, Publishing, Fresh, Busy, Numbered
<1>4. Counted'
  BY DEF IInv, TypeOK, RowType, DrainType, DrainPc, Claimed, Counted, GivenUpLast, Busy, Numbered
<1> QED
  BY <1>1, <1>2, <1>3, <1>4 DEF IInv

LEMMA AppendedIInv ==
  ASSUME IInv, NEW p \in Process, Appended(p)
  PROVE  IInv'
<1>1. TypeOK'
  BY DEF IInv, TypeOK, RowType, DrainType, DrainPc, Claimed, Publishing, Busy, Appended
<1>2. Publishing'
  BY DEF IInv, TypeOK, RowType, DrainType, DrainPc, Claimed, Publishing, Fresh, Busy, Appended
<1>3. Claimed'
  BY DEF IInv, TypeOK, RowType, DrainType, DrainPc, Claimed, Publishing, Fresh, Busy, Appended
<1>4. Counted'
  BY DEF IInv, TypeOK, RowType, DrainType, DrainPc, Claimed, Counted, GivenUpLast, Busy, Appended
<1> QED
  BY <1>1, <1>2, <1>3, <1>4 DEF IInv

LEMMA EnqueuedIInv ==
  ASSUME IInv, NEW p \in Process, Enqueued(p)
  PROVE  IInv'
<1>1. TypeOK'
  <2>1. row' \in [Event -> RowType]
    BY DEF IInv, TypeOK, RowType, Claimed, Publishing, Busy, Enqueued, NoRow
  <2> QED
    BY <2>1 DEF IInv, TypeOK, Enqueued, NoRow
<1>2. Publishing'
  BY DEF IInv, TypeOK, RowType, DrainType, DrainPc, Claimed, Publishing, Fresh, Busy, Enqueued, NoRow
<1>3. Claimed'
  BY DEF IInv, TypeOK, RowType, DrainType, DrainPc, Claimed, Publishing, Fresh, Busy, Enqueued, NoRow
<1>4. Counted'
  BY DEF IInv, TypeOK, RowType, DrainType, DrainPc, Claimed, Counted, GivenUpLast, Busy, Enqueued, NoRow
<1> QED
  BY <1>1, <1>2, <1>3, <1>4 DEF IInv

LEMMA TimerFiresIInv ==
  ASSUME IInv, NEW p \in Process, TimerFires(p)
  PROVE  IInv'
<1>1. TypeOK'
  <2>1. [Idle EXCEPT !.pc = "claim"] \in DrainType
    BY DEF DrainType, DrainPc, Idle
  <2>2. drain' \in [Process -> DrainType]
    BY <2>1 DEF IInv, TypeOK, TimerFires
  <2> QED
    BY <2>1, <2>2 DEF IInv, TypeOK, TimerFires, Idle
<1>2. Publishing'
  BY DEF IInv, TypeOK, RowType, DrainType, DrainPc, Claimed, Publishing, Fresh, Busy, TimerFires, Idle
<1>3. Claimed'
  BY DEF IInv, TypeOK, RowType, DrainType, DrainPc, Claimed, Publishing, Fresh, Busy, TimerFires, Idle
<1>4. Counted'
  BY DEF IInv, TypeOK, RowType, DrainType, DrainPc, Claimed, Counted, GivenUpLast, Busy, TimerFires, Idle
<1> QED
  BY <1>1, <1>2, <1>3, <1>4 DEF IInv

LEMMA ClaimsIInv ==
  ASSUME IInv, NEW p \in Process, NEW e \in Event, Claims(p, e)
  PROVE  IInv'
<1>1. TypeOK'
  <2>1. e \in Event
    BY DEF Claims
  <2>2. [row[e] EXCEPT !.owner = p, !.locked = TRUE] \in RowType
    BY RowChanges DEF IInv, TypeOK
  <2>3. row' \in [Event -> RowType]
    BY <2>1, <2>2 DEF IInv, TypeOK, Claims
  <2>4. row[e].attempts \in Nat /\ drain[p] \in DrainType
    BY <2>1 DEF IInv, TypeOK, RowType
  <2>5. [drain[p] EXCEPT !.pc = "send", !.event = e, !.attempts = row[e].attempts, !.late = FALSE] \in DrainType
    BY <2>1, <2>4, DrainClaims
  <2>6. drain' \in [Process -> DrainType]
    BY <2>5 DEF IInv, TypeOK, Claims
  <2> QED
    BY <2>1, <2>2, <2>3, <2>5, <2>6 DEF IInv, TypeOK, Claims, Claimable
<1>2. Publishing'
  BY DEF IInv, TypeOK, RowType, DrainType, DrainPc, Claimed, Publishing, Fresh, Busy, Claims, Claimable
<1>3. Claimed'
  BY DEF IInv, TypeOK, RowType, DrainType, DrainPc, Claimed, Publishing, Fresh, Busy, Claims, Claimable
<1>4. Counted'
  BY DEF IInv, TypeOK, RowType, DrainType, DrainPc, Claimed, Counted, GivenUpLast, Busy, Claims, Claimable
<1> QED
  BY <1>1, <1>2, <1>3, <1>4 DEF IInv

LEMMA ClaimsNoneIInv ==
  ASSUME IInv, NEW p \in Process, ClaimsNone(p)
  PROVE  IInv'
<1>1. TypeOK'
  BY DEF IInv, TypeOK, RowType, DrainType, DrainPc, Claimed, Publishing, Busy, ClaimsNone, Moves
<1>2. Publishing'
  BY DEF IInv, TypeOK, RowType, DrainType, DrainPc, Claimed, Publishing, Fresh, Busy, ClaimsNone, Moves
<1>3. Claimed'
  BY DEF IInv, TypeOK, RowType, DrainType, DrainPc, Claimed, Publishing, Fresh, Busy, ClaimsNone, Moves
<1>4. Counted'
  BY DEF IInv, TypeOK, RowType, DrainType, DrainPc, Claimed, Counted, GivenUpLast, Busy, ClaimsNone, Moves
<1> QED
  BY <1>1, <1>2, <1>3, <1>4 DEF IInv

LEMMA ReschedulesIInv ==
  ASSUME IInv, NEW p \in Process, Reschedules(p)
  PROVE  IInv'
<1>1. TypeOK'
  BY DEF IInv, TypeOK, RowType, DrainType, DrainPc, Claimed, Publishing, Busy, Reschedules, Idle
<1>2. Publishing'
  BY DEF IInv, TypeOK, RowType, DrainType, DrainPc, Claimed, Publishing, Fresh, Busy, Reschedules, Idle
<1>3. Claimed'
  BY DEF IInv, TypeOK, RowType, DrainType, DrainPc, Claimed, Publishing, Fresh, Busy, Reschedules, Idle
<1>4. Counted'
  BY DEF IInv, TypeOK, RowType, DrainType, DrainPc, Claimed, Counted, GivenUpLast, Busy, Reschedules, Idle
<1> QED
  BY <1>1, <1>2, <1>3, <1>4 DEF IInv

LEMMA DeliversIInv ==
  ASSUME IInv, NEW p \in Process, Delivers(p)
  PROVE  IInv'
<1>1. TypeOK'
  BY DEF IInv, TypeOK, RowType, DrainType, DrainPc, Claimed, Publishing, Busy, Delivers, Moves
<1>2. Publishing'
  BY DEF IInv, TypeOK, RowType, DrainType, DrainPc, Claimed, Publishing, Fresh, Busy, Delivers, Moves
<1>3. Claimed'
  BY DEF IInv, TypeOK, RowType, DrainType, DrainPc, Claimed, Publishing, Fresh, Busy, Delivers, Moves
<1>4. Counted'
  BY DEF IInv, TypeOK, RowType, DrainType, DrainPc, Claimed, Counted, GivenUpLast, Busy, Delivers, Moves
<1> QED
  BY <1>1, <1>2, <1>3, <1>4 DEF IInv

LEMMA DeliveryFailsIInv ==
  ASSUME IInv, NEW p \in Process, DeliveryFails(p)
  PROVE  IInv'
<1>1. TypeOK'
  BY DEF IInv, TypeOK, RowType, DrainType, DrainPc, Claimed, Publishing, Busy, DeliveryFails, Moves
<1>2. Publishing'
  BY DEF IInv, TypeOK, RowType, DrainType, DrainPc, Claimed, Publishing, Fresh, Busy, DeliveryFails, Moves
<1>3. Claimed'
  BY DEF IInv, TypeOK, RowType, DrainType, DrainPc, Claimed, Publishing, Fresh, Busy, DeliveryFails, Moves
<1>4. Counted'
  BY DEF IInv, TypeOK, RowType, DrainType, DrainPc, Claimed, Counted, GivenUpLast, Busy, DeliveryFails, Moves
<1> QED
  BY <1>1, <1>2, <1>3, <1>4 DEF IInv

LEMMA CompletesIInv ==
  ASSUME IInv, NEW p \in Process, Completes(p)
  PROVE  IInv'
<1>1. TypeOK'
  <2>1. row' \in [Event -> RowType]
    BY DEF IInv, TypeOK, RowType, Claimed, Publishing, Busy, Completes, Deleted, Processed, Idle, NoRow
  <2>2. drain[p].processed + 1 \in Nat
    BY DEF IInv, TypeOK, DrainType
  <2>3. [Idle EXCEPT !.pc = "claim", !.processed = drain[p].processed + 1] \in DrainType
    BY <2>2, DrainGoesOn
  <2>4. Idle \in DrainType
    BY DEF DrainType, DrainPc, Idle
  <2>5. drain' \in [Process -> DrainType]
    BY <2>3, <2>4 DEF IInv, TypeOK, Completes, Processed
  <2> QED
    BY <2>1, <2>3, <2>4, <2>5 DEF IInv, TypeOK, Completes, Deleted, Processed, Idle, NoRow
<1>2. Publishing'
  BY DEF IInv, TypeOK, RowType, DrainType, DrainPc, Claimed, Publishing, Fresh, Busy, Completes, Deleted, Processed, Idle, NoRow
<1>3. Claimed'
  BY DEF IInv, TypeOK, RowType, DrainType, DrainPc, Claimed, Publishing, Fresh, Busy, Completes, Deleted, Processed, Idle, NoRow
<1>4. Counted'
  BY DEF IInv, TypeOK, RowType, DrainType, DrainPc, Claimed, Counted, GivenUpLast, Busy, Completes, Deleted, Processed, Idle, NoRow
<1> QED
  BY <1>1, <1>2, <1>3, <1>4 DEF IInv

LEMMA BacksOffIInv ==
  ASSUME IInv, NEW p \in Process, BacksOff(p)
  PROVE  IInv'
<1>1. TypeOK'
  <2>1. drain[p].event \in Event
    BY DEF IInv, TypeOK, DrainType, DrainPc, Claimed, Busy, BacksOff
  <2>2. drain[p].attempts + 1 \in Nat
    BY DEF IInv, TypeOK, DrainType
  <2>3. [row[drain[p].event] EXCEPT !.attempts = drain[p].attempts + 1, !.due = FALSE,
              !.locked = FALSE, !.owner = None] \in RowType
    BY <2>1, <2>2, RowChanges DEF IInv, TypeOK, DrainType
  <2>4. row' \in [Event -> RowType]
    BY <2>1, <2>2, <2>3 DEF IInv, TypeOK, BacksOff
  <2>5. drain' \in [Process -> DrainType]
    BY DEF IInv, TypeOK, DrainType, DrainPc, BacksOff, Idle
  <2> QED
    BY <2>1, <2>2, <2>3, <2>4, <2>5 DEF IInv, TypeOK, BacksOff, Idle
<1>2. Publishing'
  BY DEF IInv, TypeOK, RowType, DrainType, DrainPc, Claimed, Publishing, Fresh, Busy, BacksOff, Idle
<1>3. Claimed'
  BY DEF IInv, TypeOK, RowType, DrainType, DrainPc, Claimed, Publishing, Fresh, Busy, BacksOff, Idle
<1>4. Counted'
  BY DEF IInv, TypeOK, RowType, DrainType, DrainPc, Claimed, Counted, GivenUpLast, Busy, BacksOff, Idle
<1> QED
  BY <1>1, <1>2, <1>3, <1>4 DEF IInv

LEMMA GivesUpIInv ==
  ASSUME IInv, NEW p \in Process, GivesUp(p)
  PROVE  IInv'
<1>1. TypeOK'
  BY DEF IInv, TypeOK, DrainType, DrainPc, GivesUp, Moves
<1>2. Publishing'
  BY DEF IInv, TypeOK, RowType, DrainType, DrainPc, Claimed, Publishing, Fresh, Busy, GivesUp, Moves
<1>3. Claimed'
  BY DEF IInv, TypeOK, RowType, DrainType, DrainPc, Claimed, Publishing, Fresh, Busy, GivesUp, Moves
<1>4. Counted'
  BY DEF IInv, TypeOK, RowType, DrainType, DrainPc, Claimed, Counted, GivenUpLast, Busy, GivesUp, Moves
<1> QED
  BY <1>1, <1>2, <1>3, <1>4 DEF IInv

LEMMA LetterAppendedIInv ==
  ASSUME IInv, NEW p \in Process, LetterAppended(p)
  PROVE  IInv'
<1>1. TypeOK'
  <2>1. drain[p].event \in Event
    BY DEF IInv, TypeOK, DrainType, DrainPc, Claimed, Busy, LetterAppended
  <2>2. drain' \in [Process -> DrainType]
    BY DEF IInv, TypeOK, DrainType, DrainPc, LetterAppended, Moves
  <2> QED
    BY <2>1, <2>2 DEF IInv, TypeOK, LetterAppended, Moves
<1>2. Publishing'
  BY DEF IInv, TypeOK, RowType, DrainType, DrainPc, Claimed, Publishing, Fresh, Busy, LetterAppended, Moves
<1>3. Claimed'
  BY DEF IInv, TypeOK, RowType, DrainType, DrainPc, Claimed, Publishing, Fresh, Busy, LetterAppended, Moves
<1>4. Counted'
  BY DEF IInv, TypeOK, RowType, DrainType, DrainPc, Claimed, Counted, GivenUpLast, Busy, LetterAppended, Moves
<1> QED
  BY <1>1, <1>2, <1>3, <1>4 DEF IInv

LEMMA FailureRecordedIInv ==
  ASSUME IInv, NEW p \in Process, FailureRecorded(p)
  PROVE  IInv'
<1>1. TypeOK'
  BY DEF IInv, TypeOK, RowType, DrainType, DrainPc, Claimed, Publishing, Busy, FailureRecorded, Moves
<1>2. Publishing'
  BY DEF IInv, TypeOK, RowType, DrainType, DrainPc, Claimed, Publishing, Fresh, Busy, FailureRecorded, Moves
<1>3. Claimed'
  BY DEF IInv, TypeOK, RowType, DrainType, DrainPc, Claimed, Publishing, Fresh, Busy, FailureRecorded, Moves
<1>4. Counted'
  BY DEF IInv, TypeOK, RowType, DrainType, DrainPc, Claimed, Counted, GivenUpLast, Busy, FailureRecorded, Moves
<1> QED
  BY <1>1, <1>2, <1>3, <1>4 DEF IInv

LEMMA DropsIInv ==
  ASSUME IInv, NEW p \in Process, Drops(p)
  PROVE  IInv'
<1>1. TypeOK'
  <2>1. row' \in [Event -> RowType]
    BY DEF IInv, TypeOK, RowType, Claimed, Publishing, Busy, Drops, Deleted, Processed, Idle, NoRow
  <2>2. drain[p].processed + 1 \in Nat
    BY DEF IInv, TypeOK, DrainType
  <2>3. [Idle EXCEPT !.pc = "claim", !.processed = drain[p].processed + 1] \in DrainType
    BY <2>2, DrainGoesOn
  <2>4. Idle \in DrainType
    BY DEF DrainType, DrainPc, Idle
  <2>5. drain' \in [Process -> DrainType]
    BY <2>3, <2>4 DEF IInv, TypeOK, Drops, Processed
  <2> QED
    BY <2>1, <2>3, <2>4, <2>5 DEF IInv, TypeOK, Drops, Deleted, Processed, Idle, NoRow
<1>2. Publishing'
  BY DEF IInv, TypeOK, RowType, DrainType, DrainPc, Claimed, Publishing, Fresh, Busy, Drops, Deleted, Processed, Idle, NoRow
<1>3. Claimed'
  BY DEF IInv, TypeOK, RowType, DrainType, DrainPc, Claimed, Publishing, Fresh, Busy, Drops, Deleted, Processed, Idle, NoRow
<1>4. Counted'
  BY DEF IInv, TypeOK, RowType, DrainType, DrainPc, Claimed, Counted, GivenUpLast, Busy, Drops, Deleted, Processed, Idle, NoRow
<1> QED
  BY <1>1, <1>2, <1>3, <1>4 DEF IInv

LEMMA ExitsIInv ==
  ASSUME IInv, NEW p \in Process, Exits(p)
  PROVE  IInv'
<1>1. TypeOK'
  BY DEF IInv, TypeOK, RowType, DrainType, DrainPc, Claimed, Publishing, Busy, Exits
<1>2. Publishing'
  BY DEF IInv, TypeOK, RowType, DrainType, DrainPc, Claimed, Publishing, Fresh, Busy, Exits
<1>3. Claimed'
  BY DEF IInv, TypeOK, RowType, DrainType, DrainPc, Claimed, Publishing, Fresh, Busy, Exits
<1>4. Counted'
  BY DEF IInv, TypeOK, RowType, DrainType, DrainPc, Claimed, Counted, GivenUpLast, Busy, Exits
<1> QED
  BY <1>1, <1>2, <1>3, <1>4 DEF IInv

LEMMA CrashIInv ==
  ASSUME IInv, NEW p \in Process, Crash(p)
  PROVE  IInv'
<1>1. TypeOK'
  <2>1. \A x \in Event : [row[x] EXCEPT !.owner = Gone] \in RowType
    BY RowChanges DEF IInv, TypeOK
  <2>2. row' \in [Event -> RowType]
    BY <2>1 DEF IInv, TypeOK, Orphaned, Crash
  <2>3. drain' \in [Process -> DrainType]
    BY DEF IInv, TypeOK, DrainType, DrainPc, Idle, Crash
  <2> QED
    BY <2>1, <2>2, <2>3 DEF IInv, TypeOK, Crash, Orphaned, Idle, Fault
<1>2. Publishing'
  BY DEF IInv, TypeOK, RowType, DrainType, DrainPc, Claimed, Publishing, Fresh, Busy, Crash, Orphaned, Idle, Fault
<1>3. Claimed'
  BY DEF IInv, TypeOK, RowType, DrainType, DrainPc, Claimed, Publishing, Fresh, Busy, Crash, Orphaned, Idle, Fault
<1>4. Counted'
  BY DEF IInv, TypeOK, RowType, DrainType, DrainPc, Claimed, Counted, GivenUpLast, Busy, Crash, Orphaned, Idle, Fault
<1> QED
  BY <1>1, <1>2, <1>3, <1>4 DEF IInv

LEMMA SuspendedIInv ==
  ASSUME IInv, NEW p \in Process, Suspended(p)
  PROVE  IInv'
<1>1. TypeOK'
  <2>1. drain[p].event \in Event
    BY DEF IInv, TypeOK, DrainType, DrainPc, Claimed, Busy, Suspended
  <2>2. [row[drain[p].event] EXCEPT !.locked = FALSE] \in RowType
    BY <2>1, RowChanges DEF IInv, TypeOK
  <2>3. row' \in [Event -> RowType]
    BY <2>1, <2>2 DEF IInv, TypeOK, Suspended, Fault
  <2>4. drain' \in [Process -> DrainType]
    BY DEF IInv, TypeOK, DrainType, DrainPc, Suspended, Fault
  <2> QED
    BY <2>1, <2>2, <2>3, <2>4 DEF IInv, TypeOK, Suspended, Fault
<1>2. Publishing'
  BY DEF IInv, TypeOK, RowType, DrainType, DrainPc, Claimed, Publishing, Fresh, Busy, Suspended, Fault
<1>3. Claimed'
  BY DEF IInv, TypeOK, RowType, DrainType, DrainPc, Claimed, Publishing, Fresh, Busy, Suspended, Fault
<1>4. Counted'
  BY DEF IInv, TypeOK, RowType, DrainType, DrainPc, Claimed, Counted, GivenUpLast, Busy, Suspended, Fault
<1> QED
  BY <1>1, <1>2, <1>3, <1>4 DEF IInv

LEMMA CompletionFailsIInv ==
  ASSUME IInv, NEW p \in Process, CompletionFails(p)
  PROVE  IInv'
<1>1. TypeOK'
  BY DEF IInv, TypeOK, RowType, DrainType, DrainPc, Claimed, Publishing, Busy, CompletionFails, Fault, Moves
<1>2. Publishing'
  BY DEF IInv, TypeOK, RowType, DrainType, DrainPc, Claimed, Publishing, Fresh, Busy, CompletionFails, Fault, Moves
<1>3. Claimed'
  BY DEF IInv, TypeOK, RowType, DrainType, DrainPc, Claimed, Publishing, Fresh, Busy, CompletionFails, Fault, Moves
<1>4. Counted'
  BY DEF IInv, TypeOK, RowType, DrainType, DrainPc, Claimed, Counted, GivenUpLast, Busy, CompletionFails, Fault, Moves
<1> QED
  BY <1>1, <1>2, <1>3, <1>4 DEF IInv

LEMMA DrainThrowsIInv ==
  ASSUME IInv, NEW p \in Process, DrainThrows(p)
  PROVE  IInv'
<1>1. TypeOK'
  <2>1. \A x \in Event : [row[x] EXCEPT !.owner = Gone] \in RowType
    BY RowChanges DEF IInv, TypeOK
  <2>2. row' \in [Event -> RowType]
    BY <2>1 DEF IInv, TypeOK, Orphaned, DrainThrows
  <2>3. drain' \in [Process -> DrainType]
    BY DEF IInv, TypeOK, DrainType, DrainPc, Idle, DrainThrows
  <2> QED
    BY <2>1, <2>2, <2>3 DEF IInv, TypeOK, DrainThrows, Orphaned, Idle, Fault
<1>2. Publishing'
  BY DEF IInv, TypeOK, RowType, DrainType, DrainPc, Claimed, Publishing, Fresh, Busy, DrainThrows, Orphaned, Idle, Fault
<1>3. Claimed'
  BY DEF IInv, TypeOK, RowType, DrainType, DrainPc, Claimed, Publishing, Fresh, Busy, DrainThrows, Orphaned, Idle, Fault
<1>4. Counted'
  BY DEF IInv, TypeOK, RowType, DrainType, DrainPc, Claimed, Counted, GivenUpLast, Busy, DrainThrows, Orphaned, Idle, Fault
<1> QED
  BY <1>1, <1>2, <1>3, <1>4 DEF IInv

LEMMA ComesDueIInv ==
  ASSUME IInv, NEW e \in Event, ComesDue(e)
  PROVE  IInv'
<1>1. TypeOK'
  <2>1. [row[e] EXCEPT !.due = TRUE] \in RowType
    BY RowChanges DEF IInv, TypeOK
  <2>2. row' \in [Event -> RowType]
    BY <2>1 DEF IInv, TypeOK, ComesDue
  <2> QED
    BY <2>1, <2>2 DEF IInv, TypeOK, ComesDue
<1>2. Publishing'
  BY DEF IInv, TypeOK, RowType, DrainType, DrainPc, Claimed, Publishing, Fresh, Busy, ComesDue
<1>3. Claimed'
  BY DEF IInv, TypeOK, RowType, DrainType, DrainPc, Claimed, Publishing, Fresh, Busy, ComesDue
<1>4. Counted'
  BY DEF IInv, TypeOK, RowType, DrainType, DrainPc, Claimed, Counted, GivenUpLast, Busy, ComesDue
<1> QED
  BY <1>1, <1>2, <1>3, <1>4 DEF IInv

LEMMA LockExpiresIInv ==
  ASSUME IInv, NEW e \in Event, LockExpires(e)
  PROVE  IInv'
<1>1. TypeOK'
  <2>1. [row[e] EXCEPT !.locked = FALSE] \in RowType
    BY RowChanges DEF IInv, TypeOK
  <2>2. row' \in [Event -> RowType]
    BY <2>1 DEF IInv, TypeOK, LockExpires
  <2> QED
    BY <2>1, <2>2 DEF IInv, TypeOK, LockExpires
<1>2. Publishing'
  BY DEF IInv, TypeOK, RowType, DrainType, DrainPc, Claimed, Publishing, Fresh, Busy, LockExpires
<1>3. Claimed'
  BY DEF IInv, TypeOK, RowType, DrainType, DrainPc, Claimed, Publishing, Fresh, Busy, LockExpires
<1>4. Counted'
  BY DEF IInv, TypeOK, RowType, DrainType, DrainPc, Claimed, Counted, GivenUpLast, Busy, LockExpires
<1> QED
  BY <1>1, <1>2, <1>3, <1>4 DEF IInv

LEMMA NextIInv ==
  ASSUME IInv, [Next]_vars
  PROVE  IInv'
<1>1. ASSUME NEW p \in Process, Numbered(p)
      PROVE  IInv'
  BY <1>1, NumberedIInv
<1>2. ASSUME NEW p \in Process, Appended(p)
      PROVE  IInv'
  BY <1>2, AppendedIInv
<1>3. ASSUME NEW p \in Process, Enqueued(p)
      PROVE  IInv'
  BY <1>3, EnqueuedIInv
<1>4. ASSUME NEW p \in Process, TimerFires(p)
      PROVE  IInv'
  BY <1>4, TimerFiresIInv
<1>5. ASSUME NEW p \in Process, NEW e \in Event, Claims(p, e)
      PROVE  IInv'
  BY <1>5, ClaimsIInv
<1>6. ASSUME NEW p \in Process, ClaimsNone(p)
      PROVE  IInv'
  BY <1>6, ClaimsNoneIInv
<1>7. ASSUME NEW p \in Process, Reschedules(p)
      PROVE  IInv'
  BY <1>7, ReschedulesIInv
<1>8. ASSUME NEW p \in Process, Delivers(p)
      PROVE  IInv'
  BY <1>8, DeliversIInv
<1>9. ASSUME NEW p \in Process, DeliveryFails(p)
      PROVE  IInv'
  BY <1>9, DeliveryFailsIInv
<1>10. ASSUME NEW p \in Process, Completes(p)
      PROVE  IInv'
  BY <1>10, CompletesIInv
<1>11. ASSUME NEW p \in Process, BacksOff(p)
      PROVE  IInv'
  BY <1>11, BacksOffIInv
<1>12. ASSUME NEW p \in Process, GivesUp(p)
      PROVE  IInv'
  BY <1>12, GivesUpIInv
<1>13. ASSUME NEW p \in Process, LetterAppended(p)
      PROVE  IInv'
  BY <1>13, LetterAppendedIInv
<1>14. ASSUME NEW p \in Process, FailureRecorded(p)
      PROVE  IInv'
  BY <1>14, FailureRecordedIInv
<1>15. ASSUME NEW p \in Process, Drops(p)
      PROVE  IInv'
  BY <1>15, DropsIInv
<1>16. ASSUME NEW p \in Process, Exits(p)
      PROVE  IInv'
  BY <1>16, ExitsIInv
<1>17. ASSUME NEW p \in Process, Crash(p)
      PROVE  IInv'
  BY <1>17, CrashIInv
<1>18. ASSUME NEW p \in Process, Suspended(p)
      PROVE  IInv'
  BY <1>18, SuspendedIInv
<1>19. ASSUME NEW p \in Process, CompletionFails(p)
      PROVE  IInv'
  BY <1>19, CompletionFailsIInv
<1>20. ASSUME NEW p \in Process, DrainThrows(p)
      PROVE  IInv'
  BY <1>20, DrainThrowsIInv
<1>21. ASSUME NEW e \in Event, ComesDue(e)
      PROVE  IInv'
  BY <1>21, ComesDueIInv
<1>22. ASSUME NEW e \in Event, LockExpires(e)
      PROVE  IInv'
  BY <1>22, LockExpiresIInv
<1>30. ASSUME UNCHANGED vars
      PROVE  IInv'
  BY <1>30 DEF IInv, TypeOK, Publishing, Claimed, Counted, GivenUpLast, Fresh, vars
<1> QED
  BY <1>1, <1>2, <1>3, <1>4, <1>5, <1>6, <1>7, <1>8, <1>9, <1>10, <1>11,
     <1>12, <1>13, <1>14, <1>15, <1>16, <1>17, <1>18, <1>19, <1>20, <1>21, <1>22, <1>30
     DEF Next, Publishes, Drains

\* The tables, the files and the local variables of every process keep their types.
THEOREM TypeCorrect == Spec => []TypeOK
<1>1. IInv => TypeOK
  BY DEF IInv
<1> QED
  BY InitIInv, NextIInv, <1>1, PTL DEF Spec

\* However many drains and processes there are, an event is given up only after
\* its delivery has failed maxRetries + 1 times.
THEOREM NeverGivenUpEarly == Spec => []GivenUpLast
<1>1. IInv => GivenUpLast
  BY DEF IInv, Counted
<1> QED
  BY InitIInv, NextIInv, <1>1, PTL DEF Spec

LEMMA InitPromise == Init => Promise!Init
BY DEF Init, Promise!Init, Kept, NoRow

\* Each step is one that Delivery allows, or changes nothing it is about.
LEMMA NextPromise ==
  ASSUME IInv, [Next]_vars
  PROVE  [Promise!Next]_Promise!vars
<1>1. ASSUME NEW p \in Process, Numbered(p)
      PROVE  [Promise!Next]_Promise!vars
  <2>1. UNCHANGED Promise!vars
    BY <1>1 DEF IInv, TypeOK, RowType, Promise!vars, Kept, Busy, Claimed, Numbered
  <2> QED
    BY <2>1
<1>2. ASSUME NEW p \in Process, Appended(p)
      PROVE  [Promise!Next]_Promise!vars
  <2>1. UNCHANGED Promise!vars
    BY <1>2 DEF IInv, TypeOK, RowType, Promise!vars, Kept, Busy, Claimed, Appended
  <2> QED
    BY <2>1
<1>3. ASSUME NEW p \in Process, Enqueued(p)
      PROVE  [Promise!Next]_Promise!vars
  <2>1. publish[p].event \in Event
    BY <1>3 DEF IInv, Publishing, Claimed, Busy, Enqueued
  <2>2. Promise!Accept(publish[p].event) \/ UNCHANGED Promise!vars
    BY <1>3, <2>1 DEF IInv, TypeOK, RowType, Publishing, Claimed, Busy, Fresh, Kept, Promise!vars,
       Promise!Accept, Enqueued, NoRow
  <2> QED
    BY <2>1, <2>2 DEF Promise!Next
<1>4. ASSUME NEW p \in Process, TimerFires(p)
      PROVE  [Promise!Next]_Promise!vars
  <2>1. UNCHANGED Promise!vars
    BY <1>4 DEF IInv, TypeOK, RowType, Promise!vars, Kept, Busy, Claimed, TimerFires, Idle
  <2> QED
    BY <2>1
<1>5. ASSUME NEW p \in Process, NEW e \in Event, Claims(p, e)
      PROVE  [Promise!Next]_Promise!vars
  <2>1. UNCHANGED Promise!vars
    BY <1>5 DEF IInv, TypeOK, RowType, Promise!vars, Kept, Busy, Claimed, Claims, Claimable
  <2> QED
    BY <2>1
<1>6. ASSUME NEW p \in Process, ClaimsNone(p)
      PROVE  [Promise!Next]_Promise!vars
  <2>1. UNCHANGED Promise!vars
    BY <1>6 DEF IInv, TypeOK, RowType, Promise!vars, Kept, Busy, Claimed, ClaimsNone, Moves
  <2> QED
    BY <2>1
<1>7. ASSUME NEW p \in Process, Reschedules(p)
      PROVE  [Promise!Next]_Promise!vars
  <2>1. UNCHANGED Promise!vars
    BY <1>7 DEF IInv, TypeOK, RowType, Promise!vars, Kept, Busy, Claimed, Reschedules, Idle
  <2> QED
    BY <2>1
<1>8. ASSUME NEW p \in Process, Delivers(p)
      PROVE  [Promise!Next]_Promise!vars
  <2>1. drain[p].event \in Event
    BY <1>8 DEF IInv, Publishing, Claimed, Busy, Delivers
  <2>2. Promise!Receive(drain[p].event) \/ UNCHANGED Promise!vars
    BY <1>8, <2>1 DEF IInv, TypeOK, RowType, Publishing, Claimed, Busy, Fresh, Kept, Promise!vars,
       Promise!Receive, Delivers, Moves
  <2> QED
    BY <2>1, <2>2 DEF Promise!Next
<1>9. ASSUME NEW p \in Process, DeliveryFails(p)
      PROVE  [Promise!Next]_Promise!vars
  <2>1. drain[p].event \in Event
    BY <1>9 DEF IInv, Publishing, Claimed, Busy, DeliveryFails
  <2>2. Promise!Receive(drain[p].event) \/ UNCHANGED Promise!vars
    BY <1>9, <2>1 DEF IInv, TypeOK, RowType, Publishing, Claimed, Busy, Fresh, Kept, Promise!vars,
       Promise!Receive, DeliveryFails, Moves
  <2> QED
    BY <2>1, <2>2 DEF Promise!Next
<1>10. ASSUME NEW p \in Process, Completes(p)
      PROVE  [Promise!Next]_Promise!vars
  <2>1. drain[p].event \in Event
    BY <1>10 DEF IInv, Publishing, Claimed, Busy, Completes
  <2>2. Promise!Settle(drain[p].event) \/ UNCHANGED Promise!vars
    BY <1>10, <2>1 DEF IInv, TypeOK, RowType, Publishing, Claimed, Busy, Fresh, Kept, Promise!vars,
       Promise!Settle, Completes, Deleted, Processed, Idle, NoRow
  <2> QED
    BY <2>1, <2>2 DEF Promise!Next
<1>11. ASSUME NEW p \in Process, BacksOff(p)
      PROVE  [Promise!Next]_Promise!vars
  <2>1. UNCHANGED Promise!vars
    BY <1>11 DEF IInv, TypeOK, RowType, Promise!vars, Kept, Busy, Claimed, BacksOff, Idle
  <2> QED
    BY <2>1
<1>12. ASSUME NEW p \in Process, GivesUp(p)
      PROVE  [Promise!Next]_Promise!vars
  <2>1. UNCHANGED Promise!vars
    BY <1>12 DEF IInv, TypeOK, RowType, Promise!vars, Kept, Busy, Claimed, GivesUp, Moves
  <2> QED
    BY <2>1
<1>13. ASSUME NEW p \in Process, LetterAppended(p)
      PROVE  [Promise!Next]_Promise!vars
  <2>1. UNCHANGED Promise!vars
    BY <1>13 DEF IInv, TypeOK, RowType, Promise!vars, Kept, Busy, Claimed, LetterAppended, Moves
  <2> QED
    BY <2>1
<1>14. ASSUME NEW p \in Process, FailureRecorded(p)
      PROVE  [Promise!Next]_Promise!vars
  <2>1. drain[p].event \in Event
    BY <1>14 DEF IInv, Publishing, Claimed, Busy, FailureRecorded
  <2>2. Promise!Fail(drain[p].event) \/ UNCHANGED Promise!vars
    BY <1>14, <2>1 DEF IInv, TypeOK, RowType, Publishing, Claimed, Busy, Fresh, Kept, Promise!vars,
       Promise!Fail, FailureRecorded, Moves
  <2> QED
    BY <2>1, <2>2 DEF Promise!Next
<1>15. ASSUME NEW p \in Process, Drops(p)
      PROVE  [Promise!Next]_Promise!vars
  <2>1. drain[p].event \in Event
    BY <1>15 DEF IInv, Publishing, Claimed, Busy, Drops
  <2>2. Promise!Settle(drain[p].event) \/ UNCHANGED Promise!vars
    BY <1>15, <2>1 DEF IInv, TypeOK, RowType, Publishing, Claimed, Busy, Fresh, Kept, Promise!vars,
       Promise!Settle, Drops, Deleted, Processed, Idle, NoRow
  <2> QED
    BY <2>1, <2>2 DEF Promise!Next
<1>16. ASSUME NEW p \in Process, Exits(p)
      PROVE  [Promise!Next]_Promise!vars
  <2>1. UNCHANGED Promise!vars
    BY <1>16 DEF IInv, TypeOK, RowType, Promise!vars, Kept, Busy, Claimed, Exits
  <2> QED
    BY <2>1
<1>17. ASSUME NEW p \in Process, Crash(p)
      PROVE  [Promise!Next]_Promise!vars
  <2>1. UNCHANGED Promise!vars
    BY <1>17 DEF IInv, TypeOK, RowType, Promise!vars, Kept, Busy, Claimed, Crash, Orphaned, Idle, Fault
  <2> QED
    BY <2>1
<1>18. ASSUME NEW p \in Process, Suspended(p)
      PROVE  [Promise!Next]_Promise!vars
  <2>1. UNCHANGED Promise!vars
    BY <1>18 DEF IInv, TypeOK, RowType, Promise!vars, Kept, Busy, Claimed, Suspended, Fault
  <2> QED
    BY <2>1
<1>19. ASSUME NEW p \in Process, CompletionFails(p)
      PROVE  [Promise!Next]_Promise!vars
  <2>1. UNCHANGED Promise!vars
    BY <1>19 DEF IInv, TypeOK, RowType, Promise!vars, Kept, Busy, Claimed, CompletionFails, Fault, Moves
  <2> QED
    BY <2>1
<1>20. ASSUME NEW p \in Process, DrainThrows(p)
      PROVE  [Promise!Next]_Promise!vars
  <2>1. UNCHANGED Promise!vars
    BY <1>20 DEF IInv, TypeOK, RowType, Promise!vars, Kept, Busy, Claimed, DrainThrows, Orphaned, Idle, Fault
  <2> QED
    BY <2>1
<1>21. ASSUME NEW e \in Event, ComesDue(e)
      PROVE  [Promise!Next]_Promise!vars
  <2>1. UNCHANGED Promise!vars
    BY <1>21 DEF IInv, TypeOK, RowType, Promise!vars, Kept, Busy, Claimed, ComesDue
  <2> QED
    BY <2>1
<1>22. ASSUME NEW e \in Event, LockExpires(e)
      PROVE  [Promise!Next]_Promise!vars
  <2>1. UNCHANGED Promise!vars
    BY <1>22 DEF IInv, TypeOK, RowType, Promise!vars, Kept, Busy, Claimed, LockExpires
  <2> QED
    BY <2>1
<1>30. ASSUME UNCHANGED vars
      PROVE  [Promise!Next]_Promise!vars
  BY <1>30 DEF vars, Promise!vars, Kept
<1> QED
  BY <1>1, <1>2, <1>3, <1>4, <1>5, <1>6, <1>7, <1>8, <1>9, <1>10, <1>11,
     <1>12, <1>13, <1>14, <1>15, <1>16, <1>17, <1>18, <1>19, <1>20, <1>21, <1>22, <1>30
     DEF Next, Publishes, Drains

\* The outbox implements Delivery: what it has accepted goes only when it has
\* been received or its failure is on record.
THEOREM Refinement == Spec => Implements
<1>1. ASSUME IInv, [Next]_vars
      PROVE  [Promise!Next]_Promise!vars
  BY <1>1, NextPromise
<1> QED
  BY InitIInv, NextIInv, InitPromise, <1>1, PTL DEF Spec, Implements, Promise!Spec

-----------------------------------------------------------------------------
(* One sender: a drain that is sending, and was not suspended, holds the lock *)
(* of its row.                                                               *)

SenderLocks ==
  \A p \in Process : \A e \in Event :
    Sending(p, e) => row[e].in /\ row[e].locked /\ row[e].owner = p

LEMMA InitSenderLocks == Init => SenderLocks
BY DEF Init, SenderLocks, Sending, Idle

LEMMA NextSenderLocks ==
  ASSUME IInv, SenderLocks, [Next]_vars
  PROVE  SenderLocks'
<1>1. ASSUME NEW p \in Process, Numbered(p)
      PROVE  SenderLocks'
  BY <1>1 DEF IInv, TypeOK, DrainType, SenderLocks, Sending, Numbered
<1>2. ASSUME NEW p \in Process, Appended(p)
      PROVE  SenderLocks'
  BY <1>2 DEF IInv, TypeOK, DrainType, SenderLocks, Sending, Appended
<1>3. ASSUME NEW p \in Process, Enqueued(p)
      PROVE  SenderLocks'
  BY <1>3 DEF IInv, TypeOK, RowType, SenderLocks, Sending, Enqueued, Publishing, Fresh, NoRow
<1>4. ASSUME NEW p \in Process, TimerFires(p)
      PROVE  SenderLocks'
  BY <1>4 DEF IInv, TypeOK, DrainType, SenderLocks, Sending, TimerFires, Idle
<1>5. ASSUME NEW p \in Process, NEW e \in Event, Claims(p, e)
      PROVE  SenderLocks'
  BY <1>5 DEF IInv, TypeOK, RowType, DrainType, SenderLocks, Sending, Claims, Claimable
<1>6. ASSUME NEW p \in Process, ClaimsNone(p)
      PROVE  SenderLocks'
  BY <1>6 DEF IInv, TypeOK, DrainType, SenderLocks, Sending, ClaimsNone, Moves
<1>7. ASSUME NEW p \in Process, Reschedules(p)
      PROVE  SenderLocks'
  BY <1>7 DEF IInv, TypeOK, DrainType, SenderLocks, Sending, Reschedules, Idle
<1>8. ASSUME NEW p \in Process, Delivers(p)
      PROVE  SenderLocks'
  BY <1>8 DEF IInv, TypeOK, DrainType, SenderLocks, Sending, Delivers, Moves
<1>9. ASSUME NEW p \in Process, DeliveryFails(p)
      PROVE  SenderLocks'
  BY <1>9 DEF IInv, TypeOK, DrainType, SenderLocks, Sending, DeliveryFails, Moves
<1>10. ASSUME NEW p \in Process, Completes(p)
      PROVE  SenderLocks'
  BY <1>10 DEF IInv, TypeOK, RowType, DrainType, SenderLocks, Sending, Completes, Deleted, Processed, Idle, Claimed, Busy
<1>11. ASSUME NEW p \in Process, BacksOff(p)
      PROVE  SenderLocks'
  BY <1>11 DEF IInv, TypeOK, RowType, DrainType, SenderLocks, Sending, BacksOff, Idle, Claimed, Busy
<1>12. ASSUME NEW p \in Process, GivesUp(p)
      PROVE  SenderLocks'
  BY <1>12 DEF IInv, TypeOK, DrainType, SenderLocks, Sending, GivesUp, Moves
<1>13. ASSUME NEW p \in Process, LetterAppended(p)
      PROVE  SenderLocks'
  BY <1>13 DEF IInv, TypeOK, DrainType, SenderLocks, Sending, LetterAppended, Moves
<1>14. ASSUME NEW p \in Process, FailureRecorded(p)
      PROVE  SenderLocks'
  BY <1>14 DEF IInv, TypeOK, DrainType, SenderLocks, Sending, FailureRecorded, Moves
<1>15. ASSUME NEW p \in Process, Drops(p)
      PROVE  SenderLocks'
  BY <1>15 DEF IInv, TypeOK, RowType, DrainType, SenderLocks, Sending, Drops, Deleted, Processed, Idle, Claimed, Busy
<1>16. ASSUME NEW p \in Process, Exits(p)
      PROVE  SenderLocks'
  BY <1>16 DEF IInv, TypeOK, DrainType, SenderLocks, Sending, Exits
<1>17. ASSUME NEW p \in Process, Crash(p)
      PROVE  SenderLocks'
  BY <1>17 DEF IInv, TypeOK, RowType, DrainType, SenderLocks, Sending, Crash, Orphaned, Idle, Fault
<1>18. ASSUME NEW p \in Process, Suspended(p)
      PROVE  SenderLocks'
  BY <1>18 DEF IInv, TypeOK, RowType, DrainType, SenderLocks, Sending, Suspended, Fault
<1>19. ASSUME NEW p \in Process, CompletionFails(p)
      PROVE  SenderLocks'
  BY <1>19 DEF IInv, TypeOK, DrainType, SenderLocks, Sending, CompletionFails, Fault, Moves
<1>20. ASSUME NEW p \in Process, DrainThrows(p)
      PROVE  SenderLocks'
  BY <1>20 DEF IInv, TypeOK, RowType, DrainType, SenderLocks, Sending, DrainThrows, Orphaned, Idle, Fault
<1>21. ASSUME NEW e \in Event, ComesDue(e)
      PROVE  SenderLocks'
  BY <1>21 DEF IInv, TypeOK, RowType, SenderLocks, Sending, ComesDue
<1>22. ASSUME NEW e \in Event, LockExpires(e)
      PROVE  SenderLocks'
  BY <1>22 DEF IInv, TypeOK, RowType, SenderLocks, Sending, LockExpires
<1>30. ASSUME UNCHANGED vars
      PROVE  SenderLocks'
  BY <1>30 DEF vars, SenderLocks, Sending
<1> QED
  BY <1>1, <1>2, <1>3, <1>4, <1>5, <1>6, <1>7, <1>8, <1>9, <1>10, <1>11, <1>12, <1>13, <1>14,
     <1>15, <1>16, <1>17, <1>18, <1>19, <1>20, <1>21, <1>22, <1>30
     DEF Next, Publishes, Drains

\* Two drains send one event at the same time only when one of them was suspended
\* for longer than its lock (outbox.ts:57): claimPendingDelivery takes no row that
\* is locked, and nobody unlocks the row of another drain that is alive.
THEOREM SendsAlone == Spec => []OneSender
<1>1. SenderLocks => OneSender
  BY DEF SenderLocks, OneSender
<1>2. ASSUME IInv, SenderLocks, [Next]_vars
      PROVE  SenderLocks'
  BY <1>2, NextSenderLocks
<1> QED
  BY InitIInv, NextIInv, InitSenderLocks, <1>1, <1>2, PTL DEF Spec

=================================================================================
