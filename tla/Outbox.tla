--------------------------------- MODULE Outbox ---------------------------------
(***************************************************************************)
(* Notifications: publishEvent writes an event to events.ndjson and, when  *)
(* a webhook is subscribed to it, to the table delivery_outbox; the drains *)
(* of all processes of the workspace claim the rows and deliver them.      *)
(*                                                                         *)
(* Time is abstract: a claim's lock (130 s) is longer than a delivery may  *)
(* take (timeoutMs <= 120 s), so it expires only on a process that has     *)
(* died or was suspended.                                                  *)
(***************************************************************************)
EXTENDS Naturals

CONSTANTS
  Event,       \* the events, numbered: the id of a row is that of its event
  Subscribed,  \* the events that matchesWebhookFilters lets through
  Process,     \* the processes of the workspace
  Service,     \* those that run until they are stopped (cbx serve, ui, mcp)
  MaxRetries,  \* deliveryOptions(config).maxRetries
  Limit,       \* how many rows one drain settles (100)
  MaxFaults,   \* bounds the crashes, suspensions and errors
  None, Gone   \* no owner, and the owner of a drain that is no more

ASSUME OutboxAssumption ==
  /\ Event \subseteq Nat /\ Subscribed \subseteq Event /\ Service \subseteq Process
  /\ {MaxRetries, MaxFaults} \subseteq Nat /\ Limit \in Nat \ {0}
  /\ None # Gone /\ {None, Gone} \cap Process = {}

VARIABLES
  next,      \* the events up to this one have been published
  row,       \* delivery_outbox
  publish,   \* publishEvent of each process (eventChains: one at a time)
  drain,     \* flushDeliveries of each process (drainTasks: one at a time);
             \* late: its lock has expired while the process was suspended
  timer,     \* the processes with a scheduled drain
  alive,     \* the processes
  quit,      \* the processes one of whose drains has ended, by an error or at its
             \* limit, and set no timer for what is left
  received,  \* the events the receiver has got
  letters,   \* delivery-failures.ndjson
  failed,    \* delivery_failures
  tries,     \* how often the delivery of an event has failed
  faults     \* the faults so far

vars == <<next, row, publish, drain, timer, alive, quit, received, letters, failed, tries,
          faults>>

\* due: available_at has come.  locked: locked_until has not.
RowType  == [in : BOOLEAN, by : Process \cup {None}, due : BOOLEAN, locked : BOOLEAN,
             owner : Process \cup {None, Gone}, attempts : Nat]
NoRow    == [in |-> FALSE, by |-> None, due |-> FALSE, locked |-> FALSE, owner |-> None,
             attempts |-> 0]
DrainPc  == {"idle", "claim", "next", "send", "complete", "failed", "letter", "record", "drop"}
DrainType == [pc : DrainPc, event : Nat, attempts : Nat, processed : Nat, late : BOOLEAN]

TypeOK ==
  /\ next \in Nat
  /\ row \in [Event -> RowType]
  /\ publish \in [Process -> [pc : {"idle", "append", "enqueue"}, event : Nat]]
  /\ drain \in [Process -> DrainType]
  /\ timer \subseteq Process
  /\ alive \subseteq Process
  /\ quit \subseteq Process
  /\ received \subseteq Event
  /\ letters \subseteq Event
  /\ failed \subseteq Event
  /\ tries \in [Event -> Nat]
  /\ faults \in Nat

Idle == [pc |-> "idle", event |-> 0, attempts |-> 0, processed |-> 0,
         late |-> FALSE]

Init ==
  /\ next = 0
  /\ row = [e \in Event |-> NoRow]
  /\ publish = [p \in Process |-> [pc |-> "idle", event |-> 0]]
  /\ drain = [p \in Process |-> Idle]
  /\ timer = {}
  /\ alive = Process
  /\ quit = {}
  /\ received = {} /\ letters = {} /\ failed = {}
  /\ tries = [e \in Event |-> 0]
  /\ faults = 0

-----------------------------------------------------------------------------
(* publishEvent *)

\* nextEventSeq
Numbered(p) ==
  /\ p \in alive /\ publish[p].pc = "idle"
  /\ next + 1 \in Event
  /\ next' = next + 1
  /\ publish' = [publish EXCEPT ![p] = [pc |-> "append", event |-> next + 1]]
  /\ UNCHANGED <<row, drain, timer, alive, quit, received, letters, failed, tries, faults>>

\* The event is in events.ndjson; a webhook that is not subscribed ends it.
Appended(p) ==
  /\ publish[p].pc = "append"
  /\ publish' = [publish EXCEPT ![p].pc =
       IF publish[p].event \in Subscribed THEN "enqueue" ELSE "idle"]
  /\ UNCHANGED <<next, row, drain, timer, alive, quit, received, letters, failed, tries, faults>>

\* enqueueDelivery and scheduleDeliveryDrain
Enqueued(p) ==
  /\ publish[p].pc = "enqueue"
  /\ row' = [row EXCEPT ![publish[p].event] =
       [NoRow EXCEPT !.in = TRUE, !.by = p, !.due = TRUE]]
  /\ publish' = [publish EXCEPT ![p].pc = "idle"]
  /\ timer' = timer \cup {p}
  /\ UNCHANGED <<next, drain, alive, quit, received, letters, failed, tries, faults>>

-----------------------------------------------------------------------------
(* flushDeliveries *)

Moves(p, pc) == drain' = [drain EXCEPT ![p].pc = pc]

\* A timer that fires while the process drains already starts nothing.
TimerFires(p) ==
  /\ p \in timer
  /\ timer' = timer \ {p}
  /\ IF drain[p].pc = "idle" THEN drain' = [drain EXCEPT ![p] = [Idle EXCEPT !.pc = "claim"]]
                             ELSE UNCHANGED drain
  /\ UNCHANGED <<next, row, publish, alive, quit, received, letters, failed, tries, faults>>

\* Mutant: the lock is not looked at.
DueRows   == {e \in Event : row[e].in /\ row[e].due}
Claimable == {e \in Event : row[e].in /\ row[e].due /\ ~row[e].locked}

\* claimPendingDelivery: the first row that is due and not locked.
Claims(p, e) ==
  /\ drain[p].pc = "claim"
  /\ e \in Claimable /\ \A f \in Claimable : e <= f
  /\ row' = [row EXCEPT ![e] = [@ EXCEPT !.owner = p, !.locked = TRUE]]
  /\ drain' = [drain EXCEPT ![p] = [@ EXCEPT !.pc = "send", !.event = e,
                                           !.attempts = row[e].attempts, !.late = FALSE]]
  /\ UNCHANGED <<next, publish, timer, alive, quit, received, letters, failed, tries, faults>>

ClaimsNone(p) ==
  /\ drain[p].pc = "claim" /\ Claimable = {}
  /\ Moves(p, "next")
  /\ UNCHANGED <<next, row, publish, timer, alive, quit, received, letters, failed, tries, faults>>

\* nextPendingDeliveryAt: a timer is set for the next row, if there is one.
\* Mutant: no timer is set for the rows that are left.
Stops(p) ==
  /\ drain[p].pc = "next"
  /\ drain' = [drain EXCEPT ![p] = Idle]
  /\ UNCHANGED <<next, row, publish, timer, alive, quit, received, letters, failed, tries, faults>>
Reschedules(p) ==
  /\ drain[p].pc = "next"
  /\ timer' = IF \E e \in Event : row[e].in THEN timer \cup {p} ELSE timer
  /\ drain' = [drain EXCEPT ![p] = Idle]
  /\ UNCHANGED <<next, row, publish, alive, quit, received, letters, failed, tries, faults>>

\* deliverOnce: the receiver answers, or the delivery fails: an error, a bad
\* status or the timeout, whether or not the receiver has got it.
Delivers(p) ==
  /\ drain[p].pc = "send"
  /\ received' = received \cup {drain[p].event}
  /\ Moves(p, "complete")
  /\ UNCHANGED <<next, row, publish, timer, alive, quit, letters, failed, tries, faults>>

DeliveryFails(p) ==
  /\ drain[p].pc = "send"
  /\ \/ received' = received \cup {drain[p].event}
     \/ UNCHANGED received
  /\ tries' = [tries EXCEPT ![drain[p].event] = @ + 1]
  /\ Moves(p, "failed")
  /\ UNCHANGED <<next, row, publish, timer, alive, quit, letters, failed, faults>>

\* completeDelivery deletes the row if this drain still owns it.
Deleted(p) ==
  LET e == drain[p].event
  IN  row' = IF row[e].owner = p THEN [row EXCEPT ![e] = NoRow] ELSE row

\* One row more is settled; at the limit the drain ends, whatever is left.
Processed(p) ==
  LET n == drain[p].processed + 1
  IN  /\ drain' = [drain EXCEPT ![p] = IF n < Limit THEN [Idle EXCEPT !.pc = "claim", !.processed = n]
                                                 ELSE Idle]
      /\ quit' = IF n < Limit THEN quit ELSE quit \cup {p}

Completes(p) ==
  /\ drain[p].pc = "complete"
  /\ Deleted(p) /\ Processed(p)
  /\ UNCHANGED <<next, publish, timer, alive, received, letters, failed, tries, faults>>

\* rescheduleDelivery: the row waits for its next attempt, and so does the drain.
BacksOff(p) ==
  /\ drain[p].pc = "failed" /\ drain[p].attempts < MaxRetries
  /\ LET e == drain[p].event
     IN  row' = IF row[e].owner = p
                THEN [row EXCEPT ![e] = [@ EXCEPT !.attempts = drain[p].attempts + 1, !.due = FALSE,
                                                  !.locked = FALSE, !.owner = None]]
                ELSE row
  /\ timer' = timer \cup {p}
  /\ drain' = [drain EXCEPT ![p] = Idle]
  /\ UNCHANGED <<next, publish, alive, quit, received, letters, failed, tries, faults>>

\* Mutant: one attempt less.
GivesUpEarly(p) ==
  /\ drain[p].pc = "failed" /\ drain[p].attempts + 1 >= MaxRetries
  /\ Moves(p, "letter")
  /\ UNCHANGED <<next, row, publish, timer, alive, quit, received, letters, failed, tries, faults>>

\* After the last attempt the failure is put on record, and then the row goes.
\* Mutant: the row goes first.
DropsFirst(p) ==
  /\ drain[p].pc = "failed" /\ drain[p].attempts >= MaxRetries
  /\ Moves(p, "drop")
  /\ UNCHANGED <<next, row, publish, timer, alive, quit, received, letters, failed, tries, faults>>
GivesUp(p) ==
  /\ drain[p].pc = "failed" /\ drain[p].attempts >= MaxRetries
  /\ Moves(p, "letter")
  /\ UNCHANGED <<next, row, publish, timer, alive, quit, received, letters, failed, tries, faults>>

LetterAppended(p) ==
  /\ drain[p].pc = "letter"
  /\ letters' = letters \cup {drain[p].event}
  /\ Moves(p, "record")
  /\ UNCHANGED <<next, row, publish, timer, alive, quit, received, failed, tries, faults>>

FailureRecorded(p) ==
  /\ drain[p].pc = "record"
  /\ failed' = failed \cup {drain[p].event}
  /\ Moves(p, "drop")
  /\ UNCHANGED <<next, row, publish, timer, alive, quit, received, letters, tries, faults>>

Drops(p) ==
  /\ drain[p].pc = "drop"
  /\ Deleted(p) /\ Processed(p)
  /\ UNCHANGED <<next, publish, timer, alive, received, letters, failed, tries, faults>>

-----------------------------------------------------------------------------
(* Time, and the ends of processes *)

\* available_at comes.
ComesDue(e) ==
  /\ row[e].in /\ ~row[e].due
  /\ row' = [row EXCEPT ![e].due = TRUE]
  /\ UNCHANGED <<next, publish, drain, timer, alive, quit, received, letters, failed, tries, faults>>

\* locked_until comes for a drain that is no more.
LockExpires(e) ==
  /\ row[e].locked /\ row[e].owner = Gone
  /\ row' = [row EXCEPT ![e].locked = FALSE]
  /\ UNCHANGED <<next, publish, drain, timer, alive, quit, received, letters, failed, tries, faults>>

\* What a drain that ends leaves: its rows stay locked by an owner that is gone.
Orphaned(p) == [e \in Event |-> IF row[e].owner = p THEN [row[e] EXCEPT !.owner = Gone] ELSE row[e]]

\* A command has done its work.  Its timers do not keep the process.
Exits(p) ==
  /\ p \in alive \ Service
  /\ publish[p].pc = "idle" /\ drain[p].pc = "idle"
  /\ alive' = alive \ {p}
  /\ timer' = timer \ {p}
  /\ UNCHANGED <<next, row, publish, drain, quit, received, letters, failed, tries, faults>>

Fault == faults < MaxFaults /\ faults' = faults + 1

Crash(p) ==
  /\ Fault
  /\ p \in alive
  /\ alive' = alive \ {p}
  /\ row' = Orphaned(p)
  /\ publish' = [publish EXCEPT ![p].pc = "idle"]
  /\ drain' = [drain EXCEPT ![p] = Idle]
  /\ timer' = timer \ {p}
  /\ UNCHANGED <<next, quit, received, letters, failed, tries>>

\* A process is suspended until the lock of its row has expired.
Suspended(p) ==
  /\ Fault
  /\ drain[p].pc \notin {"idle", "claim", "next"}
  /\ LET e == drain[p].event
     IN  row' = IF row[e].owner = p THEN [row EXCEPT ![e].locked = FALSE] ELSE row
  /\ drain' = [drain EXCEPT ![p].late = TRUE]
  /\ UNCHANGED <<next, publish, timer, alive, quit, received, letters, failed, tries>>

\* The table is busy: a delivered event is treated as one that failed.
CompletionFails(p) ==
  /\ Fault
  /\ drain[p].pc = "complete"
  /\ tries' = [tries EXCEPT ![drain[p].event] = @ + 1]
  /\ Moves(p, "failed")
  /\ UNCHANGED <<next, row, publish, timer, alive, quit, received, letters, failed>>

\* Any other error ends the drain, and sets no timer.
DrainThrows(p) ==
  /\ Fault
  /\ drain[p].pc \in {"claim", "next", "failed", "letter", "record", "drop"}
  /\ row' = Orphaned(p)
  /\ drain' = [drain EXCEPT ![p] = Idle]
  /\ quit' = quit \cup {p}
  /\ UNCHANGED <<next, publish, timer, alive, received, letters, failed, tries>>

-----------------------------------------------------------------------------
Publishes(p) == Numbered(p) \/ Appended(p) \/ Enqueued(p)

Drains(p) ==
  \/ \E e \in Event : Claims(p, e)
  \/ ClaimsNone(p) \/ Reschedules(p) \/ Delivers(p) \/ DeliveryFails(p) \/ Completes(p)
  \/ BacksOff(p) \/ GivesUp(p) \/ LetterAppended(p) \/ FailureRecorded(p) \/ Drops(p)

Next ==
  \/ \E p \in Process :
       \/ Publishes(p) \/ TimerFires(p) \/ Drains(p)
       \/ Exits(p) \/ Crash(p) \/ Suspended(p) \/ CompletionFails(p) \/ DrainThrows(p)
  \/ \E e \in Event : ComesDue(e) \/ LockExpires(e)

\* A process goes on, its timers fire, and time passes.  Nobody has to publish,
\* and nothing has to fail.
Fairness ==
  /\ \A p \in Process : WF_vars(Appended(p) \/ Enqueued(p)) /\ WF_vars(TimerFires(p))
                        /\ WF_vars(Drains(p))
  /\ \A e \in Event : WF_vars(ComesDue(e)) /\ WF_vars(LockExpires(e))

Spec == Init /\ [][Next]_vars /\ Fairness

-----------------------------------------------------------------------------
(* Properties *)

Kept == {e \in Event : row[e].in}

\* The outbox keeps what Delivery promises: a row goes only when the receiver
\* has got the event or its failure is on record, whichever drains have claimed
\* it and whatever has died in between.
Promise == INSTANCE Delivery WITH kept <- Kept
Implements == Promise!Spec

\* Two drains deliver one event at the same time only when one of them was
\* suspended for longer than its lock.
Sending(p, e) == drain[p].pc \in {"send", "complete"} /\ drain[p].event = e /\ ~drain[p].late
OneSender ==
  \A e \in Event : \A p \in Process, q \in Process : Sending(p, e) /\ Sending(q, e) => p = q

\* An event is given up only after its delivery has failed maxRetries + 1 times,
\* by whichever drains and processes.
GivenUpLast == \A e \in letters : tries[e] > MaxRetries

\* What a service has put into the outbox leaves it, unless the service dies or
\* one of its drains has ended by an error or at its limit.
Settles ==
  \A e \in Event, p \in Service :
    row[e].in /\ row[e].by = p ~> ~row[e].in \/ p \in quit \/ p \notin alive

=============================================================================
