-------------------------------- MODULE Delivery --------------------------------
(***************************************************************************)
(* What the outbox promises of a notification: once accepted it is kept    *)
(* until its receiver has got it at least once or its failure is on        *)
(* record.  Outbox implements this.                                        *)
(***************************************************************************)
CONSTANT Event

VARIABLES
  kept,      \* the notifications that are accepted and not settled
  received,  \* those the receiver has got, at least once
  failed     \* those whose failure is on record

vars == <<kept, received, failed>>

Init == kept = {} /\ received = {} /\ failed = {}

Accept(e) == /\ e \notin kept \cup received \cup failed
             /\ kept' = kept \cup {e}
             /\ UNCHANGED <<received, failed>>

\* A duplicate may still arrive when the notification has been settled.
Receive(e) == /\ e \in kept \cup received \cup failed
              /\ received' = received \cup {e}
              /\ UNCHANGED <<kept, failed>>

Fail(e) == /\ e \in kept \cup received \cup failed
           /\ failed' = failed \cup {e}
           /\ UNCHANGED <<kept, received>>

Settle(e) == /\ e \in kept \cap (received \cup failed)
             /\ kept' = kept \ {e}
             /\ UNCHANGED <<received, failed>>

Next == \E e \in Event : Accept(e) \/ Receive(e) \/ Fail(e) \/ Settle(e)

Spec == Init /\ [][Next]_vars

=============================================================================
