------------------------------ MODULE FileLock ------------------------------
(***************************************************************************)
(* withFileLock (lock.ts), under which jobs run, are approved (run.lock)    *)
(* and have their Human Gates changed (gate.lock).  A process creates the   *)
(* lock file exclusively, writes its pid into it, and unlinks it in the     *)
(* end; whoever finds the file of a dead process moves it aside and removes *)
(* it.                                                                      *)
(*                                                                          *)
(* A Proc is one process that acquires the lock again and again until it    *)
(* dies; its pid is not used again.  A file is an inode, so that the name   *)
(* may change its file between two system calls.  A live process writes its *)
(* record within staleAfterMs of creating the file.                         *)
(***************************************************************************)
EXTENDS Naturals, FiniteSets

CONSTANTS
  Proc,
  Inode,      \* files: more than there are processes, so that one is free
  Retries,    \* options.retries
  None

ASSUME RetriesAssumption == Retries \in Nat
ASSUME InodeAssumption == Inode \subseteq Nat
ASSUME NoneAssumption == None \notin Proc \cup Inode
ASSUME NotAPid == Proc \cap {"nothing", "young", "old"} = {}

VARIABLES
  lock,      \* the file the lock's name stands for
  file,      \* who created each file, and whether the record is written
  pc,        \* where each process is
  handle,    \* the file it has open
  aside,     \* the file under its own `.stale.` name
  seen,      \* what staleLock has read
  attempt,   \* failed attempts, counted up to Retries
  current,   \* history: processes whose name still has the file they have read
  robbed     \* history: a file in use was moved aside in place of the one judged

vars == <<lock, file, pc, handle, aside, seen, attempt, current, robbed>>
history == <<current, robbed>>

Holding   == {"held", "unlink"}
Reclaims  == {"peek", "restore", "drop"}
Steps     == {"idle", "create", "write", "read", "judge", "rename"} \cup Holding \cup Reclaims
Lost      == {"failed", "dead"}

\* A record that does not parse is young or old by the time of its file.
Reading == Proc \cup {"nothing", "young", "old"}

TypeOK ==
  /\ lock \in Inode \cup {None}
  /\ file \in [Inode -> [owner : Proc \cup {None}, written : BOOLEAN]]
  /\ pc \in [Proc -> Steps \cup Lost]
  /\ handle \in [Proc -> Inode \cup {None}]
  /\ aside \in [Proc -> Inode \cup {None}]
  /\ seen \in [Proc -> Reading]
  /\ attempt \in [Proc -> 0 .. Retries]
  /\ current \subseteq Proc
  /\ robbed \in BOOLEAN

-----------------------------------------------------------------------------
(* Helpers *)

Goto(p, step) == pc' = [pc EXCEPT ![p] = step]

\* processAlive
Alive(p) == pc[p] # "dead"

Fresh(i) == i # lock /\ \A p \in Proc : i # handle[p] /\ i # aside[p]

\* p has created the file and not yet given it up.
Uses(p, i) == pc[p] \in {"write"} \cup Holding /\ handle[p] = i

\* Nobody will write this file's record any more.
Abandoned(i) == \A p \in Proc : ~(pc[p] = "write" /\ handle[p] = i)

\* Mutants: a file without a record is stale at any age; a dead process's file
\* is stale only after a time.
StaleIfEmpty(p) == seen[p] \in {"young", "old"} \/ (seen[p] \in Proc /\ ~Alive(seen[p]))
StaleIfOld(p)   == seen[p] = "old"

\* staleLock's verdict on what it has read.
Stale(p) == seen[p] = "old" \/ (seen[p] \in Proc /\ ~Alive(seen[p]))

\* The next round of the loop: at once after a reclaim, otherwise after a delay
\* unless the attempts are used up (E_LOCK_BUSY).
Counted(p)  == attempt' = [attempt EXCEPT ![p] = IF @ < Retries THEN @ + 1 ELSE @]
Continue(p) == Goto(p, "create") /\ Counted(p)
\* Mutant: the attempts are not limited.
WaitOn(p) == Continue(p)

Wait(p) == IF attempt[p] >= Retries
           THEN Goto(p, "idle") /\ UNCHANGED attempt
           ELSE Continue(p)

-----------------------------------------------------------------------------
(* Acquiring *)

Acquire(p) ==
  /\ pc[p] = "idle"
  /\ Goto(p, "create")
  /\ attempt' = [attempt EXCEPT ![p] = 0]
  /\ UNCHANGED <<lock, file, handle, aside, seen, history>>

\* open(file, "wx") succeeds.
Creates(p) ==
  /\ pc[p] = "create"
  /\ lock = None
  /\ \E i \in Inode :
       /\ Fresh(i) /\ \A k \in Inode : Fresh(k) => i <= k
       /\ lock' = i
       /\ file' = [file EXCEPT ![i] = [owner |-> p, written |-> FALSE]]
       /\ handle' = [handle EXCEPT ![p] = i]
  /\ Goto(p, "write")
  /\ UNCHANGED <<aside, seen, attempt, history>>

\* EEXIST
FindsFile(p) ==
  /\ pc[p] = "create"
  /\ lock # None
  /\ Goto(p, "read")
  /\ UNCHANGED <<lock, file, handle, aside, seen, attempt, history>>

Writes(p) ==
  /\ pc[p] = "write"
  /\ file' = [file EXCEPT ![handle[p]].written = TRUE]
  /\ Goto(p, "held")
  /\ UNCHANGED <<lock, handle, aside, seen, attempt, history>>

\* The record cannot be written: the call throws and leaves the empty file.
WriteFails(p) ==
  /\ pc[p] = "write"
  /\ Goto(p, "failed")
  /\ handle' = [handle EXCEPT ![p] = None]
  /\ UNCHANGED <<lock, file, aside, seen, attempt, history>>

-----------------------------------------------------------------------------
(* Reclaiming *)

\* staleLock reads the file.
Reads(p) ==
  /\ pc[p] = "read"
  /\ \E what \in Reading :
       /\ \/ lock = None /\ what = "nothing"
          \/ lock # None /\ file[lock].written /\ what = file[lock].owner
          \/ lock # None /\ ~file[lock].written /\ what = "young"
          \/ lock # None /\ ~file[lock].written /\ what = "old" /\ Abandoned(lock)
       /\ seen' = [seen EXCEPT ![p] = what]
  /\ current' = IF lock = None THEN current ELSE current \cup {p}
  /\ Goto(p, "judge")
  /\ UNCHANGED <<lock, file, handle, aside, attempt, robbed>>

\* processAlive of the pid it has read, which may have ended since.
Judges(p) ==
  /\ pc[p] = "judge"
  /\ IF Stale(p) THEN Goto(p, "rename") /\ UNCHANGED <<attempt, current>>
                 ELSE Wait(p) /\ current' = current \ {p}
  /\ seen' = [seen EXCEPT ![p] = "nothing"]
  /\ UNCHANGED <<lock, file, handle, aside, robbed>>

\* reclaimLock moves aside whatever has the name now.
MovesAside(p) ==
  /\ pc[p] = "rename"
  /\ IF lock = None
     THEN Continue(p) /\ UNCHANGED aside
     ELSE Goto(p, "peek") /\ aside' = [aside EXCEPT ![p] = lock] /\ UNCHANGED attempt
  /\ lock' = None
  /\ robbed' = (robbed \/ (p \notin current /\ \E q \in Proc : Uses(q, lock)))
  /\ current' = {}
  /\ UNCHANGED <<file, handle, seen>>

\* It looks again: the file may not be the one it has judged.
LooksAgain(p) ==
  /\ pc[p] = "peek"
  /\ Goto(p, IF file[aside[p]].written /\ Alive(file[aside[p]].owner) THEN "restore" ELSE "drop")
  /\ UNCHANGED <<lock, file, handle, aside, seen, attempt, history>>

\* rename replaces a file that has the name by now.
Restores(p) ==
  /\ pc[p] = "restore"
  /\ lock' = aside[p]
  /\ aside' = [aside EXCEPT ![p] = None]
  /\ Wait(p)
  /\ current' = {}
  /\ UNCHANGED <<file, handle, seen, robbed>>

Drops(p) ==
  /\ pc[p] = "drop"
  /\ aside' = [aside EXCEPT ![p] = None]
  /\ Continue(p)
  /\ UNCHANGED <<lock, file, handle, seen, history>>

-----------------------------------------------------------------------------
(* Releasing *)

\* The action has ended: the file is read, and unlinked if it has the own token.
Releases(p) ==
  /\ pc[p] = "held"
  /\ Goto(p, IF lock = handle[p] THEN "unlink" ELSE "idle")
  /\ handle' = [handle EXCEPT ![p] = IF lock = @ THEN @ ELSE None]
  /\ UNCHANGED <<lock, file, aside, seen, attempt, history>>

Unlinks(p) ==
  /\ pc[p] = "unlink"
  /\ lock' = None
  /\ handle' = [handle EXCEPT ![p] = None]
  /\ Goto(p, "idle")
  /\ current' = {}
  /\ UNCHANGED <<file, aside, seen, attempt, robbed>>

\* SIGKILL, or the end of a command that has released its lock.
Dies(p) ==
  /\ Alive(p)
  /\ Goto(p, "dead")
  /\ handle' = [handle EXCEPT ![p] = None]
  /\ aside' = [aside EXCEPT ![p] = None]
  /\ seen' = [seen EXCEPT ![p] = "nothing"]
  /\ attempt' = [attempt EXCEPT ![p] = 0]
  /\ current' = current \ {p}
  /\ UNCHANGED <<lock, file, robbed>>

-----------------------------------------------------------------------------
Init ==
  /\ lock = None
  /\ file = [i \in Inode |-> [owner |-> None, written |-> FALSE]]
  /\ pc = [p \in Proc |-> "idle"]
  /\ handle = [p \in Proc |-> None]
  /\ aside = [p \in Proc |-> None]
  /\ seen = [p \in Proc |-> "nothing"]
  /\ attempt = [p \in Proc |-> 0]
  /\ current = {}
  /\ robbed = FALSE

\* The steps of a call that is under way, up to the caller's action.
Acquiring(p) ==
  \/ Creates(p) \/ FindsFile(p) \/ Writes(p)
  \/ Reads(p) \/ Judges(p) \/ MovesAside(p) \/ LooksAgain(p) \/ Restores(p) \/ Drops(p)

Next ==
  \E p \in Proc : \/ Acquire(p) \/ Acquiring(p) \/ WriteFails(p)
                  \/ Releases(p) \/ Unlinks(p) \/ Dies(p)

Spec == Init /\ [][Next]_vars

\* A live process goes on with a call it has begun; what it does with the lock,
\* and whether it calls at all, is its own affair.
Fairness == \A p \in Proc : WF_vars(Acquiring(p))

FairSpec == Spec /\ Fairness

-----------------------------------------------------------------------------
(* Properties *)

Mutex == \A p, q \in Proc : pc[p] \in Holding /\ pc[q] \in Holding => p = q

\* Two processes are never both inside withFileLock's action (lock.ts:109-130),
\* whoever has ended, been killed or failed to write its record before, and
\* however many reclaim what it left: unless a reclaim, some time between its
\* look and its rename (lock.ts:58-62), was overtaken by others and so took the
\* file of a process that uses it.
ExclusiveUnlessRobbed == ~robbed => Mutex

\* A file that a dead process has left does not outlast the call of a process
\* that finds it (lock.ts:67, 117): nobody is told E_LOCK_BUSY for ever.
DeadLockGoes ==
  \A p \in Proc, i \in Inode :
    pc[p] = "create" /\ lock = i /\ file[i].written /\ ~Alive(file[i].owner)
      ~> lock # i \/ pc[p] \in Lost

\* Every call ends with the lock or with an error (lock.ts:106-126), although a
\* reclaim continues the loop without looking at the number of attempts.
CallsEnd == \A p \in Proc : pc[p] = "create" ~> pc[p] \in {"held", "idle"} \cup Lost

=============================================================================
