--------------------------- MODULE FileLockProofs ---------------------------
(***************************************************************************)
(* Proofs about FileLock, for any number of processes, files and retries:   *)
(* the types, and mutual exclusion across ends, deaths, failed writes and   *)
(* reclaims, as long as no reclaim has taken a file in use.                 *)
(***************************************************************************)
EXTENDS FileLock, TLAPS

\* p has created a file and not yet given it up.
Users == {q \in Proc : pc[q] \in {"write"} \cup Holding}

\* The file of a user is the one that has the name; one that has the name and a
\* record was written by its user, or by a process that has died.
NamedFile ==
  /\ \A q \in Users : lock = handle[q] /\ lock # None /\ file[lock].owner = q
  /\ \A q \in Users : file[lock].written <=> pc[q] # "write"
  /\ lock # None => /\ file[lock].owner \in Proc
                    /\ file[lock].written /\ Alive(file[lock].owner) => file[lock].owner \in Users

\* What a process that was not overtaken knows of the file that has the name.
Judgements ==
  \A p \in current :
    /\ pc[p] \in {"judge", "rename"} /\ lock # None
    /\ pc[p] = "judge" /\ seen[p] = "old" => Users = {}
    /\ pc[p] = "judge" /\ seen[p] \in Proc => file[lock].written /\ file[lock].owner = seen[p]
    /\ pc[p] = "rename" => Users = {}

\* What has been moved aside has no user, so that nothing is put back.
MovedAside ==
  \A p \in Proc :
    /\ pc[p] # "restore"
    /\ pc[p] = "peek" =>
         /\ aside[p] \in Inode /\ aside[p] # lock /\ file[aside[p]].owner \in Proc
         /\ ~(file[aside[p]].written /\ Alive(file[aside[p]].owner))

OwnInv == ~robbed => NamedFile /\ Judgements /\ MovedAside

LockInv == TypeOK /\ OwnInv

-----------------------------------------------------------------------------
\* The types hold at first and are kept by every step.
LEMMA TypesInit == Init => TypeOK
<1> SUFFICES ASSUME Init PROVE TypeOK
  OBVIOUS
<1>1. "idle" \in Steps /\ "nothing" \in Reading /\ 0 \in 0 .. Retries
  BY RetriesAssumption DEF Steps, Reading
<1> QED
  BY <1>1 DEF Init, TypeOK

LEMMA TypesStep == TypeOK /\ [Next]_vars => TypeOK'
<1> SUFFICES ASSUME TypeOK, [Next]_vars PROVE TypeOK'
  OBVIOUS
<1> USE RetriesAssumption, NoneAssumption DEF TypeOK, history
<1>1. CASE UNCHANGED vars
  BY <1>1 DEF vars
<1>2. CASE Next
  <2> PICK p \in Proc : \/ Acquire(p) \/ Acquiring(p) \/ WriteFails(p)
                        \/ Releases(p) \/ Unlinks(p) \/ Dies(p)
    BY <1>2 DEF Next
  <2> /\ Steps \cup Lost = {"idle", "create", "write", "read", "judge", "rename", "held", "unlink",
                           "peek", "restore", "drop", "failed", "dead"}
      /\ "nothing" \in Reading
    BY DEF Steps, Holding, Reclaims, Lost, Reading
  <2>1. CASE Acquire(p)
    BY <2>1 DEF Acquire, Goto
  <2>2. CASE Creates(p)
    BY <2>2 DEF Creates, Goto
  <2>3. CASE FindsFile(p)
    BY <2>3 DEF FindsFile, Goto
  <2>4. CASE Writes(p)
    <3>1. file' = [i \in Inode |-> IF i = handle[p] THEN [file[i] EXCEPT !.written = TRUE] ELSE file[i]]
      BY <2>4 DEF Writes
    <3>2. \A i \in Inode : [file[i] EXCEPT !.written = TRUE] \in [owner : Proc \cup {None}, written : BOOLEAN]
      <4> TAKE i \in Inode
      <4>1. file[i] \in [owner : Proc \cup {None}, written : BOOLEAN]
        OBVIOUS
      <4> QED
        BY <4>1
    <3>3. file' \in [Inode -> [owner : Proc \cup {None}, written : BOOLEAN]]
      BY <3>1, <3>2
    <3> QED
      BY <2>4, <3>3 DEF Writes, Goto
  <2>5. CASE WriteFails(p)
    BY <2>5 DEF WriteFails, Goto
  <2>6. CASE Reads(p)
    <3>1. seen' \in [Proc -> Reading]
      BY <2>6 DEF Reads
    <3>2. current' \subseteq Proc
      BY <2>6 DEF Reads
    <3> QED
      BY <2>6, <3>1, <3>2 DEF Reads, Goto
  <2>7. CASE Judges(p)
    BY <2>7 DEF Judges, Wait, Continue, Counted, Goto
  <2>8. CASE MovesAside(p)
    BY <2>8 DEF MovesAside, Continue, Counted, Goto
  <2>9. CASE LooksAgain(p)
    BY <2>9 DEF LooksAgain, Goto
  <2>10. CASE Restores(p)
    BY <2>10 DEF Restores, Wait, Continue, Counted, Goto
  <2>11. CASE Drops(p)
    BY <2>11 DEF Drops, Continue, Counted, Goto
  <2>12. CASE Releases(p)
    BY <2>12 DEF Releases, Goto
  <2>13. CASE Unlinks(p)
    BY <2>13 DEF Unlinks, Goto
  <2>14. CASE Dies(p)
    BY <2>14 DEF Dies, Goto
  <2> QED
    BY <2>1, <2>2, <2>3, <2>4, <2>5, <2>6, <2>7, <2>8, <2>9, <2>10, <2>11, <2>12, <2>13, <2>14
       DEF Acquiring
<1> QED
  BY <1>1, <1>2

\* Every state of the lock is well-formed (the variables of withFileLock).
THEOREM LockTypes == Spec => []TypeOK
  BY TypesInit, TypesStep, PTL DEF Spec

-----------------------------------------------------------------------------
\* The lock is free at first.
LEMMA OwnInit == Init => OwnInv
  BY DEF Init, OwnInv, NamedFile, Judgements, MovedAside, Users, Holding

LEMMA OwnStep == LockInv /\ TypeOK' /\ [Next]_vars => OwnInv'
<1> SUFFICES ASSUME LockInv, TypeOK', [Next]_vars, ~robbed' PROVE (NamedFile /\ Judgements /\ MovedAside)'
  BY DEF OwnInv
<1> USE NoneAssumption DEF LockInv
<1>0. ~robbed
  BY DEF Next, Acquire, Acquiring, Creates, FindsFile, Writes, WriteFails, Reads, Judges, MovesAside,
         LooksAgain, Restores, Drops, Releases, Unlinks, Dies, vars, history, TypeOK
<1>own. NamedFile /\ Judgements /\ MovedAside
  BY <1>0 DEF OwnInv
<1>type. /\ lock \in Inode \cup {None}
         /\ file \in [Inode -> [owner : Proc \cup {None}, written : BOOLEAN]]
         /\ pc \in [Proc -> Steps \cup Lost]
         /\ handle \in [Proc -> Inode \cup {None}]
         /\ aside \in [Proc -> Inode \cup {None}]
         /\ seen \in [Proc -> Reading]
         /\ current \subseteq Proc
  BY DEF TypeOK
<1>1. CASE UNCHANGED vars
  BY <1>own, <1>1 DEF vars, NamedFile, Judgements, MovedAside, Users, Alive
<1>2. CASE Next
  <2> PICK p \in Proc : \/ Acquire(p) \/ Acquiring(p) \/ WriteFails(p)
                        \/ Releases(p) \/ Unlinks(p) \/ Dies(p)
    BY <1>2 DEF Next
  <2> USE <1>type DEF NamedFile, Judgements, MovedAside, Users, Holding, Alive, Goto, history
  <2>1. CASE Acquire(p)
    BY <1>own, <2>1 DEF Acquire
  <2>2. CASE Creates(p)
    <3>1. PICK i \in Inode : /\ Fresh(i)
                             /\ lock' = i
                             /\ file' = [file EXCEPT ![i] = [owner |-> p, written |-> FALSE]]
                             /\ handle' = [handle EXCEPT ![p] = i]
      BY <2>2 DEF Creates
    <3>2. /\ lock = None
          /\ pc[p] = "create"
          /\ pc' = [pc EXCEPT ![p] = "write"]
          /\ UNCHANGED <<seen, aside, current>>
      BY <2>2 DEF Creates
    <3>3. current = {} /\ \A q \in Proc : pc[q] \notin {"write", "held", "unlink"}
      BY <1>own, <3>2
    <3>4. i # None /\ file'[i] = [owner |-> p, written |-> FALSE]
      BY <3>1
    <3>5. NamedFile'
      BY <3>1, <3>2, <3>3, <3>4
    <3>6. Judgements'
      BY <3>2, <3>3
    <3>7. \A q \in Proc : pc'[q] = "peek" => aside[q] # i /\ file'[aside[q]] = file[aside[q]]
      BY <1>own, <3>1, <3>2 DEF Fresh
    <3>8. MovedAside'
      BY <1>own, <3>1, <3>2, <3>7
    <3> QED
      BY <3>5, <3>6, <3>8
  <2>3. CASE FindsFile(p)
    BY <1>own, <2>3 DEF FindsFile
  <2>4. CASE Writes(p)
    <3>1. /\ lock = handle[p] /\ lock # None /\ lock \in Inode /\ file[lock].owner = p
          /\ \A q \in Proc : pc[q] \in {"write", "held", "unlink"} => q = p
      BY <1>own, <2>4 DEF Writes
    <3>2. /\ pc[p] = "write"
          /\ pc' = [pc EXCEPT ![p] = "held"]
          /\ file' = [file EXCEPT ![lock].written = TRUE]
          /\ UNCHANGED <<lock, handle, seen, aside, current>>
      BY <2>4, <3>1 DEF Writes
    <3>3. file'[lock].owner = p /\ file'[lock].written
      BY <3>1, <3>2
    <3>4. NamedFile'
      BY <1>own, <3>1, <3>2, <3>3
    <3>5. Judgements'
      BY <1>own, <3>1, <3>2, <3>3
    <3>6. \A q \in Proc : pc[q] = "peek" => file'[aside[q]] = file[aside[q]]
      BY <1>own, <3>2
    <3>7. MovedAside'
      BY <1>own, <3>2, <3>6
    <3> QED
      BY <3>4, <3>5, <3>7
  <2>5. CASE WriteFails(p)
    <3>1. /\ pc[p] = "write"
          /\ pc' = [pc EXCEPT ![p] = "failed"]
          /\ handle' = [handle EXCEPT ![p] = None]
          /\ UNCHANGED <<lock, file, aside, seen, current>>
      BY <2>5 DEF WriteFails
    <3> QED
      BY <1>own, <3>1
  <2>6. CASE Reads(p)
    BY <1>own, <2>6, NotAPid DEF Reads, Abandoned
  <2>7. CASE Judges(p)
    <3>1. /\ pc[p] = "judge"
          /\ seen' = [seen EXCEPT ![p] = "nothing"]
          /\ UNCHANGED <<lock, file, handle, aside>>
      BY <2>7 DEF Judges
    <3>2. CASE ~Stale(p)
      <4>1. /\ pc' = [pc EXCEPT ![p] = "idle"] \/ pc' = [pc EXCEPT ![p] = "create"]
            /\ current' = current \ {p}
        BY <2>7, <3>2 DEF Judges, Wait, Continue
      <4> QED
        BY <1>own, <3>1, <4>1
    <3>3. CASE Stale(p)
      <4>1. pc' = [pc EXCEPT ![p] = "rename"] /\ current' = current
        BY <2>7, <3>3 DEF Judges
      <4>2. p \in current => Users = {}
        <5> SUFFICES ASSUME p \in current, NEW q \in Proc, q \in Users PROVE FALSE
          OBVIOUS
        <5>1. file[lock].owner = q /\ pc[q] # "dead"
          BY <1>own
        <5>2. seen[p] \in Proc /\ pc[seen[p]] = "dead"
          BY <1>own, <3>1, <3>3 DEF Stale
        <5> QED
          BY <1>own, <3>1, <5>1, <5>2
      <4>3. NamedFile' /\ MovedAside'
        BY <1>own, <3>1, <4>1
      <4>4. Users' = Users
        BY <3>1, <4>1
      <4>5. Judgements'
        BY <1>own, <3>1, <4>1, <4>2, <4>4
      <4> QED
        BY <4>3, <4>5
    <3> QED
      BY <3>2, <3>3
  <2>8. CASE MovesAside(p)
    <3>1. /\ pc[p] = "rename" /\ lock' = None /\ current' = {}
          /\ UNCHANGED <<file, handle, seen>>
          /\ p \notin current => ~\E q \in Proc : Uses(q, lock)
      BY <2>8 DEF MovesAside
    <3>2. Users = {}
      BY <1>own, <3>1 DEF Uses
    <3>3. \/ pc' = [pc EXCEPT ![p] = "create"] /\ aside' = aside
          \/ /\ pc' = [pc EXCEPT ![p] = "peek"] /\ lock # None
             /\ aside' = [aside EXCEPT ![p] = lock]
      BY <2>8 DEF MovesAside, Continue
    <3>4. NamedFile'
      BY <3>1, <3>2, <3>3
    <3>5. Judgements'
      BY <3>1
    <3>6. CASE pc' = [pc EXCEPT ![p] = "create"] /\ aside' = aside
      BY <1>own, <3>1, <3>4, <3>5, <3>6
    <3>7. CASE /\ pc' = [pc EXCEPT ![p] = "peek"] /\ lock # None
               /\ aside' = [aside EXCEPT ![p] = lock]
      <4>1. ~(file[lock].written /\ file[lock].owner \in Proc /\ pc[file[lock].owner] # "dead")
        BY <1>own, <3>2, <3>7
      <4>2. \A q \in Proc : pc'[q] = IF q = p THEN "peek" ELSE pc[q]
        BY <3>7
      <4>3. file[lock].owner \in Proc
        BY <1>own, <3>7
      <4>4. file[lock].written => pc'[file[lock].owner] = "dead"
        BY <3>1, <4>1, <4>2, <4>3
      <4>5. aside'[p] = lock /\ \A q \in Proc : q # p => aside'[q] = aside[q]
        BY <3>7
      <4>6. ASSUME NEW q \in Proc, pc'[q] = "peek"
            PROVE  /\ aside'[q] \in Inode /\ aside'[q] # None
                   /\ file[aside'[q]].owner \in Proc
                   /\ ~(file[aside'[q]].written /\ pc'[file[aside'[q]].owner] # "dead")
        <5>1. CASE q = p
          BY <3>7, <4>3, <4>4, <4>5, <5>1
        <5>2. CASE q # p
          <6>1. /\ pc[q] = "peek" /\ aside'[q] = aside[q] /\ aside[q] \in Inode
                /\ file[aside[q]].owner \in Proc
                /\ ~(file[aside[q]].written /\ pc[file[aside[q]].owner] # "dead")
            BY <1>own, <4>2, <4>5, <4>6, <5>2
          <6> QED
            BY <3>1, <4>2, <6>1
        <5> QED
          BY <5>1, <5>2
      <4>7. MovedAside'
        BY <1>own, <3>1, <4>2, <4>6
      <4> QED
        BY <3>4, <3>5, <4>7
    <3> QED
      BY <3>3, <3>6, <3>7
  <2>9. CASE LooksAgain(p)
    BY <1>own, <2>9 DEF LooksAgain
  <2>10. CASE Restores(p)
    BY <1>own, <2>10 DEF Restores
  <2>11. CASE Drops(p)
    BY <1>own, <2>11 DEF Drops, Continue
  <2>12. CASE Releases(p)
    BY <1>own, <2>12 DEF Releases
  <2>13. CASE Unlinks(p)
    BY <1>own, <2>13 DEF Unlinks
  <2>14. CASE Dies(p)
    BY <1>own, <2>14 DEF Dies
  <2> QED
    BY <2>1, <2>2, <2>3, <2>4, <2>5, <2>6, <2>7, <2>8, <2>9, <2>10, <2>11, <2>12, <2>13, <2>14
       DEF Acquiring
<1> QED
  BY <1>1, <1>2

\* Two users would both have created the file that has the lock's name.
LEMMA UsersAreOne == LockInv => ExclusiveUnlessRobbed
  BY DEF LockInv, OwnInv, NamedFile, Users, ExclusiveUnlessRobbed, Mutex

\* No number of processes, no order of their system calls, no end or death and
\* no reclaim lets two of them into withFileLock's action, unless a reclaim has
\* taken a file in use for the one it had judged (lock.ts:58-62, 109-130).
THEOREM ExclusionHolds == Spec => []ExclusiveUnlessRobbed
<1>1. Init => LockInv
  BY TypesInit, OwnInit DEF LockInv
<1>2. LockInv /\ [Next]_vars => LockInv'
  BY TypesStep, OwnStep DEF LockInv
<1> QED
  BY <1>1, <1>2, UsersAreOne, PTL DEF Spec

=============================================================================
