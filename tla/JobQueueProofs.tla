---------------------------- MODULE JobQueueProofs ----------------------------
(***************************************************************************)
(* Theorems about the job queue, for every set of jobs, entries, workers,  *)
(* dispatchers and clients, and every choice of commands and faults.       *)
(***************************************************************************)
EXTENDS JobQueue, FiniteSetTheorems, TLAPS

LEMMA EntryCardinality == \A S \in SUBSET Entry : Cardinality(S) \in Nat
BY FS_Subset, FS_CardinalityType, QueueAssumption DEF QueueAssumption

LEMMA RowTypes ==
  /\ NoRow \in Row
  /\ \A j \in Job \cup {None}, p \in Priority : NewRow(j, p) \in Row
BY QueueAssumption DEF QueueAssumption, NoRow, NewRow, Row, EntryStatus, Active, Finished

LEMMA IdleTypes ==
  /\ Idle \in DispRec
  /\ Gone \in WorkerRec
  /\ NoCommand \in ClientRec
BY RowTypes DEF Idle, DispRec, NoVerdict, Verdict, Gone, WorkerRec, NoCommand, ClientRec, Gate

LEMMA StatusTypes == \A s \in JobStatus : QueueStatusOf(s) \in EntryStatus \ {"queued", "running"}
BY DEF JobStatus, QueueStatusOf, EntryStatus, Active, Finished

LEMMA RowsStayTyped ==
  ASSUME TypeOK
  PROVE  /\ \A e \in Entry, s \in JobStatus : FinishRow(e, s) \in [Entry -> Row]
         /\ \A j, statuses : CancelRows(j, statuses) \in [Entry -> Row]
         /\ \A j : \A s \in {"done", "failed"} : ResolveRows(j, s) \in [Entry -> Row]
<1>1. \A e \in Entry, s \in JobStatus : FinishRow(e, s) \in [Entry -> Row]
  BY StatusTypes DEF TypeOK, FinishRow, Row
<1>2. \A j, statuses : CancelRows(j, statuses) \in [Entry -> Row]
  BY DEF TypeOK, CancelRows, Row, EntryStatus, Active, Finished
<1>3. \A j : \A s \in {"done", "failed"} : ResolveRows(j, s) \in [Entry -> Row]
  BY DEF TypeOK, ResolveRows, Row, EntryStatus, Active, Finished
<1> QED BY <1>1, <1>2, <1>3

LEMMA TypeInit == Init => TypeOK
<1> SUFFICES ASSUME Init PROVE TypeOK OBVIOUS
<1>1. job \in [Job -> JobRec]
  BY DEF Init, JobRec, JobStatus, Gate
<1>2. queue \in [Entry -> Row] /\ disp \in [Dispatcher -> DispRec]
  BY RowTypes, IdleTypes DEF Init
<1>3. worker \in [Worker -> WorkerRec] /\ client \in [Client -> ClientRec]
  BY IdleTypes DEF Init
<1> QED BY <1>1, <1>2, <1>3 DEF Init, TypeOK

LEMMA TypeDispatch ==
  ASSUME TypeOK, NEW d \in Dispatcher, Dispatch(d) \/ Abandon(d)
  PROVE  TypeOK'
<1> USE DEF TypeOK
<1>1. CASE Snapshot(d)
  <2>1. Unfinished(queue) \in [Entry -> Row]
    BY RowTypes DEF Unfinished
  <2>2. disp'[d] \in DispRec
    BY <1>1, <2>1, IdleTypes DEF Snapshot, DispRec
  <2> QED BY <1>1, <2>2 DEF Snapshot
<1>2. CASE Recon(d)
  <2>1. PICK e \in Unjudged(d), stale \in BOOLEAN, readable \in BOOLEAN :
          /\ disp' = [disp EXCEPT ![d].judged = @ \cup {e},
                        ![d].verdict[e] = IF stale THEN VerdictOn(disp[d].queue[e], readable) ELSE @]
          /\ IF Alive(disp[d].queue[e].pid) THEN job' = job
             ELSE \E left \in AfterKill(job[disp[d].queue[e].job].stray) :
                    job' = [job EXCEPT ![disp[d].queue[e].job].stray = left]
    BY <1>2 DEF Recon
  <2>2. e \in Entry
    BY DEF Unjudged, In
  <2>3. disp[d].queue[e] \in Row
    BY <2>2 DEF DispRec
  <2>4. VerdictOn(disp[d].queue[e], readable) \in Verdict
    BY <2>3, QueueAssumption DEF VerdictOn, Verdict, Row, QueueAssumption
  <2>5. disp' \in [Dispatcher -> DispRec]
    <3> DEFINE v == IF stale THEN VerdictOn(disp[d].queue[e], readable) ELSE disp[d].verdict[e]
    <3>1. disp[d] \in DispRec
      OBVIOUS
    <3>2. v \in Verdict
      BY <2>2, <2>4, <3>1 DEF DispRec
    <3>3. [disp[d].verdict EXCEPT ![e] = v] \in [Entry -> Verdict]
      BY <3>1, <3>2 DEF DispRec
    <3>4. disp[d].judged \cup {e} \in SUBSET Entry
      BY <2>2, <3>1 DEF DispRec
    <3>5. disp' = [disp EXCEPT ![d] = [disp[d] EXCEPT !.judged = @ \cup {e},
                                         !.verdict = [disp[d].verdict EXCEPT ![e] = v]]]
      BY <2>1, <3>1 DEF DispRec
    <3> HIDE DEF v
    <3>6. [disp[d] EXCEPT !.judged = @ \cup {e},
             !.verdict = [disp[d].verdict EXCEPT ![e] = v]] \in DispRec
      BY <3>1, <3>3, <3>4 DEF DispRec
    <3> QED BY <3>5, <3>6
  <2>6. job' \in [Job -> JobRec]
    <3>1. CASE Alive(disp[d].queue[e].pid)
      BY <2>1, <3>1
    <3>2. CASE ~Alive(disp[d].queue[e].pid)
      <4> DEFINE j == disp[d].queue[e].job
      <4>1. PICK left \in AfterKill(job[j].stray) : job' = [job EXCEPT ![j].stray = left]
        BY <2>1, <3>2
      <4>2. j \in Job => left \in BOOLEAN
        BY <4>1 DEF AfterKill, JobRec
      <4> HIDE DEF j
      <4> QED BY <4>1, <4>2 DEF JobRec
    <3> QED BY <3>1, <3>2
  <2> QED BY <1>2, <2>5, <2>6 DEF Recon
<1>3. CASE CountActive(d)
  <2> DEFINE alive == {e \in In(disp[d].queue, {"running"}) : Alive(disp[d].queue[e].pid)}
             n == Cardinality(alive) - Cardinality(Reclaimed(d))
  <2>2. n \in Int
    <3>1. Cardinality(alive) \in Nat
      BY EntryCardinality DEF In
    <3>2. Cardinality(Reclaimed(d)) \in Nat
      BY EntryCardinality DEF Reclaimed
    <3> QED BY <3>1, <3>2
  <2> HIDE DEF n
  <2>3. disp' = [disp EXCEPT ![d].pc = "spawn", ![d].active = IF n > 0 THEN n ELSE 0,
                             ![d].judged = {}]
    BY <1>3 DEF CountActive, n
  <2>4. disp' \in [Dispatcher -> DispRec]
    <3> DEFINE active == IF n > 0 THEN n ELSE 0
               r == [disp[d] EXCEPT !.pc = "spawn", !.active = active, !.judged = {}]
    <3>1. active \in Nat
      BY <2>2
    <3>2. disp' = [disp EXCEPT ![d] = r]
      BY <2>3
    <3> HIDE DEF active
    <3>3. disp[d] \in DispRec
      OBVIOUS
    <3>4. r \in DispRec
      BY <3>1, <3>3 DEF DispRec
    <3> QED BY <3>2, <3>4
  <2> QED BY <1>3, <2>4 DEF CountActive
<1>4. CASE Spawn(d)
  <2>1. PICK e \in Waiting(d), w \in Worker, ok \in BOOLEAN :
          /\ worker' = [worker EXCEPT ![w] = [pc |-> "spawned", job |-> disp[d].queue[e].job, entry |-> e]]
          /\ disp' = IF ok THEN [disp EXCEPT ![d].spawned[e] = w, ![d].active = @ + 1]
                           ELSE [disp EXCEPT ![d].failed = @ \cup {e}]
    BY <1>4 DEF Spawn
  <2>2. e \in Entry /\ disp[d].queue[e] \in Row
    BY DEF Waiting, In, DispRec
  <2>3. worker' \in [Worker -> WorkerRec]
    BY <2>1, <2>2 DEF WorkerRec, Row
  <2>4. disp' \in [Dispatcher -> DispRec]
    <3>1. disp[d] \in DispRec
      OBVIOUS
    <3>2. CASE ok
      <4> DEFINE r == [disp[d] EXCEPT !.spawned = [disp[d].spawned EXCEPT ![e] = w],
                                      !.active = disp[d].active + 1]
      <4>1. disp' = [disp EXCEPT ![d] = r]
        BY <2>1, <3>2
      <4>2. [disp[d].spawned EXCEPT ![e] = w] \in [Entry -> Worker \cup {None}]
        BY <2>2, <3>1 DEF DispRec
      <4>3. disp[d].active + 1 \in Nat
        BY <3>1 DEF DispRec
      <4>4. r \in DispRec
        BY <3>1, <4>2, <4>3 DEF DispRec
      <4> QED BY <4>1, <4>4
    <3>3. CASE ~ok
      <4> DEFINE r == [disp[d] EXCEPT !.failed = disp[d].failed \cup {e}]
      <4>1. disp' = [disp EXCEPT ![d] = r]
        BY <2>1, <3>3
      <4>2. r \in DispRec
        BY <2>2, <3>1 DEF DispRec
      <4> QED BY <4>1, <4>2
    <3> QED BY <3>2, <3>3
  <2> QED BY <1>4, <2>3, <2>4 DEF Spawn
<1>5. CASE Commit(d)
  <2>1. \A e \in Entry : AfterVerdict(d, queue[e], e) \in Row
    <3> SUFFICES ASSUME NEW e \in Entry PROVE AfterVerdict(d, queue[e], e) \in Row
      OBVIOUS
    <3>1. disp[d].verdict[e] \in Verdict
      BY DEF DispRec
    <3>2. queue[e] \in Row
      OBVIOUS
    <3> QED BY <3>1, <3>2 DEF AfterVerdict, Verdict, Row, EntryStatus, Active, Finished
  <2>2. \A e \in Entry : \A row \in Row : AfterSpawn(d, row, e) \in Row
    <3> SUFFICES ASSUME NEW e \in Entry, NEW row \in Row PROVE AfterSpawn(d, row, e) \in Row
      OBVIOUS
    <3>1. disp[d].spawned[e] \in Worker \cup {None}
      BY DEF DispRec
    <3> QED BY <3>1 DEF AfterSpawn, Row, EntryStatus, Active, Finished
  <2>3. Applied(d) \in [Entry -> Row]
    BY <2>1, <2>2 DEF Applied
  <2>4. Truncated(Applied(d)) \in [Entry -> Row]
    BY <2>3, RowTypes DEF Truncated
  <2> QED BY <1>5, <2>4, IdleTypes DEF Commit
<1>6. CASE Abandon(d)
  BY <1>6, IdleTypes DEF Abandon
<1> QED BY <1>1, <1>2, <1>3, <1>4, <1>5, <1>6 DEF Dispatch

LEMMA TypeWorker ==
  ASSUME TypeOK, NEW w \in Worker, WorkerStep(w) \/ WorkerBeats(w) \/ WorkerFault(w)
  PROVE  TypeOK'
<1> DEFINE j == worker[w].job
<1> USE DEF TypeOK
<1>1. worker[w] \in WorkerRec
  OBVIOUS
<1>2. ASSUME Exit(w)
      PROVE  worker' \in [Worker -> WorkerRec] /\ job' \in [Job -> JobRec]
  BY <1>2, IdleTypes DEF Exit, JobRec
<1>3. ASSUME NEW s \in JobStatus, NEW gate \in Gate, Record(w, s, gate)
      PROVE  TypeOK'
  <2>1. worker[w].entry \in Entry => queue' \in [Entry -> Row]
    BY <1>3, RowsStayTyped DEF Record
  <2>2. worker[w].entry \notin Entry => queue' \in [Entry -> Row]
    BY <1>3 DEF Record, FinishRow
  <2>3. job' \in [Job -> JobRec]
    <3> DEFINE g == IF gate = "none" THEN job[j].gate ELSE gate
               r == [job[j] EXCEPT !.status = s, !.gate = g]
    <3>1. job' = [job EXCEPT ![j] = r]
      BY <1>3 DEF Record, JobRec
    <3>2. j \in Job => job[j] \in JobRec /\ g \in Gate
      BY DEF JobRec
    <3> HIDE DEF g
    <3>3. j \in Job => r \in JobRec
      BY <3>2 DEF JobRec
    <3> HIDE DEF r
    <3> QED BY <3>1, <3>3
  <2>4. worker' \in [Worker -> WorkerRec]
    BY <1>1, <1>3 DEF Record, WorkerRec
  <2> QED BY <1>3, <2>1, <2>2, <2>3, <2>4 DEF Record
<1>4. CASE WorkerTurnedAway(w)
  BY <1>2, <1>4 DEF WorkerTurnedAway
<1>5. CASE WorkerAdmitted(w) \/ WorkerBegins(w) \/ WorkerReturns(w)
  <2>1. job' = job \/ job' = [job EXCEPT ![j].heartbeat = TRUE]
    BY <1>5 DEF WorkerAdmitted, WorkerBegins, WorkerReturns
  <2>3. job' \in [Job -> JobRec]
    <3>1. j \in Job => [job[j] EXCEPT !.heartbeat = TRUE] \in JobRec
      BY DEF JobRec
    <3>2. job' = job \/ job' = [job EXCEPT ![j] = [job[j] EXCEPT !.heartbeat = TRUE]]
      BY <2>1
    <3> QED BY <3>1, <3>2
  <2>2. worker' \in [Worker -> WorkerRec]
    BY <1>1, <1>5 DEF WorkerAdmitted, WorkerBegins, WorkerReturns, WorkerRec
  <2> QED BY <1>5, <2>2, <2>3 DEF WorkerAdmitted, WorkerBegins, WorkerReturns
<1>6. CASE WorkerSkips(w)
  <2>1. PICK s \in {"cancelled", "failed"} : queue' = FinishRow(worker[w].entry, s)
    BY <1>6 DEF WorkerSkips
  <2>2. queue' \in [Entry -> Row]
    <3>1. CASE worker[w].entry \in Entry
      BY <2>1, <3>1, RowsStayTyped DEF JobStatus
    <3>2. CASE worker[w].entry \notin Entry
      BY <2>1, <3>2 DEF FinishRow
    <3> QED BY <3>1, <3>2
  <2>3. worker' \in [Worker -> WorkerRec]
    BY <1>1, <1>6 DEF WorkerSkips, WorkerRec
  <2> QED BY <1>6, <2>2, <2>3 DEF WorkerSkips
<1>7. CASE WorkerRuns(w)
  <2>1. job' \in [Job -> JobRec]
    <3>1. job' = [job EXCEPT ![j] = [job[j] EXCEPT !.status = "running"]]
      BY <1>7 DEF WorkerRuns
    <3>2. j \in Job => [job[j] EXCEPT !.status = "running"] \in JobRec
      BY DEF JobRec, JobStatus
    <3> QED BY <3>1, <3>2
  <2>2. worker' \in [Worker -> WorkerRec]
    BY <1>1, <1>7 DEF WorkerRuns, WorkerRec
  <2> QED BY <1>7, <2>1, <2>2 DEF WorkerRuns
<1>8. CASE WorkerFinishes(w)
  <2>1. PICK s \in Outcomes, gate \in Gate : Record(w, s, gate)
    BY <1>8 DEF WorkerFinishes
  <2>2. s \in JobStatus
    BY QueueAssumption DEF QueueAssumption
  <2> QED BY <1>3, <2>1, <2>2
<1>15. CASE WorkerGoesOn(w)
  <2>1. job' \in [Job -> JobRec]
    <3>1. job' = [job EXCEPT ![j] = [job[j] EXCEPT !.status = "needs_fix"]]
      BY <1>15 DEF WorkerGoesOn
    <3>2. j \in Job => [job[j] EXCEPT !.status = "needs_fix"] \in JobRec
      BY DEF JobRec, JobStatus
    <3> QED BY <3>1, <3>2
  <2>2. queue' = FinishRow(worker[w].entry, "needs_fix")
    BY <1>15 DEF WorkerGoesOn
  <2>3. queue' \in [Entry -> Row]
    <3>1. CASE worker[w].entry \in Entry
      BY <2>2, <3>1, RowsStayTyped DEF JobStatus
    <3>2. CASE worker[w].entry \notin Entry
      BY <2>2, <3>2 DEF FinishRow
    <3> QED BY <3>1, <3>2
  <2> QED BY <1>15, <2>1, <2>3 DEF WorkerGoesOn
<1>9. CASE WorkerSeesCancel(w) \/ WorkerAsks(w)
  <2>1. Record(w, "cancelled", "none") \/ Record(w, "awaiting_approval", "before_run")
    BY <1>9 DEF WorkerSeesCancel, WorkerAsks
  <2>2. {"cancelled", "awaiting_approval"} \subseteq JobStatus /\ {"none", "before_run"} \subseteq Gate
    BY DEF JobStatus, Gate
  <2> QED BY <1>3, <2>1, <2>2
<1>10. CASE WorkerBeats(w)
  <2>1. job' = [job EXCEPT ![j] = [job[j] EXCEPT !.heartbeat = TRUE]]
    BY <1>10 DEF WorkerBeats
  <2>2. j \in Job => [job[j] EXCEPT !.heartbeat = TRUE] \in JobRec
    BY DEF JobRec
  <2>3. job' \in [Job -> JobRec]
    BY <2>1, <2>2
  <2> QED BY <1>10, <2>3 DEF WorkerBeats
<1>11. CASE WorkerExits(w)
  BY <1>2, <1>11 DEF WorkerExits
<1>12. CASE WorkerThrows(w)
  BY <1>2, <1>12 DEF WorkerThrows
<1>13. CASE WorkerStillborn(w)
  BY <1>13, IdleTypes DEF WorkerStillborn
<1>14. CASE WorkerCrashes(w)
  <2>1. job' \in [Job -> JobRec]
    <3> DEFINE left == job[j].stray \/ worker[w].pc = "running"
    <3>1. job' = [job EXCEPT ![j] = [job[j] EXCEPT !.stray = left]]
      BY <1>14 DEF WorkerCrashes
    <3>2. left \in BOOLEAN
      OBVIOUS
    <3> HIDE DEF left
    <3>3. j \in Job => [job[j] EXCEPT !.stray = left] \in JobRec
      BY <3>2 DEF JobRec
    <3> QED BY <3>1, <3>3
  <2> QED BY <1>14, <2>1, IdleTypes DEF WorkerCrashes
<1> QED
  BY <1>4, <1>5, <1>6, <1>7, <1>8, <1>9, <1>10, <1>11, <1>12, <1>13, <1>14, <1>15
     DEF WorkerStep, WorkerFault

LEMMA TypeClient ==
  ASSUME TypeOK, NEW k \in Client, Command(k)
  PROVE  TypeOK'
<1> USE DEF TypeOK
<1>1. client[k] \in ClientRec
  OBVIOUS
<1>2. NoCommand \in ClientRec
  BY IdleTypes
<1>3. \A p \in Priority : NewRow(client[k].job, p) \in Row
  BY <1>1, RowTypes DEF ClientRec
<1>4. \A statuses : CancelRows(client[k].job, statuses) \in [Entry -> Row]
  BY RowsStayTyped
<1>5. ASSUME NEW j \in Job, Prepare(k, j)
      PROVE  job' \in [Job -> JobRec] /\ client' \in [Client -> ClientRec]
  <2>1. [job[j] EXCEPT !.marker = FALSE, !.gate = "none"] \in JobRec
    BY DEF JobRec, Gate
  <2>2. [client[k] EXCEPT !.pc = "start", !.job = j] \in ClientRec
    BY <1>1 DEF ClientRec
  <2>3. /\ job' = [job EXCEPT ![j] = [job[j] EXCEPT !.marker = FALSE, !.gate = "none"]]
        /\ client' = [client EXCEPT ![k] = [client[k] EXCEPT !.pc = "start", !.job = j]]
    BY <1>1, <1>5 DEF Prepare, ClientRec, JobRec
  <2> QED BY <2>1, <2>2, <2>3
<1>16. CASE Start(k)
  BY <1>5, <1>16 DEF Start
<1>17. CASE ApproveReads(k)
  <2>1. PICK j \in Job : client' = [client EXCEPT ![k].pc = "approve", ![k].job = j, ![k].gate = job[j].gate]
    BY <1>17 DEF ApproveReads
  <2> DEFINE gate == job[j].gate
             r == [client[k] EXCEPT !.pc = "approve", !.job = j, !.gate = gate]
  <2>2. client' = [client EXCEPT ![k] = r]
    BY <1>1, <2>1 DEF ClientRec
  <2>3. gate \in Gate
    BY DEF JobRec
  <2> HIDE DEF gate
  <2>4. r \in ClientRec
    BY <1>1, <2>3 DEF ClientRec
  <2> QED BY <1>17, <2>2, <2>4 DEF ApproveReads
<1>18. CASE ApproveWrites(k)
  <2> DEFINE j == client[k].job
             first == client[k].gate = "before_run"
  <2>1. PICK s \in {"queued", "done", "needs_fix", "failed"} :
          /\ queue' = ResolveRows(j, IF s \in {"queued", "done"} THEN "done" ELSE "failed")
          /\ job' = [job EXCEPT ![j].status = s, ![j].gate = "none", ![j].approved = @ \/ first]
    BY <1>18 DEF ApproveWrites
  <2>2. queue' \in [Entry -> Row]
    BY <2>1, RowsStayTyped
  <2>3. job' \in [Job -> JobRec]
    <3> DEFINE approved == job[j].approved \/ first
               r == [job[j] EXCEPT !.status = s, !.gate = "none", !.approved = approved]
    <3>1. job' = [job EXCEPT ![j] = r]
      BY <2>1 DEF JobRec
    <3>2. approved \in BOOLEAN /\ s \in JobStatus /\ "none" \in Gate
      BY DEF JobStatus, Gate
    <3> HIDE DEF approved
    <3>3. j \in Job => r \in JobRec
      BY <3>2 DEF JobRec
    <3> HIDE DEF r
    <3> QED BY <3>1, <3>3
  <2>4. client' \in [Client -> ClientRec]
    <3>1. j \in Job
      BY <1>1, <1>18 DEF ApproveWrites, ClientRec
    <3>2. [NoCommand EXCEPT !.pc = "launch", !.job = j] \in ClientRec
      BY <1>2, <3>1 DEF ClientRec
    <3> QED BY <1>2, <1>18, <3>2 DEF ApproveWrites
  <2> QED BY <1>18, <2>2, <2>3, <2>4 DEF ApproveWrites
<1>19. CASE Launch(k)
  <2>1. client[k].job \in Job
    BY <1>1, <1>19 DEF Launch, ClientRec
  <2>2. job' \in [Job -> JobRec] /\ client' \in [Client -> ClientRec]
    BY <1>2, <1>5, <1>19, <2>1 DEF Launch
  <2> QED BY <1>19, <2>2 DEF Launch
<1>6. CASE Enqueue(k)
  <2>1. queue' \in [Entry -> Row] /\ nextId' \in Nat
    BY <1>3, <1>6 DEF Enqueue
  <2> QED BY <1>2, <1>6, <2>1 DEF Enqueue
<1>7. CASE CancelReads(k)
  <2>1. PICK j \in Job : client' = [client EXCEPT ![k] = [NoCommand EXCEPT
          !.pc = "mark", !.job = j, !.stray = job[j].status = "running",
          !.pids = {queue[e].pid : e \in {f \in In(queue, {"running"}) : queue[f].job = j}} \cap Worker]]
    BY <1>7 DEF CancelReads
  <2> DEFINE pids == {queue[e].pid : e \in {f \in In(queue, {"running"}) : queue[f].job = j}} \cap Worker
             stray == job[j].status = "running"
             r == [NoCommand EXCEPT !.pc = "mark", !.job = j, !.stray = stray, !.pids = pids]
  <2>2. pids \in SUBSET Worker /\ stray \in BOOLEAN
    OBVIOUS
  <2> HIDE DEF pids, stray
  <2>3. r \in ClientRec
    BY <1>2, <2>2 DEF ClientRec
  <2>4. client' = [client EXCEPT ![k] = r]
    BY <2>1 DEF pids, stray
  <2> QED BY <1>7, <2>3, <2>4 DEF CancelReads
<1>8. CASE CancelMarks(k)
  <2>1. job' \in [Job -> JobRec]
    BY <1>8 DEF CancelMarks, JobRec
  <2>2. [client[k] EXCEPT !.pc = "dequeue"] \in ClientRec
    BY <1>1, <1>8 DEF CancelMarks, ClientRec
  <2> QED BY <1>8, <2>1, <2>2 DEF CancelMarks
<1>9. CASE CancelDequeues(k)
  <2>1. [client[k] EXCEPT !.pc = "kill"] \in ClientRec
    BY <1>1, <1>9 DEF CancelDequeues, ClientRec
  <2>2. queue' = CancelRows(client[k].job, Active) \/ queue' = queue
    BY <1>9 DEF CancelDequeues
  <2> QED BY <1>4, <1>9, <2>1, <2>2 DEF CancelDequeues
<1>10. CASE CancelKills(k)
  <2> DEFINE j == client[k].job
  <2>1. PICK killed \in BOOLEAN, exited \in BOOLEAN, left \in BOOLEAN :
          /\ worker' = IF killed THEN [w \in Worker |-> IF w \in client[k].pids THEN Gone ELSE worker[w]]
                                 ELSE worker
          /\ client' = [client EXCEPT ![k].pc = "load", ![k].pids = {}, ![k].survivors = ~(killed /\ exited)]
          /\ job' = [job EXCEPT ![j].stray = (@ /\ ~client[k].stray) \/ left]
    BY <1>10 DEF CancelKills
  <2>2. worker' \in [Worker -> WorkerRec]
    BY <2>1, IdleTypes
  <2>3. client' \in [Client -> ClientRec]
    <3> DEFINE survivors == ~(killed /\ exited)
               r == [client[k] EXCEPT !.pc = "load", !.pids = {}, !.survivors = survivors]
    <3>1. client' = [client EXCEPT ![k] = r]
      BY <1>1, <2>1 DEF ClientRec
    <3>2. survivors \in BOOLEAN
      OBVIOUS
    <3> HIDE DEF survivors
    <3>3. j \in Job
      BY <1>1, <1>10 DEF CancelKills, ClientRec
    <3>4. r \in ClientRec
      BY <1>1, <3>2, <3>3 DEF ClientRec
    <3> QED BY <3>1, <3>4
  <2>4. job' \in [Job -> JobRec]
    <3> DEFINE stray == (job[j].stray /\ ~client[k].stray) \/ left
    <3>1. job' = [job EXCEPT ![j].stray = stray]
      BY <2>1
    <3>2. stray \in BOOLEAN
      OBVIOUS
    <3> HIDE DEF stray
    <3> QED BY <3>1, <3>2 DEF JobRec
  <2> QED BY <1>10, <2>2, <2>3, <2>4 DEF CancelKills
<1>20. CASE LoadsState(k)
  <2> DEFINE j == client[k].job
             pc == IF client[k].pc = "load" THEN "settle" ELSE "replace"
             gate == job[j].gate
             approved == job[j].approved
             r == [client[k] EXCEPT !.pc = pc, !.gate = gate, !.approved = approved]
  <2>1. client' = [client EXCEPT ![k] = r]
    BY <1>1, <1>20 DEF LoadsState, ClientRec
  <2>2. j \in Job
    BY <1>1, <1>20 DEF LoadsState, ClientRec
  <2>3. pc \in {"settle", "replace"} /\ gate \in Gate /\ approved \in BOOLEAN
    BY <2>2 DEF JobRec
  <2> HIDE DEF pc, gate, approved
  <2>4. r \in ClientRec
    BY <1>1, <2>2, <2>3 DEF ClientRec
  <2>5. client' \in [Client -> ClientRec]
    <3> HIDE DEF r
    <3> QED BY <2>1, <2>4
  <2> QED BY <1>20, <2>5 DEF LoadsState
<1>21. ASSUME NEW s \in JobStatus, WritesBack(k, s)
       PROVE  job' \in [Job -> JobRec]
  <2> DEFINE j == client[k].job
             r == [job[j] EXCEPT !.status = s, !.gate = client[k].gate, !.approved = client[k].approved]
  <2>1. job' = [job EXCEPT ![j] = r]
    BY <1>21 DEF WritesBack, JobRec
  <2>2. client[k].gate \in Gate /\ client[k].approved \in BOOLEAN
    BY <1>1 DEF ClientRec
  <2>3. j \in Job => r \in JobRec
    BY <2>2 DEF JobRec
  <2> HIDE DEF r
  <2> QED BY <2>1, <2>3
<1>11. CASE CancelSettles(k)
  <2> DEFINE s == IF client[k].survivors THEN "needs_fix" ELSE "cancelled"
  <2>1. s \in JobStatus
    BY DEF JobStatus
  <2>2. WritesBack(k, s)
    BY <1>11 DEF CancelSettles
  <2> HIDE DEF s
  <2>3. job' \in [Job -> JobRec]
    BY <1>21, <2>1, <2>2
  <2> QED BY <1>2, <1>4, <1>11, <2>3 DEF CancelSettles
<1>12. CASE RetryMarks(k)
  <2>1. PICK j \in Job : /\ job' = [job EXCEPT ![j].marker = TRUE]
                         /\ client' = [client EXCEPT ![k].pc = "reset", ![k].job = j]
    BY <1>12 DEF RetryMarks
  <2>2. job' \in [Job -> JobRec]
    BY <2>1 DEF JobRec
  <2>3. client' \in [Client -> ClientRec]
    <3> DEFINE r == [client[k] EXCEPT !.pc = "reset", !.job = j]
    <3>1. client' = [client EXCEPT ![k] = r]
      BY <1>1, <2>1 DEF ClientRec
    <3>2. r \in ClientRec
      BY <1>1 DEF ClientRec
    <3> QED BY <3>1, <3>2
  <2> QED BY <1>12, <2>2, <2>3 DEF RetryMarks
<1>13. CASE RetryKills(k)
  <2> DEFINE j == client[k].job
  <2>1. PICK left \in AfterKill(job[j].stray) :
          job' = [job EXCEPT ![j].stray = left, ![j].marker = FALSE]
    BY <1>13 DEF RetryKills
  <2>2. j \in Job /\ job[j] \in JobRec
    BY <1>1, <1>13 DEF RetryKills, ClientRec
  <2> DEFINE r == [job[j] EXCEPT !.stray = left, !.marker = FALSE]
  <2>5. r \in JobRec
    BY <2>1, <2>2 DEF AfterKill, JobRec
  <2>6. job' = [job EXCEPT ![j] = r]
    BY <2>1, <2>2 DEF JobRec
  <2>3. job' \in [Job -> JobRec]
    BY <2>2, <2>5, <2>6
  <2>4. [client[k] EXCEPT !.pc = "reload"] \in ClientRec
    BY <1>1, <1>13 DEF RetryKills, ClientRec
  <2> QED BY <1>13, <2>3, <2>4 DEF RetryKills
<1>14. CASE RetryReplaces(k)
  <2>1. queue' \in [Entry -> Row] /\ nextId' \in Nat
    BY <1>3, <1>4, <1>14 DEF RetryReplaces
  <2>2. job' \in [Job -> JobRec]
    BY <1>14, <1>21 DEF RetryReplaces, JobStatus
  <2> QED BY <1>2, <1>14, <2>1, <2>2 DEF RetryReplaces
<1>15. CASE SetPaused(k)
  BY <1>15 DEF SetPaused
<1>22. CASE CommandFails(k)
  BY <1>2, <1>22 DEF CommandFails
<1> QED
  BY <1>6, <1>7, <1>8, <1>9, <1>10, <1>11, <1>12, <1>13, <1>14, <1>15, <1>16, <1>17, <1>18, <1>19,
     <1>20, <1>22
  DEF Command

\* The tables, the files and every process' local variables keep their types.
THEOREM TypeCorrect == Spec => []TypeOK
<1>1. TypeOK /\ [Next]_vars => TypeOK'
  <2> SUFFICES ASSUME TypeOK, [Next]_vars PROVE TypeOK'
    OBVIOUS
  <2>1. CASE Next
    BY <2>1, TypeDispatch, TypeWorker, TypeClient DEF Next
  <2>2. CASE UNCHANGED vars
    BY <2>2 DEF vars, TypeOK
  <2> QED BY <2>1, <2>2
<1> QED BY <1>1, TypeInit, PTL DEF Spec

-----------------------------------------------------------------------------
(* A worker that runs for an entry is that entry's own. *)

\* A step in which workers only end or go on with what they do, rows are only
\* created at nextId, and no row starts to run.
LEMMA OwnershipFrame ==
  ASSUME QueueInv, TypeOK', disp' = disp, nextId' >= nextId,
         \A w \in Worker : Lives(w)' => /\ Lives(w)
                                        /\ worker'[w].entry = worker[w].entry
                                        /\ worker'[w].job = worker[w].job,
         \A e \in Entry : queue'[e].status = "running" =>
                            queue[e].status = "running" /\ queue'[e].pid = queue[e].pid,
         \A e \in Entry : queue'[e].status # "none" =>
                            \/ queue[e].status # "none" /\ queue'[e].job = queue[e].job
                            \/ e = nextId /\ nextId' = nextId + 1
  PROVE  QueueInv'
<1>1. nextId \in Nat /\ Entry \subseteq Nat
  BY QueueAssumption DEF QueueInv, TypeOK, QueueAssumption
<1>2. \A e \in Entry : e < nextId => e < nextId'
  BY <1>1 DEF TypeOK
<1>3. RowsAreKnown'
  <2> SUFFICES ASSUME NEW e \in Entry
               PROVE  /\ queue'[e].status # "none" => e < nextId'
                      /\ \A d \in Dispatcher : disp[d].queue[e].status # "none" =>
                           /\ e < nextId'
                           /\ queue'[e].status # "none" => queue'[e].job = disp[d].queue[e].job
    BY DEF RowsAreKnown
  <2>1. queue[e].status # "none" => e < nextId
    BY DEF QueueInv, RowsAreKnown
  <2>2. queue'[e].status # "none" => e < nextId'
    BY <1>1, <1>2, <2>1
  <2>3. ASSUME NEW d \in Dispatcher, disp[d].queue[e].status # "none"
        PROVE  e < nextId /\ (queue[e].status # "none" => queue[e].job = disp[d].queue[e].job)
    BY <2>3 DEF QueueInv, RowsAreKnown
  <2>4. ASSUME e < nextId, queue'[e].status # "none"
        PROVE  queue[e].status # "none" /\ queue'[e].job = queue[e].job
    BY <1>1, <2>4
  <2> QED BY <1>2, <2>2, <2>3, <2>4
<1>4. PidIsOwnWorker'
  <2> SUFFICES ASSUME NEW e \in Entry, queue'[e].status = "running"
               PROVE  WorkerOf(queue[e].pid, e, queue[e].job)'
    BY DEF PidIsOwnWorker, In
  <2>1. queue[e].status = "running" /\ queue'[e].pid = queue[e].pid
    OBVIOUS
  <2>2. e < nextId
    BY <2>1 DEF QueueInv, RowsAreKnown
  <2>3. queue'[e].job = queue[e].job
    BY <1>1, <2>1, <2>2
  <2>4. WorkerOf(queue[e].pid, e, queue[e].job)
    BY <2>1 DEF QueueInv, PidIsOwnWorker, In
  <2> QED BY <2>1, <2>3, <2>4 DEF WorkerOf, Lives
<1>5. SpawnedIsOwnWorker'
  BY DEF QueueInv, SpawnedIsOwnWorker, WorkerOf, Lives
<1> QED BY <1>3, <1>4, <1>5 DEF QueueInv

\* What a step may make of the rows, besides a commit: a worker's record, a
\* cancellation, an approval, and a row at nextId added to the rows q.
Recorded(q) == \E e : \E s \in JobStatus : q = FinishRow(e, s)
Cancelled(q) == \E j : \E statuses \in SUBSET Active : q = CancelRows(j, statuses)
Resolved(q) == \E j : \E s \in {"done", "failed"} : q = ResolveRows(j, s)
Created(q) ==
  /\ nextId \in Entry /\ nextId' = nextId + 1
  /\ \E j : \E p \in Priority : queue' = [q EXCEPT ![nextId] = NewRow(j, p)]

\* finishQueueEntryRow, the cancellations and the approvals end rows: none starts to run, none
\* comes or goes, none changes its job.
LEMMA RowsOnlyEnd ==
  ASSUME TypeOK, NEW q, Recorded(q) \/ Cancelled(q) \/ Resolved(q)
  PROVE  \A f \in Entry :
           /\ q[f].status = "running" => queue[f].status = "running" /\ q[f].pid = queue[f].pid
           /\ q[f].status # "none" => queue[f].status # "none" /\ q[f].job = queue[f].job
           /\ queue[f].status \in Finished => q[f].status \notin {"queued", "running"}
           /\ queue[f].status # "none" => q[f].status # "none"
           /\ q[f] = queue[f] \/ q[f].status \notin {"queued", "running"}
<1> SUFFICES ASSUME NEW f \in Entry
             PROVE  /\ q[f].status = "running" => queue[f].status = "running" /\ q[f].pid = queue[f].pid
                    /\ q[f].status # "none" => queue[f].status # "none" /\ q[f].job = queue[f].job
                    /\ queue[f].status \in Finished => q[f].status \notin {"queued", "running"}
                    /\ queue[f].status # "none" => q[f].status # "none"
                    /\ q[f] = queue[f] \/ q[f].status \notin {"queued", "running"}
  OBVIOUS
<1>1. queue \in [Entry -> Row] /\ queue[f] \in Row
  BY DEF TypeOK
<1>2. ASSUME NEW e, NEW s \in JobStatus, q = FinishRow(e, s)
      PROVE  q[f] = queue[f] \/ /\ queue[f].status # "none"
                                /\ q[f] = [queue[f] EXCEPT !.status = QueueStatusOf(s), !.pid = None]
  BY <1>1, <1>2 DEF FinishRow
<1>3. ASSUME NEW j, NEW statuses \in SUBSET Active, q = CancelRows(j, statuses)
      PROVE  q[f] = queue[f] \/ /\ queue[f].status \in statuses
                                /\ queue[f].job = j
                                /\ q[f] = [queue[f] EXCEPT !.status = "cancelled", !.pid = None]
  BY <1>1, <1>3 DEF CancelRows
<1>4. CASE Recorded(q)
  <2>1. PICK e : \E s \in JobStatus : q = FinishRow(e, s)
    BY <1>4 DEF Recorded
  <2>2. PICK s \in JobStatus : q = FinishRow(e, s)
    BY <2>1
  <2>3. q[f] = queue[f] \/ /\ queue[f].status # "none"
                           /\ q[f] = [queue[f] EXCEPT !.status = QueueStatusOf(s), !.pid = None]
    BY <1>2, <2>2
  <2>4. QueueStatusOf(s) \in EntryStatus \ {"queued", "running"}
    BY StatusTypes
  <2> QED BY <1>1, <2>3, <2>4 DEF Row, Finished, EntryStatus, Active
<1>5. CASE Cancelled(q)
  <2>1. PICK j : \E statuses \in SUBSET Active : q = CancelRows(j, statuses)
    BY <1>5 DEF Cancelled
  <2>2. q[f] = queue[f] \/ /\ queue[f].status \in Active
                           /\ q[f] = [queue[f] EXCEPT !.status = "cancelled", !.pid = None]
    BY <1>3, <2>1
  <2> QED BY <1>1, <2>2 DEF Row, Finished, Active
<1>6. CASE Resolved(q)
  <2>1. PICK j : \E s \in {"done", "failed"} : q = ResolveRows(j, s)
    BY <1>6 DEF Resolved
  <2>2. PICK s \in {"done", "failed"} : q = ResolveRows(j, s)
    BY <2>1
  <2>3. q[f] = queue[f] \/ /\ queue[f].status = "awaiting_approval"
                           /\ q[f] = [queue[f] EXCEPT !.status = s, !.pid = None]
    BY <1>1, <2>2 DEF ResolveRows
  <2> QED BY <1>1, <2>3 DEF Row, Finished, Active
<1> QED BY <1>4, <1>5, <1>6

LEMMA WorkerRows ==
  ASSUME NEW v \in Worker, WorkerStep(v) \/ WorkerBeats(v) \/ WorkerFault(v)
  PROVE  queue' = queue \/ Recorded(queue')
BY QueueAssumption
DEF Recorded, QueueAssumption, JobStatus, WorkerStep, WorkerFault, WorkerAdmitted, WorkerTurnedAway,
    WorkerBegins, WorkerReturns, WorkerAsks, Gate, WorkerSkips, WorkerRuns, WorkerFinishes, WorkerGoesOn, WorkerSeesCancel, Record, WorkerBeats,
    WorkerExits, WorkerThrows, WorkerStillborn, WorkerCrashes

\* Exit and the faults only end workers.
LEMMA OwnershipWorker ==
  ASSUME QueueInv, NEW v \in Worker, WorkerStep(v) \/ WorkerBeats(v) \/ WorkerFault(v)
  PROVE  QueueInv'
<1> DEFINE Quiet == disp' = disp /\ nextId' = nextId
           Ends == \A w \in Worker : Lives(w)' => /\ Lives(w)
                                                  /\ worker'[w].entry = worker[w].entry
                                                  /\ worker'[w].job = worker[w].job
<1>1. TypeOK /\ TypeOK'
  BY TypeWorker DEF QueueInv
<1>2. worker \in [Worker -> WorkerRec] /\ worker[v] \in WorkerRec
  BY <1>1 DEF TypeOK
<1>3. Quiet
  BY DEF WorkerStep, WorkerFault, WorkerAdmitted, WorkerTurnedAway, WorkerBegins, WorkerSkips,
         WorkerReturns, WorkerAsks, WorkerRuns, Executing, WorkerFinishes, WorkerGoesOn, WorkerSeesCancel, Record, WorkerBeats, WorkerExits, WorkerThrows,
         WorkerStillborn, WorkerCrashes
<1>4. \/ worker' = worker
      \/ worker' = [worker EXCEPT ![v] = Gone]
      \/ worker[v].pc # "gone" /\ \E pc : worker' = [worker EXCEPT ![v].pc = pc]
  BY DEF WorkerStep, WorkerFault, WorkerAdmitted, WorkerTurnedAway, WorkerBegins, WorkerSkips,
         WorkerReturns, WorkerAsks, WorkerRuns, Executing, WorkerFinishes, WorkerGoesOn, WorkerSeesCancel, Record, WorkerBeats, WorkerExits, WorkerThrows,
         WorkerStillborn, WorkerCrashes, Exit
<1>5. Ends
  BY <1>2, <1>4 DEF Lives, WorkerRec, Gone
<1>6. queue' = queue \/ Recorded(queue')
  BY WorkerRows
<1>7. \A e \in Entry :
        /\ queue'[e].status = "running" =>
             queue[e].status = "running" /\ queue'[e].pid = queue[e].pid
        /\ queue'[e].status # "none" => queue[e].status # "none" /\ queue'[e].job = queue[e].job
  BY <1>1, <1>6, RowsOnlyEnd
<1>8. nextId' >= nextId
  BY <1>1, <1>3 DEF TypeOK
<1> QED BY <1>1, <1>3, <1>5, <1>7, <1>8, OwnershipFrame

LEMMA ClientRows ==
  ASSUME NEW k \in Client, Command(k)
  PROVE  \E q : /\ q = queue \/ Cancelled(q) \/ Resolved(q)
                /\ (queue' = q /\ nextId' = nextId) \/ Created(q)
<1>1. CASE Enqueue(k)
  BY <1>1 DEF Enqueue, Created
<1>2. CASE CancelDequeues(k) \/ CancelSettles(k)
  BY <1>2 DEF CancelDequeues, CancelSettles, Cancelled
<1>5. CASE ApproveWrites(k)
  BY <1>5 DEF ApproveWrites, Resolved
<1>3. CASE RetryReplaces(k)
  <2> DEFINE q == CancelRows(client[k].job, {"queued", "running"})
  <2>1. {"queued", "running"} \in SUBSET Active
    BY DEF Active
  <2>2. Cancelled(q)
    BY <2>1 DEF Cancelled
  <2>3. Created(q)
    BY <1>3 DEF RetryReplaces, Created
  <2> HIDE DEF q
  <2> QED BY <2>2, <2>3
<1>4. CASE queue' = queue /\ nextId' = nextId
  BY <1>4
<1> QED
  BY <1>1, <1>2, <1>3, <1>4, <1>5
  DEF Command, Start, ApproveReads, Launch, CancelReads, CancelMarks, CancelKills, LoadsState,
      RetryMarks, RetryKills, SetPaused, CommandFails

\* A command kills workers, cancels rows and creates at most the row nextId.
LEMMA OwnershipClient ==
  ASSUME QueueInv, NEW k \in Client, Command(k)
  PROVE  QueueInv'
<1>1. TypeOK /\ TypeOK'
  BY TypeClient DEF QueueInv
<1>2. disp' = disp
  BY DEF Command, Start, Enqueue, ApproveReads, ApproveWrites, Launch, CancelReads, CancelMarks,
         CancelDequeues, CancelKills, LoadsState, CancelSettles, RetryMarks, RetryKills,
         RetryReplaces, SetPaused, CommandFails
<1>3. worker' = worker \/ worker' = [w \in Worker |-> IF w \in client[k].pids THEN Gone ELSE worker[w]]
  BY DEF Command, Start, Enqueue, ApproveReads, ApproveWrites, Launch, CancelReads, CancelMarks,
         CancelDequeues, CancelKills, LoadsState, CancelSettles, RetryMarks, RetryKills,
         RetryReplaces, SetPaused, CommandFails
<1>4. \A w \in Worker : Lives(w)' => /\ Lives(w)
                                     /\ worker'[w].entry = worker[w].entry
                                     /\ worker'[w].job = worker[w].job
  BY <1>1, <1>3 DEF Lives, Gone, TypeOK
<1>5. PICK q : /\ q = queue \/ Cancelled(q) \/ Resolved(q)
               /\ (queue' = q /\ nextId' = nextId) \/ Created(q)
  BY ClientRows
<1>6. \A e \in Entry :
        /\ q[e].status = "running" => queue[e].status = "running" /\ q[e].pid = queue[e].pid
        /\ q[e].status # "none" => queue[e].status # "none" /\ q[e].job = queue[e].job
  BY <1>1, <1>5, RowsOnlyEnd
<1>7. q \in [Entry -> Row]
  BY <1>1, <1>5, RowsStayTyped DEF TypeOK, Cancelled, Resolved
<1>8. \A e \in Entry :
        \/ queue'[e] = q[e]
        \/ e = nextId /\ nextId' = nextId + 1 /\ queue'[e].status = "queued"
  BY <1>5, <1>7 DEF Created, NewRow, NoRow
<1>9. nextId' >= nextId
  BY <1>1, <1>5 DEF TypeOK, Created
<1> QED BY <1>1, <1>2, <1>4, <1>6, <1>8, <1>9, OwnershipFrame

\* What a dispatch applies inside its transaction: a verdict or a spawn result
\* changes a row only from the status it was made for.
LEMMA AppliedRows ==
  ASSUME TypeOK, NEW d \in Dispatcher, NEW e \in Entry
  PROVE  LET new == Truncated(Applied(d))[e] IN
         /\ new.status = "running" =>
              \/ queue[e].status = "running" /\ new.pid = queue[e].pid
              \/ queue[e].status \in {"queued", "running"} /\ disp[d].spawned[e] # None
                 /\ new.pid = disp[d].spawned[e]
         /\ new.status # "none" => queue[e].status # "none" /\ new.job = queue[e].job
         /\ new.status \in {"queued", "running"} => queue[e].status \in {"queued", "running"}
         /\ new.status = "awaiting_approval" => queue[e].status = "awaiting_approval"
         /\ queue[e].status \in Active /\ new.status = "none" =>
              disp[d].verdict[e].status \in Finished \/ e \in disp[d].failed
<1> DEFINE v == AfterVerdict(d, queue[e], e)
           a == AfterSpawn(d, v, e)
<1>1. queue[e] \in Row
  BY DEF TypeOK
<1>2. disp[d].verdict[e].status \in {"none", "queued", "failed", "done", "cancelled"}
  BY DEF TypeOK, DispRec, Verdict
<1>3. /\ v.job = queue[e].job
      /\ \/ v.status = queue[e].status /\ v.pid = queue[e].pid
         \/ queue[e].status = "running" /\ v.status \in {"queued", "failed", "done", "cancelled"}
            /\ v.status = disp[d].verdict[e].status
      /\ v.status = "running" => v = queue[e]
  BY <1>1, <1>2 DEF AfterVerdict, Row
<1>4. v = queue[e] \/ v = [queue[e] EXCEPT !.status = v.status, !.pid = None, !.reclaims = v.reclaims]
  BY <1>1 DEF AfterVerdict, Row
<1>5. /\ a.job = v.job
      /\ \/ a = v
         \/ v.status = "queued" /\ a.status = "running" /\ disp[d].spawned[e] # None
            /\ a.pid = disp[d].spawned[e]
         \/ v.status = "queued" /\ a.status = "failed" /\ e \in disp[d].failed
  <2> HIDE DEF v
  <2> QED BY <1>1, <1>4 DEF AfterSpawn, Row
<1>6. \/ Truncated(Applied(d))[e] = a
      \/ Truncated(Applied(d))[e] = NoRow /\ a.status \in Finished
  <2> HIDE DEF a
  <2>1. Applied(d)[e] = a
    BY DEF Applied, a
  <2> QED BY <2>1 DEF Truncated, In
<1>7. NoRow.status = "none"
  BY DEF NoRow
<1> HIDE DEF v, a
<1>8. queue[e].status \in {"queued", "running", "awaiting_approval", "none"} \cup Finished
  BY <1>1 DEF Row, Active, EntryStatus
<1>9. CASE Truncated(Applied(d))[e] = a
  BY <1>3, <1>5, <1>8, <1>9 DEF Active, Finished
<1>10. CASE Truncated(Applied(d))[e] = NoRow /\ a.status \in Finished
  BY <1>3, <1>5, <1>7, <1>8, <1>10 DEF Active, Finished
<1> QED BY <1>6, <1>9, <1>10

\* Before its commit a dispatch only rewrites its local variables.
LEMMA OwnershipLocals ==
  ASSUME QueueInv, TypeOK', UNCHANGED <<queue, nextId, worker>>,
         \A x \in Dispatcher, e \in Entry :
           /\ disp'[x].queue[e].status # "none" =>
                disp'[x].queue[e] = disp[x].queue[e] \/ disp'[x].queue[e] = queue[e]
           /\ disp'[x].spawned[e] # None =>
                /\ disp'[x].spawned[e] = disp[x].spawned[e]
                /\ disp[x].queue[e].status = "queued" => disp'[x].queue[e] = disp[x].queue[e]
  PROVE  QueueInv'
<1>1. PidIsOwnWorker'
  BY DEF QueueInv, PidIsOwnWorker, In, WorkerOf, Lives
<1>2. RowsAreKnown'
  BY DEF QueueInv, RowsAreKnown
<1>3. SpawnedIsOwnWorker'
  BY DEF QueueInv, SpawnedIsOwnWorker, WorkerOf, Lives
<1> QED BY <1>1, <1>2, <1>3 DEF QueueInv

\* The commit moves the spawn results into the table.
LEMMA OwnershipDispatch ==
  ASSUME QueueInv, NEW d \in Dispatcher, Dispatch(d) \/ Abandon(d)
  PROVE  QueueInv'
<1>1. TypeOK /\ TypeOK'
  BY TypeDispatch DEF QueueInv
<1>2. /\ \A x \in Dispatcher : disp[x] \in DispRec
      /\ disp \in [Dispatcher -> DispRec]
      /\ NoRow.status = "none"
  BY <1>1 DEF TypeOK, NoRow
<1>3. CASE Snapshot(d)
  <2>1. \A e \in Entry : disp'[d].spawned[e] = None
                         /\ (disp'[d].queue[e] = queue[e] \/ disp'[d].queue[e] = NoRow)
    BY <1>2, <1>3 DEF Snapshot, Idle, Unfinished
  <2>2. \A x \in Dispatcher \ {d} : disp'[x] = disp[x]
    BY <1>2, <1>3 DEF Snapshot
  <2> QED BY <1>1, <1>2, <1>3, <2>1, <2>2, OwnershipLocals DEF Snapshot
<1>4. CASE Recon(d)
  <2>1. \A x \in Dispatcher : disp'[x].queue = disp[x].queue /\ disp'[x].spawned = disp[x].spawned
    BY <1>2, <1>4 DEF Recon, DispRec
  <2> QED BY <1>1, <1>4, <2>1, OwnershipLocals DEF Recon
<1>5. CASE CountActive(d)
  <2>1. \A x \in Dispatcher \ {d} : disp'[x] = disp[x]
    BY <1>2, <1>5 DEF CountActive
  <2>2. disp'[d].queue = disp[d].queue /\ disp'[d].spawned = disp[d].spawned
    BY <1>2, <1>5 DEF CountActive, DispRec
  <2> QED BY <1>1, <1>2, <1>5, <2>1, <2>2, OwnershipLocals DEF CountActive
<1>6. CASE Spawn(d)
  <2>1. PICK e \in Waiting(d), w \in Worker, ok \in BOOLEAN :
          /\ Fresh(w)
          /\ worker' = [worker EXCEPT ![w] = [pc |-> "spawned", job |-> disp[d].queue[e].job, entry |-> e]]
          /\ disp' = IF ok THEN [disp EXCEPT ![d].spawned[e] = w, ![d].active = @ + 1]
                           ELSE [disp EXCEPT ![d].failed = @ \cup {e}]
    BY <1>6 DEF Spawn
  <2>2. e \in Entry /\ disp[d].queue[e].status = "queued" /\ queue' = queue /\ nextId' = nextId
    BY <1>6 DEF Spawn, Waiting, In
  <2>3. \A x \in Dispatcher : disp'[x].queue = disp[x].queue
    BY <1>2, <2>1 DEF DispRec
  <2>4. \A x \in Dispatcher, f \in Entry :
          \/ disp'[x].spawned[f] = disp[x].spawned[f]
          \/ x = d /\ f = e /\ disp'[x].spawned[f] = w
    BY <1>2, <2>1, <2>2 DEF DispRec
  <2>5. ASSUME NEW f \in Entry, NEW v \in Worker \ {w}, NEW j, WorkerOf(v, f, j)
        PROVE  Lives(v)' => worker'[v].entry = f /\ worker'[v].job = j
    BY <1>1, <2>1, <2>5 DEF WorkerOf, Lives, TypeOK
  <2>6. w # None /\ worker'[w].entry = e /\ worker'[w].job = disp[d].queue[e].job
    BY <1>1, <2>1, QueueAssumption DEF TypeOK, QueueAssumption
  <2>7. PidIsOwnWorker'
    <3> SUFFICES ASSUME NEW f \in Entry, queue[f].status = "running"
                 PROVE  WorkerOf(queue[f].pid, f, queue[f].job)'
      BY <2>2 DEF PidIsOwnWorker, In
    <3>1. WorkerOf(queue[f].pid, f, queue[f].job)
      BY DEF QueueInv, PidIsOwnWorker, In
    <3>2. queue[f].pid # w
      BY <2>1 DEF Fresh
    <3> QED BY <2>2, <2>5, <3>1, <3>2 DEF WorkerOf
  <2>8. RowsAreKnown'
    BY <2>2, <2>3 DEF QueueInv, RowsAreKnown
  <2>9. SpawnedIsOwnWorker'
    <3> SUFFICES ASSUME NEW x \in Dispatcher, NEW f \in Entry, disp'[x].spawned[f] # None
                 PROVE  /\ disp'[x].queue[f].status = "queued"
                        /\ WorkerOf(disp[x].spawned[f], f, disp[x].queue[f].job)'
      BY DEF SpawnedIsOwnWorker
    <3>1. CASE disp'[x].spawned[f] = disp[x].spawned[f]
      <4>1. /\ disp[x].queue[f].status = "queued"
            /\ WorkerOf(disp[x].spawned[f], f, disp[x].queue[f].job)
        BY <3>1 DEF QueueInv, SpawnedIsOwnWorker
      <4>2. disp[x].spawned[f] # w
        BY <2>1 DEF Fresh
      <4>3. disp[x].spawned[f] \in Worker \ {w}
        BY <4>1, <4>2 DEF WorkerOf
      <4>4. worker'[disp[x].spawned[f]] = worker[disp[x].spawned[f]]
        BY <1>1, <2>1, <4>3 DEF TypeOK
      <4> QED BY <2>3, <3>1, <4>1, <4>3, <4>4 DEF WorkerOf, Lives
    <3>2. CASE x = d /\ f = e /\ disp'[x].spawned[f] = w
      BY <2>2, <2>3, <2>6, <3>2 DEF WorkerOf
    <3> QED BY <2>4, <3>1, <3>2
  <2> QED BY <1>1, <2>7, <2>8, <2>9 DEF QueueInv
<1>7. CASE Commit(d)
  <2>1. /\ disp' = [disp EXCEPT ![d] = Idle] /\ UNCHANGED <<nextId, worker>>
        /\ \A e \in Entry : queue'[e] = Truncated(Applied(d))[e]
    BY <1>7 DEF Commit
  <2>2. \A e \in Entry :
          /\ queue'[e].status = "running" =>
               \/ queue[e].status = "running" /\ queue'[e].pid = queue[e].pid
               \/ queue[e].status \in {"queued", "running"} /\ disp[d].spawned[e] # None
                  /\ queue'[e].pid = disp[d].spawned[e]
          /\ queue'[e].status # "none" => queue[e].status # "none" /\ queue'[e].job = queue[e].job
    BY <1>1, <2>1, AppliedRows
  <2>3. \A e \in Entry : Idle.spawned[e] = None /\ Idle.queue[e].status = "none"
    BY <1>2 DEF Idle
  <2>4. \A x \in Dispatcher : disp'[x] = disp[x] \/ disp'[x] = Idle
    BY <1>2, <2>1
  <2>5. SpawnedIsOwnWorker'
    BY <2>1, <2>3, <2>4 DEF QueueInv, SpawnedIsOwnWorker, WorkerOf, Lives
  <2>6. RowsAreKnown'
    BY <2>1, <2>2, <2>3, <2>4 DEF QueueInv, RowsAreKnown
  <2>7. PidIsOwnWorker'
    <3> SUFFICES ASSUME NEW e \in Entry, queue'[e].status = "running"
                 PROVE  WorkerOf(queue[e].pid, e, queue[e].job)'
      BY DEF PidIsOwnWorker, In
    <3>1. queue'[e].job = queue[e].job
      BY <2>2
    <3>2. CASE queue[e].status = "running" /\ queue'[e].pid = queue[e].pid
      BY <2>1, <3>1, <3>2 DEF QueueInv, PidIsOwnWorker, In, WorkerOf, Lives
    <3>3. CASE queue[e].status # "none" /\ disp[d].spawned[e] # None /\ queue'[e].pid = disp[d].spawned[e]
      <4>1. disp[d].queue[e].status = "queued" /\ WorkerOf(disp[d].spawned[e], e, disp[d].queue[e].job)
        BY <3>3 DEF QueueInv, SpawnedIsOwnWorker
      <4>2. queue[e].job = disp[d].queue[e].job
        BY <3>3, <4>1 DEF QueueInv, RowsAreKnown
      <4> QED BY <2>1, <3>1, <3>3, <4>1, <4>2 DEF WorkerOf, Lives
    <3> QED BY <2>2, <3>2, <3>3
  <2> QED BY <1>1, <2>5, <2>6, <2>7 DEF QueueInv
<1>8. CASE Abandon(d)
  <2>1. \A e \in Entry : Idle.spawned[e] = None /\ Idle.queue[e].status = "none"
    BY <1>2 DEF Idle
  <2>2. \A x \in Dispatcher : disp'[x] = disp[x] \/ disp'[x] = Idle
    BY <1>2, <1>8 DEF Abandon
  <2> QED BY <1>1, <1>8, <2>1, <2>2, OwnershipLocals DEF Abandon
<1> QED BY <1>3, <1>4, <1>5, <1>6, <1>7, <1>8 DEF Dispatch

LEMMA QueueInvInit == Init => QueueInv
<1> SUFFICES ASSUME Init PROVE QueueInv
  OBVIOUS
<1>1. \A e \in Entry : Idle.spawned[e] = None /\ Idle.queue[e].status = "none"
  BY DEF Idle, NoRow
<1>2. /\ \A e \in Entry : queue[e].status = "none"
      /\ \A d \in Dispatcher : disp[d] = Idle
  BY DEF Init, NoRow
<1> QED
  BY <1>1, <1>2, TypeInit
  DEF QueueInv, PidIsOwnWorker, RowsAreKnown, SpawnedIsOwnWorker, In

LEMMA QueueInvStep == QueueInv /\ [Next]_vars => QueueInv'
<1> SUFFICES ASSUME QueueInv, [Next]_vars PROVE QueueInv'
  OBVIOUS
<1>1. CASE Next
  BY <1>1, OwnershipDispatch, OwnershipWorker, OwnershipClient DEF Next
<1>2. CASE UNCHANGED vars
  BY <1>2 DEF vars, QueueInv, TypeOK, PidIsOwnWorker, In, RowsAreKnown, SpawnedIsOwnWorker,
              WorkerOf, Lives
<1> QED BY <1>1, <1>2

\* The inductive invariant
THEOREM QueueInvariant == Spec => []QueueInv
BY QueueInvInit, QueueInvStep, PTL DEF Spec

\* A pid in the table that is still alive is a worker of the entry it stands in,
\* however many dispatches, crashes and cancellations interleave: cancelJob and
\* the liveness check never look at another entry's process (queue.ts:107-187).
THEOREM PidCorrect == Spec => []PidIsOwnWorker
<1>1. QueueInv => PidIsOwnWorker
  BY DEF QueueInv
<1> QED BY <1>1, QueueInvariant, PTL

-----------------------------------------------------------------------------
(* What a commit may do to the rows other processes have written meanwhile *)

\* A row is created only where there is none.
LEMMA NewRowIsNew ==
  ASSUME QueueInv, nextId \in Entry
  PROVE  queue[nextId].status = "none"
BY QueueAssumption DEF QueueInv, RowsAreKnown, TypeOK, QueueAssumption

\* No step runs a finished entry again or deletes an unfinished one, unless it
\* belongs to a dispatch that closes it.
LEMMA RowStep ==
  ASSUME QueueInv, [Next]_vars, NEW e \in Entry
  PROVE  /\ queue[e].status \in Finished => queue'[e].status \notin {"queued", "running"}
         /\ queue[e].status \in Active /\ queue'[e].status = "none" =>
              \E d \in Dispatcher : disp[d].verdict[e].status \in Finished \/ e \in disp[d].failed
<1>1. TypeOK
  BY DEF QueueInv
<1>2. CASE queue' = queue
  BY <1>2 DEF Finished, Active
<1>3. CASE \E d \in Dispatcher : Commit(d)
  BY <1>1, <1>3, AppliedRows DEF Commit, Finished
<1>4. CASE Recorded(queue')
  BY <1>1, <1>4, RowsOnlyEnd DEF Active
<1>5. CASE \E k \in Client : Command(k)
  <2>1. PICK q : /\ q = queue \/ Cancelled(q) \/ Resolved(q)
                 /\ (queue' = q /\ nextId' = nextId) \/ Created(q)
    BY <1>5, ClientRows
  <2>2. /\ queue[e].status \in Finished => q[e].status \notin {"queued", "running"}
        /\ queue[e].status # "none" => q[e].status # "none"
    BY <1>1, <2>1, RowsOnlyEnd DEF Finished
  <2>3. q \in [Entry -> Row]
    BY <1>1, <2>1, RowsStayTyped DEF TypeOK, Cancelled, Resolved
  <2>4. queue'[e] = q[e] \/ queue[e].status = "none"
    BY <2>1, <2>3, NewRowIsNew DEF Created
  <2> QED BY <2>2, <2>4 DEF Active, Finished
<1>6. CASE \E d \in Dispatcher : Snapshot(d) \/ Recon(d) \/ CountActive(d) \/ Spawn(d) \/ Abandon(d)
  BY <1>2, <1>6 DEF Snapshot, Recon, CountActive, Spawn, Abandon
<1>7. CASE UNCHANGED vars
  BY <1>2, <1>7 DEF vars
<1> QED
  BY <1>2, <1>3, <1>4, <1>5, <1>6, <1>7, WorkerRows DEF Next, Dispatch

\* However the dispatches of several processes interleave with the workers, the
\* cancellations and the retries, a commit never puts a finished entry back to
\* queued or running (queue.ts:161-195).
THEOREM NeverResurrected == Spec => NoResurrection
<1>1. QueueInv /\ [Next]_vars =>
        [\A e \in Entry : queue[e].status \in Finished => queue'[e].status \notin {"queued", "running"}]_vars
  BY RowStep
<1> QED BY <1>1, QueueInvariant, PTL DEF Spec, NoResurrection

\* ... and never deletes an entry that is still queued, running or awaiting
\* approval, unless it is the one that closes it (queue.ts:161-195).
THEOREM NeverLost == Spec => NoActiveRowLost
<1>1. QueueInv /\ [Next]_vars =>
        [\A e \in Entry : queue[e].status \in Active /\ queue'[e].status = "none" =>
           \E d \in Dispatcher : disp[d].verdict[e].status \in Finished \/ e \in disp[d].failed]_vars
  BY RowStep
<1> QED BY <1>1, QueueInvariant, PTL DEF Spec, NoActiveRowLost

-----------------------------------------------------------------------------
(* Rows and workers have a job *)

HaveJobs ==
  /\ \A e \in Entry : queue[e].status # "none" => queue[e].job \in Job
  /\ \A d \in Dispatcher, e \in Entry : disp[d].queue[e].status # "none" => disp[d].queue[e].job \in Job
  /\ \A w \in Worker : Lives(w) => worker[w].job \in Job /\ worker[w].entry \in Entry

\* A step of a worker or of a command
Outside ==
  \/ \E v \in Worker : WorkerStep(v) \/ WorkerBeats(v) \/ WorkerFault(v)
  \/ \E k \in Client : Command(k)

\* Outside the dispatches no worker comes to life, and a row stays as it is, ends,
\* or is created.
LEMMA OutsideDispatch ==
  ASSUME QueueInv, Outside
  PROVE  /\ disp' = disp /\ nextId' >= nextId
         /\ \A w \in Worker : Lives(w)' =>
              Lives(w) /\ worker'[w].entry = worker[w].entry /\ worker'[w].job = worker[w].job
         /\ \A e \in Entry : \/ queue'[e] = queue[e]
                            \/ queue'[e].status \notin {"queued", "running"}
                            \/ (e = nextId /\ queue[e].status = "none")
<1>1. TypeOK /\ TypeOK'
  BY TypeWorker, TypeClient DEF QueueInv, Outside
<1>2. worker \in [Worker -> WorkerRec]
  BY <1>1 DEF TypeOK
<1>3. ASSUME NEW v \in Worker, WorkerStep(v) \/ WorkerBeats(v) \/ WorkerFault(v)
      PROVE  /\ disp' = disp /\ nextId' = nextId
             /\ \/ worker' = worker
                \/ worker' = [worker EXCEPT ![v] = Gone]
                \/ worker[v].pc # "gone" /\ \E pc : worker' = [worker EXCEPT ![v].pc = pc]
  BY <1>3 DEF WorkerStep, WorkerFault, WorkerAdmitted, WorkerTurnedAway, WorkerBegins, WorkerSkips,
         WorkerReturns, WorkerAsks, WorkerRuns, Executing, WorkerFinishes, WorkerGoesOn, WorkerSeesCancel, Record, WorkerBeats,
         WorkerExits, WorkerThrows, WorkerStillborn, WorkerCrashes, Exit
<1>4. ASSUME NEW k \in Client, Command(k)
      PROVE  /\ disp' = disp
             /\ \/ worker' = worker
                \/ worker' = [v \in Worker |-> IF v \in client[k].pids THEN Gone ELSE worker[v]]
  BY <1>4 DEF Command, Start, Enqueue, ApproveReads, ApproveWrites, Launch, CancelReads, CancelMarks,
         CancelDequeues, CancelKills, LoadsState, CancelSettles, RetryMarks, RetryKills,
         RetryReplaces, SetPaused, CommandFails
<1>5. ASSUME NEW w \in Worker, Lives(w)'
      PROVE  Lives(w) /\ worker'[w].entry = worker[w].entry /\ worker'[w].job = worker[w].job
  <2>1. ASSUME NEW v \in Worker, WorkerStep(v) \/ WorkerBeats(v) \/ WorkerFault(v)
        PROVE  Lives(w) /\ worker'[w].entry = worker[w].entry /\ worker'[w].job = worker[w].job
    <3>1. worker[v] \in WorkerRec /\ worker[w] \in WorkerRec
      BY <1>2
    <3> QED BY <1>2, <1>3, <1>5, <2>1, <3>1 DEF Lives, WorkerRec, Gone
  <2>2. ASSUME NEW k \in Client, Command(k)
        PROVE  Lives(w) /\ worker'[w].entry = worker[w].entry /\ worker'[w].job = worker[w].job
    BY <1>2, <1>4, <1>5, <2>2 DEF Lives, Gone
  <2> QED BY <2>1, <2>2 DEF Outside
<1>6. ASSUME NEW e \in Entry
      PROVE  \/ queue'[e] = queue[e]
             \/ queue'[e].status \notin {"queued", "running"}
             \/ (e = nextId /\ queue[e].status = "none")
  <2>1. CASE queue' = queue \/ Recorded(queue')
    BY <1>1, <2>1, RowsOnlyEnd
  <2>2. ASSUME NEW k \in Client, Command(k)
        PROVE  \/ queue'[e] = queue[e]
               \/ queue'[e].status \notin {"queued", "running"}
               \/ (e = nextId /\ queue[e].status = "none")
    <3>1. PICK q : /\ q = queue \/ Cancelled(q) \/ Resolved(q)
                   /\ (queue' = q /\ nextId' = nextId) \/ Created(q)
      BY <2>2, ClientRows
    <3>2. q[e] = queue[e] \/ q[e].status \notin {"queued", "running"}
      BY <1>1, <3>1, RowsOnlyEnd
    <3>3. q \in [Entry -> Row]
      BY <1>1, <3>1, RowsStayTyped DEF TypeOK, Cancelled, Resolved
    <3>4. queue'[e] = q[e] \/ (e = nextId /\ queue[e].status = "none")
      BY <3>1, <3>3, NewRowIsNew DEF Created
    <3> QED BY <3>2, <3>4
  <2> QED BY <2>1, <2>2, WorkerRows DEF Outside
<1>7. nextId' >= nextId
  <2>1. ASSUME NEW k \in Client, Command(k)
        PROVE  nextId' >= nextId
    BY <1>1, <2>1, ClientRows DEF TypeOK, Created
  <2> QED BY <1>1, <1>3, <2>1 DEF Outside, TypeOK
<1>8. disp' = disp
  BY <1>3, <1>4 DEF Outside
<1> QED BY <1>5, <1>6, <1>7, <1>8

\* A worker that lives after a step lived before it, or a dispatch has spawned it.
LEMMA WorkersComeFromSpawn ==
  ASSUME QueueInv, Next, NEW w \in Worker, Lives(w)'
  PROVE  \/ Lives(w) /\ worker'[w].entry = worker[w].entry /\ worker'[w].job = worker[w].job
         \/ \E d \in Dispatcher : \E e \in Waiting(d) :
              /\ Spawn(d) /\ Fresh(w)
              /\ worker' = [worker EXCEPT ![w] = [pc |-> "spawned", job |-> disp[d].queue[e].job, entry |-> e]]
              /\ UNCHANGED <<queue, nextId, paused, job, client>>
              /\ \/ disp' = [disp EXCEPT ![d].spawned[e] = w, ![d].active = @ + 1]
                 \/ "spawn" \in Faults /\ disp' = [disp EXCEPT ![d].failed = @ \cup {e}]
<1>1. worker \in [Worker -> WorkerRec]
  BY DEF QueueInv, TypeOK
<1>2. CASE worker' = worker
  BY <1>2 DEF Lives
<1>3. ASSUME NEW d \in Dispatcher, Spawn(d)
      PROVE  \/ Lives(w) /\ worker'[w].entry = worker[w].entry /\ worker'[w].job = worker[w].job
             \/ \E e \in Waiting(d) :
                  /\ Fresh(w)
                  /\ worker' = [worker EXCEPT ![w] = [pc |-> "spawned", job |-> disp[d].queue[e].job, entry |-> e]]
                  /\ UNCHANGED <<queue, nextId, paused, job, client>>
                  /\ \/ disp' = [disp EXCEPT ![d].spawned[e] = w, ![d].active = @ + 1]
                     \/ "spawn" \in Faults /\ disp' = [disp EXCEPT ![d].failed = @ \cup {e}]
  <2>1. PICK e \in Waiting(d), v \in Worker, ok \in BOOLEAN :
          /\ Fresh(v)
          /\ ~ok => "spawn" \in Faults
          /\ worker' = [worker EXCEPT ![v] = [pc |-> "spawned", job |-> disp[d].queue[e].job, entry |-> e]]
          /\ disp' = IF ok THEN [disp EXCEPT ![d].spawned[e] = v, ![d].active = @ + 1]
                           ELSE [disp EXCEPT ![d].failed = @ \cup {e}]
    BY <1>3 DEF Spawn
  <2>2. CASE v = w
    BY <1>3, <2>1, <2>2 DEF Spawn
  <2>3. CASE v # w
    BY <1>1, <2>1, <2>3 DEF Lives
  <2> QED BY <2>2, <2>3
<1>4. ASSUME NEW d \in Dispatcher, Dispatch(d) \/ Abandon(d), ~Spawn(d)
      PROVE  worker' = worker
  BY <1>4 DEF Dispatch, Snapshot, Recon, CountActive, Commit, Abandon
<1>5. CASE Outside
  BY <1>5, OutsideDispatch
<1> QED
  BY <1>2, <1>3, <1>4, <1>5 DEF Next, Outside

\* A row that is there after a step was there before it, with its job, or has
\* just been created for the job of a command.
LEMMA RowsComeFromCommands ==
  ASSUME QueueInv, Next, NEW e \in Entry, queue'[e].status # "none"
  PROVE  \/ queue[e].status # "none" /\ queue'[e].job = queue[e].job
         \/ /\ e = nextId /\ queue[e].status = "none" /\ nextId' = nextId + 1
            /\ \E k \in Client : Enqueue(k) \/ RetryReplaces(k)
            /\ queue'[e].status = "queued" /\ queue'[e].job \in Job
<1>1. TypeOK
  BY DEF QueueInv
<1>2. CASE queue' = queue
  BY <1>2
<1>3. CASE \E d \in Dispatcher : Commit(d)
  BY <1>1, <1>3, AppliedRows DEF Commit
<1>4. CASE Recorded(queue') \/ Cancelled(queue') \/ Resolved(queue')
  BY <1>1, <1>4, RowsOnlyEnd
<1>5. ASSUME NEW k \in Client, Enqueue(k) \/ RetryReplaces(k)
      PROVE  \/ queue[e].status # "none" /\ queue'[e].job = queue[e].job
             \/ /\ e = nextId /\ queue[e].status = "none" /\ nextId' = nextId + 1
                /\ queue'[e].status = "queued" /\ queue'[e].job \in Job
  <2>1. client[k].job \in Job
    BY <1>1, <1>5 DEF TypeOK, ClientRec, Enqueue, RetryReplaces
  <2> DEFINE r == CancelRows(client[k].job, {"queued", "running"})
  <2>2. Cancelled(r)
    BY DEF Cancelled, Active
  <2>3. r \in [Entry -> Row] /\ queue \in [Entry -> Row]
    BY <1>1, RowsStayTyped DEF TypeOK
  <2>4. r[e].status # "none" => queue[e].status # "none" /\ r[e].job = queue[e].job
    BY <1>1, <2>2, RowsOnlyEnd
  <2>5. \/ queue' = queue
        \/ /\ nextId \in Entry /\ nextId' = nextId + 1
           /\ \E p \in Priority : \/ queue' = [queue EXCEPT ![nextId] = NewRow(client[k].job, p)]
                                  \/ queue' = [r EXCEPT ![nextId] = NewRow(client[k].job, p)]
    BY <1>5 DEF Enqueue, RetryReplaces
  <2> HIDE DEF r
  <2>6. CASE queue' = queue
    BY <2>6
  <2>7. CASE nextId \in Entry /\ nextId' = nextId + 1 /\ e # nextId
    BY <2>3, <2>4, <2>5, <2>7
  <2>8. CASE nextId \in Entry /\ nextId' = nextId + 1 /\ e = nextId
    <3>1. \A p \in Priority : NewRow(client[k].job, p).status = "queued" /\ NewRow(client[k].job, p).job = client[k].job
      BY DEF NewRow, NoRow
    <3>2. queue[e].status = "none"
      BY <2>8, NewRowIsNew
    <3> QED BY <2>1, <2>3, <2>5, <2>8, <3>1, <3>2
  <2> QED BY <2>5, <2>6, <2>7, <2>8
<1>6. ASSUME NEW k \in Client, Command(k), ~Enqueue(k), ~RetryReplaces(k)
      PROVE  queue' = queue \/ Cancelled(queue') \/ Resolved(queue')
  BY <1>6 DEF Command, Start, ApproveReads, ApproveWrites, Launch, CancelReads, CancelMarks,
         CancelDequeues, CancelKills, LoadsState, CancelSettles, RetryMarks, RetryKills,
         SetPaused, CommandFails, Cancelled, Resolved
<1>7. ASSUME NEW d \in Dispatcher, Dispatch(d) \/ Abandon(d), ~Commit(d)
      PROVE  queue' = queue
  BY <1>7 DEF Dispatch, Snapshot, Recon, CountActive, Spawn, Abandon
<1> QED
  BY <1>2, <1>3, <1>4, <1>5, <1>6, <1>7, WorkerRows DEF Next

\* What a dispatch has loaded it has loaded before, or from the table now.
LEMMA SnapshotsComeFromTable ==
  ASSUME TypeOK, Next, NEW d \in Dispatcher, NEW e \in Entry, disp'[d].queue[e].status # "none"
  PROVE  disp'[d].queue[e] = disp[d].queue[e] \/ (Snapshot(d) /\ disp'[d].queue[e] = queue[e])
<1>1. disp \in [Dispatcher -> DispRec] /\ disp[d] \in DispRec
  BY DEF TypeOK
<1>2. NoRow.status = "none" /\ Idle.queue = [x \in Entry |-> NoRow]
  BY DEF NoRow, Idle
<1>3. ASSUME NEW c \in Dispatcher, c # d, Dispatch(c) \/ Abandon(c)
      PROVE  disp'[d] = disp[d]
  BY <1>1, <1>3 DEF Dispatch, Snapshot, Recon, CountActive, Spawn, Commit, Abandon
<1>4. CASE Snapshot(d)
  BY <1>1, <1>2, <1>4 DEF Snapshot, Unfinished, Idle
<1>5. CASE Recon(d) \/ Spawn(d)
  <2>1. CASE Recon(d)
    BY <1>1, <2>1 DEF Recon, DispRec
  <2>2. CASE Spawn(d)
    <3>1. PICK x \in Waiting(d), w \in Worker, ok \in BOOLEAN :
            disp' = IF ok THEN [disp EXCEPT ![d].spawned[x] = w, ![d].active = @ + 1]
                          ELSE [disp EXCEPT ![d].failed = @ \cup {x}]
      BY <2>2 DEF Spawn
    <3> QED BY <1>1, <3>1 DEF DispRec
  <2> QED BY <1>5, <2>1, <2>2
<1>6. CASE CountActive(d)
  BY <1>1, <1>2, <1>6 DEF CountActive, DispRec
<1>7. CASE Commit(d) \/ Abandon(d)
  BY <1>1, <1>2, <1>7 DEF Commit, Abandon
<1>8. ASSUME NEW v \in Worker, WorkerStep(v) \/ WorkerBeats(v) \/ WorkerFault(v)
      PROVE  disp' = disp
  BY <1>8 DEF WorkerStep, WorkerFault, WorkerAdmitted, WorkerTurnedAway, WorkerBegins, WorkerSkips,
         WorkerReturns, WorkerAsks, WorkerRuns, WorkerFinishes, WorkerGoesOn, WorkerSeesCancel, Record, WorkerBeats,
         WorkerExits, WorkerThrows, WorkerStillborn, WorkerCrashes
<1>9. ASSUME NEW k \in Client, Command(k)
      PROVE  disp' = disp
  BY <1>9 DEF Command, Start, Enqueue, ApproveReads, ApproveWrites, Launch, CancelReads, CancelMarks,
         CancelDequeues, CancelKills, LoadsState, CancelSettles, RetryMarks, RetryKills,
         RetryReplaces, SetPaused, CommandFails
<1> QED
  BY <1>3, <1>4, <1>5, <1>6, <1>7, <1>8, <1>9 DEF Next, Dispatch

LEMMA HaveJobsStep ==
  ASSUME QueueInv, HaveJobs, Next
  PROVE  HaveJobs'
<1>1. TypeOK
  BY DEF QueueInv
<1>2. \A e \in Entry : queue'[e].status # "none" => queue'[e].job \in Job
  BY RowsComeFromCommands DEF HaveJobs
<1>3. \A d \in Dispatcher, e \in Entry : disp'[d].queue[e].status # "none" => disp'[d].queue[e].job \in Job
  BY <1>1, SnapshotsComeFromTable DEF HaveJobs
<1>4. ASSUME NEW w \in Worker, Lives(w)'
      PROVE  worker'[w].job \in Job /\ worker'[w].entry \in Entry
  <2>1. CASE Lives(w) /\ worker'[w].entry = worker[w].entry /\ worker'[w].job = worker[w].job
    BY <2>1 DEF HaveJobs
  <2>2. ASSUME NEW d \in Dispatcher, NEW e \in Waiting(d),
               worker' = [worker EXCEPT ![w] = [pc |-> "spawned", job |-> disp[d].queue[e].job, entry |-> e]]
        PROVE  worker'[w].job \in Job /\ worker'[w].entry \in Entry
    <3>1. e \in Entry /\ disp[d].queue[e].status = "queued"
      BY DEF Waiting, In
    <3> QED BY <1>1, <2>2, <3>1 DEF HaveJobs, TypeOK
  <2> QED BY <1>4, <2>1, <2>2, WorkersComeFromSpawn
<1> QED BY <1>2, <1>3, <1>4 DEF HaveJobs

-----------------------------------------------------------------------------
(* A job that awaits approval is behind a gate its workers look at. *)

\* A job awaits its completion approval, or the approval before its run that it
\* has not had.
AwaitsBehindGate ==
  \A j \in Job : job[j].status = "awaiting_approval" =>
    \/ job[j].gate = "completion"
    \/ job[j].gate = "before_run" /\ Unapproved(j)

LEMMA AwaitsStep ==
  ASSUME TypeOK, AwaitsBehindGate, Next
  PROVE  AwaitsBehindGate'
<1> SUFFICES ASSUME NEW j \in Job, job'[j].status = "awaiting_approval"
             PROVE  \/ job'[j].gate = "completion"
                    \/ job'[j].gate = "before_run" /\ Unapproved(j)'
  BY DEF AwaitsBehindGate
<1> DEFINE Kept == job'[j].status = job[j].status /\ job'[j].gate = job[j].gate /\ job'[j].approved = job[j].approved
<1>1. job \in [Job -> JobRec]
  BY DEF TypeOK
<1>2. CASE Kept
  BY <1>2 DEF AwaitsBehindGate, Unapproved
<1>3. ASSUME NEW k \in Client, NEW i \in Job, Prepare(k, i)
      PROVE  Kept
  <2>1. job' = [job EXCEPT ![i].marker = FALSE, ![i].gate = "none"]
    BY <1>3 DEF Prepare
  <2>2. i # j
    <3> SUFFICES ASSUME i = j PROVE FALSE
      OBVIOUS
    <3>1. job[j].status = "awaiting_approval"
      BY <1>1, <2>1 DEF JobRec
    <3>2. job[j].gate \in {"none", "max_rounds"}
      BY <1>3 DEF Prepare
    <3> QED BY <3>1, <3>2 DEF AwaitsBehindGate
  <2> QED BY <1>1, <2>1, <2>2
<1>4. ASSUME NEW w \in Worker, NEW s \in JobStatus, NEW gate \in Gate, Record(w, s, gate),
             s = "awaiting_approval" =>
               gate = "completion" \/ (gate = "before_run" /\ Unapproved(worker[w].job))
      PROVE  \/ job'[j].gate = "completion"
             \/ job'[j].gate = "before_run" /\ Unapproved(j)'
  <2>1. job' = [job EXCEPT ![worker[w].job].status = s,
                           ![worker[w].job].gate = IF gate = "none" THEN @ ELSE gate]
    BY <1>4 DEF Record
  <2>2. CASE worker[w].job # j
    BY <1>1, <1>2, <2>1, <2>2
  <2>3. CASE worker[w].job = j
    <3>1. /\ job'[j].status = s /\ job'[j].approved = job[j].approved
          /\ gate # "none" => job'[j].gate = gate
      BY <1>1, <2>1, <2>3 DEF JobRec
    <3> QED BY <1>4, <2>3, <3>1 DEF Unapproved
  <2> QED BY <2>2, <2>3
<1>5. ASSUME NEW d \in Dispatcher, Dispatch(d) \/ Abandon(d)
      PROVE  Kept
  <2>1. job' = job \/ \E i, left : job' = [job EXCEPT ![i].stray = left]
    BY <1>5 DEF Dispatch, Snapshot, Recon, CountActive, Spawn, Commit, Abandon
  <2> QED BY <1>1, <2>1 DEF JobRec
<1>6. ASSUME NEW w \in Worker, WorkerStep(w) \/ WorkerBeats(w) \/ WorkerFault(w)
      PROVE  \/ job'[j].gate = "completion"
             \/ job'[j].gate = "before_run" /\ Unapproved(j)'
  <2>1. CASE WorkerAsks(w)
    BY <1>4, <2>1 DEF WorkerAsks, JobStatus, Gate
  <2>2. CASE WorkerFinishes(w)
    <3>1. PICK s \in Outcomes, gate \in Gate :
            Record(w, s, gate) /\ (s = "awaiting_approval" <=> gate = "completion")
      BY <2>2 DEF WorkerFinishes
    <3>2. s \in JobStatus
      BY QueueAssumption DEF QueueAssumption
    <3> QED BY <1>4, <3>1, <3>2
  <2>3. CASE WorkerSeesCancel(w)
    BY <1>4, <2>3 DEF WorkerSeesCancel, JobStatus, Gate
  <2>4. CASE WorkerRuns(w) \/ WorkerGoesOn(w)
    <3>1. \E s \in {"running", "needs_fix"} : job' = [job EXCEPT ![worker[w].job].status = s]
      BY <2>4 DEF WorkerRuns, WorkerGoesOn
    <3>2. worker[w].job # j
      BY <1>1, <3>1 DEF JobRec
    <3> QED BY <1>1, <1>2, <3>1, <3>2
  <2>5. CASE \/ WorkerAdmitted(w) \/ WorkerTurnedAway(w) \/ WorkerBegins(w) \/ WorkerSkips(w)
             \/ WorkerReturns(w) \/ WorkerExits(w) \/ WorkerBeats(w) \/ WorkerFault(w)
    <3>1. \/ job' = job
          \/ \E i, b : job' = [job EXCEPT ![i].heartbeat = b]
          \/ \E i, b : job' = [job EXCEPT ![i].stray = b]
      BY <2>5 DEF WorkerAdmitted, WorkerTurnedAway, WorkerBegins, WorkerSkips, WorkerReturns, WorkerExits,
                  WorkerBeats, WorkerFault, WorkerThrows, WorkerStillborn, WorkerCrashes, Exit
    <3> QED BY <1>1, <1>2, <3>1 DEF JobRec
  <2> QED BY <1>6, <2>1, <2>2, <2>3, <2>4, <2>5 DEF WorkerStep
<1>7. ASSUME NEW k \in Client, Command(k)
      PROVE  Kept
  <2>1. CASE Start(k)
    BY <1>3, <2>1 DEF Start
  <2>2. CASE Launch(k)
    <3>1. client[k].job \in Job
      BY <2>2 DEF Launch, TypeOK, ClientRec
    <3> QED BY <1>3, <2>2, <3>1 DEF Launch
  <2>3. CASE ApproveWrites(k)
    <3>1. PICK s \in {"queued", "done", "needs_fix", "failed"} :
            job' = [job EXCEPT ![client[k].job].status = s, ![client[k].job].gate = "none",
                               ![client[k].job].approved = @ \/ client[k].gate = "before_run"]
      BY <2>3 DEF ApproveWrites
    <3>2. client[k].job # j
      BY <1>1, <3>1 DEF JobRec
    <3> QED BY <1>1, <3>1, <3>2
  <2>4. CASE CancelSettles(k) \/ RetryReplaces(k)
    <3>1. PICK s \in {"needs_fix", "cancelled", "queued"} : WritesBack(k, s)
      BY <2>4 DEF CancelSettles, RetryReplaces
    <3>2. client[k].job # j
      BY <1>1, <3>1 DEF WritesBack, JobRec
    <3> QED BY <1>1, <3>1, <3>2 DEF WritesBack
  <2>5. CASE \/ Enqueue(k) \/ ApproveReads(k) \/ CancelReads(k) \/ CancelMarks(k) \/ CancelDequeues(k)
             \/ RetryMarks(k) \/ LoadsState(k) \/ SetPaused(k) \/ CommandFails(k)
    <3>1. job' = job \/ \E i, b : job' = [job EXCEPT ![i].marker = b]
      BY <2>5 DEF Enqueue, ApproveReads, CancelReads, CancelMarks, CancelDequeues, RetryMarks,
                  LoadsState, SetPaused, CommandFails
    <3> QED BY <1>1, <3>1 DEF JobRec
  <2>6. CASE CancelKills(k)
    <3>1. PICK left \in BOOLEAN :
            job' = [job EXCEPT ![client[k].job].stray = (@ /\ ~client[k].stray) \/ left]
      BY <2>6 DEF CancelKills
    <3> QED BY <1>1, <3>1 DEF JobRec
  <2>7. CASE RetryKills(k)
    <3>1. PICK left : job' = [job EXCEPT ![client[k].job].stray = left, ![client[k].job].marker = FALSE]
      BY <2>7 DEF RetryKills
    <3> QED BY <1>1, <3>1 DEF JobRec
  <2> QED BY <1>7, <2>1, <2>2, <2>3, <2>4, <2>5, <2>6, <2>7 DEF Command
<1> QED BY <1>2, <1>5, <1>6, <1>7 DEF Next

\* A worker starts to run a job only past the checks under run.lock.
LEMMA RunsBehindNoGate ==
  ASSUME TypeOK, HaveJobs, AwaitsBehindGate, Next, NEW w \in Worker,
         worker[w].pc # "running", worker'[w].pc = "running"
  PROVE  job[worker[w].job].status # "awaiting_approval"
<1>1. worker \in [Worker -> WorkerRec]
  BY DEF TypeOK
<1>2. PICK v \in Worker : WorkerRuns(v)
  <2>1. ASSUME NEW d \in Dispatcher, Dispatch(d) \/ Abandon(d)
        PROVE  FALSE
    <3>1. worker' = worker \/ Spawn(d)
      BY <2>1 DEF Dispatch, Snapshot, Recon, CountActive, Commit, Abandon
    <3>2. ASSUME Spawn(d)
          PROVE  \E v, i, e : worker' = [worker EXCEPT ![v] = [pc |-> "spawned", job |-> i, entry |-> e]]
      BY <3>2 DEF Spawn
    <3> QED BY <1>1, <3>1, <3>2
  <2>2. ASSUME NEW k \in Client, Command(k)
        PROVE  FALSE
    <3>1. worker' = worker \/ worker' = [v \in Worker |-> IF v \in client[k].pids THEN Gone ELSE worker[v]]
      BY <2>2 DEF Command, Start, Enqueue, ApproveReads, ApproveWrites, Launch, CancelReads, CancelMarks,
         CancelDequeues, CancelKills, LoadsState, CancelSettles, RetryMarks, RetryKills,
         RetryReplaces, SetPaused, CommandFails
    <3> QED BY <3>1 DEF Gone
  <2>3. ASSUME NEW v \in Worker, WorkerStep(v) \/ WorkerBeats(v) \/ WorkerFault(v), ~WorkerRuns(v)
        PROVE  FALSE
    <3>1. \/ worker' = worker
          \/ worker' = [worker EXCEPT ![v] = Gone]
          \/ \E pc \in {"admitted", "locked", "recorded"} : worker' = [worker EXCEPT ![v].pc = pc]
      BY <2>3 DEF WorkerStep, WorkerFault, WorkerAdmitted, WorkerTurnedAway, WorkerBegins, WorkerSkips,
           WorkerReturns, WorkerAsks, WorkerFinishes, WorkerGoesOn, WorkerSeesCancel, Record, WorkerBeats, WorkerExits,
           WorkerThrows, WorkerStillborn, WorkerCrashes, Exit
    <3> QED BY <1>1, <3>1 DEF WorkerRec, Gone
  <2> QED BY <2>1, <2>2, <2>3 DEF Next
<1>3. v = w /\ MayRun(worker[w].job)
  BY <1>1, <1>2 DEF WorkerRuns, Executing, WorkerRec
<1>4. worker[w].job \in Job
  BY <1>2, <1>3 DEF HaveJobs, Lives, WorkerRuns, Executing
<1> QED BY <1>3, <1>4 DEF AwaitsBehindGate, MayRun, CompletionPending, Unapproved

AwaitInv == QueueInv /\ HaveJobs /\ AwaitsBehindGate

LEMMA AwaitInvariant == Spec => []AwaitInv
<1>1. Init => AwaitInv
  <2> SUFFICES ASSUME Init PROVE AwaitInv
    OBVIOUS
  <2>1. \A e \in Entry : queue[e].status = "none"
    BY DEF Init, NoRow
  <2>2. \A d \in Dispatcher, e \in Entry : disp[d].queue[e].status = "none"
    BY DEF Init, Idle, NoRow
  <2>3. HaveJobs
    BY <2>1, <2>2 DEF HaveJobs, Init, Lives, Gone
  <2>4. AwaitsBehindGate
    BY DEF AwaitsBehindGate, Init
  <2> QED BY <2>3, <2>4, QueueInvInit DEF AwaitInv
<1>2. AwaitInv /\ [Next]_vars => AwaitInv'
  <2> SUFFICES ASSUME AwaitInv, [Next]_vars PROVE AwaitInv'
    OBVIOUS
  <2>1. QueueInv'
    BY QueueInvStep DEF AwaitInv
  <2>2. CASE Next
    BY <2>1, <2>2, HaveJobsStep, AwaitsStep DEF AwaitInv, QueueInv
  <2>3. CASE UNCHANGED vars
    BY <2>1, <2>3 DEF vars, AwaitInv, HaveJobs, Lives, AwaitsBehindGate, Unapproved
  <2> QED BY <2>2, <2>3
<1> QED BY <1>1, <1>2, PTL DEF Spec

\* However many workers of one job a race of dispatches has started, the one that
\* takes run.lock second does not run a job that awaits an approval by now
\* (execution.ts:95-119, 815-824).
THEOREM AwaitingIsNotRun == Spec => NoRunWhileAwaiting
<1>1. AwaitInv /\ [Next]_vars =>
        [\A w \in Worker : worker[w].pc # "running" /\ worker'[w].pc = "running"
           => job[worker[w].job].status # "awaiting_approval"]_vars
  <2> SUFFICES ASSUME AwaitInv, Next
               PROVE  \A w \in Worker : worker[w].pc # "running" /\ worker'[w].pc = "running"
                        => job[worker[w].job].status # "awaiting_approval"
    OBVIOUS
  <2> QED BY RunsBehindNoGate DEF AwaitInv, QueueInv
<1> QED BY <1>1, AwaitInvariant, PTL DEF Spec, NoRunWhileAwaiting

-----------------------------------------------------------------------------
(* One entry of a job in progress *)

InProgress(q) == In(q, {"queued", "running"})

\* What is in progress was so before, unless a command has just created it.
LEMMA InProgressBefore ==
  ASSUME QueueInv, Next, \A k \in Client : ~Enqueue(k) /\ ~RetryReplaces(k), NEW e \in InProgress(queue')
  PROVE  e \in InProgress(queue) /\ queue'[e].job = queue[e].job
<1>1. TypeOK /\ e \in Entry /\ queue'[e].status \in {"queued", "running"}
  BY DEF QueueInv, InProgress, In
<1>2. queue'[e].job = queue[e].job
  BY <1>1, RowsComeFromCommands
<1>3. CASE queue' = queue
  BY <1>1, <1>3 DEF InProgress, In
<1>4. CASE \E d \in Dispatcher : Commit(d)
  BY <1>1, <1>2, <1>4, AppliedRows DEF Commit, InProgress, In
<1>5. CASE Recorded(queue') \/ Cancelled(queue') \/ Resolved(queue')
  BY <1>1, <1>2, <1>5, RowsOnlyEnd DEF InProgress, In
<1>6. ASSUME NEW k \in Client, Command(k)
      PROVE  queue' = queue \/ Cancelled(queue') \/ Resolved(queue')
  BY <1>6 DEF Command, Start, ApproveReads, ApproveWrites, Launch, CancelReads, CancelMarks,
         CancelDequeues, CancelKills, LoadsState, CancelSettles, RetryMarks, RetryKills,
         SetPaused, CommandFails, Cancelled, Resolved
<1>7. ASSUME NEW d \in Dispatcher, Dispatch(d) \/ Abandon(d), ~Commit(d)
      PROVE  queue' = queue
  BY <1>7 DEF Dispatch, Snapshot, Recon, CountActive, Spawn, Abandon
<1> QED BY <1>2, <1>3, <1>4, <1>5, <1>6, <1>7, WorkerRows DEF Next

\* A start creates an entry where no active one is, a retry where it ends those
\* in progress in the same transaction.
LEMMA NewEntryIsAlone ==
  ASSUME QueueInv, NEW k \in Client, Enqueue(k) \/ RetryReplaces(k)
  PROVE  \A e \in InProgress(queue') :
           \/ e \in InProgress(queue) /\ queue'[e] = queue[e]
              /\ (queue' # queue => queue[e].job # client[k].job)
           \/ e = nextId /\ queue'[e].job = client[k].job
<1> DEFINE r == CancelRows(client[k].job, {"queued", "running"})
<1>1. TypeOK /\ queue \in [Entry -> Row]
  BY DEF QueueInv, TypeOK
<1>2. \A p \in Priority : NewRow(client[k].job, p).job = client[k].job
  BY DEF NewRow, NoRow
<1>3. CASE Enqueue(k)
  <2>1. CASE queue' = queue
    BY <2>1
  <2>2. CASE queue' # queue
    <3>1. ~Duplicate(client[k].job) /\ nextId \in Entry
          /\ \E p \in Priority : queue' = [queue EXCEPT ![nextId] = NewRow(client[k].job, p)]
      BY <1>3, <2>2 DEF Enqueue
    <3>2. \A e \in InProgress(queue) : queue[e].job # client[k].job
      BY <3>1 DEF Duplicate, InProgress, In, Active
    <3>3. \A e \in Entry : e # nextId => queue'[e] = queue[e]
      BY <1>1, <3>1
    <3>4. queue'[nextId].job = client[k].job
      BY <1>1, <1>2, <3>1
    <3> QED BY <3>2, <3>3, <3>4 DEF InProgress, In
  <2> QED BY <2>1, <2>2
<1>4. CASE RetryReplaces(k)
  <2>1. r \in [Entry -> Row] /\ \A e \in Entry :
          /\ r[e].status \in {"queued", "running"} => queue[e].job # client[k].job /\ r[e] = queue[e]
    <3>1. r \in [Entry -> Row]
      BY <1>1, RowsStayTyped
    <3>2. ASSUME NEW e \in Entry, r[e].status \in {"queued", "running"}
          PROVE  queue[e].job # client[k].job /\ r[e] = queue[e]
      <4>1. queue[e] \in Row
        BY <1>1
      <4>2. r[e] = IF queue[e].job = client[k].job /\ queue[e].status \in {"queued", "running"}
                   THEN [queue[e] EXCEPT !.status = "cancelled", !.pid = None] ELSE queue[e]
        BY DEF CancelRows
      <4> HIDE DEF r
      <4> QED BY <3>2, <4>1, <4>2 DEF Row
    <3> QED BY <3>1, <3>2
  <2>2. nextId \in Entry /\ \E p \in Priority : queue' = [r EXCEPT ![nextId] = NewRow(client[k].job, p)]
    BY <1>4 DEF RetryReplaces
  <2> HIDE DEF r
  <2>3. \A e \in Entry : e # nextId => queue'[e] = r[e]
    BY <2>1, <2>2
  <2>4. queue'[nextId].job = client[k].job
    BY <1>2, <2>1, <2>2
  <2> QED BY <2>1, <2>3, <2>4 DEF InProgress, In
<1> QED BY <1>3, <1>4

\* Whatever dispatches, workers, starts, retries and cancels do at the same time,
\* and whatever fails, no job has two entries in progress (queue.ts:241, 376-381).
THEOREM OneAttemptAtATime == Spec => []OneEntryInProgress
<1>1. Init => OneEntryInProgress
  BY DEF Init, OneEntryInProgress, In, NoRow
<1>2. QueueInv /\ OneEntryInProgress /\ [Next]_vars => OneEntryInProgress'
  <2> SUFFICES ASSUME QueueInv, OneEntryInProgress, [Next]_vars,
                      NEW e \in InProgress(queue'), NEW f \in InProgress(queue'), queue'[e].job = queue'[f].job
               PROVE  e = f
    BY DEF OneEntryInProgress, InProgress
  <2>1. \A x, y \in InProgress(queue) : queue[x].job = queue[y].job => x = y
    BY DEF OneEntryInProgress, InProgress
  <2>2. CASE UNCHANGED vars
    BY <2>1, <2>2 DEF vars
  <2>3. ASSUME NEW k \in Client, Enqueue(k) \/ RetryReplaces(k)
        PROVE  e = f
    <3>1. CASE queue' = queue
      BY <2>1, <3>1
    <3>2. CASE queue' # queue
      BY <2>1, <2>3, <3>2, NewEntryIsAlone
    <3> QED BY <3>1, <3>2
  <2>4. CASE Next /\ \A k \in Client : ~Enqueue(k) /\ ~RetryReplaces(k)
    BY <2>1, <2>4, InProgressBefore
  <2> QED BY <2>2, <2>3, <2>4
<1> QED BY <1>1, <1>2, QueueInvariant, PTL DEF Spec

-----------------------------------------------------------------------------
(* How far dispatches go beyond the limit *)

\* The entries a dispatch has spawned workers for
Starting(d) == {e \in Entry : disp[d].spawned[e] # None}

\* The entries that ran when the dispatch loaded the queue and whose workers live
StillRunning(d) == {e \in In(disp[d].queue, {"running"}) : Alive(disp[d].queue[e].pid)}

\* The count a dispatch keeps covers the workers it has loaded, as far as they
\* still live, and those it has spawned, but for the entries it reclaims.
Counted ==
  \A d \in Dispatcher :
    /\ disp[d].pc = "recon" => Starting(d) = {}
    /\ disp[d].pc = "spawn" =>
         /\ Cardinality(StillRunning(d) \cup Starting(d)) <= disp[d].active + Cardinality(Reclaimed(d))
         /\ Starting(d) # {} => disp[d].active <= MaxConcurrent

\* Only a commit makes an entry run.
LEMMA LivingBefore ==
  ASSUME QueueInv, Next, \A d \in Dispatcher : ~Commit(d)
  PROVE  LivingEntries' \subseteq LivingEntries /\ \A e \in LivingEntries' : queue'[e] = queue[e]
<1> SUFFICES ASSUME NEW e \in Entry, queue'[e].status = "running", worker'[queue'[e].pid].pc # "gone"
             PROVE  e \in LivingEntries /\ queue'[e] = queue[e]
  BY DEF LivingEntries, In, Lives
<1>1. worker \in [Worker -> WorkerRec]
  BY DEF QueueInv, TypeOK
<1>2. queue[e].status = "running" => queue[e].pid \in Worker
  BY DEF QueueInv, PidIsOwnWorker, In, WorkerOf
<1>3. CASE Outside
  <2>1. \/ queue'[e] = queue[e]
        \/ e = nextId /\ queue[e].status = "none"
    BY <1>3, OutsideDispatch
  <2>2. queue'[e] = queue[e]
    BY <2>1, RowsComeFromCommands
  <2>3. \A w \in Worker : Lives(w)' => Lives(w)
    BY <1>3, OutsideDispatch
  <2>4. Lives(queue[e].pid)
    BY <1>2, <2>2, <2>3 DEF Lives
  <2> QED BY <2>2, <2>4 DEF LivingEntries, In
<1>4. ASSUME NEW d \in Dispatcher, Spawn(d)
      PROVE  e \in LivingEntries /\ queue'[e] = queue[e]
  <2>1. PICK x \in Waiting(d), w \in Worker :
          /\ Fresh(w)
          /\ worker' = [worker EXCEPT ![w] = [pc |-> "spawned", job |-> disp[d].queue[x].job, entry |-> x]]
    BY <1>4 DEF Spawn
  <2>2. queue' = queue
    BY <1>4 DEF Spawn
  <2>3. queue[e].pid # w
    BY <2>1 DEF Fresh
  <2> QED BY <1>1, <1>2, <2>1, <2>2, <2>3 DEF LivingEntries, In, Lives
<1>5. ASSUME NEW d \in Dispatcher, Dispatch(d) \/ Abandon(d), ~Spawn(d)
      PROVE  UNCHANGED <<queue, worker>>
  BY <1>5 DEF Dispatch, Snapshot, Recon, CountActive, Abandon
<1> QED BY <1>3, <1>4, <1>5 DEF Next, Outside, LivingEntries, In, Lives

\* A dead worker does not come to life while a dispatch refers to its pid.
LEMMA StillRunningBefore ==
  ASSUME QueueInv, Next, NEW d \in Dispatcher, disp'[d].queue = disp[d].queue
  PROVE  StillRunning(d)' \subseteq StillRunning(d)
<1> SUFFICES ASSUME NEW e \in Entry, disp[d].queue[e].status = "running", Alive(disp[d].queue[e].pid)'
             PROVE  Alive(disp[d].queue[e].pid)
  BY DEF StillRunning, In
<1>1. disp[d].queue[e].pid \in Worker /\ Lives(disp[d].queue[e].pid)'
  BY DEF Alive, Lives
<1>2. ~Fresh(disp[d].queue[e].pid)
  BY DEF Fresh
<1> QED BY <1>1, <1>2, WorkersComeFromSpawn DEF Alive, Lives

LEMMA CountedStep ==
  ASSUME QueueInv, Counted, Next
  PROVE  Counted'
<1> SUFFICES ASSUME NEW d \in Dispatcher
             PROVE  /\ disp'[d].pc = "recon" => Starting(d)' = {}
                    /\ disp'[d].pc = "spawn" =>
                         /\ Cardinality(StillRunning(d)' \cup Starting(d)') <= disp'[d].active + Cardinality(Reclaimed(d)')
                         /\ Starting(d)' # {} => disp'[d].active <= MaxConcurrent
  BY DEF Counted
<1>1. /\ disp \in [Dispatcher -> DispRec] /\ disp[d] \in DispRec /\ disp[d].active \in Nat
      /\ disp[d].spawned \in [Entry -> Worker \cup {None}]
  BY DEF QueueInv, TypeOK, DispRec
<1>2. \A S \in SUBSET Entry : IsFiniteSet(S) /\ Cardinality(S) \in Nat
  BY QueueAssumption, FS_Subset, FS_CardinalityType DEF QueueAssumption
<1>3. \A S, T \in SUBSET Entry : S \subseteq T => Cardinality(S) <= Cardinality(T)
  BY <1>2, FS_Subset
<1>4. /\ StillRunning(d) \in SUBSET Entry /\ Starting(d) \in SUBSET Entry /\ Reclaimed(d) \in SUBSET Entry
  BY DEF StillRunning, Starting, Reclaimed, In
<1>5. MaxConcurrent \in Nat
  BY QueueAssumption DEF QueueAssumption
<1>6. CASE disp'[d] = disp[d]
  <2>1. StillRunning(d)' \subseteq StillRunning(d) /\ Starting(d)' = Starting(d) /\ Reclaimed(d)' = Reclaimed(d)
    BY <1>6, StillRunningBefore DEF Starting, Reclaimed
  <2>2. StillRunning(d)' \cup Starting(d)' \in SUBSET Entry
    BY <1>4, <2>1
  <2>3. Cardinality(StillRunning(d)' \cup Starting(d)') <= Cardinality(StillRunning(d) \cup Starting(d))
    BY <1>3, <1>4, <2>1, <2>2
  <2>4. /\ Cardinality(StillRunning(d)' \cup Starting(d)') \in Nat
        /\ Cardinality(StillRunning(d) \cup Starting(d)) \in Nat /\ Cardinality(Reclaimed(d)) \in Nat
    BY <1>2, <1>4, <2>2
  <2> QED BY <1>1, <1>6, <2>1, <2>3, <2>4 DEF Counted
<1>7. CASE Snapshot(d)
  <2>1. disp'[d].pc = "recon" /\ disp'[d].spawned = [e \in Entry |-> None]
    BY <1>1, <1>7 DEF Snapshot, Idle
  <2> QED BY <2>1 DEF Starting
<1>8. CASE Recon(d)
  <2>1. disp'[d].pc = "recon" /\ disp[d].pc = "recon" /\ disp'[d].spawned = disp[d].spawned
    BY <1>1, <1>8 DEF Recon, DispRec
  <2> QED BY <2>1 DEF Counted, Starting
<1>9. CASE CountActive(d)
  <2> DEFINE n == Cardinality(StillRunning(d)) - Cardinality(Reclaimed(d))
  <2>1. disp' = [disp EXCEPT ![d].pc = "spawn", ![d].active = IF n > 0 THEN n ELSE 0, ![d].judged = {}]
        /\ disp[d].pc = "recon" /\ worker' = worker
    BY <1>9 DEF CountActive, StillRunning
  <2>2. n \in Int /\ Cardinality(StillRunning(d)) <= n + Cardinality(Reclaimed(d))
    BY <1>2, <1>4
  <2> HIDE DEF n
  <2>3. /\ disp'[d].pc = "spawn" /\ disp'[d].active = IF n > 0 THEN n ELSE 0
        /\ disp'[d].spawned = disp[d].spawned /\ disp'[d].verdict = disp[d].verdict
        /\ disp'[d].queue = disp[d].queue
    BY <1>1, <2>1 DEF DispRec
  <2>4. Starting(d)' = {} /\ Reclaimed(d)' = Reclaimed(d) /\ StillRunning(d)' = StillRunning(d)
    BY <2>1, <2>3 DEF Counted, Starting, Reclaimed, StillRunning, Alive, In
  <2>5. Cardinality(StillRunning(d)) <= disp'[d].active + Cardinality(Reclaimed(d))
    BY <1>2, <1>4, <2>2, <2>3
  <2>6. StillRunning(d)' \cup Starting(d)' = StillRunning(d)
    BY <2>4
  <2> QED BY <2>3, <2>4, <2>5, <2>6
<1>10. CASE Spawn(d)
  <2>1. PICK x \in Waiting(d), w \in Worker, ok \in BOOLEAN :
          disp' = IF ok THEN [disp EXCEPT ![d].spawned[x] = w, ![d].active = @ + 1]
                        ELSE [disp EXCEPT ![d].failed = @ \cup {x}]
    BY <1>10 DEF Spawn
  <2>2. disp[d].pc = "spawn" /\ disp[d].active < MaxConcurrent /\ x \in Entry
    BY <1>10 DEF Spawn, CanSpawn, Waiting, In
  <2>3. disp'[d].queue = disp[d].queue /\ disp'[d].verdict = disp[d].verdict
    BY <1>1, <2>1 DEF DispRec
  <2>4. StillRunning(d)' \subseteq StillRunning(d) /\ Reclaimed(d)' = Reclaimed(d)
    BY <2>3, StillRunningBefore DEF Reclaimed
  <2> DEFINE S == StillRunning(d) \cup Starting(d)
             T == StillRunning(d)' \cup Starting(d)'
  <2>5. Cardinality(S) <= disp[d].active + Cardinality(Reclaimed(d)) /\ S \in SUBSET Entry
    BY <1>4, <2>2 DEF Counted
  <2>6. CASE ok
    <3>1. /\ disp'[d].active = disp[d].active + 1
          /\ disp'[d].spawned = [disp[d].spawned EXCEPT ![x] = w]
      BY <1>1, <2>1, <2>6 DEF DispRec
    <3>2. Starting(d)' \subseteq Starting(d) \cup {x}
      BY <1>1, <3>1 DEF Starting
    <3>3. T \subseteq S \cup {x} /\ S \cup {x} \in SUBSET Entry /\ T \in SUBSET Entry
      BY <1>4, <2>2, <2>4, <3>2
    <3> HIDE DEF S, T
    <3>4. Cardinality(S \cup {x}) <= Cardinality(S) + 1
      <4>1. IsFiniteSet(S) /\ Cardinality(S) \in Nat
        BY <1>2, <2>5
      <4>2. Cardinality(S \cup {x}) = IF x \in S THEN Cardinality(S) ELSE Cardinality(S) + 1
        BY <4>1, FS_AddElement
      <4> QED BY <4>1, <4>2
    <3>5. Cardinality(T) <= Cardinality(S \cup {x})
      BY <1>3, <3>3
    <3>6. /\ Cardinality(S) \in Nat /\ Cardinality(T) \in Nat /\ Cardinality(S \cup {x}) \in Nat
          /\ Cardinality(Reclaimed(d)) \in Nat
      BY <1>2, <1>4, <2>5, <3>3
    <3>7. Cardinality(T) <= disp'[d].active + Cardinality(Reclaimed(d)')
      BY <1>1, <2>4, <2>5, <3>1, <3>4, <3>5, <3>6
    <3>8. disp'[d].active <= MaxConcurrent
      BY <1>1, <1>5, <2>2, <3>1
    <3>9. disp'[d].pc = "spawn"
      BY <1>1, <2>1, <2>2, <2>6 DEF DispRec
    <3> QED BY <3>7, <3>8, <3>9 DEF T
  <2>7. CASE ~ok
    <3>1. /\ disp'[d].pc = "spawn" /\ disp'[d].active = disp[d].active /\ disp'[d].spawned = disp[d].spawned
      BY <1>1, <2>1, <2>2, <2>7 DEF DispRec
    <3>2. Starting(d)' = Starting(d)
      BY <3>1 DEF Starting
    <3>3. T \subseteq S /\ T \in SUBSET Entry
      BY <2>4, <2>5, <3>2
    <3> HIDE DEF S, T
    <3>4. Cardinality(T) <= Cardinality(S)
      BY <1>3, <2>5, <3>3
    <3>5. Cardinality(S) \in Nat /\ Cardinality(T) \in Nat /\ Cardinality(Reclaimed(d)) \in Nat
      BY <1>2, <1>4, <2>5, <3>3
    <3>6. Cardinality(T) <= disp'[d].active + Cardinality(Reclaimed(d)')
      BY <1>1, <2>4, <2>5, <3>1, <3>4, <3>5
    <3>7. disp'[d].active <= MaxConcurrent
      BY <1>1, <1>5, <2>2, <3>1
    <3> QED BY <3>1, <3>6, <3>7 DEF T
  <2> QED BY <2>6, <2>7
<1>11. CASE Commit(d) \/ Abandon(d)
  <2>1. disp'[d].pc = "idle"
    BY <1>1, <1>11 DEF Commit, Abandon, Idle
  <2> QED BY <2>1
<1>12. ASSUME NEW c \in Dispatcher, c # d, Dispatch(c) \/ Abandon(c)
       PROVE  disp'[d] = disp[d]
  BY <1>1, <1>12 DEF Dispatch, Snapshot, Recon, CountActive, Spawn, Commit, Abandon
<1>13. Outside => disp' = disp
  BY OutsideDispatch
<1> QED BY <1>6, <1>7, <1>8, <1>9, <1>10, <1>11, <1>12, <1>13 DEF Next, Outside, Dispatch

\* However many processes dispatch at the same time, and whatever users, workers
\* and faults do, a commit that makes entries run leaves at most maxConcurrent
\* living workers, and one more for every entry this dispatch has reclaimed or
\* another has started since this one loaded the queue (queue.ts:144-158, 176-181).
THEOREM LimitIsOverrunByRaces == Spec => OvershootIsBounded
<1> DEFINE Inv == QueueInv /\ Counted
           Grows == \A d \in Dispatcher : disp'[d] # disp[d] =>
                      ~(Cardinality(LivingEntries')
                          <= MaxConcurrent + Cardinality(Reclaimed(d)) + Cardinality(StartedByOthers(d)))
<1>1. Init => Inv
  <2>1. Init => \A d \in Dispatcher : disp[d].pc = "idle"
    BY DEF Init, Idle
  <2> QED BY <2>1, QueueInvInit DEF Counted
<1>2. Inv /\ [Next]_vars => Inv'
  <2> SUFFICES ASSUME Inv, [Next]_vars PROVE Inv'
    OBVIOUS
  <2>1. QueueInv'
    BY QueueInvStep
  <2>2. CASE Next
    BY <2>1, <2>2, CountedStep
  <2>3. CASE UNCHANGED vars
    BY <2>1, <2>3 DEF vars, Counted, StillRunning, Starting, Reclaimed, In, Alive
  <2> QED BY <2>2, <2>3
<1>3. Inv /\ Next => LivingEntries' \subseteq LivingEntries \/ ~Grows
  <2> SUFFICES ASSUME Inv, NEW d \in Dispatcher, Commit(d), ~(LivingEntries' \subseteq LivingEntries)
               PROVE  /\ disp'[d] # disp[d]
                      /\ Cardinality(LivingEntries')
                           <= MaxConcurrent + Cardinality(Reclaimed(d)) + Cardinality(StartedByOthers(d))
    BY LivingBefore
  <2>1. TypeOK /\ disp[d].active \in Nat /\ MaxConcurrent \in Nat
    BY QueueAssumption DEF QueueInv, TypeOK, DispRec, QueueAssumption
  <2>2. queue' = Truncated(Applied(d)) /\ worker' = worker /\ disp[d].pc = "spawn" /\ disp'[d] = Idle
    BY <2>1 DEF Commit, TypeOK
  <2>3. LivingEntries' \subseteq LivingEntries \cup Starting(d)
    <3> SUFFICES ASSUME NEW e \in Entry, queue'[e].status = "running", worker'[queue'[e].pid].pc # "gone", e \notin Starting(d)
                 PROVE  e \in LivingEntries
      BY DEF LivingEntries, In, Lives
    <3>1. queue[e].status = "running" /\ queue'[e].pid = queue[e].pid
      BY <2>1, <2>2, AppliedRows DEF Starting
    <3> QED BY <2>2, <3>1 DEF LivingEntries, In, Lives
  <2>4. LivingEntries \subseteq StartedByOthers(d) \cup StillRunning(d)
    <3>1. \A e \in LivingEntries : e \in Entry /\ queue[e].pid \in Worker /\ Lives(queue[e].pid)
      BY DEF LivingEntries, QueueInv, PidIsOwnWorker, WorkerOf, In
    <3> QED BY <3>1 DEF StartedByOthers, StillRunning, Alive, Lives, In
  <2> DEFINE S == StillRunning(d) \cup Starting(d)
             O == StartedByOthers(d)
  <2>5. Cardinality(S) <= disp[d].active + Cardinality(Reclaimed(d)) /\ disp[d].active <= MaxConcurrent
    BY <2>2, <2>3 DEF Counted
  <2>6. S \in SUBSET Entry /\ O \in SUBSET Entry /\ Reclaimed(d) \in SUBSET Entry
    BY DEF StartedByOthers, LivingEntries, StillRunning, Starting, Reclaimed, In
  <2>7. LivingEntries' \subseteq S \cup O
    BY <2>3, <2>4
  <2> HIDE DEF S
  <2>8. /\ IsFiniteSet(S) /\ IsFiniteSet(O) /\ IsFiniteSet(S \cup O)
        /\ Cardinality(S) \in Nat /\ Cardinality(O) \in Nat /\ Cardinality(Reclaimed(d)) \in Nat
    BY <2>6, QueueAssumption, FS_Subset, FS_CardinalityType DEF QueueAssumption
  <2>9. Cardinality(S \cup O) <= Cardinality(S) + Cardinality(O) /\ Cardinality(S \cup O) \in Nat
    <3>1. Cardinality(S \cup O) = Cardinality(S) + Cardinality(O) - Cardinality(S \cap O)
      BY <2>8, FS_Union
    <3>2. Cardinality(S \cap O) \in Nat
      BY <2>8, FS_Subset, FS_CardinalityType
    <3> QED BY <2>8, <3>1, <3>2, FS_CardinalityType
  <2>10. Cardinality(LivingEntries') <= Cardinality(S \cup O) /\ Cardinality(LivingEntries') \in Nat
    BY <2>7, <2>8, FS_Subset, FS_CardinalityType
  <2>11. disp'[d] # disp[d]
    BY <2>2 DEF Idle
  <2> QED BY <2>1, <2>5, <2>8, <2>9, <2>10, <2>11
<1>4. Inv /\ [Next]_vars =>
        [\/ LivingEntries' \subseteq LivingEntries
         \/ \E d \in Dispatcher :
              /\ disp'[d] # disp[d]
              /\ Cardinality(LivingEntries')
                   <= MaxConcurrent + Cardinality(Reclaimed(d)) + Cardinality(StartedByOthers(d))]_vars
  BY <1>3
<1> QED BY <1>1, <1>2, <1>4, PTL DEF Spec, OvershootIsBounded

-----------------------------------------------------------------------------
(* A queued job can be started *)

\* The row of a worker's entry, while it is in the table, is a row of its job.
WorksOnOwnRow ==
  \A w \in Worker : Lives(w) =>
    /\ worker[w].entry < nextId
    /\ queue[worker[w].entry].status # "none" => queue[worker[w].entry].job = worker[w].job

LEMMA WorksOnOwnRowStep ==
  ASSUME QueueInv, HaveJobs, WorksOnOwnRow, Next
  PROVE  WorksOnOwnRow'
<1> SUFFICES ASSUME NEW w \in Worker, Lives(w)'
             PROVE  /\ worker'[w].entry < nextId'
                    /\ queue'[worker'[w].entry].status # "none" => queue'[worker'[w].entry].job = worker'[w].job
  BY DEF WorksOnOwnRow
<1>1. TypeOK /\ nextId \in Nat /\ Entry \subseteq Nat
  BY QueueAssumption DEF QueueInv, TypeOK, QueueAssumption
<1>2. nextId' \in Nat /\ nextId' >= nextId
  <2>1. nextId' = nextId \/ nextId' = nextId + 1
    <3>1. ASSUME NEW k \in Client, Command(k)
          PROVE  nextId' = nextId \/ nextId' = nextId + 1
      BY <3>1, ClientRows DEF Created
    <3>2. ASSUME NEW v \in Worker, WorkerStep(v) \/ WorkerBeats(v) \/ WorkerFault(v)
          PROVE  nextId' = nextId
      BY <3>2 DEF WorkerStep, WorkerFault, WorkerAdmitted, WorkerTurnedAway, WorkerBegins, WorkerSkips,
         WorkerReturns, WorkerAsks, WorkerRuns, WorkerFinishes, WorkerGoesOn, WorkerSeesCancel, Record,
         WorkerBeats, WorkerExits, WorkerThrows, WorkerStillborn, WorkerCrashes
    <3>3. ASSUME NEW d \in Dispatcher, Dispatch(d) \/ Abandon(d)
          PROVE  nextId' = nextId
      BY <3>3 DEF Dispatch, Snapshot, Recon, CountActive, Spawn, Commit, Abandon
    <3> QED BY <3>1, <3>2, <3>3 DEF Next
  <2> QED BY <1>1, <2>1
<1>3. CASE Lives(w) /\ worker'[w].entry = worker[w].entry /\ worker'[w].job = worker[w].job
  <2> DEFINE e == worker[w].entry
  <2>1. e \in Entry /\ e < nextId /\ (queue[e].status # "none" => queue[e].job = worker[w].job)
    BY <1>3 DEF HaveJobs, WorksOnOwnRow
  <2>2. queue'[e].status # "none" => queue[e].status # "none" /\ queue'[e].job = queue[e].job
    <3>1. e # nextId
      BY <1>1, <2>1
    <3> HIDE DEF e
    <3> QED BY <2>1, <3>1, RowsComeFromCommands
  <2>3. e < nextId'
    <3>1. e \in Nat /\ e < nextId
      BY <1>1, <2>1
    <3> HIDE DEF e
    <3> QED BY <1>1, <1>2, <3>1
  <2>4. queue'[e].status # "none" => queue'[e].job = worker[w].job
    BY <2>1, <2>2
  <2>5. worker'[w].entry = e /\ worker'[w].job = worker[w].job
    BY <1>3
  <2> HIDE DEF e
  <2> QED BY <2>3, <2>4, <2>5
<1>4. ASSUME NEW d \in Dispatcher, NEW e \in Waiting(d),
             worker' = [worker EXCEPT ![w] = [pc |-> "spawned", job |-> disp[d].queue[e].job, entry |-> e]],
             UNCHANGED <<queue, nextId>>
      PROVE  /\ worker'[w].entry < nextId'
             /\ queue'[worker'[w].entry].status # "none" => queue'[worker'[w].entry].job = worker'[w].job
  <2>1. e \in Entry /\ disp[d].queue[e].status = "queued"
    BY DEF Waiting, In
  <2>2. worker'[w].entry = e /\ worker'[w].job = disp[d].queue[e].job
    BY <1>1, <1>4 DEF TypeOK
  <2> QED BY <1>4, <2>1, <2>2 DEF QueueInv, RowsAreKnown
<1> QED BY <1>3, <1>4, WorkersComeFromSpawn

\* Where nobody retries
NoRetry == \A k \in Client : client[k].pc \notin {"reset", "reload", "replace"}

LEMMA NoRetryStep ==
  ASSUME "retry" \notin Ops, TypeOK, NoRetry, Next
  PROVE  NoRetry'
<1>1. client \in [Client -> ClientRec]
  BY DEF TypeOK
<1>2. ASSUME NEW k \in Client, Command(k)
      PROVE  NoRetry'
  <2>1. client[k] \in ClientRec /\ client[k].pc \notin {"reset", "reload", "replace"}
    BY <1>1 DEF NoRetry
  <2>2. ~RetryMarks(k) /\ ~RetryKills(k) /\ ~RetryReplaces(k)
    BY <2>1 DEF RetryMarks, RetryKills, RetryReplaces
  <2>3. ASSUME \A n \in Client \ {k} : client'[n] = client[n],
               client'[k].pc \notin {"reset", "reload", "replace"}
        PROVE  NoRetry'
    BY <2>3 DEF NoRetry
  <2>4. CASE Start(k)
    <3>1. client' = [client EXCEPT ![k].pc = "start", ![k].job = client'[k].job]
      BY <1>1, <2>4 DEF Start, Prepare
    <3> QED BY <1>1, <2>1, <2>3, <3>1 DEF ClientRec
  <2>5. CASE ApproveReads(k)
    BY <1>1, <2>1, <2>3, <2>5 DEF ApproveReads, ClientRec
  <2>6. CASE Launch(k)
    BY <1>1, <2>1, <2>3, <2>6 DEF Launch, Prepare, NoCommand, ClientRec
  <2>7. CASE CancelReads(k)
    BY <1>1, <2>3, <2>7 DEF CancelReads, NoCommand
  <2>8. CASE CancelMarks(k) \/ CancelDequeues(k)
    BY <1>1, <2>1, <2>3, <2>8 DEF CancelMarks, CancelDequeues, ClientRec
  <2>9. CASE CancelKills(k)
    <3>1. PICK s \in BOOLEAN : client' = [client EXCEPT ![k].pc = "load", ![k].pids = {}, ![k].survivors = s]
      BY <2>9 DEF CancelKills
    <3> QED BY <1>1, <2>1, <2>3, <3>1 DEF ClientRec
  <2>10. CASE LoadsState(k)
    BY <1>1, <2>1, <2>3, <2>10 DEF LoadsState, ClientRec
  <2>11. CASE Enqueue(k) \/ CancelSettles(k) \/ CommandFails(k)
    <3>1. client' = [client EXCEPT ![k] = NoCommand]
      BY <2>11 DEF Enqueue, CancelSettles, CommandFails
    <3> QED BY <1>1, <2>3, <3>1 DEF NoCommand
  <2>12. CASE ApproveWrites(k)
    <3>1. \/ client' = [client EXCEPT ![k] = NoCommand]
          \/ client' = [client EXCEPT ![k] = [NoCommand EXCEPT !.pc = "launch", !.job = client[k].job]]
      BY <2>12 DEF ApproveWrites
    <3>2. NoCommand.pc = "idle" /\ [NoCommand EXCEPT !.pc = "launch", !.job = client[k].job].pc = "launch"
      BY DEF NoCommand
    <3> QED BY <1>1, <2>3, <3>1, <3>2
  <2>13. CASE SetPaused(k)
    BY <2>13 DEF SetPaused, NoRetry
  <2> QED BY <1>2, <2>2, <2>4, <2>5, <2>6, <2>7, <2>8, <2>9, <2>10, <2>11, <2>12, <2>13 DEF Command
<1>3. ASSUME NEW v \in Worker, WorkerStep(v) \/ WorkerBeats(v) \/ WorkerFault(v)
      PROVE  client' = client
  BY <1>3 DEF WorkerStep, WorkerFault, WorkerAdmitted, WorkerTurnedAway, WorkerBegins, WorkerSkips,
     WorkerReturns, WorkerAsks, WorkerRuns, WorkerFinishes, WorkerGoesOn, WorkerSeesCancel, Record,
     WorkerBeats, WorkerExits, WorkerThrows, WorkerStillborn, WorkerCrashes
<1>4. ASSUME NEW d \in Dispatcher, Dispatch(d) \/ Abandon(d)
      PROVE  client' = client
  BY <1>4 DEF Dispatch, Snapshot, Recon, CountActive, Spawn, Commit, Abandon
<1> QED BY <1>2, <1>3, <1>4 DEF Next, NoRetry

\* What a worker does to the rows that await approval and to the states of jobs: a
\* row that begins to await does so together with the state of its job.
LEMMA WorkerWaits ==
  ASSUME QueueInv, HaveJobs, WorksOnOwnRow, NEW w \in Worker,
         WorkerStep(w) \/ WorkerBeats(w) \/ WorkerFault(w),
         NEW j \in Job, job'[j].status = "queued"
  PROVE  /\ job[j].status = "queued" /\ job'[j].gate = job[j].gate
         /\ \A e \in In(queue', {"awaiting_approval"}) : queue'[e].job = j =>
              e \in In(queue, {"awaiting_approval"}) /\ queue[e].job = j
<1> DEFINE i == worker[w].job
           Goal == /\ job[j].status = "queued" /\ job'[j].gate = job[j].gate
                   /\ \A e \in In(queue', {"awaiting_approval"}) : queue'[e].job = j =>
                        e \in In(queue, {"awaiting_approval"}) /\ queue[e].job = j
<1>1. TypeOK /\ job \in [Job -> JobRec] /\ job[j] \in JobRec /\ queue \in [Entry -> Row]
  BY DEF QueueInv, TypeOK
<1>2. Lives(w) => worker[w].entry \in Entry
                  /\ (queue[worker[w].entry].status # "none" => queue[worker[w].entry].job = i)
  BY DEF HaveJobs, WorksOnOwnRow
<1>3. ASSUME NEW s, queue' = FinishRow(worker[w].entry, s), s # "awaiting_approval" \/ i # j, Lives(w)
      PROVE  \A e \in In(queue', {"awaiting_approval"}) : queue'[e].job = j =>
               e \in In(queue, {"awaiting_approval"}) /\ queue[e].job = j
  <2>1. SUFFICES ASSUME NEW e \in Entry, queue'[e].status = "awaiting_approval", queue'[e].job = j
                 PROVE  queue[e].status = "awaiting_approval" /\ queue[e].job = j
    BY DEF In
  <2>2. CASE queue'[e] = queue[e]
    BY <2>1, <2>2
  <2>3. CASE queue'[e] # queue[e]
    <3>1. /\ e = worker[w].entry /\ queue[e].status # "none"
          /\ queue'[e] = [queue[e] EXCEPT !.status = QueueStatusOf(s), !.pid = None]
      BY <1>1, <1>3, <2>3 DEF FinishRow
    <3>2. queue'[e].status = QueueStatusOf(s) /\ queue'[e].job = queue[e].job
      BY <1>1, <3>1 DEF Row
    <3>3. s = "awaiting_approval" /\ i = j
      BY <1>2, <1>3, <2>1, <3>1, <3>2 DEF QueueStatusOf
    <3> QED BY <1>3, <3>3
  <2> QED BY <2>2, <2>3
<1>4. ASSUME NEW s \in JobStatus \ {"queued"}, NEW gate, Record(w, s, gate), Lives(w)
      PROVE  Goal
  <2>1. job' = [job EXCEPT ![i].status = s, ![i].gate = IF gate = "none" THEN @ ELSE gate]
        /\ queue' = FinishRow(worker[w].entry, s)
    BY <1>4 DEF Record
  <2>2. i # j
    BY <1>1, <1>4, <2>1 DEF JobRec
  <2>3. job'[j] = job[j]
    BY <1>1, <2>1, <2>2
  <2> QED BY <1>3, <1>4, <2>1, <2>2, <2>3
<1>5. CASE WorkerFinishes(w) \/ WorkerAsks(w) \/ WorkerSeesCancel(w)
  <2>1. Lives(w)
    BY <1>5 DEF Lives, WorkerFinishes, WorkerAsks, WorkerSeesCancel, Executing
  <2>2. \E s \in JobStatus \ {"queued"} : \E gate : Record(w, s, gate)
    BY <1>5, QueueAssumption DEF QueueAssumption, JobStatus, WorkerFinishes, WorkerAsks, WorkerSeesCancel
  <2> QED BY <1>4, <2>1, <2>2
<1>6. CASE WorkerGoesOn(w) \/ WorkerRuns(w)
  <2>1. PICK s \in {"needs_fix", "running"} : job' = [job EXCEPT ![i].status = s]
    BY <1>6 DEF WorkerGoesOn, WorkerRuns
  <2>2. i # j
    BY <1>1, <2>1 DEF JobRec
  <2>3. job'[j] = job[j]
    BY <1>1, <2>1, <2>2
  <2>4. queue' = queue \/ (queue' = FinishRow(worker[w].entry, "needs_fix") /\ Lives(w))
    BY <1>6 DEF WorkerGoesOn, WorkerRuns, Lives
  <2> QED BY <1>3, <2>2, <2>3, <2>4
<1>7. CASE WorkerSkips(w)
  <2>1. job' = job /\ Lives(w) /\ \E s \in {"cancelled", "failed"} : queue' = FinishRow(worker[w].entry, s)
    BY <1>7 DEF WorkerSkips, Lives
  <2> QED BY <1>3, <2>1
<1>8. CASE \/ WorkerAdmitted(w) \/ WorkerTurnedAway(w) \/ WorkerBegins(w)
           \/ WorkerReturns(w) \/ WorkerExits(w) \/ WorkerBeats(w) \/ WorkerFault(w)
  <2>1. /\ queue' = queue
        /\ \/ job' = job
           \/ \E x, b : job' = [job EXCEPT ![x].heartbeat = b]
           \/ \E x, b : job' = [job EXCEPT ![x].stray = b]
    BY <1>8 DEF WorkerAdmitted, WorkerTurnedAway, WorkerBegins, WorkerReturns, WorkerExits,
                WorkerBeats, WorkerFault, WorkerThrows, WorkerStillborn, WorkerCrashes, Exit
  <2> QED BY <1>1, <2>1 DEF JobRec
<1> QED BY <1>5, <1>6, <1>7, <1>8 DEF WorkerStep

\* The same of a command; an approval leaves a queued job without either.
LEMMA CommandWaits ==
  ASSUME QueueInv, NoRetry, "retry" \notin Ops, NEW k \in Client, Command(k),
         NEW j \in Job, job'[j].status = "queued"
  PROVE  \/ /\ job'[j].gate = "none"
            /\ \A e \in In(queue', {"awaiting_approval"}) : queue'[e].job # j
         \/ /\ job[j].status = "queued" /\ job'[j].gate \in {job[j].gate, "none"}
            /\ \A e \in In(queue', {"awaiting_approval"}) : queue'[e].job = j =>
                 e \in In(queue, {"awaiting_approval"}) /\ queue[e].job = j
<1> DEFINE i == client[k].job
           Fewer == \A e \in In(queue', {"awaiting_approval"}) : queue'[e].job = j =>
                      e \in In(queue, {"awaiting_approval"}) /\ queue[e].job = j
<1>1. TypeOK /\ job \in [Job -> JobRec] /\ job[j] \in JobRec /\ queue \in [Entry -> Row]
  BY DEF QueueInv, TypeOK
<1>2. CASE ApproveWrites(k)
  <2>1. PICK s \in {"queued", "done", "needs_fix", "failed"} :
          /\ queue' = ResolveRows(i, IF s \in {"queued", "done"} THEN "done" ELSE "failed")
          /\ job' = [job EXCEPT ![i].status = s, ![i].gate = "none",
                                ![i].approved = @ \/ client[k].gate = "before_run"]
    BY <1>2 DEF ApproveWrites
  <2>2. \A e \in Entry : queue'[e].status = "awaiting_approval" =>
          queue[e].status = "awaiting_approval" /\ queue[e].job # i /\ queue'[e].job = queue[e].job
    <3> SUFFICES ASSUME NEW e \in Entry, queue'[e].status = "awaiting_approval"
                 PROVE  queue[e].status = "awaiting_approval" /\ queue[e].job # i /\ queue'[e].job = queue[e].job
      OBVIOUS
    <3> DEFINE new == IF s \in {"queued", "done"} THEN "done" ELSE "failed"
    <3>1. new \in {"done", "failed"}
      OBVIOUS
    <3>2. queue'[e] = IF queue[e].job = i /\ queue[e].status = "awaiting_approval"
                      THEN [queue[e] EXCEPT !.status = new, !.pid = None] ELSE queue[e]
      BY <2>1 DEF ResolveRows
    <3> HIDE DEF new
    <3>3. queue[e] \in Row
      BY <1>1
    <3> QED BY <3>1, <3>2, <3>3 DEF Row
  <2>3. CASE i = j
    <3>1. job'[j].gate = "none"
      BY <1>1, <2>1, <2>3 DEF JobRec
    <3> QED BY <2>2, <2>3, <3>1 DEF In
  <2>4. CASE i # j
    <3>1. job'[j] = job[j]
      BY <1>1, <2>1, <2>4
    <3> QED BY <2>2, <3>1 DEF In
  <2> QED BY <2>3, <2>4
<1>3. ASSUME NEW s \in SUBSET Active, queue' = CancelRows(i, s)
      PROVE  Fewer
  <2>1. SUFFICES ASSUME NEW e \in Entry, queue'[e].status = "awaiting_approval", queue'[e].job = j
                 PROVE  queue[e].status = "awaiting_approval" /\ queue[e].job = j
    BY DEF In
  <2>2. queue[e] \in Row
    BY <1>1
  <2>3. queue'[e] = queue[e] \/ queue'[e] = [queue[e] EXCEPT !.status = "cancelled", !.pid = None]
    BY <1>3 DEF CancelRows
  <2> QED BY <2>1, <2>2, <2>3 DEF Row
<1>4. CASE CancelSettles(k)
  <2>1. PICK s \in {"needs_fix", "cancelled"} : WritesBack(k, s)
    BY <1>4 DEF CancelSettles
  <2>2. i # j
    BY <1>1, <2>1 DEF WritesBack, JobRec
  <2>3. job'[j] = job[j]
    BY <1>1, <2>1, <2>2 DEF WritesBack
  <2>4. Fewer
    BY <1>3, <1>4 DEF CancelSettles
  <2> QED BY <2>3, <2>4
<1>5. CASE CancelDequeues(k)
  <2>1. job' = job /\ (queue' = queue \/ queue' = CancelRows(i, Active))
    BY <1>5 DEF CancelDequeues
  <2> QED BY <1>3, <2>1
<1>6. CASE Enqueue(k)
  <2>1. job' = job
    BY <1>6 DEF Enqueue
  <2>2. queue' = queue \/ \E p \in Priority : queue' = [queue EXCEPT ![nextId] = NewRow(i, p)]
    BY <1>6 DEF Enqueue
  <2>3. \A p \in Priority : NewRow(i, p).status = "queued"
    BY DEF NewRow, NoRow
  <2>4. \A e \in Entry : queue'[e] = queue[e] \/ queue'[e].status = "queued"
    BY <1>1, <2>2, <2>3
  <2> QED BY <2>1, <2>4 DEF In
<1>7. CASE Start(k) \/ Launch(k)
  <2>1. queue' = queue /\ (job' = job \/ \E x \in Job : job' = [job EXCEPT ![x].marker = FALSE, ![x].gate = "none"])
    <3>1. client[k].pc = "launch" => i \in Job
      BY <1>1 DEF TypeOK, ClientRec
    <3> QED BY <1>7, <3>1 DEF Start, Launch, Prepare
  <2>2. job'[j].status = job[j].status /\ job'[j].gate \in {job[j].gate, "none"}
    <3>1. ASSUME NEW x \in Job, job' = [job EXCEPT ![x].marker = FALSE, ![x].gate = "none"]
          PROVE  job'[j].status = job[j].status /\ job'[j].gate \in {job[j].gate, "none"}
      <4>1. CASE x = j
        <5>1. job'[j] = [job[j] EXCEPT !.marker = FALSE, !.gate = "none"]
          BY <1>1, <3>1, <4>1
        <5> QED BY <1>1, <5>1 DEF JobRec
      <4>2. CASE x # j
        BY <1>1, <3>1, <4>2
      <4> QED BY <4>1, <4>2
    <3> QED BY <2>1, <3>1
  <2> QED BY <2>1, <2>2
<1>8. CASE CancelKills(k)
  <2>1. queue' = queue /\ \E b : job' = [job EXCEPT ![i].stray = b]
    BY <1>8 DEF CancelKills
  <2> QED BY <1>1, <2>1 DEF JobRec
<1>9. CASE ApproveReads(k) \/ CancelReads(k) \/ CancelMarks(k) \/ LoadsState(k) \/ SetPaused(k) \/ CommandFails(k)
  <2>1. queue' = queue /\ (job' = job \/ \E x, b : job' = [job EXCEPT ![x].marker = b])
    BY <1>9 DEF ApproveReads, CancelReads, CancelMarks, LoadsState, SetPaused, CommandFails
  <2> QED BY <1>1, <2>1 DEF JobRec
<1>10. ~RetryMarks(k) /\ ~RetryKills(k) /\ ~RetryReplaces(k)
  BY DEF NoRetry, RetryMarks, RetryKills, RetryReplaces
<1> QED BY <1>2, <1>4, <1>5, <1>6, <1>7, <1>8, <1>9, <1>10 DEF Command

\* Whoever dispatches, works, approves, cancels and dies at whatever step: where
\* nobody retries, a queued job has neither a gate nor an awaiting entry against a
\* start (approval.ts:181-194, queue.ts:241). A retry keeps the gate it has loaded
\* (queue.ts:378).
THEOREM QueuedJobsAreStartable ==
  ASSUME "retry" \notin Ops
  PROVE  Spec => []QueuedCanStart
<1> DEFINE Inv == QueueInv /\ HaveJobs /\ WorksOnOwnRow /\ NoRetry /\ QueuedCanStart
<1>1. Init => Inv
  <2> SUFFICES ASSUME Init PROVE Inv
    OBVIOUS
  <2>1. \A w \in Worker : ~Lives(w)
    BY DEF Init, Lives, Gone
  <2>2. \A e \in Entry : queue[e].status = "none" /\ \A d \in Dispatcher : disp[d].queue[e].status = "none"
    BY DEF Init, Idle, NoRow
  <2>3. \A k \in Client : client[k].pc = "idle"
    BY DEF Init, NoCommand
  <2>4. QueuedCanStart
    BY <2>2 DEF QueuedCanStart, Init, In
  <2> QED BY <2>1, <2>2, <2>3, <2>4, QueueInvInit DEF HaveJobs, WorksOnOwnRow, NoRetry
<1>2. Inv /\ Next => QueuedCanStart'
  <2> SUFFICES ASSUME Inv, Next, NEW j \in Job, job'[j].status = "queued"
               PROVE  /\ job'[j].gate = "none"
                      /\ \A e \in In(queue', {"awaiting_approval"}) : queue'[e].job # j
    BY DEF QueuedCanStart
  <2>1. job[j].status = "queued" =>
          job[j].gate = "none" /\ \A e \in In(queue, {"awaiting_approval"}) : queue[e].job # j
    BY DEF QueuedCanStart
  <2>2. ASSUME NEW w \in Worker, WorkerStep(w) \/ WorkerBeats(w) \/ WorkerFault(w)
        PROVE  /\ job'[j].gate = "none"
               /\ \A e \in In(queue', {"awaiting_approval"}) : queue'[e].job # j
    BY <2>1, <2>2, WorkerWaits
  <2>3. ASSUME NEW k \in Client, Command(k)
        PROVE  /\ job'[j].gate = "none"
               /\ \A e \in In(queue', {"awaiting_approval"}) : queue'[e].job # j
    BY <2>1, <2>3, CommandWaits
  <2>4. ASSUME NEW d \in Dispatcher, Dispatch(d) \/ Abandon(d)
        PROVE  /\ job'[j].gate = "none"
               /\ \A e \in In(queue', {"awaiting_approval"}) : queue'[e].job # j
    <3>1. TypeOK /\ job \in [Job -> JobRec]
      BY DEF QueueInv, TypeOK
    <3>2. job' = job \/ \E i, left : job' = [job EXCEPT ![i].stray = left]
      BY <2>4 DEF Dispatch, Snapshot, Recon, CountActive, Spawn, Commit, Abandon
    <3>3. job[j].status = "queued" /\ job'[j].gate = job[j].gate
      BY <3>1, <3>2 DEF JobRec
    <3>4. queue' = queue \/ (Commit(d) /\ queue' = Truncated(Applied(d)))
      BY <2>4 DEF Dispatch, Snapshot, Recon, CountActive, Spawn, Commit, Abandon
    <3>5. \A e \in Entry : queue'[e].status = "awaiting_approval" =>
            queue[e].status = "awaiting_approval" /\ queue'[e].job = queue[e].job
      BY <3>1, <3>4, AppliedRows
    <3> QED BY <2>1, <3>3, <3>5 DEF In
  <2> QED BY <2>2, <2>3, <2>4 DEF Next
<1>3. Inv /\ [Next]_vars => Inv'
  <2> SUFFICES ASSUME Inv, [Next]_vars PROVE Inv'
    OBVIOUS
  <2>1. CASE Next
    BY <1>2, <2>1, QueueInvStep, HaveJobsStep, WorksOnOwnRowStep, NoRetryStep DEF QueueInv
  <2>2. CASE UNCHANGED vars
    <3>1. QueueInv'
      BY QueueInvStep
    <3> QED BY <2>2, <3>1 DEF vars, HaveJobs, WorksOnOwnRow, NoRetry, QueuedCanStart, Lives, In
  <2> QED BY <2>1, <2>2
<1> QED BY <1>1, <1>3, PTL DEF Spec

=============================================================================
