----------------------------- MODULE JobStoreProofs -----------------------------
(***************************************************************************)
(* For all jobs, users, configurations and requests: the contexts on disk    *)
(* have what their profiles promise, rows that are gone come back only as    *)
(* described, and the orphan sweep spares the worktrees in use.              *)
(***************************************************************************)
EXTENDS JobStore, TLAPS

\* What a user's process is doing.
UserState ==
  {Closed, Idle}
  \cup [pc: {"import"}, found: SUBSET Job]
  \cup [pc: Creating, job: Job, ctx: Contexts]
  \cup [pc: Starting, job: Job, retry: BOOLEAN]
  \cup [pc: Forgetting \cup {"tree"}, job: Job, purge: BOOLEAN]

\* What a worker is doing.
RunState ==
  {NoRun}
  \cup [pc: {"prepare", "record", "start", "work", "tidy"}, isolated: BOOLEAN]
  \cup [pc: {"store", "mirror"}, isolated: BOOLEAN, status: Status, closes: BOOLEAN,
        next: {"work", "tidy", "end"}]

Types ==
  /\ TypeOK
  /\ user \in [User -> UserState]
  /\ worker \in [Job -> RunState]

-----------------------------------------------------------------------------
(* Intake: a request that is accepted has what its profile promises.         *)

LEMMA NoneIsNoValue ==
  None # TRUE /\ None # FALSE /\ None # "verified" /\ None # "governed" /\ None # "untrusted"
BY NoneAssumption DEF Profile

LEMMA AcceptedIsGoverned ==
  ASSUME NEW r \in Request, Accepted(r, Config, Runner)
  PROVE  Governed(Context(r, Config))
<1> DEFINE o == Options(r, Config)
           p == Promoted(o)
           c == Context(r, Config)
<1>1. /\ PolicyHolds(Coalesce(o["trust"], "trusted"), o["isolated"], Runner)
      /\ (o["adaptive"] = TRUE) => o["review"]
      /\ ProfileHolds(p)
  BY DEF Accepted
<1>2. DOMAIN o = Setting
  BY DEF Options
<1>3. /\ p["isolated"] = (o["isolated"] \/ o["autoCommit"])
      /\ p["profile"] = o["profile"] /\ p["review"] = o["review"] /\ p["test"] = o["test"]
      /\ p["guard"] = o["guard"] /\ p["approval"] = o["approval"] /\ p["trust"] = o["trust"]
      /\ p["adaptive"] = o["adaptive"]
  BY <1>2 DEF Promoted, Setting
<1>4. /\ c.profile = o["profile"] /\ c.isolated = (o["isolated"] \/ o["autoCommit"])
      /\ c.review = o["review"] /\ c.test = o["test"]
      /\ c.guard = Coalesce(o["guard"], FALSE) /\ c.approval = Coalesce(o["approval"], FALSE)
      /\ c.trust = Coalesce(o["trust"], "trusted") /\ c.adaptive = Coalesce(o["adaptive"], FALSE)
  BY <1>3 DEF Context
<1> HIDE DEF o, p, c
<1>5. c.profile \in Profile \cup {None}
  BY <1>1, <1>3, <1>4 DEF ProfileHolds
<1>6. c.profile \in {"verified", "governed", "untrusted"} => c.isolated /\ c.review /\ c.test # None
  BY <1>1, <1>3, <1>4, NoneAssumption DEF ProfileHolds, Profile
<1>7. c.profile \in {"governed", "untrusted"} => c.guard /\ c.approval
  <2>1. SUFFICES ASSUME c.profile \in {"governed", "untrusted"} PROVE c.guard /\ c.approval
    OBVIOUS
  <2>2. p["guard"] = TRUE /\ p["approval"] = TRUE
    BY <1>1, <1>3, <1>4, <2>1, NoneIsNoValue DEF ProfileHolds
  <2>3. Coalesce(TRUE, FALSE) = TRUE
    BY NoneIsNoValue, Zenon DEF Coalesce
  <2> QED
    BY <1>3, <1>4, <2>2, <2>3
<1>8. c.profile = "untrusted" => c.trust = "untrusted"
  <2>1. c.profile = "untrusted" => o["trust"] = "untrusted"
    BY <1>1, <1>3, <1>4, NoneIsNoValue DEF ProfileHolds
  <2>2. Coalesce("untrusted", "trusted") = "untrusted"
    BY NoneIsNoValue DEF Coalesce
  <2> QED
    BY <1>4, <2>1, <2>2
<1>9. c.trust = "untrusted" => c.isolated /\ c.profile \in {"untrusted", None}
  <2>1. SUFFICES ASSUME c.trust = "untrusted" PROVE c.isolated /\ c.profile \in {"untrusted", None}
    OBVIOUS
  <2>2. Coalesce(o["trust"], "trusted") = "untrusted" /\ o["trust"] = "untrusted"
    BY <1>4, <2>1 DEF Coalesce
  <2>3. o["isolated"]
    BY <1>1, <2>2 DEF PolicyHolds
  <2>4. c.profile \in {"untrusted", None}
    BY <1>1, <1>3, <1>4, <2>2 DEF ProfileHolds
  <2> QED
    BY <1>4, <2>3, <2>4
<1>10. c.adaptive => c.review
  BY <1>1, <1>4 DEF Coalesce
<1> QED
  BY <1>5, <1>6, <1>7, <1>8, <1>9, <1>10 DEF Governed, c

LEMMA ContextsGoverned ==
  ASSUME NEW c \in Contexts
  PROVE  Governed(c) /\ c.isolated \in BOOLEAN
<1>1. PICK r \in Request : Accepted(r, Config, Runner) /\ c = Context(r, Config)
  BY DEF Contexts
<1>2. Governed(c)
  BY <1>1, AcceptedIsGoverned
<1>3. Promoted(Options(r, Config))["isolated"] \in BOOLEAN
  BY DEF Promoted, Options, Setting
<1>4. c.isolated = Promoted(Options(r, Config))["isolated"]
  BY <1>1 DEF Context
<1> QED
  BY <1>2, <1>3, <1>4

-----------------------------------------------------------------------------
(* Types.                                                                    *)

LEMMA NoneIsNoStatus == "queued" # None /\ "running" # None /\ "ended" # None
BY StatusAssumption DEF Status

LEMMA FilesTypes ==
  ASSUME Types, NEW j \in Job
  PROVE  /\ FilesOf(j) \in Files
         /\ \A c \in Contexts : [FilesOf(j) EXCEPT !.ctx = c] \in Files
         /\ [FilesOf(j) EXCEPT !.mirror = TRUE] \in Files
         /\ [FilesOf(j) EXCEPT !.wt = TRUE] \in Files
<1>1. FilesOf(j) \in Files
  BY DEF Types, TypeOK, FilesOf, Files, NoFiles
<1> QED
  BY <1>1 DEF Files

LEMMA PutTypes ==
  ASSUME Types, NEW j \in Job, NEW f \in Files \cup {None}, Put(j, f)
  PROVE  dir' \in [Job -> Files \cup {None}]
BY DEF Types, TypeOK, Put

LEMMA GoesTypes ==
  ASSUME Types, NEW u \in User, NEW s \in UserState, Goes(u, s)
  PROVE  user' \in [User -> UserState] /\ user'[u] = s
BY DEF Types, Goes

LEMMA RunsTypes ==
  ASSUME Types, NEW j \in Job, NEW s \in RunState, Runs(j, s)
  PROVE  worker' \in [Job -> RunState] /\ worker'[j] = s
BY DEF Types, Runs

LEMMA UserTypes ==
  ASSUME NEW s \in UserState
  PROVE  /\ s.pc = "import" => s.found \subseteq Job
         /\ s.pc \in Creating =>
              /\ s.job \in Job /\ s.ctx \in Contexts
              /\ \A pc \in Creating : [s EXCEPT !.pc = pc] \in UserState
         /\ s.pc \in Starting =>
              /\ s.job \in Job /\ s.retry \in BOOLEAN
              /\ \A pc \in Starting : [s EXCEPT !.pc = pc] \in UserState
         /\ s.pc \in Forgetting \cup {"tree"} =>
              /\ s.job \in Job /\ s.purge \in BOOLEAN
              /\ \A pc \in Forgetting \cup {"tree"} : [s EXCEPT !.pc = pc] \in UserState
<1> USE DEF Creating, Starting, Forgetting
<1>1. CASE s \in {Closed, Idle}
  BY <1>1 DEF Closed, Idle
<1>2. CASE s \in [pc: {"import"}, found: SUBSET Job]
  BY <1>2
<1>3. CASE s \in [pc: Creating, job: Job, ctx: Contexts]
  <2>1. \A pc \in Creating : [s EXCEPT !.pc = pc] \in [pc: Creating, job: Job, ctx: Contexts]
    BY <1>3
  <2> QED
    BY <1>3, <2>1 DEF UserState
<1>4. CASE s \in [pc: Starting, job: Job, retry: BOOLEAN]
  <2>1. \A pc \in Starting : [s EXCEPT !.pc = pc] \in [pc: Starting, job: Job, retry: BOOLEAN]
    BY <1>4
  <2> QED
    BY <1>4, <2>1 DEF UserState
<1>5. CASE s \in [pc: Forgetting \cup {"tree"}, job: Job, purge: BOOLEAN]
  <2>1. \A pc \in Forgetting \cup {"tree"} :
          [s EXCEPT !.pc = pc] \in [pc: Forgetting \cup {"tree"}, job: Job, purge: BOOLEAN]
    BY <1>5
  <2> QED
    BY <1>5, <2>1 DEF UserState
<1> QED
  BY <1>1, <1>2, <1>3, <1>4, <1>5 DEF UserState

LEMMA RunTypes ==
  ASSUME NEW s \in RunState
  PROVE  /\ s.pc \in {"prepare", "record", "start", "work", "tidy"} =>
              /\ s.isolated \in BOOLEAN
              /\ \A pc \in {"record", "start"} : [s EXCEPT !.pc = pc] \in RunState
         /\ s.pc \in {"store", "mirror"} =>
              /\ s.isolated \in BOOLEAN /\ s.status \in Status /\ s.closes \in BOOLEAN
              /\ s.next \in {"work", "tidy", "end"}
              /\ [s EXCEPT !.pc = "mirror"] \in RunState
         /\ s # NoRun => s.pc \in {"prepare", "record", "start", "work", "tidy", "store", "mirror"}
<1>1. CASE s = NoRun
  BY <1>1 DEF NoRun
<1>2. CASE s \in [pc: {"prepare", "record", "start", "work", "tidy"}, isolated: BOOLEAN]
  <2>1. \A pc \in {"record", "start"} :
          [s EXCEPT !.pc = pc] \in [pc: {"prepare", "record", "start", "work", "tidy"}, isolated: BOOLEAN]
    BY <1>2
  <2> QED
    BY <1>2, <2>1 DEF RunState
<1>3. CASE s \in [pc: {"store", "mirror"}, isolated: BOOLEAN, status: Status, closes: BOOLEAN,
                  next: {"work", "tidy", "end"}]
  <2>1. [s EXCEPT !.pc = "mirror"] \in [pc: {"store", "mirror"}, isolated: BOOLEAN, status: Status,
                                         closes: BOOLEAN, next: {"work", "tidy", "end"}]
    BY <1>3
  <2> QED
    BY <1>3, <2>1 DEF RunState
<1> QED
  BY <1>1, <1>2, <1>3 DEF RunState

LEMMA InitTypes == Init => Types
<1> SUFFICES ASSUME Init PROVE Types
  OBVIOUS
<1>1. Closed \in UserState /\ NoRun \in RunState
  BY DEF UserState, RunState
<1>2. PICK old \in SUBSET Legacy, ctx \in Contexts :
        dir = [j \in Job |-> IF j \in old THEN [ctx |-> ctx, mirror |-> TRUE, wt |-> FALSE] ELSE None]
  BY DEF Init
<1>3. dir \in [Job -> Files \cup {None}]
  BY <1>2 DEF Files
<1> QED
  BY <1>1, <1>3 DEF Init, Types, TypeOK

LEMMA UserStepTypes ==
  ASSUME Types, NEW u \in User, UserStep(u)
  PROVE  Types'
<1>1. user[u] \in UserState
  BY DEF Types
<1>2. CASE OpenDatabase(u)
  <2>1. {j \in Job : FilesOf(j).mirror} \in SUBSET Job
    OBVIOUS
  <2>2. Idle \in UserState
        /\ [pc |-> "import", found |-> {j \in Job : FilesOf(j).mirror}] \in UserState
    BY <2>1 DEF UserState
  <2>3. user' \in [User -> UserState]
    BY <1>2, <2>2, GoesTypes DEF OpenDatabase
  <2> QED
    BY <1>2, <2>3 DEF OpenDatabase, Types, TypeOK
<1>3. CASE Import(u)
  <2>1. Idle \in UserState /\ Closed \in UserState
    BY DEF UserState
  <2>2. user' \in [User -> UserState]
    BY <1>3, <2>1, GoesTypes DEF Import
  <2>3. row' \in [Job -> Status \cup {None}] /\ imported' \in BOOLEAN
    BY <1>3 DEF Import, Types, TypeOK, Status
  <2> QED
    BY <1>3, <2>2, <2>3 DEF Import, Types, TypeOK
<1>4. CASE CreateStep(u)
  <2> DEFINE j == user[u].job
  <2>1. user[u].pc \in Creating /\ j \in Job /\ user[u].ctx \in Contexts
        /\ \A pc \in Creating : [user[u] EXCEPT !.pc = pc] \in UserState
    BY <1>1, <1>4, UserTypes DEF CreateStep, Creating
  <2>2. [pc |-> "lock", job |-> j, retry |-> FALSE] \in UserState
    BY <2>1 DEF UserState, Starting
  <2>3. user' \in [User -> UserState]
    BY <1>4, <2>1, <2>2, GoesTypes DEF CreateStep, Creating
  <2>4. dir' \in [Job -> Files \cup {None}]
    <3>1. CASE UNCHANGED dir
      BY <3>1 DEF Types, TypeOK
    <3>2. CASE \E f \in Files : Put(j, f)
      BY <2>1, <3>2, PutTypes
    <3> QED
      BY <1>4, <2>1, <3>1, <3>2, FilesTypes DEF CreateStep
  <2>5. row' \in [Job -> Status \cup {None}]
    BY <1>4, <2>1 DEF CreateStep, Types, TypeOK, Status
  <2>6. overtaken' \subseteq Job
    BY <1>4, <2>1 DEF CreateStep, Overtakes, Types, TypeOK
  <2> QED
    BY <1>4, <2>3, <2>4, <2>5, <2>6 DEF CreateStep, Types, TypeOK
<1>5. CASE StartStep(u)
  <2> DEFINE j == user[u].job
  <2>1. user[u].pc \in Starting /\ j \in Job
        /\ \A pc \in Starting : [user[u] EXCEPT !.pc = pc] \in UserState
    BY <1>1, <1>5, UserTypes DEF StartStep, Starting
  <2>2. Idle \in UserState
    BY DEF UserState
  <2>3. user' \in [User -> UserState]
    BY <1>5, <2>1, <2>2, GoesTypes DEF StartStep, Starting
  <2>4. dir' \in [Job -> Files \cup {None}]
    <3>1. CASE UNCHANGED dir
      BY <3>1 DEF Types, TypeOK
    <3>2. CASE Put(j, FilesOf(j))
      BY <2>1, <3>2, PutTypes, FilesTypes
    <3> QED
      BY <1>5, <3>1, <3>2 DEF StartStep
  <2>5. row' \in [Job -> Status \cup {None}] /\ scheduled' \subseteq Job
    BY <1>5, <2>1 DEF StartStep, Types, TypeOK, Status
  <2>6. overtaken' \subseteq Job
    BY <1>5, <2>1 DEF StartStep, Overtakes, Types, TypeOK
  <2> QED
    BY <1>5, <2>3, <2>4, <2>5, <2>6 DEF StartStep, Types, TypeOK
<1>6. CASE RemoveDirectory(u)
  <2>1. user[u].job \in Job /\ [user[u] EXCEPT !.pc = "erase"] \in UserState
    BY <1>1, <1>6, UserTypes DEF RemoveDirectory, Forgetting
  <2>2. user' \in [User -> UserState]
    BY <1>6, <2>1, GoesTypes DEF RemoveDirectory
  <2>3. dir' \in [Job -> Files \cup {None}]
    BY <1>6, <2>1, PutTypes DEF RemoveDirectory
  <2> QED
    BY <1>6, <2>2, <2>3 DEF RemoveDirectory, Types, TypeOK
<1>7. CASE Erase(u)
  <2>1. user[u].job \in Job /\ [user[u] EXCEPT !.pc = "tree"] \in UserState /\ Idle \in UserState
    <3>1. Idle \in UserState
      BY DEF UserState
    <3> QED
      BY <1>1, <1>7, <3>1, UserTypes DEF Erase, Forgetting
  <2>2. user' \in [User -> UserState]
    BY <1>7, <2>1, GoesTypes DEF Erase
  <2> QED
    BY <1>7, <2>1, <2>2 DEF Erase, Types, TypeOK
<1>8. CASE PurgeTree(u)
  <2>1. user[u].job \in Job /\ Idle \in UserState
    <3>1. Idle \in UserState
      BY DEF UserState
    <3> QED
      BY <1>1, <1>8, <3>1, UserTypes DEF PurgeTree
  <2>2. user' \in [User -> UserState]
    BY <1>8, <2>1, GoesTypes DEF PurgeTree
  <2>3. tree' \in [Job -> BOOLEAN]
    BY <1>8, <2>1 DEF PurgeTree, CleansTree, Types, TypeOK
  <2> QED
    BY <1>8, <2>2, <2>3 DEF PurgeTree, Types, TypeOK
<1> QED
  BY <1>2, <1>3, <1>4, <1>5, <1>6, <1>7, <1>8 DEF UserStep

LEMMA CommandTypes ==
  ASSUME Types, NEW u \in User, Command(u) \/ RemoveFails(u) \/ Dies(u)
  PROVE  Types'
<1>1. Idle \in UserState /\ Closed \in UserState
  BY DEF UserState
<1>2. ASSUME NEW j \in Job, NEW request \in Request, Create(u, j, request) PROVE Types'
  <2>1. Context(request, Config) \in Contexts
    BY <1>2 DEF Create, Contexts
  <2>2. [pc |-> "mkdir", job |-> j, ctx |-> Context(request, Config)] \in UserState
    BY <2>1 DEF UserState, Creating
  <2>3. user' \in [User -> UserState]
    BY <1>2, <2>2, GoesTypes DEF Create
  <2> QED
    BY <1>2, <2>3 DEF Create, Types, TypeOK
<1>3. ASSUME NEW j \in Job, Start(u, j) PROVE Types'
  <2>1. [pc |-> "lock", job |-> j, retry |-> FALSE] \in UserState
        /\ [pc |-> "load", job |-> j, retry |-> TRUE] \in UserState
    BY DEF UserState, Starting
  <2>2. user' \in [User -> UserState]
    BY <1>3, <2>1, GoesTypes DEF Start
  <2> QED
    BY <1>3, <2>2 DEF Start, Types, TypeOK
<1>4. ASSUME NEW j \in Job, Clean(u, j) PROVE Types'
  BY <1>4 DEF Clean, CleansTree, Types, TypeOK
<1>5. ASSUME NEW j \in Job, NEW purge \in BOOLEAN, BeginForget(u, j, purge) PROVE Types'
  <2>1. [pc |-> "remove", job |-> j, purge |-> purge] \in UserState
    BY DEF UserState, Forgetting
  <2>2. user' \in [User -> UserState]
    BY <1>5, <2>1, GoesTypes DEF BeginForget
  <2> QED
    BY <1>5, <2>2 DEF BeginForget, Types, TypeOK
<1>6. CASE RemoveFails(u)
  <2>1. user' \in [User -> UserState]
    BY <1>1, <1>6, GoesTypes DEF RemoveFails
  <2> QED
    BY <1>6, <2>1 DEF RemoveFails, Types, TypeOK
<1>7. CASE Dies(u)
  <2>1. user' \in [User -> UserState]
    BY <1>1, <1>7, GoesTypes DEF Dies
  <2> QED
    BY <1>7, <2>1 DEF Dies, Types, TypeOK
<1> QED
  BY <1>2, <1>3, <1>4, <1>5, <1>6, <1>7 DEF Command

LEMMA WorkerTypes ==
  ASSUME Types, NEW j \in Job, WorkerStep(j) \/ WorkerDies(j)
  PROVE  Types'
<1>1. worker[j] \in RunState /\ NoRun \in RunState
  BY DEF Types, RunState
<1>2. CASE Begin(j)
  <2>1. FilesOf(j).ctx \in Contexts
    BY <1>2, FilesTypes DEF Begin, Files
  <2>2. [pc |-> "prepare", isolated |-> FilesOf(j).ctx.isolated] \in RunState
    BY <2>1, ContextsGoverned DEF RunState
  <2>3. worker' \in [Job -> RunState]
    BY <1>2, <2>2, RunsTypes DEF Begin
  <2> QED
    BY <1>2, <2>3 DEF Begin, Types, TypeOK
<1>3. CASE BeginFails(j)
  <2>1. dir' \in [Job -> Files \cup {None}]
    BY <1>3, PutTypes, FilesTypes DEF BeginFails
  <2> QED
    BY <1>3, <2>1 DEF BeginFails, Types, TypeOK
<1>4. CASE Prepare(j)
  <2>1. [worker[j] EXCEPT !.pc = "start"] \in RunState /\ [worker[j] EXCEPT !.pc = "record"] \in RunState
    BY <1>1, <1>4, RunTypes DEF Prepare
  <2>2. worker' \in [Job -> RunState]
    BY <1>1, <1>4, <2>1, RunsTypes DEF Prepare
  <2>3. tree' \in [Job -> BOOLEAN] /\ scheduled' \subseteq Job
    BY <1>4 DEF Prepare, Types, TypeOK
  <2> QED
    BY <1>4, <2>2, <2>3 DEF Prepare, Types, TypeOK
<1>5. CASE Record(j)
  <2>1. [worker[j] EXCEPT !.pc = "start"] \in RunState
    BY <1>1, <1>5, RunTypes DEF Record
  <2>2. worker' \in [Job -> RunState]
    BY <1>5, <2>1, RunsTypes DEF Record
  <2>3. dir' \in [Job -> Files \cup {None}]
    BY <1>5, PutTypes, FilesTypes DEF Record
  <2> QED
    BY <1>5, <2>2, <2>3 DEF Record, Types, TypeOK
<1>6. CASE Load(j)
  <2>1. worker[j].isolated \in BOOLEAN
    BY <1>1, <1>6, RunTypes DEF Load
  <2>2. ASSUME NEW status \in Status \cup {None}, row[j] # None => status # None, NEW closes \in BOOLEAN,
               NEW next \in {"work", "tidy", "end"}, Loads(j, status, closes, next)
        PROVE  worker' \in [Job -> RunState]
    <3>1. CASE row[j] = None
      BY <1>1, <2>2, <3>1, RunsTypes DEF Loads
    <3>2. CASE row[j] # None
      <4>1. [pc |-> "store", isolated |-> worker[j].isolated, status |-> status,
             closes |-> closes, next |-> next] \in RunState
        BY <2>1, <2>2, <3>2 DEF RunState
      <4> QED
        BY <2>2, <3>2, <4>1, RunsTypes DEF Loads
    <3> QED
      BY <3>1, <3>2
  <2>3. row[j] \in Status \cup {None} /\ "running" \in Status /\ "ended" \in Status
    BY DEF Types, TypeOK, Status
  <2>4. "running" # None /\ "ended" # None
    BY NoneIsNoStatus
  <2>5. worker' \in [Job -> RunState]
    BY <1>6, <2>2, <2>3, <2>4 DEF Load
  <2>6. tree' \in [Job -> BOOLEAN]
    BY <1>6 DEF Load, CleansTree, Types, TypeOK
  <2> QED
    BY <1>6, <2>5, <2>6 DEF Load, Types, TypeOK
<1>7. CASE Store(j)
  <2>1. worker[j].status \in Status /\ [worker[j] EXCEPT !.pc = "mirror"] \in RunState
    BY <1>1, <1>7, RunTypes DEF Store
  <2>2. worker' \in [Job -> RunState]
    BY <1>7, <2>1, RunsTypes DEF Store
  <2>3. row' \in [Job -> Status \cup {None}] /\ scheduled' \subseteq Job
    BY <1>7, <2>1 DEF Store, Types, TypeOK
  <2> QED
    BY <1>7, <2>2, <2>3 DEF Store, Types, TypeOK
<1>8. CASE WriteMirror(j)
  <2>1. worker[j].isolated \in BOOLEAN /\ worker[j].next \in {"work", "tidy", "end"}
    BY <1>1, <1>8, RunTypes DEF WriteMirror
  <2>2. worker[j].next # "end" => [pc |-> worker[j].next, isolated |-> worker[j].isolated] \in RunState
    BY <2>1 DEF RunState
  <2>3. worker' \in [Job -> RunState]
    BY <1>1, <1>8, <2>2, RunsTypes DEF WriteMirror
  <2>4. dir' \in [Job -> Files \cup {None}]
    BY <1>8, PutTypes, FilesTypes DEF WriteMirror
  <2> QED
    BY <1>8, <2>3, <2>4 DEF WriteMirror, Types, TypeOK
<1>9. CASE WorkerDies(j)
  <2>1. worker' \in [Job -> RunState]
    BY <1>1, <1>9, RunsTypes DEF WorkerDies
  <2> QED
    BY <1>9, <2>1 DEF WorkerDies, Types, TypeOK
<1> QED
  BY <1>2, <1>3, <1>4, <1>5, <1>6, <1>7, <1>8, <1>9 DEF WorkerStep

LEMMA NextTypes == Types /\ [Next]_vars => Types'
<1> SUFFICES ASSUME Types, [Next]_vars PROVE Types'
  OBVIOUS
<1>1. CASE Scan
  BY <1>1 DEF Scan, Types, TypeOK
<1>2. ASSUME NEW j \in Job, RemoveOrphan(j) PROVE Types'
  BY <1>2 DEF RemoveOrphan, Types, TypeOK
<1>3. CASE UNCHANGED vars
  BY <1>3 DEF vars, Types, TypeOK
<1> QED
  BY <1>1, <1>2, <1>3, UserStepTypes, CommandTypes, WorkerTypes DEF Next

\* Every variable has its type.
THEOREM StoreTypes == Spec => []TypeOK
<1>1. Types => TypeOK
  BY DEF Types
<1> QED
  BY <1>1, InitTypes, NextTypes, PTL DEF Spec

-----------------------------------------------------------------------------
\* Every context on disk has what its profile promises, whatever the entry
\* points, the overrides and the configuration.
THEOREM ProfilesAreKept == Spec => []ProfileKept
<1>1. Types => ProfileKept
  <2> SUFFICES ASSUME Types, NEW j \in Job, FilesOf(j).ctx # None
               PROVE  Governed(dir[j].ctx)
    BY DEF ProfileKept
  <2>1. dir[j] # None /\ FilesOf(j) = dir[j]
    BY DEF FilesOf, NoFiles
  <2>2. dir[j].ctx \in Contexts
    BY <2>1, FilesTypes DEF Files
  <2> QED
    BY <2>2, ContextsGoverned
<1> QED
  BY <1>1, InitTypes, NextTypes, PTL DEF Spec

-----------------------------------------------------------------------------
\* A row that is gone comes back only by a creation, the import of old files,
\* a retry, or a worker that had loaded it before.
THEOREM RowsStayGone == Spec => ForgottenStays
<1> DEFINE Returns(j) == row[j] = None /\ row'[j] # None
           Allowed(j) == \/ \E u \in User : At(u, {"row", "enqueue"}, j) /\ user'[u] # user[u]
                         \/ imported # imported'
                         \/ worker[j].pc = "store" /\ worker'[j] # worker[j]
<1>1. ASSUME Types, [Next]_vars, NEW j \in Job, Returns(j) PROVE Allowed(j)
  <2>1. ASSUME NEW u \in User, CreateStep(u) PROVE Allowed(j)
    <3>1. user[u].pc = "row" /\ user[u].job = j
      BY <1>1, <2>1 DEF CreateStep, Types, TypeOK
    <3>2. user'[u].pc = "mirror"
      <4>1. user[u] \in UserState
        BY <1>1 DEF Types
      <4>2. [user[u] EXCEPT !.pc = "mirror"].pc = "mirror"
        BY <3>1, <4>1 DEF UserState, Closed, Idle
      <4> QED
        BY <1>1, <2>1, <3>1, <4>2 DEF CreateStep, Goes, Types
    <3> QED
      BY <3>1, <3>2 DEF At
  <2>2. ASSUME NEW u \in User, StartStep(u) PROVE Allowed(j)
    <3>1. user[u].pc = "enqueue" /\ user[u].job = j
      BY <1>1, <2>2 DEF StartStep, Types, TypeOK
    <3>2. user'[u] = Idle
      BY <1>1, <2>2, <3>1 DEF StartStep, Goes, Types
    <3> QED
      BY <3>1, <3>2 DEF At, Idle
  <2>3. ASSUME NEW u \in User, Import(u) PROVE Allowed(j)
    BY <1>1, <2>3 DEF Import, Unmarked
  <2>4. ASSUME NEW u \in User, Erase(u) PROVE Allowed(j)
    BY <1>1, <2>4 DEF Erase, Types, TypeOK
  <2>5. ASSUME NEW k \in Job, Store(k) PROVE Allowed(j)
    <3>1. j = k
      BY <1>1, <2>5 DEF Store, Types, TypeOK
    <3>2. worker'[k].pc = "mirror"
      <4>1. worker[k] \in RunState
        BY <1>1 DEF Types
      <4>2. [worker[k] EXCEPT !.pc = "mirror"].pc = "mirror"
        BY <4>1 DEF RunState, NoRun
      <4> QED
        BY <1>1, <2>5, <4>2 DEF Store, Runs, Types
    <3> QED
      BY <2>5, <3>1, <3>2 DEF Store
  <2>6. ASSUME UNCHANGED row PROVE Allowed(j)
    BY <1>1, <2>6
  <2>7. ASSUME NEW u \in User, UserStep(u) PROVE Allowed(j)
    BY <2>1, <2>2, <2>3, <2>4, <2>6, <2>7 DEF UserStep, OpenDatabase, RemoveDirectory, PurgeTree
  <2>8. ASSUME NEW u \in User, Command(u) \/ RemoveFails(u) \/ Dies(u) PROVE Allowed(j)
    BY <2>6, <2>8 DEF Command, Create, Start, Clean, BeginForget, RemoveFails, Dies
  <2>9. ASSUME NEW k \in Job, WorkerStep(k) \/ WorkerDies(k) \/ RemoveOrphan(k) PROVE Allowed(j)
    BY <2>5, <2>6, <2>9 DEF WorkerStep, Begin, BeginFails, Prepare, Record, Load, WriteMirror,
       WorkerDies, RemoveOrphan
  <2>10. CASE Scan \/ UNCHANGED vars
    BY <2>6, <2>10 DEF Scan, vars
  <2> QED
    BY <1>1, <2>7, <2>8, <2>9, <2>10 DEF Next
<1>2. Types /\ [Next]_vars => [\A j \in Job : Returns(j) => Allowed(j)]_vars
  BY <1>1
<1> QED
  BY <1>2, InitTypes, NextTypes, PTL DEF Spec, ForgottenStays

-----------------------------------------------------------------------------
(* The orphan sweep.  A worker that has not come to the end of its run is    *)
(* scheduled, so whoever began to forget its job after that, or it itself    *)
(* after somebody had begun, has been noted in overtaken; otherwise the      *)
(* directory is there, and what was an orphan is not in use.                 *)

Active(j) ==
  \/ worker[j].pc \in {"prepare", "record", "start", "work"}
  \/ worker[j].pc \in {"store", "mirror"} /\ worker[j].next = "work"

ActiveScheduled == \A j \in Job : Active(j) => j \in scheduled \cup overtaken

ForgettingSeen ==
  \A u \in User, j \in Job : At(u, Forgetting, j) /\ j \in scheduled => j \in overtaken

ActiveHasDirectory == \A j \in Job : Active(j) => dir[j] # None \/ j \in overtaken

OrphansUnused == \A j \in orphans : (tree[j] /\ ~InUse(j)) \/ j \in overtaken

WorkerRecords ==
  \A j \in Job : /\ worker[j].pc = "record" => worker[j].isolated
                 /\ worker[j].pc = "store" /\ worker[j].closes => worker[j].next # "work"

SweepInv == ActiveScheduled /\ ForgettingSeen /\ ActiveHasDirectory /\ OrphansUnused /\ WorkerRecords

\* What is in use, said without the record NoRun.
LEMMA InUseMeans ==
  ASSUME NEW j \in Job
  PROVE  InUse(j) <=>
           \/ FilesOf(j).wt
           \/ /\ dir[j] # None /\ worker[j].isolated /\ Active(j)
              /\ worker[j].pc # "prepare"
BY DEF InUse, Active, NoRun

LEMMA InitSweep == Init => SweepInv
BY DEF Init, SweepInv, ActiveScheduled, ForgettingSeen, ActiveHasDirectory, OrphansUnused,
  WorkerRecords, Active, At, Forgetting, Closed, NoRun

\* A directory is left alone, deleted under no worker that counts, or rewritten
\* with what it records about the worktree.
KeepsRecords ==
  \A j \in Job : \/ dir'[j] = dir[j]
                 \/ dir'[j] = None /\ (Active(j) => j \in overtaken)
                 \/ dir'[j] # None /\ dir'[j].wt = FilesOf(j).wt

\* A step that leaves workers and the sweep alone, keeps the worktrees that are
\* not recorded, and what the directories record.
LEMMA UserSweep ==
  ASSUME Types, SweepInv,
         UNCHANGED <<worker, orphans>>, overtaken \subseteq overtaken',
         \A j \in Job : tree[j] /\ ~FilesOf(j).wt => tree'[j],
         \A j \in scheduled \ scheduled' : j \in overtaken',
         KeepsRecords,
         ForgettingSeen'
  PROVE  SweepInv'
<1>1. \A j \in Job : Active(j)' = Active(j)
  BY DEF Active
<1>2. ActiveScheduled' /\ WorkerRecords'
  BY <1>1 DEF SweepInv, ActiveScheduled, WorkerRecords
<1>3. ActiveHasDirectory'
  BY <1>1 DEF SweepInv, ActiveHasDirectory, KeepsRecords
<1>4. ASSUME NEW j \in orphans, j \notin overtaken PROVE tree'[j] /\ ~InUse(j)'
  <2>1. j \in Job /\ tree[j] /\ ~InUse(j)
    BY <1>4 DEF Types, TypeOK, SweepInv, OrphansUnused
  <2>2. ~FilesOf(j).wt /\ (Active(j) => dir[j] # None)
    BY <1>4, <2>1, InUseMeans DEF SweepInv, ActiveHasDirectory
  <2>3. ~FilesOf(j)'.wt
    BY <2>1, <2>2 DEF FilesOf, NoFiles, KeepsRecords
  <2> QED
    BY <1>1, <2>1, <2>2, <2>3 DEF InUse, Active, NoRun, KeepsRecords
<1>5. OrphansUnused'
  BY <1>4 DEF SweepInv, OrphansUnused
<1> QED
  BY <1>2, <1>3, <1>5 DEF SweepInv

LEMMA OvertakesMore ==
  ASSUME Types, NEW j \in Job, Overtakes(j)
  PROVE  /\ overtaken \subseteq overtaken'
         /\ \A u \in User : At(u, Forgetting, j) => j \in overtaken'
BY DEF Overtakes, Types, TypeOK

LEMMA NoneIsNoFiles == \A f \in Files : f # None
BY FilesAssumption

LEMMA UserStepSweep ==
  ASSUME Types, SweepInv, NEW u \in User, UserStep(u)
  PROVE  SweepInv'
<1>1. user[u] \in UserState
  BY DEF Types
<1>2. \A v \in User : v # u => user'[v] = user[v]
  BY DEF UserStep, OpenDatabase, Import, CreateStep, StartStep, RemoveDirectory, Erase, PurgeTree, Goes,
     Types
<1>3. CASE OpenDatabase(u) \/ Import(u)
  <2>1. user'[u].pc \notin Forgetting
    BY <1>3 DEF OpenDatabase, Import, Goes, Types, Idle, Closed, Forgetting
  <2>2. ForgettingSeen'
    BY <1>2, <1>3, <2>1 DEF SweepInv, ForgettingSeen, At, OpenDatabase, Import
  <2> QED
    BY <1>3, <2>2, UserSweep DEF KeepsRecords, OpenDatabase, Import, FilesOf, NoFiles
<1>4. CASE CreateStep(u)
  <2> DEFINE j == user[u].job
  <2>1. user[u].pc \in Creating /\ j \in Job
        /\ \A pc \in Creating : [user[u] EXCEPT !.pc = pc].pc = pc
    BY <1>1, <1>4, UserTypes DEF CreateStep, Creating, UserState, Closed, Idle
  <2>2. user'[u].pc \notin Forgetting
    <3>1. ASSUME NEW s, Goes(u, s), s.pc \in Creating \cup Starting PROVE user'[u].pc \notin Forgetting
      BY <3>1 DEF Creating, Starting, Forgetting, Goes, Types
    <3>2. /\ [user[u] EXCEPT !.pc = "context"].pc \in Creating
          /\ [user[u] EXCEPT !.pc = "row"].pc \in Creating
          /\ [user[u] EXCEPT !.pc = "mirror"].pc \in Creating
          /\ [pc |-> "lock", job |-> j, retry |-> FALSE].pc \in Starting
      BY <2>1 DEF Creating, Starting
    <3> QED
      BY <1>4, <3>1, <3>2 DEF CreateStep
  <2>3. ForgettingSeen'
    BY <1>2, <1>4, <2>1, <2>2, OvertakesMore DEF SweepInv, ForgettingSeen, At, CreateStep
  <2>4. \A k \in Job : dir'[k] = dir[k] \/ (dir'[k] # None /\ dir'[k].wt = FilesOf(k).wt)
    <3>1. FilesOf(j) \in Files
      BY <2>1, FilesTypes
    <3>2. ASSUME NEW f \in Files, f.wt = FilesOf(j).wt, Put(j, f), f # None
          PROVE  \A k \in Job : dir'[k] = dir[k] \/ (dir'[k] # None /\ dir'[k].wt = FilesOf(k).wt)
      BY <2>1, <3>2 DEF Put, Types, TypeOK
    <3>3. /\ [FilesOf(j) EXCEPT !.ctx = user[u].ctx].wt = FilesOf(j).wt
          /\ [FilesOf(j) EXCEPT !.mirror = TRUE].wt = FilesOf(j).wt
      BY <3>1 DEF Files
    <3> QED
      BY <1>1, <1>4, <2>1, <3>1, <3>2, <3>3, FilesTypes, UserTypes, NoneIsNoFiles
      DEF CreateStep, Creating
  <2> QED
    BY <1>4, <2>1, <2>3, <2>4, OvertakesMore, UserSweep DEF KeepsRecords, CreateStep
<1>5. CASE StartStep(u)
  <2> DEFINE j == user[u].job
  <2>1. user[u].pc \in Starting /\ j \in Job
        /\ \A pc \in Starting : [user[u] EXCEPT !.pc = pc].pc = pc
    BY <1>1, <1>5, UserTypes DEF StartStep, Starting, UserState, Closed, Idle
  <2>2. user'[u].pc \notin Forgetting
    <3>1. ASSUME NEW s, Goes(u, s), s.pc \in Starting \cup {"idle"} PROVE user'[u].pc \notin Forgetting
      BY <3>1 DEF Starting, Forgetting, Goes, Types
    <3>2. /\ [user[u] EXCEPT !.pc = "load"].pc \in Starting
          /\ [user[u] EXCEPT !.pc = "enqueue"].pc \in Starting
          /\ Idle.pc = "idle"
      BY <2>1 DEF Starting, Idle
    <3> QED
      BY <1>5, <3>1, <3>2 DEF StartStep
  <2>3. ForgettingSeen'
    BY <1>2, <1>5, <2>1, <2>2, OvertakesMore DEF SweepInv, ForgettingSeen, At, StartStep
  <2>4. \A k \in Job : dir'[k] = dir[k] \/ (dir'[k] # None /\ dir'[k].wt = FilesOf(k).wt)
    BY <1>5, <2>1, FilesTypes, NoneIsNoFiles DEF StartStep, Put, Types, TypeOK
  <2> QED
    BY <1>5, <2>1, <2>3, <2>4, OvertakesMore, UserSweep DEF KeepsRecords, StartStep
<1>6. CASE RemoveDirectory(u)
  <2> DEFINE j == user[u].job
  <2>1. j \in Job /\ At(u, Forgetting, j)
    BY <1>1, <1>6, UserTypes DEF RemoveDirectory, Forgetting, At
  <2>2. user'[u].job = j
    <3>1. user'[u] = [user[u] EXCEPT !.pc = "erase"]
      BY <1>6 DEF RemoveDirectory, Goes, Types
    <3>2. [user[u] EXCEPT !.pc = "erase"].job = j
      BY <1>1, <1>6 DEF RemoveDirectory, UserState, Closed, Idle
    <3> QED
      BY <3>1, <3>2
  <2>3. ForgettingSeen'
    BY <1>2, <1>6, <2>1, <2>2 DEF SweepInv, ForgettingSeen, At, RemoveDirectory
  <2>4. Active(j) => j \in overtaken
    BY <2>1 DEF SweepInv, ActiveScheduled, ForgettingSeen
  <2>5. \A k \in Job : dir'[k] = dir[k] \/ (dir'[k] = None /\ (Active(k) => k \in overtaken))
    BY <1>6, <2>1, <2>4 DEF RemoveDirectory, Put, Types, TypeOK
  <2> QED
    BY <1>6, <2>3, <2>5, UserSweep DEF KeepsRecords, RemoveDirectory
<1>7. CASE Erase(u)
  <2> DEFINE j == user[u].job
  <2>1. j \in Job /\ At(u, Forgetting, j)
    BY <1>1, <1>7, UserTypes DEF Erase, Forgetting, At
  <2>2. user'[u].pc \notin Forgetting
    BY <1>1, <1>7 DEF Erase, Forgetting, Goes, Types, UserState, Closed, Idle
  <2>3. ForgettingSeen'
    BY <1>2, <1>7, <2>2 DEF SweepInv, ForgettingSeen, At, Erase
  <2>4. \A k \in scheduled \ scheduled' : k \in overtaken'
    BY <1>7, <2>1 DEF SweepInv, ForgettingSeen, Erase
  <2> QED
    <3>1. UNCHANGED <<worker, orphans>> /\ overtaken \subseteq overtaken'
      BY <1>7 DEF Erase
    <3>2. \A k \in Job : tree[k] /\ ~FilesOf(k).wt => tree'[k]
      BY <1>7 DEF Erase
    <3>3. KeepsRecords
      BY <1>7 DEF Erase, KeepsRecords
    <3> QED
      BY <2>3, <2>4, <3>1, <3>2, <3>3, UserSweep, Zenon
<1>8. CASE PurgeTree(u)
  <2>1. user'[u].pc \notin Forgetting
    BY <1>8 DEF PurgeTree, Goes, Types, Idle, Forgetting
  <2>2. ForgettingSeen'
    BY <1>2, <1>8, <2>1 DEF SweepInv, ForgettingSeen, At, PurgeTree
  <2>3. \A j \in Job : tree[j] /\ ~FilesOf(j).wt => tree'[j]
    BY <1>8 DEF PurgeTree, CleansTree, Types, TypeOK
  <2> QED
    BY <1>8, <2>2, <2>3, UserSweep DEF KeepsRecords, PurgeTree
<1> QED
  BY <1>3, <1>4, <1>5, <1>6, <1>7, <1>8 DEF UserStep

LEMMA CommandSweep ==
  ASSUME Types, SweepInv, NEW u \in User, Command(u) \/ RemoveFails(u) \/ Dies(u)
  PROVE  SweepInv'
<1>1. \A v \in User : v # u => user'[v] = user[v]
  BY DEF Command, Create, Start, Clean, BeginForget, RemoveFails, Dies, Goes, Types
<1>2. ASSUME NEW j \in Job, NEW request \in Request, Create(u, j, request) PROVE SweepInv'
  <2>1. ForgettingSeen'
    BY <1>1, <1>2 DEF Create, Goes, Types, SweepInv, ForgettingSeen, At, Forgetting
  <2> QED
    BY <1>2, <2>1, UserSweep DEF KeepsRecords, Create
<1>3. ASSUME NEW j \in Job, Start(u, j) PROVE SweepInv'
  <2>1. ForgettingSeen'
    BY <1>1, <1>3 DEF Start, Goes, Types, SweepInv, ForgettingSeen, At, Forgetting
  <2> QED
    BY <1>3, <2>1, UserSweep DEF KeepsRecords, Start
<1>4. ASSUME NEW j \in Job, Clean(u, j) PROVE SweepInv'
  <2>1. ForgettingSeen'
    BY <1>4 DEF Clean, SweepInv, ForgettingSeen, At
  <2>2. \A k \in Job : tree[k] /\ ~FilesOf(k).wt => tree'[k]
    BY <1>4 DEF Clean, CleansTree, Types, TypeOK
  <2> QED
    BY <1>4, <2>1, <2>2, UserSweep DEF KeepsRecords, Clean
<1>5. ASSUME NEW j \in Job, NEW purge \in BOOLEAN, BeginForget(u, j, purge) PROVE SweepInv'
  <2>1. user'[u].job = j /\ (j \in scheduled => j \in overtaken')
    BY <1>5 DEF BeginForget, Goes, Types
  <2>2. ForgettingSeen'
    BY <1>1, <1>5, <2>1 DEF BeginForget, SweepInv, ForgettingSeen, At
  <2>3. overtaken \subseteq overtaken'
    BY <1>5 DEF BeginForget
  <2> QED
    BY <1>5, <2>2, <2>3, UserSweep DEF KeepsRecords, BeginForget
<1>6. CASE RemoveFails(u) \/ Dies(u)
  <2>1. user'[u].pc \notin Forgetting
    BY <1>6 DEF RemoveFails, Dies, Goes, Types, Idle, Closed, Forgetting
  <2>2. ForgettingSeen'
    BY <1>1, <1>6, <2>1 DEF RemoveFails, Dies, SweepInv, ForgettingSeen, At
  <2> QED
    BY <1>6, <2>2, UserSweep DEF KeepsRecords, RemoveFails, Dies
<1> QED
  BY <1>2, <1>3, <1>4, <1>5, <1>6 DEF Command

\* What a step of a worker must keep, about its own job.
LEMMA WorkerSweepRule ==
  ASSUME Types, SweepInv, NEW j \in Job,
         UNCHANGED <<user, orphans, overtaken>>,
         \A k \in Job \ {j} : worker'[k] = worker[k] /\ dir'[k] = dir[k] /\ tree'[k] = tree[k],
         scheduled \ {j} \subseteq scheduled', scheduled' \subseteq scheduled,
         Active(j)' => (j \in scheduled' \/ j \in overtaken) /\ (dir'[j] # None \/ j \in overtaken),
         (j \in orphans /\ j \notin overtaken) => tree'[j] /\ ~InUse(j)',
         worker'[j].pc = "record" => worker'[j].isolated,
         worker'[j].pc = "store" /\ worker'[j].closes => worker'[j].next # "work"
  PROVE  SweepInv'
<1>1. \A k \in Job \ {j} : Active(k)' = Active(k) /\ InUse(k)' = InUse(k)
  BY DEF Active, InUse, FilesOf
<1>2. ActiveScheduled' /\ ActiveHasDirectory'
  BY <1>1 DEF SweepInv, ActiveScheduled, ActiveHasDirectory
<1>3. ForgettingSeen'
  BY DEF SweepInv, ForgettingSeen, At
<1>4. OrphansUnused'
  BY <1>1 DEF SweepInv, OrphansUnused, Types, TypeOK
<1>5. WorkerRecords'
  BY DEF SweepInv, WorkerRecords
<1> QED
  BY <1>2, <1>3, <1>4, <1>5 DEF SweepInv

LEMMA WorkerSweep ==
  ASSUME Types, SweepInv, NEW j \in Job, WorkerStep(j) \/ WorkerDies(j)
  PROVE  SweepInv'
<1> USE DEF Types
<1>1. worker[j] \in RunState
  OBVIOUS
<1>2. /\ Active(j) => (j \in scheduled \/ j \in overtaken) /\ (dir[j] # None \/ j \in overtaken)
      /\ (j \in orphans /\ j \notin overtaken) => tree[j] /\ ~InUse(j)
      /\ worker[j].pc = "record" => worker[j].isolated
      /\ worker[j].pc = "store" /\ worker[j].closes => worker[j].next # "work"
  BY DEF SweepInv, ActiveScheduled, ActiveHasDirectory, OrphansUnused, WorkerRecords
<1>3. NoRun.pc = "idle"
  BY DEF NoRun
<1>4. InUse(j) <=> \/ FilesOf(j).wt
                   \/ dir[j] # None /\ worker[j].isolated /\ Active(j) /\ worker[j].pc # "prepare"
  BY InUseMeans
<1>5. InUse(j)' <=> \/ FilesOf(j)'.wt
                    \/ dir'[j] # None /\ worker'[j].isolated /\ Active(j)' /\ worker'[j].pc # "prepare"
  BY DEF InUse, Active, NoRun
<1>6. CASE Begin(j)
  <2>1. worker' = [worker EXCEPT ![j] = [pc |-> "prepare", isolated |-> FilesOf(j).ctx.isolated]]
    BY <1>6 DEF Begin, Runs
  <2>2. worker'[j].pc = "prepare" /\ dir[j] # None /\ j \in scheduled
    BY <1>6, <2>1 DEF Begin, FilesOf, NoFiles
  <2>3. FilesOf(j)' = FilesOf(j)
    BY <1>6 DEF Begin, FilesOf
  <2> QED
    BY <1>2, <1>4, <1>5, <1>6, <2>1, <2>2, <2>3, WorkerSweepRule DEF Begin
<1>7. CASE BeginFails(j)
  <2>1. worker[j].pc = "idle" /\ ~Active(j) /\ ~Active(j)'
    BY <1>3, <1>7 DEF BeginFails, Active
  <2>2. FilesOf(j)'.wt = FilesOf(j).wt
    BY <1>7, FilesTypes, NoneIsNoFiles DEF BeginFails, Put, TypeOK, FilesOf
  <2>3. \A k \in Job \ {j} : dir'[k] = dir[k]
    BY <1>7 DEF BeginFails, Put, TypeOK
  <2> QED
    BY <1>2, <1>4, <1>5, <1>7, <2>1, <2>2, <2>3, WorkerSweepRule DEF BeginFails
<1>8. CASE Prepare(j)
  <2>1. FilesOf(j)' = FilesOf(j) /\ Active(j)
    BY <1>8 DEF Prepare, FilesOf, Active
  <2>2. \A pc : /\ [worker[j] EXCEPT !.pc = pc].pc = pc
                /\ [worker[j] EXCEPT !.pc = pc].isolated = worker[j].isolated
    BY <1>1, <1>8, <1>3 DEF Prepare, RunState
  <2>3. worker[j].isolated \in BOOLEAN
    BY <1>1, <1>8, RunTypes DEF Prepare
  <2>4. CASE worker' = [worker EXCEPT ![j] = [worker[j] EXCEPT !.pc = "start"]] /\ UNCHANGED <<tree, scheduled>>
             /\ (~worker[j].isolated \/ (FilesOf(j).wt /\ tree[j]))
    <3>1. worker'[j].pc = "start" /\ worker'[j].isolated = worker[j].isolated
      BY <2>2, <2>4
    <3> QED
      BY <1>2, <1>4, <1>5, <1>8, <2>1, <2>3, <2>4, <3>1, WorkerSweepRule DEF Prepare
  <2>5. CASE worker' = [worker EXCEPT ![j] = [worker[j] EXCEPT !.pc = "record"]] /\ UNCHANGED scheduled
             /\ tree' = [tree EXCEPT ![j] = TRUE] /\ ~tree[j] /\ worker[j].isolated
    <3>1. worker'[j].pc = "record" /\ worker'[j].isolated
      BY <2>2, <2>5
    <3> QED
      BY <1>2, <1>8, <2>1, <2>5, <3>1, WorkerSweepRule DEF Prepare, TypeOK
  <2>6. CASE worker' = [worker EXCEPT ![j] = NoRun] /\ scheduled' = scheduled \ {j} /\ UNCHANGED tree
    <3>1. worker'[j].pc = "idle" /\ ~Active(j)'
      BY <1>3, <2>6 DEF Active
    <3> QED
      BY <1>2, <1>4, <1>5, <1>8, <2>1, <2>6, <3>1, WorkerSweepRule DEF Prepare
  <2> QED
    BY <1>8, <2>3, <2>4, <2>5, <2>6 DEF Prepare, Runs, CanAdd
<1>9. CASE Record(j)
  <2>1. worker' = [worker EXCEPT ![j] = [worker[j] EXCEPT !.pc = "start"]]
        /\ dir' = [dir EXCEPT ![j] = [FilesOf(j) EXCEPT !.wt = TRUE]]
    BY <1>9 DEF Record, Runs, Put
  <2>2. worker'[j].pc = "start" /\ Active(j) /\ worker[j].isolated /\ worker[j].pc # "prepare"
    BY <1>1, <1>2, <1>9, <2>1 DEF Record, RunState, NoRun, Active
  <2>3. dir'[j] # None
    BY <2>1, FilesTypes, NoneIsNoFiles DEF TypeOK
  <2> QED
    BY <1>2, <1>4, <1>9, <2>1, <2>2, <2>3, WorkerSweepRule DEF Record, TypeOK
<1>10. CASE Load(j)
  <2>1. FilesOf(j)' = FilesOf(j)
    BY <1>10 DEF Load, FilesOf
  <2>2. /\ \A k \in Job \ {j} : tree'[k] = tree[k]
        /\ tree[j] /\ ~FilesOf(j).wt => tree'[j]
    BY <1>10 DEF Load, CleansTree, TypeOK
  <2>3. /\ \A k \in Job \ {j} : worker'[k] = worker[k]
        /\ \/ worker'[j] = NoRun
           \/ /\ worker'[j].pc = "store" /\ worker'[j].isolated = worker[j].isolated
              /\ worker'[j].closes => worker'[j].next # "work"
              /\ worker'[j].next = "work" => worker[j].pc = "start"
    BY <1>10 DEF Load, Loads, Runs
  <2>4. Active(j)' => Active(j) /\ worker[j].pc = "start" /\ worker'[j].isolated = worker[j].isolated
    BY <1>3, <2>3 DEF Active
  <2>5. worker'[j].pc # "record" /\ (worker'[j].pc = "store" /\ worker'[j].closes => worker'[j].next # "work")
    BY <1>3, <2>3
  <2>6. (j \in orphans /\ j \notin overtaken) => tree'[j] /\ ~InUse(j)'
    BY <1>2, <1>4, <1>5, <1>10, <2>1, <2>2, <2>4 DEF Load
  <2> QED
    BY <1>2, <1>10, <2>2, <2>3, <2>4, <2>5, <2>6, WorkerSweepRule DEF Load
<1>11. CASE Store(j)
  <2>1. FilesOf(j)' = FilesOf(j)
    BY <1>11 DEF Store, FilesOf
  <2>2. worker' = [worker EXCEPT ![j] = [worker[j] EXCEPT !.pc = "mirror"]]
    BY <1>11 DEF Store, Runs
  <2>3. worker'[j].pc = "mirror" /\ worker'[j].isolated = worker[j].isolated
        /\ worker'[j].next = worker[j].next
    BY <1>1, <1>11, <2>2 DEF Store, RunState, NoRun
  <2>4. Active(j)' <=> Active(j)
    BY <1>11, <2>3 DEF Store, Active
  <2>5. worker[j].closes => ~Active(j)
    BY <1>2, <1>11 DEF Store, Active
  <2>6. (j \in orphans /\ j \notin overtaken) => tree'[j] /\ ~InUse(j)'
    BY <1>2, <1>4, <1>5, <1>11, <2>1, <2>3, <2>4 DEF Store
  <2> QED
    BY <1>2, <1>11, <2>2, <2>3, <2>4, <2>5, <2>6, WorkerSweepRule DEF Store
<1>12. CASE WriteMirror(j)
  <2>1. dir' = [dir EXCEPT ![j] = [FilesOf(j) EXCEPT !.mirror = TRUE]]
    BY <1>12 DEF WriteMirror, Put
  <2>2. FilesOf(j) \in Files /\ [FilesOf(j) EXCEPT !.mirror = TRUE] \in Files
    BY FilesTypes
  <2>3. [FilesOf(j) EXCEPT !.mirror = TRUE].wt = FilesOf(j).wt
    BY <2>2 DEF Files
  <2>4. dir'[j] # None /\ FilesOf(j)'.wt = FilesOf(j).wt
    BY <2>1, <2>2, <2>3, NoneIsNoFiles DEF FilesOf, TypeOK
  <2>5. /\ \A k \in Job \ {j} : worker'[k] = worker[k]
        /\ \/ worker'[j] = NoRun
           \/ worker'[j].pc = worker[j].next /\ worker'[j].isolated = worker[j].isolated
    BY <1>12 DEF WriteMirror, Runs
  <2>6. worker[j].next \in {"work", "tidy", "end"}
    BY <1>1, <1>12, RunTypes DEF WriteMirror
  <2>7. Active(j)' => Active(j) /\ worker'[j].isolated = worker[j].isolated
    BY <1>3, <1>12, <2>5, <2>6 DEF WriteMirror, Active
  <2>8. worker'[j].pc \notin {"record", "store"}
    BY <1>3, <2>5, <2>6
  <2>9. (j \in orphans /\ j \notin overtaken) => tree'[j] /\ ~InUse(j)'
    BY <1>2, <1>4, <1>5, <1>12, <2>4, <2>7 DEF WriteMirror
  <2> QED
    BY <1>2, <1>12, <2>1, <2>4, <2>5, <2>7, <2>8, <2>9, WorkerSweepRule DEF WriteMirror, TypeOK
<1>13. CASE WorkerDies(j)
  <2>1. worker' = [worker EXCEPT ![j] = NoRun] /\ ~Active(j)'
    BY <1>3, <1>13 DEF WorkerDies, Runs, Active
  <2>2. FilesOf(j)' = FilesOf(j)
    BY <1>13 DEF WorkerDies, FilesOf
  <2> QED
    BY <1>2, <1>3, <1>4, <1>5, <1>13, <2>1, <2>2, WorkerSweepRule DEF WorkerDies
<1> QED
  BY <1>6, <1>7, <1>8, <1>9, <1>10, <1>11, <1>12, <1>13 DEF WorkerStep

LEMMA NextSweep == Types /\ SweepInv /\ [Next]_vars => SweepInv'
<1> SUFFICES ASSUME Types, SweepInv, [Next]_vars PROVE SweepInv'
  OBVIOUS
<1>1. CASE Scan
  <2>1. \A j \in orphans' : tree[j] /\ dir[j] = None /\ ~FilesOf(j).wt
    BY <1>1 DEF Scan, IsOrphan, FilesOf, NoFiles
  <2>2. OrphansUnused'
    BY <1>1, <2>1 DEF Scan, OrphansUnused, InUse, FilesOf
  <2> QED
    BY <1>1, <2>2 DEF Scan, SweepInv, ActiveScheduled, ForgettingSeen, ActiveHasDirectory, WorkerRecords,
       Active, At
<1>2. ASSUME NEW j \in Job, RemoveOrphan(j) PROVE SweepInv'
  <2>1. OrphansUnused'
    BY <1>2 DEF RemoveOrphan, SweepInv, OrphansUnused, InUse, FilesOf, Types, TypeOK
  <2> QED
    BY <1>2, <2>1 DEF RemoveOrphan, SweepInv, ActiveScheduled, ForgettingSeen, ActiveHasDirectory,
       WorkerRecords, Active, At
<1>3. CASE UNCHANGED vars
  BY <1>3 DEF vars, SweepInv, ActiveScheduled, ForgettingSeen, ActiveHasDirectory, OrphansUnused,
     WorkerRecords, Active, At, InUse, FilesOf
<1> QED
  BY <1>1, <1>2, <1>3, UserStepSweep, CommandSweep, WorkerSweep DEF Next

\* The orphan sweep never removes a worktree in use, unless the job was started
\* while it was being forgotten.
THEOREM SweepSparesWorktrees == Spec => SweepSparesJobs
<1>1. Types /\ SweepInv /\ [Next]_vars
        => [\A j \in orphans \ orphans' : tree[j] /\ ~tree'[j] => ~InUse(j) \/ j \in overtaken]_vars
  BY DEF SweepInv, OrphansUnused
<1> QED
  BY <1>1, InitTypes, NextTypes, InitSweep, NextSweep, PTL DEF Spec, SweepSparesJobs
================================================================================
