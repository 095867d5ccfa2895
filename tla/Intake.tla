-------------------------------- MODULE Intake --------------------------------
(***************************************************************************)
(* From a request to a job: the entry points (command line, batch, MCP,     *)
(* Web UI) merge what the user gave with .cbx.json and with the defaults    *)
(* of the execution profile, and createJob accepts or refuses the result    *)
(* and freezes it in context.json (jobs.ts, state.ts mergeConfig,           *)
(* profile.ts, validation.ts).                                              *)
(*                                                                          *)
(* A request is [entry, given, unsafe, dependsOn]: the settings it carries  *)
(* (None where it says nothing), whether it allows unsafe permissions, and  *)
(* whether a stage of its contract depends on another.  A configuration has *)
(* the same settings.  Settings that no check reads (timeouts, messages,    *)
(* executors, models) are left out.                                         *)
(***************************************************************************)
EXTENDS Integers

CONSTANT None  \* undefined

Profile == {"fast", "verified", "governed", "untrusted"}

ASSUME NoneAssumption == None \notin BOOLEAN /\ None \notin Profile

EntryPoint == {"cli", "batch", "mcp", "web"}
Setting == {"profile", "isolated", "review", "test", "guard", "approval",
            "trust", "adaptive", "autoCommit", "retries", "permission"}

Coalesce(a, b) == IF a = None THEN b ELSE a

-----------------------------------------------------------------------------
(* What applies when neither the request nor the configuration says.         *)

ProfileDefaults(profile) ==
  [isolated |-> profile # "fast",
   review   |-> profile # "fast",
   guard    |-> profile \in {"governed", "untrusted"},
   approval |-> profile \in {"governed", "untrusted"},
   trust    |-> IF profile = "untrusted" THEN "untrusted" ELSE "trusted"]

Fallback ==
  [isolated |-> TRUE, review |-> FALSE, guard |-> FALSE, approval |-> FALSE,
   trust |-> "trusted", test |-> None, adaptive |-> FALSE, autoCommit |-> FALSE,
   retries |-> 1, permission |-> "auto"]

Default(profile, s) ==
  IF profile \in Profile /\ s \in {"isolated", "review", "guard", "approval", "trust"}
  THEN ProfileDefaults(profile)[s]
  ELSE Fallback[s]

MergeConfig(given, config) ==
  LET profile == Coalesce(given["profile"], config["profile"])
  IN [s \in Setting |->
        IF s = "profile" THEN profile
        ELSE Coalesce(given[s], Coalesce(config[s], Default(profile, s)))]

-----------------------------------------------------------------------------
(* What an entry point lets the user say, and what it hands to createJob.    *)

Cli   == [accepts |-> Setting, forwards |-> Setting]
Batch == [accepts |-> Setting \ {"adaptive", "approval"}, forwards |-> Setting \ {"adaptive"}]
Mcp   == [accepts |-> Setting \ {"trust"}, forwards |-> Setting \ {"trust"}]
Web   == [accepts |-> Setting \ {"trust", "adaptive"}, forwards |-> Setting]

Entry == [cli |-> Cli, batch |-> Batch, mcp |-> Mcp, web |-> Web]

\* The options of createJob.
Options(request, config) ==
  LET merged == MergeConfig(request.given, config)
  IN [s \in Setting |-> IF s \in Entry[request.entry].forwards THEN merged[s] ELSE None]

-----------------------------------------------------------------------------
(* createJob's checks, in its order: the policy looks at isolation before    *)
(* autoCommit turns it on, the profile afterwards.                           *)

PermissionAllowed(mode, unsafe) ==
  /\ mode \in {"default", "acceptEdits", "auto", "dontAsk"}
  /\ mode = "dontAsk" => unsafe

PolicyHolds(trust, isolated, runner) ==
  /\ trust \in {"trusted", "untrusted"}
  /\ trust = "untrusted" => isolated /\ runner

Promoted(options) ==
  [options EXCEPT !["isolated"] = @ \/ options["autoCommit"]]

\* Mutant: the review is not looked at.
ProfileWithoutReview(o) ==
  LET profile == o["profile"]
  IN profile # None =>
       /\ profile # "fast" => o["isolated"] = TRUE /\ o["test"] # None
       /\ profile \in {"governed", "untrusted"} => o["guard"] = TRUE /\ o["approval"] = TRUE

ProfileHolds(o) ==
  LET profile == o["profile"]
  IN profile # None =>
       /\ profile \in Profile
       /\ profile # "fast" =>
            o["isolated"] = TRUE /\ o["review"] = TRUE /\ o["test"] # None
       /\ profile \in {"governed", "untrusted"} =>
            o["guard"] = TRUE /\ o["approval"] = TRUE
       /\ (profile = "untrusted") <=> (o["trust"] = "untrusted")

Accepted(request, config, runner) ==
  LET o == Options(request, config)
  IN /\ PermissionAllowed(o["permission"], request.unsafe)
     /\ PolicyHolds(Coalesce(o["trust"], "trusted"), o["isolated"], runner)
     /\ o["retries"] >= 0
     /\ (o["adaptive"] = TRUE) => o["review"] /\ ~request.dependsOn
     /\ ProfileHolds(Promoted(o))

(* What context.json keeps: a run reads these settings from it.  (A run may   *)
(* turn the dependency guard on later when the configuration asks for it.)    *)
Context(request, config) ==
  LET o == Promoted(Options(request, config))
  IN [profile  |-> o["profile"],
      isolated |-> o["isolated"],
      review   |-> o["review"],
      test     |-> o["test"],
      guard    |-> Coalesce(o["guard"], FALSE),
      approval |-> Coalesce(o["approval"], FALSE),
      trust    |-> Coalesce(o["trust"], "trusted"),
      adaptive |-> Coalesce(o["adaptive"], FALSE),
      executionRetries |-> IF o["retries"] + 1 > 1 THEN o["retries"] + 1 ELSE 1,
      fixRetries       |-> IF o["retries"] > 1 THEN o["retries"] ELSE 1]

-----------------------------------------------------------------------------
(* What the profiles promise (README.md, "Execution Profiles"), read from a  *)
(* context: whatever the entry point, the configuration and the overrides.   *)
Governed(context) ==
  /\ context.profile \in Profile \cup {None}
  /\ context.profile \in {"verified", "governed", "untrusted"} =>
       context.isolated /\ context.review /\ context.test # None
  /\ context.profile \in {"governed", "untrusted"} =>
       context.guard /\ context.approval
  /\ context.profile = "untrusted" => context.trust = "untrusted"
  /\ context.trust = "untrusted" =>
       context.isolated /\ context.profile \in {"untrusted", None}
  /\ context.adaptive => context.review
=============================================================================
