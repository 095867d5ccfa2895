------------------------------- MODULE Routing --------------------------------
(***************************************************************************)
(* Which agent runs a job whose executor is "auto": the record of every     *)
(* agent, aggregated from the jobs that have ended (executors/stats.ts),    *)
(* and the choice among the agents that are installed and match the task    *)
(* (executors/route.ts).                                                    *)
(*                                                                          *)
(* jobs maps the directories under .cbx/jobs to what their state.json and   *)
(* context.json say: [status, executor, category, tokens, duration], None   *)
(* for a number that is missing or not positive; a directory without one of *)
(* the files is no element.  agents is the sequence of probes in the order  *)
(* of discoverAgents: [name, available, score], where score is the number   *)
(* of capability labels found in the task (how text is matched is left out).*)
(* Averages are rounded down; the code rounds to the nearest.               *)
(***************************************************************************)
EXTENDS Integers, Sequences, FiniteSetsExt, SequencesExt

CONSTANT None

Strategy == {"best", "cheapest", "fastest"}

-----------------------------------------------------------------------------
(* The record of the agents.                                                 *)

Counted(job) == /\ job.status \in {"done", "failed", "needs_fix", "review_failed"}
                /\ job.executor \notin {None, "auto"}

Tally(jobs, ids) == [runs |-> Cardinality(ids),
                     done |-> Cardinality({j \in ids : jobs[j].status = "done"})]

Average(values, ids) ==
  LET known == {j \in ids : values[j] # None}
  IN IF known = {} THEN None
     ELSE MapThenSumSet(LAMBDA j : values[j], known) \div Cardinality(known)

CollectExecutorStats(jobs) ==
  LET counted == {j \in DOMAIN jobs : Counted(jobs[j])}
      Of(e) == {j \in counted : jobs[j].executor = e}
      CategoriesOf(e) == {jobs[j].category : j \in Of(e)} \ {None}
  IN [e \in {jobs[j].executor : j \in counted} |->
        [runs        |-> Tally(jobs, Of(e)).runs,
         done        |-> Tally(jobs, Of(e)).done,
         avgTokens   |-> Average([j \in Of(e) |-> jobs[j].tokens], Of(e)),
         avgDuration |-> Average([j \in Of(e) |-> jobs[j].duration], Of(e)),
         categories  |-> [c \in CategoriesOf(e) |->
                            Tally(jobs, {j \in Of(e) : jobs[j].category = c})]]]

-----------------------------------------------------------------------------
(* Comparing two agents: success rate in the task's category (smoothed),     *)
(* then mean tokens, then mean duration; what is unknown comes last.         *)

Known(stats, name) == name \in DOMAIN stats

\* (done + 1) / (runs + 2) of the category, else of all jobs, else of none.
Sample(stats, name, category) ==
  IF ~Known(stats, name) THEN [runs |-> 0, done |-> 0]
  ELSE IF category \in DOMAIN stats[name].categories THEN stats[name].categories[category]
  ELSE [runs |-> stats[name].runs, done |-> stats[name].done]

\* The comparison of the two fractions, by their cross products.
RateExceeds(a, b) == (a.done + 1) * (b.runs + 2) > (b.done + 1) * (a.runs + 2)

Tokens(stats, name)   == IF Known(stats, name) THEN stats[name].avgTokens ELSE None
Duration(stats, name) == IF Known(stats, name) THEN stats[name].avgDuration ELSE None

Less(a, b) == a # None /\ (b = None \/ a < b)

\* compareByStats(a, b) < 0.
Precedes(stats, category, a, b) ==
  LET rateA == Sample(stats, a, category)
      rateB == Sample(stats, b, category)
  IN \/ RateExceeds(rateA, rateB)
     \/ /\ ~RateExceeds(rateB, rateA)
        /\ \/ Less(Tokens(stats, a), Tokens(stats, b))
           \/ /\ Tokens(stats, a) = Tokens(stats, b)
              /\ Less(Duration(stats, a), Duration(stats, b))

-----------------------------------------------------------------------------
(* The choice.  Reducing keeps the first of several that are equally good.   *)

Reduce(names, Before(_, _)) ==
  FoldLeft(LAMBDA best, name : IF Before(name, best) THEN name ELSE best, Head(names), Tail(names))

PickBest(tier, stats, category) ==
  Reduce(tier, LAMBDA a, b : Precedes(stats, category, a, b))

DemonstratedBroken(entry) == entry.runs >= 2 /\ entry.done = 0

Metric(stats, strategy, name) ==
  IF ~Known(stats, name) THEN None
  ELSE IF DemonstratedBroken(stats[name]) THEN None
  ELSE IF strategy = "cheapest" THEN stats[name].avgTokens ELSE stats[name].avgDuration

PickByStrategy(tier, stats, strategy, category) ==
  LET eligible == SelectSeq(tier, LAMBDA n : Metric(stats, strategy, n) # None)
  IN IF strategy = "best" \/ eligible = <<>>
     THEN PickBest(tier, stats, category)
     ELSE Reduce(eligible,
                 LAMBDA a, b : Metric(stats, strategy, a) < Metric(stats, strategy, b))

\* Installed, not excluded, in the order of discovery.
Rank(agents, exclude) ==
  SelectSeq(agents, LAMBDA a : a.available /\ a.name \notin exclude)

\* The highest capability tier; empty when no agent matches at all.
Tier(agents, exclude) ==
  LET ranked == Rank(agents, exclude)
      top == Max({a.score : a \in ToSet(ranked)} \cup {0})
  IN IF top = 0 THEN <<>>
     ELSE LET tier == SelectSeq(ranked, LAMBDA a : a.score = top)
          IN [i \in DOMAIN tier |-> tier[i].name]

Decide(agents, exclude, stats, strategy, category) ==
  LET tier == Tier(agents, exclude)
  IN IF tier = <<>> THEN None ELSE PickByStrategy(tier, stats, strategy, category)

-----------------------------------------------------------------------------
(* Who asks.                                                                 *)

\* createJob: an explicit executor is taken as it is.
ExecutorFor(requested, agents, stats, strategy, category) ==
  LET routed == Decide(agents, {}, stats, strategy, category)
  IN IF requested # "auto" THEN requested
     ELSE IF routed = None THEN "codebuddy" ELSE routed

\* An independent review: the primary is excluded when it is a candidate.
ReviewExecutorFor(primary, agents, stats, category) ==
  LET isCandidate == \E a \in ToSet(agents) : a.available /\ a.name = primary
  IN Decide(agents, IF isCandidate THEN {primary} ELSE {}, stats, "best", category)

\* A failed execution of an "auto" job goes to the next agent that was not tried.
FallbackFor(tried, agents, stats, strategy, category) ==
  Decide(agents, tried, stats, strategy, category)

-----------------------------------------------------------------------------
(* What the choice is for, stated without the folds.                         *)

Candidates(agents, exclude) == ToSet(Rank(agents, exclude))

\* The choice is a candidate, no candidate matches the task better, and of
\* those that match as well none has a better record under the strategy.
IsBestChoice(choice, agents, exclude, stats, strategy, category) ==
  LET candidates == {a \in Candidates(agents, exclude) : a.score > 0}
      Chosen == CHOOSE a \in candidates : a.name = choice
      peers == {a.name : a \in {a \in candidates : a.score = Chosen.score}}
      measured == {n \in peers : Metric(stats, strategy, n) # None}
  IN IF candidates = {} THEN choice = None
     ELSE /\ choice \in {a.name : a \in candidates}
          /\ \A a \in candidates : a.score <= Chosen.score
          /\ IF strategy = "best" \/ measured = {}
             THEN \A n \in peers : ~Precedes(stats, category, n, choice)
             ELSE /\ choice \in measured
                  /\ \A n \in measured : Metric(stats, strategy, choice) <= Metric(stats, strategy, n)
=============================================================================
