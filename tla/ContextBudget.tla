------------------------------ MODULE ContextBudget ------------------------------
(***************************************************************************)
(* The context packs an agent gets, cut to the token budget of its role and  *)
(* refused beyond a number of characters (context-pack.ts).  A pack is known *)
(* by the sizes of its parts, in tokens; sizes add up (the estimate is a sum *)
(* over the characters; its rounding and the JSON punctuation are left out). *)
(*   contract      the size of each field of the task contract, 0 where it   *)
(*                 has none; "core" is the goal, the acceptance criteria and *)
(*                 the stages                                                *)
(*   reason        the retry reason of the last failure                      *)
(*   instructions  what the user added                                       *)
(*   rest          the stage, its rules, the progress, the audit, the files  *)
(***************************************************************************)
EXTENDS Naturals, FiniteSetsExt, Sequences

CONSTANTS Short,  \* what is left of long instructions (1 000 characters)
          Limit   \* the most a pack may have (24 000 characters)

DropOrder == <<"assumptions", "rejectedOptions", "decisions", "constraints",
               "relevantFiles", "nonGoals">>

Fields == {"core"} \cup {DropOrder[k] : k \in DOMAIN DropOrder}

ContractSize(contract) == FoldSet(LAMBDA f, sum : sum + contract[f], 0, Fields)

PackSize(pack) == ContractSize(pack.contract) + pack.reason + pack.instructions + pack.rest

-----------------------------------------------------------------------------
\* Fields are dropped in order while the contract, measured alone, is too big.
TrimContract(contract, budget) ==
  LET after[k \in 0..Len(DropOrder)] ==
        IF k = 0 THEN contract ELSE [after[k - 1] EXCEPT ![DropOrder[k]] = 0]
      Stops(k) == k = Len(DropOrder) \/ ContractSize(after[k]) <= budget
      dropped == CHOOSE k \in DOMAIN after : Stops(k) /\ \A j \in 0..(k - 1) : ~Stops(j)
  IN after[dropped]

\* The pack that is left and its mark.  Each cut is made only if the pack is
\* still too big.
ApplyBudget(pack, budget) ==
  LET fits(p) == PackSize(p) <= budget
      contract == [pack EXCEPT !.contract = TrimContract(@, budget)]
      reason == IF fits(contract) THEN contract ELSE [contract EXCEPT !.reason = 0]
      instructions ==
        IF fits(reason) THEN reason
        ELSE [reason EXCEPT !.instructions = IF @ < Short THEN @ ELSE Short]
  IN IF fits(pack) THEN [pack |-> pack, truncated |-> FALSE]
     ELSE [pack |-> instructions,
           truncated |-> instructions # pack \/ ~fits(instructions)]

\* A pack is written, or it is refused and the turn it was for fails.
Materializes(pack) == PackSize(pack) <= Limit

CreatesContextPack(pack, budget) == Materializes(ApplyBudget(pack, budget).pack)
================================================================================
