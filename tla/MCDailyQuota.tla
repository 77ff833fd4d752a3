---------------------------- MODULE MCDailyQuota ----------------------------
(* Instances of DailyQuota for TLC. *)
EXTENDS DailyQuota, TLC

CONSTANTS r1, r2

\* The two budgets share nothing but the clock: TLC follows the behaviours in
\* which one of them is used.
OneBudget ==
    \/ dailyUsage = Zero /\ \A r \in Requests : pc[r] = "idle"
    \/ embeddingUsage = Zero /\ \A p \in Embedders : pc[p] = "idle"

RequestSymmetry == Permutations({r1, r2})
=============================================================================
