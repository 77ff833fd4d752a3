----------------------------- MODULE MCIndexing -----------------------------
(***************************************************************************)
(* Instances of Indexing for TLC.  Each filing has three or four chunks in *)
(* two or three batches of a budget of 4 tokens: a batch of two chunks, and*)
(* a chunk that alone exceeds the budget and still is a batch of its own.  *)
(***************************************************************************)
EXTENDS Indexing, TLC

CONSTANTS f1, f2, t1, t2

MCCost1 == f1 :> <<2, 2, 5, 1>>
MCCost2 == f1 :> <<2, 2, 1>> @@ f2 :> <<5, 1>>
MCCost3 == f1 :> <<2, 2>> @@ f2 :> <<5>>
MCBudget == 4

TaskSymmetry == Permutations({t1, t2})
=============================================================================
