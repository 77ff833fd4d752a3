------------------------------ MODULE ChunkPlan ------------------------------
(***************************************************************************)
(* How one filing's chunks are packed into embedding requests              *)
(* (services/embeddings.py, plan_batches).  A chunk is its token estimate; *)
(* its text never matters to the indexer.  Chunks are numbered from 0, as  *)
(* filing_chunks.chunk_index is, and a batch is the half-open interval     *)
(* from its first chunk to PlanEnd.                                        *)
(***************************************************************************)
EXTENDS Integers, Sequences, FiniteSets, Functions

CONSTANTS
    Filings,     \* accession numbers
    Cost,        \* Cost[f]: the token estimates of f's chunks, in document order
    TokenBudget  \* embeddings.TOKEN_BUDGET, the most tokens one request carries

\* estimate_tokens is at least 1, a filing with no text is refused before it is
\* stored, so every stored filing has at least one chunk.
ASSUME ChunkPlanAssumption ==
    /\ Cost \in [Filings -> Seq(Nat \ {0})]
    /\ \A f \in Filings : Cost[f] # << >>
    /\ TokenBudget \in Nat

Total(f) == Len(Cost[f])

Prefix(n) == 0 .. n - 1

Whole(f) == Prefix(Total(f))

\* Tokens of the chunks i .. j-1 of f together.
BatchTokens(f, i, j) == SumFunctionOnSet(Cost[f], i + 1 .. j)

\* The greedy packing: a batch that starts at chunk i takes that chunk whatever
\* it costs, and every further one while the running total stays in the budget.
PlanEnd ==
    [f \in Filings |-> [i \in 0 .. Total(f) - 1 |->
        i + Cardinality({j \in i + 1 .. Total(f) :
                            j = i + 1 \/ BatchTokens(f, i, j) <= TokenBudget})]]

\* The sets of positions closed under taking one more batch.
Closed(f) ==
    {B \in SUBSET (0 .. Total(f)) :
        /\ 0 \in B
        /\ \A b \in B : b < Total(f) => PlanEnd[f][b] \in B}

\* The positions plan_batches cuts the whole filing at, its two ends included:
\* the least closed set.
Boundary ==
    [f \in Filings |-> {b \in 0 .. Total(f) : \A B \in Closed(f) : b \in B}]
==============================================================================
