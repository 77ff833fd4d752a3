---------------------------- MODULE IndexCoverage ----------------------------
(***************************************************************************)
(* What the Q&A index of a filing promises to everything that reads it     *)
(* (match_chunks, index-status, drift, the language peers), whoever builds *)
(* it and however often building it is interrupted:                        *)
(*   - the stored chunks are always the filing's first chunks, up to a cut *)
(*     of the batch plan, and never shrink, so their number alone is the   *)
(*     point the next run resumes from;                                    *)
(*   - the centroid other filings are compared against averages the whole  *)
(*     filing, never the part of it that happens to be stored.             *)
(***************************************************************************)
CONSTANTS
    Filings,
    Legacy,  \* those stored before chunks_expected existed
    Cuts,    \* Cuts[f]: the sets of chunks that end at a cut of f's plan
    All      \* All[f]: all of f's chunks, the largest of them

VARIABLES
    indexed,   \* indexed[f]: the chunk indexes stored for f
    averaged   \* averaged[f]: the chunk indexes f's centroid averages, {} = none

coverageVars == <<indexed, averaged>>

Init ==
    /\ indexed \in [Filings -> UNION {Cuts[f] : f \in Filings}]
    /\ \A f \in Filings : indexed[f] \in IF f \in Legacy THEN Cuts[f] ELSE {{}}
    /\ averaged = [f \in Filings |-> {}]

Extend(f) ==
    /\ \E c \in Cuts[f] :
          /\ indexed[f] \subseteq c
          /\ indexed' = [indexed EXCEPT ![f] = c]
    /\ UNCHANGED averaged

\* Without a recorded total a part cannot be told from the whole.
Average(f) ==
    /\ indexed[f] # {}
    /\ f \notin Legacy => indexed[f] = All[f]
    /\ averaged' = [averaged EXCEPT ![f] = indexed[f]]
    /\ UNCHANGED indexed

Next == \E f \in Filings : Extend(f) \/ Average(f)

Spec == Init /\ [][Next]_coverageVars
==============================================================================
