------------------------------- MODULE MCTools -------------------------------
(***************************************************************************)
(* The instance of the tools that run beside the site: the corpora and     *)
(* runs of the Q&A eval, the gate over the saved runs of both evals, and   *)
(* the backfills of a column.  They share no state, so that one of them    *)
(* moves in each behaviour.                                                *)
(***************************************************************************)
EXTENDS QACorpus, EvalGate, Backfills

CONSTANTS f1, f2

VARIABLE focus   \* the tool that moves

\* A question about one filing and one across both; the second chunking is
\* coarser.
MCAsked == <<{f1}, {f1, f2}>>
MCTotal == <<3, 2>>

\* Companies alternate, so that a page splits their rows.
MCCik == <<"c1", "c2", "c1", "c2", "c1">>

\* A tool that rests has one initial state.
MCInit ==
    /\ focus \in {"corpus", "gate", "backfill"}
    /\ CorpusInit /\ GateInit /\ BackfillInit
    /\ focus # "gate" => suite = "qa"
    /\ focus # "backfill" => column = "sic" /\ filled = {}

MCNext ==
    \/ focus = "corpus" /\ CorpusNext /\ UNCHANGED <<focus, gateVars, backfillVars>>
    \/ focus = "gate" /\ GateNext /\ UNCHANGED <<focus, corpusVars, backfillVars>>
    \/ focus = "backfill" /\ BackfillNext /\ UNCHANGED <<focus, corpusVars, gateVars>>

MCSpec == MCInit /\ [][MCNext]_<<focus, corpusVars, gateVars, backfillVars>>
=============================================================================
