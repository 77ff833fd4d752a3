------------------------------- MODULE MCReads -------------------------------
(***************************************************************************)
(* The instance of the components that answer reads of the site: peer      *)
(* percentiles, EDGAR reads, financials, earnings, and the readers of the  *)
(* Q&A index.  They share no state in the code, so that one of them moves  *)
(* in each behaviour.                                                      *)
(***************************************************************************)
EXTENDS Frames, EdgarReads, IndexReaders, Earnings, Financials, TLC

VARIABLE focus   \* the component that moves

MCTags == <<"new", "old">>
\* Two fiscal years that end in one calendar year, as of a 52/53-week filer.
MCEndYear == <<1, 2, 2>>

\* The numbers of two filings of one date follow their order, or do not.
MCAccession == <<1, 3, 2>>

\* Net income is reported by enough filers to rank in, or by few; one of the
\* merged concepts was never tagged.
MCPublications ==
    {[k \in ConceptKey |->
        IF k[1] = "ni" THEN IF k[2] = 1 THEN newest ELSE before
        ELSE IF k[1] = "r1" THEN "absent" ELSE "full"] :
        newest, before \in {"thin", "full"}}

\* Nothing tells one requester from another.
MCSymmetry == Permutations(Askers)

\* A component that rests has one initial state.
MCInit ==
    /\ focus \in {"frames", "reads", "drift", "ask", "earnings", "financials"}
    /\ FramesInit /\ ReadsInit /\ EarningsInit /\ FinancialsInit /\ ReadersInit
    /\ focus # "frames" => published[<<"ni", 1>>] = "full" /\ published[<<"ni", 2>>] = "full"
    /\ focus # "reads" => mapLoaded /\ feed = {}
    /\ focus # "financials" => ~hollow
    /\ focus = "drift" => total[Newest] = "none"
    /\ focus \notin {"drift", "ask"} => \A f \in Filing : total[f] = "none"

MCNext ==
    \/ /\ focus = "frames" /\ FramesNext
       /\ UNCHANGED <<focus, readVars, readerVars, earningsVars, financialVars>>
    \/ /\ focus = "reads" /\ ReadsNext
       /\ UNCHANGED <<focus, frameVars, readerVars, earningsVars, financialVars>>
    \/ /\ focus = "drift"
       /\ \/ \E f \in 1..(Newest - 1) : IndexStep(f)
          \/ \E d \in Drifters : DriftStep(d)
          \/ ListExpires \/ ServerRestarts
       /\ UNCHANGED <<focus, frameVars, readVars, earningsVars, financialVars>>
    \/ /\ focus = "ask"
       /\ \/ \E f \in Filing : IndexStep(f)
          \/ \E q \in Questioners : QuestionStep(q)
       /\ UNCHANGED <<focus, frameVars, readVars, earningsVars, financialVars>>
    \/ /\ focus = "earnings" /\ EarningsNext
       /\ UNCHANGED <<focus, frameVars, readVars, readerVars, financialVars>>
    \/ /\ focus = "financials" /\ FinancialsNext
       /\ UNCHANGED <<focus, frameVars, readVars, readerVars, earningsVars>>

MCSpec ==
    MCInit /\ [][MCNext]_<<focus, frameVars, readVars, readerVars, earningsVars, financialVars>>
=============================================================================
