------------------------------ MODULE MCClients ------------------------------
(***************************************************************************)
(* The instance of the components that wait for another party: the EDGAR   *)
(* client, the Gemini client, a run of the extraction eval behind its      *)
(* pacer, the site's polls of the index status, and its data hooks.  They  *)
(* share no state, so that one of them moves in each behaviour.            *)
(***************************************************************************)
EXTENDS EdgarClient, GeminiClient, ExtractionRun, IndexPolling, DataHooks

VARIABLE focus   \* the component that moves

\* A filing that fits the window, one larger than it, and a small one.
MCTokens == <<2, 4, 1>>

\* A component that rests has one initial state.
MCInit ==
    /\ focus \in {"edgar", "gemini", "extraction", "polling",
                 "filings", "section", "watch", "search"}
    /\ ClientInit /\ GeminiInit /\ RunInit /\ PollingInit /\ HooksInit
    /\ focus # "gemini" => qaModel = Unset /\ spare = Unset
    /\ focus # "polling" => server = "complete"

MCNext ==
    \/ /\ focus = "edgar" /\ ClientNext
       /\ UNCHANGED <<focus, geminiVars, runVars, pollingVars, hookVars>>
    \/ /\ focus = "gemini" /\ GeminiNext
       /\ UNCHANGED <<focus, clientVars, runVars, pollingVars, hookVars>>
    \/ /\ focus = "extraction" /\ RunNext
       /\ UNCHANGED <<focus, clientVars, geminiVars, pollingVars, hookVars>>
    \/ /\ focus = "polling" /\ PollingNext
       /\ UNCHANGED <<focus, clientVars, geminiVars, runVars, hookVars>>
    \/ /\ \/ focus = "filings" /\ FilingsStep /\ UNCHANGED <<section, watchVars, search>>
          \/ focus = "section" /\ SectionStep /\ UNCHANGED <<filings, watchVars, search>>
          \/ focus = "watch" /\ WatchStep /\ UNCHANGED <<filings, section, search, requests>>
          \/ focus = "search" /\ SearchStep /\ UNCHANGED <<filings, section, watchVars>>
       /\ UNCHANGED <<focus, clientVars, geminiVars, runVars, pollingVars>>

\* At rest, no action with a fairness condition is enabled.
MCSpec ==
    /\ MCInit /\ [][MCNext]_<<focus, clientVars, geminiVars, runVars, pollingVars, hookVars>>
    /\ ClientFairness /\ GeminiFairness /\ RunFairness /\ PollingFairness
=============================================================================
