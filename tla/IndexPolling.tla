----------------------------- MODULE IndexPolling -----------------------------
(***************************************************************************)
(* The store behind the filing page's cards (frontend lib/useIndexStatus): *)
(* one poll per filing, shared by the cards that show its coverage, which  *)
(* mount and unmount while answers are under way.  A chain is a tick, the  *)
(* answer it waits for and the timer it sets for the next; it keeps the    *)
(* generation it was started with, and only the entry's own counts.        *)
(***************************************************************************)
EXTENDS Naturals

CONSTANTS
    Cards,          \* AskFiling and SimilarLanguage
    Chains,         \* bound: chains alive at once, numbered
    MaxGeneration,  \* bound: re-indexes published to one entry
    NoStatus

States == {"partial", "indexing", "complete"}

VARIABLES
    server,      \* what GET /index-status answers now
    mounted,     \* the entry's listeners; it exists while there are any
    generation,  \* the entry's generation
    chainAt,     \* chainAt[i]: "over", "sent", an answer on its way, or "timer"
    chainOf,     \* chainOf[i]: the generation of chain i
    handle,      \* the chain whose timer the entry could clear, 0 for none
    shown,       \* shown[m]: the status card m shows
    repair,      \* POST /reindex of the page: "none", "sent" or its answer
    lost         \* a poll of the entry has failed since it was started

entry == <<mounted, generation, handle>>
pollingVars == <<server, entry, chainAt, chainOf, shown, repair, lost>>

PollingInit ==
    /\ server \in States
    /\ mounted = {} /\ generation = 0 /\ handle = 0
    /\ chainAt = [i \in Chains |-> "over"]
    /\ chainOf = [i \in Chains |-> 0]
    /\ shown = [m \in Cards |-> NoStatus]
    /\ repair = "none" /\ lost = FALSE

Spare == {i \in Chains : chainAt[i] = "over"}

\* clearTimeout(poll.timer)
Cleared == IF handle # 0 /\ chainAt[handle] = "timer"
           THEN [chainAt EXCEPT ![handle] = "over"] ELSE chainAt

TellAll(status) == shown' = [m \in Cards |-> IF m \in mounted THEN status ELSE shown[m]]

\* subscribeIndexStatus: the first listener makes the entry and ticks.
Mount(m) ==
    /\ m \notin mounted
    /\ mounted' = mounted \cup {m}
    /\ \/ /\ mounted # {}
          /\ UNCHANGED <<generation, handle, chainAt, chainOf, lost>>
       \/ /\ mounted = {} /\ generation' = 0 /\ handle' = 0 /\ lost' = FALSE
          /\ \E i \in Spare :
                /\ \A j \in Spare : i <= j
                /\ chainAt' = [chainAt EXCEPT ![i] = "sent"]
                /\ chainOf' = [chainOf EXCEPT ![i] = 0]
    /\ UNCHANGED <<server, shown, repair>>

\* The last listener takes the entry and its timer with it.
Unmount(m) ==
    /\ m \in mounted
    /\ mounted' = mounted \ {m}
    /\ chainAt' = IF mounted = {m} THEN Cleared ELSE chainAt
    /\ shown' = [shown EXCEPT ![m] = NoStatus]
    /\ UNCHANGED <<server, generation, chainOf, handle, repair, lost>>

OfEntry(i) == mounted # {} /\ chainOf[i] = generation

ServerAnswers(i) ==
    /\ chainAt[i] = "sent"
    /\ chainAt' = [chainAt EXCEPT ![i] = server]
    /\ UNCHANGED <<server, entry, chainOf, shown, repair, lost>>

\* The catch of tick: the chain ends and the cards stay as they are.
PollFails(i) ==
    /\ chainAt[i] = "sent"
    /\ chainAt' = [chainAt EXCEPT ![i] = "over"]
    /\ lost' = (lost \/ OfEntry(i))
    /\ UNCHANGED <<server, entry, chainOf, shown, repair>>

\* The then of tick: the cards are told, and the chain goes on while indexing
\* does.  An answer to an entry that is gone or was replaced is dropped.
Deliver(i) ==
    /\ chainAt[i] \in States
    /\ IF OfEntry(i)
       THEN /\ TellAll(chainAt[i])
            /\ IF chainAt[i] = "indexing"
               THEN chainAt' = [chainAt EXCEPT ![i] = "timer"] /\ handle' = i
               ELSE chainAt' = [chainAt EXCEPT ![i] = "over"] /\ UNCHANGED handle
       ELSE chainAt' = [chainAt EXCEPT ![i] = "over"] /\ UNCHANGED <<shown, handle>>
    /\ UNCHANGED <<server, mounted, generation, chainOf, repair, lost>>

TimerFires(i) ==
    /\ chainAt[i] = "timer"
    /\ chainAt' = [chainAt EXCEPT ![i] = "sent"]
    /\ UNCHANGED <<server, entry, chainOf, shown, repair, lost>>

\* The Ask card offers a re-index of a partial filing, one at a time.
Repair(m) ==
    /\ shown[m] = "partial" /\ repair = "none"
    /\ repair' = "sent"
    /\ UNCHANGED <<server, entry, chainAt, chainOf, shown, lost>>

\* POST /reindex starts what is not running nor complete, or fails.
ServerRepairs ==
    /\ repair = "sent"
    /\ \/ /\ server' = IF server = "partial" THEN "indexing" ELSE server
          /\ repair' = server'
       \/ repair' = "none" /\ UNCHANGED server
    /\ UNCHANGED <<entry, chainAt, chainOf, shown, lost>>

\* Mutant: the chain is started with the generation it replaces.
PublishOldGeneration ==
    /\ repair \in States /\ repair' = "none"
    /\ IF mounted = {}
       THEN UNCHANGED <<generation, handle, chainAt, chainOf, shown, lost>>
       ELSE /\ generation < MaxGeneration /\ generation' = generation + 1
            /\ TellAll(repair)
            /\ lost' = FALSE
            /\ IF repair = "indexing"
               THEN \E i \in Spare :
                       /\ \A j \in Spare : i <= j
                       /\ chainAt' = [Cleared EXCEPT ![i] = "timer"]
                       /\ chainOf' = [chainOf EXCEPT ![i] = generation]
                       /\ handle' = i
               ELSE chainAt' = Cleared /\ UNCHANGED <<chainOf, handle>>
    /\ UNCHANGED <<server, mounted>>

\* publishIndexStatus: the cards are told what the POST answered, and a new
\* chain takes the place of the entry's.
Publish ==
    /\ repair \in States /\ repair' = "none"
    /\ IF mounted = {}
       THEN UNCHANGED <<generation, handle, chainAt, chainOf, shown, lost>>
       ELSE /\ generation < MaxGeneration /\ generation' = generation + 1
            /\ TellAll(repair)
            /\ lost' = FALSE
            /\ IF repair = "indexing"
               THEN \E i \in Spare :
                       /\ \A j \in Spare : i <= j
                       /\ chainAt' = [Cleared EXCEPT ![i] = "timer"]
                       /\ chainOf' = [chainOf EXCEPT ![i] = generation']
                       /\ handle' = i
               ELSE chainAt' = Cleared /\ UNCHANGED <<chainOf, handle>>
    /\ UNCHANGED <<server, mounted>>

\* Anyone's run begins and ends (see Indexing).
ServerMoves ==
    /\ \/ server = "partial" /\ server' = "indexing"
       \/ server = "indexing" /\ server' \in {"partial", "complete"}
    /\ UNCHANGED <<entry, chainAt, chainOf, shown, repair, lost>>

PollingNext ==
    \/ \E m \in Cards : Mount(m) \/ Unmount(m) \/ Repair(m)
    \/ \E i \in Chains : ServerAnswers(i) \/ PollFails(i) \/ Deliver(i) \/ TimerFires(i)
    \/ ServerRepairs \/ Publish \/ ServerMoves

\* Timers fire, requests are answered or fail, and callbacks run.
PollingFairness ==
    \A i \in Chains :
        /\ WF_pollingVars(ServerAnswers(i) \/ PollFails(i))
        /\ WF_pollingVars(Deliver(i))
        /\ WF_pollingVars(TimerFires(i))

PollingSpec == PollingInit /\ [][PollingNext]_pollingVars /\ PollingFairness

(***************************************************************************)
(* Properties                                                              *)
(***************************************************************************)

\* Once the server is done, no card goes on showing "Still indexing", unless a
\* poll of its entry failed: chains replaced by a re-index, answers dropped as
\* outdated and remounts in between never leave an entry without a chain.
FinishIsShown ==
    <>[](server # "indexing") =>
        \A m \in Cards : shown[m] = "indexing" ~> (shown[m] # "indexing" \/ lost)

\* "One poll per filing" (useIndexStatus): an answer that is under way when the
\* last card leaves cannot set a second timer once a card is back.
OneChain ==
    \A i, j \in Chains :
        chainAt[i] = "timer" /\ chainAt[j] = "timer" /\ OfEntry(i) /\ OfEntry(j) => i = j
=============================================================================
