---------------------------- MODULE ExtractionRun ----------------------------
(***************************************************************************)
(* A run of the extraction eval (evals/eval_extraction.py, run): it walks  *)
(* the golden set, pays Gemini for each filing behind a TokenPacer, waits  *)
(* out a busy model, stops at a spent pool or an unavailable one, and      *)
(* writes one artifact at its end.  With --resume the extractions that the *)
(* day's artifact already holds are reused.                                *)
(***************************************************************************)
EXTENDS TokenPacer

CONSTANTS
    Tokens,      \* Tokens[i]: the token estimate of the i-th golden entry
    Tries,       \* _OVERLOAD_ATTEMPTS
    GiveUp       \* _OVERLOAD_GIVE_UP

ASSUME RunAssumption == Tokens \in Seq(Nat)

Entry == DOMAIN Tokens
Outcome == {"none", "ok", "error"}

VARIABLES
    artifact,    \* the day's file: artifact[i], what it holds of entry i
    records,     \* the run's own records
    reusable,    \* the entries whose saved extraction it may reuse
    position,    \* the entry it is at
    tried,       \* attempts at that entry
    overloads,   \* consecutive_overloads
    unreached,   \* what it reports as not attempted
    runAt        \* "idle", "next", "pacing", "sent", "sleeping" or "writing"

runVars == <<spent, artifact, records, reusable, position, tried, overloads,
             unreached, runAt>>

NothingYet == [i \in Entry |-> "none"]

RunInit ==
    /\ PacerInit
    /\ artifact = NothingYet /\ records = NothingYet
    /\ reusable = {} /\ unreached = {}
    /\ position = 1 /\ tried = 0 /\ overloads = 0
    /\ runAt = "idle"

\* A process of its own, with a pacer of its own.
StartRun ==
    /\ runAt = "idle"
    /\ \E resume \in BOOLEAN :
          reusable' = IF resume THEN {i \in Entry : artifact[i] = "ok"} ELSE {}
    /\ runAt' = "next"
    /\ UNCHANGED <<spent, artifact, records, position, tried, overloads, unreached>>

\* The entry is recorded and the walk goes on behind it.
Recorded(outcome) ==
    /\ records' = [records EXCEPT ![position] = outcome]
    /\ position' = position + 1
    /\ tried' = 0
    /\ runAt' = "next"

Stop(missed) ==
    /\ unreached' = missed
    /\ runAt' = "writing"

ReuseEntry ==
    /\ runAt = "next" /\ position \in reusable
    /\ Recorded("ok")
    /\ UNCHANGED <<spent, artifact, reusable, overloads, unreached>>

\* fetch_filing_text: the text, or an error that is recorded.
FetchEntry ==
    /\ runAt = "next" /\ position \in Entry \ reusable
    /\ \/ runAt' = "pacing" /\ tried' = 1 /\ UNCHANGED <<records, position>>
       \/ Recorded("error")
    /\ UNCHANGED <<spent, artifact, reusable, overloads, unreached>>

Pace ==
    /\ runAt = "pacing"
    /\ Admits(Tokens[position])
    /\ runAt' = "sent"
    /\ UNCHANGED <<spent, artifact, records, reusable, position, tried, overloads, unreached>>

Extracted ==
    /\ runAt = "sent"
    /\ Count(Tokens[position])
    /\ overloads' = 0
    /\ Recorded("ok")
    /\ UNCHANGED <<artifact, reusable, unreached>>

\* Malformed twice, or the connection failed for the last time.
Failed ==
    /\ runAt = "sent"
    /\ Recorded("error")
    /\ UNCHANGED <<spent, artifact, reusable, overloads, unreached>>

Retry ==
    /\ tried < Tries
    /\ runAt' = "sleeping"
    /\ UNCHANGED <<records, position, tried, overloads, unreached>>

Dropped ==
    /\ runAt = "sent"
    /\ Retry
    /\ UNCHANGED <<spent, artifact, reusable>>

\* Mutant: the filing written off last counts as not attempted.
MissedFromHere == {i \in Entry : i >= position}

MissedAfter == {i \in Entry : i > position}

\* A 503 costs its tokens.  The last one writes the entry off, and the run with
\* it when that has happened too often.
Overloaded ==
    /\ runAt = "sent"
    /\ Count(Tokens[position])
    /\ \/ Retry
       \/ /\ tried = Tries
          /\ overloads' = overloads + 1
          /\ IF overloads + 1 < GiveUp
             THEN Recorded("error") /\ UNCHANGED unreached
             ELSE /\ records' = [records EXCEPT ![position] = "error"]
                  /\ Stop(MissedAfter)
                  /\ UNCHANGED <<position, tried>>
    /\ UNCHANGED <<artifact, reusable>>

WakeUp ==
    /\ runAt = "sleeping"
    /\ runAt' = "pacing" /\ tried' = tried + 1
    /\ UNCHANGED <<spent, artifact, records, reusable, position, overloads, unreached>>

\* A 429: the day's pool is gone.
QuotaSpent ==
    /\ runAt = "sent"
    /\ Stop({i \in Entry : i >= position})
    /\ UNCHANGED <<spent, artifact, records, reusable, position, tried, overloads>>

WalkEnds ==
    /\ runAt = "next" /\ position \notin Entry
    /\ Stop({})
    /\ UNCHANGED <<spent, artifact, records, reusable, position, tried, overloads>>

Over ==
    /\ runAt' = "idle"
    /\ spent' = << >>
    /\ records' = NothingYet
    /\ reusable' = {} /\ unreached' = {}
    /\ position' = 1 /\ tried' = 0 /\ overloads' = 0

\* The artifact is the run's records, and replaces the day's file.
WriteArtifact ==
    /\ runAt = "writing"
    /\ artifact' = records
    /\ Over

\* Ctrl-C: nothing has been written.
Interrupted ==
    /\ runAt \notin {"idle", "writing"}
    /\ Over
    /\ UNCHANGED artifact

TimePasses ==
    /\ runAt # "idle"
    /\ Age
    /\ UNCHANGED <<artifact, records, reusable, position, tried, overloads, unreached, runAt>>

WalkStep ==
    \/ ReuseEntry \/ FetchEntry \/ Pace \/ WakeUp \/ WalkEnds \/ WriteArtifact
    \/ Extracted \/ Failed \/ Dropped \/ Overloaded \/ QuotaSpent

RunNext == StartRun \/ WalkStep \/ Interrupted \/ TimePasses

\* Each call is answered or fails, each sleep ends, and time passes.
RunFairness == WF_runVars(WalkStep) /\ WF_runVars(TimePasses)

RunSpec == RunInit /\ [][RunNext]_runVars /\ RunFairness

(***************************************************************************)
(* Properties                                                              *)
(***************************************************************************)

\* However a run ends, each golden entry is either in the artifact it writes or
\* named as not attempted, and none is both: nothing is left out silently.
EntriesAccounted ==
    runAt = "writing" => \A i \in Entry : records[i] = "none" <=> i \in unreached

\* A run ends, although every wait in it is for the pacer's window, also when one
\* filing alone is larger than the window.
RunEnds == runAt = "next" ~> runAt = "idle"

\* "--resume keeps its extractions", "Resume without re-spending what succeeded"
\* (eval_extraction.py): a resumed run writes back what it could reuse.
ResumeKeeps == runAt = "writing" => \A i \in reusable : records[i] = "ok"
=============================================================================
