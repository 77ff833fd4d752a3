------------------------------- MODULE EvalGate -------------------------------
(***************************************************************************)
(* The saved runs of the two evals and what CI makes of them: score, its   *)
(* gate and its staleness check (evals/eval_extraction.py, eval_qa.py,     *)
(* scoring.py, qa_scoring.py, history_export.py).  Each suite has its own  *)
(* runs; one is followed per behaviour.  A run is an artifact named by day *)
(* and tag, and is scored anew from what it saved whenever it is read.     *)
(***************************************************************************)
EXTENDS Naturals, FiniteSets

CONSTANTS
    Days,         \* the last day a run is saved on
    Answerable,   \* golden questions labelled answerable
    Unanswerable, \* golden questions the model must decline
    Golden,       \* filings of the extraction golden set
    Floor,        \* gate.json, in percent
    MaxRuns,      \* bound: artifacts of a behaviour
    NoRun

ASSUME GateAssumption ==
    /\ Days \in Nat /\ Floor \in Nat
    /\ IsFiniteSet(Answerable) /\ IsFiniteSet(Unanswerable)

\* A tagged run sorts before the untagged one of its day: "-" < ".".
Name == 1..(2 * Days)
DayOf(n) == (n + 1) \div 2

\* What a run holds of an item: nothing, since it stopped before it or was asked
\* for less, a recorded error, or an outcome.  A QA outcome is <<grounded, met>>,
\* where met is the retrieval hit of an answerable question and the refusal of
\* another; an extraction's is the verdict on its field.
Verdict == {"correct", "wrong", "no_ground_truth"}
Pair == BOOLEAN \X BOOLEAN
Question == Answerable \cup Unanswerable
Items(s) == IF s = "qa" THEN Question ELSE Golden
Marks(s) == [Items(s) -> {<<"absent">>, <<"error">>}
                             \cup (IF s = "qa" THEN Pair ELSE {<<v>> : v \in Verdict})]

VARIABLES
    suite,      \* the suite that is followed
    saved,      \* saved[n]: the artifact n, or NoRun
    exported,   \* eval-history.json has the rows of the runs that are saved
    exitCode,   \* exit code of CI on the repository as it is, "none" before
    newest      \* history: the name the last run was saved under, or NoRun

gateVars == <<suite, saved, exported, exitCode, newest>>

GateInit ==
    /\ suite \in {"extraction", "qa"}
    /\ saved = [n \in Name |-> NoRun]
    /\ exported = TRUE
    /\ exitCode = "none"
    /\ newest = NoRun

Made == {n \in Name : saved[n] # NoRun}
Latest == CHOOSE n \in Made : \A m \in Made : m <= n

\* Mutant: a run is among the runs before it.
EarlierOrSame(n) == {m \in Made : m <= n}

Earlier(n) == {m \in Made : m < n}
Previous(n) == CHOOSE m \in Earlier(n) : \A l \in Earlier(n) : l <= m

Attempted(run, items) == {i \in items : run[i] # <<"absent">>}
Good(run, items) == {i \in items : run[i] = <<TRUE, TRUE>>}
Grounded(run, items) == {i \in items : run[i] \in {<<TRUE, TRUE>>, <<TRUE, FALSE>>}}
WithVerdict(run, v) == {i \in Golden : run[i] = <<v>>}

\* totals and the rates it gives, as <<numerator, denominator>>: an error counts
\* against the answers, but not against the extractions.
GroundedRate(run) ==
    <<Cardinality(Grounded(run, Answerable)), Cardinality(Attempted(run, Answerable))>>
RefusalRate(run) ==
    <<Cardinality(Good(run, Unanswerable)), Cardinality(Attempted(run, Unanswerable))>>
Accuracy(run) ==
    <<Cardinality(WithVerdict(run, "correct")),
      Cardinality(WithVerdict(run, "correct") \cup WithVerdict(run, "wrong"))>>

Rates(run) == IF suite = "qa" THEN {GroundedRate(run), RefusalRate(run)} ELSE {Accuracy(run)}

\* _check_floor: a rate of nothing is below every floor.
BelowFloor(rate) == rate[2] = 0 \/ rate[1] * 100 < Floor * rate[2]

\* regressions, of either suite: by question, and by filing and field.
Regressions(now, was) ==
    IF suite = "qa"
    THEN {q \in Attempted(now, Question) \cap Attempted(was, Question) :
             /\ was[q] # <<"error">>
             /\ now[q] = <<"error">> \/ \E i \in {1, 2} : was[q][i] /\ ~now[q][i]}
    ELSE {f \in Golden : was[f] = <<"correct">> /\ now[f] = <<"wrong">>}

Scorable(run) ==
    IF suite = "qa" THEN Attempted(run, Question) # {} ELSE Accuracy(run)[2] > 0

\* run: the artifact is written, over one of its name, and scored unless
\* --no-score; a score exports the history of all runs.
SaveRun(n, marks, scored) ==
    /\ \A m \in Made : DayOf(m) <= DayOf(n)
    /\ Cardinality(Made \cup {n}) <= MaxRuns
    /\ saved' = [saved EXCEPT ![n] = marks]
    /\ exported' = scored
    /\ exitCode' = "none"
    /\ newest' = n
    /\ UNCHANGED suite

\* score, of any run that was saved: the history is exported whichever it is.
ScoreRun ==
    /\ Made # {}
    /\ exported' = TRUE
    /\ exitCode' = "none"
    /\ UNCHANGED <<suite, saved, newest>>

\* score --gate --no-write --check-history, on the latest run by name.
CheckInCI ==
    LET now == saved[Latest]
        failed == \/ \E rate \in Rates(now) : BelowFloor(rate)
                  \/ /\ Earlier(Latest) # {}
                     /\ Regressions(now, saved[Previous(Latest)]) # {}
    IN  /\ Made # {} /\ exitCode = "none"
        /\ exitCode' = IF ~Scorable(now) THEN "1"
                      ELSE IF failed \/ ~exported THEN "2" ELSE "0"
        /\ UNCHANGED <<suite, saved, exported, newest>>

GateNext ==
    \/ \E n \in Name, marks \in Marks(suite), scored \in BOOLEAN : SaveRun(n, marks, scored)
    \/ ScoreRun
    \/ CheckInCI

GateSpec == GateInit /\ [][GateNext]_gateVars

(***************************************************************************)
(* Properties                                                              *)
(***************************************************************************)

\* The two last runs by name, told apart without the gate's own choice of them.
IsLast(now) == \A m \in Made : m <= now
LastTwo(was, now) == was < now /\ \A m \in Made : m <= was \/ m = now

\* When CI is green: between the last two runs, no question that was answered as
\* it should be, in figures and in retrieval or refusal, and was asked again
\* fails, and no extracted figure went from right to wrong; questions of both
\* kinds were asked in the last, and the shares the floor is set for are above
\* it; and the exported history is that of the saved runs.  It holds however
\* runs were saved, replaced and scored before.  A figure that turned into an
\* error, or lost its ground truth, is not counted (CorrectStays), nor is what
\* the last run does not ask.
GreenMeansKept ==
    exitCode = "0" =>
        /\ exported
        /\ \A was \in Made : \A now \in Made : LastTwo(was, now) =>
              IF suite = "qa"
              THEN Good(saved[was], Question) \cap Attempted(saved[now], Question)
                       \subseteq Good(saved[now], Question)
              ELSE \A f \in Golden : ~(saved[was][f] = <<"correct">> /\ saved[now][f] = <<"wrong">>)
        /\ \A now \in Made : IsLast(now) /\ suite = "qa" =>
              /\ Attempted(saved[now], Answerable) # {} /\ Attempted(saved[now], Unanswerable) # {}
              /\ Cardinality(Grounded(saved[now], Answerable)) * 100
                     >= Floor * Cardinality(Attempted(saved[now], Answerable))
              /\ Cardinality(Good(saved[now], Unanswerable)) * 100
                     >= Floor * Cardinality(Attempted(saved[now], Unanswerable))

\* "Artifacts are named by run date, so sort order is chronological" (eval_qa.py,
\* eval_extraction.py): the run CI judges is the one that was saved last.
NewestIsJudged == exitCode # "none" => Latest = newest

\* "Fields that were correct in the baseline and are not now" (scoring.py) are
\* what the gate of the extractions is to report.
CorrectStays ==
    exitCode = "0" /\ suite = "extraction" /\ Earlier(Latest) # {} =>
        \A f \in Golden :
            saved[Previous(Latest)][f] = <<"correct">> =>
                saved[Latest][f] \in {<<"correct">>, <<"absent">>}
=============================================================================
