-------------------------------- MODULE Frames --------------------------------
(***************************************************************************)
(* Peer percentiles: src/backend/app/services/frames.py.  Requests rank a  *)
(* filer in the populations SEC publishes per concept and calendar period. *)
(* A population is fetched once for all requests of the process (_once: a  *)
(* registry of tasks, shielded from the requests that wait for them), kept *)
(* for a day and merged per metric.  The one period everything is ranked   *)
(* against is probed newest first and kept as well.                        *)
(*                                                                         *)
(* An EDGAR call is one step here, as EdgarCall promises.  Periods are     *)
(* numbered from 1, the newest.                                            *)
(***************************************************************************)
EXTENDS Naturals

CONSTANTS
    Rankers,       \* requests that ask for percentiles
    Lookback,      \* how many periods are probed
    Probe,         \* the concept probed: net income, a metric of its own
    Merged,        \* the concepts merged into the metric revenue
    Revenue,       \* that metric
    MaxExpiries,   \* bound: entries that outlive their day
    Publications   \* what EDGAR may hold per concept and period

Concepts == Merged \cup {Probe}

\* The metrics are disjoint, and a coroutine is told from a frame by its name.
ASSUME FramesAssumption ==
    /\ Lookback \in Nat
    /\ Probe \notin Merged /\ Revenue \notin Concepts
    /\ Rankers \cap Concepts = {} /\ "probe" \notin {Probe, Revenue}
    /\ Publications \subseteq [Concepts \X (1..Lookback) -> {"absent", "thin", "full"}]

Period == 1..Lookback
NoPeriod == 0
Unranked == Lookback + 1       \* the kept "": no period is populated
ConceptKey == Concepts \X Period
MetricKey == {Revenue} \X Period
Key == ConceptKey \cup MetricKey

VARIABLES
    published,   \* EDGAR: "absent" (404), "thin" (few filers) or "full"
    kept,        \* frames_cache, "none" when it has no entry
    keptPeriod,  \* its entry for the period
    registry,    \* _inflight: the keys with a task
    running,     \* running[k]: tasks fetching or merging k that have not ended
    rankerAt,    \* rankerAt[r]: where a request is
    ranked,      \* ranked[r]: the period it is at
    waiter,      \* waiter[w]: a coroutine that needs a frame
    sawFailure,  \* sawFailure[r]: EDGAR failed while r was under way
    expiries     \* entries expired so far

frameVars == <<published, kept, keptPeriod, registry, running,
               rankerAt, ranked, waiter, sawFailure, expiries>>
fixed == <<published, expiries>>
tasks == <<registry, running>>

\* The coroutines: a request probing, a request's two metrics (children of one
\* gather), and a merge's concepts (children of another).
ProbeOf(r) == <<r, "probe">>
MetricsOf(r) == {<<r, Probe>>, <<r, Revenue>>}
Waiter == {ProbeOf(r) : r \in Rankers} \cup (UNION {MetricsOf(r) : r \in Rankers})
              \cup ConceptKey

\* The frame a coroutine asks for.
Wanted(w) ==
    IF w[1] \in Concepts THEN w
    ELSE <<IF w[2] = Revenue THEN Revenue ELSE Probe, ranked[w[1]]>>

AtWork == {"start", "waiting", "woken", "refused"}

FramesInit ==
    /\ published \in Publications
    /\ kept = [k \in Key |-> "none"]
    /\ keptPeriod = NoPeriod
    /\ registry = {}
    /\ running = [k \in Key |-> 0]
    /\ rankerAt = [r \in Rankers |-> "idle"]
    /\ ranked = [r \in Rankers |-> NoPeriod]
    /\ waiter = [w \in Waiter |-> "off"]
    /\ sawFailure = [r \in Rankers |-> FALSE]
    /\ expiries = 0

(***************************************************************************)
(* _once                                                                   *)
(***************************************************************************)

\* The coroutines a new task for k starts: a merge starts one per concept,
\* which joins what an earlier merge's child still waits for.
Children(k) ==
    {c \in ConceptKey : k \in MetricKey /\ c[1] \in Merged /\ c[2] = k[2]
                        /\ waiter[c] # "waiting"}

\* Join k's task, or register one.
Once(w, k) ==
    IF k \in registry
    THEN /\ waiter' = [waiter EXCEPT ![w] = "waiting"]
         /\ UNCHANGED tasks
    ELSE /\ registry' = registry \cup {k}
         /\ running' = [running EXCEPT ![k] = @ + 1]
         /\ waiter' = [v \in Waiter |->
                          IF v = w THEN "waiting"
                          ELSE IF v \in Children(k) THEN "start" ELSE waiter[v]]

\* Mutant: the registry keeps a task that has ended.
TaskEndsUnpopped(k, result, others) ==
    /\ running[k] > 0
    /\ running' = [running EXCEPT ![k] = @ - 1]
    /\ waiter' = [w \in Waiter |->
                     IF waiter[w] = "waiting" /\ Wanted(w) = k THEN result ELSE others[w]]
    /\ UNCHANGED registry

\* k's task ends: the registry forgets it and everyone who waits for it is
\* woken with its result (the done callbacks, which run before anything else
\* can look at the registry but a request that would find the result kept).
TaskEnds(k, result, others) ==
    /\ running[k] > 0
    /\ running' = [running EXCEPT ![k] = @ - 1]
    /\ registry' = registry \ {k}
    /\ waiter' = [w \in Waiter |->
                     IF waiter[w] = "waiting" /\ Wanted(w) = k THEN result ELSE others[w]]

\* _fetch_frame: a 404 is kept like any answer, a failure is not.
FetchAnswered(k) ==
    /\ TaskEnds(k, "woken", waiter)
    /\ kept' = [kept EXCEPT ![k] = published[k]]
    /\ UNCHANGED <<fixed, keptPeriod, rankerAt, ranked, sawFailure>>

\* Mutant: a failure is kept as an absent population.
FetchFailedKept(k) ==
    /\ TaskEnds(k, "refused", waiter)
    /\ kept' = [kept EXCEPT ![k] = "absent"]
    /\ sawFailure' = [r \in Rankers |-> sawFailure[r] \/ rankerAt[r] \in {"probing", "measuring"}]
    /\ UNCHANGED <<fixed, keptPeriod, rankerAt, ranked>>

FetchFailed(k) ==
    /\ TaskEnds(k, "refused", waiter)
    /\ sawFailure' = [r \in Rankers |-> sawFailure[r] \/ rankerAt[r] \in {"probing", "measuring"}]
    /\ UNCHANGED <<fixed, kept, keptPeriod, rankerAt, ranked>>

\* _build_metric_frame: the gather raises with its first failure, and the
\* other children run on for nobody.
MergeEnds(p) ==
    LET parts == Merged \X {p}
        rest == [w \in Waiter |->
                    IF w \in parts /\ waiter[w] # "waiting" THEN "off" ELSE waiter[w]]
    IN  /\ \/ /\ \A c \in parts : waiter[c] = "done"
              /\ TaskEnds(<<Revenue, p>>, "woken", rest)
           \/ /\ \E c \in parts : waiter[c] = "broken"
              /\ TaskEnds(<<Revenue, p>>, "refused", rest)
        /\ UNCHANGED <<fixed, kept, keptPeriod, rankerAt, ranked, sawFailure>>

(***************************************************************************)
(* Children of a gather: _metric_frame and _concept_frame                  *)
(***************************************************************************)

ChildStarts(w) ==
    /\ waiter[w] = "start"
    /\ IF kept[Wanted(w)] # "none"
       THEN waiter' = [waiter EXCEPT ![w] = "done"] /\ UNCHANGED tasks
       ELSE Once(w, Wanted(w))
    /\ UNCHANGED <<fixed, kept, keptPeriod, rankerAt, ranked, sawFailure>>

\* What the merged concepts give together.
Union(p) ==
    IF \E c \in Merged : published[<<c, p>>] # "absent" THEN "full" ELSE "absent"

\* Whether the gather w belongs to is still awaited.
Awaited(w) ==
    IF w[1] \in Concepts THEN running[<<Revenue, w[2]>>] > 0
                         ELSE rankerAt[w[1]] = "measuring"

\* A merged frame is kept by each coroutine that waited for it.
ChildEnds(w) ==
    /\ w \notin {ProbeOf(r) : r \in Rankers}
    /\ \/ /\ waiter[w] = "woken"
          /\ waiter' = [waiter EXCEPT ![w] = IF Awaited(w) THEN "done" ELSE "off"]
          /\ kept' = IF Wanted(w) \in MetricKey
                     THEN [kept EXCEPT ![Wanted(w)] = Union(Wanted(w)[2])] ELSE kept
       \/ /\ waiter[w] = "refused"
          /\ waiter' = [waiter EXCEPT ![w] = IF Awaited(w) THEN "broken" ELSE "off"]
          /\ UNCHANGED kept
    /\ UNCHANGED <<fixed, keptPeriod, tasks, rankerAt, ranked, sawFailure>>

(***************************************************************************)
(* Requests: get_percentiles and _resolve_period                           *)
(***************************************************************************)

GoTo(r, where, p) ==
    /\ rankerAt' = [rankerAt EXCEPT ![r] = where]
    /\ ranked' = [ranked EXCEPT ![r] = p]

\* gather over the two metrics of period p.
Measure(r, p) ==
    /\ GoTo(r, "measuring", p)
    /\ waiter' = [w \in Waiter |->
                     IF w \in MetricsOf(r) THEN "start"
                     ELSE IF w = ProbeOf(r) THEN "off" ELSE waiter[w]]
    /\ UNCHANGED tasks

\* The probe loop from period i on, up to where it has to wait: kept frames
\* that are too thin to rank in are passed over.
ProbeFrom(r, i) ==
    LET Stops(j) == kept[<<Probe, j>>] \in {"none", "full"}
        First(j) == Stops(j) /\ \A l \in i..(j - 1) : ~Stops(l)
    IN  \/ \E j \in i..Lookback :
              /\ First(j)
              /\ kept[<<Probe, j>>] = "full"
              /\ keptPeriod' = j
              /\ Measure(r, j)
        \/ \E j \in i..Lookback :
              /\ First(j)
              /\ kept[<<Probe, j>>] = "none"
              /\ UNCHANGED keptPeriod
              /\ GoTo(r, "probing", j)
              /\ Once(ProbeOf(r), <<Probe, j>>)
        \/ /\ \A j \in i..Lookback : ~Stops(j)
           /\ keptPeriod' = Unranked
           /\ GoTo(r, "answered", Unranked)
           /\ waiter' = [waiter EXCEPT ![ProbeOf(r)] = "off"]
           /\ UNCHANGED tasks

\* A fetch failed and a merge has still to pass that on.
FailureOnItsWay ==
    \E c \in ConceptKey : /\ waiter[c] \in {"refused", "broken"}
                          /\ running[<<Revenue, c[2]>>] > 0

Ask(r) ==
    /\ rankerAt[r] \in {"idle", "answered", "gave_up"}
    /\ \A w \in MetricsOf(r) : waiter[w] \notin AtWork
    /\ sawFailure' = [sawFailure EXCEPT ![r] = FailureOnItsWay]
    /\ \/ keptPeriod = NoPeriod /\ ProbeFrom(r, 1)
       \/ keptPeriod \in Period /\ Measure(r, keptPeriod) /\ UNCHANGED keptPeriod
       \/ /\ keptPeriod = Unranked
          /\ GoTo(r, "answered", Unranked)
          /\ UNCHANGED <<keptPeriod, waiter, tasks>>
    /\ UNCHANGED <<fixed, kept>>

\* The probed frame is here: ranked in if it is a population.
ProbeWoken(r) ==
    /\ waiter[ProbeOf(r)] = "woken"
    /\ IF published[<<Probe, ranked[r]>>] = "full"
       THEN keptPeriod' = ranked[r] /\ Measure(r, ranked[r])
       ELSE ProbeFrom(r, ranked[r] + 1)
    /\ UNCHANGED <<fixed, kept, sawFailure>>

\* except Exception: the answer is an empty list, whatever failed.  Children
\* that have not ended run on.
GiveUp(r) ==
    /\ rankerAt' = [rankerAt EXCEPT ![r] = "gave_up"]
    /\ waiter' = [w \in Waiter |->
                     IF w = ProbeOf(r) \/ (w \in MetricsOf(r) /\ waiter[w] \notin AtWork)
                     THEN "off" ELSE waiter[w]]
    /\ UNCHANGED <<fixed, kept, keptPeriod, tasks, ranked, sawFailure>>

ProbeRefused(r) == waiter[ProbeOf(r)] = "refused" /\ GiveUp(r)

MeasureFailed(r) ==
    /\ rankerAt[r] = "measuring"
    /\ \E w \in MetricsOf(r) : waiter[w] = "broken"
    /\ GiveUp(r)

\* The request and its children are over.
Leave(r, where) ==
    /\ GoTo(r, where, NoPeriod)
    /\ waiter' = [w \in Waiter |->
                     IF w = ProbeOf(r) \/ w \in MetricsOf(r) THEN "off" ELSE waiter[w]]
    /\ sawFailure' = [sawFailure EXCEPT ![r] = FALSE]
    /\ UNCHANGED <<fixed, kept, keptPeriod, tasks>>

Measured(r) ==
    /\ rankerAt[r] = "measuring"
    /\ \A w \in MetricsOf(r) : waiter[w] = "done"
    /\ Leave(r, "answered")

\* Mutant: the tasks a request waits for are cancelled with it.
CancelUnshielded(r) ==
    LET own == MetricsOf(r) \cup {ProbeOf(r)}
        dead == {Wanted(w) : w \in {v \in own : waiter[v] = "waiting"}}
    IN  /\ rankerAt[r] \in {"probing", "measuring"}
        /\ GoTo(r, "idle", NoPeriod)
        /\ registry' = registry \ dead
        /\ running' = [k \in Key |-> IF k \in dead THEN 0 ELSE running[k]]
        /\ waiter' = [w \in Waiter |->
                         IF w \in own THEN "off"
                         ELSE IF waiter[w] = "waiting" /\ Wanted(w) \in dead
                         THEN "refused" ELSE waiter[w]]
        /\ UNCHANGED <<fixed, kept, keptPeriod, sawFailure>>

\* The client goes away: the request and its children are cancelled, the tasks
\* they wait for are shielded.
Cancel(r) ==
    /\ rankerAt[r] \in {"probing", "measuring"}
    /\ Leave(r, "idle")

\* An entry outlives its day.
Expire ==
    /\ expiries < MaxExpiries
    /\ expiries' = expiries + 1
    /\ \/ \E k \in Key : /\ kept[k] # "none"
                         /\ kept' = [kept EXCEPT ![k] = "none"]
                         /\ UNCHANGED keptPeriod
       \/ keptPeriod # NoPeriod /\ keptPeriod' = NoPeriod /\ UNCHANGED kept
    /\ UNCHANGED <<published, tasks, rankerAt, ranked, waiter, sawFailure>>

FramesNext ==
    \/ \E r \in Rankers :
          \/ Ask(r) \/ ProbeWoken(r) \/ ProbeRefused(r)
          \/ Measured(r) \/ MeasureFailed(r) \/ Cancel(r)
    \/ \E k \in ConceptKey : FetchAnswered(k) \/ FetchFailed(k)
    \/ \E p \in Period : MergeEnds(p)
    \/ \E w \in Waiter : ChildStarts(w) \/ ChildEnds(w)
    \/ Expire

FramesSpec == FramesInit /\ [][FramesNext]_frameVars

(***************************************************************************)
(* Properties                                                              *)
(***************************************************************************)

\* One task at a time asks EDGAR for a frame, or merges one.
OneFetch == \A k \in Key : running[k] <= 1

\* Whoever waits for a frame waits for a task that is still at work, and that
\* the registry names.
NobodyForgotten ==
    \A w \in Waiter : waiter[w] = "waiting" =>
        running[Wanted(w)] > 0 /\ Wanted(w) \in registry

\* However many requests want a frame, and however many of them leave, EDGAR is
\* asked for it by one task at a time; and nobody is left waiting for a task
\* that ended with the request that began it.
FetchesShared == OneFetch /\ NobodyForgotten

\* Only answers are kept, and the period kept is the newest populated one: a
\* failed fetch must never make the app rank a day long against an older year.
KeptWasAnswered ==
    /\ \A k \in ConceptKey : kept[k] \in {"none", published[k]}
    /\ keptPeriod \in Period => published[<<Probe, keptPeriod>>] = "full"
    /\ \A p \in Period :
          keptPeriod # NoPeriod /\ p < keptPeriod => published[<<Probe, p>>] # "full"

\* A request is answered with nothing only if EDGAR failed meanwhile, never
\* because another request that shared a fetch went away.
GaveUpForCause == \A r \in Rankers : rankerAt[r] = "gave_up" => sawFailure[r]
=============================================================================
