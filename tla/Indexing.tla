------------------------------ MODULE Indexing ------------------------------
(***************************************************************************)
(* Building the Q&A index of a filing: POST /analysis and POST /reindex    *)
(* schedule a background run (services/indexing.py), the run embeds and    *)
(* stores the filing batch by batch (services/embeddings.py) behind a      *)
(* process-wide lock, GET /index-status reports how far it got, and the    *)
(* operator's scripts backfill_chunks.py and backfill_vectors.py do the    *)
(* same from another process that shares only the database.                *)
(*                                                                         *)
(* Postgres (rows, expected, chunks, centroid) survives a restart of the   *)
(* server; its memory (status, lock, the coroutines) does not.             *)
(***************************************************************************)
EXTENDS ChunkPlan

CONSTANTS
    Legacy,      \* filings stored before the chunks_expected column existed
    Tasks,       \* server: a request and the background run it schedules
    Pollers,     \* server: GET /index-status requests
    Backfills,   \* processes running scripts/backfill_chunks.py
    VectorJobs,  \* processes running scripts/backfill_vectors.py
    Faults,      \* which of the rarer faults below can occur
    NoFiling     \* "no filing"

Server == Tasks \cup Pollers
Scripts == Backfills \cup VectorJobs
Procs == Server \cup Scripts

\* "short_reply"   Gemini answers a batch with fewer embeddings than texts
\* "count_read"    the count that ends a run cannot be read
\* "no_background" the client of POST /analysis/stream leaves before the row is
\*                 stored: the background task is added to a finished response
AllFaults == {"short_reply", "count_read", "no_background"}

ASSUME IndexingAssumption ==
    /\ Legacy \subseteq Filings
    /\ Faults \subseteq AllFaults
    /\ NoFiling \notin Filings
    /\ Tasks \cap Pollers = {} /\ Server \cap Scripts = {}
    /\ Backfills \cap VectorJobs = {}

VARIABLES
    rows,      \* filings with an analyses row
    expected,  \* analyses.chunks_expected, 0 for NULL
    chunks,    \* filing_chunks: the chunk_index values stored for a filing
    centroid,  \* filing_vectors: the chunk_index values the centroid averages
    status,    \* indexing._status: the in-process record of a filing
    lock,      \* indexing._lock: the tasks holding it
    pc,        \* where each process is
    file,      \* the filing it works on
    count,     \* its last chunk count; in the batch loop, first_index + stored
    seen       \* chunks_expected in the row it read

durable == <<rows, expected, chunks, centroid>>
memory == <<status, lock>>
vars == <<rows, expected, chunks, centroid, status, lock, pc, file, count, seen>>

NoRecord == [state |-> "none", total |-> 0]
States == {"indexing", "complete", "partial", "unavailable"}
Record == [state : States, total : Nat]

-----------------------------------------------------------------------------
(* The steps of one process. *)

\* A write's fate: applied and acknowledged, refused, or applied with the
\* acknowledgement lost on the way back.
WriteOutcomes == {"ok", "refused", "lost"}
Applied(o) == o # "refused"

Goto(p, from, to) ==
    /\ pc[p] = from
    /\ pc' = [pc EXCEPT ![p] = to]

\* p starts to work on f.
Begin(p, f, to) ==
    /\ pc[p] = "idle"
    /\ pc' = [pc EXCEPT ![p] = to]
    /\ file' = [file EXCEPT ![p] = f]

\* p is done with its filing, and forgets it.
Finish(p) ==
    /\ pc' = [pc EXCEPT ![p] = "idle"]
    /\ file' = [file EXCEPT ![p] = NoFiling]
    /\ count' = [count EXCEPT ![p] = 0]
    /\ seen' = [seen EXCEPT ![p] = 0]

Stored(f) == Cardinality(chunks[f])
-----------------------------------------------------------------------------
(* POST /analysis, as far as the index is concerned. *)

\* Mutant: the filing is marked as being indexed before its analysis is stored.
BeginAnalysisMarksFirst(t, f) ==
    /\ f \notin rows
    /\ Begin(t, f, "analysing")
    /\ status' = [status EXCEPT ![f] = [state |-> "indexing", total |-> Total(f)]]
    /\ UNCHANGED <<durable, lock, count, seen>>

\* The cache check finds no row: the request goes on to fetch and analyse.
BeginAnalysis(t, f) ==
    /\ f \notin rows
    /\ Begin(t, f, "analysing")
    /\ UNCHANGED <<durable, memory, count, seen>>

AnalysisFails(t) ==
    /\ pc[t] = "analysing"
    /\ Finish(t)
    /\ UNCHANGED <<durable, memory>>

\* create_analysis: the row is inserted with its chunk total, or found already
\* there (accession_number is UNIQUE) and left as it is.
StoreRow(t) ==
    LET f == file[t] IN
    /\ pc[t] = "analysing"
    /\ \E o \in WriteOutcomes :
          /\ IF Applied(o) /\ f \notin rows
             THEN /\ rows' = rows \cup {f}
                  /\ expected' = [expected EXCEPT ![f] = Total(f)]
             ELSE UNCHANGED <<rows, expected>>
          /\ IF o = "ok"
             THEN /\ pc' = [pc EXCEPT ![t] = "stored"]
                  /\ UNCHANGED <<file, count, seen>>
             ELSE Finish(t)
    /\ UNCHANGED <<chunks, centroid, memory>>

MarkScheduled(f) ==
    status' = [status EXCEPT ![f] = [state |-> "indexing", total |-> Total(f)]]

\* mark_scheduled, then background_tasks.add_task.
Schedule(t, from) ==
    /\ Goto(t, from, "scheduled")
    /\ MarkScheduled(file[t])
    /\ count' = [count EXCEPT ![t] = 0]
    /\ seen' = [seen EXCEPT ![t] = 0]
    /\ UNCHANGED <<durable, lock, file>>

ScheduleAnalysed(t) == Schedule(t, "stored")

\* The same, when the response has already ended: nothing will run the task.
ScheduleUnattended(t) ==
    /\ "no_background" \in Faults
    /\ pc[t] = "stored"
    /\ MarkScheduled(file[t])
    /\ Finish(t)
    /\ UNCHANGED <<durable, lock>>
-----------------------------------------------------------------------------
(* POST /analysis/{id}/reindex. *)

ReindexRead(t, f) ==
    /\ f \in rows
    /\ Begin(t, f, "reindex")
    /\ seen' = [seen EXCEPT ![t] = expected[f]]
    /\ UNCHANGED <<durable, memory, count>>

\* chunk_count; an index known to be whole is answered without going on.
ReindexCount(t) ==
    LET f == file[t] IN
    /\ pc[t] = "reindex"
    /\ IF seen[t] # 0 /\ Stored(f) >= seen[t]
       THEN Finish(t)
       ELSE /\ pc' = [pc EXCEPT ![t] = "refetched"]
            /\ count' = [count EXCEPT ![t] = Stored(f)]
            /\ UNCHANGED <<file, seen>>
    /\ UNCHANGED <<durable, memory>>

\* With the text fetched again, the total is recorded if it was not.
ReindexTotal(t) ==
    LET f == file[t] IN
    /\ pc[t] = "refetched"
    /\ \E o \in WriteOutcomes :
          /\ expected' = IF seen[t] # Total(f) /\ Applied(o)
                         THEN [expected EXCEPT ![f] = Total(f)] ELSE expected
          /\ IF o = "ok" /\ count[t] < Total(f)
             THEN /\ pc' = [pc EXCEPT ![t] = "preflight"]
                  /\ UNCHANGED <<file, count, seen>>
             ELSE Finish(t)
    /\ UNCHANGED <<rows, chunks, centroid, memory>>

\* EDGAR does not answer, or the day's embedding budget is too small: 404, 422,
\* 502 or 503.
ReindexRefused(t) ==
    /\ pc[t] \in {"reindex", "refetched", "preflight"}
    /\ Finish(t)
    /\ UNCHANGED <<durable, memory>>

ScheduleReindex(t) == Schedule(t, "preflight")
-----------------------------------------------------------------------------
(* indexing.run_index, and the body of backfill_chunks.py's loop: both call  *)
(* embeddings.index_filing(resume=True).                                     *)

\* Mutant: runs are not serialized.
AcquireLockAtOnce(t) ==
    /\ Goto(t, "scheduled", "resume")
    /\ lock' = lock \cup {t}
    /\ UNCHANGED <<durable, status, file, count, seen>>

AcquireLock(t) ==
    /\ lock = {}
    /\ Goto(t, "scheduled", "resume")
    /\ lock' = {t}
    /\ UNCHANGED <<durable, status, file, count, seen>>

\* Where index_filing's batch loop goes when it returns or raises: run_index
\* swallows the exception and counts, the script reports the filing and goes on.
EndBatches(p) ==
    IF p \in Tasks
    THEN /\ pc' = [pc EXCEPT ![p] = "counting"]
         /\ count' = [count EXCEPT ![p] = 0]
         /\ UNCHANGED <<file, seen>>
    ELSE Finish(p)

\* Mutants: the count taken for an index after the last one, and the last chunk
\* embedded again for its overlap.
ResumePointSkips(f) == IF Stored(f) + 1 <= Total(f) THEN Stored(f) + 1 ELSE Total(f)
ResumePointOverlaps(f) == Stored(f) - 1

ResumePoint(f) == IF Stored(f) <= Total(f) THEN Stored(f) ELSE Total(f)

\* The chunks already stored are counted, and only the rest is planned.
Resume(p) ==
    LET f == file[p] IN
    /\ pc[p] = "resume"
    /\ IF ResumePoint(f) < Total(f)
       THEN /\ pc' = [pc EXCEPT ![p] = "embedding"]
            /\ count' = [count EXCEPT ![p] = ResumePoint(f)]
            /\ UNCHANGED <<file, seen>>
       ELSE EndBatches(p)
    /\ UNCHANGED <<durable, memory>>

\* The count cannot be read, a budget or Gemini refuses the batch, or the
\* insert fails outright.
BatchFails(p) ==
    /\ pc[p] \in {"resume", "embedding"}
    /\ EndBatches(p)
    /\ UNCHANGED <<durable, memory>>

\* The chunks of a batch a reply of n embeddings is zipped with.
Zipped(first, n) == first .. first + n - 1

ReplySizes(f, first) ==
    IF "short_reply" \in Faults
    THEN 0 .. PlanEnd[f][first] - first ELSE {PlanEnd[f][first] - first}

\* One INSERT: all of the rows, or none when one of them is already stored.
InsertRows(f, new) ==
    chunks' = IF chunks[f] \cap new = {}
              THEN [chunks EXCEPT ![f] = @ \cup new] ELSE chunks

\* One batch embedded and inserted; a unique violation counts as success.
StoreBatch(p) ==
    LET f == file[p] IN
    /\ pc[p] = "embedding"
    /\ \E n \in ReplySizes(f, count[p]), acked \in BOOLEAN :
          /\ InsertRows(f, Zipped(count[p], n))
          /\ IF acked /\ PlanEnd[f][count[p]] < Total(f)
             THEN /\ count' = [count EXCEPT ![p] = PlanEnd[f][count[p]]]
                  /\ UNCHANGED <<pc, file, seen>>
             ELSE EndBatches(p)
    /\ UNCHANGED <<rows, expected, centroid, memory>>

\* Mutant: any stored chunk makes the index complete.
OutcomeStateAnswerable(indexed, total) ==
    IF indexed > 0 THEN "complete" ELSE "unavailable"

\* The state a run ends in, from the count and the scheduled total.
OutcomeState(indexed, total) ==
    IF indexed >= total THEN "complete"
    ELSE IF indexed > 0 THEN "partial" ELSE "unavailable"

\* Mutant: the record is not replaced when the run ends.
FinishRunKeepsRecord(t) ==
    /\ pc[t] = "counting"
    /\ lock' = {}
    /\ Finish(t)
    /\ UNCHANGED <<durable, status>>

\* The count, the release of the lock and the new record: no await between
\* them.  Only a whole index goes on to have its centroid written.
FinishRun(t) ==
    LET f     == file[t]
        total == IF status[f] # NoRecord THEN status[f].total ELSE Stored(f)
        state == OutcomeState(Stored(f), total)
    IN
    /\ pc[t] = "counting"
    /\ lock' = {}
    /\ status' = [status EXCEPT ![f] = [state |-> state, total |-> total]]
    /\ IF state = "complete" /\ Stored(f) > 0
       THEN /\ pc' = [pc EXCEPT ![t] = "centroid"]
            /\ UNCHANGED <<file, count, seen>>
       ELSE Finish(t)
    /\ UNCHANGED durable

\* The early return: the lock is released and the record stays as it is.
FinishUncounted(t) ==
    /\ "count_read" \in Faults
    /\ pc[t] = "counting"
    /\ lock' = {}
    /\ Finish(t)
    /\ UNCHANGED <<durable, status>>

\* upsert_filing_vector averages whatever is stored now; a failure is swallowed.
WriteCentroid(p) ==
    LET f == file[p] IN
    /\ pc[p] = "centroid"
    /\ \/ centroid' = [centroid EXCEPT ![f] = chunks[f]]
       \/ UNCHANGED centroid
    /\ Finish(p)
    /\ UNCHANGED <<rows, expected, chunks, memory>>
-----------------------------------------------------------------------------
(* scripts/backfill_chunks.py: one filing of its loop. *)

\* The candidates are listed first and looked at one by one later.
ListCandidate(s, f) ==
    /\ f \in rows
    /\ Begin(s, f, "listed")
    /\ seen' = [seen EXCEPT ![s] = expected[f]]
    /\ UNCHANGED <<durable, memory, count>>

\* The text is fetched and the stored chunks are counted; a short filing is
\* topped up, after its total is recorded.
TopUp(s) ==
    LET f == file[s] IN
    /\ pc[s] = "listed"
    /\ IF Stored(f) < Total(f) THEN Goto(s, "listed", "recorded") /\ UNCHANGED <<file, count, seen>>
                               ELSE Finish(s)
    /\ UNCHANGED <<durable, memory>>

RecordTotal(s) ==
    LET f == file[s] IN
    /\ pc[s] = "recorded"
    /\ \E o \in WriteOutcomes :
          /\ expected' = IF seen[s] # Total(f) /\ Applied(o)
                         THEN [expected EXCEPT ![f] = Total(f)] ELSE expected
          /\ IF o = "ok"
             THEN /\ pc' = [pc EXCEPT ![s] = "resume"]
                  /\ UNCHANGED <<file, count, seen>>
             ELSE Finish(s)
    /\ UNCHANGED <<rows, chunks, centroid, memory>>

(* scripts/backfill_vectors.py, without --include-partial: a filing that is *)
(* empty or short is passed over.  One whose centroid is current is passed  *)
(* over too unless --force is given: ScriptStops, or WriteCentroid.         *)

CountForVector(s) ==
    LET f == file[s] IN
    /\ pc[s] = "listed"
    /\ IF Stored(f) > 0 /\ ~(seen[s] # 0 /\ Stored(f) < seen[s])
       THEN Goto(s, "listed", "centroid") /\ UNCHANGED <<file, count, seen>>
       ELSE Finish(s)
    /\ UNCHANGED <<durable, memory>>

\* Interrupted, killed, or failing on this filing.
ScriptStops(s) ==
    /\ pc[s] # "idle"
    /\ Finish(s)
    /\ UNCHANGED <<durable, memory>>
-----------------------------------------------------------------------------
(* GET /analysis/{id}/index-status: row, then count, then the record. *)

PollRow(p, f) ==
    /\ f \in rows
    /\ Begin(p, f, "polling")
    /\ seen' = [seen EXCEPT ![p] = expected[f]]
    /\ UNCHANGED <<durable, memory, count>>

PollCount(p) ==
    /\ Goto(p, "polling", "counted")
    /\ count' = [count EXCEPT ![p] = Stored(file[p])]
    /\ UNCHANGED <<durable, memory, file, seen>>

\* Mutant: the stored total is not consulted after a restart.
AnswerWithoutExpected(f, indexed, chunksExpected) ==
    LET total == IF status[f] # NoRecord THEN status[f].total ELSE indexed
    IN  IF status[f].state = "indexing" THEN "indexing"
        ELSE IF indexed = 0 THEN "unavailable"
        ELSE IF indexed >= total THEN "complete" ELSE "partial"

\* indexing.status_for, from the count and the row the caller read.
Answer(f, indexed, chunksExpected) ==
    LET total == IF status[f] # NoRecord THEN status[f].total
                 ELSE IF chunksExpected # 0 THEN chunksExpected ELSE indexed
    IN  IF status[f].state = "indexing" THEN "indexing"
        ELSE IF indexed = 0 THEN "unavailable"
        ELSE IF indexed >= total THEN "complete" ELSE "partial"

PollAnswer(p) ==
    /\ pc[p] = "counted"
    /\ Finish(p)
    /\ UNCHANGED <<durable, memory>>
-----------------------------------------------------------------------------
\* The server process dies and is started again.
Restart ==
    /\ status' = [f \in Filings |-> NoRecord]
    /\ lock' = {}
    /\ pc' = [p \in Procs |-> IF p \in Server THEN "idle" ELSE pc[p]]
    /\ file' = [p \in Procs |-> IF p \in Server THEN NoFiling ELSE file[p]]
    /\ count' = [p \in Procs |-> IF p \in Server THEN 0 ELSE count[p]]
    /\ seen' = [p \in Procs |-> IF p \in Server THEN 0 ELSE seen[p]]
    /\ UNCHANGED durable

\* A legacy row has whatever an earlier version stored, up to a batch's end.
Init ==
    /\ rows = Legacy
    /\ expected = [f \in Filings |-> 0]
    /\ chunks \in [Filings -> {Prefix(b) : b \in UNION {Boundary[f] : f \in Filings}}]
    /\ \A f \in Filings :
          chunks[f] \in IF f \in Legacy THEN {Prefix(b) : b \in Boundary[f]} ELSE {{}}
    /\ centroid = [f \in Filings |-> {}]
    /\ status = [f \in Filings |-> NoRecord]
    /\ lock = {}
    /\ pc = [p \in Procs |-> "idle"]
    /\ file = [p \in Procs |-> NoFiling]
    /\ count = [p \in Procs |-> 0]
    /\ seen = [p \in Procs |-> 0]

\* What the server does on its own once a run is scheduled.
RunStep(t) ==
    \/ AcquireLock(t) \/ Resume(t) \/ BatchFails(t) \/ StoreBatch(t)
    \/ FinishRun(t) \/ FinishUncounted(t) \/ WriteCentroid(t)

RequestStep(t) ==
    \/ AnalysisFails(t) \/ StoreRow(t) \/ ScheduleAnalysed(t) \/ ScheduleUnattended(t)
    \/ ReindexCount(t) \/ ReindexTotal(t) \/ ReindexRefused(t) \/ ScheduleReindex(t)
    \/ \E f \in Filings : BeginAnalysis(t, f) \/ ReindexRead(t, f)

ScriptStep(s) ==
    \/ ScriptStops(s)
    \/ \E f \in Filings : ListCandidate(s, f)

BackfillStep(s) ==
    TopUp(s) \/ RecordTotal(s) \/ Resume(s) \/ BatchFails(s) \/ StoreBatch(s)

VectorStep(s) == CountForVector(s) \/ WriteCentroid(s)

PollStep(p) ==
    \/ PollCount(p) \/ PollAnswer(p)
    \/ \E f \in Filings : PollRow(p, f)

Next ==
    \/ \E t \in Tasks : RequestStep(t) \/ RunStep(t)
    \/ \E s \in Scripts : ScriptStep(s)
    \/ \E s \in Backfills : BackfillStep(s)
    \/ \E s \in VectorJobs : VectorStep(s)
    \/ \E p \in Pollers : PollStep(p)
    \/ Restart

Spec == Init /\ [][Next]_vars

\* The event loop always runs a scheduled task's next step, and asyncio.Lock
\* wakes its waiters in order.  Nothing is assumed of requests, of scripts, of
\* polls or of what EDGAR, Gemini and Postgres answer.
FairSpec ==
    /\ Spec
    /\ \A t \in Tasks : WF_vars(RunStep(t)) /\ SF_vars(AcquireLock(t))
-----------------------------------------------------------------------------
(* Properties. *)

ServerPc == {"idle", "analysing", "stored", "reindex", "refetched", "preflight",
             "scheduled", "resume", "embedding", "counting", "centroid",
             "polling", "counted"}
ScriptPc == {"idle", "listed", "recorded", "resume", "embedding", "centroid"}

TypeOK ==
    /\ rows \in SUBSET Filings
    /\ expected \in [Filings -> Nat]
    /\ chunks \in [Filings -> SUBSET Nat]
    /\ centroid \in [Filings -> SUBSET Nat]
    /\ status \in [Filings -> Record \cup {NoRecord}]
    /\ lock \in SUBSET Tasks
    /\ pc \in [Procs -> ServerPc \cup ScriptPc]
    /\ file \in [Procs -> Filings \cup {NoFiling}]
    /\ count \in [Procs -> Nat]
    /\ seen \in [Procs -> Nat]

\* chunk_count "doubles as the resume point for a partial index" (database.py):
\* that is sound only while the stored chunks are the filing's first ones, up to
\* a cut of the plan, whatever server run and backfill interleave, whatever
\* fails and whenever the server restarts.
PrefixStored ==
    \A f \in Filings : \E b \in Boundary[f] : chunks[f] = Prefix(b)

\* A poll never reports a complete index for a filing with a chunk missing,
\* also after the restart that clears _status (status_for's chunks_expected).
\* Legacy rows have no total to compare with, and are excepted by the code.
CompleteMeansWhole ==
    \A p \in Pollers :
        /\ pc[p] = "counted"
        /\ file[p] \notin Legacy
        /\ Answer(file[p], count[p], seen[p]) = "complete"
        => chunks[file[p]] = Whole(file[p])

\* "A centroid is only written for a filing whose index is whole" (run_index),
\* although it is averaged, after the lock is released, over whatever is stored.
CentroidOfWhole ==
    \A f \in Filings \ Legacy : centroid[f] \in {{}, Whole(f)}

RunPending(t) == pc[t] \in {"scheduled", "resume", "embedding", "counting"}

\* A record that says "indexing" is backed by a run that will replace it: the
\* Ask card polls for as long as it reads "indexing".
IndexingHasRun ==
    \A f \in Filings : status[f].state = "indexing" =>
        \E t \in Tasks : file[t] = f /\ RunPending(t)

\* "A filing left partial only pays for what it is missing" (reindex_filing):
\* with the server alone, no batch is embedded that holds a stored chunk, however
\* many runs of one filing queue up on the lock.
PaysOnlyForMissing ==
    \A t \in Tasks : pc[t] = "embedding" =>
        \A i \in chunks[file[t]] : i < count[t]

\* run_index's comment on a lost centroid write: "the next /reindex or a backfill
\* run repairs it".  A /reindex that answers COMPLETE leaves a centroid behind.
ReindexRepairsCentroid ==
    [][\A t \in Tasks :
          ReindexCount(t) /\ pc'[t] = "idle" /\ file[t] \notin Legacy
              => centroid'[file[t]] = Whole(file[t])]_vars

\* A filing that is being indexed does not stay so for ever.
IndexingEnds ==
    \A f \in Filings : status[f].state = "indexing" ~> status[f].state # "indexing"

Coverage == INSTANCE IndexCoverage WITH
    Cuts <- [f \in Filings |-> {Prefix(b) : b \in Boundary[f]}],
    All <- [f \in Filings |-> Whole(f)],
    indexed <- chunks,
    averaged <- centroid

\* Whatever the processes do, readers see only coverage growing batch by batch
\* and centroids of whole filings.
CoverageRefined == Coverage!Spec
==============================================================================
