# SECDigest: a verification development in TLA+

SECDigest reads SEC filings from EDGAR, has Gemini analyse them, stores one
analysis per filing in Postgres (Supabase) and answers questions about a filing
from an index of embedded text chunks. A FastAPI server (`src/backend/app`, one
uvicorn worker, `src/backend/Dockerfile`) does the work; a Next.js site
(`src/frontend/src`) shows it; operator scripts (`src/backend/scripts`) repair and
backfill the database from processes of their own.

This directory holds TLA+ modules of the parts of the program whose correctness
depends on interleavings, failures and order, the configurations TLC checks them
with, and theorems about them that TLAPS checks.

Contents: 1 inventory, 2 modules and how they correspond to the code, 3 the runs,
4 bounds, 5 fairness, 6 proofs, 7 disagreements found, 8 what is not modelled,
9 plan, 10 how to run.

## 1. Inventory

How the parts interact: the site calls the server over HTTP (one call as a stream
of server-sent events). Inside the server everything shares one asyncio event
loop; a handler can be interleaved with others at each `await`. Every database
call runs in a worker thread (`asyncio.to_thread`), so the synchronous part of a
database helper, its cache clears included, runs concurrently with the event
loop. Server and scripts share Postgres and the daily budgets, and nothing else:
neither locks nor memory. The server's memory is lost on a restart.

| Component | State | Operations | What is hard | What makes it correct |
|---|---|---|---|---|
| Q&A index lifecycle (`services/indexing.py`) | `_status` per filing, `_lock`, background tasks | `mark_scheduled`, `run_index`, `status_for` | runs queue on a lock; restart forgets the record; the centroid is written after the lock is released | complete means every chunk is stored; a filing reported as being indexed has a run; it ends |
| Batch embedding (`services/embeddings.py`) | `filing_chunks`, `TokenPacer` window | `plan_batches`, `index_filing`, `_embed_batch`, `chunk_text` | interrupted between batches, two writers of one filing, short replies | stored chunks are a prefix cut at a batch, so their count is the resume point |
| Reindex and index-status (`routers/analysis.py`) | none | `reindex_filing`, `index_status` | row, count and record are read one after the other | no chunk is paid for twice; a poll never overstates |
| Backfill scripts (`scripts/`) | none; candidates listed up front | top up chunks, write centroids | a second process on the same filing | the same prefix and centroid promises |
| Filing vectors (`filing_vectors`) | one centroid per filing | `upsert_filing_vector`, `match_companies` | a centroid of an index still growing | a centroid averages a whole filing |
| Daily budgets (`quota.py`, two RPCs of `schema.sql`) | `daily_usage`, `embedding_usage`, in-memory fallback | `try_consume`, `reserve_embeddings`, `embeddings_remaining` | racing increments, lost answers, midnight between reading the day and using it | no more than the cap is let through on a day |
| Analysis pipeline and stream (`routers/analysis_pipeline.py`, `useAnalyze.ts`) | one task and one queue per stream, background tasks of a response | `run_analysis`, `stream_analysis`, the browser's one retry | client leaves, stream breaks, pipelines of one filing overlap, restart | one analysis per filing, frames in order, what was paid for is stored, everyone is answered |
| Analyses table (`services/database.py`) | `analyses` | `create_analysis`, lists, updates | unique violation, resend on a 401 | first insert wins and everyone sees it |
| TTL caches (`cache.py`) | entries in insertion order | `get`, `set`, `clear`, `discard` | cleared from worker threads in the middle of a get or set; stale fills | bounded; no staler than the TTL |
| Ask one filing, ask across filings (`retrieval.py`, `units.py`, `llm.py`) | none | retrieve, scope, answer | budgets; deadline; scope by indexed filings | answers come from the filings in scope |
| Language drift and peers (`drift.py`) | `drift_cache` | `pick_prior`, both statuses, compare | index read twice; result cached for a day | only whole indexes are compared |
| Peer percentiles (`frames.py`) | in-flight fetches, `frames_cache` | `_once`, merge, probe, percentiles | one fetch shared by callers that can be cancelled | one fetch per frame; failures are not kept; nobody fails with another's request |
| EDGAR client (`edgar.py`) | semaphore of 4, 30/60 s timeouts | fetch with 3 attempts | retry, failure and cancellation while a slot is held | slots are given back; a call is sent at most 3 times and ends |
| EDGAR reads (`edgar.py`, `routers/companies.py`) | ticker map, caches of peers, insiders, pay | gather several calls into one answer | some of the calls fail | a partial answer is never kept |
| Gemini client (`llm.py`, `llm_guards.py`) | none | structured calls, one fallback model, Q&A deadline | retry on malformed answers, refusals of either model | "at capacity" only when every allowed model refused; questions end |
| Earnings summaries (`earnings.py`, `routers/companies.py`) | `earnings` rows and cache | summarise, store or find | two requests between lookup and insert; a joint filing | everyone is answered with the stored row |
| XBRL financials (`xbrl.py`, `routers/financials.py`) | `financials` cache, shared companyfacts | fetch per concept, select, revisions | a filing arrives between the fetches | rows and revisions tell one history |
| Feeds, parsers | caches of responses | fetch, merge, parse | data, not control | covered by fixtures |
| Column backfills (`scripts/backfill_{segments,flags,sic}.py`) | none | page, work, exit code | the site stores while pages are read | exit 0 means nothing was left |
| Evaluation (`evals/`) | corpora, run artifacts, history | build, run, resume, annotate, score, gate | quota stops, interrupts, a chunking that changes | a score is of what the model saw; a green gate compared the last two runs |
| Index status polling (`useIndexStatus.ts`) | shared store of listeners, timers, generations | subscribe, poll, reset | late answers, failed polls, resubscription | one chain of polls; it stops when the index is done |
| Other data hooks (`useFilings`, `useSection`, `watchlistStatus`, `SearchBar`, history page) | request ids, cancelled flags, promise cache | fetch and apply | answers out of order | the newest request wins; a failed lookup is not kept |
| Watchlist, recent searches, derived figures | local storage; none | capped lists; ratios, diffs, histories | boundaries | agree with a reference definition |

`PROJECT.json` lists all of these as components, with the source files of each, and
the hazards of the code at the lines where they bite.

## 2. The modules and the code

Each definition is mapped to the lines it stands for in `PROJECT.json` (`map`). An
action is what happens between two points at which something else can run: between
two awaits of a handler, and for caches cleared from worker threads between two
operations on the dictionary.

**ChunkPlan** is `plan_batches` as a function from the chunk a batch starts at to
its end (`PlanEnd`): chunks are their token estimates, packed greedily under
`TOKEN_BUDGET`, and one chunk always fits. `Boundary` is the set of positions the
whole filing is cut at, defined as the least set that holds 0 and is closed under
taking one more batch, so that nothing is recursive and the definition can be
proved about.

**IndexCoverage** is the abstract specification: what readers of the index
(`match_chunks`, index-status, drift, peers) may rely on. The stored chunks of a
filing only grow, from one cut of the batch plan to a later one; a centroid
averages the whole filing. It knows nothing of locks, requests, scripts,
processes or restarts.

**Indexing** is the detailed one. Postgres is `rows`, `expected`, `chunks` and
`centroid`; the server's memory is `status` and `lock`; each process has a `pc`, the
`file` it works on, its last `count` and the `chunks_expected` it has `seen`.
- `Tasks` are requests that go on as background runs: `BeginAnalysis`, `StoreRow`,
  `ScheduleAnalysed` for POST /analysis; `ReindexRead`, `ReindexCount`,
  `ReindexTotal`, `ScheduleReindex` for POST /reindex; then `AcquireLock`, `Resume`,
  `StoreBatch` or `BatchFails`, `FinishRun`, `WriteCentroid` for `run_index`.
- `Pollers` are GET /index-status: `PollRow`, `PollCount`, `PollAnswer`, with
  `Answer` for `status_for`.
- `Backfills` and `VectorJobs` are the two scripts, one filing of their loop.
- `Restart` clears memory and every server process. Each write can be applied,
  refused, or applied with its acknowledgement lost.
- `Faults` switches on three rarer faults: Gemini answers a batch with fewer
  embeddings than texts, the count that ends a run cannot be read, and a background
  task is added to a response that has already ended.

A legacy filing is one from before `chunks_expected` existed: its row has no total,
and it starts with any prefix of whole batches.

**DailyQuota** has the two counters of Postgres by day, the fallback counter of the
server's memory, and callers at the points where they await: `Ask`,
`IncrementDaily`, `ConsumeInMemory` for requests to the LLM; `Preflight`,
`TryReserve`, `Reserve`, then `Embedded`, `EmbeddedUnusably` or `RateLimited` for
texts to embed, batch by batch, from questions, index runs and scripts. `Midnight`
may fall between any two of these. An RPC is answered, never arrives, or is applied
with its answer lost. `granted`, `fallback`, `reserved` and `sent` record what the
budgets are there to bound.

**AnalysisPipeline** has a request per user and shape (a stream, or plain JSON),
`row` for the analyses table, and for each stream the `queue` between the detached
producer and the generator. The stages of `run_analysis` are actions of their own;
`Yield`, `ResponseEnds`, `Respond` are the server's side of the response, `Analyze`,
`Break`, `Leave`, `CutOff` the browser's (`useAnalyze.ts`: one unstreamed retry, only
when the stream breaks off). `run` follows the background run that is added to a
response and starts when the response ends.

**ListCache** is `TTLCache.get`, `set` and `clear` at the grain of single dictionary
operations, as `list_analyses` reads through the cache on the event loop and writers
clear it from their threads. Table contents are a version number. A script writes
the table without clearing the server's cache.

**EdgarCall** is what the rest of the program relies on when it calls EDGAR: a call is
sent a bounded number of times and it ends. **EdgarClient** is `_get_with_retry`:
the four slots, the three attempts, the sleep without a slot, and a cancellation
wherever the call is; it is checked to implement EdgarCall, liveness included. Frames,
EdgarReads and Financials are written against EdgarCall: a call of theirs is one
step that is answered or fails.

**EdgarReads** has the three reads that gather several calls: peers of an industry
(profile, ticker map, first page, other pages), insider trades (submissions, Form 4s)
and pay (submissions, instance document). EDGAR's list of the industry, `feed`, is cut into
pages by name (`Page`), and filers enter and leave it between two of them
(`FeedChanges`); `got` is what a request has read of it, and the ghost `due` what its
answer owes. What is kept remembers what it `lacks` of that, and whether the ticker map
was filled when the list was made of it. A first page that is short is taken for the whole industry, as in `_scan_sic`.

**Frames** is `_once` and who uses it. `registry` is `_inflight`; `running` counts the
tasks that are really under way, so that a second fetch of one frame would show. A
request probes for the newest populated period, then gathers its metrics; the merge
of a metric gathers its concepts. `Cancel` is a client that goes away: its own
coroutines stop, the shielded tasks run on.

**IndexReaders** reads an index that Indexing builds, here at the grain of single
chunks: `filing_drift` as row, cached history, counts, records, measurement; a
question across filings as scope, match and answer. Similarity is any ranking.

**Earnings** is `POST` and `GET /companies/{cik}/earnings` on one release that
several registrants file. **Financials** is `GET /financials/{cik}`: `Winner` and `Selected`
are `_annual_facts` and the choice of a concept, `RevisionsOf` the revisions; `Report`
is a filing that SEC publishes between two fetches, maybe on the date of the one before it:
`Winner` then keeps the first of the date in the document, and `RevisionsOf` orders by
accession number, as the code does.

**GeminiClient** follows a call of `llm.py` through `Models`, `Replied`, `Malformed`,
`TurnedDown` and `Deadline` to the status `llm_errors` gives it. A 429 and a 503 of Gemini
go the same way (`LLMOverloadedError` is an `LLMQuotaError`): to the fallback, and without one
to a 503 "at capacity"; any other error ends the call at once.
**TokenPacer** is the rolling window of `embeddings.py`, purged from the front before it is
summed; **ExtractionRun** is the run
of the extraction eval that waits behind it, with `--resume`, back-off, a spent
quota and an interrupt.

**QACorpus** is `build-corpus`, `run` and `annotate` of the Q&A eval, one command at a
time, over a `chunking` that changes between commands. **EvalGate** is what CI makes of
the saved runs of either eval: score, floor, regressions, staleness. `Name` orders the
artifacts as their file names sort; the ghost `newest` remembers which was saved last.

**Backfills** is the loop that the three column scripts share, `column` naming which:
pages by offset, newest first, while the site stores more rows in front of them.

**IndexPolling** is the store of `useIndexStatus.ts`: an entry per filing (its
`generation`, its `handle` on the timer) and chains of polls, whose answers outlive
the entry they were asked for.

**DataHooks** is `useFilings`, `useSection`, the promise cache of `watchlistStatus.ts`
and the search box. An answer is known by what it was asked for; `pending` holds the
requests under way, which are answered in any order.

**MCIndexing, MCDailyQuota, MCListCache** hold the values of constants, symmetry
and constraints of one component each. **MCReads, MCClients, MCTools** put several
components into one instance: a variable `focus`, chosen in the initial state, says
which of them moves. They share no state in the code, so their interleaving adds
nothing, and the states are a union, not a product. The modules named **...Proofs**
hold the theorems.

The modules meet where one refers to a step of another: what AnalysisPipeline calls
`Insert` and `run` is `StoreRow` and `ScheduleAnalysed` or `ScheduleUnattended` in
Indexing; `Pay` is the `Ask` of DailyQuota; `BatchFails` in Indexing is any of
DailyQuota's refusals. Each is checked with the others' outcomes left open, so what
holds of one holds whatever the others answer. In the same way IndexReaders lets an index
grow as Indexing proves it does, IndexPolling lets the server's status move as
`status_for` can, and EdgarClient stands behind every module that calls EDGAR.

## 3. What the runs show

Passing runs:

| Run | Question | Properties |
|---|---|---|
| `indexing` | two requests and their runs, a poll and both scripts on one filing of three batches, with lost writes and restarts at any step | `PrefixStored`: the chunks are a prefix cut at a batch. `CompleteMeansWhole`: no poll overstates. `CentroidOfWhole`. `IndexingHasRun`: a record "indexing" has a run behind it. `CoverageRefined`: all of this implements `IndexCoverage` |
| `indexing_faults` | what remains when short replies, unreadable counts and lost background tasks are added, next to a legacy filing | `CompleteMeansWhole` and `CentroidOfWhole` need neither the prefix nor a reply of full length |
| `indexing_live` | two runs and two filings on the lock, server alone | `PaysOnlyForMissing`: no stored chunk is embedded again. `IndexingEnds`: no filing is reported as indexing for ever |
| `quota` | two requests, or a question, an index run and a script, around midnight | `AnalysesCapped`, `ReservationsCapped`: the caps hold by day. `CeilingKept`: what Gemini counts on a day exceeds our cap by at most a batch per embedder, the one reserved before midnight |
| `pipeline` | a browser that streams and retries, and another client, on one filing, with a restart | `OneAnalysis`, `FramesInOrder`, `ShownIsIndexed`, `PaidForIsStored`, `EveryoneIsAnswered` |
| `list_cache` | two readers of three lists, a cache of two, a server writer, a script | `BoundedByAge`: never outgrown, no key twice, ordered by age. `StaleOnlyForTTL`: no list lacks a write older than the TTL and one read |
| `reads` | what the site reads and the server keeps, with concurrent requests, failures, cancellations, expiries, and a source that moves between two fetches | Frames: `FetchesShared` (one fetch of a frame at a time, and nobody waits for a task that has died), `KeptWasAnswered` (no failure is kept, the period kept is the newest populated one), `GaveUpForCause` (no request fails because another one left). EdgarReads: `KeptIsWhole` (what is kept was gathered whole: every filer that stayed on its page of the feed while the scan ran, every Form 4, the table of a tagged proxy). IndexReaders: `KnownDriftOfWhole`, `AcrossFilings` (an answer across filings cites at least two of its scope). Earnings: `AnsweredAsStored`. Financials: `RowsTellRevisions` |
| `clients` | who waits for another party, or for a newer answer | EdgarClient: `KeepsPromise` (it implements EdgarCall), `NoSlotLeaks`. GeminiClient: `RefusedForCause`, `AnswersEnd`. TokenPacer: `WindowKept`. ExtractionRun: `EntriesAccounted` (no golden entry is left out silently), `RunEnds`. IndexPolling: `FinishIsShown`. DataHooks: `NewestAnswerStays` |
| `tools` | several commands of each tool, stopped, interrupted, repeated | QACorpus: `ScoredAsSeen` (positions in order, similarities of the very chunks the model saw). EvalGate: `GreenMeansKept`. Backfills: `DoneMeansFilled` |

Runs whose property is violated are in section 7. The type invariants of DailyQuota and
AnalysisPipeline are not in a run, since they are proved. Every passing property has a
mutant in `PROJECT.json`: the definition, changed as a plausible bug would change
it, under which TLC finds the property violated.

`PaysOnlyForMissing` is checked for the server alone because it is a property of the
lock; a script is another process and can embed what a server run is embedding at
the same time (the insert of the second one then hits the unique key, and the
coverage stays right, which is what `indexing` shows).

## 4. Bounds

- `indexing`: one filing of four chunks whose plan is a batch of two, a chunk that
  alone exceeds the budget, and a last short batch: every shape a cut can have, with
  a first, an inner and a last batch. Two tasks are what the lock and duplicate
  scheduling need; a third only waits longer. One poller suffices, since polls do not
  write. Restarts are unbounded. The two tasks are symmetric.
- `indexing_faults`, `indexing_live`: two filings, one of them legacy, so that
  records, locks and counts of different filings can be confused. No symmetry where
  liveness is checked.
- `quota`: `LastDay = 1` (one midnight), caps of 1 request and 2 texts, a filing of 3
  texts in batches of 2, and `UsageBound = 3`, which stops new calls on a day whose
  counter is already past both caps; calls under way still add to it.
  `OneBudget` follows only behaviours that use one of the two budgets: they share the
  clock and nothing else. The two requests are symmetric.
- `pipeline`: one filing, since only pipelines of one filing meet; `MaxRestarts = 1`.
  The browser alone can have two pipelines at once, the other client adds a third.
  Deadlock is not checked: the system stops when everyone is answered.
- `list_cache`: `MaxEntries = 2` with three keys, so that eviction happens;
  `MaxTime = 3` with `TTL = 1` lets an entry expire and be filled again; `MaxWrites = 1`
  is enough to be missed, late or early; `ReadLimit = 1` stands for the timeout of the
  database client: a reader takes no longer from lookup to answer. Readers and keys
  are symmetric.

- `reads`. Two requests for percentiles over `Lookback = 2` periods (the code probes
  more), two merged concepts of which one was never tagged, one entry that outlives its
  day: enough for a probe to pass over a period, a shared fetch, a fetch that is left
  alone by its request, and a merge whose parts fail apart. For EdgarReads two requests, which
  are symmetric and share only the cache and the map; three pages of one filer and three filers: one
  on each page, pages that fail apart, a short first page (an empty industry), a filer that a
  change before it moves. A filer beyond the depth would take a fourth; it is never owed. Three filings of two chunks, one of them maybe without a total, for
  IndexReaders; `MaxFilings = 3` is all of them, `PerFiling = 2` and `K = 4` keep the
  proportion of the code (a filing can supply half of an answer, not all of it). Two registrants,
  two requests and one list for Earnings. For Financials two tags and three fiscal
  periods, two of which end in one calendar year, `MaxFiled = 3` filings: a first
  report, a later one under another tag, a revision. Filings share a date or do not, and
  the accession numbers of two follow the order of filing or do not (`MCAccession`).
- `clients`. Three calls for two slots, three attempts as in the code. One prompt (calls
  share nothing), and every setting of the two optional models. Token estimates `<<2, 4, 1>>` for a window of
  3: one that fits, one larger than the window, one small; `Tries` and `GiveUp` of 2. Two cards
  and two chains alive at once, `MaxGeneration = 1` re-index per entry. Two filters, two
  keys, two queries and four requests per hook.
- `tools`. Two filings, of which one is searched by both questions; a second chunking
  that cuts coarser; one of the questions has an answer. Two days of runs, tagged and plain, `MaxRuns = 2`; one question of
  each label; `Floor = 50`. Five analyses, three of them stored at first, by two
  companies in turn; pages of two, so that the site shifts a row between pages.
- In `reads`, `clients` and `tools`, deadlock is not checked: bounded components stop at their bounds.

## 5. Fairness

- `Indexing!FairSpec`: weak fairness of what a scheduled run does next, because the
  event loop runs every ready task and every await of a run ends (database calls have
  the client's timeout; embedding calls end by answering or failing). Strong fairness
  of `AcquireLock`, because `asyncio.Lock` wakes its waiters in order, so a waiter is
  not overtaken for ever. Nothing is assumed of requests, scripts or polls, nor that
  any call succeeds.
- `AnalysisPipeline!FairSpec`: weak fairness of every pipeline and of what the server
  does to answer an open response, and of a browser noticing a cut connection.
  `ResponseEnds` (the server noticing that a client left) has none.
  The code gives `analyze_filing` no deadline of its own: that Gemini answers or
  fails is an assumption about Gemini, listed among the hazards.

- `EdgarClient!ClientFairness`: weak fairness of a request's end (it has a timeout of
  30 s or 60 s) and of waking from a sleep, strong fairness of getting a slot
  (`asyncio.Semaphore` wakes its waiters in order). None of cancellation, none of success.
- `GeminiClient!GeminiFairness`: only that the deadline of an answer falls, which the code
  sets itself; nothing is assumed of Gemini.
- `ExtractionRun!RunFairness`: that the process goes on and that time passes.
- `IndexPolling!PollingFairness`: a poll is answered or fails, its answer is delivered,
  and a timer fires. `FinishIsShown` itself assumes that the server's status leaves
  "indexing" for good, which is `IndexingEnds`.
- `MCClients` conjoins them: a component that does not move is at rest, where none of
  its fair actions is enabled, so that its fairness says nothing.

## 6. Proofs

The theorems hold for every value of the constants, from the assumptions the modules
name, which TLC evaluates in the runs:

| Assumption | What it says, and why the code justifies it |
|---|---|
| `ChunkPlanAssumption` | every filing has at least one chunk, a chunk costs at least one token |
| `IndexingAssumption`, `PipelineAssumption`, `EarningsAssumption`, `ListCacheAssumption` | processes of different kinds are different, markers such as `None` or `Nobody` name nothing else, bounds are naturals, a cache has room for one entry |
| `QuotaAssumption` | caps and sizes are naturals, a batch is not empty, `Embedders` is finite (a sum over them is spoken of) |
| `ClientAssumption`, `PacerAssumption`, `RunAssumption` | there is a slot and an attempt; window, budget and estimates are naturals |
| `FramesAssumption` | names of concepts, metrics and requests do not collide; what SEC publishes is a choice per concept and period |
| `ReadersAssumption` | numbers are naturals, and `2 * PerFiling <= K`: one filing supplies at most half of an answer, as `retrieval.py` sets it up |
| `ReadsAssumption` | an industry is finite and its filers are numbered by name; a page is not empty; the pages after the first, and Form 4s, are numbered from 1 |
| `FinancialsAssumption` | fiscal periods end one after the other; a filing has an accession number of its own; the markers of a document are no numbers |
| `BackfillAssumption`, `GateAssumption`, `CorpusAssumption`, `HooksAssumption` | a page is not empty, golden sets are finite, there is a chunking and a form filter |

Hypotheses on faults and on who takes part stand in the statement of the theorem, and are
named below.

*IndexingProofs.* First the plan: a batch is never empty and never runs past the end
(`PlanEndRange`), cuts are closed under taking a batch (`BoundaryClosed`), and no cut
lies inside a batch that starts at one (`BoundaryGap`, from minimality: removing such
a cut would leave a smaller closed set).
- `TypeCorrect`. The type invariant is inductive with `Working` (a process that is not
  idle works on a filing) and `StoredWithin` (no chunk beyond the end).
- `ResumePointSound`: `[]PrefixStored` when Gemini answers batches in full.
  `PrefixStored` alone is not inductive: a run in its batch loop holds a position read
  long ago. `AimedAtCut` adds that this position is a cut and that everything before
  it is stored; then an insert either extends the prefix by exactly one batch, or the
  batch is already there (by `BoundaryGap`) and the unique violation leaves the table
  as it is.
- `CentroidSound` and `CompleteSound`, under every fault, short replies included. The
  invariant `ClaimInv` says that recorded totals are the filing's own
  (`TotalsRight`), a pending run has a record (`RunRecorded`), a total or count read
  earlier is still right or only too low (`ReadRight`), and a process about to write a
  centroid has a whole filing before it (`WholeFirst`). Chunks only grow, so a count
  that reaches the total leaves none out.
- `CoverageImplemented`: `Spec => IndexCoverage!Spec` under the refinement mapping of
  `Coverage`, from the three invariants together; without short replies.
- `IndexingIsBacked`: `[]IndexingHasRun` without `count_read` and `no_background`, the two
  faults that break it (`indexing_stuck` shows the first do so). Given the types it is
  inductive: a run leaves its loop only by writing another status.
- `StoredIsNotPaidAgain`: `[]PaysOnlyForMissing` without scripts and short replies.
  `Serialized` is mutual exclusion (whoever is past the lock is the one that holds it), so
  what a run counted on resuming is, as a cut, all that is stored until it stores more.

*DailyQuotaProofs.* `QuotaTypeCorrect`; `AnalysesNeverExceedCap` and
`ReservationsNeverExceedCap`. A cap alone is not inductive: `Counted` relates what was
let through on a day to the counter of that day, which is at least as high, because
the counter moves first, and also moves for refused and lost calls.
`CeilingHolds`: `[]CeilingKept`. `Held` is the set of texts that can still be sent on
reservations already made, or asked for on an earlier day; what was sent today together
with them is covered by today's reservations and a batch of every embedder
(`CeilingInv`), and midnight turns all of today's into yesterday's margin. It rests on Gemini
counting no request that it answers with a 429 or a 503, which the code cannot know: a batch is
retried under one reservation, and if Gemini counted the retries the ceiling would be overrun.

*AnalysisPipelineProofs.* `PipelineTypeCorrect` (a queue holds only stages and
terminal frames) and `OneAnalysisPerFiling`: whoever is answered is answered with the
stored row. Both are inductive with `Started` (a pipeline runs for a user who has
named a filing).
- `FramesComeInOrder`: `[]FramesInOrder`. `Feed` says of an open response that its queue
  is a run of frames in order (`Chain`), which ends with what the pipeline announced last
  (`Announced`) and begins right after what the browser was told.
- `ShownAnalysisIsIndexed`: `[]ShownIsIndexed`. `Indexed` follows the run: until a
  restart, a paid pipeline that is done has one, unless its response had ended before; and
  then its result is in no queue. Whoever is shown a stored row relies on the request that
  stored it, of which `Accounts` says where its run is: it can be lost only with a stream whose
  client had left, or with an insert that was applied and reported as failed.

*ListCacheProofs.* `CacheKeepsItsLimit`: `[]BoundedByAge`. A get and a set are alone on
the event loop (`Alone`), while clears from threads only ever thin the entries
(`Thinned`); so the room a set has made, and that its key is not there, stay true until it
inserts (`Room`). `StalenessBounded`: `[]StaleOnlyForTTL`. What a reader has read lacks
only writes made since it began (`ReadSince`), it is no older than `ReadLimit` when it
goes into the cache (`Timely`), and so is every entry there (`Recent`).

*ReadsProofs.*
- EdgarReads. `KeptAnswersWhole`: `[]KeptIsWhole`. `ScanOK`: whatever a scan owes stands on a
  page that was read with it there, or is still to be read, or failed; when the feed
  changes, what is still owed is on the page it was on, and a place is on one page only
  (`OnePage`). That a short first page is the whole industry needs an argument of its own
  (`ShortPageIsAll`): the first filer off the page would have less than a page of
  filers before it. `TradesOK` is the same for the Form 4s.
- Earnings. `AnsweredWithTheRow`: `[]AnsweredAsStored`. A request that is past its insert
  holds the row that is stored, its own or the one it lost to; rows never change.
- Frames. `SharingInv`: the registry names exactly the tasks that run (`RegistryExact`),
  whoever waits is registered for (`WaitersRegistered`), and the coroutines of a request
  are where the request is, only those of one that gave up outliving it
  (`CoroutinesInStep`). From it `FetchesAreShared`; with `ProbedInOrder` (all that is newer
  than the period under probe is not populated) `AnswersAreKept`; with `FailureSeen`
  (whoever is under way while a failure travels up has been told) `GivenUpForCause`.
- Financials. `RowsTellWhatWasRevised`: `[]RowsTellRevisions`. `FactsOK`: a filing reports
  a period once, under one concept, so that the latest report of a period that has a
  year to itself is the winner of that year (`WinnerIsLatest`); where the latest date has several,
  the winner is one of that date, and so is the last of a revision. Facts only come with later
  filings, so a document once read never changes (`FactsGrow`) and a later reading has
  all of an earlier one (`LaterReadsHaveMore`). That one concept beats all others, and so
  none reaches a later year, needs that the order of `_select_series` has a greatest
  element (`SelectedReaches`, by maxima of bounded sets).

*IndexReadersProofs.* `DriftKeptOfWhole`: `[]KnownDriftOfWhole`. The property speaks of
what is kept; the invariant `Judged` of what a request holds on its way there: a count
is at most what is stored by now (`CountedOf`, since an index only grows), so that an
index judged complete against a known total is whole (`JudgedWhole`) and stays so until it
is measured. `PairNamed` needs that the prior of a filing is a filing, that is, that
`CHOOSE` finds a latest one (`LatestExists`, from the well-foundedness of `<`).
`AnswersCiteTwoFilings`: `[]AcrossFilings` for a company with no more than
`MAX_FILINGS` analysed filings (`Newest <= MaxFilings`). The hypothesis is needed: of a company that
has more, five filings that are indexed between the read of the scope and that of the
rows push all but one of a full scope out of the latest six. Under it the scope of a
question stays indexed (`Asking`), and since no filing supplies more than half of the
passages, two do.

*ClientsProofs.*
- EdgarClient. `SlotsNeverLeak`: `[]NoSlotLeaks`, for any calls, with the calls that are
  out as a finite set. `PromiseKeptByEachStep`: the initial states and the steps of the client
  are those of EdgarCall, from `SentPerAttempt` (a call has been sent once per attempt);
  the liveness of EdgarCall stays with TLC (`KeepsPromise`).
- GeminiClient. `CapacityRefusedForCause`: `[]RefusedForCause`. An open call that has
  moved to its second model has been turned down by the first, spent or overloaded, in the same attempt at
  output; a malformed output, which starts over, forgets the refusals with it.
- ExtractionRun. `NothingLeftOut`: `[]EntriesAccounted`, from `Walked`: until the walk
  stops, what is recorded is what lies behind it.
- TokenPacer, as that run uses it. `WindowIsKept`: `[]WindowKept`. A request is counted
  when it is served, not when it is admitted; `Admitted` says that while it is out it
  would still be admitted, because what it was admitted beside only leaves the window.
  `TokensOf` has the sum as the number of tokens of a set, so that it can be reasoned
  about by cardinalities (`CountAdds`, `SuffixHasLess`) instead of by induction.
- DataHooks. `NewestAnswerWins`: `[]NewestAnswerStays`. Of the requests that are out, the
  one with the hook's own number is for what the hook is about (`Numbered`).

*ToolsProofs.*
- Backfills. `SuccessMeansFilled`: `[]DoneMeansFilled`. The invariant `Collected`: while
  pages are read, what was there at the start is settled, collected, failed, or further
  back than the offset. Rows the site stores only push it further back (that is why
  newest first is the safe order), and a page has at most `Page` rows, so that the offset
  never passes a row that was not read.
- EvalGate. `GreenIsEarned`: `[]GreenMeansKept`, inductive given the types, since saving or
  scoring a run takes the verdict away. The property names the last two runs by their order
  (`LastTwo`), not by the gate's `Previous`, so that a wrong baseline would break it, and counts
  by itself what the floor is for. It is no more than it says: that the last run by name is
  the one saved last fails (`NewestIsJudged`), and so does that a right figure stays right
  (`CorrectStays`, section 7).
- QACorpus. `AnswersScoredAsSeen`: `[]ScoredAsSeen`. A corpus and what a build has so far
  are `Ordered`; a record is scored with nothing or with what it was shown, and no command
  but `annotate` changes that.

Only model-checked: liveness (`IndexingEnds`, `PaidForIsStored`, `EveryoneIsAnswered`,
`KeepsPromise` in its second half, `AnswersEnd`, `RunEnds`, `FinishIsShown`), which is beyond the
prover: it treats neither fairness nor ENABLED. Of safety, every property of a passing run is
proved; what TLC adds is that the cases the proofs speak of happen, and the mutants.

## 7. Disagreements between the code and what it says

Three runs check one property each, taken from a comment, that TLC refutes:

- `indexing_stuck` (`IndexingHasRun`): when the count that ends a run cannot be read,
  the record stays "indexing" with no run left, until the server restarts;
  `indexing.py:75-76` says that the card stops waiting either way.
- `peers_frozen` (`KeptPeersAreRanked`): `companies.py:92` does not look at the result of
  loading the ticker map. Without it the scanned companies are intersected with nothing,
  and the empty list of peers is kept for a day, which `edgar.py:365-366` sets out to
  prevent.
- `fiscal_years` (`EveryFiscalYear`): `xbrl.py:170` keys a fact by the calendar year of its
  end, so that one of two fiscal years that end in one calendar year is lost;
  `xbrl.py:2` speaks of "every tagged fiscal year".

These are stated in the modules as well, and TLC refutes each when it is added to the
configuration named:

| Property | Configuration | What the code does, and what it says |
|---|---|---|
| `Indexing!ReindexRepairsCentroid` (a PROPERTY) | `Indexing.cfg` | a centroid whose write failed is not repaired by /reindex, which stops at COMPLETE (`analysis.py:328`); `indexing.py:84-85` says it is |
| `DailyQuota!FallbackCapped` | `DailyQuota.cfg` | two calls that read the day on either side of midnight, and both fall back, reset the in-memory counter twice (`quota.py:33`); `quota.py:48-49`: "The cap degrades to per-process" |
| `AnalysisPipeline!RetryIsCacheHit` | `AnalysisPipeline.cfg` | the retry of a broken stream (`useAnalyze.ts:43`) is sent while the pipeline it replaces still runs, misses the cache and pays again; `analysis_pipeline.py:225-226` calls it a cache hit |
| `ListCache!FreshAfterWrite` | `ListCache.cfg` | a list read before a write is put into the cache after the write cleared it (`database.py:233`) and served for its TTL; `cache.py:45-48`: every writer clears it, so the TTL is "not what keeps it fresh" |
| `Earnings!PaidOncePerRelease` | `Reads.cfg` | `companies.py:305-306` looks at the company that asked first, so that a joint filing is paid for again by its other registrant; `companies.py:295`: "once per release, ever" |
| `IndexReaders!DriftOfWhole` | `Reads.cfg` | a filing without a stored total counts as complete with any number of chunks, and its drift is kept; `cache.py:71-72`: "only a complete index is ever cached" |
| `IndexPolling!OneChain` | `Clients.cfg` | when the last card leaves and one returns, the entry starts at generation 0 anew, and the late answer of the old one sets a second timer; `useIndexStatus.ts:20-22`: one poll per filing |
| `ExtractionRun!ResumeKeeps` | `Clients.cfg` | a resumed run that stops early writes an artifact without the reusable extractions behind the stop (`eval_extraction.py:359-408`); `:277-278`: "--resume keeps its extractions" |
| `DataHooks!ResultsOfQuery` | `Clients.cfg` | the search box applies any answer (`SearchBar.tsx:70-75`), unlike `useFilings.ts:66-68`: "responses can land out of order; only the newest request may write" |
| `QACorpus!ScoredAsLabelled` | `Tools.cfg` | a build resumed under another chunk size appends to the chunks of the old one under the new label (`eval_qa.py:199-263`); `:85-87` says such a corpus is caught |
| `Financials!RevisionsEndAtRow` | `Reads.cfg` | of two reports of a period filed on one date the row keeps the first of the document (`xbrl.py:171`, a strict `>`), and the revision ends at the last by accession number (`:270`): two figures for one year; the docstring of `_revisions` takes the row for what it revises to (`:245-246`). What does hold, that a revision ends on the date of its row, is in `RowsTellRevisions` |
| `EvalGate!NewestIsJudged` | `Tools.cfg` | a tagged run sorts before the untagged one of its day (`eval_qa.py:531`, `eval_extraction.py:420`: "-" before "."), so that CI judges the older run when it was saved after it; `eval_qa.py:738`: "sort order is chronological" |
| `EvalGate!CorrectStays` | `Tools.cfg` | a figure that was correct and is now an error, or without ground truth, is no regression (`scoring.py:400-415`), "correct in the baseline and ... not now" |

Smaller ones, met while modelling: the paging of the column scripts is newest first where their docstrings
say "oldest page first"; `backfill_sic.py --limit N` never gets past N companies that EDGAR does not
classify; an eval run that is interrupted writes nothing although it says that "anything already written
is kept".

## 8. Not modelled

- Parsing of EDGAR documents, prompts and the wording of answers: data with no state and
  no interleaving, covered by the fixtures of the repository's tests. Of XBRL, quarterly
  and instant series, which follow the rules of the annual ones over other durations.
- Embedding vectors: a centroid is the set of chunks it averages. Similarity and its
  ranking belong to pgvector, so that language peers (`match_companies`) are only the
  centroid's promise, and a ranking is any order.
- `chunk_text`, the comparison of two texts (`drift.compare`), the midrank, the unit scale of an answer,
  grading of a figure or a sentence in the evals: functions of data, of which the
  models keep the outcomes.
- `search_companies`, resolving a primary document, the event and industry feeds,
  `sector_counts`: single reads, without state of their own.
- The history page, watchlist and recent searches, derived figures: local to one component
  or pure functions of one response.
- Rendering, styling, HTTP middlewares, logging, load tests; golden-set construction and reports of
  the evals.
- The clock-skew resend of the database client rests on PostgREST refusing a token
  before it runs anything, which is outside this repository.
- Some windows of a few instructions: the count that ends an index run and the write of its
  record are one step (`FinishRun`), a fetch that ends and its removal from `_inflight` too
  (`TaskEnds`), and any card may ask for a re-index (`IndexPolling!Repair`), which is more than
  the page lets it. No property speaks of them.
- `--dry-run` of the scripts, `--include-partial`, `--limit`, `--ticker`: they promise less.

## 9. Plan

Done, in order of weight: stored data and money (ChunkPlan, IndexCoverage, Indexing;
DailyQuota; AnalysisPipeline; ListCache); the clients of EDGAR and Gemini and what is
kept of their answers (EdgarCall, EdgarClient, EdgarReads, Frames, Financials, Earnings,
GeminiClient); the readers of the index (IndexReaders, IndexPolling); the tools beside
the site (Backfills, QACorpus, ExtractionRun, EvalGate); the data hooks.

Every safety property of the passing runs is proved. Left:

1. Liveness stays with TLC; of its lemmas, the safety half (what keeps a fair action
   enabled until it is taken) could be proved.
2. The questions the models leave open: `DriftOfWhole` for filings that have a total from
   some point on; `AcrossFilings` beyond `MAX_FILINGS`, for fewer than five arrivals.
3. Pure algorithms against reference definitions over bounded inputs: `chunk_text`, the
   midrank, `historyList`, `riskDiff`, the capped lists in local storage.

## 10. Running

`tlc -workers 2 -config X.cfg M` for each run of `PROJECT.json`; `tlapm M.tla` for the
eight proof modules. The largest run takes about two minutes.
