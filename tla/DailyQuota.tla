----------------------------- MODULE DailyQuota -----------------------------
(***************************************************************************)
(* The two daily budgets of app/quota.py, and what is spent against them:  *)
(* one unit of daily_usage per LLM request, one unit of embedding_usage per*)
(* text embedded.  Both are rows of Postgres, keyed by the Pacific day and *)
(* shared by the server and the backfill scripts.  A request whose RPC     *)
(* fails falls back to a counter in the server's memory (fail open); an    *)
(* embedding whose RPC fails is refused (fail closed).                     *)
(*                                                                         *)
(* The day is read once, before the RPC is awaited: midnight may pass      *)
(* between that and everything that follows.                               *)
(***************************************************************************)
EXTENDS Integers, FiniteSets

CONSTANTS
    Requests,      \* server: requests that call the LLM (require_quota)
    Questions,     \* server: questions to embed, one text each, unpaced
    Indexers,      \* server: background index runs, paced
    Scripts,       \* backfill processes, paced
    AnalysisCap,   \* settings.daily_analysis_cap
    EmbeddingCap,  \* settings.daily_embedding_cap
    BatchSize,     \* the most texts one embedding request carries
    Sizes,         \* the numbers of texts a filing to be indexed can have
    MaxAttempts,   \* MAX_QUOTA_RETRIES + 1
    LastDay,       \* bound: the days are 0 .. LastDay
    UsageBound,    \* bound: no call starts on a day whose counter reached it
    NoDay          \* None

Embedders == Questions \cup Indexers \cup Scripts
Server == Requests \cup Questions \cup Indexers
Procs == Requests \cup Embedders
Days == 0 .. LastDay

ASSUME QuotaAssumption ==
    /\ AnalysisCap \in Nat /\ EmbeddingCap \in Nat
    /\ BatchSize \in Nat \ {0} /\ MaxAttempts \in Nat \ {0}
    /\ Sizes \subseteq Nat \ {0}
    /\ LastDay \in Nat /\ UsageBound \in Nat /\ NoDay \notin Nat
    /\ Requests \cap Embedders = {} /\ IsFiniteSet(Embedders)

VARIABLES
    today,           \* the Pacific day, Google's clock
    dailyUsage,      \* daily_usage: day -> count
    embeddingUsage,  \* embedding_usage: day -> count
    memDay,          \* quota._day
    memCount,        \* quota._count
    pc,              \* where each caller is
    day,             \* the day its call read
    left,            \* embedders: texts still to embed
    attempt,         \* embedders: failed attempts of the batch at hand
    \* What the budgets are there to bound, by day:
    granted,         \* requests let through by the RPC
    fallback,        \* requests this server process let through on its own
    reserved,        \* texts a reservation was granted for
    sent             \* texts Gemini counted, by the day they reached it

store == <<dailyUsage, embeddingUsage>>
memory == <<memDay, memCount, fallback>>
vars == <<today, store, memory, pc, day, left, attempt, granted, reserved, sent>>

Zero == [d \in Days |-> 0]

\* An RPC's fate: answered, never reaching the database, or applied with the
\* answer lost.
RpcOutcomes == {"ok", "unreachable", "lost"}
Applied(o) == o # "unreachable"

Finish(p) ==
    /\ pc' = [pc EXCEPT ![p] = "idle"]
    /\ left' = [left EXCEPT ![p] = 0]
    /\ attempt' = [attempt EXCEPT ![p] = 0]
    /\ day' = [day EXCEPT ![p] = 0]

Midnight ==
    /\ today < LastDay
    /\ today' = today + 1
    /\ UNCHANGED <<store, memory, pc, day, left, attempt, granted, reserved, sent>>
-----------------------------------------------------------------------------
(* quota.try_consume. *)

Ask(r) ==
    /\ pc[r] = "idle"
    /\ dailyUsage[today] < UsageBound
    /\ pc' = [pc EXCEPT ![r] = "asking"]
    /\ day' = [day EXCEPT ![r] = today]
    /\ UNCHANGED <<today, store, memory, left, attempt, granted, reserved, sent>>

\* Mutant: the count is compared before it is incremented.
WithinCapBefore(count, cap) == count - 1 <= cap

\* RETURN new_count <= p_cap, from the incremented count.
WithinCap(count, cap) == count <= cap

\* increment_daily_usage: one statement increments and checks.
IncrementDaily(r) ==
    LET d     == day[r]
        count == dailyUsage[d] + 1
    IN
    /\ pc[r] = "asking"
    /\ \E o \in RpcOutcomes :
          /\ dailyUsage' = IF Applied(o) THEN [dailyUsage EXCEPT ![d] = count] ELSE dailyUsage
          /\ granted' = IF o = "ok" /\ WithinCap(count, AnalysisCap)
                        THEN [granted EXCEPT ![d] = @ + 1] ELSE granted
          /\ IF o = "ok" THEN Finish(r)
             ELSE pc' = [pc EXCEPT ![r] = "failed"] /\ UNCHANGED <<day, left, attempt>>
    /\ UNCHANGED <<today, embeddingUsage, memory, reserved, sent>>

\* _consume_in_memory: the counter starts again whenever the day it is asked
\* for is not the day it last counted.
ConsumeInMemory(r) ==
    LET d     == day[r]
        count == IF memDay = d THEN memCount ELSE 0
        fits  == count < AnalysisCap
    IN
    /\ pc[r] = "failed"
    /\ memDay' = d
    /\ memCount' = IF fits THEN count + 1 ELSE count
    /\ fallback' = IF fits THEN [fallback EXCEPT ![d] = @ + 1] ELSE fallback
    /\ Finish(r)
    /\ UNCHANGED <<today, store, granted, reserved, sent>>
-----------------------------------------------------------------------------
(* Embedding: reindex_filing's pre-flight, then _embed_batch for each batch *)
(* of a filing, or for the one text of a question.                          *)

Work(p, n, to) ==
    /\ pc[p] = "idle"
    /\ pc' = [pc EXCEPT ![p] = to]
    /\ left' = [left EXCEPT ![p] = n]
    /\ day' = [day EXCEPT ![p] = today]
    /\ UNCHANGED <<today, store, memory, attempt, granted, reserved, sent>>

AskQuestion(p) == p \in Questions /\ Work(p, 1, "batch")

\* The run POST /analysis schedules, and the scripts, go ahead unchecked.
IndexAnalysed(p, n) == p \in Indexers \cup Scripts /\ Work(p, n, "batch")

Reindex(p, n) == p \in Indexers /\ Work(p, n, "preflight")

\* embeddings_remaining; what cannot be read counts as nothing left.
Preflight(p) ==
    /\ pc[p] = "preflight"
    /\ \E readable \in BOOLEAN :
          IF readable /\ left[p] <= EmbeddingCap - embeddingUsage[day[p]]
          THEN pc' = [pc EXCEPT ![p] = "batch"] /\ UNCHANGED <<day, left, attempt>>
          ELSE Finish(p)
    /\ UNCHANGED <<today, store, memory, granted, reserved, sent>>

\* plan_batches, by the number of texts.
Batch(p) == IF left[p] <= BatchSize THEN left[p] ELSE BatchSize

TryReserve(p) ==
    /\ pc[p] = "batch"
    /\ embeddingUsage[today] < UsageBound
    /\ pc' = [pc EXCEPT ![p] = "reserving"]
    /\ day' = [day EXCEPT ![p] = today]
    /\ UNCHANGED <<today, store, memory, left, attempt, granted, reserved, sent>>

\* Mutant: an embedding whose RPC fails is let through.
ReserveFailsOpen(p) ==
    LET d     == day[p]
        count == embeddingUsage[d] + Batch(p)
    IN
    /\ pc[p] = "reserving"
    /\ \E o \in RpcOutcomes :
          /\ embeddingUsage' = IF Applied(o) THEN [embeddingUsage EXCEPT ![d] = count]
                               ELSE embeddingUsage
          /\ IF o # "ok" \/ WithinCap(count, EmbeddingCap)
             THEN /\ pc' = [pc EXCEPT ![p] = "reserved"]
                  /\ UNCHANGED <<day, left, attempt, reserved>>
             ELSE Finish(p) /\ UNCHANGED reserved
    /\ UNCHANGED <<today, dailyUsage, memory, granted, sent>>

\* increment_embedding_usage: a refused reservation counts too.  A refusal, by
\* the cap or by a failed RPC, raises EmbeddingRequestQuotaError, which ends the
\* question with a 503, or the run.
Reserve(p) ==
    LET d     == day[p]
        count == embeddingUsage[d] + Batch(p)
    IN
    /\ pc[p] = "reserving"
    /\ \E o \in RpcOutcomes :
          /\ embeddingUsage' = IF Applied(o) THEN [embeddingUsage EXCEPT ![d] = count]
                               ELSE embeddingUsage
          /\ IF o = "ok" /\ WithinCap(count, EmbeddingCap)
             THEN /\ pc' = [pc EXCEPT ![p] = "reserved"]
                  /\ reserved' = [reserved EXCEPT ![d] = @ + Batch(p)]
                  /\ UNCHANGED <<day, left, attempt>>
             ELSE Finish(p) /\ UNCHANGED reserved
    /\ UNCHANGED <<today, dailyUsage, memory, granted, sent>>

\* The batch is embedded, and the next one is reserved on its own.
Embedded(p) ==
    /\ pc[p] = "reserved"
    /\ sent' = [sent EXCEPT ![today] = @ + Batch(p)]
    /\ IF Batch(p) < left[p]
       THEN /\ pc' = [pc EXCEPT ![p] = "batch"]
            /\ left' = [left EXCEPT ![p] = @ - Batch(p)]
            /\ attempt' = [attempt EXCEPT ![p] = 0]
            /\ UNCHANGED day
       ELSE Finish(p)
    /\ UNCHANGED <<today, store, memory, granted, reserved>>

\* Mutant: a reply that cannot be used is retried under the same reservation.
EmbeddedUnusablyRetries(p) ==
    /\ pc[p] = "reserved"
    /\ attempt[p] < MaxAttempts
    /\ sent' = [sent EXCEPT ![today] = @ + Batch(p)]
    /\ attempt' = [attempt EXCEPT ![p] = @ + 1]
    /\ UNCHANGED <<today, store, memory, pc, day, left, granted, reserved>>

\* Gemini counts the batch, but its reply is lost or malformed: LLMError.
EmbeddedUnusably(p) ==
    /\ pc[p] = "reserved"
    /\ sent' = [sent EXCEPT ![today] = @ + Batch(p)]
    /\ Finish(p)
    /\ UNCHANGED <<today, store, memory, granted, reserved>>

\* A 429 for the token rate, or a 503, is slept over and retried under the same
\* reservation; questions are not paced and give up.  That Gemini counts
\* neither of the two is an assumption about Gemini.
RateLimited(p) ==
    /\ pc[p] = "reserved"
    /\ IF p \notin Questions /\ attempt[p] + 1 < MaxAttempts
       THEN attempt' = [attempt EXCEPT ![p] = @ + 1] /\ UNCHANGED <<pc, day, left>>
       ELSE Finish(p)
    /\ UNCHANGED <<today, store, memory, granted, reserved, sent>>

\* A refusal whose message is about the requests of a day ends the run at once
\* (EmbeddingRequestQuotaError), and so does an error that is no refusal
\* (LLMError).
Refused(p) ==
    /\ pc[p] = "reserved"
    /\ Finish(p)
    /\ UNCHANGED <<today, store, memory, granted, reserved, sent>>
-----------------------------------------------------------------------------
(* A process dies: the server, which is started again, or one script.       *)

Clear(S) ==
    /\ pc' = [p \in Procs |-> IF p \in S THEN "idle" ELSE pc[p]]
    /\ day' = [p \in Procs |-> IF p \in S THEN 0 ELSE day[p]]
    /\ left' = [p \in Procs |-> IF p \in S THEN 0 ELSE left[p]]
    /\ attempt' = [p \in Procs |-> IF p \in S THEN 0 ELSE attempt[p]]
    /\ UNCHANGED <<today, store, granted, reserved, sent>>

Restart ==
    /\ Clear(Server)
    /\ memDay' = NoDay /\ memCount' = 0 /\ fallback' = Zero

ScriptStops(s) == pc[s] # "idle" /\ Clear({s}) /\ UNCHANGED memory

Init ==
    /\ today = 0
    /\ dailyUsage = Zero /\ embeddingUsage = Zero
    /\ memDay = NoDay /\ memCount = 0
    /\ pc = [p \in Procs |-> "idle"]
    /\ day = [p \in Procs |-> 0]
    /\ left = [p \in Procs |-> 0]
    /\ attempt = [p \in Procs |-> 0]
    /\ granted = Zero /\ fallback = Zero /\ reserved = Zero /\ sent = Zero

RequestStep(r) == Ask(r) \/ IncrementDaily(r) \/ ConsumeInMemory(r)

EmbedderStep(p) ==
    \/ AskQuestion(p)
    \/ \E n \in Sizes : IndexAnalysed(p, n) \/ Reindex(p, n)
    \/ Preflight(p) \/ TryReserve(p) \/ Reserve(p)
    \/ Embedded(p) \/ EmbeddedUnusably(p) \/ RateLimited(p) \/ Refused(p)

Next ==
    \/ \E r \in Requests : RequestStep(r)
    \/ \E p \in Embedders : EmbedderStep(p)
    \/ \E s \in Scripts : ScriptStops(s)
    \/ Midnight
    \/ Restart

Spec == Init /\ [][Next]_vars
-----------------------------------------------------------------------------
(* Properties. *)

TypeOK ==
    /\ today \in Days
    /\ dailyUsage \in [Days -> Nat] /\ embeddingUsage \in [Days -> Nat]
    /\ memDay \in Days \cup {NoDay} /\ memCount \in Nat
    /\ pc \in [Procs -> {"idle", "asking", "failed", "preflight", "batch",
                         "reserving", "reserved"}]
    /\ day \in [Procs -> Days]
    /\ left \in [Procs -> Nat] /\ attempt \in [Procs -> Nat]
    /\ granted \in [Days -> Nat] /\ fallback \in [Days -> Nat]
    /\ reserved \in [Days -> Nat] /\ sent \in [Days -> Nat]

\* "Two concurrent requests can't both pass a cap read separately"
\* (database.py): however requests, lost answers and midnight interleave, the
\* RPC lets no more than the cap through on a day.
AnalysesCapped == \A d \in Days : granted[d] <= AnalysisCap

\* The same for the texts of all embedders, the scripts' included.
ReservationsCapped == \A d \in Days : reserved[d] <= EmbeddingCap

\* What Gemini counts on a day exceeds our cap by at most one batch of each
\* embedder, the one it had reserved before midnight: a cap that much under
\* Google's limit "is a budget we enforce rather than a ceiling we discover".
CeilingKept ==
    \A d \in Days : sent[d] <= EmbeddingCap + Cardinality(Embedders) * BatchSize

\* "The cap degrades to per-process for as long as the DB is unreachable": one
\* server process lets no more than the cap through on a day on its own.
FallbackCapped == \A d \in Days : fallback[d] <= AnalysisCap
=============================================================================
