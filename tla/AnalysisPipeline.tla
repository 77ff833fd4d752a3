-------------------------- MODULE AnalysisPipeline --------------------------
(***************************************************************************)
(* POST /api/analysis from the button to the stored row.  A browser        *)
(* (useAnalyze.ts) opens the request as a stream and, when the stream      *)
(* breaks off, asks once more without one; other clients get plain JSON.   *)
(* On the server both shapes run the same pipeline (run_analysis): for a   *)
(* stream in a task of its own, which feeds the generator that answers the *)
(* client through a queue and outlives it.  Pipelines of one filing may    *)
(* overlap; the UNIQUE accession_number decides which of them stores the   *)
(* analysis.                                                               *)
(***************************************************************************)
EXTENDS Integers, Sequences, FiniteSets, Functions

CONSTANTS
    Filings,      \* accession numbers
    Browsers,     \* users of the site, each analysing one filing once
    Others,       \* other clients of the API
    MaxRestarts,  \* bound: how often the server may be restarted
    None

Users == Browsers \cup Others

\* A user's requests: the stream, and the one without, a browser's retry.
Requests == Users \X {"stream", "json"}
Stream(u) == <<u, "stream">>
Json(u) == <<u, "json">>

\* run_analysis's stages, in the order it announces them.
Stages == <<"cache_check", "fetching_filing", "extracting", "storing">>
Terminal == {"result", "error"}

ASSUME PipelineAssumption ==
    MaxRestarts \in Nat /\ None \notin Requests \cup Filings \cup Range(Stages)

VARIABLES
    row,       \* analyses: filing -> the request whose analysis is stored
    pc,        \* where each pipeline is
    paid,      \* whether it spent a unit of the daily budget
    answer,    \* whose row it returns
    run,       \* the background run it adds to its response
    queue,     \* a stream's frames not yet sent
    response,  \* a stream's response: "none", "open" or "ended"
    last,      \* the stage the user's browser was last told of
    ui,        \* what the user sees
    target,    \* the filing the user analyses
    restarts

server == <<pc, paid, answer, run, queue, response>>
client == <<last, ui, target>>
vars == <<row, server, client, restarts>>

Working == {"cache_check", "fetching_filing", "quota", "extracting", "storing", "stored"}

Filing(r) == target[r[1]]

\* on_stage puts a frame; a request without a stream has no queue, and nobody
\* reads the queue of a response that has ended.
Put(r, item) ==
    queue' = IF r[2] = "stream" /\ response[r[1]] # "ended"
             THEN [queue EXCEPT ![r[1]] = Append(@, item)] ELSE queue

Read(u, stage) == last' = [last EXCEPT ![u] = stage]

\* The pipeline announces a stage and goes on.
Enter(r, stage) ==
    /\ pc' = [pc EXCEPT ![r] = stage]
    /\ Put(r, stage)

\* Mutant: a failure puts no frame.
FailSilently(r) ==
    /\ pc' = [pc EXCEPT ![r] = "failed"]
    /\ UNCHANGED queue

\* An HTTPException, or any other: an error status, or one error frame.
Fail(r) ==
    /\ pc' = [pc EXCEPT ![r] = "failed"]
    /\ Put(r, "error")
-----------------------------------------------------------------------------
(* run_analysis. *)

Open(r) ==
    /\ pc[r] = "idle"
    /\ Enter(r, "cache_check")
    /\ UNCHANGED <<row, paid, answer, run>>

\* get_by_accession: a stored analysis is the answer, whatever it cost.
CacheCheck(r) ==
    /\ pc[r] = "cache_check"
    /\ \/ /\ row[Filing(r)] # None
          /\ pc' = [pc EXCEPT ![r] = "done"]
          /\ answer' = [answer EXCEPT ![r] = row[Filing(r)]]
          /\ Put(r, "result")
       \/ /\ row[Filing(r)] = None
          /\ Enter(r, "fetching_filing")
          /\ UNCHANGED answer
       \/ Fail(r) /\ UNCHANGED answer
    /\ UNCHANGED <<row, paid, run, response, client, restarts>>

\* EDGAR answers with a filing, or with none or an empty one (502, 422).
Fetch(r) ==
    /\ pc[r] = "fetching_filing"
    /\ \/ pc' = [pc EXCEPT ![r] = "quota"] /\ UNCHANGED queue
       \/ Fail(r)
    /\ UNCHANGED <<row, paid, answer, run, response, client, restarts>>

\* require_quota: a unit, or 503.
Pay(r) ==
    /\ pc[r] = "quota"
    /\ \/ Enter(r, "extracting") /\ paid' = [paid EXCEPT ![r] = TRUE]
       \/ Fail(r) /\ UNCHANGED paid
    /\ UNCHANGED <<row, answer, run, response, client, restarts>>

\* analyze_filing, then the profile, which is swallowed when it fails.
Extract(r) ==
    /\ pc[r] = "extracting"
    /\ Enter(r, "storing") \/ Fail(r)
    /\ UNCHANGED <<row, paid, answer, run, response, client, restarts>>

\* Mutant: the row is written over the one already there.
InsertOverwrites(r) ==
    /\ pc[r] = "storing"
    /\ \E applied, acked \in BOOLEAN :
          /\ row' = IF applied THEN [row EXCEPT ![Filing(r)] = r] ELSE row
          /\ IF applied /\ acked
             THEN /\ pc' = [pc EXCEPT ![r] = "stored"]
                  /\ answer' = [answer EXCEPT ![r] = r]
                  /\ UNCHANGED queue
             ELSE Fail(r) /\ UNCHANGED answer
    /\ UNCHANGED <<paid, run, response, client, restarts>>

\* Mutant: a failed store is reported, and the pipeline goes on.
InsertGoesOn(r) ==
    LET kept == IF row[Filing(r)] = None THEN r ELSE row[Filing(r)] IN
    /\ pc[r] = "storing"
    /\ pc' = [pc EXCEPT ![r] = "stored"]
    /\ \/ /\ row' = [row EXCEPT ![Filing(r)] = kept]
          /\ answer' = [answer EXCEPT ![r] = kept]
          /\ UNCHANGED queue
       \/ Put(r, "error") /\ UNCHANGED <<row, answer>>
    /\ UNCHANGED <<paid, run, response, client, restarts>>

\* create_analysis: the first insert of a filing is stored, and a later one is
\* answered with it.  The database may fail before or after applying it (500).
Insert(r) ==
    LET kept == IF row[Filing(r)] = None THEN r ELSE row[Filing(r)] IN
    /\ pc[r] = "storing"
    /\ \E applied, acked \in BOOLEAN :
          /\ row' = IF applied THEN [row EXCEPT ![Filing(r)] = kept] ELSE row
          /\ IF applied /\ acked
             THEN /\ pc' = [pc EXCEPT ![r] = "stored"]
                  /\ answer' = [answer EXCEPT ![r] = kept]
                  /\ UNCHANGED queue
             ELSE Fail(r) /\ UNCHANGED answer
    /\ UNCHANGED <<paid, run, response, client, restarts>>

\* Mutant: the result is announced before its index run is added.
CompleteForgetsRun(r) ==
    /\ pc[r] = "stored"
    /\ pc' = [pc EXCEPT ![r] = "done"]
    /\ Put(r, "result")
    /\ UNCHANGED <<row, paid, answer, run, response, client, restarts>>

\* mark_scheduled, add_task and the answer, with no suspension between them.  A
\* response that has ended already runs no more tasks.
Complete(r) ==
    /\ pc[r] = "stored"
    /\ pc' = [pc EXCEPT ![r] = "done"]
    /\ run' = [run EXCEPT ![r] =
                  IF r[2] = "stream" /\ response[r[1]] = "ended" THEN "lost" ELSE "added"]
    /\ Put(r, "result")
    /\ UNCHANGED <<row, paid, answer, response, client, restarts>>
-----------------------------------------------------------------------------
(* stream_analysis's generator, its response, and the browser's reader. *)

\* What is added to a response runs when the response ends.
StartRun(r) == run' = [run EXCEPT ![r] = IF @ = "added" THEN "started" ELSE @]

\* One frame is sent; a terminal one ends the response.
Yield(u) ==
    LET item == Head(queue[u]) IN
    /\ response[u] = "open" /\ queue[u] # << >>
    /\ queue' = [queue EXCEPT ![u] = Tail(@)]
    /\ IF item \in Terminal
       THEN response' = [response EXCEPT ![u] = "ended"] /\ StartRun(Stream(u))
       ELSE UNCHANGED <<response, run>>
    /\ IF ui[u] # "streaming" THEN UNCHANGED <<last, ui>>
       ELSE IF item \in Terminal
       THEN ui' = [ui EXCEPT ![u] = IF item = "result" THEN "shown" ELSE "error"] /\ Read(u, None)
       ELSE Read(u, item) /\ UNCHANGED ui
    /\ UNCHANGED <<row, pc, paid, answer, target, restarts>>

\* Mutant: the producer is cancelled with the response.
ResponseEndsCancels(u) ==
    /\ response[u] = "open" /\ ui[u] # "streaming"
    /\ response' = [response EXCEPT ![u] = "ended"]
    /\ StartRun(Stream(u))
    /\ pc' = [pc EXCEPT ![Stream(u)] = IF @ \in Working THEN "dead" ELSE @]
    /\ queue' = [queue EXCEPT ![u] = << >>]
    /\ UNCHANGED <<row, paid, answer, client, restarts>>

\* The server notices that the client is gone.  It may also never do so.
ResponseEnds(u) ==
    /\ response[u] = "open" /\ ui[u] # "streaming"
    /\ response' = [response EXCEPT ![u] = "ended"]
    /\ StartRun(Stream(u))
    /\ queue' = [queue EXCEPT ![u] = << >>]
    /\ UNCHANGED <<row, pc, paid, answer, client, restarts>>

\* The response without a stream: its status is the answer.
Respond(u) ==
    /\ pc[Json(u)] \in {"done", "failed"} /\ ui[u] = "waiting"
    /\ ui' = [ui EXCEPT ![u] = IF pc[Json(u)] = "done" THEN "shown" ELSE "error"]
    /\ StartRun(Json(u))
    /\ UNCHANGED <<row, pc, paid, answer, queue, response, last, target, restarts>>

\* The same for a client that is gone: the handler runs on, and its tasks run.
RespondToNobody(u) ==
    /\ pc[Json(u)] = "done" /\ run[Json(u)] = "added" /\ ui[u] # "waiting"
    /\ StartRun(Json(u))
    /\ UNCHANGED <<row, pc, paid, answer, queue, response, client, restarts>>
-----------------------------------------------------------------------------
(* useAnalyze. *)

Analyze(u, f) ==
    /\ u \in Browsers /\ ui[u] = "ready"
    /\ ui' = [ui EXCEPT ![u] = "streaming"]
    /\ target' = [target EXCEPT ![u] = f]
    /\ response' = [response EXCEPT ![u] = "open"]
    /\ Open(Stream(u))
    /\ UNCHANGED <<last, restarts>>

AskPlain(u, f) ==
    /\ u \in Others /\ ui[u] = "ready"
    /\ ui' = [ui EXCEPT ![u] = "waiting"]
    /\ target' = [target EXCEPT ![u] = f]
    /\ Open(Json(u))
    /\ UNCHANGED <<response, last, restarts>>

\* The stream breaks off (status 0): the one retry is sent at once.
Break(u) ==
    /\ ui[u] = "streaming"
    /\ ui' = [ui EXCEPT ![u] = "waiting"]
    /\ Read(u, None)
    /\ UNCHANGED <<response, target, restarts>>
    /\ Open(Json(u))

\* The retry breaks off too, or the page is left.
Leave(u) ==
    /\ ui[u] \in {"streaming", "waiting"}
    /\ ui' = [ui EXCEPT ![u] = "left"]
    /\ Read(u, None)
    /\ UNCHANGED <<row, server, target, restarts>>
-----------------------------------------------------------------------------
\* The server dies with every pipeline, response and background run, and is
\* started again.
Restart ==
    /\ restarts < MaxRestarts
    /\ restarts' = restarts + 1
    /\ pc' = [r \in Requests |-> IF pc[r] \in Working THEN "dead" ELSE pc[r]]
    /\ run' = [r \in Requests |-> IF run[r] \in {"added", "started"} THEN "lost" ELSE run[r]]
    /\ response' = [u \in Users |-> IF response[u] = "open" THEN "ended" ELSE response[u]]
    /\ queue' = [u \in Users |-> << >>]
    /\ UNCHANGED <<row, paid, answer, client>>

\* A browser whose connection the restart cut.
CutOff(u) ==
    \/ /\ ui[u] = "streaming" /\ response[u] = "ended"
       /\ ui' = [ui EXCEPT ![u] = "waiting"]
       /\ Read(u, None)
       /\ UNCHANGED <<response, target, restarts>>
       /\ Open(Json(u))
    \/ /\ ui[u] = "waiting" /\ pc[Json(u)] = "dead"
       /\ ui' = [ui EXCEPT ![u] = "error"]
       /\ UNCHANGED <<row, server, last, target, restarts>>

Init ==
    /\ row = [f \in Filings |-> None]
    /\ pc = [r \in Requests |-> "idle"]
    /\ paid = [r \in Requests |-> FALSE]
    /\ answer = [r \in Requests |-> None]
    /\ run = [r \in Requests |-> "none"]
    /\ queue = [u \in Users |-> << >>]
    /\ response = [u \in Users |-> "none"]
    /\ last = [u \in Users |-> None]
    /\ ui = [u \in Users |-> "ready"]
    /\ target = [u \in Users |-> None]
    /\ restarts = 0

Pipeline(r) ==
    CacheCheck(r) \/ Fetch(r) \/ Pay(r) \/ Extract(r) \/ Insert(r) \/ Complete(r)

\* What the server does on its own to answer u.
Serve(u) == Yield(u) \/ Respond(u) \/ RespondToNobody(u)

Next ==
    \/ \E r \in Requests : Pipeline(r)
    \/ \E u \in Users : Serve(u) \/ ResponseEnds(u) \/ Break(u) \/ Leave(u) \/ CutOff(u)
    \/ \E u \in Users, f \in Filings : Analyze(u, f) \/ AskPlain(u, f)
    \/ Restart

Spec == Init /\ [][Next]_vars

\* The event loop runs every pipeline and answers every open response; EDGAR,
\* Gemini and Postgres answer or time out; a browser notices a cut connection.
FairSpec ==
    /\ Spec
    /\ \A r \in Requests : WF_vars(Pipeline(r))
    /\ \A u \in Users : WF_vars(Serve(u)) /\ WF_vars(CutOff(u))
-----------------------------------------------------------------------------
(* Properties. *)

TypeOK ==
    /\ row \in [Filings -> Requests \cup {None}]
    /\ pc \in [Requests -> Working \cup {"idle", "done", "failed", "dead"}]
    /\ paid \in [Requests -> BOOLEAN]
    /\ answer \in [Requests -> Requests \cup {None}]
    /\ run \in [Requests -> {"none", "added", "started", "lost"}]
    /\ queue \in [Users -> Seq(Range(Stages) \cup Terminal)]
    /\ response \in [Users -> {"none", "open", "ended"}]
    /\ last \in [Users -> Range(Stages) \cup {None}]
    /\ ui \in [Users -> {"ready", "streaming", "waiting", "shown", "error", "left"}]
    /\ target \in [Users -> Filings \cup {None}]
    /\ restarts \in 0 .. MaxRestarts

\* The request whose answer a user was shown.
Shown(u) == IF pc[Json(u)] = "done" THEN Json(u) ELSE Stream(u)

\* "accession_number is UNIQUE -- one analysis per filing, ever": whoever asked
\* first, and however their pipelines overlapped, everyone is shown the stored
\* analysis of the filing they asked for.
OneAnalysis ==
    \A r \in Requests : answer[r] # None => answer[r] = row[Filing(r)]

\* "stage frames while the pipeline runs, then exactly one result or error": what
\* a browser reads is the stages in order, and a terminal frame only at the end.
FramesInOrder ==
    \A u \in Users : ui[u] = "streaming" =>
        LET frames == IF last[u] = None THEN queue[u] ELSE <<last[u]>> \o queue[u] IN
        /\ last[u] = None /\ frames # << >> => frames[1] = Stages[1]
        /\ \A i \in 1 .. Len(frames) - 1 : \E k \in 1 .. Len(Stages) :
              /\ frames[i] = Stages[k]
              /\ frames[i + 1] \in Terminal \cup (IF k < Len(Stages) THEN {Stages[k + 1]} ELSE {})

\* What the pipeline that stored a row did about its index run: it is about to
\* add it, or has.  It has not if its insert was applied but reported as failed,
\* or if its client had left the stream before it was done.
Accounted(o) ==
    \/ pc[o] = "stored"
    \/ pc[o] = "done" /\ run[o] \in {"added", "started"}
    \/ pc[o] = "failed"
    \/ pc[o] = "done" /\ run[o] = "lost" /\ o[2] = "stream" /\ ui[o[1]] # "streaming"

\* A user who is shown an analysis that was paid for by the request that shows it
\* finds the index run of the filing started.  One who is shown a stored row finds
\* the run of the request that stored it started or about to be: the two ways of
\* Accounted in which it is not, and a restart, are all there are.
ShownIsIndexed ==
    \A u \in Users : ui[u] = "shown" /\ restarts = 0 =>
        IF paid[Shown(u)] THEN run[Shown(u)] = "started"
        ELSE answer[Shown(u)] \in Requests /\ Accounted(answer[Shown(u)])

\* "The daily quota unit is already spent by then, so letting the store finish":
\* a paid-for pipeline ends in a stored row, its own or another's, or in an error
\* of Gemini or Postgres, whatever its client does.  Only a restart loses it.
PaidForIsStored ==
    \A r \in Requests, f \in Filings :
        paid[r] /\ Filing(r) = f ~> row[f] # None \/ pc[r] = "failed" \/ restarts > 0

\* No user waits for an analysis for ever: "the backend always closes with result
\* or error" (api.ts), or the connection breaks and the one retry is answered.
EveryoneIsAnswered ==
    \A u \in Users : ui[u] = "streaming" ~> ui[u] \in {"shown", "error", "left"}

\* "letting the store finish is what makes the user's retry a cache hit": one
\* click spends one unit.
RetryIsCacheHit == \A u \in Users : ~ (paid[Stream(u)] /\ paid[Json(u)])
=============================================================================
