----------------------- MODULE AnalysisPipelineProofs -----------------------
(***************************************************************************)
(* Theorems about AnalysisPipeline, for any filings, any numbers of users  *)
(* and any number of restarts.                                             *)
(***************************************************************************)
EXTENDS AnalysisPipeline, TLAPS

Items == Range(Stages) \cup Terminal

LEMMA ItemsAre == Items = {"cache_check", "fetching_filing", "extracting", "storing",
                           "result", "error"}
<1>1. DOMAIN Stages = {1, 2, 3, 4}  BY DEF Stages
<1>2. Range(Stages) = {Stages[1], Stages[2], Stages[3], Stages[4]}
  BY <1>1 DEF Range
<1>3. QED  BY <1>2 DEF Items, Terminal, Stages

LEMMA RequestOf ==
  ASSUME NEW u \in Users
  PROVE  /\ Stream(u) \in Requests /\ Json(u) \in Requests
         /\ Stream(u)[1] = u /\ Json(u)[1] = u
         /\ \A r \in Requests : r[1] = u => r = Stream(u) \/ r = Json(u)
BY DEF Stream, Json, Requests

\* What a pipeline puts keeps the queues queues.
LEMMA PutType ==
  ASSUME queue \in [Users -> Seq(Items)], NEW r \in Requests, NEW item \in Items, Put(r, item)
  PROVE  queue' \in [Users -> Seq(Items)]
<1>1. r[1] \in Users  BY DEF Requests
<1>2. Append(queue[r[1]], item) \in Seq(Items)  BY <1>1
<1>3. QED  BY <1>1, <1>2 DEF Put

Pcs == Working \cup {"idle", "done", "failed", "dead"}

LEMMA StepType ==
  ASSUME TypeOK, NEW r \in Requests
  PROVE  /\ \A stage \in Pcs \cap Items : Enter(r, stage) =>
               queue' \in [Users -> Seq(Items)] /\ pc' \in [Requests -> Pcs]
         /\ Fail(r) => queue' \in [Users -> Seq(Items)] /\ pc' \in [Requests -> Pcs]
<1>1. queue \in [Users -> Seq(Items)] /\ pc \in [Requests -> Pcs]
  BY DEF TypeOK, Items, Pcs
<1>2. ASSUME NEW stage \in Pcs \cap Items, Enter(r, stage)
      PROVE  queue' \in [Users -> Seq(Items)] /\ pc' \in [Requests -> Pcs]
  BY <1>1, <1>2, PutType DEF Enter
<1>3. ASSUME Fail(r)
      PROVE  queue' \in [Users -> Seq(Items)] /\ pc' \in [Requests -> Pcs]
  <2>1. "error" \in Items  BY ItemsAre
  <2>2. QED  BY <1>1, <1>3, <2>1, PutType DEF Fail, Pcs
<1>4. QED  BY <1>2, <1>3

-----------------------------------------------------------------------------
(* Types.  A pipeline runs for a user who has named a filing. *)

Started ==
    \A u \in Users :
        IF ui[u] = "ready"
        THEN \A r \in Requests : r[1] = u => pc[r] = "idle" /\ answer[r] = None
        ELSE target[u] \in Filings

LEMMA StartedInit == Init => TypeOK /\ Started
BY PipelineAssumption DEF Init, TypeOK, Started

LEMMA TypeNext == TypeOK /\ Started /\ [Next]_vars => TypeOK'
<1> SUFFICES ASSUME TypeOK, Started, [Next]_vars PROVE TypeOK'  OBVIOUS
<1>q. queue \in [Users -> Seq(Items)] /\ pc \in [Requests -> Pcs]
  BY DEF TypeOK, Items, Pcs
<1>t. /\ queue' \in [Users -> Seq(Items)] /\ pc' \in [Requests -> Pcs]
      /\ row' \in [Filings -> Requests \cup {None}]
      /\ paid' \in [Requests -> BOOLEAN]
      /\ answer' \in [Requests -> Requests \cup {None}]
      /\ run' \in [Requests -> {"none", "added", "started", "lost"}]
      /\ response' \in [Users -> {"none", "open", "ended"}]
      /\ last' \in [Users -> Range(Stages) \cup {None}]
      /\ ui' \in [Users -> {"ready", "streaming", "waiting", "shown", "error", "left"}]
      /\ target' \in [Users -> Filings \cup {None}]
      /\ restarts' \in 0 .. MaxRestarts
      => TypeOK'
  BY DEF TypeOK, Items, Pcs
<1>p. /\ {"cache_check", "fetching_filing", "extracting", "storing"} \subseteq Pcs \cap Items
      /\ {"result", "error"} \subseteq Items
  BY ItemsAre DEF Pcs, Working
<1>1. ASSUME NEW r \in Requests, Pipeline(r) PROVE TypeOK'
  <2>0. /\ r[1] \in Users
        /\ pc[r] # "idle" => Filing(r) \in Filings /\ row[Filing(r)] \in Requests \cup {None}
    BY DEF TypeOK, Started, Filing, Requests
  <2>1. CASE CacheCheck(r)
    <3>1. queue' \in [Users -> Seq(Items)] /\ pc' \in [Requests -> Pcs]
      BY <1>q, <1>p, <2>1, StepType, PutType DEF CacheCheck, Pcs
    <3>2. answer' \in [Requests -> Requests \cup {None}]
      BY <2>0, <2>1 DEF CacheCheck, TypeOK
    <3>3. QED  BY <1>t, <2>1, <3>1, <3>2 DEF CacheCheck, TypeOK, client
  <2>2. CASE Fetch(r)
    <3>1. queue' \in [Users -> Seq(Items)] /\ pc' \in [Requests -> Pcs]
      BY <1>q, <2>2, StepType DEF Fetch, Pcs, Working
    <3>2. QED  BY <1>t, <2>2, <3>1 DEF Fetch, TypeOK, client
  <2>3. CASE Pay(r)
    <3>1. queue' \in [Users -> Seq(Items)] /\ pc' \in [Requests -> Pcs]
      BY <1>p, <2>3, StepType DEF Pay
    <3>2. QED  BY <1>t, <2>3, <3>1 DEF Pay, TypeOK, client
  <2>4. CASE Extract(r)
    <3>1. queue' \in [Users -> Seq(Items)] /\ pc' \in [Requests -> Pcs]
      BY <1>p, <2>4, StepType DEF Extract
    <3>2. QED  BY <1>t, <2>4, <3>1 DEF Extract, TypeOK, client
  <2>5. CASE Insert(r)
    <3>1. queue' \in [Users -> Seq(Items)] /\ pc' \in [Requests -> Pcs]
      BY <1>q, <2>5, StepType DEF Insert, Pcs, Working
    <3>2. /\ row' \in [Filings -> Requests \cup {None}]
          /\ answer' \in [Requests -> Requests \cup {None}]
      BY <2>0, <2>5 DEF Insert, TypeOK
    <3>3. QED  BY <1>t, <2>5, <3>1, <3>2 DEF Insert, TypeOK, client
  <2>6. CASE Complete(r)
    <3>1. queue' \in [Users -> Seq(Items)] /\ pc' \in [Requests -> Pcs]
      BY <1>q, <1>p, <2>6, PutType DEF Complete, Pcs
    <3>2. run' \in [Requests -> {"none", "added", "started", "lost"}]
      BY <2>6 DEF Complete, TypeOK
    <3>3. QED  BY <1>t, <2>6, <3>1, <3>2 DEF Complete, TypeOK, client
  <2>7. QED  BY <1>1, <2>1, <2>2, <2>3, <2>4, <2>5, <2>6 DEF Pipeline
<1>r. ASSUME NEW r \in Requests, StartRun(r)
      PROVE  run' \in [Requests -> {"none", "added", "started", "lost"}]
  BY <1>r DEF StartRun, TypeOK
<1>o. ASSUME NEW r \in Requests, Open(r)
      PROVE  /\ queue' \in [Users -> Seq(Items)] /\ pc' \in [Requests -> Pcs]
             /\ UNCHANGED <<row, paid, answer, run>>
  BY <1>o, <1>p, StepType DEF Open
<1>2. ASSUME NEW u \in Users, Serve(u) PROVE TypeOK'
  <2>1. CASE Yield(u)
    <3> DEFINE item == Head(queue[u])
    <3>1. /\ queue[u] \in Seq(Items) /\ queue[u] # << >>
          /\ item \in Items /\ Tail(queue[u]) \in Seq(Items)
      BY <1>q, <2>1 DEF Yield
    <3>2. queue' \in [Users -> Seq(Items)]
      BY <1>q, <2>1, <3>1 DEF Yield
    <3>3. /\ response' \in [Users -> {"none", "open", "ended"}]
          /\ run' \in [Requests -> {"none", "added", "started", "lost"}]
      BY <1>r, <2>1, RequestOf DEF Yield, TypeOK
    <3>4. item \in Terminal \/ item \in Range(Stages)
      BY <3>1 DEF Items
    <3>5. /\ last' \in [Users -> Range(Stages) \cup {None}]
          /\ ui' \in [Users -> {"ready", "streaming", "waiting", "shown", "error", "left"}]
      BY <2>1, <3>4 DEF Yield, Read, TypeOK
    <3>6. QED  BY <1>t, <1>q, <2>1, <3>2, <3>3, <3>5 DEF Yield, TypeOK
  <2>2. CASE Respond(u)
    BY <1>t, <1>q, <1>r, <2>2, RequestOf DEF Respond, TypeOK
  <2>3. CASE RespondToNobody(u)
    BY <1>t, <1>q, <1>r, <2>3, RequestOf DEF RespondToNobody, TypeOK, client
  <2>4. QED  BY <1>2, <2>1, <2>2, <2>3 DEF Serve
<1>3. ASSUME NEW u \in Users, ResponseEnds(u) \/ Break(u) \/ Leave(u) \/ CutOff(u)
      PROVE  TypeOK'
  <2>1. CASE ResponseEnds(u)
    <3>1. queue' \in [Users -> Seq(Items)]
      BY <1>q, <2>1 DEF ResponseEnds
    <3>2. QED
      BY <1>t, <1>q, <1>r, <2>1, <3>1, RequestOf DEF ResponseEnds, TypeOK, client
  <2>2. CASE Break(u)
    BY <1>t, <1>o, <2>2, RequestOf DEF Break, Read, TypeOK
  <2>3. CASE Leave(u)
    BY <1>t, <1>q, <2>3 DEF Leave, Read, TypeOK, server
  <2>4. CASE CutOff(u)
    BY <1>t, <1>q, <1>o, <2>4, RequestOf DEF CutOff, Read, TypeOK, server
  <2>5. QED  BY <1>3, <2>1, <2>2, <2>3, <2>4
<1>4. ASSUME NEW u \in Users, NEW f \in Filings, Analyze(u, f) \/ AskPlain(u, f)
      PROVE  TypeOK'
  <2>1. CASE Analyze(u, f)
    BY <1>t, <1>o, <2>1, RequestOf DEF Analyze, TypeOK
  <2>2. CASE AskPlain(u, f)
    BY <1>t, <1>o, <2>2, RequestOf DEF AskPlain, TypeOK
  <2>3. QED  BY <1>4, <2>1, <2>2
<1>5. CASE Restart
  <2>1. pc' \in [Requests -> Pcs]
    BY <1>q, <1>5 DEF Restart, Pcs
  <2>2. queue' \in [Users -> Seq(Items)]
    BY <1>5 DEF Restart
  <2>3. /\ run' \in [Requests -> {"none", "added", "started", "lost"}]
        /\ response' \in [Users -> {"none", "open", "ended"}]
    BY <1>5 DEF Restart, TypeOK
  <2>4. restarts' \in 0 .. MaxRestarts
    BY <1>5, PipelineAssumption DEF Restart, TypeOK
  <2>5. QED  BY <1>t, <1>5, <2>1, <2>2, <2>3, <2>4 DEF Restart, TypeOK, client
<1>6. CASE UNCHANGED vars
  BY <1>t, <1>q, <1>6 DEF vars, server, client, TypeOK
<1>7. QED  BY <1>1, <1>2, <1>3, <1>4, <1>5, <1>6 DEF Next
LEMMA StartedNext == TypeOK /\ Started /\ [Next]_vars => Started'
<1> SUFFICES ASSUME TypeOK, Started, [Next]_vars PROVE Started'  OBVIOUS
<1> USE DEF Started
<1>1. ASSUME NEW r \in Requests, Pipeline(r) PROVE Started'
  <2>1. /\ pc[r] # "idle" /\ UNCHANGED <<ui, target>>
        /\ \A q \in Requests : q # r => pc'[q] = pc[q] /\ answer'[q] = answer[q]
    BY <1>1 DEF Pipeline, CacheCheck, Fetch, Pay, Extract, Insert, Complete, Enter, Fail,
                TypeOK, client
  <2>2. QED  BY <2>1
<1>2. ASSUME NEW u \in Users, Serve(u) \/ ResponseEnds(u) PROVE Started'
  <2>1. /\ UNCHANGED <<pc, answer, target>>
        /\ \A v \in Users : ui'[v] = "ready" <=> ui[v] = "ready"
    BY <1>2 DEF Serve, Yield, Respond, RespondToNobody, ResponseEnds, Read, TypeOK, client
  <2>2. QED  BY <2>1
<1>3. ASSUME NEW u \in Users, Break(u) \/ Leave(u) \/ CutOff(u) PROVE Started'
  <2>1. /\ ui[u] # "ready" /\ UNCHANGED <<answer, target>>
        /\ \A q \in Requests : q[1] # u => pc'[q] = pc[q]
        /\ \A v \in Users : ui'[v] = "ready" <=> ui[v] = "ready"
    BY <1>3, RequestOf DEF Break, Leave, CutOff, Open, Enter, TypeOK, server
  <2>2. QED  BY <2>1
<1>4. ASSUME NEW u \in Users, NEW f \in Filings, Analyze(u, f) \/ AskPlain(u, f)
      PROVE  Started'
  <2>1. /\ UNCHANGED answer
        /\ target' = [target EXCEPT ![u] = f]
        /\ ui'[u] # "ready" /\ \A v \in Users \ {u} : ui'[v] = ui[v]
        /\ \A q \in Requests : q[1] # u => pc'[q] = pc[q]
    BY <1>4, RequestOf DEF Analyze, AskPlain, Open, Enter, TypeOK
  <2>2. QED  BY <2>1 DEF TypeOK
<1>5. CASE Restart
  BY <1>5 DEF Restart, Working, client, TypeOK
<1>6. CASE UNCHANGED vars
  BY <1>6 DEF vars, server, client
<1>7. QED  BY <1>1, <1>2, <1>3, <1>4, <1>5, <1>6 DEF Next

\* Type correctness: in particular, nothing but stages and terminal frames is
\* ever in the queue of a stream.
THEOREM PipelineTypeCorrect == Spec => []TypeOK
<1>1. TypeOK /\ Started /\ [Next]_vars => TypeOK' /\ Started'
  BY TypeNext, StartedNext
<1>2. QED  BY <1>1, StartedInit, PTL DEF Spec
-----------------------------------------------------------------------------
(* One analysis per filing.  The invariant is inductive with Started: an    *)
(* answer is taken from the row when it is read or inserted, and the row of *)
(* a filing is written once.                                                *)

LEMMA OneAnalysisNext ==
  TypeOK /\ Started /\ OneAnalysis /\ [Next]_vars => OneAnalysis'
<1> SUFFICES ASSUME TypeOK, Started, OneAnalysis, [Next]_vars PROVE OneAnalysis'
  OBVIOUS
<1> USE DEF OneAnalysis
<1>0. ASSUME UNCHANGED <<row, answer, target>> PROVE OneAnalysis'
  BY <1>0 DEF Filing
<1>1. ASSUME NEW r \in Requests, Pipeline(r) PROVE OneAnalysis'
  <2>1. CASE CacheCheck(r)
    BY <1>0, <2>1 DEF CacheCheck, client, Filing, TypeOK
  <2>2. CASE Insert(r)
    <3> DEFINE f == Filing(r)
               kept == IF row[f] = None THEN r ELSE row[f]
    <3>1. f \in Filings /\ UNCHANGED target /\ kept # None
      BY <2>2, PipelineAssumption DEF Insert, client, Started, Filing, Requests
    <3>2. /\ row' = row \/ row' = [row EXCEPT ![f] = kept]
          /\ answer' = answer \/ /\ row' = [row EXCEPT ![f] = kept]
                                 /\ answer' = [answer EXCEPT ![r] = kept]
      BY <2>2 DEF Insert
    <3>3. ASSUME NEW q \in Requests, answer'[q] # None
          PROVE  answer'[q] = row'[Filing(q)]
      <4>1. row'[f] = kept \/ row' = row
        BY <3>1, <3>2 DEF TypeOK
      <4>2. CASE answer'[q] = answer[q]
        <5>1. answer[q] = row[Filing(q)] /\ row[Filing(q)] # None
          BY <3>3, <4>2
        <5>2. Filing(q) \in Filings
          BY <3>3, <4>2 DEF Started, Filing, Requests
        <5>3. QED  BY <3>1, <3>2, <4>2, <5>1, <5>2 DEF TypeOK
      <4>3. CASE answer'[q] # answer[q]
        BY <3>1, <3>2, <4>3 DEF TypeOK
      <4>4. QED  BY <4>2, <4>3
    <3>4. QED  BY <3>1, <3>3 DEF Filing
  <2>3. CASE Fetch(r) \/ Pay(r) \/ Extract(r) \/ Complete(r)
    BY <1>0, <2>3 DEF Fetch, Pay, Extract, Complete, client
  <2>4. QED  BY <1>1, <2>1, <2>2, <2>3 DEF Pipeline
<1>2. ASSUME NEW u \in Users,
             Serve(u) \/ ResponseEnds(u) \/ Break(u) \/ Leave(u) \/ CutOff(u)
      PROVE  OneAnalysis'
  BY <1>0, <1>2 DEF Serve, Yield, Respond, RespondToNobody, ResponseEnds, Break, Leave,
                    CutOff, Open, Read, client, server
<1>3. ASSUME NEW u \in Users, NEW f \in Filings, Analyze(u, f) \/ AskPlain(u, f)
      PROVE  OneAnalysis'
  <2>1. /\ UNCHANGED <<row, answer>> /\ target' = [target EXCEPT ![u] = f]
        /\ \A q \in Requests : q[1] = u => answer[q] = None
    BY <1>3 DEF Analyze, AskPlain, Open, Started
  <2>2. QED  BY <2>1 DEF Filing, TypeOK
<1>4. CASE Restart
  BY <1>0, <1>4 DEF Restart, client
<1>5. CASE UNCHANGED vars
  BY <1>0, <1>5 DEF vars, server, client
<1>6. QED  BY <1>1, <1>2, <1>3, <1>4, <1>5 DEF Next

\* "one analysis per filing, ever": whatever pipelines of a filing overlap, break
\* off or are cut by restarts, everyone is answered with the row that is stored.
THEOREM OneAnalysisPerFiling == Spec => []OneAnalysis
<1>1. Init => TypeOK /\ Started /\ OneAnalysis
  BY StartedInit DEF Init, OneAnalysis
<1>2. TypeOK /\ Started /\ OneAnalysis /\ [Next]_vars
      => TypeOK' /\ Started' /\ OneAnalysis'
  BY TypeNext, StartedNext, OneAnalysisNext
<1>3. QED  BY <1>1, <1>2, PTL DEF Spec
-----------------------------------------------------------------------------
(* The frames a browser reads.  What is queued for an open response is a    *)
(* run of the pipeline's announcements that ends with the one it made last, *)
(* and begins where the browser has read up to.                             *)

Follows(a, b) ==
    \E k \in 1 .. Len(Stages) :
        a = Stages[k] /\ b \in Terminal \cup (IF k < Len(Stages) THEN {Stages[k + 1]} ELSE {})

LEMMA FollowsAre ==
  /\ Follows("cache_check", "fetching_filing") /\ Follows("fetching_filing", "extracting")
  /\ Follows("extracting", "storing")
  /\ \A a \in {"cache_check", "fetching_filing", "extracting", "storing"}, b \in Terminal :
        Follows(a, b)
  /\ \A a \in Terminal : \A b : ~ Follows(a, b)
<1>1. Len(Stages) = 4 /\ Stages[1] = "cache_check" /\ Stages[2] = "fetching_filing"
      /\ Stages[3] = "extracting" /\ Stages[4] = "storing"
  BY DEF Stages
<1>2. 1 .. 4 = {1, 2, 3, 4} /\ 1 + 1 = 2 /\ 2 + 1 = 3 /\ 3 + 1 = 4 /\ 1 < 4 /\ 2 < 4 /\ 3 < 4
  OBVIOUS
<1>3. QED  BY <1>1, <1>2 DEF Follows, Terminal

\* The frame a pipeline put last.
Announced(p) ==
    IF p = "quota" THEN "fetching_filing"
    ELSE IF p = "stored" THEN "storing"
    ELSE IF p = "done" THEN "result"
    ELSE IF p = "failed" THEN "error" ELSE p

Chain(s) == \A i \in 1 .. Len(s) - 1 : Follows(s[i], s[i + 1])

Feed(u) ==
    /\ ui[u] = "ready" => queue[u] = << >> /\ response[u] = "none" /\ last[u] = None
    /\ response[u] = "open" =>
          /\ pc[Stream(u)] \notin {"idle", "dead"}
          /\ Chain(queue[u])
          /\ queue[u] # << >> => queue[u][Len(queue[u])] = Announced(pc[Stream(u)])
    /\ ui[u] = "streaming" =>
          /\ response[u] \in {"open", "ended"}
          /\ response[u] = "ended" => queue[u] = << >>
          /\ response[u] = "open" =>
                IF queue[u] = << >> THEN last[u] = Announced(pc[Stream(u)])
                ELSE IF last[u] = None THEN queue[u][1] = Stages[1]
                ELSE Follows(last[u], queue[u][1])

Feeds == \A u \in Users : Feed(u)

LEMMA AnnouncedIs == \A p \in Pcs \ {"idle", "dead"} : Announced(p) \in Items
BY ItemsAre DEF Announced, Pcs, Working

\* A step of a pipeline puts the frame of where it gets to, next in order, or
\* stays within what it has announced.
LEMMA PipelinePuts ==
  ASSUME TypeOK, NEW r \in Requests, Pipeline(r)
  PROVE  /\ pc[r] \in Working /\ pc'[r] \in Pcs \ {"idle", "dead"}
         /\ \A q \in Requests : q # r => pc'[q] = pc[q]
         /\ \/ UNCHANGED queue /\ Announced(pc'[r]) = Announced(pc[r])
            \/ Put(r, Announced(pc'[r])) /\ Follows(Announced(pc[r]), Announced(pc'[r]))
         /\ UNCHANGED <<response, last, ui, target, restarts>>
<1> USE FollowsAre DEF Announced, Terminal
<1>0. pc \in [Requests -> Pcs]  BY DEF TypeOK, Pcs
<1>1. CASE CacheCheck(r)
  BY <1>0, <1>1 DEF CacheCheck, Enter, Fail, Working, Pcs, client
<1>2. CASE Fetch(r)
  BY <1>0, <1>2 DEF Fetch, Enter, Fail, Working, Pcs, client
<1>3. CASE Pay(r)
  BY <1>0, <1>3 DEF Pay, Enter, Fail, Working, Pcs, client
<1>4. CASE Extract(r)
  BY <1>0, <1>4 DEF Extract, Enter, Fail, Working, Pcs, client
<1>5. CASE Insert(r)
  BY <1>0, <1>5 DEF Insert, Enter, Fail, Working, Pcs, client
<1>6. CASE Complete(r)
  BY <1>0, <1>6 DEF Complete, Enter, Fail, Working, Pcs, client
<1>7. QED  BY <1>1, <1>2, <1>3, <1>4, <1>5, <1>6 DEF Pipeline

\* A queue stays a run of announcements when the next one is put.
LEMMA ChainGrows ==
  ASSUME NEW s \in Seq(Items), NEW x \in Items, Chain(s),
         s # << >> => Follows(s[Len(s)], x)
  PROVE  /\ Chain(Append(s, x)) /\ Append(s, x) # << >>
         /\ Append(s, x)[Len(Append(s, x))] = x
         /\ Append(s, x)[1] = IF s = << >> THEN x ELSE s[1]
<1> DEFINE t == Append(s, x)
<1>0. Len(t) = Len(s) + 1 /\ Len(s) \in Nat /\ t \in Seq(Items)
  OBVIOUS
<1>1. /\ Len(t) = Len(s) + 1 /\ Len(s) \in Nat /\ t # << >>
      /\ s # << >> => Len(s) >= 1
      /\ s = << >> => Len(s) = 0
  <2> HIDE DEF t
  <2>1. t # << >>  BY <1>0
  <2>2. s # << >> => Len(s) >= 1  OBVIOUS
  <2>3. QED  BY <1>0, <2>1, <2>2
<1>2. \A i \in 1 .. Len(s) + 1 : t[i] = IF i = Len(s) + 1 THEN x ELSE s[i]
  OBVIOUS
<1> HIDE DEF t
<1>3. ASSUME NEW i \in 1 .. Len(t) - 1 PROVE Follows(t[i], t[i + 1])
  <2>1. i \in 1 .. Len(s) /\ i # Len(s) + 1  BY <1>1
  <2>2. CASE i = Len(s)
    <3>1. s # << >>  BY <2>1
    <3>2. t[i] = s[Len(s)] /\ t[i + 1] = x  BY <1>1, <1>2, <2>1, <2>2
    <3>3. QED  BY <3>1, <3>2
  <2>3. CASE i # Len(s)
    <3>1. i \in 1 .. Len(s) - 1 /\ i + 1 \in 1 .. Len(s)  BY <1>1, <2>1, <2>3
    <3>2. t[i] = s[i] /\ t[i + 1] = s[i + 1]  BY <1>1, <1>2, <3>1
    <3>3. QED  BY <3>1, <3>2 DEF Chain
  <2>4. QED  BY <2>2, <2>3
<1>4. Chain(t)  BY <1>3 DEF Chain
<1>5. t[Len(t)] = x  BY <1>1, <1>2
<1>6. t[1] = IF s = << >> THEN x ELSE s[1]
  <2>1. CASE s = << >>  BY <1>1, <1>2, <2>1
  <2>2. CASE s # << >>  BY <1>1, <1>2, <2>2
  <2>3. QED  BY <2>1, <2>2
<1>7. QED  BY <1>1, <1>4, <1>5, <1>6 DEF t

\* And when its first frame is sent.
LEMMA ChainShrinks ==
  ASSUME NEW s \in Seq(Items), s # << >>, Chain(s)
  PROVE  /\ Chain(Tail(s)) /\ Head(s) = s[1]
         /\ Tail(s) # << >> => /\ Tail(s)[Len(Tail(s))] = s[Len(s)]
                               /\ Follows(s[1], Tail(s)[1])
         /\ Tail(s) = << >> => s[Len(s)] = s[1]
<1> DEFINE t == Tail(s)
<1>1. /\ Len(s) \in Nat /\ Len(s) >= 1 /\ Len(t) = Len(s) - 1 /\ t \in Seq(Items)
      /\ Head(s) = s[1]
  OBVIOUS
<1>2. \A i \in 1 .. Len(s) - 1 : t[i] = s[i + 1]
  OBVIOUS
<1> HIDE DEF t
<1>3. ASSUME NEW i \in 1 .. Len(t) - 1 PROVE Follows(t[i], t[i + 1])
  <2>1. i + 1 \in 1 .. Len(s) - 1 /\ i \in 1 .. Len(s) - 1  BY <1>1
  <2>2. t[i] = s[i + 1] /\ t[i + 1] = s[i + 1 + 1]  BY <1>2, <2>1
  <2>3. QED  BY <2>1, <2>2 DEF Chain
<1>4. ASSUME t # << >> PROVE t[Len(t)] = s[Len(s)] /\ Follows(s[1], t[1])
  <2>1. Len(s) - 1 >= 1  BY <1>1, <1>4
  <2>2. 1 \in 1 .. Len(s) - 1 /\ Len(s) - 1 \in 1 .. Len(s) - 1 /\ Len(s) - 1 + 1 = Len(s)
    BY <1>1, <2>1
  <2>3. t[1] = s[1 + 1] /\ t[Len(s) - 1] = s[Len(s)]  BY <1>2, <2>2
  <2>4. Follows(s[1], s[1 + 1])  BY <2>2 DEF Chain
  <2>5. QED  BY <1>1, <2>3, <2>4
<1>5. ASSUME t = << >> PROVE s[Len(s)] = s[1]
  <2>1. Len(s) = 1  BY <1>1, <1>5
  <2>2. QED  BY <2>1
<1>6. Chain(t)  BY <1>3 DEF Chain
<1>7. QED  BY <1>1, <1>4, <1>5, <1>6 DEF t

LEMMA FeedsInit == Init => Feeds
BY DEF Init, Feeds, Feed

\* The pipeline of u's stream puts a frame.
LEMMA FeedPut ==
  ASSUME TypeOK, Started, NEW u \in Users, Feed(u), UNCHANGED <<response, last, ui>>,
         pc[Stream(u)] \in Working, pc'[Stream(u)] \in Pcs \ {"idle", "dead"},
         Put(Stream(u), Announced(pc'[Stream(u)])),
         Follows(Announced(pc[Stream(u)]), Announced(pc'[Stream(u)]))
  PROVE  Feed(u)'
<1> DEFINE r == Stream(u)
           x == Announced(pc'[r])
<1>1. /\ queue \in [Users -> Seq(Items)] /\ r \in Requests /\ r[1] = u /\ r[2] = "stream"
      /\ x \in Items
  BY RequestOf, AnnouncedIs DEF TypeOK, Items, Stream
<1>2. ui[u] # "ready"
  BY <1>1 DEF Started, Working
<1>3. CASE response[u] # "open"
  <2>1. response[u] = "ended" => queue'[u] = queue[u]  BY <1>1, <1>3 DEF Put
  <2>2. QED  BY <1>2, <1>3, <2>1 DEF Feed
<1>4. CASE response[u] = "open"
  <2> DEFINE s == queue[u]
  <2>1. s \in Seq(Items) /\ queue'[u] = Append(s, x)  BY <1>1, <1>4 DEF Put
  <2>2. Chain(s) /\ (s # << >> => Follows(s[Len(s)], x))  BY <1>4 DEF Feed
  <2>3. /\ Chain(queue'[u]) /\ queue'[u] # << >> /\ queue'[u][Len(queue'[u])] = x
        /\ queue'[u][1] = IF s = << >> THEN x ELSE s[1]
    BY <1>1, <2>1, <2>2, ChainGrows
  <2>4. ASSUME ui[u] = "streaming"
        PROVE  IF last[u] = None THEN queue'[u][1] = Stages[1] ELSE Follows(last[u], queue'[u][1])
    <3>1. CASE s = << >>
      <4>1. last[u] = Announced(pc[r])  BY <1>4, <2>4, <3>1 DEF Feed
      <4>2. last[u] # None
        <5>1. pc[r] \in Pcs \ {"idle", "dead"}  BY DEF Working, Pcs
        <5>2. last[u] \in Range(Stages) \cup Terminal  BY <4>1, <5>1, AnnouncedIs DEF Items
        <5>3. last[u] \notin Terminal  BY <4>1, FollowsAre
        <5>4. QED  BY <5>2, <5>3, PipelineAssumption
      <4>3. QED  BY <2>3, <3>1, <4>1, <4>2
    <3>2. CASE s # << >>  BY <1>4, <2>3, <2>4, <3>2 DEF Feed
    <3>3. QED  BY <3>1, <3>2
  <2>5. QED  BY <1>2, <1>4, <2>3, <2>4 DEF Feed
<1>5. QED  BY <1>3, <1>4

LEMMA FeedKept ==
  ASSUME NEW u \in Users, Feed(u), Announced(pc'[Stream(u)]) = Announced(pc[Stream(u)]),
         pc[Stream(u)] \notin {"idle", "dead"} => pc'[Stream(u)] \notin {"idle", "dead"},
         queue'[u] = queue[u], response'[u] = response[u], last'[u] = last[u], ui'[u] = ui[u]
  PROVE  Feed(u)'
BY DEF Feed

\* The browser is sent the first frame.
LEMMA FeedYield ==
  ASSUME TypeOK, NEW u \in Users, Feed(u), Yield(u)
  PROVE  Feed(u)'
<1> DEFINE s == queue[u]
<1>1. /\ s \in Seq(Items) /\ s # << >> /\ response[u] = "open" /\ UNCHANGED pc
      /\ queue'[u] = Tail(s) /\ ui[u] # "ready"
  BY DEF Yield, TypeOK, Items, Feed
<1>2. Chain(s) /\ s[Len(s)] = Announced(pc[Stream(u)])  BY <1>1 DEF Feed
<1>3. /\ Chain(Tail(s)) /\ Head(s) = s[1] /\ Head(s) \in Items
      /\ Tail(s) # << >> => Tail(s)[Len(Tail(s))] = s[Len(s)] /\ Follows(s[1], Tail(s)[1])
      /\ Tail(s) = << >> => s[Len(s)] = s[1]
  BY <1>1, <1>2, ChainShrinks
<1>4. CASE Head(s) \in Terminal
  <2>1. response'[u] = "ended" /\ ui'[u] \notin {"ready", "streaming"}
    BY <1>1, <1>4 DEF Yield, TypeOK
  <2>2. QED  BY <2>1 DEF Feed
<1>5. CASE Head(s) \notin Terminal
  <2>1. /\ response'[u] = "open" /\ ui'[u] = ui[u]
        /\ ui[u] = "streaming" => last'[u] = Head(s)
    BY <1>1, <1>5 DEF Yield, Read, TypeOK
  <2>2. Head(s) # None  BY <1>3, <1>5, PipelineAssumption DEF Items
  <2>3. pc[Stream(u)] \notin {"idle", "dead"}  BY <1>1 DEF Feed
  <2>4. QED  BY <1>1, <1>2, <1>3, <2>1, <2>2, <2>3 DEF Feed
<1>6. QED  BY <1>4, <1>5

LEMMA FeedsNext == TypeOK /\ Started /\ Feeds /\ [Next]_vars => Feeds'
<1> SUFFICES ASSUME TypeOK, Started, Feeds, [Next]_vars, NEW v \in Users
             PROVE  Feed(v)'
  BY DEF Feeds
<1>0. /\ Feed(v) /\ Stream(v) \in Requests /\ Json(v) \in Requests
      /\ queue \in [Users -> Seq(Items)] /\ pc \in [Requests -> Pcs]
      /\ Stream(v)[2] = "stream" /\ Json(v)[2] = "json"
      /\ \A u \in Users : Stream(u) = Stream(v) => u = v
      /\ \A u \in Users : Json(u) # Stream(v)
  BY RequestOf DEF Feeds, TypeOK, Items, Pcs, Stream, Json
<1>1. ASSUME NEW r \in Requests, Pipeline(r) PROVE Feed(v)'
  <2>1. CASE r = Stream(v)
    <3>1. CASE UNCHANGED queue /\ Announced(pc'[r]) = Announced(pc[r])
      BY <1>0, <1>1, <2>1, <3>1, PipelinePuts, FeedKept
    <3>2. CASE Put(r, Announced(pc'[r])) /\ Follows(Announced(pc[r]), Announced(pc'[r]))
      BY <1>0, <1>1, <2>1, <3>2, PipelinePuts, FeedPut
    <3>3. QED  BY <1>1, <3>1, <3>2, PipelinePuts
  <2>2. CASE r # Stream(v)
    <3>1. r[2] = "stream" => r[1] # v
      BY <2>2 DEF Requests, Stream
    <3>2. queue'[v] = queue[v]
      BY <1>0, <1>1, <3>1, PipelinePuts DEF Put, Requests
    <3>3. QED  BY <1>0, <1>1, <2>2, <3>2, PipelinePuts, FeedKept
  <2>3. QED  BY <2>1, <2>2
<1>2. ASSUME NEW u \in Users, Serve(u) PROVE Feed(v)'
  <2>1. CASE Yield(u) /\ u = v
    BY <1>0, <2>1, FeedYield
  <2>2. CASE Yield(u) /\ u # v
    BY <1>0, <2>2, FeedKept DEF Yield, Read, TypeOK
  <2>3. CASE Respond(u)
    BY <1>0, <2>3 DEF Respond, Feed, TypeOK
  <2>4. CASE RespondToNobody(u)
    BY <1>0, <2>4, FeedKept DEF RespondToNobody, client
  <2>5. QED  BY <1>2, <2>1, <2>2, <2>3, <2>4 DEF Serve
<1>3. ASSUME NEW u \in Users, ResponseEnds(u) PROVE Feed(v)'
  BY <1>0, <1>3 DEF ResponseEnds, Feed, TypeOK, client
<1>4. ASSUME NEW u \in Users, Break(u) \/ Leave(u) \/ CutOff(u) PROVE Feed(v)'
  <2>1. /\ queue' = queue /\ response' = response /\ pc'[Stream(v)] = pc[Stream(v)]
        /\ v # u => last'[v] = last[v] /\ ui'[v] = ui[v]
        /\ ui'[u] \notin {"ready", "streaming"}
    BY <1>0, <1>4 DEF Break, Leave, CutOff, Open, Enter, Put, Read, TypeOK, server, Json
  <2>2. QED  BY <1>0, <2>1, FeedKept DEF Feed
<1>5. ASSUME NEW u \in Users, NEW f \in Filings, Analyze(u, f) PROVE Feed(v)'
  <2>1. CASE u # v
    <3>1. /\ queue'[v] = queue[v] /\ response'[v] = response[v]
          /\ pc'[Stream(v)] = pc[Stream(v)] /\ last'[v] = last[v] /\ ui'[v] = ui[v]
      BY <1>0, <1>5, <2>1 DEF Analyze, Open, Enter, Put, TypeOK, Stream
    <3>2. QED  BY <1>0, <3>1, FeedKept
  <2>2. CASE u = v
    <3>1. /\ queue'[v] = Append(<< >>, "cache_check") /\ response'[v] = "open"
          /\ pc'[Stream(v)] = "cache_check" /\ last'[v] = None /\ ui'[v] = "streaming"
      BY <1>0, <1>5, <2>2 DEF Analyze, Open, Enter, Put, TypeOK, Feed, Stream
    <3>2. /\ Chain(queue'[v]) /\ queue'[v] # << >>
          /\ queue'[v][Len(queue'[v])] = "cache_check" /\ queue'[v][1] = "cache_check"
      BY <3>1, ItemsAre, ChainGrows DEF Chain
    <3>3. QED  BY <3>1, <3>2 DEF Feed, Stages, Announced
  <2>3. QED  BY <2>1, <2>2
<1>6. ASSUME NEW u \in Users, NEW f \in Filings, AskPlain(u, f) PROVE Feed(v)'
  <2>1. /\ queue' = queue /\ response' = response /\ last' = last
        /\ pc'[Stream(v)] = pc[Stream(v)]
        /\ v # u => ui'[v] = ui[v]
        /\ ui'[u] = "waiting"
    BY <1>0, <1>6 DEF AskPlain, Open, Enter, Put, TypeOK, Json
  <2>2. QED  BY <1>0, <2>1, FeedKept DEF Feed
<1>7. CASE Restart
  BY <1>0, <1>7 DEF Restart, client, Feed, TypeOK
<1>8. CASE UNCHANGED vars
  BY <1>0, <1>8, FeedKept DEF vars, server, client
<1>9. QED  BY <1>1, <1>2, <1>3, <1>4, <1>5, <1>6, <1>7, <1>8 DEF Next

LEMMA FeedsInOrder == TypeOK /\ Feeds => FramesInOrder
<1> SUFFICES ASSUME TypeOK, Feeds, NEW u \in Users, ui[u] = "streaming"
             PROVE  LET frames == IF last[u] = None THEN queue[u] ELSE <<last[u]>> \o queue[u]
                    IN  /\ last[u] = None /\ frames # << >> => frames[1] = Stages[1]
                        /\ \A i \in 1 .. Len(frames) - 1 : Follows(frames[i], frames[i + 1])
  BY DEF FramesInOrder, Follows
<1> DEFINE s == queue[u]
<1>1. Feed(u) /\ s \in Seq(Items)
  BY DEF Feeds, TypeOK, Items
<1>2. Chain(s) /\ (s # << >> => IF last[u] = None THEN s[1] = Stages[1] ELSE Follows(last[u], s[1]))
  <2>1. Chain(<< >>)  BY DEF Chain
  <2>2. QED  BY <1>1, <2>1 DEF Feed
<1>3. CASE last[u] = None
  BY <1>2, <1>3 DEF Chain
<1>4. CASE last[u] # None
  <2> DEFINE frames == <<last[u]>> \o s
  <2>1. last[u] \in Items  BY <1>4 DEF TypeOK, Items
  <2>2. Len(s) \in Nat /\ Len(frames) = 1 + Len(s)
    BY <1>1, <2>1
  <2>3. frames[1] = last[u] /\ \A i \in 1 .. Len(s) : frames[i + 1] = s[i]
    BY <1>1, <2>1
  <2>4. ASSUME NEW i \in 1 .. Len(frames) - 1 PROVE Follows(frames[i], frames[i + 1])
    <3>1. CASE i = 1
      <4>1. 1 \in 1 .. Len(s) /\ s # << >>  BY <2>2, <3>1
      <4>2. frames[i + 1] = s[1]  BY <2>3, <3>1, <4>1
      <4>3. QED  BY <1>2, <1>4, <2>3, <3>1, <4>1, <4>2
    <3>2. CASE i # 1
      <4> DEFINE j == i - 1
      <4>1. j \in 1 .. Len(s) - 1 /\ j \in 1 .. Len(s) /\ j + 1 \in 1 .. Len(s) /\ i = j + 1
        BY <2>2, <3>2
      <4>2. frames[i] = s[j] /\ frames[i + 1] = s[j + 1]  BY <2>3, <4>1
      <4>3. QED  BY <1>2, <4>1, <4>2 DEF Chain
    <3>3. QED  BY <3>1, <3>2
  <2>5. QED  BY <1>4, <2>4
<1>5. QED  BY <1>3, <1>4

\* "stage frames while the pipeline runs, then exactly one result or error": on
\* whatever schedule the pipeline puts and the generator sends them, a browser
\* reads the stages in order, and nothing after a terminal frame.
THEOREM FramesComeInOrder == Spec => []FramesInOrder
<1>1. TypeOK /\ Started /\ Feeds /\ [Next]_vars => TypeOK' /\ Started' /\ Feeds'
  BY TypeNext, StartedNext, FeedsNext
<1>2. TypeOK /\ Feeds => FramesInOrder
  BY FeedsInOrder
<1>3. QED  BY <1>1, <1>2, StartedInit, FeedsInit, PTL DEF Spec
-----------------------------------------------------------------------------
(* A shown analysis is indexed.  While the server has not been restarted, a *)
(* paid-for pipeline has a live index run when it is done, unless its       *)
(* response ended first, and then nobody is shown its result.               *)

Paid(r) ==
    paid[r] => pc[r] \in {"extracting", "storing", "stored", "done", "failed"}

Indexed(u) ==
    /\ Paid(Stream(u)) /\ Paid(Json(u))
    /\ pc[Json(u)] = "done" /\ paid[Json(u)] => run[Json(u)] \in {"added", "started"}
    /\ pc[Stream(u)] = "done" /\ paid[Stream(u)] /\ response[u] = "open"
          => run[Stream(u)] \in {"added", "started"}
    /\ ui[u] \in {"ready", "streaming"} => pc[Json(u)] = "idle"
    /\ ui[u] = "shown" =>
          \/ /\ pc[Json(u)] = "idle" /\ pc[Stream(u)] = "done"
             /\ paid[Stream(u)] => run[Stream(u)] = "started"
          \/ /\ pc[Json(u)] = "done"
             /\ paid[Json(u)] => run[Json(u)] = "started"

AllIndexed == restarts = 0 => \A u \in Users : Indexed(u)

LEMMA AllIndexedInit == Init => AllIndexed
<1> SUFFICES ASSUME Init, NEW u \in Users PROVE Indexed(u)  BY DEF AllIndexed
<1>1. Stream(u) \in Requests /\ Json(u) \in Requests  BY RequestOf
<1>2. QED  BY <1>1 DEF Init, Indexed, Paid

\* A result at the head of an open response's queue is its pipeline's last word.
LEMMA ResultIsLast ==
  ASSUME TypeOK, NEW u \in Users, Feed(u), response[u] = "open", queue[u] # << >>,
         Head(queue[u]) = "result"
  PROVE  pc[Stream(u)] = "done"
<1> DEFINE s == queue[u]
<1>1. s \in Seq(Items) /\ Chain(s) /\ s[Len(s)] = Announced(pc[Stream(u)])
  BY DEF TypeOK, Items, Feed
<1>2. s[1] = "result" /\ s[Len(s)] = s[1]
  <2>1. "result" \in Terminal  BY DEF Terminal
  <2>2. QED  BY <1>1, <2>1, ChainShrinks, FollowsAre
<1>3. pc[Stream(u)] \in Pcs  BY RequestOf DEF TypeOK, Pcs
<1>4. QED  BY <1>1, <1>2, <1>3 DEF Announced, Pcs, Working

LEMMA IndexedKept ==
  ASSUME NEW u \in Users, Indexed(u),
         pc'[Stream(u)] = pc[Stream(u)], pc'[Json(u)] = pc[Json(u)],
         paid'[Stream(u)] = paid[Stream(u)], paid'[Json(u)] = paid[Json(u)],
         run'[Stream(u)] = run[Stream(u)], run'[Json(u)] = run[Json(u)],
         response'[u] = response[u] \/ response'[u] # "open",
         ui'[u] = ui[u] \/ ui'[u] \in {"left", "error"}
  PROVE  Indexed(u)'
BY DEF Indexed, Paid

\* What a step of a pipeline does to its payment and to its run.
LEMMA PipelinePays ==
  ASSUME TypeOK, NEW r \in Requests, Pipeline(r), Paid(r)
  PROVE  /\ Paid(r)' /\ pc[r] \notin {"idle", "done"}
         /\ \A q \in Requests \ {r} : pc'[q] = pc[q] /\ paid'[q] = paid[q] /\ run'[q] = run[q]
         /\ pc'[r] = "done" /\ paid'[r] =>
               run'[r] = IF r[2] = "stream" /\ response[r[1]] = "ended" THEN "lost" ELSE "added"
         /\ UNCHANGED <<response, ui, restarts>>
<1> USE DEF Paid
<1>0. pc \in [Requests -> Pcs]  BY DEF TypeOK, Pcs
<1>1. CASE CacheCheck(r)
  BY <1>0, <1>1 DEF CacheCheck, Enter, Fail, client
<1>2. CASE Fetch(r)
  BY <1>0, <1>2 DEF Fetch, Enter, Fail, client
<1>3. CASE Pay(r)
  BY <1>0, <1>3 DEF Pay, Enter, Fail, client, TypeOK
<1>4. CASE Extract(r)
  BY <1>0, <1>4 DEF Extract, Enter, Fail, client
<1>5. CASE Insert(r)
  BY <1>0, <1>5 DEF Insert, Enter, Fail, client
<1>6. CASE Complete(r)
  BY <1>0, <1>6 DEF Complete, Enter, Fail, client, TypeOK
<1>7. QED  BY <1>1, <1>2, <1>3, <1>4, <1>5, <1>6 DEF Pipeline

LEMMA AllIndexedNext ==
  TypeOK /\ Started /\ Feeds /\ AllIndexed /\ [Next]_vars => AllIndexed'
<1> SUFFICES ASSUME TypeOK, Started, Feeds, AllIndexed, [Next]_vars, restarts' = 0,
                    NEW v \in Users
             PROVE  Indexed(v)'
  BY DEF AllIndexed
<1>r. restarts = 0 /\ ~ Restart
  BY PipelineAssumption DEF Next, vars, Restart, Pipeline, CacheCheck, Fetch, Pay, Extract,
        Insert, Complete, Serve, Yield, Respond, RespondToNobody, ResponseEnds, Break, Leave,
        CutOff, Analyze, AskPlain, client, server, TypeOK
<1>0. /\ Indexed(v) /\ Feed(v) /\ Stream(v) \in Requests /\ Json(v) \in Requests
      /\ Stream(v) # Json(v) /\ Stream(v)[1] = v /\ Json(v)[2] = "json"
      /\ \A u \in Users \ {v} : {Stream(u), Json(u)} \cap {Stream(v), Json(v)} = {}
  BY <1>r, RequestOf DEF AllIndexed, Feeds, Stream, Json
<1>1. ASSUME NEW r \in Requests, Pipeline(r) PROVE Indexed(v)'
  <2>1. CASE r \in {Stream(v), Json(v)}
    <3>1. Paid(r)  BY <1>0, <2>1 DEF Indexed
    <3>2. /\ Paid(r)' /\ pc[r] \notin {"idle", "done"}
          /\ \A q \in Requests \ {r} : pc'[q] = pc[q] /\ paid'[q] = paid[q] /\ run'[q] = run[q]
          /\ pc'[r] = "done" /\ paid'[r] =>
                run'[r] = IF r[2] = "stream" /\ response[r[1]] = "ended" THEN "lost" ELSE "added"
          /\ UNCHANGED <<response, ui, restarts>>
      BY <1>1, <3>1, PipelinePays
    <3>3. QED  BY <1>0, <2>1, <3>2 DEF Indexed, Paid
  <2>2. CASE r \notin {Stream(v), Json(v)}
    <3>1. Paid(r)
      <4>1. PICK u \in Users : r = Stream(u) \/ r = Json(u)
        BY RequestOf DEF Requests
      <4>2. Indexed(u)  BY <1>r DEF AllIndexed
      <4>3. QED  BY <4>1, <4>2 DEF Indexed
    <3>2. QED  BY <1>0, <1>1, <2>2, <3>1, PipelinePays, IndexedKept
  <2>3. QED  BY <2>1, <2>2
<1>2. ASSUME NEW u \in Users, Serve(u) \/ ResponseEnds(u) PROVE Indexed(v)'
  <2>s. ASSUME NEW r \in Requests, StartRun(r)
        PROVE  /\ \A q \in Requests \ {r} : run'[q] = run[q]
               /\ run[r] \in {"added", "started"} => run'[r] = "started"
               /\ run[r] = "started" => run'[r] = "started"
    BY <2>s DEF StartRun, TypeOK
  <2>1. CASE u # v
    <3>1. /\ \A q \in {Stream(v), Json(v)} : pc'[q] = pc[q] /\ paid'[q] = paid[q]
          /\ response'[v] = response[v] /\ ui'[v] = ui[v]
          /\ UNCHANGED run \/ StartRun(Stream(u)) \/ StartRun(Json(u))
      BY <1>0, <1>2, <2>1 DEF Serve, Yield, Respond, RespondToNobody, ResponseEnds, TypeOK,
                              client
    <3>2. \A q \in {Stream(v), Json(v)} : run'[q] = run[q]
      BY <1>0, <2>1, <2>s, <3>1, RequestOf
    <3>3. QED  BY <1>0, <3>1, <3>2, IndexedKept
  <2>2. CASE u = v /\ Yield(u)
    <3> DEFINE item == Head(queue[v])
    <3>1. UNCHANGED <<pc, paid>> /\ response[v] = "open" /\ queue[v] # << >>
      BY <2>2 DEF Yield
    <3>2. CASE item \notin Terminal
      <4>1. UNCHANGED <<pc, paid, run, response, ui>>  BY <2>2, <3>2 DEF Yield
      <4>2. QED  BY <1>0, <4>1, IndexedKept
    <3>3. CASE item \in Terminal
      <4>1. /\ StartRun(Stream(v)) /\ response'[v] = "ended"
            /\ ui'[v] = IF ui[v] # "streaming" THEN ui[v]
                        ELSE IF item = "result" THEN "shown" ELSE "error"
        BY <2>2, <3>3 DEF Yield, TypeOK
      <4>2. /\ run'[Json(v)] = run[Json(v)]
            /\ run[Stream(v)] \in {"added", "started"} => run'[Stream(v)] = "started"
        BY <1>0, <2>s, <4>1
      <4>3. item = "result" => pc[Stream(v)] = "done"
        BY <1>0, <3>1, ResultIsLast
      <4>4. QED  BY <1>0, <3>1, <4>1, <4>2, <4>3 DEF Indexed, Paid
    <3>4. QED  BY <3>2, <3>3
  <2>3. CASE u = v /\ Respond(u)
    <3>1. /\ UNCHANGED <<pc, paid, response>> /\ StartRun(Json(v)) /\ ui[v] = "waiting"
          /\ ui'[v] = IF pc[Json(v)] = "done" THEN "shown" ELSE "error"
      BY <2>3 DEF Respond, TypeOK
    <3>2. /\ run'[Stream(v)] = run[Stream(v)]
          /\ run[Json(v)] \in {"added", "started"} => run'[Json(v)] = "started"
      BY <1>0, <2>s, <3>1
    <3>3. QED  BY <1>0, <3>1, <3>2 DEF Indexed, Paid
  <2>4. CASE u = v /\ RespondToNobody(u)
    <3>1. UNCHANGED <<pc, paid, response, ui>> /\ StartRun(Json(v))
      BY <2>4 DEF RespondToNobody, client
    <3>2. /\ run'[Stream(v)] = run[Stream(v)]
          /\ run[Json(v)] \in {"added", "started"} => run'[Json(v)] = "started"
      BY <1>0, <2>s, <3>1
    <3>3. QED  BY <1>0, <3>1, <3>2 DEF Indexed, Paid
  <2>5. CASE u = v /\ ResponseEnds(u)
    <3>1. /\ UNCHANGED <<pc, paid, ui>> /\ StartRun(Stream(v)) /\ response'[v] = "ended"
      BY <2>5 DEF ResponseEnds, client, TypeOK
    <3>2. /\ run'[Json(v)] = run[Json(v)]
          /\ run[Stream(v)] = "started" => run'[Stream(v)] = "started"
      BY <1>0, <2>s, <3>1
    <3>3. QED  BY <1>0, <3>1, <3>2 DEF Indexed, Paid
  <2>6. QED  BY <1>2, <2>1, <2>2, <2>3, <2>4, <2>5 DEF Serve
<1>3. ASSUME NEW u \in Users, Break(u) \/ Leave(u) \/ CutOff(u) PROVE Indexed(v)'
  <2>0. UNCHANGED <<paid, run, response>>
    BY <1>3 DEF Break, Leave, CutOff, Open, server
  <2>1. CASE u # v
    <3>1. /\ pc'[Stream(v)] = pc[Stream(v)] /\ pc'[Json(v)] = pc[Json(v)] /\ ui'[v] = ui[v]
      <4>1. CASE Break(u)
        BY <1>0, <2>1, <4>1 DEF Break, Open, Enter, TypeOK
      <4>2. CASE Leave(u)
        <5>1. UNCHANGED pc  BY <4>2 DEF Leave, server
        <5>2. ui'[v] = ui[v]  BY <2>1, <4>2 DEF Leave, TypeOK
        <5>3. QED  BY <5>1, <5>2
      <4>3. CASE CutOff(u)
        <5>1. ui'[v] = ui[v]  BY <2>1, <4>3 DEF CutOff, TypeOK
        <5>2. pc' = pc \/ pc' = [pc EXCEPT ![Json(u)] = "cache_check"]
          <6>1. Open(Json(u)) \/ UNCHANGED server  BY <4>3 DEF CutOff
          <6>2. UNCHANGED server => UNCHANGED pc  BY DEF server
          <6>3. QED  BY <6>1, <6>2 DEF Open, Enter
        <5>3. Json(u) # Stream(v) /\ Json(u) # Json(v)
          BY <1>0, <2>1
        <5>4. pc'[Stream(v)] = pc[Stream(v)] /\ pc'[Json(v)] = pc[Json(v)]
          BY <1>0, <5>2, <5>3 DEF TypeOK
        <5>5. QED  BY <5>1, <5>4
      <4>4. QED  BY <1>3, <4>1, <4>2, <4>3
    <3>2. QED  BY <1>0, <2>0, <3>1, IndexedKept
  <2>2. CASE u = v /\ UNCHANGED pc
    <3>1. ui'[v] \in {"left", "error"}
      BY <1>0, <1>3, <2>2 DEF Break, Leave, CutOff, Open, Enter, server, TypeOK
    <3>2. QED  BY <1>0, <2>0, <2>2, <3>1, IndexedKept
  <2>3. CASE u = v /\ ~ UNCHANGED pc
    <3>1. /\ pc[Json(v)] = "idle" /\ pc'[Json(v)] = "cache_check" /\ ui'[v] = "waiting"
          /\ pc'[Stream(v)] = pc[Stream(v)]
      BY <1>0, <1>3, <2>3 DEF Break, Leave, CutOff, Open, Enter, server, TypeOK
    <3>2. QED  BY <1>0, <2>0, <3>1 DEF Indexed, Paid
  <2>4. QED  BY <2>1, <2>2, <2>3
<1>4. ASSUME NEW u \in Users, NEW f \in Filings, Analyze(u, f) PROVE Indexed(v)'
  <2>0. UNCHANGED <<paid, run>>  BY <1>4 DEF Analyze, Open
  <2>1. CASE u # v
    <3>1. /\ pc'[Stream(v)] = pc[Stream(v)] /\ pc'[Json(v)] = pc[Json(v)] /\ ui'[v] = ui[v]
          /\ response'[v] = response[v]
      BY <1>0, <1>4, <2>1 DEF Analyze, Open, Enter, TypeOK
    <3>2. QED  BY <1>0, <2>0, <3>1, IndexedKept
  <2>2. CASE u = v
    <3>1. /\ pc[Stream(v)] = "idle" /\ pc'[Stream(v)] = "cache_check"
          /\ pc'[Json(v)] = pc[Json(v)] /\ ui[v] = "ready" /\ ui'[v] = "streaming"
      BY <1>0, <1>4, <2>2 DEF Analyze, Open, Enter, TypeOK
    <3>2. QED  BY <1>0, <2>0, <3>1 DEF Indexed, Paid
  <2>3. QED  BY <2>1, <2>2
<1>5. ASSUME NEW u \in Users, NEW f \in Filings, AskPlain(u, f) PROVE Indexed(v)'
  <2>0. UNCHANGED <<paid, run, response>>  BY <1>5 DEF AskPlain, Open
  <2>1. CASE u # v
    <3>1. /\ pc'[Stream(v)] = pc[Stream(v)] /\ pc'[Json(v)] = pc[Json(v)] /\ ui'[v] = ui[v]
      BY <1>0, <1>5, <2>1 DEF AskPlain, Open, Enter, TypeOK
    <3>2. QED  BY <1>0, <2>0, <3>1, IndexedKept
  <2>2. CASE u = v
    <3>1. /\ pc[Json(v)] = "idle" /\ pc'[Json(v)] = "cache_check" /\ ui'[v] = "waiting"
          /\ pc'[Stream(v)] = pc[Stream(v)]
      BY <1>0, <1>5, <2>2 DEF AskPlain, Open, Enter, TypeOK
    <3>2. QED  BY <1>0, <2>0, <3>1 DEF Indexed, Paid
  <2>3. QED  BY <2>1, <2>2
<1>6. CASE UNCHANGED vars
  BY <1>0, <1>6, IndexedKept DEF vars, server, client
<1>7. QED  BY <1>r, <1>1, <1>2, <1>3, <1>4, <1>5, <1>6 DEF Next

(* Who is shown a row another request stored.  The row's owner is accounted *)
(* for from its insert on: its pipeline only goes on to Complete, a run that *)
(* was added only starts, and a user who left a stream does not come back.   *)

Accounts == restarts = 0 =>
    /\ \A r \in Requests : pc[r] \in {"stored", "done"} => answer[r] # None
    /\ \A f \in Filings : row[f] # None => Accounted(row[f])
    /\ \A u \in Users : ~ (ui[u] = "streaming" /\ response[u] = "ended")

LEMMA AccountsInit == Init => Accounts
BY DEF Init, Accounts

\* An owner stays accounted for while its pipeline does not move.
LEMMA AccountedKept ==
  ASSUME NEW o \in Requests, Accounted(o), pc'[o] = pc[o],
         run'[o] = run[o] \/ (run[o] = "added" /\ run'[o] = "started"),
         ui[o[1]] # "streaming" => ui'[o[1]] # "streaming"
  PROVE  Accounted(o)'
BY DEF Accounted

LEMMA PipelineAccounts ==
  ASSUME TypeOK, Started, Accounts, restarts = 0, NEW r \in Requests, Pipeline(r)
  PROVE  Accounts'
<1>0. /\ pc[r] \in Working /\ r[1] \in Users /\ UNCHANGED <<response, ui, restarts>>
      /\ pc \in [Requests -> Pcs]
      /\ \A q \in Requests \ {r} : pc'[q] = pc[q] /\ run'[q] = run[q] /\ answer'[q] = answer[q]
  <2>1. pc[r] \in Working /\ \A q \in Requests \ {r} : pc'[q] = pc[q]
    BY PipelinePuts
  <2>2. /\ UNCHANGED <<response, ui, restarts>>
        /\ \A q \in Requests \ {r} : run'[q] = run[q] /\ answer'[q] = answer[q]
    BY DEF Pipeline, CacheCheck, Fetch, Pay, Extract, Insert, Complete, client, TypeOK
  <2>3. QED  BY <2>1, <2>2 DEF TypeOK, Pcs, Requests
<1>1. pc'[r] \in {"stored", "done"} => answer'[r] # None
  <2>1. CASE CacheCheck(r)
    BY <1>0, <2>1 DEF CacheCheck, Enter, Fail, TypeOK
  <2>2. CASE Insert(r)
    BY <1>0, <2>2, PipelineAssumption DEF Insert, Enter, Fail, TypeOK
  <2>3. CASE Fetch(r) \/ Pay(r) \/ Extract(r)
    BY <1>0, <2>3 DEF Fetch, Pay, Extract, Enter, Fail
  <2>4. CASE Complete(r)
    BY <2>4 DEF Complete, Accounts
  <2>5. QED  BY <2>1, <2>2, <2>3, <2>4 DEF Pipeline
<1>2. Accounted(r) => Accounted(r)'
  <2>1. SUFFICES ASSUME Accounted(r) PROVE Accounted(r)'  OBVIOUS
  <2>2. pc[r] = "stored"
    BY <1>0, <2>1 DEF Accounted, Working
  <2>3. Complete(r)
    BY <2>2 DEF Pipeline, CacheCheck, Fetch, Pay, Extract, Insert
  <2>4. pc'[r] = "done" /\ run'[r] \in {"added", "lost"}
    BY <1>0, <2>3 DEF Complete, TypeOK
  <2>5. run'[r] = "lost" => r[2] = "stream" /\ response[r[1]] = "ended"
    BY <2>3 DEF Complete, TypeOK
  <2>6. response[r[1]] = "ended" => ui'[r[1]] # "streaming"
    BY <1>0 DEF Accounts
  <2>7. QED  BY <2>4, <2>5, <2>6 DEF Accounted
<1>3. ASSUME NEW q \in Requests, Accounted(q) PROVE Accounted(q)'
  BY <1>0, <1>2, <1>3, AccountedKept
<1>4. ASSUME NEW f \in Filings, row'[f] # None PROVE Accounted(row[f])'
  <2>1. CASE row'[f] = row[f]
    <3>1. row[f] \in Requests /\ Accounted(row[f])
      BY <1>4, <2>1 DEF TypeOK, Accounts
    <3>2. \A q \in Requests : q = row[f] => Accounted(q)'
      BY <1>3, <3>1
    <3>3. QED  BY <2>1, <3>1, <3>2 DEF Accounted
  <2>2. CASE row'[f] # row[f]
    <3>1. Insert(r)
      BY <2>2 DEF Pipeline, CacheCheck, Fetch, Pay, Extract, Complete
    <3>2. row'[f] = r /\ pc'[r] \in {"stored", "failed"}
      BY <1>0, <2>2, <3>1 DEF Insert, Fail, TypeOK
    <3>3. QED  BY <3>2 DEF Accounted
  <2>3. QED  BY <2>1, <2>2
<1>5. QED  BY <1>0, <1>1, <1>4 DEF Accounts

LEMMA AccountsNext ==
  TypeOK /\ Started /\ Feeds /\ Accounts /\ [Next]_vars => Accounts'
<1> SUFFICES ASSUME TypeOK, Started, Feeds, Accounts, [Next]_vars, restarts' = 0
             PROVE  Accounts'
  BY DEF Accounts
<1>r. restarts = 0 /\ ~ Restart
  BY PipelineAssumption DEF Next, vars, Restart, Pipeline, CacheCheck, Fetch, Pay, Extract,
        Insert, Complete, Serve, Yield, Respond, RespondToNobody, ResponseEnds, Break, Leave,
        CutOff, Analyze, AskPlain, client, server, TypeOK
<1>t. /\ row \in [Filings -> Requests \cup {None}]
      /\ \A r \in Requests : r[1] \in Users
  BY DEF TypeOK, Requests
\* Steps of users and of responses: no row is stored and no pipeline finishes.
<1>a. ASSUME UNCHANGED <<row, answer>>,
             \A r \in Requests :
                /\ pc'[r] = pc[r] \/ (pc[r] = "idle" /\ pc'[r] = "cache_check")
                /\ run'[r] = run[r] \/ (run[r] = "added" /\ run'[r] = "started"),
             \A u \in Users :
                /\ ui'[u] = "streaming" => ui[u] = "streaming" \/ ui[u] = "ready"
                /\ ui'[u] = "streaming" => response'[u] # "ended"
      PROVE  Accounts'
  <2>1. ASSUME NEW o \in Requests, Accounted(o) PROVE Accounted(o)'
    <3>1. pc[o] # "idle"
      BY <2>1 DEF Accounted
    <3>2. ui[o[1]] # "ready"
      BY <1>t, <3>1 DEF Started
    <3>3. QED  BY <1>a, <1>t, <2>1, <3>1, <3>2, AccountedKept
  <2>2. ASSUME NEW f \in Filings, row'[f] # None PROVE Accounted(row[f])'
    <3>1. row[f] \in Requests /\ Accounted(row[f]) /\ row'[f] = row[f]
      BY <1>a, <1>r, <1>t, <2>2 DEF Accounts
    <3>2. \A q \in Requests : q = row[f] => Accounted(q)'
      BY <2>1, <3>1
    <3>3. QED  BY <3>1, <3>2 DEF Accounted
  <2>3. ASSUME NEW r \in Requests, pc'[r] \in {"stored", "done"} PROVE answer'[r] # None
    BY <1>a, <1>r, <2>3 DEF Accounts
  <2>4. QED  BY <1>a, <2>2, <2>3 DEF Accounts
<1>s. ASSUME NEW r \in Requests, StartRun(r)
      PROVE  \A q \in Requests : run'[q] = run[q] \/ (run[q] = "added" /\ run'[q] = "started")
  BY <1>s DEF StartRun, TypeOK
<1>u. \A u \in Users : ui[u] = "streaming" => response[u] # "ended"
  BY <1>r DEF Accounts
<1>1. ASSUME NEW r \in Requests, Pipeline(r) PROVE Accounts'
  BY <1>1, <1>r, PipelineAccounts
<1>2. ASSUME NEW u \in Users, Serve(u) \/ ResponseEnds(u) PROVE Accounts'
  <2>1. UNCHANGED <<row, answer, pc>>
    BY <1>2 DEF Serve, Yield, Respond, RespondToNobody, ResponseEnds
  <2>2. UNCHANGED run \/ StartRun(Stream(u)) \/ StartRun(Json(u))
    BY <1>2 DEF Serve, Yield, Respond, RespondToNobody, ResponseEnds
  <2>3. \A v \in Users : /\ ui'[v] = "streaming" => ui[v] = "streaming"
                         /\ ui'[v] = "streaming" => response'[v] # "ended"
    <3>1. CASE Yield(u)
      <4>1. response[u] = "open"  BY <3>1 DEF Yield
      <4>2. \/ /\ response' = [response EXCEPT ![u] = "ended"]
               /\ ui' = ui /\ ui[u] # "streaming"
            \/ /\ response' = [response EXCEPT ![u] = "ended"]
               /\ ui' = [ui EXCEPT ![u] = "shown"] \/ ui' = [ui EXCEPT ![u] = "error"]
            \/ UNCHANGED <<response, ui>>
        BY <3>1 DEF Yield
      <4>3. QED  BY <1>u, <4>2 DEF TypeOK
    <3>2. CASE Respond(u)
      BY <1>u, <3>2 DEF Respond, TypeOK
    <3>3. CASE RespondToNobody(u)
      BY <1>u, <3>3 DEF RespondToNobody, client
    <3>4. CASE ResponseEnds(u)
      BY <1>u, <3>4 DEF ResponseEnds, client, TypeOK
    <3>5. QED  BY <1>2, <3>1, <3>2, <3>3, <3>4 DEF Serve
  <2>4. Stream(u) \in Requests /\ Json(u) \in Requests
    BY RequestOf
  <2>5. \A q \in Requests : run'[q] = run[q] \/ (run[q] = "added" /\ run'[q] = "started")
    BY <1>s, <2>2, <2>4
  <2>6. QED  BY <1>a, <2>1, <2>3, <2>5
<1>3. ASSUME NEW u \in Users, Break(u) \/ Leave(u) \/ CutOff(u) PROVE Accounts'
  <2>1. UNCHANGED <<row, answer, run, response>>
    BY <1>3 DEF Break, Leave, CutOff, Open, server
  <2>2. \A v \in Users : ui'[v] = "streaming" => ui[v] = "streaming"
    BY <1>3 DEF Break, Leave, CutOff, TypeOK
  <2>3. UNCHANGED pc \/ (pc[Json(u)] = "idle" /\ pc' = [pc EXCEPT ![Json(u)] = "cache_check"])
    <3>1. Open(Json(u)) \/ UNCHANGED server
      BY <1>3 DEF Break, Leave, CutOff
    <3>2. QED  BY <3>1 DEF Open, Enter, server
  <2>4. \A r \in Requests : pc'[r] = pc[r] \/ (pc[r] = "idle" /\ pc'[r] = "cache_check")
    BY <2>3, RequestOf DEF TypeOK
  <2>5. QED  BY <1>a, <1>u, <2>1, <2>2, <2>4
<1>4. ASSUME NEW u \in Users, NEW f \in Filings, Analyze(u, f) \/ AskPlain(u, f)
      PROVE  Accounts'
  <2>1. UNCHANGED <<row, answer, run>> /\ ui[u] = "ready"
    BY <1>4 DEF Analyze, AskPlain, Open
  <2>2. \A v \in Users : /\ ui'[v] = "streaming" => ui[v] \in {"streaming", "ready"}
                         /\ ui'[v] = "streaming" => response'[v] # "ended"
    BY <1>4, <1>u DEF Analyze, AskPlain, TypeOK
  <2>3. \A r \in Requests : pc'[r] = pc[r] \/ (pc[r] = "idle" /\ pc'[r] = "cache_check")
    BY <1>4, RequestOf DEF Analyze, AskPlain, Open, Enter, TypeOK
  <2>4. QED  BY <1>a, <2>1, <2>2, <2>3
<1>5. CASE UNCHANGED vars
  <2>1. UNCHANGED <<row, answer, run, pc, ui, response>>
    BY <1>5 DEF vars, server, client
  <2>2. QED  BY <1>a, <1>u, <2>1
<1>6. QED  BY <1>r, <1>1, <1>2, <1>3, <1>4, <1>5 DEF Next

LEMMA AllIndexedShown ==
  TypeOK /\ Started /\ OneAnalysis /\ AllIndexed /\ Accounts => ShownIsIndexed
<1> SUFFICES ASSUME TypeOK, Started, OneAnalysis, AllIndexed, Accounts,
                    NEW u \in Users, ui[u] = "shown", restarts = 0
             PROVE  IF paid[Shown(u)] THEN run[Shown(u)] = "started"
                    ELSE answer[Shown(u)] \in Requests /\ Accounted(answer[Shown(u)])
  BY DEF ShownIsIndexed
<1> DEFINE r == Shown(u)
<1>1. r \in Requests /\ r[1] = u
  BY RequestOf DEF Shown, Stream, Json
<1>2. pc[r] = "done" /\ (paid[r] => run[r] = "started")
  BY DEF AllIndexed, Indexed, Shown
<1>3. ASSUME ~ paid[r] PROVE answer[r] \in Requests /\ Accounted(answer[r])
  <2>1. answer[r] # None
    BY <1>1, <1>2 DEF Accounts
  <2>2. answer[r] = row[Filing(r)] /\ answer[r] \in Requests
    BY <1>1, <2>1 DEF OneAnalysis, TypeOK
  <2>3. Filing(r) \in Filings
    BY <1>1 DEF Filing, Started
  <2>4. QED  BY <2>1, <2>2, <2>3 DEF Accounts
<1>4. QED  BY <1>2, <1>3

\* Every analysis a user is shown has its index run started, if the request that
\* shows it paid for it; if it is a stored row, the request that stored it has
\* started its run or is about to, except where its insert was reported as failed
\* after it was applied, or its own client had left the stream.  A run is lost in
\* no other way while the server is not restarted.
THEOREM ShownAnalysisIsIndexed == Spec => []ShownIsIndexed
<1> DEFINE Inv == TypeOK /\ Started /\ OneAnalysis /\ Feeds /\ AllIndexed /\ Accounts
<1>1. Init => Inv
  BY StartedInit, FeedsInit, AllIndexedInit, AccountsInit DEF Init, OneAnalysis
<1>2. Inv /\ [Next]_vars => Inv'
  BY TypeNext, StartedNext, OneAnalysisNext, FeedsNext, AllIndexedNext, AccountsNext
<1>3. Inv => ShownIsIndexed
  BY AllIndexedShown
<1>4. QED  BY <1>1, <1>2, <1>3, PTL DEF Spec
=============================================================================
