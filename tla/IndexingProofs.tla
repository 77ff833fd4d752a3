--------------------------- MODULE IndexingProofs ---------------------------
(***************************************************************************)
(* Theorems about Indexing, for any filings, any batch plans and any number*)
(* of requests, scripts and pollers.                                       *)
(***************************************************************************)
EXTENDS Indexing, FiniteSetTheorems, TLAPS

-----------------------------------------------------------------------------
(* The batch plan. *)

\* A filing has a chunk.
LEMMA TotalType == ASSUME NEW f \in Filings PROVE Total(f) \in Nat \ {0}
<1>1. Cost[f] \in Seq(Nat \ {0}) /\ Cost[f] # << >>
  BY ChunkPlanAssumption
<1>2. QED  BY <1>1 DEF Total

\* plan_batches never makes an empty batch and never runs past the end.
LEMMA PlanEndRange ==
  ASSUME NEW f \in Filings, NEW i \in 0 .. Total(f) - 1
  PROVE  PlanEnd[f][i] \in i + 1 .. Total(f)
<1> DEFINE fits == {j \in i + 1 .. Total(f) :
                       j = i + 1 \/ BatchTokens(f, i, j) <= TokenBudget}
<1>0. Total(f) \in Nat \ {0}  BY TotalType
<1>1. IsFiniteSet(i + 1 .. Total(f)) /\ Cardinality(i + 1 .. Total(f)) = Total(f) - i
  BY <1>0, FS_Interval
<1>2. IsFiniteSet(fits) /\ Cardinality(fits) <= Total(f) - i
  <2>1. fits \in SUBSET (i + 1 .. Total(f))  OBVIOUS
  <2>2. QED  BY <1>1, <2>1, FS_Subset
<1>3. Cardinality(fits) \in Nat
  BY <1>2, FS_CardinalityType
<1>4. i + 1 \in fits
  BY <1>0
<1>5. Cardinality(fits) # 0
  BY <1>2, <1>4, FS_EmptySet
<1>6. PlanEnd[f][i] = i + Cardinality(fits)
  BY DEF PlanEnd
<1>7. QED
  BY <1>0, <1>2, <1>3, <1>5, <1>6

\* The cuts of the plan: the start is one, a batch that starts at one ends at
\* one, and they lie within the filing.
LEMMA BoundaryClosed ==
  ASSUME NEW f \in Filings
  PROVE  /\ Boundary[f] \subseteq 0 .. Total(f)
         /\ 0 \in Boundary[f]
         /\ \A b \in Boundary[f] : b < Total(f) => PlanEnd[f][b] \in Boundary[f]
<1>0. Total(f) \in Nat \ {0}  BY TotalType
<1>1. Boundary[f] = {b \in 0 .. Total(f) : \A B \in Closed(f) : b \in B}
  BY DEF Boundary
<1>2. 0 \in Boundary[f]
  BY <1>0, <1>1 DEF Closed
<1>3. ASSUME NEW b \in Boundary[f], b < Total(f)
      PROVE  PlanEnd[f][b] \in Boundary[f]
  <2>1. b \in 0 .. Total(f) - 1  BY <1>0, <1>1, <1>3
  <2>2. PlanEnd[f][b] \in 0 .. Total(f)  BY <1>0, <2>1, PlanEndRange
  <2>3. ASSUME NEW B \in Closed(f) PROVE PlanEnd[f][b] \in B
    BY <1>1, <1>3, <2>3 DEF Closed
  <2>4. QED  BY <1>1, <2>2, <2>3
<1>4. QED  BY <1>1, <1>2, <1>3

\* Whatever contains the start and takes one more batch wherever it can
\* contains every cut.
LEMMA BoundaryLeast ==
  ASSUME NEW f \in Filings, NEW B \in SUBSET (0 .. Total(f)), 0 \in B,
         \A b \in B : b < Total(f) => PlanEnd[f][b] \in B
  PROVE  Boundary[f] \subseteq B
<1>1. B \in Closed(f)  BY DEF Closed
<1>2. QED  BY <1>1 DEF Boundary

\* No cut falls inside the batch that starts at a cut.
LEMMA BoundaryGap ==
  ASSUME NEW f \in Filings, NEW a \in Boundary[f], NEW b \in Boundary[f], a < b
  PROVE  PlanEnd[f][a] <= b
<1> DEFINE Bd == Boundary[f]
           Inside(x, y) == x < y /\ y < PlanEnd[f][x]
           \* the cuts into whose past no cut's batch reaches over them
           Good == {y \in Bd : \A x \in Bd : ~ Inside(x, y)}
<1>0. Total(f) \in Nat \ {0}  BY TotalType
<1>1. Bd \subseteq 0 .. Total(f) /\ 0 \in Bd
  BY BoundaryClosed
<1>2. \A x \in Bd : x < Total(f) => /\ PlanEnd[f][x] \in Bd
                                   /\ PlanEnd[f][x] \in x + 1 .. Total(f)
  <2> SUFFICES ASSUME NEW x \in Bd, x < Total(f)
               PROVE  PlanEnd[f][x] \in Bd /\ PlanEnd[f][x] \in x + 1 .. Total(f)
    OBVIOUS
  <2>1. x \in 0 .. Total(f) - 1  BY <1>0, <1>1
  <2>2. QED  BY <2>1, BoundaryClosed, PlanEndRange
<1>3. 0 \in Good
  BY <1>0, <1>1
<1>4. ASSUME NEW y \in Good, y < Total(f)
      PROVE  PlanEnd[f][y] \in Good
  <2> DEFINE z == PlanEnd[f][y]
             \* no cut lies strictly inside y's own batch
             Outside == {x \in Bd : ~ Inside(y, x)}
  <2>0. y \in Bd /\ z \in Bd /\ z \in y + 1 .. Total(f)  BY <1>2, <1>4
  <2>1. Bd \subseteq Outside
    <3>1. Outside \in SUBSET (0 .. Total(f))  BY <1>1
    <3>2. 0 \in Outside  BY <1>0, <1>1, <2>0
    <3>3. ASSUME NEW x \in Outside, x < Total(f) PROVE PlanEnd[f][x] \in Outside
      <4>1. x \in Bd /\ x \in Nat /\ y \in Nat /\ z \in Nat  BY <1>1, <2>0
      <4>2. PlanEnd[f][x] \in Bd /\ PlanEnd[f][x] \in x + 1 .. Total(f)
        BY <1>2, <3>3, <4>1
      <4>3. CASE x < y
        <5>1. PlanEnd[f][x] <= y  BY <1>0, <1>1, <1>4, <4>1, <4>2, <4>3
        <5>2. QED  BY <1>0, <4>1, <4>2, <5>1
      <4>4. CASE x = y
        BY <1>0, <4>1, <4>2, <4>4
      <4>5. CASE x > y
        <5>1. x >= z  BY <3>3, <4>1, <4>5
        <5>2. QED  BY <1>0, <4>1, <4>2, <5>1
      <4>6. QED  BY <4>1, <4>3, <4>4, <4>5
    <3>4. QED  BY <3>1, <3>2, <3>3, BoundaryLeast
  <2>2. ASSUME NEW x \in Bd PROVE ~ Inside(x, z)
    <3>1. x \in Nat /\ y \in Nat /\ z \in Nat  BY <1>1, <2>0
    <3>2. CASE x < y
      <4>1. x < Total(f)  BY <1>0, <1>4, <3>1, <3>2
      <4>2. PlanEnd[f][x] \in Nat  BY <1>0, <1>2, <4>1, <3>1
      <4>3. PlanEnd[f][x] <= y  BY <1>4, <3>1, <3>2, <4>2
      <4>4. QED  BY <2>0, <3>1, <4>2, <4>3
    <3>3. CASE x = y
      BY <2>0, <3>1, <3>3
    <3>4. CASE x > y
      <4>1. x >= z  BY <2>1, <3>1, <3>4
      <4>2. QED  BY <3>1, <4>1
    <3>5. QED  BY <3>1, <3>2, <3>3, <3>4
  <2>3. QED  BY <2>0, <2>2
<1>5. Bd \subseteq Good
  <2>1. Good \in SUBSET (0 .. Total(f))  BY <1>1
  <2>2. QED  BY <1>3, <1>4, <2>1, BoundaryLeast
<1>6. a \in Nat /\ b \in Nat /\ a < Total(f)
  BY <1>0, <1>1
<1>7. PlanEnd[f][a] \in Nat
  BY <1>0, <1>2, <1>6
<1>8. QED
  BY <1>5, <1>6, <1>7
-----------------------------------------------------------------------------
(* Types, with what they need: a process that is not idle has a filing, and *)
(* no chunk is stored or aimed at beyond the filing's end.                  *)

Working == \A p \in Procs : pc[p] # "idle" => file[p] \in Filings

StoredWithin == \A f \in Filings : chunks[f] \subseteq Whole(f)

LoopWithin ==
    \A p \in Procs : pc[p] = "embedding" => count[p] \in 0 .. Total(file[p]) - 1

TypeInv == TypeOK /\ Working /\ StoredWithin /\ LoopWithin

\* A filing's stored chunks can be counted, and there are at most all of them.
LEMMA StoredCount ==
  ASSUME NEW f \in Filings, chunks[f] \subseteq Whole(f)
  PROVE  /\ Stored(f) \in 0 .. Total(f)
         /\ Stored(f) >= Total(f) => chunks[f] = Whole(f)
         /\ Stored(f) = 0 <=> chunks[f] = {}
<1>0. Total(f) \in Nat \ {0}  BY TotalType
<1>1. IsFiniteSet(Whole(f)) /\ Cardinality(Whole(f)) = Total(f)
  <2>1. IsFiniteSet(0 .. Total(f) - 1) /\ Cardinality(0 .. Total(f) - 1) = Total(f)
    BY <1>0, FS_Interval
  <2>2. QED  BY <2>1 DEF Whole, Prefix
<1>2. chunks[f] \in SUBSET Whole(f)  OBVIOUS
<1>3. /\ IsFiniteSet(chunks[f])
      /\ Cardinality(chunks[f]) <= Total(f)
      /\ Cardinality(Whole(f)) = Cardinality(chunks[f]) => Whole(f) = chunks[f]
  BY <1>1, <1>2, FS_Subset
<1>4. Cardinality(chunks[f]) \in Nat
  BY <1>3, FS_CardinalityType
<1>5. Cardinality(chunks[f]) = 0 <=> chunks[f] = {}
  BY <1>3, FS_EmptySet
<1>6. QED
  BY <1>0, <1>1, <1>3, <1>4, <1>5 DEF Stored

\* The resume point lies within the filing.
LEMMA ResumeWithin ==
  ASSUME TypeInv, NEW f \in Filings
  PROVE  ResumePoint(f) = Stored(f) /\ ResumePoint(f) \in 0 .. Total(f)
<1>1. Total(f) \in Nat \ {0} /\ Stored(f) \in 0 .. Total(f)
  BY TotalType, StoredCount DEF TypeInv, StoredWithin
<1>2. QED  BY <1>1 DEF ResumePoint

LEMMA TypeInvInit == Init => TypeInv
<1> SUFFICES ASSUME Init PROVE TypeInv  OBVIOUS
<1>1. \A f \in Filings : Boundary[f] \subseteq 0 .. Total(f) /\ Total(f) \in Nat \ {0}
  BY BoundaryClosed, TotalType
<1>2. \A f \in Filings : chunks[f] \subseteq Whole(f)
  <2> SUFFICES ASSUME NEW f \in Filings PROVE chunks[f] \subseteq Whole(f)  OBVIOUS
  <2>1. chunks[f] = {} \/ \E b \in Boundary[f] : chunks[f] = Prefix(b)
    BY DEF Init
  <2>2. QED  BY <1>1, <2>1 DEF Prefix, Whole
<1>3. chunks \in [Filings -> SUBSET Nat]
  <2>1. chunks = [f \in Filings |-> chunks[f]]  BY DEF Init
  <2>2. \A f \in Filings : chunks[f] \in SUBSET Nat
    BY <1>1, <1>2 DEF Whole, Prefix
  <2>3. QED  BY <2>1, <2>2
<1>4. TypeOK
  <2>1. rows \in SUBSET Filings  BY IndexingAssumption DEF Init
  <2>2. QED
    BY <1>3, <2>1 DEF Init, TypeOK, NoRecord, Record, ServerPc, ScriptPc
<1>5. QED
  BY <1>2, <1>4 DEF Init, TypeInv, Working, StoredWithin, LoopWithin

LEMMA TypeInvNext == TypeInv /\ [Next]_vars => TypeInv'
<1> SUFFICES ASSUME TypeInv, [Next]_vars PROVE TypeInv'  OBVIOUS
<1> USE DEF TypeInv, TypeOK, Working, StoredWithin, LoopWithin, durable, memory,
            ServerPc, ScriptPc, Procs, Server, Scripts
<1>0. \A f \in Filings : /\ Total(f) \in Nat \ {0}
                          /\ Stored(f) \in 0 .. Total(f)
  BY TotalType, StoredCount
<1>1. ASSUME NEW t \in Tasks, RequestStep(t) PROVE TypeInv'
  <2>1. ASSUME NEW f \in Filings, BeginAnalysis(t, f) PROVE TypeInv'
    BY <2>1 DEF BeginAnalysis, Begin
  <2>2. CASE AnalysisFails(t)
    BY <2>2 DEF AnalysisFails, Finish
  <2>3. CASE StoreRow(t)
    BY <1>0, <2>3 DEF StoreRow, Finish, Applied
  <2>4. CASE ScheduleAnalysed(t)
    BY <1>0, <2>4 DEF ScheduleAnalysed, Schedule, MarkScheduled, Goto, Record, States
  <2>5. CASE ScheduleUnattended(t)
    BY <1>0, <2>5 DEF ScheduleUnattended, Finish, MarkScheduled, Record, States
  <2>6. ASSUME NEW f \in Filings, ReindexRead(t, f) PROVE TypeInv'
    BY <2>6 DEF ReindexRead, Begin
  <2>7. CASE ReindexCount(t)
    BY <1>0, <2>7 DEF ReindexCount, Finish
  <2>8. CASE ReindexTotal(t)
    BY <1>0, <2>8 DEF ReindexTotal, Finish, Applied
  <2>9. CASE ReindexRefused(t)
    BY <2>9 DEF ReindexRefused, Finish
  <2>10. CASE ScheduleReindex(t)
    BY <1>0, <2>10 DEF ScheduleReindex, Schedule, MarkScheduled, Goto, Record, States
  <2>11. QED
    BY <1>1, <2>1, <2>2, <2>3, <2>4, <2>5, <2>6, <2>7, <2>8, <2>9, <2>10 DEF RequestStep
<1>2. ASSUME NEW p \in Procs, Resume(p) \/ BatchFails(p) \/ StoreBatch(p)
      PROVE  TypeInv'
  <2>1. CASE Resume(p)
    <3>1. /\ pc[p] = "resume" /\ file[p] \in Filings
          /\ ResumePoint(file[p]) \in 0 .. Total(file[p])
      BY <2>1, ResumeWithin DEF Resume
    <3>2. QED  BY <1>0, <2>1, <3>1 DEF Resume, EndBatches, Finish
  <2>2. CASE BatchFails(p)
    BY <2>2 DEF BatchFails, EndBatches, Finish
  <2>3. CASE StoreBatch(p)
    <3> DEFINE f == file[p]
               e == PlanEnd[f][count[p]]
    <3>1. /\ f \in Filings /\ count[p] \in 0 .. Total(f) - 1
          /\ e \in count[p] + 1 .. Total(f)
      BY <1>0, <2>3, PlanEndRange DEF StoreBatch
    <3>2. PICK n \in ReplySizes(f, count[p]) :
             /\ InsertRows(f, Zipped(count[p], n))
             /\ \/ /\ e < Total(f)
                   /\ count' = [count EXCEPT ![p] = e]
                   /\ UNCHANGED <<pc, file, seen>>
                \/ EndBatches(p)
      BY <2>3 DEF StoreBatch
    <3>3. n \in 0 .. e - count[p]
      BY <1>0, <3>1, <3>2 DEF ReplySizes
    <3>4. Zipped(count[p], n) \subseteq Whole(f)
      BY <1>0, <3>1, <3>3 DEF Zipped, Whole, Prefix
    <3>5. Whole(f) \subseteq Nat
      BY <1>0, <3>1 DEF Whole, Prefix
    <3>6. /\ chunks' \in [Filings -> SUBSET Nat]
          /\ \A g \in Filings : chunks'[g] \subseteq Whole(g)
      BY <3>1, <3>2, <3>4, <3>5 DEF InsertRows
    <3>7. UNCHANGED <<rows, expected, centroid, memory>> /\ pc[p] = "embedding"
      BY <2>3 DEF StoreBatch
    <3>8. CASE e < Total(f) /\ count' = [count EXCEPT ![p] = e] /\ UNCHANGED <<pc, file, seen>>
      BY <1>0, <3>1, <3>6, <3>7, <3>8
    <3>9. CASE EndBatches(p)
      BY <1>0, <3>1, <3>6, <3>7, <3>9 DEF EndBatches, Finish
    <3>10. QED  BY <3>2, <3>8, <3>9
  <2>4. QED  BY <1>2, <2>1, <2>2, <2>3
<1>3. ASSUME NEW t \in Tasks, AcquireLock(t) \/ FinishRun(t) \/ FinishUncounted(t)
      PROVE  TypeInv'
  <2>1. CASE AcquireLock(t)
    BY <2>1 DEF AcquireLock, Goto
  <2>2. CASE FinishRun(t)
    <3>1. pc[t] = "counting" /\ file[t] \in Filings  BY <2>2 DEF FinishRun
    <3>2. status' \in [Filings -> Record \cup {NoRecord}]
      BY <1>0, <2>2, <3>1 DEF FinishRun, OutcomeState, Record, States, NoRecord
    <3>3. QED  BY <2>2, <3>1, <3>2 DEF FinishRun, Finish
  <2>3. CASE FinishUncounted(t)
    BY <2>3 DEF FinishUncounted, Finish
  <2>4. QED  BY <1>3, <2>1, <2>2, <2>3
<1>4. ASSUME NEW p \in Procs, WriteCentroid(p) PROVE TypeInv'
  BY <1>4 DEF WriteCentroid, Finish
<1>5. ASSUME NEW s \in Scripts, ScriptStep(s) \/ TopUp(s) \/ RecordTotal(s) \/ CountForVector(s)
      PROVE  TypeInv'
  <2>1. CASE ScriptStops(s)
    BY <2>1 DEF ScriptStops, Finish
  <2>2. ASSUME NEW f \in Filings, ListCandidate(s, f) PROVE TypeInv'
    BY <2>2 DEF ListCandidate, Begin
  <2>3. CASE TopUp(s)
    BY <2>3 DEF TopUp, Goto, Finish
  <2>4. CASE RecordTotal(s)
    BY <1>0, <2>4 DEF RecordTotal, Finish, Applied
  <2>5. CASE CountForVector(s)
    BY <2>5 DEF CountForVector, Goto, Finish
  <2>6. QED  BY <1>5, <2>1, <2>2, <2>3, <2>4, <2>5 DEF ScriptStep
<1>6. ASSUME NEW p \in Pollers, PollStep(p) PROVE TypeInv'
  <2>1. ASSUME NEW f \in Filings, PollRow(p, f) PROVE TypeInv'
    BY <2>1 DEF PollRow, Begin
  <2>2. CASE PollCount(p)
    BY <1>0, <2>2 DEF PollCount, Goto
  <2>3. CASE PollAnswer(p)
    BY <2>3 DEF PollAnswer, Finish
  <2>4. QED  BY <1>6, <2>1, <2>2, <2>3 DEF PollStep
<1>7. CASE Restart
  BY <1>7 DEF Restart, NoRecord, Record
<1>8. CASE UNCHANGED vars
  BY <1>8 DEF vars, Stored
<1>9. QED
  BY <1>1, <1>2, <1>3, <1>4, <1>5, <1>6, <1>7, <1>8
     DEF Next, RunStep, BackfillStep, VectorStep

\* What the later proofs start from: every process works on a filing, and no
\* chunk lies beyond the end of its filing.
LEMMA TypeInvAlways == Spec => []TypeInv
<1>1. QED  BY TypeInvInit, TypeInvNext, PTL DEF Spec

\* Type correctness, for any filings, processes and faults: a count, a recorded
\* total or a resume point is never anything but a number of chunks.
THEOREM TypeCorrect == Spec => []TypeOK
<1>1. TypeInv => TypeOK  BY DEF TypeInv
<1>2. QED  BY <1>1, TypeInvAlways, PTL
-----------------------------------------------------------------------------
(* The resume point.  The invariant adds to PrefixStored that every run in  *)
(* its batch loop aims at a cut of the plan it has everything before of:    *)
(* that is why a batch either continues the prefix or is stored already.    *)

AimedAtCut ==
    \A p \in Procs : pc[p] = "embedding" =>
        /\ count[p] \in Boundary[file[p]]
        /\ Prefix(count[p]) \subseteq chunks[file[p]]

PlanInv == PrefixStored /\ AimedAtCut

\* A prefix is counted exactly.
LEMMA PrefixCount ==
  ASSUME NEW n \in Nat
  PROVE  Cardinality(Prefix(n)) = n
<1>1. Cardinality(0 .. n - 1) = n  BY FS_Interval
<1>2. QED  BY <1>1 DEF Prefix

\* The count of a filing whose chunks end at a cut is that cut.
LEMMA CutCount ==
  ASSUME NEW f \in Filings, NEW b \in Boundary[f], chunks[f] = Prefix(b)
  PROVE  Stored(f) = b /\ b \in 0 .. Total(f)
<1>1. b \in 0 .. Total(f)  BY BoundaryClosed
<1>2. b \in Nat  BY <1>1, TotalType
<1>3. QED  BY <1>1, <1>2, PrefixCount DEF Stored

\* A step that leaves the chunks alone and starts no batch loop keeps PlanInv.
LEMMA PlanInvKept ==
  ASSUME TypeInv, PlanInv, UNCHANGED chunks,
         \A p \in Procs : pc'[p] = "embedding" =>
            pc[p] = "embedding" /\ count'[p] = count[p] /\ file'[p] = file[p]
  PROVE  PlanInv'
BY DEF PlanInv, PrefixStored, AimedAtCut, TypeInv, Working

LEMMA PlanInvInit == Init => PlanInv
<1> SUFFICES ASSUME Init PROVE PlanInv  OBVIOUS
<1>1. PrefixStored
  <2> SUFFICES ASSUME NEW f \in Filings
               PROVE  \E b \in Boundary[f] : chunks[f] = Prefix(b)
    BY DEF PrefixStored
  <2>1. CASE f \in Legacy  BY <2>1 DEF Init
  <2>2. CASE f \notin Legacy
    <3>1. chunks[f] = {}  BY <2>2 DEF Init
    <3>2. Prefix(0) = {}  BY DEF Prefix
    <3>3. QED  BY <3>1, <3>2, BoundaryClosed
  <2>3. QED  BY <2>1, <2>2
<1>2. AimedAtCut  BY DEF Init, AimedAtCut
<1>3. QED  BY <1>1, <1>2 DEF PlanInv

\* Counting the stored chunks finds a cut with everything before it stored.
LEMMA ResumeStep ==
  ASSUME TypeInv, PlanInv, NEW p \in Procs, Resume(p)
  PROVE  PlanInv'
<1> DEFINE f == file[p]
<1>1. f \in Filings /\ pc[p] = "resume"
  BY DEF Resume, TypeInv, Working
<1>2. PICK b \in Boundary[f] : chunks[f] = Prefix(b)
  BY <1>1 DEF PlanInv, PrefixStored
<1>3. ResumePoint(f) = b
  BY <1>1, <1>2, CutCount, ResumeWithin
<1>4. CASE ResumePoint(f) < Total(f)
  <2>1. /\ pc' = [pc EXCEPT ![p] = "embedding"] /\ count' = [count EXCEPT ![p] = b]
        /\ UNCHANGED <<file, chunks>>
    BY <1>3, <1>4 DEF Resume, durable
  <2>2. QED
    BY <1>1, <1>2, <2>1
       DEF PlanInv, PrefixStored, AimedAtCut, TypeInv, TypeOK, Working
<1>5. CASE ~ (ResumePoint(f) < Total(f))
  <2>1. EndBatches(p) /\ UNCHANGED chunks
    BY <1>5 DEF Resume, durable
  <2>2. QED
    BY <2>1, PlanInvKept DEF EndBatches, Finish, TypeInv, TypeOK
<1>6. QED  BY <1>4, <1>5

\* A batch that starts at a cut with everything before it stored either
\* continues the prefix to the next cut, or is stored as a whole already.
LEMMA StoreBatchStep ==
  ASSUME "short_reply" \notin Faults,
         TypeInv, PlanInv, NEW p \in Procs, StoreBatch(p)
  PROVE  PlanInv'
<1> DEFINE f == file[p]
           c == count[p]
           e == PlanEnd[f][c]
<1>1. /\ f \in Filings /\ c \in 0 .. Total(f) - 1 /\ pc[p] = "embedding"
      /\ Total(f) \in Nat \ {0}
  BY TotalType DEF StoreBatch, TypeInv, Working, LoopWithin
<1>2. c \in Boundary[f] /\ Prefix(c) \subseteq chunks[f]
  BY <1>1 DEF PlanInv, AimedAtCut
<1>3. e \in c + 1 .. Total(f) /\ e \in Boundary[f]
  BY <1>1, <1>2, PlanEndRange, BoundaryClosed
<1>4. PICK b \in Boundary[f] : chunks[f] = Prefix(b)
  BY <1>1 DEF PlanInv, PrefixStored
<1>5. b \in 0 .. Total(f) /\ c <= b
  <2>1. b \in 0 .. Total(f)  BY <1>1, BoundaryClosed
  <2>2. CASE c = 0  BY <1>1, <2>1, <2>2
  <2>3. CASE c # 0
    <3>1. c - 1 \in Prefix(c)  BY <1>1, <2>3 DEF Prefix
    <3>2. c - 1 \in Prefix(b)  BY <1>2, <1>4, <3>1
    <3>3. QED  BY <1>1, <2>1, <3>2 DEF Prefix
  <2>4. QED  BY <2>2, <2>3
<1>6. PICK n \in ReplySizes(f, c) :
         /\ InsertRows(f, Zipped(c, n))
         /\ \/ /\ e < Total(f)
               /\ count' = [count EXCEPT ![p] = e]
               /\ UNCHANGED <<pc, file, seen>>
            \/ EndBatches(p)
  BY DEF StoreBatch
<1>7. n = e - c  BY <1>6 DEF ReplySizes
<1>8. Zipped(c, n) = c .. e - 1
  BY <1>1, <1>3, <1>7 DEF Zipped
<1>9. PICK d \in Boundary[f] :
         /\ chunks' = [chunks EXCEPT ![f] = Prefix(d)]
         /\ chunks[f] \subseteq Prefix(d)
         /\ e <= d /\ d \in Nat
  <2>1. CASE b = c
    <3>1. chunks[f] \cap (c .. e - 1) = {}
      BY <1>1, <1>3, <1>4, <2>1 DEF Prefix
    <3>2. chunks[f] \cup (c .. e - 1) = Prefix(e)
      BY <1>1, <1>3, <1>4, <2>1 DEF Prefix
    <3>3. chunks' = [chunks EXCEPT ![f] = Prefix(e)]
      BY <1>6, <1>8, <3>1, <3>2 DEF InsertRows
    <3>4. chunks[f] \subseteq Prefix(e)  BY <3>2
    <3>5. e \in Nat /\ e <= e  BY <1>1, <1>3
    <3>6. QED  BY <1>3, <3>3, <3>4, <3>5
  <2>2. CASE c < b
    <3>1. e <= b  BY <1>1, <1>2, <2>2, BoundaryGap
    <3>2. c \in chunks[f] \cap (c .. e - 1)
      BY <1>1, <1>3, <1>4, <1>5, <2>2 DEF Prefix
    <3>3. chunks' = chunks
      BY <1>6, <1>8, <3>2 DEF InsertRows
    <3>4. chunks = [chunks EXCEPT ![f] = Prefix(b)]
      BY <1>1, <1>4 DEF TypeInv, TypeOK
    <3>5. QED  BY <1>1, <1>4, <1>5, <3>1, <3>3, <3>4
  <2>3. QED  BY <1>1, <1>5, <2>1, <2>2
<1>10. \A g \in Filings : chunks[g] \subseteq chunks'[g]
  BY <1>1, <1>9 DEF TypeInv, TypeOK
<1>11. PrefixStored'
  BY <1>1, <1>9 DEF PlanInv, PrefixStored, TypeInv, TypeOK
<1>12. Prefix(e) \subseteq chunks'[f]
  BY <1>1, <1>3, <1>9 DEF Prefix, TypeInv, TypeOK
<1>13. AimedAtCut'
  <2> SUFFICES ASSUME NEW q \in Procs, pc'[q] = "embedding"
               PROVE  /\ count'[q] \in Boundary[file'[q]]
                      /\ Prefix(count'[q]) \subseteq chunks'[file'[q]]
    BY DEF AimedAtCut
  <2>1. CASE q = p
    <3>1. count' = [count EXCEPT ![p] = e] /\ file' = file
      BY <1>6, <2>1 DEF EndBatches, Finish, TypeInv, TypeOK
    <3>2. count'[p] = e  BY <3>1 DEF TypeInv, TypeOK
    <3>3. QED  BY <1>3, <1>12, <2>1, <3>1, <3>2
  <2>2. CASE q # p
    <3>1. pc[q] = "embedding" /\ count'[q] = count[q] /\ file'[q] = file[q]
      BY <1>6, <2>2 DEF EndBatches, Finish, TypeInv, TypeOK
    <3>2. file[q] \in Filings  BY <3>1 DEF TypeInv, Working
    <3>3. QED  BY <1>10, <3>1, <3>2 DEF PlanInv, AimedAtCut
  <2>3. QED  BY <2>1, <2>2
<1>14. QED  BY <1>11, <1>13 DEF PlanInv

LEMMA PlanInvNext ==
  ASSUME "short_reply" \notin Faults
  PROVE  TypeInv /\ PlanInv /\ [Next]_vars => PlanInv'
<1> SUFFICES ASSUME TypeInv, PlanInv, [Next]_vars PROVE PlanInv'  OBVIOUS
<1> USE DEF durable, Finish, Goto, Begin, TypeInv, TypeOK, Procs, Server, Scripts
<1>1. ASSUME NEW t \in Tasks, RequestStep(t) PROVE PlanInv'
  BY <1>1, PlanInvKept
     DEF RequestStep, BeginAnalysis, AnalysisFails, StoreRow, ScheduleAnalysed,
         ScheduleUnattended, Schedule, ReindexRead, ReindexCount, ReindexTotal,
         ReindexRefused, ScheduleReindex
<1>2. ASSUME NEW p \in Procs, BatchFails(p) PROVE PlanInv'
  BY <1>2, PlanInvKept DEF BatchFails, EndBatches
<1>3. ASSUME NEW t \in Tasks, AcquireLock(t) \/ FinishRun(t) \/ FinishUncounted(t)
      PROVE  PlanInv'
  BY <1>3, PlanInvKept DEF AcquireLock, FinishRun, FinishUncounted
<1>4. ASSUME NEW p \in Procs, WriteCentroid(p) PROVE PlanInv'
  BY <1>4, PlanInvKept DEF WriteCentroid
<1>5. ASSUME NEW s \in Scripts, ScriptStep(s) \/ TopUp(s) \/ RecordTotal(s) \/ CountForVector(s)
      PROVE  PlanInv'
  BY <1>5, PlanInvKept
     DEF ScriptStep, ScriptStops, ListCandidate, TopUp, RecordTotal, CountForVector
<1>6. ASSUME NEW p \in Pollers, PollStep(p) PROVE PlanInv'
  BY <1>6, PlanInvKept DEF PollStep, PollRow, PollCount, PollAnswer
<1>7. CASE Restart
  BY <1>7, PlanInvKept DEF Restart
<1>8. CASE UNCHANGED vars
  BY <1>8, PlanInvKept DEF vars
<1>9. QED
  BY <1>1, <1>2, <1>3, <1>4, <1>5, <1>6, <1>7, <1>8, ResumeStep, StoreBatchStep
     DEF Next, RunStep, BackfillStep, VectorStep

\* The chunk count of a filing is always a sound point to resume from, however
\* the server's runs, the backfills, their failures and restarts interleave, as
\* long as Gemini answers a batch with an embedding for each of its texts.
THEOREM ResumePointSound ==
  ASSUME "short_reply" \notin Faults
  PROVE  Spec => []PrefixStored
<1>1. TypeInv /\ PlanInv /\ [Next]_vars => TypeInv' /\ PlanInv'
  BY TypeInvNext, PlanInvNext
<1>2. Init => TypeInv /\ PlanInv
  BY TypeInvInit, PlanInvInit
<1>3. PlanInv => PrefixStored
  BY DEF PlanInv
<1>4. QED  BY <1>1, <1>2, <1>3, PTL DEF Spec
-----------------------------------------------------------------------------
(* What is claimed of a filing.  None of this needs the prefix: it holds     *)
(* under every fault, because a count that reaches the recorded total leaves *)
(* no chunk out.                                                             *)

\* Every total on record is the filing's own.
TotalsRight ==
    \A f \in Filings :
        /\ expected[f] \in {0, Total(f)}
        /\ f \in rows \ Legacy => expected[f] = Total(f)
        /\ status[f] # NoRecord => status[f].total = Total(f)

\* A run to come or under way has a record, so it never falls back to its count.
RunRecorded == \A t \in Tasks : RunPending(t) => status[file[t]] # NoRecord

\* A process that read a row read its total, and a count only becomes too low.
ReadRight ==
    \A p \in Procs :
        /\ pc[p] \in {"listed", "polling", "counted"} /\ file[p] \notin Legacy
              => seen[p] = Total(file[p])
        /\ pc[p] = "counted" => count[p] <= Stored(file[p])

\* A centroid is about to be written for a whole filing only, or for what is
\* stored of a legacy one.
WholeFirst ==
    \A p \in Procs : pc[p] = "centroid" =>
        /\ chunks[file[p]] # {}
        /\ file[p] \notin Legacy => chunks[file[p]] = Whole(file[p])

ClaimInv == TotalsRight /\ RunRecorded /\ ReadRight /\ WholeFirst /\ CentroidOfWhole

LEMMA ClaimInvInit == Init => ClaimInv
<1> SUFFICES ASSUME Init PROVE ClaimInv  OBVIOUS
<1>1. TotalsRight  BY DEF Init, TotalsRight
<1>2. \A p \in Procs : pc[p] = "idle"  BY DEF Init
<1>3. RunRecorded /\ ReadRight /\ WholeFirst
  BY <1>2 DEF RunRecorded, RunPending, ReadRight, WholeFirst, Procs, Server
<1>4. CentroidOfWhole  BY DEF Init, CentroidOfWhole
<1>5. QED  BY <1>1, <1>3, <1>4 DEF ClaimInv

\* Stored chunks are never lost.
LEMMA ChunksGrow ==
  ASSUME TypeInv, [Next]_vars
  PROVE  \A f \in Filings : /\ chunks[f] \subseteq chunks'[f]
                            /\ chunks[f] = Whole(f) => chunks'[f] = Whole(f)
                            /\ Stored(f) <= Cardinality(chunks'[f])
<1>1. \A f \in Filings : chunks[f] \subseteq chunks'[f]
  <2> USE DEF TypeInv, TypeOK, durable
  <2>1. ASSUME NEW p \in Procs, StoreBatch(p)
        PROVE  \A f \in Filings : chunks[f] \subseteq chunks'[f]
    <3>1. PICK n : InsertRows(file[p], Zipped(count[p], n))
      BY <2>1 DEF StoreBatch
    <3>2. QED  BY <3>1 DEF InsertRows
  <2>2. ASSUME NEW p \in Procs, Resume(p) \/ BatchFails(p) \/ WriteCentroid(p)
        PROVE  UNCHANGED chunks
    BY <2>2 DEF Resume, BatchFails, WriteCentroid
  <2>3. ASSUME NEW t \in Tasks, RequestStep(t) PROVE UNCHANGED chunks
    BY <2>3 DEF RequestStep, BeginAnalysis, AnalysisFails, StoreRow, ScheduleAnalysed,
         ScheduleUnattended, Schedule, ReindexRead, ReindexCount, ReindexTotal,
         ReindexRefused, ScheduleReindex
  <2>4. ASSUME NEW t \in Tasks, AcquireLock(t) \/ FinishRun(t) \/ FinishUncounted(t)
        PROVE  UNCHANGED chunks
    BY <2>4 DEF AcquireLock, FinishRun, FinishUncounted
  <2>5. ASSUME NEW s \in Scripts, ScriptStep(s) \/ TopUp(s) \/ RecordTotal(s) \/ CountForVector(s)
        PROVE  UNCHANGED chunks
    BY <2>5 DEF ScriptStep, ScriptStops, ListCandidate, TopUp, RecordTotal, CountForVector
  <2>6. ASSUME NEW p \in Pollers, PollStep(p) PROVE UNCHANGED chunks
    BY <2>6 DEF PollStep, PollRow, PollCount, PollAnswer
  <2>7. CASE Restart  BY <2>7 DEF Restart
  <2>8. CASE UNCHANGED vars  BY <2>8 DEF vars
  <2>9. QED
    BY <2>1, <2>2, <2>3, <2>4, <2>5, <2>6, <2>7, <2>8
       DEF Next, RunStep, BackfillStep, VectorStep, Procs, Server, Scripts
<1>2. TypeInv'  BY TypeInvNext
<1>3. SUFFICES ASSUME NEW f \in Filings
               PROVE  /\ chunks[f] = Whole(f) => chunks'[f] = Whole(f)
                      /\ Stored(f) <= Cardinality(chunks'[f])
  BY <1>1
<1>4. chunks'[f] \subseteq Whole(f)
  BY <1>2 DEF TypeInv, StoredWithin
<1>5. IsFiniteSet(chunks'[f])
  <2>1. Total(f) \in Nat \ {0}  BY TotalType
  <2>2. IsFiniteSet(0 .. Total(f) - 1)  BY <2>1, FS_Interval
  <2>3. chunks'[f] \in SUBSET (0 .. Total(f) - 1)  BY <1>4 DEF Whole, Prefix
  <2>4. QED  BY <2>2, <2>3, FS_Subset
<1>6. Cardinality(chunks[f]) <= Cardinality(chunks'[f])
  <2>1. chunks[f] \in SUBSET chunks'[f]  BY <1>1
  <2>2. QED  BY <1>5, <2>1, FS_Subset
<1>7. QED  BY <1>1, <1>4, <1>6 DEF Stored

LEMMA ClaimInvNext == TypeInv /\ ClaimInv /\ [Next]_vars => ClaimInv'
<1> SUFFICES ASSUME TypeInv, ClaimInv, [Next]_vars PROVE ClaimInv'  OBVIOUS
<1>0. /\ \A f \in Filings : /\ Total(f) \in Nat \ {0}
                            /\ Stored(f) \in 0 .. Total(f)
                            /\ Stored(f) >= Total(f) => chunks[f] = Whole(f)
                            /\ Stored(f) > 0 => chunks[f] # {}
      /\ \A f \in Filings : /\ chunks[f] = Whole(f) => chunks'[f] = Whole(f)
                            /\ chunks[f] \subseteq chunks'[f]
                            /\ Stored(f) <= Cardinality(chunks'[f])
  BY TotalType, StoredCount, ChunksGrow DEF TypeInv, StoredWithin
<1>a. \A f \in Filings : OutcomeState(Stored(f), Total(f)) = "complete" => chunks[f] = Whole(f)
  <2> SUFFICES ASSUME NEW f \in Filings, OutcomeState(Stored(f), Total(f)) = "complete"
               PROVE  chunks[f] = Whole(f)
    OBVIOUS
  <2>1. Stored(f) >= Total(f)  BY DEF OutcomeState
  <2>2. QED  BY <1>0, <2>1
<1>b. ASSUME \A q \in Procs :
               \/ pc'[q] \notin {"listed", "polling", "counted"}
               \/ pc'[q] = pc[q] /\ file'[q] = file[q] /\ seen'[q] = seen[q] /\ count'[q] = count[q]
      PROVE  ReadRight'
  <2> SUFFICES ASSUME NEW q \in Procs, pc'[q] \in {"listed", "polling", "counted"}
               PROVE  /\ file'[q] \notin Legacy => seen'[q] = Total(file'[q])
                      /\ pc'[q] = "counted" => count'[q] <= Cardinality(chunks'[file'[q]])
    BY DEF ReadRight, Stored
  <2>1. /\ pc'[q] = pc[q] /\ file'[q] = file[q] /\ seen'[q] = seen[q] /\ count'[q] = count[q]
        /\ file[q] \in Filings /\ count[q] \in Nat
    BY <1>b DEF TypeInv, TypeOK, Working
  <2>2. file[q] \notin Legacy => seen[q] = Total(file[q])
    BY <2>1 DEF ClaimInv, ReadRight
  <2>3. pc[q] = "counted" => count[q] <= Stored(file[q])
    BY DEF ClaimInv, ReadRight
  <2>4. Stored(file[q]) \in Nat /\ Stored(file[q]) <= Cardinality(chunks'[file[q]])
    BY <1>0, <2>1
  <2>5. Cardinality(chunks'[file[q]]) \in Nat
    <3>1. TypeInv'  BY TypeInvNext
    <3>2. chunks'[file[q]] \subseteq Whole(file[q]) /\ Total(file[q]) \in Nat
      BY <1>0, <2>1, <3>1 DEF TypeInv, StoredWithin
    <3>3. IsFiniteSet(Whole(file[q]))  BY <3>2, FS_Interval DEF Whole, Prefix
    <3>4. QED  BY <3>2, <3>3, FS_Subset, FS_CardinalityType
  <2>6. QED  BY <2>1, <2>2, <2>3, <2>4, <2>5
<1> USE DEF ClaimInv, TotalsRight, RunRecorded, RunPending, ReadRight, WholeFirst,
            CentroidOfWhole, Stored, durable, memory, Finish, Goto, Begin,
            TypeInv, TypeOK, Working, Procs, Server, Scripts
<1>1. ASSUME NEW t \in Tasks, RequestStep(t) PROVE ClaimInv'
  <2>1. ASSUME NEW f \in Filings, BeginAnalysis(t, f) PROVE ClaimInv'
    BY <1>0, <2>1 DEF BeginAnalysis
  <2>2. CASE AnalysisFails(t)
    BY <1>0, <2>2 DEF AnalysisFails
  <2>3. CASE StoreRow(t)
    BY <1>0, <2>3 DEF StoreRow
  <2>4. CASE ScheduleAnalysed(t)
    BY <1>0, <2>4 DEF ScheduleAnalysed, Schedule, MarkScheduled, NoRecord
  <2>5. CASE ScheduleUnattended(t)
    BY <1>0, <2>5 DEF ScheduleUnattended, MarkScheduled, NoRecord
  <2>6. ASSUME NEW f \in Filings, ReindexRead(t, f) PROVE ClaimInv'
    BY <1>0, <2>6 DEF ReindexRead
  <2>7. CASE ReindexCount(t)
    BY <1>0, <2>7 DEF ReindexCount
  <2>8. CASE ReindexTotal(t)
    BY <1>0, <2>8 DEF ReindexTotal
  <2>9. CASE ReindexRefused(t)
    BY <1>0, <2>9 DEF ReindexRefused
  <2>10. CASE ScheduleReindex(t)
    BY <1>0, <2>10 DEF ScheduleReindex, Schedule, MarkScheduled, NoRecord
  <2>11. QED
    BY <1>1, <2>1, <2>2, <2>3, <2>4, <2>5, <2>6, <2>7, <2>8, <2>9, <2>10 DEF RequestStep
<1>2. ASSUME NEW p \in Procs, Resume(p) \/ BatchFails(p) \/ StoreBatch(p) PROVE ClaimInv'
  <2>1. UNCHANGED <<rows, expected, centroid, status>> /\ pc[p] \in {"resume", "embedding"}
    BY <1>2 DEF Resume, BatchFails, StoreBatch
  <2>2. \/ EndBatches(p)
        \/ /\ pc' = [pc EXCEPT ![p] = "embedding"] \/ UNCHANGED pc
           /\ \E c : count' = [count EXCEPT ![p] = c]
           /\ UNCHANGED <<file, seen>>
    BY <1>2 DEF Resume, BatchFails, StoreBatch
  <2>3. CASE EndBatches(p)
    <3>1. TotalsRight' /\ CentroidOfWhole'
      BY <2>1
    <3>2. RunRecorded'
      BY <2>1, <2>3 DEF EndBatches
    <3>3. ReadRight'
      <4>1. \A q \in Procs :
               \/ pc'[q] \notin {"listed", "polling", "counted"}
               \/ pc'[q] = pc[q] /\ file'[q] = file[q] /\ seen'[q] = seen[q] /\ count'[q] = count[q]
        BY <2>1, <2>3 DEF EndBatches
      <4>2. QED  BY <1>b, <4>1
    <3>4. WholeFirst'
      BY <1>0, <2>1, <2>3 DEF EndBatches
    <3>5. QED  BY <3>1, <3>2, <3>3, <3>4
  <2>4. CASE ~ EndBatches(p)
    <3>1. /\ pc' = [pc EXCEPT ![p] = "embedding"] \/ UNCHANGED pc
          /\ \A q \in Procs : q # p => count'[q] = count[q]
          /\ UNCHANGED <<file, seen>>
      BY <2>2, <2>4
    <3>2. TotalsRight' /\ CentroidOfWhole'
      BY <2>1
    <3>3. RunRecorded'
      BY <2>1, <3>1
    <3>4. ReadRight'
      BY <1>b, <2>1, <3>1
    <3>5. WholeFirst'
      BY <1>0, <2>1, <3>1
    <3>6. QED  BY <3>2, <3>3, <3>4, <3>5
  <2>5. QED  BY <2>3, <2>4
<1>3. ASSUME NEW t \in Tasks, AcquireLock(t) \/ FinishRun(t) \/ FinishUncounted(t)
      PROVE  ClaimInv'
  <2>1. CASE AcquireLock(t)
    BY <1>0, <2>1 DEF AcquireLock
  <2>2. CASE FinishRun(t)
    <3> DEFINE f == file[t]
    <3>1. pc[t] = "counting" /\ f \in Filings /\ status[f] # NoRecord
          /\ status[f].total = Total(f)
      BY <2>2 DEF FinishRun
    <3>2. /\ status' = [status EXCEPT ![f] = [state |-> OutcomeState(Stored(f), Total(f)),
                                              total |-> Total(f)]]
          /\ UNCHANGED durable
          /\ \/ /\ OutcomeState(Stored(f), Total(f)) = "complete" /\ Stored(f) > 0
                /\ pc' = [pc EXCEPT ![t] = "centroid"]
                /\ UNCHANGED <<file, count, seen>>
             \/ Finish(t)
      BY <2>2, <3>1 DEF FinishRun
    <3>3. OutcomeState(Stored(f), Total(f)) = "complete" => chunks[f] = Whole(f)
      BY <1>a, <3>1
    <3>4. status'[f] # NoRecord /\ status'[f].total = Total(f)
          /\ \A g \in Filings : g # f => status'[g] = status[g]
      BY <3>1, <3>2 DEF OutcomeState, NoRecord
    <3>5. QED
      BY <1>0, <3>1, <3>2, <3>3, <3>4
  <2>3. CASE FinishUncounted(t)
    BY <1>0, <2>3 DEF FinishUncounted
  <2>4. QED  BY <1>3, <2>1, <2>2, <2>3
<1>4. ASSUME NEW p \in Procs, WriteCentroid(p) PROVE ClaimInv'
  BY <1>0, <1>4 DEF WriteCentroid
<1>5. ASSUME NEW s \in Scripts, ScriptStep(s) \/ TopUp(s) \/ RecordTotal(s) \/ CountForVector(s)
      PROVE  ClaimInv'
  <2>1. CASE ScriptStops(s)
    BY <1>0, <2>1 DEF ScriptStops
  <2>2. ASSUME NEW f \in Filings, ListCandidate(s, f) PROVE ClaimInv'
    BY <1>0, <2>2 DEF ListCandidate
  <2>3. CASE TopUp(s)
    BY <1>0, <2>3 DEF TopUp
  <2>4. CASE RecordTotal(s)
    <3>1. /\ pc[s] = "recorded" /\ file[s] \in Filings
          /\ expected' = expected \/ expected' = [expected EXCEPT ![file[s]] = Total(file[s])]
          /\ \/ pc' = [pc EXCEPT ![s] = "resume"] /\ UNCHANGED <<file, count, seen>>
             \/ Finish(s)
          /\ UNCHANGED <<rows, chunks, centroid, status>>
      BY <2>4 DEF RecordTotal
    <3>2. TotalsRight' /\ CentroidOfWhole'
      BY <3>1
    <3>3. RunRecorded'
      BY <3>1, IndexingAssumption
    <3>4. ReadRight'
      BY <1>0, <3>1
    <3>5. WholeFirst'
      BY <3>1
    <3>6. QED  BY <3>2, <3>3, <3>4, <3>5
  <2>5. CASE CountForVector(s)
    <3> DEFINE f == file[s]
    <3>1. /\ pc[s] = "listed" /\ f \in Filings
          /\ \/ /\ Stored(f) > 0 /\ ~ (seen[s] # 0 /\ Stored(f) < seen[s])
                /\ pc' = [pc EXCEPT ![s] = "centroid"] /\ UNCHANGED <<file, count, seen>>
             \/ Finish(s)
          /\ UNCHANGED <<rows, expected, chunks, centroid, status>>
      BY <2>5 DEF CountForVector
    <3>2. f \notin Legacy => seen[s] = Total(f)
      BY <3>1
    <3>3. pc'[s] = "centroid" =>
             chunks[f] # {} /\ (f \notin Legacy => chunks[f] = Whole(f))
      BY <1>0, <3>1, <3>2
    <3>4. TotalsRight' /\ CentroidOfWhole'
      BY <3>1
    <3>5. RunRecorded'
      BY <3>1
    <3>6. ReadRight'
      BY <1>0, <3>1
    <3>7. WholeFirst'
      BY <3>1, <3>3
    <3>8. QED  BY <3>4, <3>5, <3>6, <3>7
  <2>6. QED  BY <1>5, <2>1, <2>2, <2>3, <2>4, <2>5 DEF ScriptStep
<1>6. ASSUME NEW p \in Pollers, PollStep(p) PROVE ClaimInv'
  <2>1. ASSUME NEW f \in Filings, PollRow(p, f) PROVE ClaimInv'
    BY <1>0, <2>1 DEF PollRow
  <2>2. CASE PollCount(p)
    <3>1. /\ pc[p] = "polling" /\ file[p] \in Filings
          /\ pc' = [pc EXCEPT ![p] = "counted"]
          /\ count' = [count EXCEPT ![p] = Stored(file[p])]
          /\ UNCHANGED <<rows, expected, chunks, centroid, status, file, seen>>
      BY <2>2 DEF PollCount
    <3>2. TotalsRight' /\ CentroidOfWhole' /\ RunRecorded' /\ WholeFirst'
      BY <3>1
    <3>3. ReadRight'
      BY <1>0, <3>1
    <3>4. QED  BY <3>2, <3>3
  <2>3. CASE PollAnswer(p)
    BY <1>0, <2>3 DEF PollAnswer
  <2>4. QED  BY <1>6, <2>1, <2>2, <2>3 DEF PollStep
<1>7. CASE Restart
  BY <1>0, <1>7 DEF Restart
<1>8. CASE UNCHANGED vars
  BY <1>0, <1>8 DEF vars
<1>9. QED
  BY <1>1, <1>2, <1>3, <1>4, <1>5, <1>6, <1>7, <1>8
     DEF Next, RunStep, BackfillStep, VectorStep

LEMMA ClaimInvAlways == Spec => [](TypeInv /\ ClaimInv)
<1>1. Init => TypeInv /\ ClaimInv
  BY TypeInvInit, ClaimInvInit
<1>2. TypeInv /\ ClaimInv /\ [Next]_vars => TypeInv' /\ ClaimInv'
  BY TypeInvNext, ClaimInvNext
<1>3. QED  BY <1>1, <1>2, PTL DEF Spec

\* A centroid only ever averages a whole filing (run_index and
\* backfill_vectors.py), under every fault and restart.
THEOREM CentroidSound == Spec => []CentroidOfWhole
<1>1. ClaimInv => CentroidOfWhole  BY DEF ClaimInv
<1>2. QED  BY <1>1, ClaimInvAlways, PTL

\* GET /index-status (status_for) reports a complete index of a filing only when
\* each of its chunks is stored, under every fault and restart.
THEOREM CompleteSound == Spec => []CompleteMeansWhole
<1>1. TypeInv /\ ClaimInv => CompleteMeansWhole
  <2> SUFFICES ASSUME TypeInv, ClaimInv, NEW p \in Pollers, pc[p] = "counted",
                      file[p] \notin Legacy,
                      Answer(file[p], count[p], seen[p]) = "complete"
               PROVE  chunks[file[p]] = Whole(file[p])
    BY DEF CompleteMeansWhole
  <2> DEFINE f == file[p]
  <2>1. f \in Filings /\ count[p] \in Nat
    BY DEF TypeInv, TypeOK, Working, Procs, Server
  <2>2. /\ Total(f) \in Nat \ {0} /\ Stored(f) \in Nat
        /\ Stored(f) >= Total(f) => chunks[f] = Whole(f)
    BY <2>1, TotalType, StoredCount DEF TypeInv, StoredWithin
  <2>3. /\ seen[p] = Total(f) /\ count[p] <= Stored(f)
        /\ status[f] # NoRecord => status[f].total = Total(f)
    BY <2>1 DEF ClaimInv, TotalsRight, ReadRight, Procs, Server
  <2>4. count[p] >= Total(f)
    BY <2>1, <2>2, <2>3 DEF Answer
  <2>5. QED  BY <2>1, <2>2, <2>3, <2>4
<1>2. QED  BY <1>1, ClaimInvAlways, PTL
-----------------------------------------------------------------------------
(* Indexing implements IndexCoverage. *)

\* An insert extends one filing's prefix to a later cut, or changes nothing.
LEMMA CoverageStoreBatch ==
  ASSUME TypeInv, PrefixStored, PrefixStored', TypeInv', NEW p \in Procs, StoreBatch(p),
         \A f \in Filings : chunks[f] \subseteq chunks'[f]
  PROVE  [Coverage!Next]_<<chunks, centroid>>
<1> DEFINE f == file[p]
<1>1. f \in Filings
  BY DEF StoreBatch, TypeInv, Working
<1>2. PICK n : InsertRows(f, Zipped(count[p], n))
  BY DEF StoreBatch
<1>3. chunks' = [chunks EXCEPT ![f] = chunks'[f]]
  BY <1>1, <1>2 DEF InsertRows, TypeInv, TypeOK
<1>4. PICK b \in Boundary[f] : chunks'[f] = Prefix(b)
  BY <1>1 DEF PrefixStored
<1>5. UNCHANGED centroid
  BY DEF StoreBatch
<1>6. Coverage!Extend(f)
  BY <1>1, <1>3, <1>4, <1>5 DEF Coverage!Extend
<1>7. QED  BY <1>1, <1>6 DEF Coverage!Next

\* A centroid is written for a filing whose stored chunks may be averaged.
LEMMA CoverageWriteCentroid ==
  ASSUME TypeInv, ClaimInv, NEW p \in Procs, WriteCentroid(p)
  PROVE  [Coverage!Next]_<<chunks, centroid>>
<1> DEFINE f == file[p]
<1>1. f \in Filings /\ chunks[f] # {} /\ (f \notin Legacy => chunks[f] = Whole(f))
  BY DEF WriteCentroid, TypeInv, Working, ClaimInv, WholeFirst
<1>2. UNCHANGED chunks
  BY DEF WriteCentroid
<1>3. CASE UNCHANGED centroid
  BY <1>2, <1>3
<1>4. CASE centroid' = [centroid EXCEPT ![f] = chunks[f]]
  <2>1. Coverage!Average(f)
    BY <1>1, <1>2, <1>4 DEF Coverage!Average
  <2>2. QED  BY <1>1, <2>1 DEF Coverage!Next
<1>5. QED  BY <1>3, <1>4 DEF WriteCentroid

LEMMA CoverageNext ==
  ASSUME TypeInv, ClaimInv, PrefixStored, TypeInv', PrefixStored', [Next]_vars
  PROVE  [Coverage!Next]_<<chunks, centroid>>
<1>0. \A f \in Filings : chunks[f] \subseteq chunks'[f]
  BY ChunksGrow
<1> USE DEF durable
<1>1. ASSUME NEW t \in Tasks, RequestStep(t) PROVE UNCHANGED <<chunks, centroid>>
  BY <1>1 DEF RequestStep, BeginAnalysis, AnalysisFails, StoreRow, ScheduleAnalysed,
       ScheduleUnattended, Schedule, ReindexRead, ReindexCount, ReindexTotal,
       ReindexRefused, ScheduleReindex
<1>2. ASSUME NEW p \in Procs, Resume(p) \/ BatchFails(p)
      PROVE  UNCHANGED <<chunks, centroid>>
  BY <1>2 DEF Resume, BatchFails
<1>3. ASSUME NEW t \in Tasks, AcquireLock(t) \/ FinishRun(t) \/ FinishUncounted(t)
      PROVE  UNCHANGED <<chunks, centroid>>
  BY <1>3 DEF AcquireLock, FinishRun, FinishUncounted
<1>4. ASSUME NEW s \in Scripts, ScriptStep(s) \/ TopUp(s) \/ RecordTotal(s) \/ CountForVector(s)
      PROVE  UNCHANGED <<chunks, centroid>>
  BY <1>4 DEF ScriptStep, ScriptStops, ListCandidate, TopUp, RecordTotal, CountForVector
<1>5. ASSUME NEW p \in Pollers, PollStep(p) PROVE UNCHANGED <<chunks, centroid>>
  BY <1>5 DEF PollStep, PollRow, PollCount, PollAnswer
<1>6. CASE Restart  BY <1>6 DEF Restart
<1>7. CASE UNCHANGED vars  BY <1>7 DEF vars
<1>8. ASSUME NEW p \in Procs, StoreBatch(p) \/ WriteCentroid(p)
      PROVE  [Coverage!Next]_<<chunks, centroid>>
  BY <1>0, <1>8, CoverageStoreBatch, CoverageWriteCentroid
<1>9. QED
  BY <1>1, <1>2, <1>3, <1>4, <1>5, <1>6, <1>7, <1>8
     DEF Next, RunStep, BackfillStep, VectorStep, Procs, Server, Scripts

LEMMA CoverageInit == Init => Coverage!Init
<1> SUFFICES ASSUME Init PROVE Coverage!Init  OBVIOUS
<1> DEFINE Cuts == [f \in Filings |-> {Prefix(b) : b \in Boundary[f]}]
<1>1. \A f \in Filings : 0 \in Boundary[f] /\ Prefix(0) = {}
  BY BoundaryClosed DEF Prefix
<1>2. \A f \in Filings : chunks[f] \in Cuts[f]
                          /\ chunks[f] \in IF f \in Legacy THEN Cuts[f] ELSE {{}}
  BY <1>1 DEF Init
<1>3. chunks \in [Filings -> UNION {Cuts[f] : f \in Filings}]
  <2>1. chunks = [f \in Filings |-> chunks[f]]  BY DEF Init
  <2>2. QED  BY <1>2, <2>1
<1>4. centroid = [f \in Filings |-> {}]  BY DEF Init
<1>5. QED  BY <1>2, <1>3, <1>4 DEF Coverage!Init

\* Everything the server and the scripts do to filing_chunks and filing_vectors
\* is, seen from their readers, coverage that grows batch by batch and centroids
\* of whole filings.
THEOREM CoverageImplemented ==
  ASSUME "short_reply" \notin Faults
  PROVE  Spec => CoverageRefined
<1> DEFINE I == TypeInv /\ PlanInv /\ ClaimInv
<1>1. Init => I
  BY TypeInvInit, PlanInvInit, ClaimInvInit
<1>2. I /\ [Next]_vars => I'
  BY TypeInvNext, PlanInvNext, ClaimInvNext
<1>3. I /\ I' /\ [Next]_vars => [Coverage!Next]_<<chunks, centroid>>
  BY CoverageNext DEF PlanInv
<1>4. Init => Coverage!Init
  BY CoverageInit
<1>5. QED
  BY <1>1, <1>2, <1>3, <1>4, PTL DEF Spec, CoverageRefined, Coverage!Spec, Coverage!coverageVars
-----------------------------------------------------------------------------
(* A record that says "indexing".  It is set when a run is scheduled, and a *)
(* run that stops being pending replaces it, or dies with it in a restart.  *)

\* A task that stays on its filing keeps the record backed.
LEMMA PendingKept ==
  ASSUME TypeInv, IndexingHasRun, UNCHANGED status,
         \A t \in Tasks : RunPending(t) => RunPending(t)' /\ file'[t] = file[t]
  PROVE  IndexingHasRun'
BY DEF IndexingHasRun

LEMMA IndexingHasRunNext ==
  ASSUME Faults \cap {"count_read", "no_background"} = {},
         TypeInv, IndexingHasRun, [Next]_vars
  PROVE  IndexingHasRun'
<1> USE DEF durable, memory
<1>0. /\ pc \in [Procs -> ServerPc \cup ScriptPc] /\ file \in [Procs -> Filings \cup {NoFiling}]
      /\ status \in [Filings -> Record \cup {NoRecord}] /\ Tasks \subseteq Procs
      /\ Tasks \cap (Pollers \cup Scripts) = {}
  BY IndexingAssumption DEF TypeInv, TypeOK, Procs, Server
\* A step of a process that is no task, or is not pending, changes no other's.
<1>k. ASSUME NEW p \in Procs, UNCHANGED status,
             \A q \in Procs : q # p => pc'[q] = pc[q] /\ file'[q] = file[q],
             p \in Tasks /\ RunPending(p) => RunPending(p)' /\ file'[p] = file[p]
      PROVE  IndexingHasRun'
  <2>1. \A t \in Tasks : RunPending(t) => RunPending(t)' /\ file'[t] = file[t]
    BY <1>0, <1>k DEF RunPending
  <2>2. QED  BY <1>k, <2>1, PendingKept
<1>1. ASSUME NEW t \in Tasks, RequestStep(t) PROVE IndexingHasRun'
  <2>1. CASE ScheduleAnalysed(t) \/ ScheduleReindex(t)
    <3>1. /\ ~ RunPending(t) /\ pc' = [pc EXCEPT ![t] = "scheduled"] /\ UNCHANGED file
          /\ file[t] \in Filings
          /\ status' = [status EXCEPT ![file[t]] =
                           [state |-> "indexing", total |-> Total(file[t])]]
      BY <1>0, <2>1 DEF ScheduleAnalysed, ScheduleReindex, Schedule, Goto, MarkScheduled,
                        RunPending, TypeInv, Working
    <3>2. RunPending(t)' /\ \A u \in Tasks : RunPending(u) => RunPending(u)'
      BY <1>0, <3>1 DEF RunPending
    <3>3. \A f \in Filings : f # file[t] => status'[f] = status[f]
      BY <1>0, <3>1
    <3>4. QED  BY <3>1, <3>2, <3>3 DEF IndexingHasRun
  <2>2. CASE ~ ScheduleAnalysed(t) /\ ~ ScheduleReindex(t)
    <3>1. /\ ~ RunPending(t) /\ UNCHANGED status
          /\ \A q \in Procs : q # t => pc'[q] = pc[q] /\ file'[q] = file[q]
      BY <1>0, <1>1, <2>2
         DEF RequestStep, BeginAnalysis, AnalysisFails, StoreRow, ScheduleUnattended,
             ReindexRead, ReindexCount, ReindexTotal, ReindexRefused, Begin, Finish, RunPending
    <3>2. QED  BY <1>0, <1>k, <3>1
  <2>3. QED  BY <2>1, <2>2
<1>2. ASSUME NEW p \in Procs, Resume(p) \/ BatchFails(p) \/ StoreBatch(p)
      PROVE  IndexingHasRun'
  <2>1. /\ UNCHANGED status
        /\ \A q \in Procs : q # p => pc'[q] = pc[q] /\ file'[q] = file[q]
    BY <1>0, <1>2 DEF Resume, BatchFails, StoreBatch, EndBatches, Finish
  <2>2. p \in Tasks => RunPending(p)' /\ file'[p] = file[p]
    BY <1>0, <1>2 DEF Resume, BatchFails, StoreBatch, EndBatches, RunPending
  <2>3. QED  BY <1>k, <2>1, <2>2
<1>3. ASSUME NEW t \in Tasks, AcquireLock(t) PROVE IndexingHasRun'
  BY <1>0, <1>k, <1>3 DEF AcquireLock, Goto, RunPending
<1>4. ASSUME NEW t \in Tasks, FinishRun(t) PROVE IndexingHasRun'
  <2> DEFINE f == file[t]
  <2>1. /\ f \in Filings /\ f \in DOMAIN status /\ UNCHANGED durable
        /\ \E state \in {"complete", "partial", "unavailable"} : \E total :
              status' = [status EXCEPT ![f] = [state |-> state, total |-> total]]
        /\ \A q \in Procs : q # t => pc'[q] = pc[q] /\ file'[q] = file[q]
    BY <1>0, <1>4 DEF FinishRun, OutcomeState, Finish, TypeInv, Working
  <2>2. status'[f].state # "indexing" /\ \A g \in Filings : g # f => status'[g] = status[g]
    BY <1>0, <2>1
  <2>3. ASSUME NEW g \in Filings, status'[g].state = "indexing"
        PROVE  \E u \in Tasks : file'[u] = g /\ RunPending(u)'
    <3>1. g # f /\ status[g].state = "indexing"  BY <2>2, <2>3
    <3>2. PICK u \in Tasks : file[u] = g /\ RunPending(u)  BY <3>1 DEF IndexingHasRun
    <3>3. u # t /\ u \in Procs  BY <1>0, <3>1, <3>2
    <3>4. QED  BY <2>1, <3>2, <3>3 DEF RunPending
  <2>4. QED  BY <2>3 DEF IndexingHasRun
<1>5. ASSUME NEW t \in Tasks, FinishUncounted(t) PROVE IndexingHasRun'
  BY <1>5 DEF FinishUncounted
<1>6. ASSUME NEW p \in Procs, WriteCentroid(p) PROVE IndexingHasRun'
  BY <1>0, <1>k, <1>6 DEF WriteCentroid, Finish, RunPending
<1>7. ASSUME NEW p \in Procs, p \notin Tasks,
             ScriptStep(p) \/ TopUp(p) \/ RecordTotal(p) \/ CountForVector(p) \/ PollStep(p)
      PROVE  IndexingHasRun'
  <2>1. /\ UNCHANGED status
        /\ \A q \in Procs : q # p => pc'[q] = pc[q] /\ file'[q] = file[q]
    BY <1>0, <1>7 DEF ScriptStep, ScriptStops, ListCandidate, TopUp, RecordTotal,
         CountForVector, PollStep, PollRow, PollCount, PollAnswer, Begin, Goto, Finish
  <2>2. QED  BY <1>k, <1>7, <2>1
<1>8. CASE Restart
  BY <1>8 DEF Restart, IndexingHasRun, NoRecord
<1>9. CASE UNCHANGED vars
  BY <1>9, PendingKept DEF vars, RunPending
<1>10. QED
  BY <1>0, <1>1, <1>2, <1>3, <1>4, <1>5, <1>6, <1>7, <1>8, <1>9
     DEF Next, RunStep, BackfillStep, VectorStep, Procs, Server, Scripts

\* While the count that ends a run can be read and every background task is run,
\* a record never says "indexing" with no run left to replace it, whatever batches
\* fail, runs of one filing overlap or restarts come (indexing._status).
THEOREM IndexingIsBacked ==
  ASSUME Faults \cap {"count_read", "no_background"} = {}
  PROVE  Spec => []IndexingHasRun
<1>1. Init => IndexingHasRun
  BY DEF Init, IndexingHasRun, NoRecord
<1>2. TypeInv /\ IndexingHasRun /\ [Next]_vars => IndexingHasRun'
  BY IndexingHasRunNext
<1>3. QED  BY <1>1, <1>2, TypeInvAlways, PTL DEF Spec
-----------------------------------------------------------------------------
(* What a resumed run pays for.  The lock admits one run at a time, so what *)
(* it counted on resuming is all that is stored until it stores more.       *)

Holding(t) == pc[t] \in {"resume", "embedding", "counting"}

Serialized == \A t \in Tasks : Holding(t) => lock = {t}

\* The steps that neither take nor give up the lock.
LEMMA SerializedKept ==
  ASSUME Serialized, UNCHANGED lock, \A t \in Tasks : Holding(t)' => Holding(t)
  PROVE  Serialized'
BY DEF Serialized

LEMMA SerializedNext == TypeInv /\ Serialized /\ [Next]_vars => Serialized'
<1> SUFFICES ASSUME TypeInv, Serialized, [Next]_vars PROVE Serialized'  OBVIOUS
<1> USE DEF memory
<1>0. /\ pc \in [Procs -> ServerPc \cup ScriptPc] /\ Tasks \subseteq Procs
      /\ Tasks \cap (Pollers \cup Scripts) = {}
  BY IndexingAssumption DEF TypeInv, TypeOK, Procs, Server
<1>1. ASSUME NEW t \in Tasks, RequestStep(t) PROVE Serialized'
  BY <1>0, <1>1, SerializedKept
     DEF RequestStep, BeginAnalysis, AnalysisFails, StoreRow, ScheduleAnalysed,
         ScheduleUnattended, Schedule, ReindexRead, ReindexCount, ReindexTotal,
         ReindexRefused, ScheduleReindex, Begin, Goto, Finish, Holding
<1>2. ASSUME NEW p \in Procs, Resume(p) \/ BatchFails(p) \/ StoreBatch(p)
      PROVE  Serialized'
  BY <1>0, <1>2, SerializedKept DEF Resume, BatchFails, StoreBatch, EndBatches, Finish, Holding
<1>3. ASSUME NEW t \in Tasks, AcquireLock(t) PROVE Serialized'
  <2>1. \A u \in Tasks : ~ Holding(u)  BY <1>3 DEF AcquireLock, Serialized
  <2>2. \A u \in Tasks : u # t => ~ Holding(u)'
    BY <1>0, <1>3, <2>1 DEF AcquireLock, Goto, Holding
  <2>3. QED  BY <1>3, <2>2 DEF AcquireLock, Serialized
<1>4. ASSUME NEW t \in Tasks, FinishRun(t) \/ FinishUncounted(t) PROVE Serialized'
  <2>1. Holding(t) /\ lock = {t}
    BY <1>4 DEF FinishRun, FinishUncounted, Holding, Serialized
  <2>2. \A u \in Tasks : u # t => ~ Holding(u)  BY <2>1 DEF Serialized
  <2>3. \A u \in Tasks : ~ Holding(u)'
    BY <1>0, <1>4, <2>2 DEF FinishRun, FinishUncounted, Finish, Holding
  <2>4. QED  BY <2>3 DEF Serialized
<1>5. ASSUME NEW p \in Procs, WriteCentroid(p) PROVE Serialized'
  BY <1>0, <1>5, SerializedKept DEF WriteCentroid, Finish, Holding
<1>6. ASSUME NEW p \in Procs, p \notin Tasks,
             ScriptStep(p) \/ TopUp(p) \/ RecordTotal(p) \/ CountForVector(p) \/ PollStep(p)
      PROVE  Serialized'
  <2>1. /\ UNCHANGED lock
        /\ \A q \in Procs : q # p => pc'[q] = pc[q]
    BY <1>0, <1>6 DEF ScriptStep, ScriptStops, ListCandidate, TopUp, RecordTotal,
         CountForVector, PollStep, PollRow, PollCount, PollAnswer, Begin, Goto, Finish
  <2>2. QED  BY <1>0, <1>6, <2>1, SerializedKept DEF Holding
<1>7. CASE Restart
  BY <1>0, <1>7 DEF Restart, Serialized, Holding, Server
<1>8. CASE UNCHANGED vars
  BY <1>8, SerializedKept DEF vars, Holding
<1>9. QED
  BY <1>0, <1>1, <1>2, <1>3, <1>4, <1>5, <1>6, <1>7, <1>8
     DEF Next, RunStep, BackfillStep, VectorStep, Procs, Server, Scripts

\* A step that stores nothing and starts no batch loop.
LEMMA PaysKept ==
  ASSUME PaysOnlyForMissing, UNCHANGED chunks,
         \A t \in Tasks : pc'[t] = "embedding" =>
            pc[t] = "embedding" /\ count'[t] = count[t] /\ file'[t] = file[t]
  PROVE  PaysOnlyForMissing'
BY DEF PaysOnlyForMissing

\* What is stored when a run resumes is what it has counted.
LEMMA PaysResume ==
  ASSUME TypeInv, PlanInv, PaysOnlyForMissing, NEW t \in Tasks, Resume(t)
  PROVE  PaysOnlyForMissing'
<1> DEFINE f == file[t]
<1>0. pc \in [Procs -> ServerPc \cup ScriptPc] /\ count \in [Procs -> Nat] /\ t \in Procs
  BY DEF TypeInv, TypeOK, Procs, Server
<1>1. f \in Filings /\ UNCHANGED chunks
  BY <1>0 DEF Resume, TypeInv, Working, durable
<1>2. PICK b \in Boundary[f] : chunks[f] = Prefix(b)
  BY <1>1 DEF PlanInv, PrefixStored
<1>3. ResumePoint(f) = b /\ b \in Nat /\ Total(f) \in Nat
  BY <1>1, <1>2, CutCount, ResumeWithin, TotalType
<1>4. CASE ResumePoint(f) < Total(f)
  <2>1. /\ pc' = [pc EXCEPT ![t] = "embedding"] /\ count' = [count EXCEPT ![t] = b]
        /\ UNCHANGED file
    BY <1>3, <1>4 DEF Resume
  <2>2. \A i \in chunks[f] : i < b  BY <1>2, <1>3 DEF Prefix
  <2>3. ASSUME NEW u \in Tasks, pc'[u] = "embedding", NEW i \in chunks'[file'[u]]
        PROVE  i < count'[u]
    <3>1. u \in Procs  BY DEF Procs, Server
    <3>2. CASE u = t  BY <1>0, <1>1, <2>1, <2>2, <2>3, <3>2
    <3>3. CASE u # t
      <4>1. pc[u] = "embedding" /\ count'[u] = count[u] /\ i \in chunks[file[u]]
        BY <1>0, <1>1, <2>1, <2>3, <3>1, <3>3
      <4>2. QED  BY <4>1 DEF PaysOnlyForMissing
    <3>4. QED  BY <3>2, <3>3
  <2>4. QED  BY <2>3 DEF PaysOnlyForMissing
<1>5. CASE ~ (ResumePoint(f) < Total(f))
  <2>1. EndBatches(t)  BY <1>5 DEF Resume
  <2>2. /\ pc' = [pc EXCEPT ![t] = "counting"] /\ count' = [count EXCEPT ![t] = 0]
        /\ UNCHANGED file
    BY <2>1 DEF EndBatches
  <2>3. ASSUME NEW u \in Tasks, pc'[u] = "embedding"
        PROVE  pc[u] = "embedding" /\ count'[u] = count[u] /\ file'[u] = file[u]
    <3>1. u \in Procs  BY DEF Procs, Server
    <3>2. u # t  BY <1>0, <2>2, <2>3
    <3>3. QED  BY <1>0, <2>2, <2>3, <3>1, <3>2
  <2>4. QED  BY <1>1, <2>3, PaysKept
<1>6. QED  BY <1>4, <1>5

\* A batch reaches no further than the next one starts, and no other run of the
\* server is in its batch loop.
LEMMA PaysStoreBatch ==
  ASSUME TypeInv, Serialized, PaysOnlyForMissing, NEW t \in Tasks, StoreBatch(t)
  PROVE  PaysOnlyForMissing'
<1> DEFINE f == file[t]
           c == count[t]
           e == PlanEnd[f][c]
<1>0. pc \in [Procs -> ServerPc \cup ScriptPc] /\ count \in [Procs -> Nat] /\ t \in Procs
      /\ chunks \in [Filings -> SUBSET Nat]
  BY DEF TypeInv, TypeOK, Procs, Server
<1>1. /\ f \in Filings /\ c \in 0 .. Total(f) - 1 /\ pc[t] = "embedding"
      /\ Total(f) \in Nat \ {0}
  BY <1>0, TotalType DEF StoreBatch, TypeInv, Working, LoopWithin
<1>2. e \in c + 1 .. Total(f)  BY <1>1, PlanEndRange
<1>3. PICK n \in ReplySizes(f, c) :
         /\ InsertRows(f, Zipped(c, n))
         /\ \/ count' = [count EXCEPT ![t] = e] /\ UNCHANGED <<pc, file>>
            \/ EndBatches(t)
  BY DEF StoreBatch
<1>4. n \in 0 .. e - c  BY <1>1, <1>2, <1>3 DEF ReplySizes
<1>5. chunks'[f] \subseteq chunks[f] \cup (c .. e - 1)
  <2>1. Zipped(c, n) \subseteq c .. e - 1  BY <1>1, <1>2, <1>4 DEF Zipped
  <2>2. QED  BY <1>0, <1>1, <1>3, <2>1 DEF InsertRows
<1>6. \A u \in Tasks : u # t => pc[u] # "embedding"
  BY <1>1 DEF Serialized, Holding
<1>7. \A u \in Tasks : u # t => pc'[u] # "embedding"
  BY <1>0, <1>3, <1>6 DEF EndBatches, Procs, Server
<1>8. CASE pc'[t] # "embedding"
  BY <1>7, <1>8 DEF PaysOnlyForMissing
<1>9. CASE pc'[t] = "embedding"
  <2>1. count'[t] = e /\ file'[t] = f
    BY <1>0, <1>3, <1>9 DEF EndBatches
  <2>2. ASSUME NEW i \in chunks'[f] PROVE i < e
    <3>1. CASE i \in c .. e - 1  BY <1>1, <1>2, <3>1
    <3>2. CASE i \in chunks[f]
      <4>1. i < c /\ i \in Nat  BY <1>0, <1>1, <3>2 DEF PaysOnlyForMissing
      <4>2. QED  BY <1>1, <1>2, <4>1
    <3>3. QED  BY <1>5, <2>2, <3>1, <3>2
  <2>3. QED  BY <1>7, <2>1, <2>2 DEF PaysOnlyForMissing
<1>10. QED  BY <1>8, <1>9

LEMMA PaysNext ==
  ASSUME Backfills = {}, TypeInv, PlanInv, Serialized, PaysOnlyForMissing, [Next]_vars
  PROVE  PaysOnlyForMissing'
<1> USE DEF durable
<1>0. /\ pc \in [Procs -> ServerPc \cup ScriptPc] /\ Tasks \subseteq Procs
      /\ Tasks \cap (Pollers \cup Scripts) = {}
      /\ count \in [Procs -> Nat] /\ file \in [Procs -> Filings \cup {NoFiling}]
  BY IndexingAssumption DEF TypeInv, TypeOK, Procs, Server
<1>k. ASSUME NEW t \in Tasks, UNCHANGED chunks, pc'[t] # "embedding",
             \A q \in Procs : q # t => pc'[q] = pc[q] /\ count'[q] = count[q] /\ file'[q] = file[q]
      PROVE  PaysOnlyForMissing'
  BY <1>0, <1>k, PaysKept
<1>1. ASSUME NEW t \in Tasks, RequestStep(t) PROVE PaysOnlyForMissing'
  <2>1. /\ UNCHANGED chunks /\ pc'[t] # "embedding"
        /\ \A q \in Procs : q # t => pc'[q] = pc[q] /\ count'[q] = count[q] /\ file'[q] = file[q]
    BY <1>0, <1>1
       DEF RequestStep, BeginAnalysis, AnalysisFails, StoreRow, ScheduleAnalysed,
           ScheduleUnattended, Schedule, ReindexRead, ReindexCount, ReindexTotal,
           ReindexRefused, ScheduleReindex, Begin, Goto, Finish
  <2>2. QED  BY <1>k, <2>1
<1>2. ASSUME NEW t \in Tasks, BatchFails(t) PROVE PaysOnlyForMissing'
  <2>1. /\ UNCHANGED chunks /\ pc'[t] # "embedding"
        /\ \A q \in Procs : q # t => pc'[q] = pc[q] /\ count'[q] = count[q] /\ file'[q] = file[q]
    BY <1>0, <1>2 DEF BatchFails, EndBatches
  <2>2. QED  BY <1>k, <2>1
<1>3. ASSUME NEW t \in Tasks, AcquireLock(t) \/ FinishRun(t) \/ FinishUncounted(t)
      PROVE  PaysOnlyForMissing'
  <2>1. /\ UNCHANGED chunks /\ pc'[t] # "embedding"
        /\ \A q \in Procs : q # t => pc'[q] = pc[q] /\ count'[q] = count[q] /\ file'[q] = file[q]
    BY <1>0, <1>3 DEF AcquireLock, FinishRun, FinishUncounted, Goto, Finish
  <2>2. QED  BY <1>k, <2>1
<1>4. ASSUME NEW p \in Procs, WriteCentroid(p) PROVE PaysOnlyForMissing'
  BY <1>0, <1>4, PaysKept DEF WriteCentroid, Finish
<1>5. ASSUME NEW p \in Procs, p \notin Tasks,
             ScriptStep(p) \/ CountForVector(p) \/ PollStep(p)
      PROVE  PaysOnlyForMissing'
  <2>1. /\ UNCHANGED chunks
        /\ \A q \in Procs : q # p => pc'[q] = pc[q] /\ count'[q] = count[q] /\ file'[q] = file[q]
    BY <1>0, <1>5 DEF ScriptStep, ScriptStops, ListCandidate, CountForVector, PollStep,
         PollRow, PollCount, PollAnswer, Begin, Goto, Finish, TypeInv, TypeOK
  <2>2. QED  BY <1>0, <1>5, <2>1, PaysKept
<1>6. CASE Restart
  BY <1>0, <1>6 DEF Restart, PaysOnlyForMissing, Server
<1>7. CASE UNCHANGED vars
  BY <1>7, PaysKept DEF vars
<1>8. QED
  BY <1>0, <1>1, <1>2, <1>3, <1>4, <1>5, <1>6, <1>7, PaysResume, PaysStoreBatch
     DEF Next, RunStep, VectorStep, Procs, Server, Scripts

\* "A filing left partial only pays for what it is missing": with no backfill
\* script at work, a run of the server never embeds a chunk that is stored, however
\* many runs of a filing queue up on the lock, fail or are resumed after a restart.
THEOREM StoredIsNotPaidAgain ==
  ASSUME "short_reply" \notin Faults, Backfills = {}
  PROVE  Spec => []PaysOnlyForMissing
<1> DEFINE I == TypeInv /\ PlanInv /\ Serialized /\ PaysOnlyForMissing
<1>1. Init => I
  BY TypeInvInit, PlanInvInit DEF Init, Serialized, Holding, PaysOnlyForMissing, Procs, Server
<1>2. I /\ [Next]_vars => I'
  BY TypeInvNext, PlanInvNext, SerializedNext, PaysNext
<1>3. I => PaysOnlyForMissing
  OBVIOUS
<1>4. QED  BY <1>1, <1>2, <1>3, PTL DEF Spec
=============================================================================
