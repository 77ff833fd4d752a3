-------------------------- MODULE DailyQuotaProofs --------------------------
(***************************************************************************)
(* Theorems about DailyQuota, for any caps, any numbers of requests and    *)
(* embedders and any number of days.                                       *)
(***************************************************************************)
EXTENDS DailyQuota, FiniteSetTheorems, TLAPS

LEMMA TypeInit == Init => TypeOK
BY QuotaAssumption DEF Init, TypeOK, Zero, Days

LEMMA TypeNext == TypeOK /\ [Next]_vars => TypeOK'
<1> SUFFICES ASSUME TypeOK, [Next]_vars PROVE TypeOK'  OBVIOUS
<1>0. 0 \in Days /\ \A d \in Days : d < LastDay => d + 1 \in Days
  BY QuotaAssumption DEF Days
<1>a. ASSUME NEW p \in Procs, Finish(p)
      PROVE  /\ pc' \in [Procs -> {"idle", "asking", "failed", "preflight", "batch",
                                   "reserving", "reserved"}]
             /\ day' \in [Procs -> Days]
             /\ left' \in [Procs -> Nat] /\ attempt' \in [Procs -> Nat]
  BY <1>0, <1>a DEF Finish, TypeOK
<1> USE DEF TypeOK, store, memory, Procs, Embedders
<1>1. ASSUME NEW r \in Requests, RequestStep(r) PROVE TypeOK'
  <2>1. CASE Ask(r)
    BY <2>1 DEF Ask
  <2>2. CASE IncrementDaily(r)
    BY <1>a, <2>2 DEF IncrementDaily
  <2>3. CASE ConsumeInMemory(r)
    BY <1>a, <2>3, QuotaAssumption DEF ConsumeInMemory
  <2>4. QED  BY <1>1, <2>1, <2>2, <2>3 DEF RequestStep
<1>2. ASSUME NEW p \in Embedders, EmbedderStep(p) PROVE TypeOK'
  <2>0. Batch(p) \in Nat /\ (Batch(p) < left[p] => left[p] - Batch(p) \in Nat)
    BY QuotaAssumption DEF Batch
  <2>1. CASE AskQuestion(p)
    BY <2>1, QuotaAssumption DEF AskQuestion, Work
  <2>2. ASSUME NEW n \in Sizes, IndexAnalysed(p, n) \/ Reindex(p, n) PROVE TypeOK'
    BY <2>2, QuotaAssumption DEF IndexAnalysed, Reindex, Work
  <2>3. CASE Preflight(p)
    BY <1>a, <2>3 DEF Preflight
  <2>4. CASE TryReserve(p)
    BY <2>4 DEF TryReserve
  <2>5. CASE Reserve(p)
    BY <1>a, <2>0, <2>5 DEF Reserve
  <2>6. CASE Embedded(p)
    BY <1>a, <2>0, <2>6 DEF Embedded
  <2>7. CASE EmbeddedUnusably(p)
    BY <1>a, <2>0, <2>7 DEF EmbeddedUnusably
  <2>8. CASE RateLimited(p)
    BY <1>a, <2>8 DEF RateLimited
  <2>9. CASE Refused(p)
    BY <1>a, <2>9 DEF Refused
  <2>10. QED
    BY <1>2, <2>1, <2>2, <2>3, <2>4, <2>5, <2>6, <2>7, <2>8, <2>9 DEF EmbedderStep
<1>3. ASSUME NEW s \in Scripts, ScriptStops(s) PROVE TypeOK'
  BY <1>0, <1>3 DEF ScriptStops, Clear
<1>4. CASE Midnight
  BY <1>0, <1>4 DEF Midnight
<1>5. CASE Restart
  BY <1>0, <1>5 DEF Restart, Clear, Zero
<1>6. CASE UNCHANGED vars
  BY <1>6 DEF vars
<1>7. QED  BY <1>1, <1>2, <1>3, <1>4, <1>5, <1>6 DEF Next

\* Type correctness.
THEOREM QuotaTypeCorrect == Spec => []TypeOK
<1>1. QED  BY TypeInit, TypeNext, PTL DEF Spec
-----------------------------------------------------------------------------
(* The caps.  What was let through was counted first, so it is below both  *)
(* the counter and the cap; a lost answer or a refusal only moves the      *)
(* counter further up.                                                     *)

Counted ==
    \A d \in Days : /\ granted[d] <= dailyUsage[d]
                    /\ reserved[d] <= embeddingUsage[d]

CapInv == Counted /\ AnalysesCapped /\ ReservationsCapped

LEMMA CapInit == Init => CapInv
BY QuotaAssumption DEF Init, Zero, CapInv, Counted, AnalysesCapped, ReservationsCapped

LEMMA CapNext == TypeOK /\ CapInv /\ [Next]_vars => CapInv'
<1> SUFFICES ASSUME TypeOK, CapInv, [Next]_vars PROVE CapInv'  OBVIOUS
<1> USE QuotaAssumption
        DEF TypeOK, CapInv, Counted, AnalysesCapped, ReservationsCapped, store, memory,
            Procs, Embedders
\* Only the two RPCs touch the counters or let anything through.
<1>1. CASE UNCHANGED <<store, granted, reserved>>
  BY <1>1
<1>2. ASSUME NEW r \in Requests, IncrementDaily(r) PROVE CapInv'
  <2> DEFINE d == day[r]
             c == dailyUsage[d] + 1
  <2>1. /\ d \in Days /\ c \in Nat
        /\ dailyUsage' = dailyUsage \/ dailyUsage' = [dailyUsage EXCEPT ![d] = c]
        /\ \/ granted' = granted
           \/ /\ c <= AnalysisCap
              /\ dailyUsage' = [dailyUsage EXCEPT ![d] = c]
              /\ granted' = [granted EXCEPT ![d] = granted[d] + 1]
        /\ UNCHANGED <<embeddingUsage, reserved>>
    BY <1>2 DEF IncrementDaily, Applied, WithinCap
  <2>2. QED  BY <2>1
<1>3. ASSUME NEW p \in Embedders, Reserve(p) PROVE CapInv'
  <2> DEFINE d == day[p]
             n == Batch(p)
             c == embeddingUsage[d] + n
  <2>0. n \in Nat  BY DEF Batch
  <2>1. /\ d \in Days /\ c \in Nat
        /\ embeddingUsage' = embeddingUsage \/ embeddingUsage' = [embeddingUsage EXCEPT ![d] = c]
        /\ \/ reserved' = reserved
           \/ /\ c <= EmbeddingCap
              /\ embeddingUsage' = [embeddingUsage EXCEPT ![d] = c]
              /\ reserved' = [reserved EXCEPT ![d] = reserved[d] + n]
        /\ UNCHANGED <<dailyUsage, granted>>
    BY <1>3, <2>0 DEF Reserve, Applied, WithinCap
  <2>2. QED  BY <2>0, <2>1
<1>4. ASSUME NEW r \in Requests, Ask(r) \/ ConsumeInMemory(r)
      PROVE  UNCHANGED <<store, granted, reserved>>
  BY <1>4 DEF Ask, ConsumeInMemory
<1>5. ASSUME NEW p \in Embedders, EmbedderStep(p), ~ Reserve(p)
      PROVE  UNCHANGED <<store, granted, reserved>>
  BY <1>5 DEF EmbedderStep, AskQuestion, IndexAnalysed, Reindex, Work, Preflight, TryReserve,
              Embedded, EmbeddedUnusably, RateLimited, Refused
<1>6. ASSUME NEW s \in Scripts, ScriptStops(s) PROVE UNCHANGED <<store, granted, reserved>>
  BY <1>6 DEF ScriptStops, Clear
<1>7. CASE Midnight \/ Restart
  BY <1>1, <1>7 DEF Midnight, Restart, Clear
<1>8. CASE UNCHANGED vars
  BY <1>1, <1>8 DEF vars
<1>9. QED
  BY <1>1, <1>2, <1>3, <1>4, <1>5, <1>6, <1>7, <1>8 DEF Next, RequestStep

\* However many requests race for it, and whatever answers are lost, the
\* daily_usage RPC lets at most daily_analysis_cap through on a day.
THEOREM AnalysesNeverExceedCap == Spec => []AnalysesCapped
<1>1. Init => TypeOK /\ CapInv
  BY TypeInit, CapInit
<1>2. TypeOK /\ CapInv /\ [Next]_vars => TypeOK' /\ CapInv'
  BY TypeNext, CapNext
<1>3. CapInv => AnalysesCapped
  BY DEF CapInv
<1>4. QED  BY <1>1, <1>2, <1>3, PTL DEF Spec

\* The texts reserved on a day, by the server and the scripts together, never
\* exceed daily_embedding_cap.
THEOREM ReservationsNeverExceedCap == Spec => []ReservationsCapped
<1>1. Init => TypeOK /\ CapInv
  BY TypeInit, CapInit
<1>2. TypeOK /\ CapInv /\ [Next]_vars => TypeOK' /\ CapInv'
  BY TypeNext, CapNext
<1>3. CapInv => ReservationsCapped
  BY DEF CapInv
<1>4. QED  BY <1>1, <1>2, <1>3, PTL DEF Spec
-----------------------------------------------------------------------------
(* The ceiling.  A text counts against the day it reaches Gemini, which is *)
(* the day it was reserved on unless midnight came between.  Held are the  *)
(* texts that can still be sent without a reservation made from now on: a  *)
(* batch that is reserved, and one whose reservation is under way but was  *)
(* begun on an earlier day.  What is sent today, and what is held, is      *)
(* covered by what was reserved today and one batch of every embedder.     *)

Holds(p) == pc[p] = "reserved" \/ (pc[p] = "reserving" /\ day[p] # today)

Own(p) == {p} \X (1 .. Batch(p))

Held == {t \in Embedders \X (1 .. BatchSize) : Holds(t[1]) /\ t[2] <= Batch(t[1])}

Margin == Cardinality(Embedders) * BatchSize

CeilingInv ==
    /\ \A d \in Days : d > today => sent[d] = 0
    /\ \A d \in Days : d < today => sent[d] <= reserved[d] + Margin
    /\ sent[today] + Cardinality(Held) <= reserved[today] + Margin

\* What arithmetic needs of the types.
LEMMA DayTypes ==
  ASSUME TypeOK
  PROVE  /\ today \in Days
         /\ \A d \in Days : d \in Nat /\ sent[d] \in Nat /\ reserved[d] \in Nat
BY QuotaAssumption DEF TypeOK, Days

LEMMA BatchBounds ==
  ASSUME TypeOK, NEW p \in Embedders
  PROVE  /\ Batch(p) \in Nat /\ Batch(p) <= BatchSize
         /\ IsFiniteSet(Own(p)) /\ Cardinality(Own(p)) = Batch(p)
<1>1. Batch(p) \in Nat /\ Batch(p) <= BatchSize
  BY QuotaAssumption DEF TypeOK, Batch, Procs
<1>2. /\ IsFiniteSet(1 .. Batch(p)) /\ Cardinality(1 .. Batch(p)) = Batch(p)
      /\ IsFiniteSet({p}) /\ Cardinality({p}) = 1
  <2>1. IsFiniteSet({p}) /\ Cardinality({p}) = 1
    BY FS_Singleton
  <2>2. /\ IsFiniteSet(1 .. Batch(p))
        /\ Cardinality(1 .. Batch(p)) = IF 1 > Batch(p) THEN 0 ELSE Batch(p) - 1 + 1
    BY <1>1, FS_Interval
  <2>3. QED  BY <1>1, <2>1, <2>2
<1>3. IsFiniteSet(Own(p)) /\ Cardinality(Own(p)) = Cardinality({p}) * Cardinality(1 .. Batch(p))
  BY <1>2, FS_Product DEF Own
<1>4. Cardinality(Own(p)) = 1 * Batch(p)
  BY <1>2, <1>3
<1>5. QED  BY <1>1, <1>3, <1>4

\* What is held never exceeds one full batch of every embedder.
LEMMA HeldBounded == /\ IsFiniteSet(Held) /\ Cardinality(Held) \in Nat
                     /\ Cardinality(Held) <= Margin /\ Margin \in Nat
<1> DEFINE All == Embedders \X (1 .. BatchSize)
<1>1. IsFiniteSet(1 .. BatchSize) /\ Cardinality(1 .. BatchSize) = BatchSize
  BY FS_Interval, QuotaAssumption
<1>2. IsFiniteSet(All) /\ Cardinality(All) = Margin
  BY <1>1, FS_Product, QuotaAssumption DEF Margin
<1>3. Held \in SUBSET All
  BY DEF Held
<1>4. QED  BY <1>2, <1>3, FS_Subset, FS_CardinalityType

\* A step that sends and reserves nothing keeps the ceiling, if it adds nothing
\* to what is held.
LEMMA NothingSent ==
  ASSUME TypeOK, CeilingInv, Held' \subseteq Held,
         UNCHANGED <<today, sent>>,
         reserved' \in [Days -> Nat], \A d \in Days : reserved'[d] >= reserved[d]
  PROVE  CeilingInv'
<1>1. Cardinality(Held') <= Cardinality(Held) /\ Cardinality(Held') \in Nat
  BY HeldBounded, FS_Subset, FS_CardinalityType
<1>2. Margin' = Margin
  BY DEF Margin
<1>3. \A d \in Days : reserved'[d] \in Nat
  BY DEF TypeOK
<1>4. QED
  BY <1>1, <1>2, <1>3, HeldBounded, DayTypes DEF CeilingInv

\* A batch that is sent is no longer held.
LEMMA HeldIsSent ==
  ASSUME TypeOK, CeilingInv, NEW p \in Embedders, pc[p] = "reserved",
         Held' = Held \ Own(p), UNCHANGED <<today, reserved>>,
         sent' = [sent EXCEPT ![today] = @ + Batch(p)]
  PROVE  CeilingInv'
<1>0. /\ Batch(p) \in Nat /\ Batch(p) <= BatchSize
      /\ IsFiniteSet(Own(p)) /\ Cardinality(Own(p)) = Batch(p)
  BY BatchBounds
<1>1. Own(p) \subseteq Held
  <2> SUFFICES ASSUME NEW i \in 1 .. Batch(p) PROVE <<p, i>> \in Held
    BY DEF Own
  <2>1. i \in 1 .. BatchSize /\ i <= Batch(p)
    BY <1>0, QuotaAssumption
  <2>2. QED  BY <2>1 DEF Held, Holds
<1>2. Cardinality(Held') = Cardinality(Held) - Batch(p) /\ Cardinality(Held') \in Nat
  <2>1. Held \cap Own(p) = Own(p)  BY <1>1
  <2>2. IsFiniteSet(Held')
        /\ Cardinality(Held') = Cardinality(Held) - Cardinality(Held \cap Own(p))
    BY HeldBounded, FS_Difference
  <2>3. QED  BY <1>0, <2>1, <2>2, FS_CardinalityType
<1>3. Margin' = Margin
  BY DEF Margin
<1>4. today \in Days  BY DEF TypeOK
<1>5. sent'[today] = sent[today] + Batch(p) /\ \A d \in Days : d # today => sent'[d] = sent[d]
  BY <1>4 DEF TypeOK
<1>6. QED
  BY <1>0, <1>2, <1>3, <1>5, HeldBounded, DayTypes DEF CeilingInv

\* A batch reserved today may be sent today.
LEMMA HeldIsReserved ==
  ASSUME TypeOK, CeilingInv, NEW p \in Embedders,
         Held' = Held \cup Own(p), UNCHANGED <<today, sent>>,
         reserved' = [reserved EXCEPT ![today] = @ + Batch(p)]
  PROVE  CeilingInv'
<1>0. Batch(p) \in Nat /\ IsFiniteSet(Own(p)) /\ Cardinality(Own(p)) = Batch(p)
  BY BatchBounds
<1>1. /\ Cardinality(Held') <= Cardinality(Held) + Batch(p)
      /\ Cardinality(Held') \in Nat
  <2>1. IsFiniteSet(Held \cap Own(p)) /\ Cardinality(Held \cap Own(p)) \in Nat
    BY HeldBounded, FS_Intersection, FS_CardinalityType
  <2>2. /\ IsFiniteSet(Held')
        /\ Cardinality(Held') = Cardinality(Held) + Batch(p) - Cardinality(Held \cap Own(p))
    BY <1>0, HeldBounded, FS_Union
  <2>3. QED  BY <1>0, <2>1, <2>2, HeldBounded, FS_CardinalityType
<1>2. Margin' = Margin
  BY DEF Margin
<1>3. today \in Days  BY DEF TypeOK
<1>4. reserved'[today] = reserved[today] + Batch(p)
      /\ \A d \in Days : d # today => reserved'[d] = reserved[d]
  BY <1>3 DEF TypeOK
<1>5. QED
  BY <1>0, <1>1, <1>2, <1>4, HeldBounded, DayTypes DEF CeilingInv

LEMMA CeilingInit == Init => CeilingInv
<1> SUFFICES ASSUME Init PROVE CeilingInv  OBVIOUS
<1>1. Held = {}
  BY DEF Init, Held, Holds, Procs
<1>2. Cardinality(Held) = 0
  BY <1>1, FS_EmptySet
<1>3. QED
  BY <1>2, HeldBounded, QuotaAssumption DEF Init, CeilingInv, Zero, Days

LEMMA CeilingNext == TypeOK /\ CeilingInv /\ [Next]_vars => CeilingInv'
<1> SUFFICES ASSUME TypeOK, CeilingInv, [Next]_vars PROVE CeilingInv'  OBVIOUS
<1> USE QuotaAssumption DEF Procs, Embedders
<1>0. TypeOK'  BY TypeNext
\* The steps that neither send nor reserve.
<1>a. ASSUME UNCHANGED <<today, sent, reserved>>,
             \A p \in Embedders : Holds(p)' => Holds(p) /\ left'[p] = left[p]
      PROVE  CeilingInv'
  <2>1. Held' \subseteq Held
    BY <1>a DEF Held, Batch
  <2>2. QED  BY <1>a, <2>1, NothingSent DEF TypeOK
<1>b. ASSUME NEW p \in Embedders, Finish(p)
      PROVE  /\ pc' = [pc EXCEPT ![p] = "idle"] /\ left' = [left EXCEPT ![p] = 0]
             /\ day' = [day EXCEPT ![p] = 0]
  BY <1>b DEF Finish
<1>1. ASSUME NEW r \in Requests, RequestStep(r) PROVE CeilingInv'
  <2>1. \A p \in Embedders : pc'[p] = pc[p] /\ day'[p] = day[p] /\ left'[p] = left[p]
    BY <1>1 DEF RequestStep, Ask, IncrementDaily, ConsumeInMemory, Finish, TypeOK
  <2>2. UNCHANGED <<today, sent, reserved>>
    BY <1>1 DEF RequestStep, Ask, IncrementDaily, ConsumeInMemory
  <2>3. QED  BY <1>a, <2>1, <2>2 DEF Holds
<1>2. ASSUME NEW p \in Embedders,
             \/ AskQuestion(p)
             \/ \E n \in Sizes : IndexAnalysed(p, n) \/ Reindex(p, n)
             \/ Preflight(p) \/ TryReserve(p) \/ RateLimited(p) \/ Refused(p)
      PROVE  CeilingInv'
  <2>1. UNCHANGED <<today, sent, reserved>>
    BY <1>2 DEF AskQuestion, IndexAnalysed, Reindex, Work, Preflight, TryReserve, RateLimited,
                  Refused
  <2>2. ASSUME NEW q \in Embedders PROVE Holds(q)' => Holds(q) /\ left'[q] = left[q]
    BY <1>2, <2>1 DEF AskQuestion, IndexAnalysed, Reindex, Work, Preflight, TryReserve, RateLimited,
                      Refused, Finish, Holds, TypeOK
  <2>3. QED  BY <1>a, <2>1, <2>2
<1>3. ASSUME NEW p \in Embedders, Reserve(p) PROVE CeilingInv'
  <2> DEFINE Granted == reserved' = [reserved EXCEPT ![day[p]] = @ + Batch(p)]
                        /\ pc' = [pc EXCEPT ![p] = "reserved"] /\ UNCHANGED <<day, left>>
  <2>1. /\ UNCHANGED <<today, sent>> /\ pc[p] = "reserving"
        /\ Granted \/ (Finish(p) /\ UNCHANGED reserved)
    BY <1>3 DEF Reserve
  <2>2. CASE Finish(p) /\ UNCHANGED reserved
    <3>1. \A q \in Embedders : Holds(q)' => Holds(q) /\ left'[q] = left[q]
      BY <2>1, <2>2 DEF Finish, Holds, TypeOK
    <3>2. QED  BY <1>a, <2>1, <2>2, <3>1
  <2>3. CASE Granted /\ day[p] = today
    <3>1. \A q \in Embedders : /\ Holds(q)' <=> Holds(q) \/ q = p
                               /\ left'[q] = left[q]
      BY <2>1, <2>3 DEF Holds, TypeOK
    <3>2. Held' = Held \cup Own(p)
      <4>1. \A q \in Embedders : Batch(q)' = Batch(q)
        BY <3>1 DEF Batch
      <4>2. Batch(p) \in Nat /\ Batch(p) <= BatchSize
        BY BatchBounds
      <4>3. 1 .. Batch(p) = {i \in 1 .. BatchSize : i <= Batch(p)}
        BY <4>2
      <4>4. Held' = {t \in Embedders \X (1 .. BatchSize) :
                        (Holds(t[1]) \/ t[1] = p) /\ t[2] <= Batch(t[1])}
        BY <3>1, <4>1 DEF Held
      <4>5. Own(p) = {t \in Embedders \X (1 .. BatchSize) : t[1] = p /\ t[2] <= Batch(t[1])}
        BY <4>3 DEF Own
      <4>6. QED  BY <4>4, <4>5 DEF Held
    <3>3. QED  BY <2>1, <2>3, <3>2, HeldIsReserved
  <2>4. CASE Granted /\ day[p] # today
    <3>1. \A q \in Embedders : (Holds(q)' => Holds(q)) /\ left'[q] = left[q]
      BY <2>1, <2>4 DEF Holds, TypeOK
    <3>2. Held' \subseteq Held
      BY <3>1 DEF Held, Batch
    <3>3. \A d \in Days : reserved'[d] >= reserved[d]
      BY <2>4, BatchBounds DEF TypeOK
    <3>4. QED  BY <1>0, <2>1, <3>2, <3>3, NothingSent DEF TypeOK
  <2>5. QED  BY <2>1, <2>2, <2>3, <2>4
<1>4. ASSUME NEW p \in Embedders, Embedded(p) \/ EmbeddedUnusably(p) PROVE CeilingInv'
  <2>1. /\ pc[p] = "reserved" /\ UNCHANGED <<today, reserved>>
        /\ sent' = [sent EXCEPT ![today] = @ + Batch(p)]
    BY <1>4 DEF Embedded, EmbeddedUnusably
  <2>2. \A q \in Embedders : /\ Holds(q)' <=> Holds(q) /\ q # p
                             /\ q # p => left'[q] = left[q]
    BY <1>4, <2>1 DEF Embedded, EmbeddedUnusably, Finish, Holds, TypeOK
  <2>3. Held' = Held \ Own(p)
    BY <2>2, BatchBounds DEF Held, Own, Batch
  <2>4. QED  BY <2>1, <2>3, HeldIsSent
<1>5. ASSUME NEW S \in SUBSET Procs, Clear(S) PROVE CeilingInv'
  <2>1. UNCHANGED <<today, sent, reserved>>
    BY <1>5 DEF Clear
  <2>2. \A q \in Embedders : Holds(q)' => Holds(q) /\ left'[q] = left[q]
    BY <1>5, <2>1 DEF Clear, Holds, TypeOK
  <2>3. QED  BY <1>a, <2>1, <2>2
<1>6. CASE Midnight
  <2>1. /\ today' = today + 1 /\ UNCHANGED <<reserved, sent>>
        /\ today \in Days /\ today' \in Days
    BY <1>0, <1>6 DEF Midnight, TypeOK
  <2>2. Cardinality(Held') <= Margin /\ Cardinality(Held') \in Nat /\ Margin' = Margin
    <3>1. (IsFiniteSet(Held) /\ Cardinality(Held) \in Nat /\ Cardinality(Held) <= Margin)'
      BY HeldBounded, PTL
    <3>2. QED  BY <3>1 DEF Margin
  <2>3. \A d \in Days : d < today' => d < today \/ d = today
    BY <2>1, DayTypes
  <2>4. QED
    BY <2>1, <2>2, <2>3, HeldBounded, DayTypes DEF CeilingInv
<1>7. CASE UNCHANGED vars
  <2>1. \A q \in Embedders : Holds(q)' => Holds(q) /\ left'[q] = left[q]
    BY <1>7 DEF vars, Holds
  <2>2. QED  BY <1>7, <1>a, <2>1 DEF vars
<1>8. QED
  BY <1>1, <1>2, <1>3, <1>4, <1>5, <1>6, <1>7
     DEF Next, EmbedderStep, ScriptStops, Restart, Server

\* What Gemini counts on a day exceeds daily_embedding_cap by at most a batch of
\* each embedder, however many runs, scripts and questions midnight falls among.
THEOREM CeilingHolds == Spec => []CeilingKept
<1>1. Init => TypeOK /\ CapInv /\ CeilingInv
  BY TypeInit, CapInit, CeilingInit
<1>2. TypeOK /\ CapInv /\ CeilingInv /\ [Next]_vars => TypeOK' /\ CapInv' /\ CeilingInv'
  BY TypeNext, CapNext, CeilingNext
<1>3. TypeOK /\ CapInv /\ CeilingInv => CeilingKept
  <2> SUFFICES ASSUME TypeOK, CapInv, CeilingInv, NEW d \in Days
               PROVE  sent[d] <= EmbeddingCap + Margin
    BY DEF CeilingKept, Margin
  <2>1. reserved[d] <= EmbeddingCap
    BY DEF CapInv, ReservationsCapped
  <2>2. QED
    BY <2>1, HeldBounded, DayTypes, QuotaAssumption DEF CeilingInv
<1>4. QED  BY <1>1, <1>2, <1>3, PTL DEF Spec
=============================================================================
