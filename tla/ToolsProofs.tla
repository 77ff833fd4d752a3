------------------------------ MODULE ToolsProofs -----------------------------
(***************************************************************************)
(* Theorems about the tools that run beside the site: the backfills of a   *)
(* column, for any number of analyses and any length of a page; the gate   *)
(* over the saved runs of the evals, for any golden set and any floor; and *)
(* the corpora of the Q&A eval, for any filings, questions and chunkings.  *)
(***************************************************************************)
EXTENDS QACorpus, EvalGate, Backfills, FiniteSetTheorems, SequenceTheorems,
        WellFoundedInduction, TLAPS

(***************************************************************************)
(* Backfills                                                               *)
(***************************************************************************)

\* Analyses a that need no more work.
Settled(a) == a \in filled \/ (column = "sic" /\ Cik[a] \in Unclassified)

BackfillTypeOK ==
    /\ count \in Nat /\ offset \in Nat /\ atStart \in 0..count
    /\ step \in {"off", "paging", "working"}

\* While pages are read, what was there at the start is settled, collected, or
\* on a page still to be read; rows the site stores only push it further back.
Collected ==
    /\ step = "paging" =>
         \A a \in 1..atStart : Settled(a) \/ a \in due \cup failed \/ a <= count - offset
    /\ step = "working" =>
         \A a \in 1..atStart : Settled(a) \/ a \in due \cup failed

BackfillInv == BackfillTypeOK /\ Collected /\ (step # "off" => code = "none") /\ DoneMeansFilled

LEMMA BackfillBegins == BackfillInit => BackfillInv
BY BackfillAssumption
   DEF BackfillInit, BackfillInv, BackfillTypeOK, Collected, DoneMeansFilled

\* A page never holds more than Page rows.
LEMMA PageBound ==
  ASSUME NEW n \in Nat, NEW from \in Nat
  PROVE  LET page == {a \in 1..n : n - a \in from..(from + Page - 1)}
         IN  IsFiniteSet(page) /\ Cardinality(page) \in 0..Page
<1> DEFINE page == {a \in 1..n : n - a \in from..(from + Page - 1)}
           low == n - from - Page + 1
<1>0. Page \in Nat \ {0} /\ low \in Int /\ n - from \in Int
  BY BackfillAssumption
<1>1. page \subseteq low..(n - from)
  BY <1>0
<1>2. IsFiniteSet(low..(n - from)) /\ Cardinality(low..(n - from)) = Page
  BY <1>0, FS_Interval
<1>3. IsFiniteSet(page) /\ Cardinality(page) <= Page
  BY <1>1, <1>2, FS_Subset
<1>4. QED  BY <1>0, <1>3, FS_CardinalityType

\* What is behind the longest page is behind a shorter one.
LEMMA FurtherBack ==
  ASSUME NEW n \in Int, NEW from \in Int, NEW to \in Int, NEW size \in Int, to <= from + size
  PROVE  \A a \in Int : a <= n - from - size => a <= n - to
OBVIOUS

LEMMA BackfillGoesOn == BackfillInv /\ [BackfillNext]_backfillVars => BackfillInv'
<1> SUFFICES ASSUME BackfillInv, [BackfillNext]_backfillVars PROVE BackfillInv'  OBVIOUS
<1> USE DEF BackfillInv, BackfillTypeOK
<1>1. CASE StoreAnalysis
  BY <1>1 DEF StoreAnalysis, Collected, Settled, DoneMeansFilled
<1>2. CASE StartBackfill
  BY <1>2 DEF StartBackfill, Collected, DoneMeansFilled
<1>3. CASE ReadPage
  <2> DEFINE page == {a \in 1..count : count - a \in offset..(offset + Page - 1)}
  <2>0. Page \in Nat \ {0}
    BY BackfillAssumption
  <2>1. IsFiniteSet(page) /\ Cardinality(page) \in 0..Page
    BY PageBound
  <2>2. /\ step = "paging" /\ offset' = offset + Cardinality(page)
        /\ due' = due \cup (IF every \/ column = "flags" THEN page ELSE page \ filled)
        /\ step' = IF page = {} \/ offset' >= count THEN "working" ELSE "paging"
        /\ UNCHANGED <<column, count, filled, every, atStart, failed, code>>
    BY <1>3 DEF ReadPage, LastPage
  <2>3. offset' \in Nat /\ offset' <= offset + Page
    BY <2>0, <2>1, <2>2
  \* What is on no page so far is on one of those behind this page.
  <2>4. \A a \in 1..atStart :
           Settled(a)' \/ a \in (due \cup failed)' \/ a <= count - offset - Page
    <3> SUFFICES ASSUME NEW a \in 1..atStart, a <= count - offset, ~(a <= count - offset - Page)
                 PROVE  Settled(a)' \/ a \in due'
      BY <2>2 DEF Collected, Settled
    <3>1. a \in page
      BY <2>0
    <3>2. QED  BY <2>2, <3>1 DEF Settled
  <2>5. \A a \in 1..atStart : a <= count - offset - Page => page # {}
    <3> SUFFICES ASSUME NEW a \in 1..atStart, a <= count - offset - Page PROVE page # {}
      OBVIOUS
    <3>1. count - offset \in page
      BY <2>0
    <3>2. QED  BY <3>1
  <2>6. Collected'
    <3>1. CASE step' = "paging"
      <4>1. count \in Int /\ offset \in Int /\ offset' \in Int /\ Page \in Int
        BY <2>0, <2>3
      <4>2. \A a \in 1..atStart : a <= count - offset - Page => a <= count - offset'
        <5>1. offset' <= offset + Page
          BY <2>3
        <5>2. \A a \in Int : a <= count - offset - Page => a <= count - offset'
          <6> HIDE DEF BackfillInv, BackfillTypeOK
          <6> QED  BY <4>1, <5>1, FurtherBack
        <5>3. \A a \in 1..atStart : a \in Int
          OBVIOUS
        <5>4. QED  BY <5>2, <5>3
      <4>3. \A a \in 1..atStart :
               Settled(a)' \/ a \in (due \cup failed)' \/ a <= count - offset'
        BY <2>4, <4>2
      <4>4. QED  BY <2>2, <3>1, <4>3 DEF Collected
    <3>2. CASE step' = "working"
      <4>1. page = {} \/ offset' >= count
        BY <2>2, <3>2
      <4>2. \A a \in 1..atStart : ~(a <= count - offset - Page)
        BY <2>0, <2>3, <2>5, <4>1
      <4>3. \A a \in 1..atStart : Settled(a)' \/ a \in (due \cup failed)'
        BY <2>4, <4>2
      <4>4. QED  BY <2>2, <3>2, <4>3 DEF Collected
    <3>3. QED  BY <2>2, <3>1, <3>2
  <2>7. QED  BY <2>2, <2>3, <2>6 DEF DoneMeansFilled
<1>4. ASSUME NEW c \in {Cik[a] : a \in Analysis}, CompanyFails(c) PROVE BackfillInv'
  BY <1>4 DEF CompanyFails, Collected, Settled, DoneMeansFilled
<1>5. ASSUME NEW c \in {Cik[a] : a \in Analysis}, FillCompany(c) PROVE BackfillInv'
  <2>1. \A a \in 1..atStart : Settled(a) => Settled(a)'
    BY <1>5 DEF FillCompany, Settled
  <2>2. \A a \in 1..atStart : a \in OfCompany(c, due) => Settled(a)'
    BY <1>5 DEF FillCompany, Settled, OfCompany
  <2>3. QED  BY <1>5, <2>1, <2>2 DEF FillCompany, Collected, DoneMeansFilled
<1>6. ASSUME NEW a \in Analysis, NEW ok \in BOOLEAN, FillRow(a, ok) PROVE BackfillInv'
  BY <1>6 DEF FillRow, Collected, Settled, DoneMeansFilled
<1>7. CASE EndBackfill
  BY <1>7 DEF EndBackfill, Collected, Settled, DoneMeansFilled
<1>8. CASE Interrupted
  BY <1>8 DEF Interrupted, Collected, DoneMeansFilled
<1>9. CASE UNCHANGED backfillVars
  BY <1>9 DEF backfillVars, Collected, Settled, DoneMeansFilled
<1>10. QED
  BY <1>1, <1>2, <1>3, <1>4, <1>5, <1>6, <1>7, <1>8, <1>9 DEF BackfillNext

\* A backfill that exits with 0 has left out no analysis that was stored when it
\* started, although it reads pages by offset while the site stores more.
THEOREM SuccessMeansFilled == BackfillSpec => []DoneMeansFilled
<1>1. BackfillInv => DoneMeansFilled
  BY DEF BackfillInv
<1>2. QED  BY <1>1, BackfillBegins, BackfillGoesOn, PTL DEF BackfillSpec

(***************************************************************************)
(* EvalGate                                                                *)
(***************************************************************************)

GateTypeOK ==
    /\ suite \in {"extraction", "qa"}
    /\ saved \in [Name -> Marks(suite) \cup {NoRun}]
    /\ exitCode \in {"none", "0", "1", "2"}

GateInv == GateTypeOK /\ GreenMeansKept

\* A run's name is that of a latest one among any that are made.
LEMMA LatestRunExists ==
  ASSUME NEW S \in SUBSET Name, S # {}
  PROVE  \E n \in S : \A m \in S : m <= n
<1> DEFINE T == {2 * Days - n : n \in S}
<1>0. 2 * Days \in Nat
  BY GateAssumption
<1>1. T \subseteq Nat /\ T # {}
  <2>1. ASSUME NEW n \in S PROVE 2 * Days - n \in Nat
    BY <1>0 DEF Name
  <2>2. QED  BY <2>1
<1>2. PICK x \in T : \A y \in T : ~(<<y, x>> \in OpToRel(<, Nat))
  BY <1>1, NatLessThanWellFounded, WFMin
<1>3. \A y \in T : ~(y < x)
  BY <1>1, <1>2 DEF OpToRel
<1>4. PICK n \in S : x = 2 * Days - n
  OBVIOUS
<1>5. ASSUME NEW m \in S PROVE m <= n
  <2>1. m \in Nat /\ n \in Nat /\ ~(2 * Days - m < 2 * Days - n)
    BY <1>0, <1>3, <1>4 DEF Name
  <2>2. QED  BY <1>0, <2>1
<1>6. QED  BY <1>5

\* The gate judges the last run by name, against the one before it.
LEMMA GateTakesLastTwo ==
  ASSUME GateTypeOK, Made # {}
  PROVE  /\ \A n \in Made : saved[n] \in Marks(suite)
         /\ Latest \in Made
         /\ \A now \in Made : IsLast(now) => now = Latest
         /\ \A was \in Made : \A now \in Made : LastTwo(was, now) =>
               now = Latest /\ was \in Earlier(Latest) /\ was = Previous(Latest)
<1>1. Made \subseteq Name /\ \A n \in Made : saved[n] \in Marks(suite)
  BY DEF Made, GateTypeOK
<1>2. \E n \in Made : \A m \in Made : m <= n
  BY <1>1, LatestRunExists
<1>3. Latest \in Made /\ \A m \in Made : m <= Latest
  BY <1>2 DEF Latest
<1>4. Made \subseteq Nat
  BY <1>1, GateAssumption DEF Name
<1>5. ASSUME NEW now \in Made, IsLast(now) PROVE now = Latest
  <2>1. now <= Latest /\ Latest <= now
    BY <1>3, <1>5 DEF IsLast
  <2>2. QED  BY <1>3, <1>4, <2>1
<1>6. ASSUME NEW was \in Made, NEW now \in Made, LastTwo(was, now)
      PROVE  now = Latest /\ was \in Earlier(Latest) /\ was = Previous(Latest)
  <2>1. was < now /\ \A m \in Made : m <= was \/ m = now
    BY <1>6 DEF LastTwo
  <2>2. IsLast(now)
    BY <1>4, <2>1 DEF IsLast
  <2>3. now = Latest
    BY <1>5, <2>2
  <2>4. was \in Earlier(Latest)
    BY <2>1, <2>3 DEF Earlier
  <2>5. \A l \in Earlier(Latest) : l <= was
    BY <1>4, <2>1, <2>3 DEF Earlier
  <2>6. Previous(Latest) \in Earlier(Latest) /\ was <= Previous(Latest)
    BY <2>4, <2>5 DEF Previous
  <2>7. Previous(Latest) <= was /\ Previous(Latest) \in Made
    BY <2>5, <2>6 DEF Earlier
  <2>8. was \in Nat /\ Previous(Latest) \in Nat
    BY <1>4, <2>7
  <2>9. was = Previous(Latest)
    BY <2>6, <2>7, <2>8
  <2>10. QED  BY <2>3, <2>4, <2>9
<1>7. QED  BY <1>1, <1>3, <1>5, <1>6

LEMMA GateBegins == GateInit => GateInv
BY DEF GateInit, GateInv, GateTypeOK, GreenMeansKept

\* A question without a regression that was good, and was asked again, is good.
LEMMA GoodStaysGood ==
  ASSUME suite = "qa", NEW now \in Marks("qa"), NEW was \in Marks("qa"),
         Regressions(now, was) = {}
  PROVE  Good(was, Question) \cap Attempted(now, Question) \subseteq Good(now, Question)
<1> SUFFICES ASSUME NEW q \in Question, was[q] = <<TRUE, TRUE>>, now[q] # <<"absent">>
             PROVE  now[q] = <<TRUE, TRUE>>
  BY DEF Good, Attempted
<1>1. was[q] # <<"absent">> /\ was[q] # <<"error">>
  OBVIOUS
<1>2. q \notin Regressions(now, was)
  OBVIOUS
<1>3. now[q] # <<"error">> /\ \A i \in {1, 2} : ~(was[q][i] /\ ~now[q][i])
  BY <1>1, <1>2 DEF Regressions, Attempted
<1>4. was[q][1] /\ was[q][2]
  OBVIOUS
<1>5. now[q][1] /\ now[q][2]
  BY <1>3, <1>4
<1>6. now[q] \in Pair
  BY <1>3 DEF Marks, Items
<1>7. PICK a \in BOOLEAN, b \in BOOLEAN : now[q] = <<a, b>>
  BY <1>6 DEF Pair
<1>8. a = TRUE /\ b = TRUE
  BY <1>5, <1>7
<1>9. QED  BY <1>7, <1>8

\* What a rate that is not below the floor says of the questions behind it.
LEMMA FloorHolds ==
  ASSUME NEW some, NEW all, IsFiniteSet(all), some \subseteq all,
         ~BelowFloor(<<Cardinality(some), Cardinality(all)>>)
  PROVE  all # {} /\ Cardinality(some) * 100 >= Floor * Cardinality(all)
<1> DEFINE g == Cardinality(some)
           n == Cardinality(all)
<1>1. g \in Nat /\ n \in Nat
  BY FS_Subset, FS_CardinalityType
<1>2. ~(g * 100 < Floor * n) /\ n # 0
  BY DEF BelowFloor
<1>3. g * 100 \in Nat /\ Floor * n \in Nat
  BY <1>1, GateAssumption
<1>4. all # {}
  BY <1>2, FS_EmptySet
<1> HIDE DEF g, n
<1>5. g * 100 >= Floor * n
  BY <1>2, <1>3
<1>6. QED  BY <1>4, <1>5 DEF g, n

LEMMA CheckKeeps ==
  ASSUME GateInv, CheckInCI
  PROVE  GateInv'
<1>1. GateTypeOK /\ Made # {} /\ UNCHANGED <<suite, saved, exported>>
  BY DEF GateInv, CheckInCI
<1>2. GateTypeOK'
  BY <1>1 DEF GateTypeOK, CheckInCI, Marks, Items
<1>3. ASSUME exitCode' = "0"
      PROVE  /\ exported /\ \A rate \in Rates(saved[Latest]) : ~BelowFloor(rate)
             /\ Earlier(Latest) # {} => Regressions(saved[Latest], saved[Previous(Latest)]) = {}
  BY <1>3 DEF CheckInCI
<1>4. GreenMeansKept'
  <2> SUFFICES ASSUME exitCode' = "0" PROVE GreenMeansKept'
    BY DEF GreenMeansKept
  <2>1. exported'
    BY <1>1, <1>3
  <2>2. Made' = Made
    BY <1>1 DEF Made
  <2>3. ASSUME NEW was \in Made, NEW now \in Made, LastTwo(was, now)
        PROVE  IF suite = "qa"
               THEN Good(saved[was], Question) \cap Attempted(saved[now], Question)
                        \subseteq Good(saved[now], Question)
               ELSE \A f \in Golden : ~(saved[was][f] = <<"correct">> /\ saved[now][f] = <<"wrong">>)
    <3>1. now = Latest /\ was \in Earlier(Latest) /\ was = Previous(Latest)
      BY <1>1, <2>3, GateTakesLastTwo
    <3>2. Regressions(saved[now], saved[was]) = {}
      BY <1>3, <3>1
    <3>3. CASE suite = "qa"
      <4>1. saved[now] \in Marks("qa") /\ saved[was] \in Marks("qa")
        BY <1>1, <3>3, GateTakesLastTwo
      <4>2. QED  BY <3>2, <3>3, <4>1, GoodStaysGood
    <3>4. CASE suite # "qa"
      BY <3>2, <3>4 DEF Regressions
    <3>5. QED  BY <3>3, <3>4
  <2>4. ASSUME NEW now \in Made, IsLast(now), suite = "qa"
        PROVE  /\ Attempted(saved[now], Answerable) # {} /\ Attempted(saved[now], Unanswerable) # {}
               /\ Cardinality(Grounded(saved[now], Answerable)) * 100
                      >= Floor * Cardinality(Attempted(saved[now], Answerable))
               /\ Cardinality(Good(saved[now], Unanswerable)) * 100
                      >= Floor * Cardinality(Attempted(saved[now], Unanswerable))
    <3>1. now = Latest
      BY <1>1, <2>4, GateTakesLastTwo
    <3>2. ~BelowFloor(GroundedRate(saved[now])) /\ ~BelowFloor(RefusalRate(saved[now]))
      BY <1>3, <2>4, <3>1 DEF Rates
    <3>3. /\ Grounded(saved[now], Answerable) \subseteq Attempted(saved[now], Answerable)
          /\ Good(saved[now], Unanswerable) \subseteq Attempted(saved[now], Unanswerable)
      <4>1. <<TRUE, TRUE>> # <<"absent">> /\ <<TRUE, FALSE>> # <<"absent">>
        OBVIOUS
      <4>2. QED  BY <4>1, Zenon DEF Grounded, Good, Attempted
    <3>4. /\ IsFiniteSet(Attempted(saved[now], Answerable))
          /\ IsFiniteSet(Attempted(saved[now], Unanswerable))
      BY GateAssumption, FS_Subset DEF Attempted
    <3>5. QED  BY <3>2, <3>3, <3>4, FloorHolds DEF GroundedRate, RefusalRate
  <2>5. suite' = suite /\ saved' = saved
    BY <1>1
  <2>6. QED
    BY <2>1, <2>2, <2>3, <2>4, <2>5 DEF GreenMeansKept, LastTwo, IsLast
<1>5. QED  BY <1>2, <1>4 DEF GateInv

LEMMA GateGoesOn == GateInv /\ [GateNext]_gateVars => GateInv'
<1> SUFFICES ASSUME GateInv, [GateNext]_gateVars PROVE GateInv'  OBVIOUS
<1>1. ASSUME NEW n \in Name, NEW marks \in Marks(suite), NEW scored \in BOOLEAN,
             SaveRun(n, marks, scored)
      PROVE  GateInv'
  BY <1>1 DEF GateInv, GateTypeOK, GreenMeansKept, SaveRun, Marks, Items
<1>2. CASE ScoreRun
  BY <1>2 DEF GateInv, GateTypeOK, GreenMeansKept, ScoreRun, Marks, Items
<1>3. CASE CheckInCI
  BY <1>3, CheckKeeps
<1>4. CASE UNCHANGED gateVars
  <2>1. GateTypeOK'
    BY <1>4 DEF GateInv, GateTypeOK, gateVars, Marks, Items
  <2>2. UNCHANGED <<suite, saved, exported, exitCode>>
    BY <1>4 DEF gateVars
  <2>3. Made' = Made
    BY <2>2 DEF Made
  <2>4. GreenMeansKept'
    BY <2>2, <2>3 DEF GateInv, GreenMeansKept, LastTwo, IsLast
  <2>5. QED  BY <2>1, <2>4 DEF GateInv
<1>5. QED  BY <1>1, <1>2, <1>3, <1>4 DEF GateNext

\* When CI is green, then between the last two runs by name no question that was
\* answered rightly and asked again fails and no figure went from right to wrong,
\* both kinds of questions were asked and kept their floor, and the exported
\* history is that of the saved runs, for any golden set and floor, any number of
\* runs and any order in which they are saved, replaced and scored.
THEOREM GreenIsEarned == GateSpec => []GreenMeansKept
<1>1. GateInv => GreenMeansKept
  BY DEF GateInv
<1>2. QED  BY <1>1, GateBegins, GateGoesOn, PTL DEF GateSpec

(***************************************************************************)
(* QACorpus                                                                *)
(***************************************************************************)

SomeChunk == [filing : Filings, pos : Nat, cut : Nat]

\* The first chunks of a filing, in order and each once.
Ordered == {s \in Seq(SomeChunk) : \A k \in 1..Len(s) : s[k].pos = k}

Corpus == [label : Nat, total : Nat, chunks : Ordered]

\* What is recorded of a question, scored with nothing or with what it was shown.
Scored ==
    {r \in [question : Nat, end : {"answered", "error", "quota"},
            seen : SUBSET SomeChunk, sims : SUBSET SomeChunk] :
        r.sims \in {{}, r.seen}}

CorpusInv ==
    /\ chunking \in Nat
    /\ corpora \in [Filings -> Corpus \cup {NoFile}]
    /\ todo \subseteq Filings /\ building \in Filings \cup {NoFile}
    /\ done \in Ordered
    /\ records \in Seq(Scored)
    /\ artifact \in [label : Nat, records : Seq(Scored)] \cup {NoFile}
    /\ chunking \in Chunkings
    /\ command = "run" => \A f \in Filings : corpora[f] # NoFile
    /\ command # "build" => building = NoFile

LEMMA NothingIsOrdered == <<>> \in Ordered
BY DEF Ordered

\* A batch that is embedded goes on where the build was.
LEMMA BatchIsOrdered ==
  ASSUME NEW s \in Ordered, NEW f \in Filings, NEW n \in Nat, chunking \in Nat
  PROVE  s \o Numbered(f, Len(s), n) \in Ordered
<1> DEFINE t == Numbered(f, Len(s), n)
<1>1. s \in Seq(SomeChunk) /\ Len(s) \in Nat /\ \A k \in 1..Len(s) : s[k].pos = k
  BY DEF Ordered
<1>2. t = [i \in 1..n |-> [filing |-> f, pos |-> Len(s) + i, cut |-> chunking]]
  BY DEF Numbered, Chunk
<1>3. t \in Seq(SomeChunk) /\ Len(t) = n /\ \A i \in 1..n : t[i].pos = Len(s) + i
  <2>1. \A i \in 1..n : [filing |-> f, pos |-> Len(s) + i, cut |-> chunking] \in SomeChunk
    BY <1>1 DEF SomeChunk
  <2>2. t \in [1..n -> SomeChunk]
    BY <1>2, <2>1
  <2>3. t \in Seq(SomeChunk) /\ Len(t) = n
    BY <2>2
  <2>4. ASSUME NEW i \in 1..n PROVE t[i].pos = Len(s) + i
    BY <1>2
  <2>5. QED  BY <2>3, <2>4
<1> HIDE DEF t
<1>4. s \o t \in Seq(SomeChunk) /\ Len(s \o t) = Len(s) + n
  <2>1. s \o t \in Seq(SomeChunk)
    BY <1>1, <1>3
  <2>2. Len(s \o t) = Len(s) + Len(t)
    BY <1>1, <1>3, ConcatProperties
  <2>3. QED  BY <1>3, <2>1, <2>2
<1>5. ASSUME NEW k \in 1..Len(s \o t) PROVE (s \o t)[k].pos = k
  <2>1. CASE k <= Len(s)
    BY <1>1, <1>3, <2>1
  <2>2. CASE k > Len(s)
    <3>1. (s \o t)[k] = t[k - Len(s)] /\ k - Len(s) \in 1..n
      BY <1>1, <1>3, <1>4, <2>2
    <3>2. QED  BY <1>1, <1>3, <3>1
  <2>3. QED  BY <1>1, <1>4, <2>1, <2>2
<1>6. QED  BY <1>4, <1>5 DEF Ordered, t

LEMMA CorpusBegins ==
  ASSUME CorpusInit
  PROVE  CorpusInv
<1>1. chunking \in Chunkings /\ chunking \in Nat
  BY CorpusAssumption DEF CorpusInit, Chunkings
<1>2. QED  BY <1>1, NothingIsOrdered DEF CorpusInit, CorpusInv

\* A command that stops.
LEMMA StopKeeps ==
  ASSUME CorpusInv, Stop, UNCHANGED chunking,
         corpora' \in [Filings -> Corpus \cup {NoFile}],
         artifact' \in [label : Nat, records : Seq(Scored)] \cup {NoFile}
  PROVE  CorpusInv'
BY NothingIsOrdered DEF CorpusInv, Stop

LEMMA BuildKeeps ==
  ASSUME CorpusInv, NEW n \in 1..Batch, EmbedBatch(n)
  PROVE  CorpusInv'
<1> DEFINE more == done \o Numbered(building, Len(done), n)
<1>1. building \in Filings /\ command = "build" /\ n \in Nat
  BY CorpusAssumption DEF CorpusInv, EmbedBatch
<1>2. more \in Ordered /\ done \in Ordered
  BY <1>1, BatchIsOrdered DEF CorpusInv
<1>3. ASSUME NEW chunks \in Ordered, Save(chunks)
      PROVE  corpora' \in [Filings -> Corpus \cup {NoFile}]
  <2>1. Total[chunking] \in Nat /\ chunking \in Nat
    BY CorpusAssumption DEF CorpusInv, Chunkings
  <2>2. [label |-> chunking, total |-> Total[chunking], chunks |-> chunks] \in Corpus
    BY <2>1 DEF Corpus
  <2>3. QED  BY <1>1, <1>3, <2>2 DEF Save, CorpusInv
<1> HIDE DEF more
<1>4. CASE Save(done) /\ Stop
  BY <1>2, <1>3, <1>4, StopKeeps DEF EmbedBatch, CorpusInv
<1>5. CASE /\ done' = more /\ Save(more)
           /\ UNCHANGED <<command, todo, building, refresh, records>>
  BY <1>1, <1>2, <1>3, <1>5 DEF EmbedBatch, CorpusInv
<1>6. QED  BY <1>4, <1>5 DEF EmbedBatch, more

LEMMA OpenKeeps ==
  ASSUME CorpusInv, NEW f \in Filings, OpenFiling(f)
  PROVE  CorpusInv'
<1> DEFINE kept == corpora[f] # NoFile /\ ~refresh
<1>1. kept => corpora[f].chunks \in Ordered
  BY DEF CorpusInv, Corpus
<1>2. done' \in Ordered /\ building' \in Filings \cup {NoFile}
  BY <1>1, NothingIsOrdered DEF OpenFiling, CorpusInv
<1>3. QED  BY <1>2 DEF OpenFiling, CorpusInv

\* What a question is shown is of the corpora it searches.
LEMMA ShownAreChunks ==
  ASSUME CorpusInv, command = "run", NEW i \in 1..Len(Asked), NEW seen \in Retrievals(i)
  PROVE  seen \subseteq SomeChunk
<1>1. Asked[i] \subseteq Filings
  BY CorpusAssumption
<1>2. PICK at \in [Asked[i] -> 1..Total[chunking]] :
         /\ \A f \in Asked[i] : at[f] <= Len(corpora[f].chunks)
         /\ seen = {corpora[f].chunks[at[f]] : f \in Asked[i]}
  BY DEF Retrievals
<1>3. ASSUME NEW f \in Asked[i] PROVE corpora[f].chunks[at[f]] \in SomeChunk
  <2>1. corpora[f] \in Corpus
    BY <1>1 DEF CorpusInv
  <2>2. corpora[f].chunks \in Seq(SomeChunk)
    BY <2>1 DEF Corpus, Ordered
  <2>3. at[f] \in 1..Total[chunking] /\ Total[chunking] \in Nat
    BY <1>2, CorpusAssumption DEF CorpusInv, Chunkings
  <2>4. at[f] \in 1..Len(corpora[f].chunks)
    BY <1>2, <2>2, <2>3
  <2>5. QED  BY <2>2, <2>4
<1>4. QED  BY <1>2, <1>3

LEMMA AskKeeps ==
  ASSUME CorpusInv, AskNext
  PROVE  CorpusInv'
<1> DEFINE i == Len(records) + 1
           R(end, seen, sims) == [question |-> i, end |-> end, seen |-> seen, sims |-> sims]
<1>1. records \in Seq(Scored) /\ i \in 1..Len(Asked) /\ command = "run"
  BY CorpusAssumption DEF CorpusInv, AskNext
<1>2. \E r \in Scored : records' = Append(records, r)
  <2>1. ASSUME NEW seen \in Retrievals(i), NEW sims \in {seen, {}},
               records' = Append(records, R("answered", seen, sims))
        PROVE  \E r \in Scored : records' = Append(records, r)
    <3>1. seen \subseteq SomeChunk
      BY <1>1, ShownAreChunks
    <3>2. R("answered", seen, sims) \in Scored
      BY <1>1, <3>1 DEF Scored
    <3>3. QED  BY <2>1, <3>2
  <2>2. ASSUME NEW end \in {"error", "quota"}, records' = Append(records, R(end, {}, {}))
        PROVE  \E r \in Scored : records' = Append(records, r)
    <3>1. R(end, {}, {}) \in Scored
      BY <1>1 DEF Scored
    <3>2. QED  BY <2>2, <3>1
  <2>3. QED  BY <2>1, <2>2 DEF AskNext
<1>3. records' \in Seq(Scored)
  BY <1>1, <1>2
<1>4. QED  BY <1>3 DEF AskNext, CorpusInv

\* The vectors an annotation finds are those of the chunks that were shown: a
\* chunk whose content is not there any more has none.
LEMMA VectorsAreOfTheShown ==
  ASSUME NEW seen, \A c \in seen : VectorOf(c) # {}
  PROVE  UNION {VectorOf(c) : c \in seen} = seen
<1>1. \A c \in seen : VectorOf(c) = {c}
  BY DEF VectorOf
<1>2. QED  BY <1>1

LEMMA AnnotateKeeps ==
  ASSUME CorpusInv, NEW upto \in 1..Len(Asked), Annotate(upto)
  PROVE  CorpusInv'
<1> DEFINE old == artifact.records
           redone == {i \in (1..upto) \cap WithAnswer : old[i].end = "answered"}
           new == [i \in DOMAIN old |->
                      IF i \in redone
                      THEN [old[i] EXCEPT !.sims = UNION {VectorOf(c) : c \in old[i].seen}]
                      ELSE old[i]]
<1>1. /\ artifact \in [label : Nat, records : Seq(Scored)]
      /\ \A i \in redone : \A c \in old[i].seen : VectorOf(c) # {}
      /\ artifact' = [artifact EXCEPT !.records = new]
      /\ UNCHANGED <<chunking, corpora, command, todo, building, done, refresh, records>>
  BY DEF CorpusInv, Annotate
<1>2. old \in Seq(Scored)
  BY <1>1
<1>3. ASSUME NEW i \in 1..Len(old) PROVE new[i] \in Scored
  <2>1. old[i] \in Scored /\ i \in DOMAIN old
    BY <1>2
  <2>2. CASE i \in redone
    <3>1. UNION {VectorOf(c) : c \in old[i].seen} = old[i].seen
      <4>1. \A c \in old[i].seen : VectorOf(c) # {}
        BY <1>1, <2>2
      <4> HIDE DEF old
      <4>2. QED  BY <4>1, VectorsAreOfTheShown
    <3>2. new[i] = [old[i] EXCEPT !.sims = old[i].seen]
      BY <2>1, <2>2, <3>1
    <3>3. QED  BY <2>1, <3>2 DEF Scored
  <2>3. CASE i \notin redone
    BY <2>1, <2>3
  <2>4. QED  BY <2>2, <2>3
<1>4. new \in Seq(Scored)
  <2>1. Len(old) \in Nat /\ DOMAIN old = 1..Len(old)
    BY <1>2
  <2>2. new \in [1..Len(old) -> Scored]
    <3>1. DOMAIN new = 1..Len(old) /\ new = [i \in 1..Len(old) |-> new[i]]
      BY <2>1
    <3> HIDE DEF new
    <3>2. QED  BY <1>3, <3>1
  <2> HIDE DEF new, old
  <2>3. QED  BY <2>1, <2>2
<1> HIDE DEF new, redone
<1>5. artifact' \in [label : Nat, records : Seq(Scored)]
  BY <1>1, <1>4
<1>6. QED  BY <1>1, <1>5 DEF CorpusInv

LEMMA CorpusGoesOn == CorpusInv /\ [CorpusNext]_corpusVars => CorpusInv'
<1> SUFFICES ASSUME CorpusInv, [CorpusNext]_corpusVars PROVE CorpusInv'  OBVIOUS
<1>1. CASE StartBuild
  BY <1>1 DEF StartBuild, CorpusInv
<1>2. CASE CloseFiling
  BY <1>2, NothingIsOrdered DEF CloseFiling, CorpusInv
<1>3. CASE EndBuild
  BY <1>3, StopKeeps DEF EndBuild, CorpusInv
<1>4. CASE StartRun
  BY <1>4 DEF StartRun, Loads, CorpusInv
<1>5. CASE EndRun
  <2>1. artifact' \in [label : Nat, records : Seq(Scored)]
    BY <1>5 DEF EndRun, CorpusInv
  <2>2. QED  BY <1>5, <2>1, StopKeeps DEF EndRun, CorpusInv
<1>6. CASE Interrupt
  BY <1>6, StopKeeps DEF Interrupt, CorpusInv
<1>7. CASE Rechunk
  BY <1>7 DEF Rechunk, CorpusInv
<1>8. CASE UNCHANGED corpusVars
  BY <1>8 DEF corpusVars, CorpusInv
<1>9. QED
  BY <1>1, <1>2, <1>3, <1>4, <1>5, <1>6, <1>7, <1>8, OpenKeeps, BuildKeeps, AskKeeps,
     AnnotateKeeps DEF CorpusNext

\* However builds, runs and annotations are stopped, resumed and refreshed, and
\* the chunking changes between them, a corpus holds the positions of its filing
\* in order, and an answer is scored with the very chunks the model was shown.
THEOREM AnswersScoredAsSeen == CorpusSpec => []ScoredAsSeen
<1>1. CorpusInv => ScoredAsSeen
  <2> SUFFICES ASSUME CorpusInv PROVE ScoredAsSeen  OBVIOUS
  <2>1. ASSUME NEW f \in Filings, corpora[f] # NoFile, NEW k \in 1..Len(corpora[f].chunks)
        PROVE  corpora[f].chunks[k].pos = k
    <3>1. corpora[f] \in Corpus
      BY <2>1 DEF CorpusInv
    <3>2. QED  BY <3>1 DEF Corpus, Ordered
  <2>2. ASSUME artifact # NoFile, NEW i \in 1..Len(artifact.records)
        PROVE  artifact.records[i].sims \in {{}, artifact.records[i].seen}
    <3>1. artifact.records \in Seq(Scored)
      BY <2>2 DEF CorpusInv
    <3>2. artifact.records[i] \in Scored
      BY <3>1
    <3>3. QED  BY <3>2 DEF Scored
  <2>3. QED  BY <2>1, <2>2 DEF ScoredAsSeen
<1>2. QED  BY <1>1, CorpusBegins, CorpusGoesOn, PTL DEF CorpusSpec
=============================================================================
