-------------------------- MODULE IndexReadersProofs --------------------------
(***************************************************************************)
(* Theorems about IndexReaders, for any number of filings, chunks,         *)
(* requests and questions: what the drift of a filing against its prior    *)
(* one was measured on, and what an answer across filings cites.           *)
(***************************************************************************)
EXTENDS IndexReaders, FiniteSetTheorems, WellFoundedInduction, TLAPS

Two == {1, 2}
Totals == {"none", "unset", "set"}

IndexTypeOK ==
    /\ total \in [Filing -> Totals] /\ listed \in [Filing -> Totals]
    /\ stored \in [Filing -> 0..Size]
    /\ keptDrift = [p \in Filing \X Filing |-> keptDrift[p]]

DriftTypeOK ==
    /\ driftAt \in [Drifters -> {"idle", "listing", "judging"}]
    /\ pair = [d \in Drifters |-> pair[d]]
    /\ rowTotal \in [Drifters -> [Two -> Totals]]
    /\ counted \in [Drifters -> [Two -> 0..Unread]]
    /\ verdict \in [Drifters -> [Two -> BOOLEAN]]

\* A request that has read its row is about a filing, and one that judges is
\* about two.
PairNamed ==
    \A d \in Drifters :
        /\ driftAt[d] # "idle" => pair[d][1] \in Filing
        /\ driftAt[d] = "judging" => pair[d] = <<pair[d][1], pair[d][2]>> /\ pair[d][2] \in Filing

\* A count is from a filing of the pair, which has no fewer chunks by now.
CountedOf(d, i) ==
    counted[d][i] # Unread =>
        driftAt[d] = "judging" /\ counted[d][i] <= stored[pair[d][i]]

\* An index judged complete is whole, if its total was known.
JudgedWhole(d, i) ==
    verdict[d][i] =>
        driftAt[d] = "judging" /\ (rowTotal[d][i] = "set" => Whole(pair[d][i]))

Judged == \A d \in Drifters : \A i \in Two : CountedOf(d, i) /\ JudgedWhole(d, i)

ReadersInv == IndexTypeOK /\ DriftTypeOK /\ PairNamed /\ Judged /\ KnownDriftOfWhole

\* Pairs read as functions of the two positions.
LEMMA PairOf ==
  ASSUME NEW S, NEW a \in S, NEW b \in S
  PROVE  /\ <<a, b>> \in [Two -> S]
         /\ <<a, b>>[1] = a /\ <<a, b>>[2] = b
BY 1..2 = {1, 2} DEF Two

\* Of filings there are some of, one is the latest.
LEMMA LatestExists ==
  ASSUME NEW S \in SUBSET Filing, S # {}
  PROVE  \E g \in S : \A h \in S : h <= g
<1> DEFINE T == {Newest - g : g \in S}
<1>0. Newest \in Nat
  BY ReadersAssumption
<1>1. T \subseteq Nat /\ T # {}
  <2>1. ASSUME NEW g \in S PROVE Newest - g \in Nat
    BY <1>0 DEF Filing
  <2>2. QED  BY <2>1
<1>2. PICK x \in T : \A y \in T : ~(<<y, x>> \in OpToRel(<, Nat))
  BY <1>1, NatLessThanWellFounded, WFMin
<1>3. \A y \in T : ~(y < x)
  BY <1>1, <1>2 DEF OpToRel
<1>4. PICK g \in S : x = Newest - g
  OBVIOUS
<1>5. \A h \in S : h <= g
  BY <1>0, <1>3, <1>4 DEF Filing
<1>6. QED  BY <1>5

\* The prior of a filing is a filing.
LEMMA PriorIsFiling ==
  ASSUME NEW f, NEW totals
  PROVE  PickPrior(f, totals) \in {0} \cup Filing
<1> DEFINE earlier == {g \in Analysed(totals) : g < f}
<1>1. CASE earlier = {}
  BY <1>1 DEF PickPrior
<1>2. CASE earlier # {}
  <2>1. \E g \in earlier : \A h \in earlier : h <= g
    BY <1>2, LatestExists DEF Analysed
  <2>2. QED  BY <1>2, <2>1 DEF PickPrior, Analysed
<1>3. QED  BY <1>1, <1>2

\* What a request has read before it reads anything.
NothingRead ==
    /\ <<"none", "none">> \in [Two -> Totals]
    /\ <<Unread, Unread>> \in [Two -> 0..Unread]
    /\ \A i \in Two : <<Unread, Unread>>[i] = Unread
    /\ <<FALSE, FALSE>> \in [Two -> BOOLEAN]
    /\ \A i \in Two : ~ <<FALSE, FALSE>>[i]

LEMMA NothingReadTyped == NothingRead
<1>1. Unread \in 0..Unread /\ "none" \in Totals /\ FALSE \in BOOLEAN
  BY ReadersAssumption DEF Unread, Totals
<1>2. <<"none", "none">> \in [Two -> Totals]
  BY <1>1, PairOf
<1>3. <<Unread, Unread>> \in [Two -> 0..Unread] /\ \A i \in Two : <<Unread, Unread>>[i] = Unread
  <2> HIDE DEF Unread
  <2> QED  BY <1>1, PairOf DEF Two
<1>4. <<FALSE, FALSE>> \in [Two -> BOOLEAN] /\ \A i \in Two : ~ <<FALSE, FALSE>>[i]
  BY <1>1, PairOf DEF Two
<1>5. QED  BY <1>2, <1>3, <1>4 DEF NothingRead

LEMMA ReadersBegin == ReadersInit => ReadersInv
<1> SUFFICES ASSUME ReadersInit PROVE ReadersInv  OBVIOUS
<1>1. NothingRead
  BY NothingReadTyped
<1>2. IndexTypeOK /\ DriftTypeOK
  BY <1>1, ReadersAssumption
     DEF ReadersInit, IndexInit, IndexTypeOK, DriftTypeOK, Totals, NothingRead
<1>3. PairNamed /\ Judged /\ KnownDriftOfWhole
  BY <1>1
     DEF ReadersInit, PairNamed, Judged, CountedOf, JudgedWhole, KnownDriftOfWhole, NothingRead
<1>4. QED  BY <1>2, <1>3 DEF ReadersInv

\* A request that ends leaves nothing behind.
LEMMA EndedIsClean ==
  ASSUME ReadersInv, NEW d \in Drifters, DriftEnds(d), UNCHANGED stored
  PROVE  DriftTypeOK' /\ PairNamed' /\ Judged'
<1>1. NothingRead
  BY NothingReadTyped
<1>2. DriftTypeOK'
  BY <1>1 DEF ReadersInv, DriftTypeOK, DriftEnds, NothingRead, Totals
<1>3. PairNamed'
  BY DEF ReadersInv, DriftTypeOK, PairNamed, DriftEnds
<1>4. Judged'
  <2> SUFFICES ASSUME NEW e \in Drifters, NEW i \in Two
               PROVE  CountedOf(e, i)' /\ JudgedWhole(e, i)'
    BY DEF Judged
  <2>1. CASE e = d
    BY <1>1, <2>1 DEF ReadersInv, DriftTypeOK, DriftEnds, NothingRead, CountedOf, JudgedWhole
  <2>2. CASE e # d
    BY <2>2 DEF ReadersInv, DriftTypeOK, DriftEnds, Judged, CountedOf, JudgedWhole, Whole
  <2>3. QED  BY <2>1, <2>2
<1>5. QED  BY <1>2, <1>3, <1>4

\* The index only grows, so what was counted or judged stays so.
LEMMA GrowingIsHarmless ==
  ASSUME ReadersInv, IndexTypeOK', \A f \in Filing : stored[f] <= stored'[f],
         UNCHANGED <<keptDrift, drifting>>
  PROVE  ReadersInv'
<1>1. DriftTypeOK' /\ PairNamed' /\ KnownDriftOfWhole'
  BY DEF ReadersInv, DriftTypeOK, PairNamed, KnownDriftOfWhole, drifting
<1>2. Judged'
  <2> SUFFICES ASSUME NEW d \in Drifters, NEW i \in Two
               PROVE  CountedOf(d, i)' /\ JudgedWhole(d, i)'
    BY DEF Judged
  <2>1. driftAt[d] = "judging" => pair[d][i] \in Filing
    BY DEF ReadersInv, PairNamed, Two
  <2>2. CountedOf(d, i) /\ JudgedWhole(d, i)
    BY DEF ReadersInv, Judged
  <2>3. counted[d][i] \in Int
    BY ReadersAssumption DEF ReadersInv, DriftTypeOK, Unread
  <2>4. driftAt[d] = "judging" =>
           /\ stored[pair[d][i]] \in 0..Size /\ stored'[pair[d][i]] \in 0..Size
           /\ stored[pair[d][i]] <= stored'[pair[d][i]]
    BY <2>1 DEF ReadersInv, IndexTypeOK
  <2>5. CountedOf(d, i)'
    BY <2>2, <2>3, <2>4, ReadersAssumption DEF CountedOf, drifting
  <2>6. JudgedWhole(d, i)'
    BY <2>2, <2>4, ReadersAssumption DEF JudgedWhole, Whole, drifting
  <2>7. QED  BY <2>5, <2>6
<1>3. QED  BY <1>1, <1>2 DEF ReadersInv

LEMMA IndexStepKeeps ==
  ASSUME ReadersInv, NEW f \in Filing, IndexStep(f)
  PROVE  ReadersInv'
<1> USE DEF IndexTypeOK, Totals
<1>0. IndexTypeOK
  BY DEF ReadersInv
<1>1. CASE RunScheduled(f)
  BY <1>0, <1>1, GrowingIsHarmless, ReadersAssumption DEF RunScheduled
<1>2. CASE ScriptRecords(f)
  BY <1>0, <1>2, GrowingIsHarmless, ReadersAssumption DEF ScriptRecords
<1>3. CASE ChunkStored(f)
  BY <1>0, <1>3, GrowingIsHarmless, ReadersAssumption DEF ChunkStored, Whole
<1>4. CASE RunEnds(f)
  BY <1>0, <1>4, GrowingIsHarmless, ReadersAssumption DEF RunEnds
<1>5. QED  BY <1>1, <1>2, <1>3, <1>4 DEF IndexStep

\* A request that ends without keeping a drift, whatever it did to list_cache.
LEMMA EndingKeeps ==
  ASSUME ReadersInv, NEW d \in Drifters, DriftEnds(d), UNCHANGED <<stored, keptDrift>>,
         IndexTypeOK'
  PROVE  ReadersInv'
BY EndedIsClean DEF ReadersInv, KnownDriftOfWhole

LEMMA DriftStepKeeps ==
  ASSUME ReadersInv, NEW d \in Drifters, DriftStep(d)
  PROVE  ReadersInv'
<1>0. IndexTypeOK /\ DriftTypeOK /\ PairNamed /\ Judged /\ KnownDriftOfWhole
  BY DEF ReadersInv
<1>1. ASSUME NEW f \in Filing, DriftReadsRow(d, f) PROVE ReadersInv'
  <2>1. <<total[f], "none">> \in [Two -> Totals]
    <3>1. total[f] \in Totals /\ "none" \in Totals
      BY <1>0 DEF IndexTypeOK, Totals
    <3>2. QED  BY <3>1, PairOf
  <2>2. IndexTypeOK' /\ DriftTypeOK' /\ PairNamed' /\ KnownDriftOfWhole'
    BY <1>0, <1>1, <2>1
       DEF DriftReadsRow, index, IndexTypeOK, DriftTypeOK, PairNamed, KnownDriftOfWhole
  <2>3. Judged'
    BY <1>0, <1>1
       DEF DriftReadsRow, index, DriftTypeOK, Judged, CountedOf, JudgedWhole, Whole
  <2>4. QED  BY <2>2, <2>3 DEF ReadersInv
<1>2. ASSUME DriftPicksPrior(d) PROVE ReadersInv'
  <2> DEFINE history == IF Analysed(listed) # {} THEN listed ELSE total
             f == pair[d][1]
             p == PickPrior(f, history)
  <2>1. history \in [Filing -> Totals] /\ p \in {0} \cup Filing
    BY <1>0, PriorIsFiling DEF IndexTypeOK
  <2>2. driftAt[d] = "listing" /\ listed' = history /\ UNCHANGED <<index, keptDrift>>
    BY <1>2 DEF DriftPicksPrior
  <2>3. IndexTypeOK'
    BY <1>0, <2>1, <2>2 DEF IndexTypeOK, index
  <2>4. CASE DriftEnds(d)
    BY <2>2, <2>3, <2>4, EndingKeeps DEF index
  <2>5. CASE ~DriftEnds(d)
    <3>1. /\ p # 0
          /\ driftAt' = [driftAt EXCEPT ![d] = "judging"]
          /\ pair' = [pair EXCEPT ![d] = <<f, p>>]
          /\ rowTotal' = [rowTotal EXCEPT ![d][2] = history[p]]
          /\ UNCHANGED <<counted, verdict>>
      BY <1>2, <2>5 DEF DriftPicksPrior
    <3>2. p \in Filing /\ history[p] \in Totals /\ f \in Filing
      BY <1>0, <2>1, <2>2, <3>1 DEF PairNamed
    <3>3. DriftTypeOK'
      BY <1>0, <3>1, <3>2 DEF DriftTypeOK, Two
    <3>4. PairNamed'
      BY <1>0, <3>1, <3>2 DEF DriftTypeOK, PairNamed
    <3>5. Judged'
      <4> SUFFICES ASSUME NEW e \in Drifters, NEW i \in Two
                   PROVE  CountedOf(e, i)' /\ JudgedWhole(e, i)'
        BY DEF Judged
      <4>1. counted[d][i] = Unread /\ ~verdict[d][i]
        BY <1>0, <2>2 DEF Judged, CountedOf, JudgedWhole
      <4>2. CASE e = d
        BY <3>1, <4>1, <4>2 DEF CountedOf, JudgedWhole
      <4>3. CASE e # d
        BY <1>0, <2>2, <3>1, <4>3
           DEF DriftTypeOK, Judged, CountedOf, JudgedWhole, Whole, index
      <4>4. QED  BY <4>2, <4>3
    <3>6. QED  BY <1>0, <2>2, <2>3, <3>3, <3>4, <3>5 DEF ReadersInv, KnownDriftOfWhole
  <2>6. QED  BY <2>4, <2>5
<1>3. ASSUME NEW i \in Two, DriftCounts(d, i) PROVE ReadersInv'
  <2>1. pair[d][i] \in Filing /\ stored[pair[d][i]] \in 0..Size
    BY <1>0, <1>3 DEF DriftCounts, PairNamed, IndexTypeOK, Two
  <2>2. IndexTypeOK' /\ DriftTypeOK' /\ PairNamed' /\ KnownDriftOfWhole'
    BY <1>0, <1>3, <2>1, ReadersAssumption
       DEF DriftCounts, index, IndexTypeOK, DriftTypeOK, PairNamed, KnownDriftOfWhole, Unread
  <2>3. Judged'
    BY <1>0, <1>3, <2>1
       DEF DriftCounts, index, IndexTypeOK, DriftTypeOK, Judged, CountedOf, JudgedWhole, Whole
  <2>4. QED  BY <2>2, <2>3 DEF ReadersInv
<1>4. ASSUME NEW i \in Two, DriftJudges(d, i) PROVE ReadersInv'
  <2>1. CASE StatusComplete(d, i)
    <3>1. /\ driftAt[d] = "judging" /\ counted[d][i] # Unread
          /\ verdict' = [verdict EXCEPT ![d][i] = TRUE]
          /\ UNCHANGED <<index, listed, keptDrift, driftAt, pair, rowTotal, counted>>
      BY <1>4, <2>1 DEF DriftJudges
    <3>2. pair[d][i] \in Filing
      BY <1>0, <3>1 DEF PairNamed, Two
    <3>3. rowTotal[d][i] = "set" => Whole(pair[d][i])
      <4>1. rowTotal[d][i] = "set" => counted[d][i] = Size
        BY <2>1 DEF StatusComplete
      <4>2. counted[d][i] <= stored[pair[d][i]] /\ stored[pair[d][i]] \in 0..Size
        BY <1>0, <3>1, <3>2 DEF Judged, CountedOf, IndexTypeOK
      <4>3. QED  BY <4>1, <4>2, ReadersAssumption DEF Whole
    <3>4. IndexTypeOK' /\ DriftTypeOK' /\ PairNamed' /\ KnownDriftOfWhole'
      BY <1>0, <3>1
         DEF index, IndexTypeOK, DriftTypeOK, PairNamed, KnownDriftOfWhole
    <3>5. Judged'
      BY <1>0, <3>1, <3>3
         DEF index, DriftTypeOK, Judged, CountedOf, JudgedWhole, Whole
    <3>6. QED  BY <3>4, <3>5 DEF ReadersInv
  <2>2. CASE ~StatusComplete(d, i)
    BY <1>0, <1>4, <2>2, EndingKeeps DEF DriftJudges, index, IndexTypeOK
  <2>3. QED  BY <2>1, <2>2
<1>5. ASSUME DriftMeasured(d) PROVE ReadersInv'
  <2> DEFINE new == pair[d][1]
             old == pair[d][2]
             drift == [of |-> <<stored[new], stored[old]>>, known |-> rowTotal[d]]
  <2>1. /\ driftAt[d] = "judging" /\ verdict[d] = <<TRUE, TRUE>>
        /\ keptDrift' = [keptDrift EXCEPT ![pair[d]] = drift]
        /\ DriftEnds(d) /\ UNCHANGED <<index, listed, questions>>
    BY <1>5 DEF DriftMeasured
  <2>2. \A i \in Two : verdict[d][i]
    <3>1. <<TRUE, TRUE>>[1] /\ <<TRUE, TRUE>>[2]
      BY PairOf
    <3>2. verdict[d][1] /\ verdict[d][2]
      BY <2>1, <3>1
    <3>3. QED  BY <3>2 DEF Two
  <2>3. \A i \in Two : drift.known[i] = "set" => drift.of[i] = Size
    BY <1>0, <2>2 DEF Judged, JudgedWhole, Whole, Two
  <2>4. \A p \in Filing \X Filing : keptDrift'[p] = keptDrift[p] \/ keptDrift'[p] = drift
    BY <1>0, <2>1 DEF IndexTypeOK
  <2>5. KnownDriftOfWhole'
    BY <1>0, <2>3, <2>4 DEF KnownDriftOfWhole, Two
  <2>6. IndexTypeOK'
    BY <1>0, <2>1 DEF IndexTypeOK, index
  <2>7. DriftTypeOK' /\ PairNamed' /\ Judged'
    BY <2>1, EndedIsClean DEF index
  <2>8. QED  BY <2>5, <2>6, <2>7 DEF ReadersInv
<1>6. ASSUME DriftFails(d) PROVE ReadersInv'
  BY <1>0, <1>6, EndingKeeps DEF DriftFails, index, IndexTypeOK
<1>7. QED
  BY <1>1, <1>2, <1>3, <1>4, <1>5, <1>6 DEF DriftStep, Two

LEMMA RestartKeeps ==
  ASSUME ReadersInv, ServerRestarts
  PROVE  ReadersInv'
<1>1. NothingRead
  BY NothingReadTyped
<1>2. IndexTypeOK' /\ DriftTypeOK'
  BY <1>1
     DEF ReadersInv, ServerRestarts, IndexTypeOK, DriftTypeOK, Totals, NothingRead
<1>3. PairNamed' /\ Judged' /\ KnownDriftOfWhole'
  BY <1>1
     DEF ServerRestarts, PairNamed, Judged, CountedOf, JudgedWhole, KnownDriftOfWhole, NothingRead
<1>4. QED  BY <1>2, <1>3 DEF ReadersInv

LEMMA ReadersGoOn == ReadersInv /\ [ReadersNext]_readerVars => ReadersInv'
<1> SUFFICES ASSUME ReadersInv, [ReadersNext]_readerVars PROVE ReadersInv'  OBVIOUS
<1>0. IndexTypeOK
  BY DEF ReadersInv
<1>1. ASSUME UNCHANGED <<index, listed, keptDrift, drifting>> PROVE ReadersInv'
  BY <1>0, <1>1, GrowingIsHarmless, ReadersAssumption DEF index, IndexTypeOK
<1>2. ASSUME NEW a \in Questioners, QuestionStep(a)
      PROVE  UNCHANGED <<index, listed, keptDrift, drifting>>
  BY <1>2 DEF QuestionStep, AskFiling, AskCompany, MatchCompany, MatchFiling, QuestionReplied,
              Matched, QuestionEnds
<1>3. CASE ListExpires
  BY <1>0, <1>3, GrowingIsHarmless, ReadersAssumption
     DEF ListExpires, index, IndexTypeOK, Totals
<1>4. CASE UNCHANGED readerVars
  BY <1>1, <1>4 DEF readerVars
<1>5. QED
  BY <1>1, <1>2, <1>3, <1>4, IndexStepKeeps, DriftStepKeeps, RestartKeeps DEF ReadersNext

\* A drift that was kept for a day compared two whole filings if their totals
\* were known, whatever indexing, restart, script or stale list fell between
\* the reads it was judged by.
THEOREM DriftKeptOfWhole == ReadersSpec => []KnownDriftOfWhole
<1>1. ReadersInv => KnownDriftOfWhole
  BY DEF ReadersInv
<1>2. QED  BY <1>1, ReadersBegin, ReadersGoOn, PTL DEF ReadersSpec

(***************************************************************************)
(* Questions across filings                                                *)
(***************************************************************************)

\* A question to a filing is of that one; one to a company is of indexed
\* filings, which an index that only grows leaves indexed.
Asking(a) ==
    /\ asking[a] = "filing" => \E f \in Filing : scope[a] = {f}
    /\ asking[a] = "company" => scope[a] \subseteq Indexed /\ Cardinality(scope[a]) >= 2

Across(a) ==
    asking[a] = "answering" =>
        /\ {r[1] : r \in sources[a]} \subseteq scope[a]
        /\ Cardinality(scope[a]) >= 2 => Cardinality({r[1] : r \in sources[a]}) >= 2

QuestionTypeOK ==
    /\ total \in [Filing -> Totals] /\ stored \in [Filing -> 0..Size]
    /\ asking = [a \in Questioners |-> asking[a]]
    /\ scope \in [Questioners -> SUBSET Filing]
    /\ sources = [a \in Questioners |-> sources[a]]

AskInv == QuestionTypeOK /\ \A a \in Questioners : Asking(a) /\ Across(a)

LEMMA FilingsAreFinite ==
  ASSUME NEW S \in SUBSET Filing
  PROVE  IsFiniteSet(S) /\ Cardinality(S) \in Nat
<1>1. IsFiniteSet(Filing)
  BY FS_Interval, ReadersAssumption DEF Filing
<1>2. QED  BY <1>1, FS_Subset, FS_CardinalityType

\* Two members are at least two.
LEMMA TwoAreTwo ==
  ASSUME NEW S \in SUBSET Filing, NEW f \in S, NEW g \in S, f # g
  PROVE  Cardinality(S) >= 2
<1>1. {f, g} \subseteq S /\ IsFiniteSet(S)
  BY FilingsAreFinite
<1>2. Cardinality({f, g}) <= Cardinality(S)
  BY <1>1, FS_Subset
<1>3. Cardinality({f, g}) = 2
  <2>1. Cardinality({f}) = 1 /\ IsFiniteSet({f})
    BY FS_Singleton
  <2>2. {f, g} = {f} \cup {g} /\ g \notin {f}
    OBVIOUS
  <2>3. QED  BY <2>1, <2>2, FS_AddElement
<1>4. QED  BY <1>2, <1>3, FilingsAreFinite

\* And at least two have two members.
LEMMA TwoExist ==
  ASSUME NEW S \in SUBSET Filing, Cardinality(S) >= 2
  PROVE  \E f, g \in S : f # g
<1>1. S # {}
  BY FS_EmptySet
<1>2. PICK f \in S : TRUE
  BY <1>1
<1>3. S # {f}
  BY FS_Singleton
<1>4. QED  BY <1>2, <1>3

\* Of no more than MAX_FILINGS filings, each that is indexed is among the latest.
LEMMA AllAreLatest ==
  ASSUME Newest <= MaxFilings
  PROVE  LatestIndexed = Indexed
<1> SUFFICES ASSUME NEW f \in Indexed
             PROVE  Cardinality({g \in Indexed : g > f}) < MaxFilings
  BY DEF LatestIndexed
<1> DEFINE later == {g \in Indexed : g > f}
<1>0. Newest \in Nat /\ MaxFilings \in Nat
  BY ReadersAssumption
<1>1. f \in 1..Newest /\ later \subseteq (f + 1)..Newest
  BY <1>0 DEF Indexed, Filing
<1>2. IsFiniteSet((f + 1)..Newest) /\ Cardinality((f + 1)..Newest) <= Newest - f
  <2>1. f + 1 \in Int /\ Newest \in Int
    BY <1>0, <1>1
  <2>2. IsFiniteSet((f + 1)..Newest)
    BY <2>1, FS_Interval
  <2>3. Cardinality((f + 1)..Newest) = IF f + 1 > Newest THEN 0 ELSE Newest - (f + 1) + 1
    BY <2>1, FS_Interval
  <2> HIDE DEF later
  <2>4. QED  BY <1>0, <1>1, <2>2, <2>3
<1>3. Cardinality(later) <= Cardinality((f + 1)..Newest)
  <2> HIDE DEF later
  <2> QED  BY <1>1, <1>2, FS_Subset
<1>4. Cardinality(later) \in Nat /\ Cardinality((f + 1)..Newest) \in Nat
  BY <1>2, FS_CardinalityType, FilingsAreFinite DEF Indexed
<1>5. QED  BY <1>0, <1>1, <1>2, <1>3, <1>4

\* The selection serves two filings whenever its rows are of two: it ends with
\* K rows, of which no filing supplies more than half, or with none left over
\* of a filing that has supplied fewer.
LEMMA SelectionIsBalanced ==
  ASSUME NEW rows, NEW F \in SUBSET Filing, Cardinality(F) >= 2,
         \A r \in rows : r[1] \in F,
         \A f \in F : \E r \in rows : r[1] = f,
         NEW S \in Balanced(rows)
  PROVE  Cardinality({r[1] : r \in S}) >= 2
<1> DEFINE Supplied(f) == {r \in S : r[1] = f}
           cited == {r[1] : r \in S}
<1>1. /\ S \subseteq rows /\ Cardinality(S) <= K
      /\ \A f \in Filing : Cardinality(Supplied(f)) <= PerFiling
      /\ \/ Cardinality(S) = K
         \/ \A r \in rows \ S : Cardinality(Supplied(r[1])) = PerFiling
  BY DEF Balanced
<1>2. cited \subseteq Filing
  BY <1>1
<1>3. CASE Cardinality(S) = K
  <2>1. S # {}
    <3>1. Cardinality({}) = 0 /\ K # 0
      BY FS_EmptySet, ReadersAssumption
    <3>2. QED  BY <1>3, <3>1
  <2>2. PICK r \in S : TRUE
    BY <2>1
  <2>3. S # Supplied(r[1])
    <3>1. r[1] \in Filing
      BY <1>1
    <3>2. Cardinality(Supplied(r[1])) <= PerFiling
      BY <1>1, <3>1
    <3>3. K > PerFiling
      BY ReadersAssumption
    <3>4. SUFFICES ASSUME S = Supplied(r[1]) PROVE FALSE
      OBVIOUS
    <3>5. K <= PerFiling
      <4> HIDE DEF Supplied
      <4> QED  BY <1>3, <3>2, <3>4
    <3>6. QED  BY <3>3, <3>5, ReadersAssumption
  <2>4. PICK q \in S : q[1] # r[1]
    BY <2>3
  <2>5. QED  BY <1>2, <2>2, <2>4, TwoAreTwo
<1>4. CASE \A r \in rows \ S : Cardinality(Supplied(r[1])) = PerFiling
  <2>1. ASSUME NEW f \in F PROVE f \in cited
    <3>1. PICK r \in rows : r[1] = f
      OBVIOUS
    <3>2. CASE r \in S
      BY <3>1, <3>2
    <3>3. CASE r \notin S
      <4>1. Cardinality(Supplied(f)) # 0
        BY <1>4, <3>1, <3>3, ReadersAssumption
      <4>2. Supplied(f) # {}
        BY <4>1, FS_EmptySet
      <4>3. QED  BY <4>2
    <3>4. QED  BY <3>2, <3>3
  <2>2. PICK f \in F, g \in F : f # g
    BY TwoExist
  <2>3. QED  BY <1>2, <2>1, <2>2, TwoAreTwo
<1>5. QED  BY <1>1, <1>3, <1>4

LEMMA QuestionsBegin == ReadersInit => AskInv
BY DEF ReadersInit, IndexInit, AskInv, QuestionTypeOK, Asking, Across, Totals

\* What a question asks and has been told is not disturbed by an index that
\* only grows.
LEMMA GrowingIndexKeeps ==
  ASSUME AskInv, UNCHANGED questions, Indexed \subseteq Indexed',
         total' \in [Filing -> Totals], stored' \in [Filing -> 0..Size]
  PROVE  AskInv'
<1>1. QuestionTypeOK'
  BY DEF AskInv, QuestionTypeOK, questions
<1>2. ASSUME NEW a \in Questioners PROVE Asking(a)' /\ Across(a)'
  <2>1. Asking(a) /\ Across(a)
    BY DEF AskInv
  <2>2. Asking(a)'
    BY <2>1 DEF Asking, questions
  <2>3. Across(a)'
    BY <2>1 DEF Across, questions
  <2>4. QED  BY <2>2, <2>3
<1>3. QED  BY <1>1, <1>2 DEF AskInv

LEMMA IndexStepGrows ==
  ASSUME AskInv, NEW f \in Filing, IndexStep(f)
  PROVE  AskInv'
<1> USE DEF Totals
<1>0. QuestionTypeOK /\ Size \in Nat
  BY ReadersAssumption DEF AskInv
<1>1. CASE RunScheduled(f)
  BY <1>0, <1>1, GrowingIndexKeeps DEF RunScheduled, QuestionTypeOK, Indexed
<1>2. CASE ScriptRecords(f)
  BY <1>0, <1>2, GrowingIndexKeeps DEF ScriptRecords, QuestionTypeOK, Indexed
<1>3. CASE ChunkStored(f)
  <2>1. /\ stored[f] \in 0..Size /\ stored[f] # Size
        /\ stored' = [stored EXCEPT ![f] = @ + 1]
        /\ total' = total /\ UNCHANGED questions
    BY <1>0, <1>3 DEF ChunkStored, Whole, QuestionTypeOK
  <2>2. stored' \in [Filing -> 0..Size]
    BY <1>0, <2>1 DEF QuestionTypeOK
  <2>3. Indexed \subseteq Indexed'
    BY <1>0, <2>1 DEF QuestionTypeOK, Indexed
  <2>4. QED  BY <1>0, <2>1, <2>2, <2>3, GrowingIndexKeeps DEF QuestionTypeOK
<1>4. CASE RunEnds(f)
  BY <1>0, <1>4, GrowingIndexKeeps DEF RunEnds, QuestionTypeOK, Indexed
<1>5. QED  BY <1>1, <1>2, <1>3, <1>4 DEF IndexStep

LEMMA ReadsLeaveQuestions ==
  ASSUME AskInv, UNCHANGED <<index, questions>>
  PROVE  AskInv'
BY GrowingIndexKeeps DEF AskInv, QuestionTypeOK, index, Indexed

\* One question moves, the others are as they were.
LEMMA OneQuestionMoves ==
  ASSUME AskInv, NEW a \in Questioners, UNCHANGED <<total, stored>>,
         NEW at, NEW F \in SUBSET Filing, NEW cited,
         asking' = [asking EXCEPT ![a] = at],
         scope' = [scope EXCEPT ![a] = F],
         sources' = [sources EXCEPT ![a] = cited],
         at = "filing" => \E f \in Filing : F = {f},
         at = "company" => F \subseteq Indexed /\ Cardinality(F) >= 2,
         at = "answering" =>
            /\ {r[1] : r \in cited} \subseteq F
            /\ Cardinality(F) >= 2 => Cardinality({r[1] : r \in cited}) >= 2
  PROVE  AskInv'
<1>0. QuestionTypeOK
  BY DEF AskInv
<1>1. QuestionTypeOK'
  BY <1>0 DEF QuestionTypeOK
<1>2. ASSUME NEW b \in Questioners PROVE Asking(b)' /\ Across(b)'
  <2>1. CASE b = a
    <3>1. asking'[b] = at /\ scope'[b] = F /\ sources'[b] = cited
      BY <1>0, <2>1 DEF QuestionTypeOK
    <3>2. Indexed' = Indexed
      BY DEF Indexed
    <3>3. Asking(b)'
      BY <3>1, <3>2 DEF Asking
    <3>4. Across(b)'
      BY <3>1 DEF Across
    <3>5. QED  BY <3>3, <3>4
  <2>2. CASE b # a
    <3>1. asking'[b] = asking[b] /\ scope'[b] = scope[b] /\ sources'[b] = sources[b]
      BY <1>0, <2>2 DEF QuestionTypeOK
    <3>2. Asking(b) /\ Across(b) /\ Indexed' = Indexed
      BY DEF AskInv, Indexed
    <3>3. Asking(b)'
      BY <3>1, <3>2 DEF Asking
    <3>4. Across(b)'
      BY <3>1, <3>2 DEF Across
    <3>5. QED  BY <3>3, <3>4
  <2>3. QED  BY <2>1, <2>2
<1>3. QED  BY <1>1, <1>2 DEF AskInv

LEMMA QuestionOver ==
  ASSUME AskInv, NEW a \in Questioners, QuestionEnds(a)
  PROVE  AskInv'
<1>1. UNCHANGED <<total, stored>> /\ {} \in SUBSET Filing
  BY DEF QuestionEnds, index
<1>2. QED  BY <1>1, OneQuestionMoves DEF QuestionEnds

\* The rows a question is answered with: those of two filings of its scope, if
\* it is about two.
LEMMA MatchedKeeps ==
  ASSUME AskInv, NEW a \in Questioners, NEW rows, Matched(a, rows),
         {r[1] : r \in rows} \subseteq scope[a],
         Cardinality(scope[a]) >= 2 => Cardinality({r[1] : r \in rows}) >= 2
  PROVE  AskInv'
<1>0. QuestionTypeOK
  BY DEF AskInv
<1>1. CASE rows = {}
  BY <1>1, QuestionOver DEF Matched
<1>2. CASE rows # {}
  <2>1. /\ asking' = [asking EXCEPT ![a] = "answering"]
        /\ sources' = [sources EXCEPT ![a] = rows]
        /\ scope' = [scope EXCEPT ![a] = scope[a]]
        /\ UNCHANGED <<total, stored>> /\ scope[a] \in SUBSET Filing
    BY <1>0, <1>2 DEF Matched, index, QuestionTypeOK
  <2>2. QED  BY <2>1, OneQuestionMoves
<1>3. QED  BY <1>1, <1>2

LEMMA AskCompanyKeeps ==
  ASSUME AskInv, NEW a \in Questioners, AskCompany(a)
  PROVE  AskInv'
<1>0. QuestionTypeOK
  BY DEF AskInv
<1>1. /\ asking' = [asking EXCEPT ![a] = "company"]
      /\ scope' = [scope EXCEPT ![a] = LatestIndexed]
      /\ sources' = [sources EXCEPT ![a] = sources[a]]
      /\ UNCHANGED <<total, stored>> /\ Cardinality(LatestIndexed) >= 2
  BY <1>0 DEF AskCompany, index, QuestionTypeOK
<1>2. LatestIndexed \subseteq Indexed /\ Indexed \subseteq Filing
  BY DEF LatestIndexed, Indexed
<1>3. QED
  <2> HIDE DEF LatestIndexed, Indexed
  <2> QED  BY <1>1, <1>2, OneQuestionMoves

LEMMA AskFilingKeeps ==
  ASSUME AskInv, NEW a \in Questioners, NEW f \in Filing, AskFiling(a, f)
  PROVE  AskInv'
<1>1. /\ asking' = [asking EXCEPT ![a] = "filing"]
      /\ scope' = [scope EXCEPT ![a] = {f}]
      /\ sources' = [sources EXCEPT ![a] = sources[a]]
      /\ UNCHANGED <<total, stored>> /\ {f} \in SUBSET Filing
  BY DEF AskFiling, index, AskInv, QuestionTypeOK
<1>2. QED  BY <1>1, OneQuestionMoves

\* One filing is asked: the rows are its own.
LEMMA MatchFilingKeeps ==
  ASSUME AskInv, NEW a \in Questioners, MatchFiling(a)
  PROVE  AskInv'
<1>0. PICK f \in scope[a] : \E rows \in SUBSET ChunksOf(f) : Matched(a, rows)
  BY DEF MatchFiling
<1>1. PICK rows \in SUBSET ChunksOf(f) : Matched(a, rows)
  BY <1>0
<1>2. asking[a] = "filing" /\ \E g \in Filing : scope[a] = {g}
  BY DEF MatchFiling, AskInv, Asking
<1>3. scope[a] = {f}
  BY <1>1, <1>2
<1>4. {r[1] : r \in rows} \subseteq scope[a]
  BY <1>1 DEF ChunksOf
<1>5. ~(Cardinality(scope[a]) >= 2)
  BY <1>3, FS_Singleton
<1>6. QED  BY <1>1, <1>4, <1>5, MatchedKeeps

\* A company is asked: each filing of the scope is still among the latest, and
\* supplies a row to the selection.
LEMMA MatchCompanyKeeps ==
  ASSUME Newest <= MaxFilings, AskInv, NEW a \in Questioners, MatchCompany(a)
  PROVE  AskInv'
<1> DEFINE F == LatestIndexed \cap scope[a]
<1>0. QuestionTypeOK /\ Asking(a) /\ asking[a] = "company"
  BY DEF AskInv, MatchCompany
<1>1. F = scope[a] /\ F \subseteq Indexed /\ F \subseteq Filing /\ Cardinality(scope[a]) >= 2
  BY <1>0, AllAreLatest DEF Asking, QuestionTypeOK
<1>2. PICK rows \in SUBSET (UNION {ChunksOf(f) : f \in F}) :
         /\ \A f \in F : {r \in rows : r[1] = f} \in Nearest(f)
         /\ \E picked \in Balanced(rows) : Matched(a, picked)
  BY DEF MatchCompany
<1>3. PICK picked \in Balanced(rows) : Matched(a, picked)
  BY <1>2
<1>4. \A r \in rows : r[1] \in F
  BY DEF ChunksOf
<1>5. ASSUME NEW f \in F PROVE \E r \in rows : r[1] = f
  <2> DEFINE own == {r \in rows : r[1] = f}
  <2>1. stored[f] \in Nat \ {0} /\ PerFiling \in Nat \ {0}
    BY <1>0, <1>1, ReadersAssumption DEF Indexed, QuestionTypeOK
  <2>2. Cardinality(own) = IF stored[f] < PerFiling THEN stored[f] ELSE PerFiling
    BY <1>2 DEF Nearest
  <2>3. Cardinality(own) # 0
    <3> HIDE DEF own
    <3> QED  BY <2>1, <2>2
  <2>4. own # {}
    BY <2>3, FS_EmptySet
  <2>5. QED  BY <2>4
<1>6. Cardinality({r[1] : r \in picked}) >= 2
  <2> HIDE DEF F
  <2> QED  BY <1>1, <1>4, <1>5, SelectionIsBalanced
<1>7. {r[1] : r \in picked} \subseteq scope[a]
  BY <1>1, <1>4 DEF Balanced
<1>8. QED  BY <1>3, <1>6, <1>7, MatchedKeeps

LEMMA QuestionsGoOn ==
  ASSUME Newest <= MaxFilings, AskInv, [ReadersNext]_readerVars
  PROVE  AskInv'
<1>1. ASSUME NEW a \in Questioners, QuestionStep(a) PROVE AskInv'
  BY <1>1, AskCompanyKeeps, AskFilingKeeps, MatchFilingKeeps, MatchCompanyKeeps, QuestionOver
     DEF QuestionStep, QuestionReplied
<1>2. ASSUME NEW d \in Drifters, DriftStep(d) PROVE AskInv'
  <2>1. UNCHANGED <<index, questions>>
    BY <1>2 DEF DriftStep, DriftReadsRow, DriftPicksPrior, DriftCounts, DriftJudges,
                DriftMeasured, DriftFails
  <2>2. QED  BY <2>1, ReadsLeaveQuestions
<1>3. CASE ListExpires
  BY <1>3, ReadsLeaveQuestions DEF ListExpires
<1>4. CASE ServerRestarts
  BY <1>4 DEF ServerRestarts, AskInv, QuestionTypeOK, Asking, Across
<1>5. CASE UNCHANGED readerVars
  BY <1>5, ReadsLeaveQuestions DEF readerVars
<1>6. QED
  BY <1>1, <1>2, <1>3, <1>4, <1>5, IndexStepGrows DEF ReadersNext

\* An answer across filings cites two of the filings it was asked of, and no
\* other, however their indexes grew between the read of the scope and that of
\* the rows, for a company that has no more than MAX_FILINGS analysed filings.
\* (Of one that has more, five that are indexed between the two reads push all
\* but one of a full scope out of the latest six.)
THEOREM AnswersCiteTwoFilings ==
  ASSUME Newest <= MaxFilings
  PROVE  ReadersSpec => []AcrossFilings
<1>1. AskInv => AcrossFilings
  BY DEF AskInv, Across, AcrossFilings
<1>2. AskInv /\ [ReadersNext]_readerVars => AskInv'
  BY QuestionsGoOn
<1>3. QED  BY <1>1, <1>2, QuestionsBegin, PTL DEF ReadersSpec
=============================================================================
