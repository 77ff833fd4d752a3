------------------------------ MODULE ReadsProofs -----------------------------
(***************************************************************************)
(* Theorems about what the site reads from EDGAR and shares between its    *)
(* requests: answers kept whole, for any calls an answer rests on; the     *)
(* summary of an earnings release, for any registrants and requests; the   *)
(* frames, for any concepts, periods and rankings; and the financials of a *)
(* filer, for any concepts, fiscal periods and requests.                   *)
(***************************************************************************)
EXTENDS EdgarReads, Earnings, Frames, Financials, FiniteSetTheorems,
        SequenceTheorems, WellFoundedInduction, TLAPS

\* Of any numbers one is the least.
LEMMA LeastExists ==
  ASSUME NEW S \in SUBSET Nat, S # {}
  PROVE  \E m \in S : \A n \in S : m <= n
<1>1. PICK m \in S : \A y \in S : ~(<<y, m>> \in OpToRel(<, Nat))
  BY NatLessThanWellFounded, WFMin
<1>2. \A n \in S : ~(n < m) /\ n \in Nat /\ m \in Nat
  BY <1>1 DEF OpToRel
<1>3. QED  BY <1>2

(***************************************************************************)
(* EDGAR reads                                                             *)
(***************************************************************************)

\* The invariant of the reads.  A scan owes only filers on pages it has read, or
\* has yet to read; a company's Form 4s are read, failed or under way.
ReadsTypeOK ==
    /\ mapLoaded \in BOOLEAN
    /\ feed \in SUBSET Company
    /\ DOMAIN keptRead = Subjects
    /\ DOMAIN readAt = Askers /\ DOMAIN subject = Askers
    /\ DOMAIN got = Askers /\ DOMAIN due = Askers
    /\ DOMAIN part = Askers
    /\ \A r \in Askers :
          /\ DOMAIN part[r] = Parts
          /\ readAt[r] \in {"profile", "map", "first"} => subject[r] = "peers"
          /\ readAt[r] = "gather" => subject[r] \in {"peers", "insiders"}

AnswerOK(k) == k # NoAnswer => k.lacks = {}

Ended == {"open", "ok", "failed"}

ScanOK(r) ==
    /\ \A p \in Parts : part[r][p] \in Ended
    /\ \A c \in due[r] :
          \E k \in Parts \cup {0} :
             c \in Page(feed, k) /\ (k = 0 \/ part[r][k] = "ok" => c \in got[r])

TradesOK(r) ==
    /\ due[r] \subseteq Parts
    /\ \A p \in due[r] : part[r][p] \in Ended /\ (part[r][p] = "ok" => p \in got[r])

GatherOK(r) ==
    readAt[r] = "gather" =>
        /\ subject[r] = "peers" => ScanOK(r)
        /\ subject[r] = "insiders" => TradesOK(r)

KeptInv ==
    /\ ReadsTypeOK
    /\ \A s \in Subjects : AnswerOK(keptRead[s])
    /\ \A r \in Askers : GatherOK(r)

LEMMA KeptInit == ReadsInit => KeptInv
BY DEF ReadsInit, KeptInv, ReadsTypeOK, AnswerOK, GatherOK, NoParts

\* A place in the feed is on one page.
LEMMA OnePage ==
  ASSUME NEW listed \in SUBSET Company, NEW k \in Nat, NEW j \in Nat,
         NEW c \in Page(listed, k) \cap Page(listed, j)
  PROVE  k = j
<1> DEFINE n == Cardinality({d \in listed : d < c})
<1>1. n \in Nat
  BY ReadsAssumption, FS_Subset, FS_CardinalityType
<1>2. /\ k * PageLength <= n /\ n < (k + 1) * PageLength
      /\ j * PageLength <= n /\ n < (j + 1) * PageLength
  BY DEF Page
<1> HIDE DEF n
<1>3. ASSUME NEW a \in Nat, NEW b \in Nat, a < b PROVE (a + 1) * PageLength <= b * PageLength
  <2>1. PICK e \in Nat : b = a + 1 + e
    <3>1. b - (a + 1) \in Nat /\ b = a + 1 + (b - (a + 1))
      BY <1>3
    <3>2. QED  BY <3>1
  <2>2. b * PageLength = (a + 1) * PageLength + e * PageLength
    BY <2>1, ReadsAssumption
  <2>3. e * PageLength \in Nat /\ (a + 1) * PageLength \in Nat
    BY ReadsAssumption
  <2>4. QED  BY <2>2, <2>3
<1>4. /\ k * PageLength \in Nat /\ (k + 1) * PageLength \in Nat
      /\ j * PageLength \in Nat /\ (j + 1) * PageLength \in Nat
  BY ReadsAssumption
<1>5. ~(k < j)
  BY <1>1, <1>2, <1>3, <1>4
<1>6. ~(j < k)
  BY <1>1, <1>2, <1>3, <1>4
<1>7. QED  BY <1>5, <1>6

\* A short first page is the whole industry: the first filer off the page would
\* have all of the page, and no more, before it.
LEMMA ShortPageIsAll ==
  ASSUME NEW listed \in SUBSET Company, Cardinality(Page(listed, 0)) < PageLength
  PROVE  InDepth(listed) \subseteq Page(listed, 0)
<1> DEFINE first == Page(listed, 0)
           off == listed \ first
<1>1. off \in SUBSET Nat /\ first \subseteq listed /\ listed \subseteq Nat
  BY ReadsAssumption DEF Page
<1>2. IsFiniteSet(listed) /\ IsFiniteSet(first)
  BY <1>1, ReadsAssumption, FS_Subset
<1>3. CASE off # {}
  <2>1. PICK c \in off : \A d \in off : c <= d
    <3> HIDE DEF off
    <3>1. QED  BY <1>1, <1>3, LeastExists
  <2> DEFINE earlier == {d \in listed : d < c}
  <2>2. earlier \subseteq first
    BY <1>1, <2>1
  <2>3. Cardinality(earlier) \in Nat /\ Cardinality(first) \in Nat
        /\ Cardinality(earlier) <= Cardinality(first)
    BY <1>2, <2>2, FS_Subset, FS_CardinalityType
  <2>4. 0 * PageLength <= Cardinality(earlier) /\ Cardinality(earlier) < (0 + 1) * PageLength
    <3>1. 0 * PageLength = 0 /\ (0 + 1) * PageLength = PageLength /\ PageLength \in Nat
      BY ReadsAssumption
    <3> HIDE DEF earlier, first
    <3>2. Cardinality(first) < PageLength
      BY DEF first
    <3>3. QED  BY <2>3, <3>1, <3>2
  <2>5. c \in first
    BY <2>1, <2>4 DEF Page
  <2>6. QED  BY <2>1, <2>5
<1>4. CASE off = {}
  <2>1. InDepth(listed) \subseteq listed
    BY DEF InDepth, Page
  <2>2. QED  BY <1>4, <2>1
<1>5. QED  BY <1>3, <1>4

\* An ended request holds nothing; what it keeps, if it may, is all it owes.
LEMMA FinishKeepsInv ==
  ASSUME KeptInv, NEW r \in Askers, NEW owed, NEW items, NEW missing, NEW byRank \in BOOLEAN,
         missing = {} => owed \subseteq items,
         Finish(r, owed, items, missing, byRank)
  PROVE  KeptInv'
<1>1. ReadsTypeOK' /\ \A q \in Askers : GatherOK(q)'
  BY DEF KeptInv, ReadsTypeOK, Finish, Keep, Reply, NoParts, GatherOK, ScanOK, TradesOK
<1>2. \A s \in Subjects : AnswerOK(keptRead[s])'
  <2>1. CASE missing # {}
    BY <2>1 DEF KeptInv, Finish
  <2>2. CASE missing = {}
    <3> DEFINE new == [lacks |-> owed \ items, ranked |-> byRank]
    <3>1. AnswerOK(new)
      BY <2>2 DEF AnswerOK
    <3>2. \A s \in Subjects : keptRead'[s] = new \/ keptRead'[s] = keptRead[s]
      BY <2>2 DEF KeptInv, ReadsTypeOK, Finish, Keep
    <3> HIDE DEF new
    <3>3. QED  BY <3>1, <3>2 DEF KeptInv, AnswerOK
  <2>3. QED  BY <2>1, <2>2
<1>3. QED  BY <1>1, <1>2 DEF KeptInv

LEMMA ReplyKeepsInv ==
  ASSUME KeptInv, NEW r \in Askers, Reply(r), UNCHANGED keptRead, mapLoaded' \in BOOLEAN
  PROVE  KeptInv'
BY DEF KeptInv, AnswerOK, ReadsTypeOK, Reply, NoParts, GatherOK, ScanOK, TradesOK

LEMMA MoveKeepsInv ==
  ASSUME KeptInv, NEW r \in Askers, NEW where, Move(r, where), UNCHANGED keptRead,
         mapLoaded' \in BOOLEAN, where # "gather",
         where \in {"profile", "map", "first"} => subject[r] = "peers"
  PROVE  KeptInv'
BY DEF KeptInv, AnswerOK, ReadsTypeOK, Move, GatherOK, ScanOK, TradesOK

LEMMA FirstPageKeepsInv ==
  ASSUME KeptInv, NEW r \in Askers, FirstPage(r)
  PROVE  KeptInv'
<1>1. feed \in SUBSET Company /\ mapLoaded \in BOOLEAN
  BY DEF KeptInv, ReadsTypeOK
<1>2. CASE /\ Cardinality(Page(feed, 0)) < PageLength
           /\ Finish(r, InDepth(feed), Page(feed, 0), {}, mapLoaded)
  <2>1. InDepth(feed) \subseteq Page(feed, 0)
    BY <1>1, <1>2, ShortPageIsAll
  <2>2. QED  BY <1>1, <1>2, <2>1, FinishKeepsInv
<1>3. CASE Cardinality(Page(feed, 0)) >= PageLength
           /\ readAt' = [readAt EXCEPT ![r] = "gather"]
           /\ part' = [part EXCEPT ![r] = [p \in Parts |-> "open"]]
           /\ got' = [got EXCEPT ![r] = Page(feed, 0)]
           /\ due' = [due EXCEPT ![r] = InDepth(feed)]
           /\ UNCHANGED <<mapLoaded, keptRead, subject, feed>>
  <2>1. ReadsTypeOK'
    BY <1>3 DEF FirstPage, KeptInv, ReadsTypeOK
  <2>2. \A s \in Subjects : AnswerOK(keptRead[s])'
    BY <1>3 DEF KeptInv, AnswerOK
  <2>3. ASSUME NEW q \in Askers PROVE GatherOK(q)'
    <3>1. CASE q = r
      <4>1. /\ part'[r] = [p \in Parts |-> "open"] /\ got'[r] = Page(feed, 0)
            /\ due'[r] = InDepth(feed) /\ subject'[r] = "peers" /\ feed' = feed
        BY <1>3 DEF FirstPage, KeptInv, ReadsTypeOK
      <4>2. \A c \in InDepth(feed) : \E k \in Parts \cup {0} : c \in Page(feed, k)
        BY DEF InDepth
      <4>3. ScanOK(r)'
        <5>1. \A p \in Parts : part'[r][p] = "open"
          BY <4>1
        <5>2. 0 \notin Parts
          BY ReadsAssumption
        <5>3. QED  BY <4>1, <4>2, <5>1, <5>2 DEF ScanOK, Ended, Page
      <4>4. QED  BY <3>1, <4>1, <4>3 DEF GatherOK
    <3>2. CASE q # r
      BY <1>3, <3>2 DEF KeptInv, ReadsTypeOK, GatherOK, ScanOK, TradesOK, Page
    <3>3. QED  BY <3>1, <3>2
  <2>4. QED  BY <2>1, <2>2, <2>3 DEF KeptInv
<1>4. QED  BY <1>2, <1>3 DEF FirstPage

LEMMA PartKeepsInv ==
  ASSUME KeptInv, NEW r \in Askers, NEW p \in Parts, PartEnds(r, p)
  PROVE  KeptInv'
<1>1. ReadsTypeOK' /\ \A s \in Subjects : AnswerOK(keptRead[s])'
  BY DEF PartEnds, KeptInv, AnswerOK, ReadsTypeOK
<1>2. ASSUME NEW q \in Askers PROVE GatherOK(q)'
  <2>1. CASE q # r
    BY <2>1 DEF PartEnds, KeptInv, ReadsTypeOK, GatherOK, ScanOK, TradesOK, Page
  <2>2. CASE q = r
    <3>1. /\ subject'[r] = subject[r] /\ due'[r] = due[r] /\ feed' = feed
          /\ readAt'[r] = "gather" /\ readAt[r] = "gather" /\ GatherOK(r)
      BY DEF PartEnds, KeptInv, ReadsTypeOK
    <3>2. /\ part'[r][p] \in {"ok", "failed"}
          /\ \A k \in Parts \ {p} : part'[r][k] = part[r][k]
          /\ got[r] \subseteq got'[r]
          /\ part'[r][p] = "ok" =>
                got'[r] = got[r] \cup (IF subject[r] = "peers" THEN Page(feed, p) ELSE {p})
      BY DEF PartEnds, KeptInv, ReadsTypeOK
    <3>3. CASE subject[r] = "peers"
      <4>1. \A k \in Parts : part'[r][k] \in Ended
        BY <3>1, <3>2, <3>3 DEF GatherOK, ScanOK, Ended
      <4>2. ASSUME NEW c \in due[r]
            PROVE  \E k \in Parts \cup {0} :
                      c \in Page(feed, k) /\ (k = 0 \/ part'[r][k] = "ok" => c \in got'[r])
        <5>1. PICK k \in Parts \cup {0} :
                 c \in Page(feed, k) /\ (k = 0 \/ part[r][k] = "ok" => c \in got[r])
          BY <3>1, <3>3 DEF GatherOK, ScanOK
        <5>2. CASE k = p
          BY <3>2, <3>3, <5>1, <5>2, ReadsAssumption
        <5>3. CASE k # p
          BY <3>2, <5>1, <5>3
        <5>4. QED  BY <5>2, <5>3
      <4>3. ScanOK(r)'
        BY <3>1, <4>1, <4>2 DEF ScanOK, Page
      <4>4. QED  BY <2>2, <3>1, <3>3, <4>3 DEF GatherOK
    <3>4. CASE subject[r] = "insiders"
      <4>1. TradesOK(r)'
        BY <3>1, <3>2, <3>4 DEF GatherOK, TradesOK, Ended
      <4>2. QED  BY <2>2, <3>1, <3>4, <4>1 DEF GatherOK
    <3>5. QED
      BY <2>2, <3>1, <3>3, <3>4 DEF KeptInv, ReadsTypeOK
  <2>3. QED  BY <2>1, <2>2
<1>3. QED  BY <1>1, <1>2 DEF KeptInv

\* With every part ended and none failed, all that is owed was read.
LEMMA GatheredKeepsInv ==
  ASSUME KeptInv, NEW r \in Askers, Gathered(r)
  PROVE  KeptInv'
<1> DEFINE missing == {p \in Parts : part[r][p] = "failed"}
<1>1. ASSUME missing = {} PROVE due[r] \subseteq got[r]
  <2>1. GatherOK(r) /\ subject[r] \in {"peers", "insiders"} /\ readAt[r] = "gather"
    BY DEF Gathered, KeptInv, ReadsTypeOK
  <2>2. \A p \in Parts : part[r][p] \in Ended => part[r][p] = "ok"
    BY <1>1 DEF Gathered, Ended
  <2>3. CASE subject[r] = "peers"
    <3>1. ScanOK(r)
      BY <2>1, <2>3 DEF GatherOK
    <3>2. QED  BY <2>2, <3>1 DEF ScanOK
  <2>4. CASE subject[r] = "insiders"
    BY <2>1, <2>2, <2>4 DEF GatherOK, TradesOK
  <2>5. QED  BY <2>1, <2>3, <2>4
<1>2. (subject[r] = "peers" => mapLoaded) \in BOOLEAN  OBVIOUS
<1>3. Finish(r, due[r], got[r], missing, subject[r] = "peers" => mapLoaded)
  BY DEF Gathered
<1> HIDE DEF missing
<1>4. QED  BY <1>1, <1>2, <1>3, FinishKeepsInv

LEMMA SubmissionsKeepInv ==
  ASSUME KeptInv, NEW r \in Askers, Submissions(r)
  PROVE  KeptInv'
<1>1. CASE subject[r] = "insiders"
  <2>1. PICK listed \in SUBSET Parts :
           /\ part' = [part EXCEPT ![r] =
                          [p \in Parts |-> IF p \in listed THEN "open" ELSE "unasked"]]
           /\ due' = [due EXCEPT ![r] = listed]
           /\ readAt' = [readAt EXCEPT ![r] = "gather"]
           /\ UNCHANGED <<mapLoaded, keptRead, subject, feed, got>>
    BY <1>1 DEF Submissions
  <2>2. ReadsTypeOK' /\ \A s \in Subjects : AnswerOK(keptRead[s])'
    BY <1>1, <2>1 DEF KeptInv, AnswerOK, ReadsTypeOK
  <2>3. ASSUME NEW q \in Askers PROVE GatherOK(q)'
    <3>1. CASE q = r
      <4>1. /\ due'[r] = listed /\ subject'[r] = "insiders"
            /\ \A p \in listed : part'[r][p] = "open"
        BY <1>1, <2>1 DEF KeptInv, ReadsTypeOK
      <4>2. QED  BY <3>1, <4>1 DEF GatherOK, TradesOK, Ended
    <3>2. CASE q # r
      BY <2>1, <3>2 DEF KeptInv, ReadsTypeOK, GatherOK, ScanOK, TradesOK, Page
    <3>3. QED  BY <3>1, <3>2
  <2>4. QED  BY <2>2, <2>3 DEF KeptInv
<1>2. CASE Finish(r, {}, {}, {}, TRUE)
  BY <1>2, FinishKeepsInv
<1>3. CASE /\ readAt' = [readAt EXCEPT ![r] = "instance"]
           /\ \E owed \in {{}, {Table}} : due' = [due EXCEPT ![r] = owed]
           /\ UNCHANGED <<mapLoaded, keptRead, subject, part, feed, got>>
  BY <1>3 DEF KeptInv, AnswerOK, ReadsTypeOK, GatherOK, ScanOK, TradesOK, Page
<1>4. QED  BY <1>1, <1>2, <1>3 DEF Submissions

LEMMA InstanceKeepsInv ==
  ASSUME KeptInv, NEW r \in Askers, Instance(r)
  PROVE  KeptInv'
<1>1. CASE due[r] = {Table} /\ Finish(r, due[r], {Table}, {}, TRUE)
  BY <1>1, FinishKeepsInv
<1>2. CASE Finish(r, {}, {}, {}, TRUE)
  BY <1>2, FinishKeepsInv
<1>3. CASE Move(r, "folder") /\ UNCHANGED <<mapLoaded, keptRead>>
  BY <1>3, MoveKeepsInv DEF KeptInv, ReadsTypeOK
<1>4. QED  BY <1>1, <1>2, <1>3 DEF Instance

\* Whoever is still owed stands on the page it stood on, which is one page.
LEMMA FeedKeepsInv ==
  ASSUME KeptInv, NEW c \in Company, FeedChanges(c)
  PROVE  KeptInv'
<1>1. ReadsTypeOK' /\ \A s \in Subjects : AnswerOK(keptRead[s])'
  BY DEF FeedChanges, KeptInv, AnswerOK, ReadsTypeOK
<1>2. ASSUME NEW r \in Askers PROVE GatherOK(r)'
  <2>1. /\ part'[r] = part[r] /\ got'[r] = got[r] /\ subject'[r] = subject[r]
        /\ readAt'[r] = readAt[r] /\ feed \in SUBSET Company
    BY DEF FeedChanges, KeptInv, ReadsTypeOK
  <2>2. CASE readAt[r] = "gather" /\ subject[r] = "peers"
    <3>1. ScanOK(r)
      BY <2>2 DEF KeptInv, GatherOK
    <3>2. \A d \in due'[r] : /\ d \in due[r]
                            /\ \E k \in Parts \cup {0} :
                                  d \in Page(feed, k) /\ d \in Page(feed', k)
      BY <2>2 DEF FeedChanges
    <3>3. ASSUME NEW d \in due'[r]
          PROVE  \E k \in Parts \cup {0} :
                    d \in Page(feed', k) /\ (k = 0 \/ part[r][k] = "ok" => d \in got[r])
      <4>1. PICK k \in Parts \cup {0} : d \in Page(feed, k) /\ d \in Page(feed', k)
        BY <3>2
      <4>2. PICK j \in Parts \cup {0} :
               d \in Page(feed, j) /\ (j = 0 \/ part[r][j] = "ok" => d \in got[r])
        BY <3>1, <3>2 DEF ScanOK
      <4>3. k \in Nat /\ j \in Nat
        <5>1. Parts \cup {0} \subseteq Nat
          BY ReadsAssumption
        <5>2. QED  BY <5>1
      <4>4. k = j
        <5>1. d \in Page(feed, k) \cap Page(feed, j)
          BY <4>1, <4>2
        <5>2. QED  BY <2>1, <4>3, <5>1, OnePage
      <4>5. QED  BY <4>1, <4>2, <4>4
    <3>4. ScanOK(r)'
      BY <2>1, <3>1, <3>3 DEF ScanOK, Page
    <3>5. QED  BY <2>1, <2>2, <3>4 DEF GatherOK
  <2>3. CASE readAt[r] = "gather" /\ subject[r] = "insiders"
    <3>1. due'[r] = due[r]
      BY <2>3 DEF FeedChanges, KeptInv, ReadsTypeOK
    <3>2. TradesOK(r)
      BY <2>3 DEF KeptInv, GatherOK
    <3>3. TradesOK(r)'
      BY <2>1, <3>1, <3>2 DEF TradesOK
    <3>4. QED  BY <2>1, <2>3, <3>3 DEF GatherOK
  <2>4. QED  BY <2>1, <2>2, <2>3 DEF KeptInv, ReadsTypeOK, GatherOK
<1>3. QED  BY <1>1, <1>2 DEF KeptInv

LEMMA KeptNext == KeptInv /\ [ReadsNext]_readVars => KeptInv'
<1> SUFFICES ASSUME KeptInv, [ReadsNext]_readVars PROVE KeptInv'  OBVIOUS
<1>1. mapLoaded \in BOOLEAN
  BY DEF KeptInv, ReadsTypeOK
<1>2. ASSUME NEW r \in Askers, NEW s \in Subjects, Request(r, s) PROVE KeptInv'
  BY <1>2 DEF KeptInv, AnswerOK, ReadsTypeOK, Request, GatherOK, ScanOK, TradesOK, Page
<1>3. ASSUME NEW r \in Askers, Ends(r) \/ ScanFails(r) PROVE KeptInv'
  BY <1>1, <1>3, ReplyKeepsInv DEF Ends, ScanFails
<1>4. ASSUME NEW r \in Askers, Profiled(r) PROVE KeptInv'
  <2>1. subject[r] = "peers"
    BY <1>4 DEF Profiled, KeptInv, ReadsTypeOK
  <2>2. QED  BY <1>1, <1>4, <2>1, MoveKeepsInv DEF Profiled
<1>5. ASSUME NEW r \in Askers, MapEnsured(r) PROVE KeptInv'
  <2>1. mapLoaded' \in BOOLEAN /\ UNCHANGED keptRead
    BY <1>1, <1>5 DEF MapEnsured
  <2>2. CASE Reply(r)
    BY <2>1, <2>2, ReplyKeepsInv
  <2>3. CASE Move(r, "first")
    <3>1. subject[r] = "peers"
      BY <1>5 DEF MapEnsured, KeptInv, ReadsTypeOK
    <3>2. QED  BY <2>1, <2>3, <3>1, MoveKeepsInv
  <2>4. QED  BY <1>5, <2>2, <2>3 DEF MapEnsured
<1>6. ASSUME NEW r \in Askers, FirstPage(r) PROVE KeptInv'
  BY <1>6, FirstPageKeepsInv
<1>7. ASSUME NEW r \in Askers, NEW p \in Parts, PartEnds(r, p) PROVE KeptInv'
  BY <1>7, PartKeepsInv
<1>8. ASSUME NEW r \in Askers, Gathered(r) PROVE KeptInv'
  BY <1>8, GatheredKeepsInv
<1>9. ASSUME NEW r \in Askers, Submissions(r) \/ Instance(r) PROVE KeptInv'
  BY <1>9, SubmissionsKeepInv, InstanceKeepsInv
<1>10. ASSUME NEW s \in Subjects, Outlived(s) PROVE KeptInv'
  BY <1>10 DEF KeptInv, AnswerOK, ReadsTypeOK, Outlived, GatherOK, ScanOK, TradesOK, Page
<1>11. ASSUME NEW c \in Company, FeedChanges(c) PROVE KeptInv'
  BY <1>11, FeedKeepsInv
<1>12. CASE UNCHANGED readVars
  BY <1>12 DEF readVars, KeptInv, AnswerOK, ReadsTypeOK, GatherOK, ScanOK, TradesOK, Page
<1>13. QED
  BY <1>2, <1>3, <1>4, <1>5, <1>6, <1>7, <1>8, <1>9, <1>10, <1>11, <1>12 DEF ReadsNext

\* What a kept answer was put together from is all it owes, for any industry,
\* page length and number of pages: the peers gathered are every filer that kept
\* its page while the scan ran, the trades are of every Form 4, and tagged pay is
\* there.  That an empty ticker map then empties the list is not excluded.
THEOREM KeptAnswersWhole == ReadsSpec => []KeptIsWhole
<1>1. KeptInv => KeptIsWhole
  BY DEF KeptInv, AnswerOK, KeptIsWhole
<1>2. QED  BY <1>1, KeptInit, KeptNext, PTL DEF ReadsSpec

(***************************************************************************)
(* Earnings summaries                                                      *)
(***************************************************************************)

Places == {"idle", "looking", "checking", "paid", "storing", "stored", "answered"}

EarningsTypeOK ==
    /\ summary \in Registrants \cup {NoSummary}
    /\ keptList \in [Registrants -> {"none", "with", "without"}]
    /\ sumAt \in [Summarizers -> Places]
    /\ sumFor \in [Summarizers -> Registrants \cup {NoSummary}]
    /\ DOMAIN reply = Summarizers
    /\ listRead \in [Listers -> (Registrants \cup {NoSummary}) \X BOOLEAN]

\* A POST under way names a company; what it stored is stored; what it answers
\* with is the row, and there is one.
PostInv ==
    \A s \in Summarizers :
        /\ sumAt[s] # "idle" => sumFor[s] \in Registrants
        /\ sumAt[s] = "stored" => summary = sumFor[s]
        /\ sumAt[s] = "answered" => reply[s] = summary /\ summary # NoSummary

\* A list shows the summary, kept or on its way to the cache, only if it is that
\* company's.
ListInv ==
    /\ \A c \in Registrants : keptList[c] = "with" => summary = c
    /\ \A l \in Listers : listRead[l][2] => summary = listRead[l][1] /\ summary # NoSummary

StoredInv == EarningsTypeOK /\ PostInv /\ ListInv

LEMMA StoredInit == EarningsInit => StoredInv
<1> SUFFICES ASSUME EarningsInit PROVE StoredInv  OBVIOUS
<1>1. EarningsTypeOK
  <2>1. listRead \in [Listers -> (Registrants \cup {NoSummary}) \X BOOLEAN]
    BY DEF EarningsInit
  <2>2. QED  BY <2>1 DEF EarningsInit, EarningsTypeOK, Places
<1>2. PostInv  BY DEF EarningsInit, PostInv
<1>3. ListInv
  <2>1. \A l \in Listers : listRead[l] = <<NoSummary, FALSE>>
    BY DEF EarningsInit
  <2>2. QED  BY <2>1 DEF EarningsInit, ListInv
<1>4. QED  BY <1>1, <1>2, <1>3 DEF StoredInv

\* The row of a release is written once, and the rest is the rest.
LEMMA RowStays ==
  ASSUME StoredInv, NEW s \in Summarizers,
         summary' = summary \/ (summary = NoSummary /\ summary' = sumFor[s] /\ sumFor[s] \in Registrants),
         keptList' \in [Registrants -> {"none", "with", "without"}],
         \A c \in Registrants : keptList'[c] = keptList[c] \/ keptList'[c] = "none",
         UNCHANGED gets,
         sumAt' \in [Summarizers -> Places],
         sumFor' \in [Summarizers -> Registrants \cup {NoSummary}],
         DOMAIN reply' = Summarizers,
         \A t \in Summarizers \ {s} :
            sumAt'[t] = sumAt[t] /\ sumFor'[t] = sumFor[t] /\ reply'[t] = reply[t],
         sumAt'[s] # "idle" => sumFor'[s] \in Registrants,
         sumAt'[s] = "stored" => summary' = sumFor'[s],
         sumAt'[s] = "answered" => reply'[s] = summary' /\ summary' # NoSummary
  PROVE  StoredInv'
<1> USE EarningsAssumption
<1>1. EarningsTypeOK'
  BY DEF StoredInv, EarningsTypeOK, gets
<1>2. summary # NoSummary => summary' = summary
  OBVIOUS
<1>3. PostInv'
  <2> SUFFICES ASSUME NEW t \in Summarizers
               PROVE  /\ sumAt'[t] # "idle" => sumFor'[t] \in Registrants
                      /\ sumAt'[t] = "stored" => summary' = sumFor'[t]
                      /\ sumAt'[t] = "answered" => reply'[t] = summary' /\ summary' # NoSummary
    BY DEF PostInv
  <2>1. CASE t = s
    BY <2>1
  <2>2. CASE t # s
    BY <1>2, <2>2 DEF StoredInv, PostInv
  <2>3. QED  BY <2>1, <2>2
<1>4. ListInv'
  BY <1>2 DEF StoredInv, ListInv, gets, EarningsTypeOK
<1>5. QED  BY <1>1, <1>3, <1>4 DEF StoredInv

LEMMA StoredNext == StoredInv /\ [EarningsNext]_earningsVars => StoredInv'
<1> SUFFICES ASSUME StoredInv, [EarningsNext]_earningsVars PROVE StoredInv'  OBVIOUS
<1> USE EarningsAssumption
<1>t. EarningsTypeOK  BY DEF StoredInv
<1>p. \A s \in Summarizers :
         /\ sumAt[s] # "idle" => sumFor[s] \in Registrants
         /\ sumAt[s] = "stored" => summary = sumFor[s]
  BY DEF StoredInv, PostInv
<1>1. ASSUME NEW s \in Summarizers, NEW c \in Registrants, BeginSummary(s, c) PROVE StoredInv'
  BY <1>t, <1>1, RowStays DEF EarningsTypeOK, BeginSummary, store, gets, Places
<1>2. ASSUME NEW s \in Summarizers, LookUpSummary(s) PROVE StoredInv'
  BY <1>t, <1>p, <1>2, RowStays DEF EarningsTypeOK, LookUpSummary, Answers, SumGoes, gets, Places
<1>3. ASSUME NEW s \in Summarizers, PayForSummary(s) \/ Summarized(s) PROVE StoredInv'
  BY <1>t, <1>p, <1>3, RowStays DEF EarningsTypeOK, PayForSummary, Summarized, SumGoes, gets, Places
<1>4. ASSUME NEW s \in Summarizers, InsertSummary(s) PROVE StoredInv'
  <2>1. CASE summary = NoSummary
    BY <1>t, <1>p, <1>4, <2>1, RowStays DEF EarningsTypeOK, InsertSummary, SumGoes, gets, Places
  <2>2. CASE summary # NoSummary
    BY <1>t, <1>p, <1>4, <2>2, RowStays
       DEF EarningsTypeOK, InsertSummary, Answers, SumGoes, gets, Places
  <2>3. QED  BY <2>1, <2>2
<1>5. ASSUME NEW s \in Summarizers, DiscardList(s) PROVE StoredInv'
  BY <1>t, <1>p, <1>5, RowStays DEF EarningsTypeOK, DiscardList, gets, Places
<1>6. ASSUME NEW s \in Summarizers, SummaryEnds(s) PROVE StoredInv'
  BY <1>t, <1>p, <1>6, RowStays DEF EarningsTypeOK, SummaryEnds, gets, Places
<1>7. ASSUME NEW l \in Listers, NEW c \in Registrants, QueryList(l, c) PROVE StoredInv'
  <2>1. UNCHANGED <<summary, keptList, sumAt, sumFor, reply>>
    BY <1>7 DEF QueryList, store, posts
  <2>2. listRead' = [listRead EXCEPT ![l] = <<c, summary = c>>]
    BY <1>7 DEF QueryList, Listed
  <2>3. EarningsTypeOK'
    BY <1>t, <2>1, <2>2 DEF EarningsTypeOK
  <2>4. ListInv'
    BY <1>t, <2>1, <2>2 DEF StoredInv, ListInv, EarningsTypeOK
  <2>5. QED  BY <2>1, <2>3, <2>4 DEF StoredInv, PostInv
<1>8. ASSUME NEW l \in Listers, KeepList(l) PROVE StoredInv'
  <2>1. UNCHANGED <<summary, sumAt, sumFor, reply>>
    BY <1>8 DEF KeepList, posts
  <2>2. listRead' = [listRead EXCEPT ![l] = <<NoSummary, FALSE>>]
    BY <1>8 DEF KeepList
  <2>3. \/ keptList' = keptList
        \/ keptList' = [keptList EXCEPT ![listRead[l][1]] =
                           IF listRead[l][2] THEN "with" ELSE "without"]
    BY <1>8 DEF KeepList
  <2>4. EarningsTypeOK'
    BY <1>t, <2>1, <2>2, <2>3 DEF EarningsTypeOK
  <2>5. \A c \in Registrants : keptList'[c] = "with" => summary = c
    BY <1>t, <2>3 DEF StoredInv, ListInv, EarningsTypeOK
  <2>6. \A m \in Listers : listRead'[m][2] => summary = listRead'[m][1] /\ summary # NoSummary
    BY <1>t, <2>2 DEF StoredInv, ListInv, EarningsTypeOK
  <2>7. QED  BY <2>1, <2>4, <2>5, <2>6 DEF StoredInv, ListInv, PostInv
<1>9. ASSUME NEW c \in Registrants, KeptListExpires(c) PROVE StoredInv'
  <2>1. /\ UNCHANGED <<summary, sumAt, sumFor, reply, listRead>>
        /\ keptList' = [keptList EXCEPT ![c] = "none"]
    BY <1>9 DEF KeptListExpires, posts, gets
  <2>2. QED  BY <1>t, <2>1 DEF StoredInv, EarningsTypeOK, PostInv, ListInv
<1>10. CASE UNCHANGED earningsVars
  BY <1>10 DEF earningsVars, store, posts, gets, StoredInv, EarningsTypeOK, PostInv, ListInv
<1>11. QED
  BY <1>1, <1>2, <1>3, <1>4, <1>5, <1>6, <1>7, <1>8, <1>9, <1>10 DEF EarningsNext

\* Everyone who is answered about a release is answered with the row that is
\* stored for it, and no cached list shows a summary that is not stored.
THEOREM AnsweredWithTheRow == EarningsSpec => []AnsweredAsStored
<1>1. StoredInv => AnsweredAsStored
  BY DEF StoredInv, PostInv, ListInv, AnsweredAsStored, Listed
<1>2. QED  BY <1>1, StoredInit, StoredNext, PTL DEF EarningsSpec

(***************************************************************************)
(* Frames                                                                  *)
(***************************************************************************)

(* The names of the coroutines, as the proofs need them. *)

Own(r) == MetricsOf(r) \cup {ProbeOf(r)}

LEMMA OwnNames ==
  ASSUME NEW r \in Rankers
  PROVE  /\ ProbeOf(r) \in Waiter /\ MetricsOf(r) \subseteq Waiter
         /\ ProbeOf(r) \notin MetricsOf(r)
         /\ Wanted(ProbeOf(r)) = <<Probe, ranked[r]>>
         /\ \A w \in MetricsOf(r) : Wanted(w) \in {<<Probe, ranked[r]>>, <<Revenue, ranked[r]>>}
         /\ \A w \in Own(r) : w \notin ConceptKey /\ w[1] = r
<1>1. r \notin Concepts /\ "probe" # Revenue /\ "probe" # Probe
  BY FramesAssumption
<1>2. ProbeOf(r)[1] = r /\ \A w \in MetricsOf(r) : w[1] = r
  BY DEF ProbeOf, MetricsOf
<1>3. ProbeOf(r) \in Waiter /\ MetricsOf(r) \subseteq Waiter
  BY DEF Waiter
<1>4. ProbeOf(r) \notin MetricsOf(r)
  BY <1>1 DEF ProbeOf, MetricsOf
<1>5. \A w \in Own(r) : w[1] = r /\ w \notin ConceptKey
  BY <1>1, <1>2 DEF Own, ConceptKey
<1>6. Wanted(ProbeOf(r)) = <<Probe, ranked[r]>>
  BY <1>1 DEF Wanted, ProbeOf
<1>7. \A w \in MetricsOf(r) : Wanted(w) \in {<<Probe, ranked[r]>>, <<Revenue, ranked[r]>>}
  BY <1>1, <1>2 DEF Wanted
<1>8. QED  BY <1>3, <1>4, <1>5, <1>6, <1>7

LEMMA OthersNames ==
  ASSUME NEW r \in Rankers, NEW s \in Rankers, r # s
  PROVE  Own(r) \cap Own(s) = {}
BY DEF ProbeOf, MetricsOf, Own

LEMMA ChildNames ==
  ASSUME NEW c \in ConceptKey
  PROVE  /\ c \in Waiter /\ c \in Key /\ Wanted(c) = c /\ c \notin MetricKey
         /\ c[1] \in Concepts /\ c[2] \in Period /\ c = <<c[1], c[2]>>
<1>1. PICK x \in Concepts, p \in Period : c = <<x, p>>
  BY DEF ConceptKey
<1>2. c[1] = x /\ c[2] = p
  BY <1>1
<1>3. c \notin MetricKey
  BY <1>1, FramesAssumption DEF MetricKey
<1>4. c \in Waiter /\ c \in Key
  BY DEF Waiter, Key
<1>5. QED  BY <1>1, <1>2, <1>3, <1>4 DEF Wanted

LEMMA AllNames ==
  ASSUME NEW w \in Waiter
  PROVE  w \in ConceptKey \/ \E r \in Rankers : w \in Own(r)
<1>1. CASE w \in {ProbeOf(r) : r \in Rankers}
  BY <1>1 DEF Own
<1>2. CASE w \in UNION {MetricsOf(r) : r \in Rankers}
  BY <1>2 DEF Own
<1>3. CASE w \in ConceptKey
  BY <1>3
<1>4. QED  BY <1>1, <1>2, <1>3 DEF Waiter

LEMMA KeyNames ==
  ASSUME NEW p \in Period
  PROVE  /\ <<Probe, p>> \in ConceptKey /\ <<Probe, p>> \in Key /\ <<Probe, p>> \notin MetricKey
         /\ <<Revenue, p>> \in MetricKey /\ <<Revenue, p>> \in Key
         /\ <<Revenue, p>> \notin ConceptKey
BY FramesAssumption DEF ConceptKey, Key, MetricKey, Concepts

\* A coroutine wants what it wanted as long as its request stays at its period.
LEMMA SameWanted ==
  ASSUME NEW w \in Waiter, \A r \in Rankers : w \in Own(r) => ranked'[r] = ranked[r]
  PROVE  Wanted(w)' = Wanted(w)
<1>1. CASE w \in ConceptKey
  BY <1>1, ChildNames DEF Wanted
<1>2. CASE w \notin ConceptKey
  <2>1. PICK r \in Rankers : w \in Own(r)  BY <1>2, AllNames
  <2>2. w[1] = r /\ ranked'[r] = ranked[r]  BY <2>1, OwnNames
  <2>3. QED  BY <2>2 DEF Wanted
<1>3. QED  BY <1>1, <1>2
-----------------------------------------------------------------------------
(* The invariants. *)

UnderWay(r) == rankerAt[r] \in {"probing", "measuring"}

FrameTypes ==
    /\ published \in Publications
    /\ kept \in [Key -> {"none", "absent", "thin", "full"}]
    /\ keptPeriod \in 0 .. Unranked
    /\ registry \subseteq Key
    /\ running \in [Key -> {0, 1}]
    /\ rankerAt \in [Rankers -> {"idle", "probing", "measuring", "answered", "gave_up"}]
    /\ ranked \in [Rankers -> 0 .. Unranked]
    /\ waiter \in [Waiter -> AtWork \cup {"off", "done", "broken"}]
    /\ sawFailure \in [Rankers -> BOOLEAN]

\* The registry names the tasks that have not ended.
RegistryExact == \A k \in Key : running[k] = IF k \in registry THEN 1 ELSE 0

\* A request's coroutines are where the request is: it probes before it
\* measures, and only the children of a request that gave up outlive it.
CoroutinesInStep ==
    \A r \in Rankers :
        /\ waiter[ProbeOf(r)] \in {"off", "waiting", "woken", "refused"}
        /\ rankerAt[r] # "probing" => waiter[ProbeOf(r)] = "off"
        /\ UnderWay(r) => ranked[r] \in Period
        /\ \A w \in MetricsOf(r) :
              /\ waiter[w] \in AtWork => ranked[r] \in Period
              /\ rankerAt[r] # "measuring" => waiter[w] # "broken"
              /\ rankerAt[r] \notin {"measuring", "gave_up"} => waiter[w] \in {"off", "done"}

\* Only merges start children that are frames of concepts.
OnlyMergedAreChildren == \A p \in Period : waiter[<<Probe, p>>] = "off"

WaitersRegistered == \A w \in Waiter : waiter[w] = "waiting" => Wanted(w) \in registry

\* Everything newer than the period a request probes is not populated.
ProbedInOrder ==
    \A r \in Rankers, p \in Period :
        rankerAt[r] = "probing" /\ p < ranked[r] => published[<<Probe, p>>] # "full"

\* Whoever is under way while a failure travels up has been told of it.
FailureSeen ==
    \A r \in Rankers :
        /\ UnderWay(r) /\ FailureOnItsWay => sawFailure[r]
        /\ waiter[ProbeOf(r)] = "refused" => sawFailure[r]
        /\ \A w \in MetricsOf(r) :
              rankerAt[r] = "measuring" /\ waiter[w] \in {"refused", "broken"} => sawFailure[r]

SharingInv == /\ FrameTypes /\ RegistryExact /\ CoroutinesInStep
              /\ OnlyMergedAreChildren /\ WaitersRegistered

LEMMA SharingInit == FramesInit => SharingInv
<1> SUFFICES ASSUME FramesInit PROVE SharingInv  OBVIOUS
<1>0. /\ \A w \in Waiter : waiter[w] = "off"
      /\ \A r \in Rankers : ProbeOf(r) \in Waiter /\ MetricsOf(r) \subseteq Waiter
      /\ \A p \in Period : <<Probe, p>> \in Waiter
  BY OwnNames, KeyNames, ChildNames DEF FramesInit
<1>1. FrameTypes
  BY FramesAssumption DEF FramesInit, FrameTypes, Unranked, NoPeriod
<1>2. RegistryExact /\ WaitersRegistered /\ OnlyMergedAreChildren
  BY <1>0 DEF FramesInit, RegistryExact, WaitersRegistered, OnlyMergedAreChildren
<1>3. CoroutinesInStep
  BY <1>0 DEF FramesInit, CoroutinesInStep, UnderWay, AtWork
<1>4. QED  BY <1>1, <1>2, <1>3 DEF SharingInv
-----------------------------------------------------------------------------
(* What a request may do: begin to probe, measure, end or give up. *)

OnlyMoves(r) ==
    /\ UNCHANGED <<fixed, kept>>
    /\ \A s \in Rankers \ {r} :
          rankerAt'[s] = rankerAt[s] /\ ranked'[s] = ranked[s] /\ sawFailure'[s] = sawFailure[s]
    /\ \A w \in Waiter \ Own(r) : waiter'[w] = waiter[w]

ToProbe(r, j) ==
    /\ rankerAt'[r] = "probing" /\ ranked'[r] = j /\ keptPeriod' = keptPeriod
    /\ waiter'[ProbeOf(r)] = "waiting"
    /\ \A w \in MetricsOf(r) : waiter'[w] = waiter[w] /\ waiter[w] \in {"off", "done"}
    /\ registry' = registry \cup {<<Probe, j>>}

ToMeasure(r, j) ==
    /\ rankerAt'[r] = "measuring" /\ ranked'[r] = j /\ keptPeriod' = j
    /\ waiter'[ProbeOf(r)] = "off"
    /\ \A w \in MetricsOf(r) : waiter'[w] = "start"
    /\ UNCHANGED tasks

ToEnd(r) ==
    /\ rankerAt'[r] \in {"answered", "idle"}
    /\ waiter'[ProbeOf(r)] = "off"
    /\ \A w \in MetricsOf(r) : waiter'[w] \in {"off", "done"}
    /\ UNCHANGED tasks

ToGivenUp(r) ==
    /\ rankerAt'[r] = "gave_up" /\ ranked'[r] = ranked[r] /\ sawFailure'[r] = sawFailure[r]
    /\ keptPeriod' = keptPeriod
    /\ waiter'[ProbeOf(r)] = "off"
    /\ \A w \in MetricsOf(r) : waiter'[w] = IF waiter[w] \in AtWork THEN waiter[w] ELSE "off"
    /\ UNCHANGED tasks

\* The metrics of a request that is not at work on them are over.
Resting(r) == \A w \in MetricsOf(r) : waiter[w] \in {"off", "done"}

LEMMA OnceForConcept ==
  ASSUME SharingInv, NEW r \in Rankers, NEW p \in Period, Once(ProbeOf(r), <<Probe, p>>)
  PROVE  /\ waiter' = [waiter EXCEPT ![ProbeOf(r)] = "waiting"]
         /\ registry' = registry \cup {<<Probe, p>>}
         /\ running' \in [Key -> {0, 1}] /\ RegistryExact'
<1>1. <<Probe, p>> \in Key /\ Children(<<Probe, p>>) = {}
  BY KeyNames DEF Children
<1>2. CASE <<Probe, p>> \in registry
  BY <1>2 DEF Once, SharingInv, RegistryExact, FrameTypes, tasks
<1>3. CASE <<Probe, p>> \notin registry
  <2>1. running[<<Probe, p>>] = 0
    BY <1>1, <1>3 DEF SharingInv, RegistryExact
  <2>2. /\ registry' = registry \cup {<<Probe, p>>}
        /\ running' = [running EXCEPT ![<<Probe, p>>] = @ + 1]
        /\ waiter' = [v \in Waiter |-> IF v = ProbeOf(r) THEN "waiting" ELSE waiter[v]]
    BY <1>1, <1>3 DEF Once
  <2>3. running' \in [Key -> {0, 1}] /\ RegistryExact'
    BY <1>1, <2>1, <2>2 DEF SharingInv, RegistryExact, FrameTypes
  <2>4. QED  BY <2>2, <2>3, OwnNames DEF SharingInv, FrameTypes
<1>4. QED  BY <1>2, <1>3

\* The kept frames of periods i .. j - 1 are no populations.
Passed(i, j) == \A l \in i .. (j - 1) : kept[<<Probe, l>>] \notin {"none", "full"}

LEMMA ProbeFromMoves ==
  ASSUME SharingInv, NEW r \in Rankers, NEW i \in Nat \ {0}, ProbeFrom(r, i), Resting(r)
  PROVE  \/ \E j \in i .. Lookback : ToProbe(r, j) /\ RegistryExact' /\ Passed(i, j)
         \/ \E j \in i .. Lookback :
               ToMeasure(r, j) /\ kept[<<Probe, j>>] = "full" /\ Passed(i, j)
         \/ ToEnd(r) /\ keptPeriod' = Unranked /\ Passed(i, Unranked)
<1> USE DEF GoTo
<1>0. /\ rankerAt \in [Rankers -> {"idle", "probing", "measuring", "answered", "gave_up"}]
      /\ ranked \in [Rankers -> 0 .. Unranked]
      /\ waiter \in [Waiter -> AtWork \cup {"off", "done", "broken"}]
      /\ ProbeOf(r) \in Waiter /\ MetricsOf(r) \subseteq Waiter /\ ProbeOf(r) \notin MetricsOf(r)
  BY OwnNames DEF SharingInv, FrameTypes
<1>1. ASSUME NEW j \in i .. Lookback, kept[<<Probe, j>>] = "full", keptPeriod' = j, Measure(r, j)
      PROVE  ToMeasure(r, j)
  BY <1>0, <1>1 DEF ToMeasure, Measure
<1>2. ASSUME NEW j \in i .. Lookback, UNCHANGED keptPeriod,
             GoTo(r, "probing", j), Once(ProbeOf(r), <<Probe, j>>)
      PROVE  ToProbe(r, j) /\ RegistryExact'
  <2>1. j \in Period  BY FramesAssumption DEF Period
  <2>2. /\ waiter' = [waiter EXCEPT ![ProbeOf(r)] = "waiting"]
        /\ registry' = registry \cup {<<Probe, j>>} /\ RegistryExact'
    BY <1>2, <2>1, OnceForConcept
  <2>3. QED  BY <1>0, <1>2, <2>2 DEF ToProbe, Resting
<1>3. ASSUME keptPeriod' = Unranked, GoTo(r, "answered", Unranked),
             waiter' = [waiter EXCEPT ![ProbeOf(r)] = "off"], UNCHANGED tasks
      PROVE  ToEnd(r)
  BY <1>0, <1>3 DEF ToEnd, Resting
<1>4. CASE \E j \in i .. Lookback : ToMeasure(r, j) /\ kept[<<Probe, j>>] = "full" /\ Passed(i, j)
  BY <1>4
<1>5. CASE \E j \in i .. Lookback : ToProbe(r, j) /\ RegistryExact' /\ Passed(i, j)
  BY <1>5
<1>6. CASE ToEnd(r) /\ keptPeriod' = Unranked /\ \A l \in i .. Lookback : kept[<<Probe, l>>] \notin {"none", "full"}
  <2>1. Passed(i, Unranked)
    BY <1>6, FramesAssumption DEF Passed, Unranked
  <2>2. QED  BY <1>6, <2>1
<1>7. QED  BY <1>1, <1>2, <1>3, <1>4, <1>5, <1>6 DEF ProbeFrom, Passed

\* Whoever asks or probes has no metrics at work, and does not begin before its
\* period is known.
LEMMA RequestMoves ==
  ASSUME SharingInv, NEW r \in Rankers,
         Ask(r) \/ ProbeWoken(r) \/ ProbeRefused(r) \/ Measured(r) \/ MeasureFailed(r) \/ Cancel(r)
  PROVE  /\ OnlyMoves(r)
         /\ \/ \E j \in Period : ToProbe(r, j) /\ RegistryExact'
            \/ \E j \in Period : ToMeasure(r, j)
            \/ ToEnd(r)
            \/ ToGivenUp(r)
<1> USE DEF GoTo
<1>0. /\ rankerAt \in [Rankers -> {"idle", "probing", "measuring", "answered", "gave_up"}]
      /\ ranked \in [Rankers -> 0 .. Unranked]
      /\ waiter \in [Waiter -> AtWork \cup {"off", "done", "broken"}]
      /\ sawFailure \in [Rankers -> BOOLEAN]
      /\ ProbeOf(r) \in Waiter /\ MetricsOf(r) \subseteq Waiter /\ ProbeOf(r) \notin MetricsOf(r)
  BY OwnNames DEF SharingInv, FrameTypes
<1>1. ASSUME NEW i \in Nat \ {0}, ProbeFrom(r, i), Resting(r)
      PROVE  \/ \E j \in Period : ToProbe(r, j) /\ RegistryExact'
             \/ \E j \in Period : ToMeasure(r, j)
             \/ ToEnd(r)
  <2>1. i .. Lookback \subseteq Period
    BY FramesAssumption DEF Period
  <2>2. QED  BY <1>1, <2>1, ProbeFromMoves
<1>2. ASSUME NEW i \in Nat \ {0}, ProbeFrom(r, i), UNCHANGED <<fixed, kept>>,
             \A s \in Rankers \ {r} : sawFailure'[s] = sawFailure[s]
      PROVE  OnlyMoves(r)
  <2>0. i .. Lookback \subseteq Period
    BY FramesAssumption DEF Period
  <2>1. ASSUME NEW j \in i .. Lookback, Measure(r, j) PROVE OnlyMoves(r)
    BY <1>0, <1>2, <2>1 DEF Measure, OnlyMoves, Own
  <2>2. ASSUME NEW j \in i .. Lookback, GoTo(r, "probing", j), Once(ProbeOf(r), <<Probe, j>>)
        PROVE  OnlyMoves(r)
    <3>1. waiter' = [waiter EXCEPT ![ProbeOf(r)] = "waiting"]
      BY <2>0, <2>2, OnceForConcept
    <3>2. QED  BY <1>0, <1>2, <2>2, <3>1 DEF OnlyMoves, Own
  <2>3. ASSUME GoTo(r, "answered", Unranked), waiter' = [waiter EXCEPT ![ProbeOf(r)] = "off"]
        PROVE  OnlyMoves(r)
    BY <1>0, <1>2, <2>3 DEF OnlyMoves, Own
  <2>4. QED  BY <1>2, <2>1, <2>2, <2>3 DEF ProbeFrom
<1>3. ASSUME NEW p \in Period, Measure(r, p), UNCHANGED <<fixed, kept>>, keptPeriod' = p,
             \A s \in Rankers \ {r} : sawFailure'[s] = sawFailure[s]
      PROVE  OnlyMoves(r) /\ ToMeasure(r, p)
  BY <1>0, <1>3 DEF Measure, OnlyMoves, Own, ToMeasure
<1>4. CASE Ask(r)
  <2>1. Resting(r)
    BY <1>0, <1>4 DEF Ask, Resting, SharingInv, CoroutinesInStep, AtWork
  <2>2. UNCHANGED <<fixed, kept>> /\ \A s \in Rankers \ {r} : sawFailure'[s] = sawFailure[s]
    BY <1>0, <1>4 DEF Ask
  <2>3. CASE keptPeriod = Unranked /\ GoTo(r, "answered", Unranked) /\ UNCHANGED <<keptPeriod, waiter, tasks>>
    <3>1. waiter[ProbeOf(r)] = "off"
      BY <1>4 DEF Ask, SharingInv, CoroutinesInStep
    <3>2. QED  BY <1>0, <2>1, <2>2, <2>3, <3>1 DEF OnlyMoves, ToEnd, Resting
  <2>4. QED  BY <1>1, <1>2, <1>3, <1>4, <2>1, <2>2, <2>3 DEF Ask
<1>5. CASE ProbeWoken(r)
  <2>1. rankerAt[r] = "probing" /\ Resting(r) /\ ranked[r] \in Period
    BY <1>5 DEF ProbeWoken, Resting, SharingInv, CoroutinesInStep, UnderWay
  <2>2. UNCHANGED <<fixed, kept>> /\ \A s \in Rankers \ {r} : sawFailure'[s] = sawFailure[s]
    BY <1>5 DEF ProbeWoken
  <2>3. ranked[r] + 1 \in Nat \ {0}
    BY <2>1, FramesAssumption DEF Period
  <2>4. QED  BY <1>1, <1>2, <1>3, <1>5, <2>1, <2>2, <2>3 DEF ProbeWoken
<1>6. ASSUME GiveUp(r), rankerAt[r] \in {"probing", "measuring"} PROVE OnlyMoves(r) /\ ToGivenUp(r)
  BY <1>0, <1>6 DEF GiveUp, OnlyMoves, Own, ToGivenUp
<1>7. CASE ProbeRefused(r) \/ MeasureFailed(r)
  <2>1. rankerAt[r] \in {"probing", "measuring"}
    BY <1>7 DEF ProbeRefused, MeasureFailed, SharingInv, CoroutinesInStep
  <2>2. QED  BY <1>6, <1>7, <2>1 DEF ProbeRefused, MeasureFailed
<1>8. CASE Measured(r) \/ Cancel(r)
  BY <1>0, <1>8 DEF Measured, Cancel, Leave, OnlyMoves, Own, ToEnd
<1>9. QED  BY <1>4, <1>5, <1>7, <1>8
-----------------------------------------------------------------------------
(* What tasks and the coroutines that wait for them may do. *)

LEMMA WantedIsKey ==
  ASSUME SharingInv, NEW w \in Waiter, waiter[w] \in AtWork
  PROVE  Wanted(w) \in Key
<1>1. CASE w \in ConceptKey
  BY <1>1, ChildNames
<1>2. ASSUME NEW r \in Rankers, w \in Own(r) PROVE Wanted(w) \in Key
  <2>1. ranked[r] \in Period
    BY <1>2 DEF SharingInv, CoroutinesInStep, Own, AtWork, UnderWay
  <2>2. Wanted(w) \in {<<Probe, ranked[r]>>, <<Revenue, ranked[r]>>}
    BY <1>2, OwnNames DEF Own
  <2>3. QED  BY <2>1, <2>2, KeyNames
<1>3. QED  BY <1>1, <1>2, AllNames

LEMMA OnceShares ==
  ASSUME SharingInv, NEW w \in Waiter, NEW k \in Key, Once(w, k)
  PROVE  /\ registry' = registry \cup {k} /\ running' \in [Key -> {0, 1}] /\ RegistryExact'
         /\ waiter' \in [Waiter -> AtWork \cup {"off", "done", "broken"}]
         /\ waiter'[w] = "waiting"
         /\ \A v \in Waiter \ {w} :
               \/ waiter'[v] = waiter[v]
               \/ v \in ConceptKey /\ v[1] \in Merged /\ waiter'[v] = "start"
<1>0. /\ waiter \in [Waiter -> AtWork \cup {"off", "done", "broken"}]
      /\ running \in [Key -> {0, 1}] /\ "start" \in AtWork /\ "waiting" \in AtWork
  BY DEF SharingInv, FrameTypes, AtWork
<1>1. CASE k \in registry
  BY <1>0, <1>1 DEF Once, SharingInv, RegistryExact, tasks
<1>2. CASE k \notin registry
  <2>1. running[k] = 0
    BY <1>2 DEF SharingInv, RegistryExact
  <2>2. /\ registry' = registry \cup {k}
        /\ running' = [running EXCEPT ![k] = @ + 1]
        /\ waiter' = [v \in Waiter |->
                          IF v = w THEN "waiting"
                          ELSE IF v \in Children(k) THEN "start" ELSE waiter[v]]
    BY <1>2 DEF Once
  <2>3. running' \in [Key -> {0, 1}] /\ RegistryExact'
    BY <1>0, <2>1, <2>2 DEF SharingInv, RegistryExact
  <2>4. \A v \in Children(k) : v \in ConceptKey /\ v[1] \in Merged
    BY DEF Children
  <2>5. QED  BY <1>0, <2>2, <2>3, <2>4
<1>3. QED  BY <1>1, <1>2

\* others says what becomes of the coroutines that do not wait for the task.
LEMMA TaskEndsShares ==
  ASSUME SharingInv, NEW k \in Key, NEW result \in {"woken", "refused"},
         NEW others \in [Waiter -> AtWork \cup {"off", "done", "broken"}],
         TaskEnds(k, result, others)
  PROVE  /\ registry' = registry \ {k} /\ running' \in [Key -> {0, 1}] /\ RegistryExact'
         /\ running' = [running EXCEPT ![k] = 0] /\ running[k] > 0
         /\ waiter' \in [Waiter -> AtWork \cup {"off", "done", "broken"}]
         /\ \A v \in Waiter :
               waiter'[v] = IF waiter[v] = "waiting" /\ Wanted(v) = k THEN result ELSE others[v]
<1>1. running \in [Key -> {0, 1}] /\ running[k] = 1
  BY DEF SharingInv, FrameTypes, TaskEnds
<1>2. running' = [running EXCEPT ![k] = 0] /\ registry' = registry \ {k}
  BY <1>1 DEF TaskEnds
<1>3. running' \in [Key -> {0, 1}] /\ RegistryExact'
  BY <1>1, <1>2 DEF SharingInv, RegistryExact
<1>4. waiter' = [v \in Waiter |->
                    IF waiter[v] = "waiting" /\ Wanted(v) = k THEN result ELSE others[v]]
  BY DEF TaskEnds
<1>5. QED  BY <1>1, <1>2, <1>3, <1>4 DEF AtWork

\* What a merge that ends leaves of its children.
LEMMA MergeRest ==
  ASSUME SharingInv, NEW p \in Period, MergeEnds(p)
  PROVE  \E result \in {"woken", "refused"},
            rest \in [Waiter -> AtWork \cup {"off", "done", "broken"}] :
            /\ TaskEnds(<<Revenue, p>>, result, rest)
            /\ \A v \in Waiter : \/ rest[v] = waiter[v]
                                 \/ v \in ConceptKey /\ waiter[v] # "waiting" /\ rest[v] = "off"
            /\ result = "refused" => \E c \in Merged \X {p} : waiter[c] = "broken"
            /\ \A c \in Merged \X {p} : rest[c] \in {"waiting", "off"}
<1> DEFINE parts == Merged \X {p}
           rest == [w \in Waiter |->
                       IF w \in parts /\ waiter[w] # "waiting" THEN "off" ELSE waiter[w]]
<1>1. parts \subseteq ConceptKey /\ parts \subseteq Waiter
  <2>1. parts \subseteq ConceptKey  BY DEF ConceptKey, Concepts
  <2>2. QED  BY <2>1, ChildNames
<1>2. rest \in [Waiter -> AtWork \cup {"off", "done", "broken"}]
  BY DEF SharingInv, FrameTypes
<1>3. \A v \in Waiter : \/ rest[v] = waiter[v]
                        \/ v \in ConceptKey /\ waiter[v] # "waiting" /\ rest[v] = "off"
  BY <1>1
<1>4. \A c \in parts : rest[c] \in {"waiting", "off"}
  BY <1>1
<1>5. CASE TaskEnds(<<Revenue, p>>, "woken", rest)
  BY <1>2, <1>3, <1>4, <1>5
<1>6. CASE TaskEnds(<<Revenue, p>>, "refused", rest) /\ \E c \in parts : waiter[c] = "broken"
  BY <1>2, <1>3, <1>4, <1>6
<1>7. QED  BY <1>5, <1>6 DEF MergeEnds
-----------------------------------------------------------------------------
LEMMA ProbeFromTypes ==
  ASSUME SharingInv, NEW r \in Rankers, NEW i \in Nat \ {0}, ProbeFrom(r, i)
  PROVE  /\ keptPeriod' \in 0 .. Unranked /\ registry' \subseteq Key /\ running' \in [Key -> {0, 1}]
         /\ rankerAt' \in [Rankers -> {"idle", "probing", "measuring", "answered", "gave_up"}]
         /\ ranked' \in [Rankers -> 0 .. Unranked]
         /\ waiter' \in [Waiter -> AtWork \cup {"off", "done", "broken"}]
<1> USE DEF SharingInv, FrameTypes, GoTo, tasks
<1>0. i .. Lookback \subseteq Period /\ Period \subseteq 0 .. Unranked /\ Unranked \in 0 .. Unranked
  BY FramesAssumption DEF Period, Unranked
<1>1. ASSUME NEW j \in i .. Lookback, keptPeriod' = j, Measure(r, j)
      PROVE  /\ keptPeriod' \in 0 .. Unranked /\ registry' \subseteq Key /\ running' \in [Key -> {0, 1}]
             /\ rankerAt' \in [Rankers -> {"idle", "probing", "measuring", "answered", "gave_up"}]
             /\ ranked' \in [Rankers -> 0 .. Unranked]
             /\ waiter' \in [Waiter -> AtWork \cup {"off", "done", "broken"}]
  BY <1>0, <1>1 DEF Measure, AtWork
<1>2. ASSUME NEW j \in i .. Lookback, UNCHANGED keptPeriod, GoTo(r, "probing", j),
             Once(ProbeOf(r), <<Probe, j>>)
      PROVE  /\ keptPeriod' \in 0 .. Unranked /\ registry' \subseteq Key /\ running' \in [Key -> {0, 1}]
             /\ rankerAt' \in [Rankers -> {"idle", "probing", "measuring", "answered", "gave_up"}]
             /\ ranked' \in [Rankers -> 0 .. Unranked]
             /\ waiter' \in [Waiter -> AtWork \cup {"off", "done", "broken"}]
  <2>1. <<Probe, j>> \in Key /\ ProbeOf(r) \in Waiter
    BY <1>0, <1>2, KeyNames, OwnNames
  <2>2. /\ registry' = registry \cup {<<Probe, j>>} /\ running' \in [Key -> {0, 1}]
        /\ waiter' \in [Waiter -> AtWork \cup {"off", "done", "broken"}]
    BY <1>2, <2>1, OnceShares
  <2>3. QED  BY <1>0, <1>2, <2>1, <2>2
<1>3. ASSUME keptPeriod' = Unranked, GoTo(r, "answered", Unranked), UNCHANGED tasks,
             waiter' = [waiter EXCEPT ![ProbeOf(r)] = "off"]
      PROVE  /\ keptPeriod' \in 0 .. Unranked /\ registry' \subseteq Key /\ running' \in [Key -> {0, 1}]
             /\ rankerAt' \in [Rankers -> {"idle", "probing", "measuring", "answered", "gave_up"}]
             /\ ranked' \in [Rankers -> 0 .. Unranked]
             /\ waiter' \in [Waiter -> AtWork \cup {"off", "done", "broken"}]
  BY <1>0, <1>3
<1>4. QED  BY <1>1, <1>2, <1>3 DEF ProbeFrom

LEMMA RequestTypes ==
  ASSUME SharingInv, NEW r \in Rankers,
         Ask(r) \/ ProbeWoken(r) \/ ProbeRefused(r) \/ Measured(r) \/ MeasureFailed(r) \/ Cancel(r)
  PROVE  FrameTypes'
<1> USE DEF SharingInv, FrameTypes, GoTo, fixed, tasks
<1>0. Period \subseteq 0 .. Unranked /\ NoPeriod \in 0 .. Unranked /\ Unranked \in 0 .. Unranked
  BY FramesAssumption DEF Period, Unranked, NoPeriod
<1>1. CASE Ask(r)
  <2>1. sawFailure' \in [Rankers -> BOOLEAN] /\ UNCHANGED <<fixed, kept>>
    BY <1>1 DEF Ask, FailureOnItsWay
  <2>2. CASE keptPeriod = NoPeriod /\ ProbeFrom(r, 1)
    BY <2>1, <2>2, ProbeFromTypes
  <2>3. CASE keptPeriod \in Period /\ Measure(r, keptPeriod) /\ UNCHANGED keptPeriod
    BY <1>0, <2>1, <2>3 DEF Measure, AtWork
  <2>4. CASE keptPeriod = Unranked /\ GoTo(r, "answered", Unranked) /\ UNCHANGED <<keptPeriod, waiter, tasks>>
    BY <1>0, <2>1, <2>4
  <2>5. QED  BY <1>1, <2>2, <2>3, <2>4 DEF Ask
<1>2. CASE ProbeWoken(r)
  <2>1. ranked[r] \in Period
    BY <1>2 DEF ProbeWoken, CoroutinesInStep, UnderWay
  <2>2. ranked[r] + 1 \in Nat \ {0} /\ UNCHANGED <<fixed, kept, sawFailure>>
    BY <1>2, <2>1, FramesAssumption DEF Period, ProbeWoken
  <2>3. CASE keptPeriod' = ranked[r] /\ Measure(r, ranked[r])
    BY <1>0, <2>1, <2>2, <2>3 DEF Measure, AtWork
  <2>4. CASE ProbeFrom(r, ranked[r] + 1)
    BY <2>2, <2>4, ProbeFromTypes
  <2>5. QED  BY <1>2, <2>3, <2>4 DEF ProbeWoken
<1>3. CASE GiveUp(r)
  BY <1>3 DEF GiveUp
<1>4. ASSUME NEW where \in {"answered", "idle"}, Leave(r, where) PROVE FrameTypes'
  BY <1>0, <1>4 DEF Leave
<1>5. QED
  BY <1>1, <1>2, <1>3, <1>4 DEF ProbeRefused, Measured, MeasureFailed, Cancel

LEMMA RequestShares ==
  ASSUME SharingInv, NEW r \in Rankers,
         Ask(r) \/ ProbeWoken(r) \/ ProbeRefused(r) \/ Measured(r) \/ MeasureFailed(r) \/ Cancel(r)
  PROVE  SharingInv'
<1>1. /\ OnlyMoves(r)
      /\ \/ \E j \in Period : ToProbe(r, j) /\ RegistryExact'
         \/ \E j \in Period : ToMeasure(r, j)
         \/ ToEnd(r)
         \/ ToGivenUp(r)
  BY RequestMoves
<1>2. FrameTypes'
  BY RequestTypes
<1>3. RegistryExact' /\ registry \subseteq registry'
  BY <1>1 DEF ToProbe, ToMeasure, ToEnd, ToGivenUp, SharingInv, RegistryExact, tasks
<1>4. CoroutinesInStep'
  <2> SUFFICES ASSUME NEW s \in Rankers
               PROVE  (/\ waiter[ProbeOf(s)] \in {"off", "waiting", "woken", "refused"}
                       /\ rankerAt[s] # "probing" => waiter[ProbeOf(s)] = "off"
                       /\ UnderWay(s) => ranked[s] \in Period
                       /\ \A w \in MetricsOf(s) :
                             /\ waiter[w] \in AtWork => ranked[s] \in Period
                             /\ rankerAt[s] # "measuring" => waiter[w] # "broken"
                             /\ rankerAt[s] \notin {"measuring", "gave_up"} =>
                                   waiter[w] \in {"off", "done"})'
    BY DEF CoroutinesInStep, ProbeOf, MetricsOf
  <2>1. CASE s # r
    <3>1. /\ waiter'[ProbeOf(s)] = waiter[ProbeOf(s)]
          /\ \A w \in MetricsOf(s) : waiter'[w] = waiter[w]
          /\ rankerAt'[s] = rankerAt[s] /\ ranked'[s] = ranked[s]
      BY <1>1, <2>1, OwnNames, OthersNames DEF OnlyMoves, Own
    <3>2. QED
      BY <3>1 DEF SharingInv, CoroutinesInStep, UnderWay, ProbeOf, MetricsOf
  <2>2. CASE s = r
    <3>1. UNCHANGED <<ProbeOf(r), MetricsOf(r)>>
      BY DEF ProbeOf, MetricsOf
    <3>2. ASSUME NEW j \in Period, ToProbe(r, j) \/ ToMeasure(r, j) PROVE ranked'[r] \in Period
      BY <3>2 DEF ToProbe, ToMeasure
    <3>3. CASE (\E j \in Period : ToProbe(r, j)) \/ ToEnd(r) \/ \E j \in Period : ToMeasure(r, j)
      BY <2>2, <3>1, <3>2, <3>3 DEF ToProbe, ToMeasure, ToEnd, UnderWay, AtWork
    <3>4. CASE ToGivenUp(r)
      BY <2>2, <3>1, <3>4 DEF ToGivenUp, UnderWay, AtWork, SharingInv, CoroutinesInStep
    <3>5. QED  BY <1>1, <3>3, <3>4
  <2>3. QED  BY <2>1, <2>2
<1>5. OnlyMergedAreChildren'
  <2>1. \A p \in Period : <<Probe, p>> \in Waiter \ Own(r)
    BY KeyNames, ChildNames, OwnNames
  <2>2. QED  BY <1>1, <2>1 DEF OnlyMoves, SharingInv, OnlyMergedAreChildren
<1>6. WaitersRegistered'
  <2> SUFFICES ASSUME NEW w \in Waiter, waiter'[w] = "waiting" PROVE Wanted(w)' \in registry'
    BY DEF WaitersRegistered, Waiter, ProbeOf, MetricsOf
  <2>1. CASE w \notin Own(r)
    <3>1. waiter[w] = "waiting" /\ Wanted(w)' = Wanted(w)
      BY <1>1, <2>1, SameWanted DEF OnlyMoves
    <3>2. QED  BY <1>3, <3>1 DEF SharingInv, WaitersRegistered
  <2>2. CASE w = ProbeOf(r)
    <3>1. PICK j \in Period : ToProbe(r, j)
      BY <1>1, <2>2 DEF ToMeasure, ToEnd, ToGivenUp
    <3>2. Wanted(w)' = <<Probe, j>>
      BY <2>2, <3>1, FramesAssumption DEF Wanted, ProbeOf, ToProbe
    <3>3. QED  BY <3>1, <3>2 DEF ToProbe
  <2>3. CASE w \in MetricsOf(r)
    <3>1. ToGivenUp(r) /\ waiter[w] = "waiting"
      BY <1>1, <2>3 DEF ToProbe, ToMeasure, ToEnd, ToGivenUp
    <3>2. \A s \in Rankers : ranked'[s] = ranked[s]
      BY <1>1, <3>1 DEF OnlyMoves, ToGivenUp
    <3>3. QED  BY <1>3, <3>1, <3>2, SameWanted DEF SharingInv, WaitersRegistered
  <2>4. QED  BY <2>1, <2>2, <2>3 DEF Own
<1>7. QED  BY <1>2, <1>3, <1>4, <1>5, <1>6 DEF SharingInv
-----------------------------------------------------------------------------
\* What becomes of a coroutine in a step that no request takes.
StepsOn(w) ==
    \/ waiter'[w] = waiter[w]
    \/ w \in ConceptKey /\ (w[1] \in Merged \/ waiter'[w] = "off")
    \/ \E r \in Rankers :
          /\ w = ProbeOf(r) /\ waiter[w] = "waiting" /\ waiter'[w] \in {"woken", "refused"}
    \/ \E r \in Rankers :
          /\ w \in MetricsOf(r) /\ waiter[w] \in AtWork
          /\ waiter'[w] = "broken" => rankerAt[r] = "measuring"

LEMMA StepsShare ==
  ASSUME SharingInv, UNCHANGED <<rankerAt, ranked>>, FrameTypes', RegistryExact',
         \A w \in Waiter : StepsOn(w),
         \A w \in Waiter : waiter'[w] = "waiting" => Wanted(w) \in registry'
  PROVE  SharingInv'
<1>1. CoroutinesInStep'
  <2> SUFFICES ASSUME NEW r \in Rankers
               PROVE  (/\ waiter[ProbeOf(r)] \in {"off", "waiting", "woken", "refused"}
                       /\ rankerAt[r] # "probing" => waiter[ProbeOf(r)] = "off"
                       /\ UnderWay(r) => ranked[r] \in Period
                       /\ \A w \in MetricsOf(r) :
                             /\ waiter[w] \in AtWork => ranked[r] \in Period
                             /\ rankerAt[r] # "measuring" => waiter[w] # "broken"
                             /\ rankerAt[r] \notin {"measuring", "gave_up"} =>
                                   waiter[w] \in {"off", "done"})'
    BY DEF CoroutinesInStep, ProbeOf, MetricsOf
  <2>0. UNCHANGED <<ProbeOf(r), MetricsOf(r)>>
    BY DEF ProbeOf, MetricsOf
  <2>1. \/ waiter'[ProbeOf(r)] = waiter[ProbeOf(r)]
        \/ waiter[ProbeOf(r)] = "waiting" /\ waiter'[ProbeOf(r)] \in {"woken", "refused"}
    <3>1. ProbeOf(r) \in Waiter /\ ProbeOf(r) \notin ConceptKey
      BY OwnNames DEF Own
    <3>2. \A q \in Rankers : ProbeOf(r) \notin MetricsOf(q)
      BY OwnNames, OthersNames DEF Own
    <3>3. QED  BY <3>1, <3>2 DEF StepsOn
  <2>2. ASSUME NEW w \in MetricsOf(r)
        PROVE  \/ waiter'[w] = waiter[w]
               \/ waiter[w] \in AtWork /\ (waiter'[w] = "broken" => rankerAt[r] = "measuring")
    <3>1. w \in Waiter /\ w \notin ConceptKey
      BY OwnNames DEF Own
    <3>2. \A q \in Rankers : w # ProbeOf(q) /\ (w \in MetricsOf(q) => q = r)
      BY OwnNames, OthersNames DEF Own
    <3>3. QED  BY <3>1, <3>2 DEF StepsOn
  <2>3. QED
    BY <2>0, <2>1, <2>2 DEF SharingInv, CoroutinesInStep, UnderWay, AtWork
<1>2. OnlyMergedAreChildren'
  <2> SUFFICES ASSUME NEW p \in Period PROVE waiter'[<<Probe, p>>] = "off"
    BY DEF OnlyMergedAreChildren
  <2>1. <<Probe, p>> \in ConceptKey /\ <<Probe, p>> \in Waiter
    BY KeyNames, ChildNames
  <2>2. \A r \in Rankers : <<Probe, p>> \notin Own(r)
    BY <2>1, OwnNames
  <2>3. <<Probe, p>>[1] \notin Merged /\ waiter[<<Probe, p>>] = "off"
    BY FramesAssumption DEF SharingInv, OnlyMergedAreChildren
  <2>4. QED  BY <2>1, <2>2, <2>3 DEF StepsOn, Own
<1>3. WaitersRegistered'
  <2> SUFFICES ASSUME NEW w \in Waiter, waiter'[w] = "waiting" PROVE Wanted(w)' \in registry'
    BY DEF WaitersRegistered, Waiter, ProbeOf, MetricsOf
  <2>1. Wanted(w)' = Wanted(w)
    BY SameWanted
  <2>2. QED  BY <2>1
<1>4. QED  BY <1>1, <1>2, <1>3 DEF SharingInv

\* A task that ends leaves nobody waiting for it.
LEMMA EndShares ==
  ASSUME SharingInv, UNCHANGED <<rankerAt, ranked>>, FrameTypes',
         NEW k \in Key, NEW result \in {"woken", "refused"},
         NEW others \in [Waiter -> AtWork \cup {"off", "done", "broken"}],
         TaskEnds(k, result, others),
         \A v \in Waiter : \/ others[v] = waiter[v]
                           \/ v \in ConceptKey /\ waiter[v] # "waiting" /\ others[v] = "off"
  PROVE  SharingInv'
<1>1. /\ registry' = registry \ {k} /\ RegistryExact'
      /\ \A v \in Waiter :
            waiter'[v] = IF waiter[v] = "waiting" /\ Wanted(v) = k THEN result ELSE others[v]
  BY TaskEndsShares
<1>2. ASSUME NEW w \in Waiter PROVE StepsOn(w)
  <2>1. CASE waiter[w] = "waiting" /\ Wanted(w) = k
    <3>1. waiter'[w] = result
      BY <1>1, <2>1
    <3>2. CASE w \in ConceptKey
      <4>1. w[1] \in Merged
        BY <2>1, <3>2, ChildNames DEF SharingInv, OnlyMergedAreChildren, Concepts
      <4>2. QED  BY <3>2, <4>1 DEF StepsOn
    <3>3. CASE w \notin ConceptKey
      <4>1. PICK r \in Rankers : w \in Own(r)  BY <3>3, AllNames
      <4>2. QED  BY <2>1, <3>1, <4>1 DEF StepsOn, Own, AtWork
    <3>4. QED  BY <3>2, <3>3
  <2>2. CASE ~ (waiter[w] = "waiting" /\ Wanted(w) = k)
    BY <1>1, <2>2 DEF StepsOn
  <2>3. QED  BY <2>1, <2>2
<1>3. ASSUME NEW w \in Waiter, waiter'[w] = "waiting" PROVE Wanted(w) \in registry'
  BY <1>1, <1>3 DEF SharingInv, WaitersRegistered
<1>4. QED  BY <1>1, <1>2, <1>3, StepsShare

LEMMA SharingNext == SharingInv /\ [FramesNext]_frameVars => SharingInv'
<1> SUFFICES ASSUME SharingInv, [FramesNext]_frameVars PROVE SharingInv'  OBVIOUS
<1>0. /\ FrameTypes /\ RegistryExact
      /\ waiter \in [Waiter -> AtWork \cup {"off", "done", "broken"}]
      /\ kept \in [Key -> {"none", "absent", "thin", "full"}]
  BY DEF SharingInv, FrameTypes
<1>1. ASSUME NEW k \in ConceptKey, FetchAnswered(k) PROVE SharingInv'
  <2>1. k \in Key /\ TaskEnds(k, "woken", waiter) /\ UNCHANGED <<rankerAt, ranked>>
    BY <1>1, ChildNames DEF FetchAnswered
  <2>2. kept' \in [Key -> {"none", "absent", "thin", "full"}]
    BY <1>0, <1>1, <2>1, FramesAssumption DEF FetchAnswered, FrameTypes, ConceptKey, Period
  <2>3. FrameTypes'
    BY <1>0, <1>1, <2>1, <2>2, TaskEndsShares DEF FetchAnswered, FrameTypes, fixed
  <2>4. QED  BY <1>0, <2>1, <2>3, EndShares
<1>2. ASSUME NEW k \in ConceptKey, FetchFailed(k) PROVE SharingInv'
  <2>1. k \in Key /\ TaskEnds(k, "refused", waiter) /\ UNCHANGED <<rankerAt, ranked>>
    BY <1>2, ChildNames DEF FetchFailed
  <2>2. sawFailure' \in [Rankers -> BOOLEAN]
    BY <1>0, <1>2 DEF FetchFailed, FrameTypes
  <2>3. FrameTypes'
    BY <1>0, <1>2, <2>1, <2>2, TaskEndsShares DEF FetchFailed, FrameTypes, fixed
  <2>4. QED  BY <1>0, <2>1, <2>3, EndShares
<1>3. ASSUME NEW p \in Period, MergeEnds(p) PROVE SharingInv'
  <2>1. PICK result \in {"woken", "refused"},
             rest \in [Waiter -> AtWork \cup {"off", "done", "broken"}] :
             /\ TaskEnds(<<Revenue, p>>, result, rest)
             /\ \A v \in Waiter : \/ rest[v] = waiter[v]
                                  \/ v \in ConceptKey /\ waiter[v] # "waiting" /\ rest[v] = "off"
    BY <1>3, MergeRest
  <2>2. <<Revenue, p>> \in Key /\ UNCHANGED <<rankerAt, ranked>>
    BY <1>3, KeyNames DEF MergeEnds
  <2>3. FrameTypes'
    BY <1>0, <1>3, <2>1, <2>2, TaskEndsShares DEF MergeEnds, FrameTypes, fixed
  <2>4. QED  BY <2>1, <2>2, <2>3, EndShares
<1>4. ASSUME NEW w \in Waiter, ChildStarts(w) PROVE SharingInv'
  <2>1. /\ waiter[w] = "start" /\ Wanted(w) \in Key
        /\ UNCHANGED <<fixed, kept, keptPeriod, rankerAt, ranked, sawFailure>>
    BY <1>4, WantedIsKey DEF ChildStarts, AtWork
  <2>2. (w \in ConceptKey /\ w[1] \in Merged) \/ \E r \in Rankers : w \in MetricsOf(r)
    <3>1. CASE w \in ConceptKey
      BY <2>1, <3>1, ChildNames DEF SharingInv, OnlyMergedAreChildren, Concepts
    <3>2. CASE w \notin ConceptKey
      <4>1. PICK r \in Rankers : w \in Own(r)  BY <3>2, AllNames
      <4>2. w # ProbeOf(r)
        BY <2>1 DEF SharingInv, CoroutinesInStep
      <4>3. QED  BY <4>1, <4>2 DEF Own
    <3>3. QED  BY <3>1, <3>2
  <2>3. CASE waiter' = [waiter EXCEPT ![w] = "done"] /\ UNCHANGED tasks
    <3>1. FrameTypes' /\ RegistryExact'
      BY <1>0, <2>1, <2>3 DEF FrameTypes, RegistryExact, tasks, fixed
    <3>2. \A v \in Waiter : StepsOn(v)
      BY <1>0, <2>1, <2>2, <2>3 DEF StepsOn, AtWork
    <3>3. \A v \in Waiter : waiter'[v] = "waiting" => Wanted(v) \in registry'
      BY <1>0, <2>3 DEF SharingInv, WaitersRegistered, tasks
    <3>4. QED  BY <2>1, <3>1, <3>2, <3>3, StepsShare
  <2>4. CASE Once(w, Wanted(w))
    <3>1. /\ registry' = registry \cup {Wanted(w)} /\ running' \in [Key -> {0, 1}] /\ RegistryExact'
          /\ waiter' \in [Waiter -> AtWork \cup {"off", "done", "broken"}]
          /\ waiter'[w] = "waiting"
          /\ \A v \in Waiter \ {w} :
                \/ waiter'[v] = waiter[v]
                \/ v \in ConceptKey /\ v[1] \in Merged /\ waiter'[v] = "start"
      BY <2>1, <2>4, OnceShares
    <3>2. FrameTypes'
      BY <1>0, <2>1, <3>1 DEF FrameTypes, fixed
    <3>3. \A v \in Waiter : StepsOn(v)
      BY <2>1, <2>2, <3>1 DEF StepsOn, AtWork
    <3>4. \A v \in Waiter : waiter'[v] = "waiting" => Wanted(v) \in registry'
      BY <2>1, <3>1 DEF SharingInv, WaitersRegistered
    <3>5. QED  BY <2>1, <3>1, <3>2, <3>3, <3>4, StepsShare
  <2>5. QED  BY <1>4, <2>3, <2>4 DEF ChildStarts
<1>5. ASSUME NEW w \in Waiter, ChildEnds(w) PROVE SharingInv'
  <2>1. /\ waiter[w] \in {"woken", "refused"} /\ UNCHANGED <<fixed, keptPeriod, tasks, rankerAt, ranked, sawFailure>>
        /\ waiter' = [waiter EXCEPT ![w] = "done"] \/ waiter' = [waiter EXCEPT ![w] = "off"]
              \/ (waiter' = [waiter EXCEPT ![w] = "broken"] /\ Awaited(w))
    BY <1>5 DEF ChildEnds
  <2>2. (w \in ConceptKey /\ w[1] \in Merged) \/ \E r \in Rankers : w \in MetricsOf(r)
    <3>1. CASE w \in ConceptKey
      BY <2>1, <3>1, ChildNames DEF SharingInv, OnlyMergedAreChildren, Concepts
    <3>2. CASE w \notin ConceptKey
      <4>1. PICK r \in Rankers : w \in Own(r)  BY <3>2, AllNames
      <4>2. w # ProbeOf(r)
        BY <1>5 DEF ChildEnds
      <4>3. QED  BY <4>1, <4>2 DEF Own
    <3>3. QED  BY <3>1, <3>2
  <2>3. kept' \in [Key -> {"none", "absent", "thin", "full"}]
    <3>1. kept' = kept \/ \E u \in {"full", "absent"} : kept' = [kept EXCEPT ![Wanted(w)] = u]
      BY <1>5 DEF ChildEnds, Union
    <3>2. QED  BY <1>0, <3>1
  <2>4. FrameTypes' /\ RegistryExact'
    BY <1>0, <2>1, <2>3 DEF FrameTypes, RegistryExact, fixed, tasks, AtWork
  <2>5. ASSUME NEW r \in Rankers, w \in MetricsOf(r), Awaited(w) PROVE rankerAt[r] = "measuring"
    <3>1. w[1] = r /\ r \notin Concepts
      BY <2>5, OwnNames, FramesAssumption DEF Own
    <3>2. QED  BY <2>5, <3>1 DEF Awaited
  <2>6. \A v \in Waiter : StepsOn(v)
    BY <1>0, <2>1, <2>2, <2>5 DEF StepsOn, AtWork
  <2>7. \A v \in Waiter : waiter'[v] = "waiting" => Wanted(v) \in registry'
    BY <1>0, <2>1 DEF SharingInv, WaitersRegistered, tasks
  <2>8. QED  BY <2>1, <2>4, <2>6, <2>7, StepsShare
<1>6. CASE Expire
  <2>1. UNCHANGED <<published, tasks, rankerAt, ranked, waiter, sawFailure>>
    BY <1>6 DEF Expire
  <2>2. FrameTypes' /\ RegistryExact'
    BY <1>0, <1>6, <2>1, FramesAssumption DEF Expire, FrameTypes, RegistryExact, tasks, NoPeriod, Unranked
  <2>3. QED  BY <2>1, <2>2, StepsShare DEF SharingInv, WaitersRegistered, StepsOn, tasks
<1>7. CASE UNCHANGED frameVars
  <2>1. FrameTypes' /\ RegistryExact'
    BY <1>0, <1>7 DEF FrameTypes, RegistryExact, frameVars
  <2>2. QED  BY <1>7, <2>1, StepsShare DEF SharingInv, WaitersRegistered, StepsOn, frameVars
<1>8. QED
  BY <1>1, <1>2, <1>3, <1>4, <1>5, <1>6, <1>7, RequestShares DEF FramesNext

\* A frame is asked for by one task at a time (_concept_inflight and
\* _metric_inflight, services/frames.py), and whoever waits on one waits on a task
\* that is at work, whoever began it and whoever has left since.
THEOREM FetchesAreShared == FramesSpec => []FetchesShared
<1>1. SharingInv => FetchesShared
  <2> SUFFICES ASSUME SharingInv PROVE FetchesShared  OBVIOUS
  <2>1. OneFetch
    BY DEF SharingInv, RegistryExact, OneFetch
  <2>2. NobodyForgotten
    BY WantedIsKey DEF SharingInv, WaitersRegistered, RegistryExact, NobodyForgotten, AtWork
  <2>3. QED  BY <2>1, <2>2 DEF FetchesShared
<1>2. QED  BY <1>1, SharingInit, SharingNext, PTL DEF FramesSpec
-----------------------------------------------------------------------------
(* Only answers are kept.                                                  *)

AnswersInv == KeptWasAnswered /\ ProbedInOrder

NoneBefore(i) == \A p \in Period : p < i => published[<<Probe, p>>] # "full"

LEMMA PassedAreThin ==
  ASSUME SharingInv, KeptWasAnswered, NEW i \in Nat \ {0}, NEW j \in Nat, j <= Unranked,
         NoneBefore(i), Passed(i, j)
  PROVE  NoneBefore(j)
<1> SUFFICES ASSUME NEW p \in Period, p < j PROVE published[<<Probe, p>>] # "full"
  BY DEF NoneBefore
<1>1. CASE p < i
  BY <1>1 DEF NoneBefore
<1>2. CASE ~ p < i
  <2>1. p \in i .. (j - 1)
    BY <1>2, FramesAssumption DEF Period
  <2>2. kept[<<Probe, p>>] = published[<<Probe, p>>] /\ kept[<<Probe, p>>] # "full"
    BY <2>1, KeyNames DEF Passed, KeptWasAnswered
  <2>3. QED  BY <2>2
<1>3. QED  BY <1>1, <1>2

\* The three places a probe loop may come to.
LEMMA ProbeFromAnswers ==
  ASSUME SharingInv, AnswersInv, NEW r \in Rankers, NEW i \in Nat \ {0}, Resting(r),
         ProbeFrom(r, i), NoneBefore(i), OnlyMoves(r)
  PROVE  AnswersInv'
<1> USE DEF OnlyMoves, fixed
<1>0. \A j \in i .. Lookback : j \in Period /\ j \in Nat /\ j <= Unranked
  BY FramesAssumption DEF Period, Unranked
<1>1. \A p \in Period : p # NoPeriod /\ p # Unranked /\ p < Unranked
  BY FramesAssumption DEF Period, NoPeriod, Unranked
<1>2. KeptWasAnswered /\ ProbedInOrder
  BY DEF AnswersInv
<1>3. CASE \E j \in i .. Lookback : ToProbe(r, j) /\ Passed(i, j)
  <2>1. PICK j \in i .. Lookback : ToProbe(r, j) /\ Passed(i, j)
    BY <1>3
  <2>2. NoneBefore(j)
    BY <1>0, <1>2, <2>1, PassedAreThin
  <2>3. KeptWasAnswered'
    BY <1>2, <2>1 DEF KeptWasAnswered, ToProbe
  <2>4. ProbedInOrder'
    BY <1>2, <2>1, <2>2 DEF ProbedInOrder, ToProbe, NoneBefore
  <2>5. QED  BY <2>3, <2>4 DEF AnswersInv
<1>4. CASE \E j \in i .. Lookback : ToMeasure(r, j) /\ kept[<<Probe, j>>] = "full" /\ Passed(i, j)
  <2>1. PICK j \in i .. Lookback : ToMeasure(r, j) /\ kept[<<Probe, j>>] = "full" /\ Passed(i, j)
    BY <1>4
  <2>2. NoneBefore(j) /\ published[<<Probe, j>>] = "full"
    BY <1>0, <1>2, <2>1, PassedAreThin, KeyNames DEF KeptWasAnswered
  <2>3. KeptWasAnswered'
    BY <1>0, <1>2, <2>1, <2>2 DEF KeptWasAnswered, ToMeasure, NoneBefore
  <2>4. ProbedInOrder'
    BY <1>2, <2>1 DEF ProbedInOrder, ToMeasure
  <2>5. QED  BY <2>3, <2>4 DEF AnswersInv
<1>5. CASE ToEnd(r) /\ keptPeriod' = Unranked /\ Passed(i, Unranked)
  <2>1. NoneBefore(Unranked)
    <3>1. Unranked \in Nat  BY FramesAssumption DEF Unranked
    <3>2. QED  BY <1>2, <1>5, <3>1, PassedAreThin
  <2>2. KeptWasAnswered'
    BY <1>1, <1>2, <1>5, <2>1 DEF KeptWasAnswered, NoneBefore
  <2>3. ProbedInOrder'
    BY <1>2, <1>5 DEF ProbedInOrder, ToEnd
  <2>4. QED  BY <2>2, <2>3 DEF AnswersInv
<1>6. QED  BY <1>3, <1>4, <1>5, ProbeFromMoves

LEMMA AnswersInit == FramesInit => AnswersInv
BY FramesAssumption DEF FramesInit, AnswersInv, KeptWasAnswered, ProbedInOrder, ConceptKey, Key, MetricKey,
   NoPeriod, Period

LEMMA AnswersNext == SharingInv /\ AnswersInv /\ [FramesNext]_frameVars => AnswersInv'
<1> SUFFICES ASSUME SharingInv, AnswersInv, [FramesNext]_frameVars PROVE AnswersInv'  OBVIOUS
<1>0. KeptWasAnswered /\ ProbedInOrder
  BY DEF AnswersInv
<1>a. \A p \in Period : p # NoPeriod /\ p # Unranked /\ p \in Nat \ {0} /\ p + 1 \in Nat \ {0}
  BY FramesAssumption DEF Period, NoPeriod, Unranked
<1>b. ASSUME NEW r \in Rankers, OnlyMoves(r), keptPeriod' = keptPeriod, rankerAt'[r] # "probing"
      PROVE  AnswersInv'
  BY <1>0, <1>b DEF AnswersInv, OnlyMoves, fixed, KeptWasAnswered, ProbedInOrder
<1>1. ASSUME NEW r \in Rankers, Ask(r) PROVE AnswersInv'
  <2>1. OnlyMoves(r)
    BY <1>1, RequestMoves
  <2>2. Resting(r) /\ ranked \in [Rankers -> 0 .. Unranked]
        /\ rankerAt \in [Rankers -> {"idle", "probing", "measuring", "answered", "gave_up"}]
    <3>1. /\ waiter \in [Waiter -> AtWork \cup {"off", "done", "broken"}]
          /\ MetricsOf(r) \subseteq Waiter
      BY OwnNames DEF SharingInv, FrameTypes
    <3>2. QED
      BY <1>1, <3>1 DEF Ask, Resting, SharingInv, FrameTypes, CoroutinesInStep
  <2>3. CASE ProbeFrom(r, 1)
    <3>1. NoneBefore(1)
      BY FramesAssumption DEF NoneBefore, Period
    <3>2. QED  BY <2>1, <2>2, <2>3, <3>1, ProbeFromAnswers
  <2>4. CASE keptPeriod' = keptPeriod /\ rankerAt'[r] # "probing"
    BY <1>b, <2>1, <2>4
  <2>5. QED  BY <1>1, <2>2, <2>3, <2>4 DEF Ask, Measure, GoTo
<1>2. ASSUME NEW r \in Rankers, ProbeWoken(r) PROVE AnswersInv'
  <2>1. /\ rankerAt[r] = "probing" /\ Resting(r) /\ ranked[r] \in Period
        /\ rankerAt \in [Rankers -> {"idle", "probing", "measuring", "answered", "gave_up"}]
    BY <1>2 DEF ProbeWoken, Resting, SharingInv, FrameTypes, CoroutinesInStep, UnderWay
  <2>2. OnlyMoves(r)
    BY <1>2, RequestMoves
  <2>3. NoneBefore(ranked[r])
    BY <1>0, <2>1 DEF ProbedInOrder, NoneBefore
  <2>4. CASE published[<<Probe, ranked[r]>>] = "full"
    <3>1. keptPeriod' = ranked[r] /\ rankerAt'[r] = "measuring" /\ UNCHANGED <<fixed, kept>>
      BY <1>2, <2>1, <2>4 DEF ProbeWoken, Measure, GoTo
    <3>2. KeptWasAnswered'
      BY <1>0, <2>1, <2>3, <2>4, <3>1 DEF KeptWasAnswered, NoneBefore, fixed
    <3>3. ProbedInOrder'
      BY <1>0, <2>2, <3>1 DEF ProbedInOrder, OnlyMoves, fixed
    <3>4. QED  BY <3>2, <3>3 DEF AnswersInv
  <2>5. CASE published[<<Probe, ranked[r]>>] # "full"
    <3>1. NoneBefore(ranked[r] + 1)
      BY <2>1, <2>3, <2>5, FramesAssumption DEF NoneBefore, Period
    <3>2. QED  BY <1>2, <1>a, <2>1, <2>2, <2>5, <3>1, ProbeFromAnswers DEF ProbeWoken
  <2>6. QED  BY <2>4, <2>5
<1>3. ASSUME NEW r \in Rankers, ProbeRefused(r) \/ Measured(r) \/ MeasureFailed(r) \/ Cancel(r)
      PROVE  AnswersInv'
  <2>1. keptPeriod' = keptPeriod /\ rankerAt'[r] # "probing"
    BY <1>3 DEF ProbeRefused, Measured, MeasureFailed, Cancel, GiveUp, Leave, GoTo, SharingInv, FrameTypes
  <2>2. QED  BY <1>3, <1>b, <2>1, RequestMoves
<1>4. ASSUME UNCHANGED <<published, keptPeriod, rankerAt, ranked>>,
             \A k \in ConceptKey : kept'[k] \in {"none", kept[k], published[k]}
      PROVE  AnswersInv'
  BY <1>0, <1>4 DEF AnswersInv, KeptWasAnswered, ProbedInOrder
<1>5. ASSUME NEW k \in ConceptKey, FetchAnswered(k) \/ FetchFailed(k) PROVE AnswersInv'
  BY <1>4, <1>5, ChildNames DEF FetchAnswered, FetchFailed, fixed, SharingInv, FrameTypes
<1>6. ASSUME NEW p \in Period, MergeEnds(p) PROVE AnswersInv'
  BY <1>4, <1>6 DEF MergeEnds, fixed
<1>7. ASSUME NEW w \in Waiter, ChildStarts(w) PROVE AnswersInv'
  BY <1>4, <1>7 DEF ChildStarts, fixed
<1>8. ASSUME NEW w \in Waiter, ChildEnds(w) PROVE AnswersInv'
  <2>1. \A k \in ConceptKey : kept'[k] = kept[k]
    BY <1>8, ChildNames DEF ChildEnds, SharingInv, FrameTypes
  <2>2. QED  BY <1>4, <1>8, <2>1 DEF ChildEnds, fixed
<1>9. CASE Expire
  <2>1. CASE UNCHANGED keptPeriod
    BY <1>4, <1>9, <2>1, ChildNames DEF Expire, SharingInv, FrameTypes
  <2>2. CASE keptPeriod' = NoPeriod /\ UNCHANGED kept
    <3>1. UNCHANGED <<published, rankerAt, ranked>>
      BY <1>9 DEF Expire
    <3>2. QED  BY <1>0, <1>a, <2>2, <3>1 DEF AnswersInv, KeptWasAnswered, ProbedInOrder
  <2>3. QED  BY <1>9, <2>1, <2>2 DEF Expire
<1>10. CASE UNCHANGED frameVars
  BY <1>4, <1>10 DEF frameVars
<1>11. QED
  BY <1>1, <1>2, <1>3, <1>5, <1>6, <1>7, <1>8, <1>9, <1>10 DEF FramesNext

\* The frame caches hold what EDGAR published and never a failure, and the period
\* kept for _PERIOD_CACHE_KEY is the newest one whose probe was populated.
THEOREM AnswersAreKept == FramesSpec => []KeptWasAnswered
<1>1. AnswersInv => KeptWasAnswered
  BY DEF AnswersInv
<1>2. QED
  BY <1>1, SharingInit, SharingNext, AnswersInit, AnswersNext, PTL DEF FramesSpec
-----------------------------------------------------------------------------
(* Whoever gives up has seen a failure.                                    *)

CauseInv == FailureSeen /\ GaveUpForCause

\* The frames of a merge under way that failed.
OnItsWay(c) == waiter[c] \in {"refused", "broken"} /\ running[<<Revenue, c[2]>>] > 0

LEMMA CauseInit == FramesInit => CauseInv
<1> SUFFICES ASSUME FramesInit PROVE CauseInv  OBVIOUS
<1>1. \A r \in Rankers : ProbeOf(r) \in Waiter /\ rankerAt[r] = "idle"
  BY OwnNames DEF FramesInit
<1>2. QED
  BY <1>1 DEF FramesInit, CauseInv, FailureSeen, GaveUpForCause, UnderWay

\* A request that moves sees what it saw, and nothing new is on its way.
LEMMA RequestCause ==
  ASSUME SharingInv, SharingInv', CauseInv, NEW r \in Rankers, OnlyMoves(r),
         \/ \E j \in Period : ToProbe(r, j) \/ ToMeasure(r, j)
         \/ ToEnd(r)
         \/ ToGivenUp(r) /\ sawFailure[r],
         UnderWay(r)' /\ FailureOnItsWay => sawFailure'[r]
  PROVE  CauseInv'
<1>1. FailureOnItsWay' => FailureOnItsWay
  <2> SUFFICES ASSUME NEW c \in ConceptKey, OnItsWay(c)' PROVE FailureOnItsWay
    BY DEF FailureOnItsWay, OnItsWay
  <2>1. waiter'[c] = waiter[c]
    BY ChildNames, OwnNames DEF OnlyMoves
  <2>2. running'[<<Revenue, c[2]>>] = running[<<Revenue, c[2]>>]
    <3>1. <<Revenue, c[2]>> \in Key /\ \A j \in Period : <<Revenue, c[2]>> # <<Probe, j>>
      BY ChildNames, KeyNames
    <3>2. <<Revenue, c[2]>> \in registry' <=> <<Revenue, c[2]>> \in registry
      BY <3>1 DEF ToProbe, ToMeasure, ToEnd, ToGivenUp, tasks
    <3>3. QED  BY <3>1, <3>2 DEF SharingInv, RegistryExact
  <2>3. QED  BY <2>1, <2>2 DEF OnItsWay, FailureOnItsWay
<1>2. ASSUME NEW s \in Rankers
      PROVE  (/\ UnderWay(s) /\ FailureOnItsWay => sawFailure[s]
              /\ waiter[ProbeOf(s)] = "refused" => sawFailure[s]
              /\ \A w \in MetricsOf(s) :
                    rankerAt[s] = "measuring" /\ waiter[w] \in {"refused", "broken"} => sawFailure[s]
              /\ rankerAt[s] = "gave_up" => sawFailure[s])'
  <2>0. UNCHANGED <<ProbeOf(s), MetricsOf(s)>>
    BY DEF ProbeOf, MetricsOf
  <2>1. CASE s # r
    <3>1. /\ waiter'[ProbeOf(s)] = waiter[ProbeOf(s)]
          /\ \A w \in MetricsOf(s) : waiter'[w] = waiter[w]
          /\ rankerAt'[s] = rankerAt[s] /\ sawFailure'[s] = sawFailure[s]
      BY <2>1, OwnNames, OthersNames DEF OnlyMoves, Own
    <3>2. QED
      BY <1>1, <2>0, <3>1 DEF CauseInv, FailureSeen, GaveUpForCause, UnderWay
  <2>2. CASE s = r
    BY <1>1, <2>0, <2>2 DEF ToProbe, ToMeasure, ToEnd, ToGivenUp, UnderWay
  <2>3. QED  BY <2>1, <2>2
<1>3. QED  BY <1>2 DEF CauseInv, FailureSeen, GaveUpForCause, ProbeOf, MetricsOf

\* A step of a task or a child: what failed was failing already.
LEMMA StepCause ==
  ASSUME CauseInv, UNCHANGED <<rankerAt, ranked>>,
         \A r \in Rankers : sawFailure[r] => sawFailure'[r],
         FailureOnItsWay' => FailureOnItsWay \/ \A r \in Rankers : UnderWay(r) => sawFailure'[r],
         \A r \in Rankers : waiter'[ProbeOf(r)] = "refused" =>
            waiter[ProbeOf(r)] = "refused" \/ sawFailure'[r],
         \A r \in Rankers, w \in Waiter :
            w \in MetricsOf(r) /\ rankerAt[r] = "measuring" /\ waiter'[w] \in {"refused", "broken"} =>
               waiter[w] \in {"refused", "broken"} \/ sawFailure'[r]
  PROVE  CauseInv'
<1>1. \A r \in Rankers : UNCHANGED <<ProbeOf(r), MetricsOf(r)>>
  BY DEF ProbeOf, MetricsOf
<1>2. \A r \in Rankers : UnderWay(r)' <=> UnderWay(r)
  BY DEF UnderWay
<1>3. \A r \in Rankers : MetricsOf(r) \subseteq Waiter
  BY OwnNames
<1>4. FailureSeen'
  BY <1>1, <1>2, <1>3 DEF CauseInv, FailureSeen
<1>5. GaveUpForCause'
  BY DEF CauseInv, GaveUpForCause
<1>6. QED  BY <1>4, <1>5 DEF CauseInv

\* A task that ends without a failure, or with one everyone under way has seen.
LEMMA EndCause ==
  ASSUME SharingInv, CauseInv, UNCHANGED <<rankerAt, ranked>>,
         \A r \in Rankers : sawFailure[r] => sawFailure'[r],
         NEW k \in Key, NEW result \in {"woken", "refused"},
         NEW others \in [Waiter -> AtWork \cup {"off", "done", "broken"}],
         TaskEnds(k, result, others),
         \A v \in Waiter : others[v] = waiter[v] \/ others[v] = "off",
         result = "refused" => \A r \in Rankers : UnderWay(r) => sawFailure'[r]
  PROVE  CauseInv'
<1>1. /\ running' = [running EXCEPT ![k] = 0]
      /\ \A v \in Waiter :
            waiter'[v] = IF waiter[v] = "waiting" /\ Wanted(v) = k THEN result ELSE others[v]
  BY TaskEndsShares
<1>2. \A v \in Waiter : waiter'[v] \in {"refused", "broken"} =>
          waiter[v] = waiter'[v] \/ (result = "refused" /\ waiter[v] = "waiting")
  BY <1>1
<1>3. FailureOnItsWay' => FailureOnItsWay \/ \A r \in Rankers : UnderWay(r) => sawFailure'[r]
  <2> SUFFICES ASSUME NEW c \in ConceptKey, OnItsWay(c)', result # "refused"
               PROVE  FailureOnItsWay
    BY DEF FailureOnItsWay, OnItsWay
  <2>1. c \in Waiter /\ <<Revenue, c[2]>> \in Key
    BY ChildNames, KeyNames
  <2>2. waiter[c] = waiter'[c]
    BY <1>2, <2>1 DEF OnItsWay
  <2>3. running[<<Revenue, c[2]>>] > 0
    BY <1>1, <2>1 DEF OnItsWay, SharingInv, FrameTypes
  <2>4. QED  BY <2>2, <2>3 DEF OnItsWay, FailureOnItsWay
<1>4. \A r \in Rankers : waiter'[ProbeOf(r)] = "refused" =>
          waiter[ProbeOf(r)] = "refused" \/ sawFailure'[r]
  <2> SUFFICES ASSUME NEW r \in Rankers, waiter'[ProbeOf(r)] = "refused",
                      waiter[ProbeOf(r)] = "waiting", result = "refused"
               PROVE  sawFailure'[r]
    BY <1>2, OwnNames
  <2>1. UnderWay(r)
    BY DEF SharingInv, CoroutinesInStep, UnderWay
  <2>2. QED  BY <2>1
<1>5. \A r \in Rankers, w \in Waiter :
         w \in MetricsOf(r) /\ rankerAt[r] = "measuring" /\ waiter'[w] \in {"refused", "broken"} =>
            waiter[w] \in {"refused", "broken"} \/ sawFailure'[r]
  BY <1>2 DEF UnderWay
<1>6. QED  BY <1>3, <1>4, <1>5, StepCause

LEMMA CauseNext == SharingInv /\ CauseInv /\ [FramesNext]_frameVars => CauseInv'
<1> SUFFICES ASSUME SharingInv, CauseInv, [FramesNext]_frameVars PROVE CauseInv'  OBVIOUS
<1>0. /\ SharingInv' /\ sawFailure \in [Rankers -> BOOLEAN]
      /\ waiter \in [Waiter -> AtWork \cup {"off", "done", "broken"}]
  BY SharingNext DEF SharingInv, FrameTypes
<1>1. ASSUME NEW r \in Rankers, Ask(r) PROVE CauseInv'
  <2>1. sawFailure'[r] <=> FailureOnItsWay
    BY <1>0, <1>1 DEF Ask
  <2>2. rankerAt'[r] # "gave_up"
    BY <1>1 DEF Ask, ProbeFrom, Measure, GoTo, SharingInv, FrameTypes
  <2>3. OnlyMoves(r) /\ ((\E j \in Period : ToProbe(r, j) \/ ToMeasure(r, j)) \/ ToEnd(r))
    BY <1>1, <2>2, RequestMoves DEF ToGivenUp
  <2>4. QED  BY <1>0, <2>1, <2>3, RequestCause
<1>2. ASSUME NEW r \in Rankers, ProbeWoken(r) PROVE CauseInv'
  <2>1. rankerAt[r] = "probing" /\ sawFailure' = sawFailure
    BY <1>2 DEF ProbeWoken, SharingInv, CoroutinesInStep
  <2>2. FailureOnItsWay => sawFailure'[r]
    BY <2>1 DEF CauseInv, FailureSeen, UnderWay
  <2>3. rankerAt'[r] # "gave_up"
    BY <1>2 DEF ProbeWoken, ProbeFrom, Measure, GoTo, SharingInv, FrameTypes
  <2>4. OnlyMoves(r) /\ ((\E j \in Period : ToProbe(r, j) \/ ToMeasure(r, j)) \/ ToEnd(r))
    BY <1>2, <2>3, RequestMoves DEF ToGivenUp
  <2>5. QED  BY <1>0, <2>2, <2>4, RequestCause
<1>3. ASSUME NEW r \in Rankers, ProbeRefused(r) \/ MeasureFailed(r) PROVE CauseInv'
  <2>1. sawFailure[r] /\ UNCHANGED sawFailure
    BY <1>3 DEF ProbeRefused, MeasureFailed, GiveUp, CauseInv, FailureSeen
  <2>2. rankerAt'[r] = "gave_up"
    BY <1>3 DEF ProbeRefused, MeasureFailed, GiveUp, SharingInv, FrameTypes
  <2>3. OnlyMoves(r) /\ ToGivenUp(r)
    BY <1>3, <2>2, RequestMoves DEF ToProbe, ToMeasure, ToEnd
  <2>4. QED  BY <1>0, <2>1, <2>3, RequestCause
<1>4. ASSUME NEW r \in Rankers, Measured(r) \/ Cancel(r) PROVE CauseInv'
  <2>1. rankerAt'[r] \in {"answered", "idle"}
    BY <1>4 DEF Measured, Cancel, Leave, GoTo, SharingInv, FrameTypes
  <2>2. OnlyMoves(r) /\ ToEnd(r)
    BY <1>4, <2>1, RequestMoves DEF ToProbe, ToMeasure, ToGivenUp
  <2>3. QED  BY <1>0, <2>1, <2>2, RequestCause DEF UnderWay
<1>5. ASSUME NEW k \in ConceptKey, FetchAnswered(k) PROVE CauseInv'
  <2>1. k \in Key /\ TaskEnds(k, "woken", waiter) /\ UNCHANGED <<rankerAt, ranked, sawFailure>>
    BY <1>5, ChildNames DEF FetchAnswered
  <2>2. QED  BY <1>0, <2>1, EndCause
<1>6. ASSUME NEW k \in ConceptKey, FetchFailed(k) PROVE CauseInv'
  <2>1. k \in Key /\ TaskEnds(k, "refused", waiter) /\ UNCHANGED <<rankerAt, ranked>>
    BY <1>6, ChildNames DEF FetchFailed
  <2>2. \A r \in Rankers : sawFailure'[r] <=> sawFailure[r] \/ UnderWay(r)
    BY <1>6 DEF FetchFailed, UnderWay
  <2>3. QED  BY <1>0, <2>1, <2>2, EndCause
<1>7. ASSUME NEW p \in Period, MergeEnds(p) PROVE CauseInv'
  <2>1. PICK result \in {"woken", "refused"},
             rest \in [Waiter -> AtWork \cup {"off", "done", "broken"}] :
             /\ TaskEnds(<<Revenue, p>>, result, rest)
             /\ \A v \in Waiter : \/ rest[v] = waiter[v]
                                  \/ v \in ConceptKey /\ waiter[v] # "waiting" /\ rest[v] = "off"
             /\ result = "refused" => \E c \in Merged \X {p} : waiter[c] = "broken"
    BY <1>7, MergeRest
  <2>2. <<Revenue, p>> \in Key /\ UNCHANGED <<rankerAt, ranked, sawFailure>>
    BY <1>7, KeyNames DEF MergeEnds
  <2>3. ASSUME result = "refused" PROVE FailureOnItsWay
    <3>1. PICK c \in Merged \X {p} : waiter[c] = "broken"
      BY <2>1, <2>3
    <3>2. c \in ConceptKey /\ c[2] = p
      BY <3>1 DEF ConceptKey, Concepts
    <3>3. running[<<Revenue, p>>] > 0
      BY <2>1, <2>2, TaskEndsShares
    <3>4. QED  BY <3>1, <3>2, <3>3 DEF FailureOnItsWay
  <2>4. result = "refused" => \A r \in Rankers : UnderWay(r) => sawFailure'[r]
    BY <2>2, <2>3 DEF CauseInv, FailureSeen
  <2>5. QED  BY <2>1, <2>2, <2>4, EndCause
<1>8. ASSUME NEW w \in Waiter, ChildStarts(w) PROVE CauseInv'
  <2>1. /\ waiter[w] = "start" /\ Wanted(w) \in Key
        /\ UNCHANGED <<rankerAt, ranked, sawFailure>>
    BY <1>8, WantedIsKey DEF ChildStarts, AtWork
  <2>2. CASE waiter' = [waiter EXCEPT ![w] = "done"] /\ UNCHANGED tasks
    <3>1. \A v \in Waiter : waiter'[v] \in {"refused", "broken"} => waiter'[v] = waiter[v]
      BY <1>0, <2>2
    <3>2. FailureOnItsWay' => FailureOnItsWay
      BY <2>2, <3>1, ChildNames DEF FailureOnItsWay, tasks
    <3>3. QED  BY <2>1, <3>1, <3>2, StepCause, OwnNames
  <2>3. CASE Once(w, Wanted(w))
    <3>1. \A v \in Waiter : waiter'[v] \in {"refused", "broken"} => waiter'[v] = waiter[v]
      BY <2>1, <2>3, OnceShares
    <3>2. FailureOnItsWay' => FailureOnItsWay
      <4> SUFFICES ASSUME NEW c \in ConceptKey, OnItsWay(c)' PROVE FailureOnItsWay
        BY DEF FailureOnItsWay, OnItsWay
      <4>1. /\ c \in Waiter /\ c \in Key /\ <<Revenue, c[2]>> \in MetricKey /\ <<Revenue, c[2]>> \in Key
            /\ c = <<c[1], c[2]>> /\ c[1] \in Concepts /\ c[2] \in Period
        BY ChildNames, KeyNames
      <4>2. waiter'[c] = waiter[c]
        BY <3>1, <4>1 DEF OnItsWay
      <4>3. c[1] \in Merged
        BY <4>1, <4>2 DEF OnItsWay, SharingInv, OnlyMergedAreChildren, Concepts
      <4>4. CASE Wanted(w) \notin registry /\ Wanted(w) = <<Revenue, c[2]>>
        <5>1. c \in Children(Wanted(w))
          BY <4>1, <4>2, <4>3, <4>4 DEF Children, OnItsWay
        <5>2. waiter'[c] \in {"waiting", "start"}
          BY <2>3, <4>1, <4>4, <5>1 DEF Once
        <5>3. QED  BY <5>2 DEF OnItsWay
      <4>5. CASE ~ (Wanted(w) \notin registry /\ Wanted(w) = <<Revenue, c[2]>>)
        <5>1. <<Revenue, c[2]>> \in registry' <=> <<Revenue, c[2]>> \in registry
          BY <2>1, <2>3, <4>5, OnceShares
        <5>2. running'[<<Revenue, c[2]>>] = running[<<Revenue, c[2]>>]
          BY <1>0, <4>1, <5>1 DEF SharingInv, RegistryExact
        <5>3. QED  BY <4>2, <5>2 DEF OnItsWay, FailureOnItsWay
      <4>6. QED  BY <4>4, <4>5
    <3>3. QED  BY <2>1, <3>1, <3>2, StepCause, OwnNames
  <2>4. QED  BY <1>8, <2>2, <2>3 DEF ChildStarts
<1>9. ASSUME NEW w \in Waiter, ChildEnds(w) PROVE CauseInv'
  <2>1. /\ UNCHANGED <<tasks, rankerAt, ranked, sawFailure>>
        /\ \A v \in Waiter : v # w => waiter'[v] = waiter[v]
        /\ waiter'[w] \in {"refused", "broken"} => waiter[w] = "refused"
    BY <1>0, <1>9 DEF ChildEnds
  <2>2. FailureOnItsWay' => FailureOnItsWay
    BY <2>1, ChildNames DEF FailureOnItsWay, tasks
  <2>3. \A v \in Waiter : waiter'[v] \in {"refused", "broken"} => waiter[v] \in {"refused", "broken"}
    BY <2>1
  <2>4. \A r \in Rankers : waiter'[ProbeOf(r)] = "refused" => waiter[ProbeOf(r)] = "refused"
    BY <2>1, OwnNames
  <2>5. QED  BY <2>1, <2>2, <2>3, <2>4, StepCause
<1>10. CASE Expire \/ UNCHANGED frameVars
  <2>1. UNCHANGED <<tasks, rankerAt, ranked, sawFailure, waiter>>
    BY <1>10 DEF Expire, frameVars, tasks
  <2>2. FailureOnItsWay' => FailureOnItsWay
    BY <2>1 DEF FailureOnItsWay, tasks
  <2>3. QED  BY <2>1, <2>2, StepCause
<1>11. QED
  BY <1>1, <1>2, <1>3, <1>4, <1>5, <1>6, <1>7, <1>8, <1>9, <1>10 DEF FramesNext

\* A ranking of industry_metrics that ends without an answer was under way while
\* a fetch failed: a shared task outlives the request that began it.
THEOREM GivenUpForCause == FramesSpec => []GaveUpForCause
<1>1. CauseInv => GaveUpForCause
  BY DEF CauseInv
<1>2. QED
  BY <1>1, SharingInit, SharingNext, CauseInit, CauseNext, PTL DEF FramesSpec

(***************************************************************************)
(* Financials                                                              *)
(***************************************************************************)

Reported ==
    [tag : {Tags[i] : i \in Tag}, period : FiscalPeriod, nth : 1..MaxFiled, filed : Nat,
     val : {Original} \cup Figures]

Content(s) == {s[i] : i \in DOMAIN s}
AllFacts == Content(facts)
Longer(s, a) == s \o <<a>>

\* Each filing reports a period once, under one concept.
FactsOK ==
    /\ facts \in Seq(Reported) /\ Filed \in Nat /\ LastDate \in Nat
    /\ \A f \in AllFacts : f.nth <= Filed /\ f.filed <= LastDate
    /\ \A f, g \in AllFacts : f.nth = g.nth /\ f.period = g.period => f = g

\* What a document has at most the filings that were there, and a request that
\* is without one has been told so.
Known == Nat \cup {Nothing} \cup Pending

DocsOK ==
    /\ factsKept # Nothing => factsKept \in 0..Filed
    /\ docs \in [Clients -> [Tag -> Known] \cup {Nothing}]
    /\ missed \in [Clients -> BOOLEAN]
    /\ \A r \in Clients : docs[r] # Nothing =>
          \A i \in Tag : /\ docs[r][i] \in Nat => docs[r][i] <= Filed
                         /\ docs[r][i] = Nothing => missed[r]

\* What the rows and revisions say of the facts S they are drawn from.
ToldOf(S, rows, revisions) ==
    /\ \A f, g \in S :
          f.period = g.period /\ AloneInYear(g.period) /\ FirstByDate(f, S) /\ LastByDate(g, S)
          => /\ rows[EndYear[g.period]] = g
             /\ <<f, g>> \in revisions <=> f.val # g.val
    /\ \A rev \in revisions :
          AloneInYear(rev[2].period) =>
              /\ EndYear[rev[2].period] \in DOMAIN rows
              /\ rows[EndYear[rev[2].period]].filed = rev[2].filed

\* What is kept, said of the documents it was read from.
Told ==
    LET rows == keptFinancials.rows
        revisions == keptFinancials.revisions
    IN  /\ keptFinancials.concept \in Tag /\ keptFinancials.read[keptFinancials.concept] \in 0..Filed
        /\ ToldOf(KeptFacts, rows, revisions)

Reached ==
    ~keptFinancials.missed =>
        /\ \A i \in Tag : keptFinancials.read[i] \in 0..Filed
        /\ \A i \in Tag : \A y \in YearsOf(Tags[i], keptFinancials.read[i]) :
               y <= Maximum(DOMAIN keptFinancials.rows)

KeptOK == keptFinancials # Nothing => Told /\ Reached

FinancialsInv == FactsOK /\ DocsOK /\ KeptOK

\* One more fact in a sequence of them.
LEMMA LongerSequence ==
  ASSUME NEW S, NEW s \in Seq(S), NEW a \in S
  PROVE  /\ Longer(s, a) \in Seq(S) /\ Len(Longer(s, a)) = Len(s) + 1
         /\ Longer(s, a)[Len(s) + 1] = a
         /\ \A k \in 1..Len(s) : Longer(s, a)[k] = s[k]
<1> DEFINE t == <<a>>
           u == s \o t
<1>0. t \in Seq(S) /\ Len(t) = 1 /\ t[1] = a
  OBVIOUS
<1>1. u = Longer(s, a)
  BY DEF Longer
<1> HIDE DEF t
<1>2. /\ u \in Seq(S) /\ Len(u) = Len(s) + 1
      /\ \A k \in 1..Len(s) + 1 : u[k] = IF k <= Len(s) THEN s[k] ELSE t[k - Len(s)]
  BY <1>0, ConcatProperties
<1> HIDE DEF u
<1>3. Len(s) \in Nat
  OBVIOUS
<1>4. u[Len(s) + 1] = a /\ \A k \in 1..Len(s) : u[k] = s[k]
  BY <1>0, <1>2, <1>3
<1>5. QED  BY <1>1, <1>2, <1>4

LEMMA LongerContent ==
  ASSUME NEW S, NEW s \in Seq(S), NEW a \in S
  PROVE  Content(Longer(s, a)) = Content(s) \cup {a}
<1> DEFINE u == Longer(s, a)
<1>1. /\ u \in Seq(S) /\ Len(u) = Len(s) + 1 /\ u[Len(s) + 1] = a
      /\ \A k \in 1..Len(s) : u[k] = s[k]
  BY LongerSequence
<1> HIDE DEF u
<1>2. /\ Len(s) \in Nat /\ DOMAIN s = 1..Len(s) /\ DOMAIN u = 1..(Len(s) + 1)
  BY <1>1
<1>3. ASSUME NEW k \in DOMAIN u PROVE u[k] \in {s[j] : j \in DOMAIN s} \cup {a}
  BY <1>1, <1>2
<1>4. ASSUME NEW k \in DOMAIN s PROVE s[k] \in {u[j] : j \in DOMAIN u}
  BY <1>1, <1>2
<1>5. a \in {u[j] : j \in DOMAIN u}
  <2>1. Len(s) + 1 \in DOMAIN u
    BY <1>2
  <2>2. QED  BY <1>1, <2>1
<1>6. {u[k] : k \in DOMAIN u} = {s[k] : k \in DOMAIN s} \cup {a}
  BY <1>3, <1>4, <1>5
<1>7. QED  BY <1>6 DEF Content, u

\* A report adds facts of its own filing, one to a period.
LEMMA ReportAdds ==
  ASSUME FactsOK, NEW i \in Tag, NEW p \in FiscalPeriod, NEW v \in Figures,
         NEW date \in {LastDate, LastDate + 1}, Report(Tags[i], p, v, date)
  PROVE  /\ facts' \in Seq(Reported) /\ Filed' = Filed + 1 /\ LastDate' = date
         /\ \E new \in SUBSET Reported :
               /\ AllFacts' = AllFacts \cup new
               /\ \A f \in new : f.nth = Filed + 1 /\ f.filed = date
               /\ \A f, g \in new : f.period = g.period => f = g
<1> DEFINE F(q) == [tag |-> Tags[i], period |-> q, nth |-> Filed + 1, filed |-> date,
                    val |-> IF q > LatestPeriod THEN Original ELSE v]
<1>0. /\ Filed \in Nat /\ facts \in Seq(Reported) /\ p \in Nat /\ date \in Nat
      /\ Filed + 1 \in 1..MaxFiled
  BY FinancialsAssumption DEF FactsOK, FiscalPeriod, Report
<1>1. \A q \in FiscalPeriod : /\ F(q) \in Reported /\ F(q).period = q
                              /\ F(q).nth = Filed + 1 /\ F(q).filed = date
  BY <1>0 DEF Reported
<1>2. p > 1 => p - 1 \in FiscalPeriod
  BY <1>0, FinancialsAssumption DEF FiscalPeriod
<1> DEFINE m == facts \o (IF p > 1 THEN <<F(p - 1)>> ELSE <<>>)
           before == IF p > 1 THEN {F(p - 1)} ELSE {}
<1>3. facts' = m \o <<F(p)>>
  BY DEF Report
<1> HIDE DEF F
<1>4. m \in Seq(Reported) /\ Content(m) = AllFacts \cup before
  <2>1. CASE p > 1
    <3> DEFINE a == F(p - 1)
    <3>1. m = Longer(facts, a) /\ a \in Reported /\ before = {a}
      BY <1>1, <1>2, <2>1 DEF m, Longer
    <3> HIDE DEF m, a, before
    <3>2. m \in Seq(Reported)
      BY <1>0, <3>1, LongerSequence
    <3>3. Content(m) = Content(facts) \cup {a}
      BY <1>0, <3>1, LongerContent
    <3>4. QED  BY <3>1, <3>2, <3>3 DEF AllFacts
  <2>2. CASE ~(p > 1)
    <3>1. m = facts
      BY <1>0, <2>2, ConcatEmptySeq
    <3> HIDE DEF m
    <3>2. QED  BY <1>0, <2>2, <3>1 DEF AllFacts
  <2>3. QED  BY <2>1, <2>2
<1> HIDE DEF m
<1> DEFINE u == Longer(m, F(p))
<1>5. facts' = u
  BY <1>3 DEF Longer
<1> HIDE DEF u
<1>6. u \in Seq(Reported) /\ Content(u) = AllFacts \cup before \cup {F(p)}
  <2>1. F(p) \in Reported
    BY <1>1
  <2>2. u \in Seq(Reported)
    BY <1>4, <2>1, LongerSequence DEF u
  <2>3. Content(u) = Content(m) \cup {F(p)}
    BY <1>4, <2>1, LongerContent DEF u
  <2>4. QED  BY <1>4, <2>2, <2>3
<1>7. Filed' = Filed + 1 /\ LastDate' = date
  <2>1. u[Len(u)] = F(p) /\ Len(u) > 0
    <3>1. F(p) \in Reported /\ Len(m) \in Nat
      BY <1>1, <1>4
    <3>2. Len(u) = Len(m) + 1 /\ u[Len(m) + 1] = F(p)
      BY <1>4, <3>1, LongerSequence DEF u
    <3>3. QED  BY <3>1, <3>2
  <2>2. Filed' = u[Len(u)].nth /\ LastDate' = u[Len(u)].filed
    BY <1>5, <1>6, <2>1 DEF Filed, LastDate
  <2>3. QED  BY <1>1, <2>1, <2>2
<1> DEFINE new == before \cup {F(p)}
<1>8. AllFacts' = AllFacts \cup new
  BY <1>5, <1>6 DEF AllFacts
<1>9. new \in SUBSET Reported /\ \A f \in new : f.nth = Filed + 1 /\ f.filed = date
  BY <1>1, <1>2
<1>10. \A f, g \in new : f.period = g.period => f = g
  <2>1. p > 1 => F(p - 1).period # F(p).period
    BY <1>0, <1>1, <1>2
  <2>2. QED  BY <2>1
<1> HIDE DEF new
<1>11. QED  BY <1>5, <1>6, <1>7, <1>8, <1>9, <1>10

\* The facts of a document that was read before stay what they were.
LEMMA FactsGrow ==
  ASSUME FactsOK, NEW i \in Tag, NEW p \in FiscalPeriod, NEW v \in Figures,
         NEW date \in {LastDate, LastDate + 1}, Report(Tags[i], p, v, date)
  PROVE  /\ FactsOK' /\ Filed' = Filed + 1
         /\ \A c : \A n \in 0..Filed : FactsOf(c, n)' = FactsOf(c, n)
<1>1. facts' \in Seq(Reported) /\ Filed' = Filed + 1 /\ LastDate' = date
  BY ReportAdds
<1>2. PICK new \in SUBSET Reported :
         /\ AllFacts' = AllFacts \cup new
         /\ \A f \in new : f.nth = Filed + 1 /\ f.filed = date
         /\ \A f, g \in new : f.period = g.period => f = g
  BY ReportAdds
<1>3. /\ Filed \in Nat /\ LastDate \in Nat /\ date \in Nat /\ LastDate <= date
      /\ \A f \in AllFacts : /\ f.nth <= Filed /\ f.nth \in Nat
                            /\ f.filed <= LastDate /\ f.filed \in Nat
  <2>1. AllFacts \subseteq Reported
    BY DEF FactsOK, AllFacts, Content
  <2>2. QED  BY <2>1, FinancialsAssumption DEF FactsOK, Reported
<1>4. FactsOK'
  <2>1. \A f \in AllFacts' : f.nth <= Filed' /\ f.filed <= LastDate'
    BY <1>1, <1>2, <1>3
  <2>2. ASSUME NEW f \in AllFacts', NEW g \in AllFacts', f.nth = g.nth, f.period = g.period
        PROVE  f = g
    <3>1. CASE f \in new /\ g \in new
      BY <1>2, <2>2, <3>1
    <3>2. CASE f \in AllFacts /\ g \in AllFacts
      BY <2>2, <3>2 DEF FactsOK
    <3>3. CASE f \in new /\ g \in AllFacts
      <4>1. f.nth = Filed + 1 /\ g.nth <= Filed /\ g.nth \in Nat
        BY <1>2, <1>3, <3>3
      <4>2. QED  BY <1>3, <2>2, <4>1
    <3>4. CASE f \in AllFacts /\ g \in new
      <4>1. g.nth = Filed + 1 /\ f.nth <= Filed /\ f.nth \in Nat
        BY <1>2, <1>3, <3>4
      <4>2. QED  BY <1>3, <2>2, <4>1
    <3>5. QED  BY <1>2, <3>1, <3>2, <3>3, <3>4
  <2>3. QED  BY <1>1, <1>3, <2>1, <2>2 DEF FactsOK
<1>5. ASSUME NEW c, NEW n \in 0..Filed PROVE FactsOf(c, n)' = FactsOf(c, n)
  <2>1. \A f \in new : ~(f.nth <= n)
    BY <1>2, <1>3
  <2>2. {f \in AllFacts' : f.tag = c /\ f.nth <= n} = {f \in AllFacts : f.tag = c /\ f.nth <= n}
    BY <1>2, <2>1
  <2>3. QED  BY <2>2 DEF FactsOf, AllFacts, Content
<1>6. QED  BY <1>1, <1>4, <1>5

LEMMA ReportKeeps ==
  ASSUME FinancialsInv, NEW i \in Tag, NEW p \in FiscalPeriod, NEW v \in Figures,
         NEW date \in {LastDate, LastDate + 1}, Report(Tags[i], p, v, date)
  PROVE  FinancialsInv'
<1>0. FactsOK /\ DocsOK /\ KeptOK /\ Filed \in Nat
  BY DEF FinancialsInv, FactsOK
<1>1. /\ FactsOK' /\ Filed' = Filed + 1
      /\ \A c : \A n \in 0..Filed : FactsOf(c, n)' = FactsOf(c, n)
  BY <1>0, FactsGrow
<1>2. UNCHANGED <<docs, factsKept, missed, keptFinancials>>
  BY DEF Report
<1>3. DocsOK'
  <2>1. \A n \in Nat : n <= Filed => n <= Filed'
    BY <1>0, <1>1
  <2>2. factsKept # Nothing => factsKept \in 0..Filed'
    BY <1>0, <1>1 DEF DocsOK
  <2>3. ASSUME NEW r \in Clients, docs[r] # Nothing, NEW j \in Tag
        PROVE  /\ docs[r][j] \in Nat => docs[r][j] <= Filed'
               /\ docs[r][j] = Nothing => missed[r]
    BY <1>0, <2>1, <2>3 DEF DocsOK
  <2>4. QED  BY <1>0, <1>2, <2>2, <2>3 DEF DocsOK
<1>4. KeptOK'
  <2> SUFFICES ASSUME keptFinancials # Nothing PROVE Told' /\ Reached'
    BY <1>2 DEF KeptOK
  <2>1. Told'
    <3> DEFINE i0 == keptFinancials.concept
               n0 == keptFinancials.read[i0]
    <3>1. i0 \in Tag /\ n0 \in 0..Filed /\ ToldOf(KeptFacts, keptFinancials.rows, keptFinancials.revisions)
      BY <1>0 DEF KeptOK, Told
    <3>2. i0' = i0 /\ n0' = n0 /\ n0 \in 0..Filed'
      BY <1>0, <1>1, <1>2, <3>1
    <3>3. FactsOf(Tags[i0], n0)' = FactsOf(Tags[i0], n0)
      BY <1>1, <3>1, <3>2
    <3>4. KeptFacts' = KeptFacts
      BY <3>3 DEF KeptFacts
    <3>5. ToldOf(KeptFacts, keptFinancials.rows, keptFinancials.revisions)'
      BY <1>2, <3>1, <3>4 DEF ToldOf
    <3>6. QED  BY <3>1, <3>2, <3>5 DEF Told
  <2>2. Reached'
    <3> SUFFICES ASSUME ~keptFinancials.missed PROVE Reached'
      BY <1>2 DEF Reached
    <3>1. /\ \A j \in Tag : keptFinancials.read[j] \in 0..Filed
          /\ \A j \in Tag : \A y \in YearsOf(Tags[j], keptFinancials.read[j]) :
                 y <= Maximum(DOMAIN keptFinancials.rows)
      BY <1>0 DEF KeptOK, Reached
    <3>2. \A j \in Tag : YearsOf(Tags[j], keptFinancials.read[j])'
                             = YearsOf(Tags[j], keptFinancials.read[j])
      <4> SUFFICES ASSUME NEW j \in Tag
                   PROVE  YearsOf(Tags[j], keptFinancials.read[j])'
                              = YearsOf(Tags[j], keptFinancials.read[j])
        OBVIOUS
      <4> DEFINE n == keptFinancials.read[j]
      <4>1. n \in 0..Filed /\ n' = n
        BY <1>2, <3>1
      <4>2. FactsOf(Tags[j], n)' = FactsOf(Tags[j], n)
        BY <1>1, <1>2, <4>1
      <4>3. QED  BY <4>2 DEF YearsOf
    <3>3. \A j \in Tag : keptFinancials.read[j] \in 0..Filed'
      BY <1>0, <1>1, <3>1
    <3>4. QED  BY <1>0, <1>2, <3>1, <3>2, <3>3 DEF Reached, KeptOK
  <2>3. QED  BY <2>1, <2>2
<1>5. QED  BY <1>1, <1>3, <1>4 DEF FinancialsInv

\* Of bounded numbers one is the largest.
LEMMA LargestExists ==
  ASSUME NEW S \in SUBSET Nat, NEW b \in Nat, \A n \in S : n <= b, S # {}
  PROVE  Maximum(S) \in S /\ \A n \in S : n <= Maximum(S)
<1> DEFINE T == {b - n : n \in S}
<1>1. T \subseteq Nat /\ T # {}
  OBVIOUS
<1>2. PICK x \in T : \A y \in T : ~(<<y, x>> \in OpToRel(<, Nat))
  BY <1>1, NatLessThanWellFounded, WFMin
<1>3. \A y \in T : ~(y < x)
  BY <1>1, <1>2 DEF OpToRel
<1>4. PICK m \in S : x = b - m
  OBVIOUS
<1>5. ASSUME NEW n \in S PROVE n <= m
  <2>1. n \in Nat /\ m \in Nat /\ ~(b - n < b - m)
    BY <1>3, <1>4
  <2>2. QED  BY <2>1
<1>6. \E y \in S : \A z \in S : z <= y
  BY <1>5
<1>7. QED  BY <1>6 DEF Maximum

LastYear == EndYear[Len(EndYear)]

\* The years of a document are numbers, and none is later than the last period.
LEMMA YearsAreBounded ==
  ASSUME FactsOK, NEW c, NEW n
  PROVE  /\ YearsOf(c, n) \in SUBSET Nat
         /\ \A y \in YearsOf(c, n) : LastYear \in Nat /\ y <= LastYear
         /\ Cardinality(YearsOf(c, n)) \in Nat
         /\ YearsOf(c, n) # {} => Cardinality(YearsOf(c, n)) <= LastYear + 1
<1>1. ASSUME NEW y \in YearsOf(c, n)
      PROVE  y \in Nat /\ LastYear \in Nat /\ y <= LastYear
  <2>1. PICK f \in FactsOf(c, n) : y = EndYear[f.period]
    BY DEF YearsOf
  <2>2. f \in Reported
    BY DEF FactsOf, FactsOK
  <2>3. f.period \in 1..Len(EndYear) /\ Len(EndYear) \in Nat
    BY <2>2, FinancialsAssumption DEF Reported, FiscalPeriod
  <2>4. Len(EndYear) \in 1..Len(EndYear) /\ f.period <= Len(EndYear)
    BY <2>3
  <2>5. EndYear[f.period] <= EndYear[Len(EndYear)]
    BY <2>3, <2>4, FinancialsAssumption
  <2>6. EndYear[f.period] \in Nat /\ EndYear[Len(EndYear)] \in Nat
    BY <2>3, <2>4, FinancialsAssumption
  <2>7. QED  BY <2>1, <2>5, <2>6 DEF LastYear
<1> DEFINE Y == YearsOf(c, n)
<1>2. Y \in SUBSET Nat /\ \A y \in Y : LastYear \in Nat /\ y <= LastYear
  BY <1>1
<1> HIDE DEF Y
<1>3. Cardinality(Y) \in Nat /\ (Y # {} => Cardinality(Y) <= LastYear + 1)
  <2>1. CASE Y = {}
    BY <2>1, FS_EmptySet
  <2>2. CASE Y # {}
    BY <1>2, <2>2, FS_BoundedSetOfNaturals, FS_CardinalityType
  <2>3. QED  BY <2>1, <2>2
<1>4. QED  BY <1>2, <1>3 DEF Y

\* The documents a request holds when none is awaited.
Readings == [Tag -> Nat \cup {Nothing}]
Years(read, i) == IF read[i] = Nothing THEN {} ELSE YearsOf(Tags[i], read[i])

\* The concept that is selected has figures, and none reaches a later year.
LEMMA SelectedReaches ==
  ASSUME FactsOK, NEW read \in Readings, Selected(read) # 0
  PROVE  /\ Selected(read) \in Tag /\ read[Selected(read)] # Nothing
         /\ \A j \in Tag : \A y \in Years(read, j) :
                y <= Maximum(YearsOf(Tags[Selected(read)], read[Selected(read)]))
<1> DEFINE Late(i) == Maximum(Years(read, i))
           Broad(i) == Cardinality(Years(read, i))
           Beats(i, j) == \/ Late(i) > Late(j)
                          \/ /\ Late(i) = Late(j)
                             /\ Broad(i) > Broad(j) \/ (Broad(i) = Broad(j) /\ i < j)
           With == {i \in Tag : Years(read, i) # {}}
<1>1. ASSUME NEW i \in With
      PROVE  /\ Late(i) \in Nat /\ LastYear \in Nat /\ Late(i) <= LastYear
             /\ Broad(i) \in Nat /\ Broad(i) <= LastYear + 1
             /\ \A y \in Years(read, i) : y <= Late(i)
  <2> DEFINE Y == Years(read, i)
  <2>1. /\ Y # {} /\ Y \in SUBSET Nat /\ \A y \in Y : LastYear \in Nat /\ y <= LastYear
        /\ Cardinality(Y) \in Nat /\ Cardinality(Y) <= LastYear + 1
    BY YearsAreBounded DEF Years
  <2> HIDE DEF Y
  <2>2. Maximum(Y) \in Y /\ \A y \in Y : y <= Maximum(Y)
    BY <2>1, LargestExists
  <2>3. QED  BY <2>1, <2>2 DEF Y
<1>2. With \subseteq Nat
  BY FinancialsAssumption DEF Tag
<1>3. Selected(read) = IF With = {} THEN 0 ELSE CHOOSE i \in With : \A j \in With \ {i} : Beats(i, j)
  BY DEF Selected, Years
<1> HIDE DEF Late, Broad
<1>4. With # {}
  BY <1>3
<1>5. \E i \in With : \A j \in With \ {i} : Beats(i, j)
  <2> DEFINE lates == {Late(i) : i \in With}
             latest == {i \in With : Late(i) = Maximum(lates)}
             broads == {Broad(i) : i \in latest}
             broadest == {i \in latest : Broad(i) = Maximum(broads)}
  <2> HIDE DEF With
  <2>1. Maximum(lates) \in lates /\ \A n \in lates : n <= Maximum(lates)
    <3>1. lates \in SUBSET Nat /\ lates # {} /\ LastYear \in Nat /\ \A n \in lates : n <= LastYear
      BY <1>1, <1>4
    <3> HIDE DEF lates
    <3>2. QED  BY <3>1, LargestExists
  <2>2. latest # {} /\ latest \subseteq With
    BY <2>1
  <2>3. Maximum(broads) \in broads /\ \A n \in broads : n <= Maximum(broads)
    <3> HIDE DEF latest
    <3>1. \A j \in latest : Broad(j) \in Nat /\ LastYear \in Nat /\ Broad(j) <= LastYear + 1
      BY <1>1, <2>2
    <3>2. \A n \in broads : n \in Nat /\ LastYear \in Nat /\ n <= LastYear + 1
      BY <3>1
    <3>3. broads # {}
      BY <2>2
    <3> HIDE DEF broads
    <3>4. LastYear + 1 \in Nat
      BY <3>2, <3>3
    <3>5. broads \in SUBSET Nat
      BY <3>2
    <3>6. QED  BY <3>2, <3>3, <3>4, <3>5, LargestExists
  <2>4. broadest # {} /\ broadest \subseteq Nat /\ broadest \subseteq latest
    BY <1>2, <2>2, <2>3
  <2>5. PICK i \in broadest : \A j \in broadest : i <= j
    BY <2>4, LeastExists
  <2>6. ASSUME NEW j \in With \ {i} PROVE Beats(i, j)
    <3>1. /\ i \in With /\ i \in Nat /\ j \in Nat /\ i # j
          /\ Late(i) \in Nat /\ Late(j) \in Nat /\ Broad(i) \in Nat /\ Broad(j) \in Nat
      BY <1>1, <1>2, <2>2, <2>4
    <3>2. Late(i) = Maximum(lates) /\ Late(j) <= Late(i)
      BY <2>1
    <3>3. CASE Late(j) # Late(i)
      BY <3>1, <3>2, <3>3
    <3>4. CASE Late(j) = Late(i)
      <4>1. j \in latest
        BY <3>2, <3>4
      <4>2. Broad(i) = Maximum(broads) /\ Broad(j) <= Broad(i)
        BY <2>3, <4>1
      <4>3. Broad(j) = Broad(i) => i <= j
        BY <2>5, <4>1, <4>2
      <4>4. QED  BY <3>1, <3>4, <4>2, <4>3
    <3>5. QED  BY <3>3, <3>4
  <2>7. QED  BY <2>2, <2>4, <2>6
<1> DEFINE s == Selected(read)
<1>6. s \in With /\ \A j \in With \ {s} : Beats(s, j)
  BY <1>3, <1>4, <1>5
<1> HIDE DEF s
<1>7. ASSUME NEW j \in Tag, NEW y \in Years(read, j) PROVE y <= Late(s)
  <2>1. j \in With
    BY <1>7
  <2>2. Late(j) <= Late(s)
    BY <1>1, <1>6, <2>1
  <2>3. y \in Nat /\ y <= Late(j) /\ Late(j) \in Nat /\ Late(s) \in Nat
    <3>1. y \in Nat
      BY <1>7, YearsAreBounded DEF Years
    <3>2. QED  BY <1>1, <1>6, <1>7, <2>1, <3>1
  <2>4. QED  BY <2>2, <2>3
<1>8. QED
  BY <1>6, <1>7 DEF Years, Late, s

\* Where one period ends in a year, the year's row is of its latest reports.
LEMMA WinnerIsLatest ==
  ASSUME FactsOK, NEW c, NEW n, NEW p \in FiscalPeriod, AloneInYear(p),
         \E f \in FactsOf(c, n) : f.period = p
  PROVE  /\ EndYear[p] \in YearsOf(c, n)
         /\ Winner(c, n, EndYear[p]) \in FactsOf(c, n) /\ Winner(c, n, EndYear[p]).period = p
         /\ \A h \in FactsOf(c, n) : h.period = p => h.filed <= Winner(c, n, EndYear[p]).filed
<1>0. \A q \in FiscalPeriod : EndYear[q] = EndYear[p] => q = p
  BY DEF AloneInYear
<1> DEFINE S == {f \in FactsOf(c, n) : f.period = p}
           dates == {f.filed : f \in S}
           latest == {f \in S : f.filed = Maximum(dates)}
           Wins(w) == /\ EndYear[w.period] = EndYear[p]
                      /\ \A g \in FactsOf(c, n) :
                            EndYear[g.period] = EndYear[p] =>
                                w.filed > g.filed \/ (w.filed = g.filed /\ ComesFirst(w, g))
<1>1. FactsOf(c, n) \subseteq Reported /\ FactsOf(c, n) \subseteq AllFacts
  BY DEF FactsOf, FactsOK, AllFacts, Content
<1>2. \A g \in FactsOf(c, n) : /\ g.filed \in Nat /\ g.filed <= LastDate /\ LastDate \in Nat
                              /\ g.nth \in Nat /\ g.period \in FiscalPeriod /\ g.period \in Nat
  <2>1. LastDate \in Nat
    BY DEF FactsOK
  <2>2. \A g \in AllFacts : g.filed <= LastDate
    BY DEF FactsOK
  <2>3. \A g \in Reported : g.filed \in Nat /\ g.nth \in 1..MaxFiled /\ g.period \in FiscalPeriod
    BY DEF Reported
  <2>4. FiscalPeriod \subseteq Nat
    BY FinancialsAssumption DEF FiscalPeriod
  <2>5. 1..MaxFiled \subseteq Nat
    OBVIOUS
  <2> TAKE g \in FactsOf(c, n)
  <2>6. g \in Reported /\ g \in AllFacts
    BY <1>1
  <2>7. QED  BY <2>1, <2>2, <2>3, <2>4, <2>5, <2>6
<1>3. \A g \in FactsOf(c, n) : EndYear[g.period] = EndYear[p] => g.period = p
  BY <1>0, <1>2
<1>4. Maximum(dates) \in dates /\ \A d \in dates : d <= Maximum(dates)
  <2>1. dates # {} /\ dates \in SUBSET Nat /\ LastDate \in Nat /\ \A d \in dates : d <= LastDate
    BY <1>2
  <2> HIDE DEF dates
  <2>2. QED  BY <2>1, LargestExists
<1>5. PICK w \in latest : \A g \in latest : w.nth <= g.nth
  <2> DEFINE numbers == {f.nth : f \in latest}
  <2>1. numbers # {} /\ numbers \in SUBSET Nat
    BY <1>2, <1>4
  <2> HIDE DEF numbers, latest
  <2>2. PICK m \in numbers : \A k \in numbers : m <= k
    BY <2>1, LeastExists
  <2>3. QED  BY <2>2 DEF numbers
<1>6. w \in FactsOf(c, n) /\ w.period = p /\ w.filed = Maximum(dates)
  OBVIOUS
<1>7. Wins(w)
  <2> SUFFICES ASSUME NEW g \in FactsOf(c, n), EndYear[g.period] = EndYear[p]
               PROVE  w.filed > g.filed \/ (w.filed = g.filed /\ ComesFirst(w, g))
    BY <1>6
  <2>1. g.period = p /\ g.filed \in dates
    BY <1>3
  <2>2. g.filed <= w.filed /\ g.filed \in Nat /\ w.filed \in Nat
    BY <1>2, <1>4, <1>6, <2>1
  <2>3. g.filed = w.filed => w.nth <= g.nth
    BY <1>5, <1>6, <2>1
  <2>4. QED  BY <1>6, <2>1, <2>2, <2>3 DEF ComesFirst
<1> DEFINE v == Winner(c, n, EndYear[p])
<1>8. v = CHOOSE x \in FactsOf(c, n) : Wins(x)
  BY DEF Winner
<1> HIDE DEF Wins, v
<1>9. v \in FactsOf(c, n) /\ Wins(v)
  BY <1>6, <1>7, <1>8
<1>10. v.period = p
  BY <1>3, <1>9 DEF Wins
<1>11. ASSUME NEW h \in FactsOf(c, n), h.period = p PROVE h.filed <= v.filed
  <2>1. v.filed > h.filed \/ v.filed = h.filed
    BY <1>9, <1>11 DEF Wins
  <2>2. QED  BY <1>2, <1>9, <2>1
<1>12. EndYear[p] \in YearsOf(c, n)
  BY <1>6 DEF YearsOf
<1>13. QED  BY <1>9, <1>10, <1>11, <1>12 DEF v

\* What the rows and revisions of one document tell.
LEMMA DocumentTells ==
  ASSUME FactsOK, NEW c, NEW n
  PROVE  ToldOf(FactsOf(c, n), [y \in YearsOf(c, n) |-> Winner(c, n, y)], RevisionsOf(c, n))
<1> DEFINE S == FactsOf(c, n)
           rows == [y \in YearsOf(c, n) |-> Winner(c, n, y)]
<1>1. \A g \in S : /\ g.filed \in Nat /\ g.period \in FiscalPeriod
                  /\ Accession[g.nth] \in Nat
  <2>1. S \subseteq Reported
    BY DEF FactsOf, FactsOK
  <2>2. QED  BY <2>1, FinancialsAssumption DEF Reported
<1>2. ASSUME NEW g \in S, AloneInYear(g.period)
      PROVE  LET y == EndYear[g.period]
             IN  /\ y \in DOMAIN rows /\ rows[y] \in S /\ rows[y].period = g.period
                 /\ \A h \in S : h.period = g.period => h.filed <= rows[y].filed
  <2>1. g.period \in FiscalPeriod /\ \E f \in FactsOf(c, n) : f.period = g.period
    BY <1>1
  <2>2. QED  BY <1>2, <2>1, WinnerIsLatest
<1> HIDE DEF rows
<1> SUFFICES ToldOf(S, rows, RevisionsOf(c, n))
  BY DEF rows
<1>3. ASSUME NEW f \in S, NEW g \in S, f.period = g.period, AloneInYear(g.period),
             FirstByDate(f, S), LastByDate(g, S)
      PROVE  /\ rows[EndYear[g.period]] = g
             /\ <<f, g>> \in RevisionsOf(c, n) <=> f.val # g.val
  <2> DEFINE w == rows[EndYear[g.period]]
  <2>1. w \in S /\ w.period = g.period /\ g.filed <= w.filed
    BY <1>2, <1>3
  <2> HIDE DEF w
  <2>2. w = g \/ w.filed < g.filed
    BY <1>3, <2>1 DEF LastByDate
  <2>3. w = g
    BY <1>1, <2>1, <2>2
  <2>4. \A h \in S : h.period = f.period => Precedes(f, h) /\ Precedes(h, g)
    BY <1>1, <1>3 DEF FirstByDate, LastByDate, Precedes
  <2>5. <<f, g>> \in RevisionsOf(c, n) <=> f.val # g.val
    BY <1>3, <2>4 DEF RevisionsOf
  <2>6. QED  BY <2>3, <2>5 DEF w
<1>4. ASSUME NEW rev \in RevisionsOf(c, n), AloneInYear(rev[2].period)
      PROVE  /\ EndYear[rev[2].period] \in DOMAIN rows
             /\ rows[EndYear[rev[2].period]].filed = rev[2].filed
  <2> DEFINE g == rev[2]
             w == rows[EndYear[g.period]]
  <2>1. /\ g \in S /\ rev[1].period = g.period
        /\ \A h \in S : h.period = rev[1].period => Precedes(h, g)
    BY DEF RevisionsOf
  <2> HIDE DEF g
  <2>2. AloneInYear(g.period)
    BY <1>4 DEF g
  <2>3. /\ EndYear[g.period] \in DOMAIN rows /\ w \in S /\ w.period = g.period
        /\ g.filed <= w.filed
    BY <1>2, <2>1, <2>2
  <2> HIDE DEF w
  <2>4. w.filed <= g.filed
    <3>1. Precedes(w, g)
      BY <2>1, <2>3
    <3>2. QED  BY <1>1, <2>1, <2>3, <3>1 DEF Precedes
  <2>5. w.filed = g.filed
    BY <1>1, <2>1, <2>3, <2>4
  <2>6. QED  BY <2>3, <2>5 DEF g, w
<1> HIDE DEF S
<1>5. QED  BY <1>3, <1>4 DEF ToldOf

LEMMA MarkersAreNoCounts ==
  /\ Nothing \notin Nat /\ Awaiting \notin Nat /\ Joined \notin Nat
  /\ Nothing # Awaiting /\ Nothing # Joined
BY FinancialsAssumption

\* A step that leaves the history and the kept answer alone keeps what is said of them.
LEMMA KeptStays ==
  ASSUME FinancialsInv, UNCHANGED <<facts, keptFinancials>>
  PROVE  FactsOK' /\ KeptOK' /\ Filed' = Filed /\ Filed \in Nat
<1>1. Filed' = Filed /\ Filed \in Nat /\ LastDate' = LastDate
  BY DEF Filed, LastDate, FinancialsInv, FactsOK
<1>2. FactsOK'
  BY <1>1 DEF FinancialsInv, FactsOK, AllFacts, Content
<1>3. /\ \A c, n : YearsOf(c, n)' = YearsOf(c, n)
      /\ KeptFacts' = KeptFacts
  BY DEF YearsOf, FactsOf, KeptFacts
<1>4. KeptOK'
  BY <1>1, <1>3 DEF FinancialsInv, KeptOK, Told, Reached, ToldOf
<1>5. QED  BY <1>1, <1>2, <1>4

LEMMA AnswerKeeps ==
  ASSUME FinancialsInv, NEW r \in Clients, AnswerClient(r)
  PROVE  FinancialsInv'
<1> DEFINE read == docs[r]
           s == Selected(read)
<1>0. FactsOK /\ DocsOK /\ KeptOK /\ Filed \in Nat
  BY DEF FinancialsInv, FactsOK
<1>1. /\ facts' = facts /\ factsKept' = factsKept
      /\ read # Nothing /\ \A j \in Tag : read[j] \notin Pending
      /\ docs' = [docs EXCEPT ![r] = Nothing] /\ missed' = [missed EXCEPT ![r] = FALSE]
  BY DEF AnswerClient, Close
<1>2. FactsOK' /\ Filed' = Filed /\ \A c, n : YearsOf(c, n)' = YearsOf(c, n)
  BY <1>0, <1>1 DEF FactsOK, Filed, LastDate, AllFacts, Content, YearsOf, FactsOf
<1>3. DocsOK'
  BY <1>0, <1>1, <1>2 DEF DocsOK
<1>4. KeptOK'
  <2>1. CASE s = 0
    <3>1. keptFinancials' = keptFinancials
      BY <2>1 DEF AnswerClient
    <3>2. QED  BY <1>1, <3>1, KeptStays
  <2>2. CASE s # 0
    <3> DEFINE c == Tags[s]
               n == read[s]
               Rows == [y \in YearsOf(c, n) |-> Winner(c, n, y)]
               revised == RevisionsOf(c, n)
    <3>1. keptFinancials' = [rows |-> Rows, concept |-> s, revisions |-> revised,
                             read |-> read, missed |-> missed[r]]
      BY <2>2 DEF AnswerClient
    <3>2. read \in Readings
      BY <1>0, <1>1 DEF DocsOK, Known, Readings
    <3>3. ~missed[r] => \A i \in Tag : read[i] \in 0..Filed /\ read[i] # Nothing
      BY <1>0, <1>1, <3>2, FinancialsAssumption DEF DocsOK, Readings
    <3>4. \A j \in Tag : \A y \in Years(read, j) : y <= Maximum(YearsOf(c, n))
      BY <1>0, <2>2, <3>2, SelectedReaches
    <3>5. /\ s \in Tag /\ n \in 0..Filed
          /\ ToldOf(FactsOf(c, n), Rows, revised)
      <4>1. s \in Tag /\ n # Nothing
        BY <1>0, <2>2, <3>2, SelectedReaches
      <4>2. n \in Nat /\ n <= Filed
        BY <1>0, <1>1, <3>2, <4>1 DEF DocsOK, Readings
      <4>3. QED  BY <1>0, <4>1, <4>2, DocumentTells
    <3> HIDE DEF s
    <3> HIDE DEF read
    <3>6. ASSUME ~missed[r], NEW j \in Tag, NEW y \in YearsOf(Tags[j], read[j])
          PROVE  y <= Maximum(YearsOf(c, n))
      BY <3>3, <3>4, <3>6 DEF Years
    <3> DEFINE told == [rows |-> Rows, concept |-> s, revisions |-> revised, read |-> read, missed |-> missed[r]]
    <3>7. /\ told.rows = Rows /\ told.revisions = revised /\ told.read = read
          /\ told.missed = missed[r] /\ told.concept = s /\ DOMAIN Rows = YearsOf(c, n)
      OBVIOUS
    <3> HIDE DEF Rows, revised, told
    <3>8. Told'
      <4>1. keptFinancials' = told
        BY <3>1 DEF told
      <4>2. /\ keptFinancials'.concept = s /\ keptFinancials'.read = read
            /\ keptFinancials'.rows = Rows /\ keptFinancials'.revisions = revised
        BY <3>7, <4>1
      <4>3. KeptFacts' = FactsOf(c, n)
        BY <1>1, <4>2 DEF KeptFacts, FactsOf
      <4>4. ToldOf(KeptFacts, keptFinancials.rows, keptFinancials.revisions)'
        BY <3>5, <4>2, <4>3 DEF ToldOf
      <4>5. QED  BY <1>2, <3>5, <4>2, <4>4 DEF Told
    <3>9. Reached'
      <4>1. /\ keptFinancials'.missed = missed[r] /\ keptFinancials'.read = read
            /\ keptFinancials'.rows = Rows
        BY <3>1, <3>7 DEF told
      <4> SUFFICES ASSUME ~missed[r] PROVE Reached'
        BY <4>1 DEF Reached
      <4>2. \A i \in Tag : keptFinancials'.read[i] \in 0..Filed'
        BY <1>2, <3>3, <4>1
      <4>3. ASSUME NEW i \in Tag
            PROVE  YearsOf(Tags[i], keptFinancials.read[i])' = YearsOf(Tags[i], read[i])
        BY <1>1, <4>1 DEF YearsOf, FactsOf
      <4>4. ASSUME NEW i \in Tag, NEW y \in YearsOf(Tags[i], read[i])
            PROVE  y <= Maximum(DOMAIN keptFinancials'.rows)
        BY <3>6, <3>7, <4>1, <4>4
      <4>5. QED  BY <4>2, <4>3, <4>4 DEF Reached
    <3>10. QED  BY <3>8, <3>9 DEF KeptOK
  <2>3. QED  BY <2>1, <2>2
<1>5. QED  BY <1>2, <1>3, <1>4 DEF FinancialsInv

LEMMA FinancialsStep ==
  ASSUME FinancialsInv, [FinancialsNext]_financialVars
  PROVE  FinancialsInv'
<1>0. FactsOK /\ DocsOK /\ KeptOK /\ Filed \in Nat
  BY DEF FinancialsInv, FactsOK
<1>1. UNCHANGED <<facts, keptFinancials>> => FactsOK' /\ KeptOK' /\ Filed' = Filed
  BY KeptStays
<1>2. ASSUME NEW i \in Tag, NEW p \in FiscalPeriod, NEW v \in Figures,
             NEW date \in {LastDate, LastDate + 1}, Report(Tags[i], p, v, date)
      PROVE  FinancialsInv'
  BY <1>2, ReportKeeps
<1>3. ASSUME NEW r \in Clients, Open(r)
      PROVE  FinancialsInv'
  <2>1. FactsOK' /\ KeptOK' /\ Filed' = Filed
    BY <1>1, <1>3 DEF Open
  <2>2. /\ docs' = [docs EXCEPT ![r] = [i \in Tag |-> Awaiting]]
        /\ factsKept' = factsKept /\ missed' = missed
    BY <1>3 DEF Open
  <2>3. Awaiting \in Known /\ Awaiting \notin Nat /\ Awaiting # Nothing
    BY FinancialsAssumption DEF Known, Pending
  <2>4. DocsOK'
    BY <1>0, <2>1, <2>2, <2>3 DEF DocsOK
  <2>5. QED  BY <2>1, <2>4 DEF FinancialsInv
<1>4. ASSUME NEW r \in Clients, NEW i \in Tag, FetchConcept(r, i)
      PROVE  FinancialsInv'
  <2>1. FactsOK' /\ KeptOK' /\ Filed' = Filed
    BY <1>1, <1>4 DEF FetchConcept
  <2>2. \E d \in Known : /\ docs' = [docs EXCEPT ![r][i] = d]
                         /\ d # Nothing /\ (d \in Nat => d <= Filed)
    <3>1. /\ Filed \in Known /\ Filed # Nothing /\ Filed <= Filed
          /\ Joined \in Known /\ Joined # Nothing /\ Joined \notin Nat
          /\ factsKept # Nothing => factsKept \in Known /\ factsKept \in Nat /\ factsKept <= Filed
      BY <1>0, MarkersAreNoCounts DEF DocsOK, Known, Pending
    <3>2. \/ docs' = [docs EXCEPT ![r][i] = Filed]
          \/ docs' = [docs EXCEPT ![r][i] = Joined]
          \/ factsKept # Nothing /\ docs' = [docs EXCEPT ![r][i] = factsKept]
      BY <1>4 DEF FetchConcept
    <3>3. QED  BY <3>1, <3>2
  <2>3. factsKept' = factsKept /\ missed' = missed /\ docs[r] # Nothing
    BY <1>4 DEF FetchConcept
  <2>4. PICK d \in Known : /\ docs' = [docs EXCEPT ![r][i] = d]
                           /\ d # Nothing /\ (d \in Nat => d <= Filed)
    BY <2>2
  <2>5. docs[r] \in [Tag -> Known] /\ docs'[r] = [docs[r] EXCEPT ![i] = d]
    BY <1>0, <2>3, <2>4 DEF DocsOK
  <2>6. /\ docs' \in [Clients -> [Tag -> Known] \cup {Nothing}]
        /\ \A q \in Clients \ {r} : docs'[q] = docs[q]
    BY <1>0, <2>3, <2>4, <2>5 DEF DocsOK
  <2>7. ASSUME NEW q \in Clients, docs'[q] # Nothing, NEW j \in Tag
        PROVE  /\ docs'[q][j] \in Nat => docs'[q][j] <= Filed
               /\ docs'[q][j] = Nothing => missed[q]
    <3>1. CASE q = r /\ j = i
      BY <2>4, <2>5, <3>1
    <3>2. CASE q = r /\ j # i
      BY <1>0, <2>3, <2>5, <3>2 DEF DocsOK
    <3>3. CASE q # r
      BY <1>0, <2>6, <2>7, <3>3 DEF DocsOK
    <3>4. QED  BY <3>1, <3>2, <3>3
  <2>8. DocsOK'
    BY <1>0, <2>1, <2>3, <2>6, <2>7 DEF DocsOK
  <2>9. QED  BY <2>1, <2>8 DEF FinancialsInv
<1>5. ASSUME NEW ok \in BOOLEAN, CompanyFacts(ok)
      PROVE  FinancialsInv'
  <2> DEFINE Waits(r, i) == docs[r] # Nothing /\ docs[r][i] = Joined
             read == IF ok THEN Filed ELSE Nothing
  <2>1. FactsOK' /\ KeptOK' /\ Filed' = Filed
    BY <1>1, <1>5 DEF CompanyFacts
  <2>2. /\ docs' = [r \in Clients |->
              IF docs[r] = Nothing THEN Nothing
              ELSE [i \in Tag |-> IF Waits(r, i) THEN read ELSE docs[r][i]]]
        /\ missed' = [r \in Clients |-> missed[r] \/ (~ok /\ \E i \in Tag : Waits(r, i))]
        /\ factsKept' = IF ok THEN Filed ELSE factsKept
    BY <1>5 DEF CompanyFacts
  <2>3. read \in Known /\ (read \in Nat => read <= Filed) /\ (read = Nothing => ~ok)
    BY <1>0, MarkersAreNoCounts DEF Known
  <2> HIDE DEF read
  <2>4. ASSUME NEW r \in Clients, docs[r] # Nothing
        PROVE  docs[r] \in [Tag -> Known] /\ docs'[r] \in [Tag -> Known]
    <3>1. docs[r] \in [Tag -> Known]
      BY <1>0, <2>4 DEF DocsOK
    <3>2. docs'[r] = [i \in Tag |-> IF Waits(r, i) THEN read ELSE docs[r][i]]
      BY <2>2, <2>4
    <3>3. QED  BY <2>3, <3>1, <3>2
  <2>5. \A r \in Clients : docs[r] = Nothing => docs'[r] = Nothing
    BY <2>2
  <2>6. docs' \in [Clients -> [Tag -> Known] \cup {Nothing}]
    <3>1. DOMAIN docs' = Clients /\ docs' = [r \in Clients |-> docs'[r]]
      BY <2>2
    <3>2. \A r \in Clients : docs'[r] \in [Tag -> Known] \cup {Nothing}
      BY <2>4, <2>5
    <3>3. QED  BY <3>1, <3>2
  <2>7. ASSUME NEW r \in Clients, docs'[r] # Nothing, NEW i \in Tag
        PROVE  /\ docs'[r][i] \in Nat => docs'[r][i] <= Filed
               /\ docs'[r][i] = Nothing => missed'[r]
    <3>1. docs[r] # Nothing
      BY <2>5, <2>7
    <3>2. docs'[r][i] = IF Waits(r, i) THEN read ELSE docs[r][i]
      BY <2>2, <3>1
    <3>3. CASE Waits(r, i)
      BY <2>2, <2>3, <3>2, <3>3
    <3>4. CASE ~Waits(r, i)
      <4>1. docs'[r][i] = docs[r][i] /\ (missed[r] => missed'[r])
        BY <2>2, <3>2, <3>4
      <4>2. QED  BY <1>0, <3>1, <4>1 DEF DocsOK
    <3>5. QED  BY <3>3, <3>4
  <2>8. missed' \in [Clients -> BOOLEAN]
    BY <1>0, <2>2 DEF DocsOK
  <2>9. factsKept' # Nothing => factsKept' \in 0..Filed
    BY <1>0, <2>2 DEF DocsOK
  <2>10. DocsOK'
    BY <2>1, <2>6, <2>7, <2>8, <2>9 DEF DocsOK
  <2>11. QED  BY <2>1, <2>10 DEF FinancialsInv
<1>6. ASSUME NEW r \in Clients, Fail(r)
      PROVE  FinancialsInv'
  <2>1. FactsOK' /\ KeptOK' /\ Filed' = Filed
    BY <1>1, <1>6 DEF Fail
  <2>2. /\ docs' = [docs EXCEPT ![r] = Nothing] /\ missed' = [missed EXCEPT ![r] = FALSE]
        /\ factsKept' = factsKept
    BY <1>6 DEF Fail, Close
  <2>3. DocsOK'
    BY <1>0, <2>1, <2>2 DEF DocsOK
  <2>4. QED  BY <2>1, <2>3 DEF FinancialsInv
<1>7. ASSUME FactsExpire
      PROVE  FinancialsInv'
  <2>1. FactsOK' /\ KeptOK' /\ Filed' = Filed
    BY <1>1, <1>7 DEF FactsExpire
  <2>2. docs' = docs /\ missed' = missed /\ factsKept' = Nothing
    BY <1>7 DEF FactsExpire
  <2>3. DocsOK'
    BY <1>0, <2>1, <2>2 DEF DocsOK
  <2>4. QED  BY <2>1, <2>3 DEF FinancialsInv
<1>8. ASSUME FinancialsExpire
      PROVE  FinancialsInv'
  <2>1. facts' = facts /\ docs' = docs /\ missed' = missed /\ factsKept' = factsKept
    BY <1>8 DEF FinancialsExpire
  <2>2. FactsOK' /\ Filed' = Filed
    BY <1>0, <2>1 DEF FactsOK, Filed, LastDate, AllFacts, Content
  <2>3. DocsOK'
    BY <1>0, <2>1, <2>2 DEF DocsOK
  <2>4. KeptOK'
    BY <1>8 DEF FinancialsExpire, KeptOK
  <2>5. QED  BY <2>2, <2>3, <2>4 DEF FinancialsInv
<1>9. ASSUME UNCHANGED financialVars
      PROVE  FinancialsInv'
  <2>1. FactsOK' /\ KeptOK' /\ Filed' = Filed
    BY <1>1, <1>9 DEF financialVars
  <2>2. docs' = docs /\ missed' = missed /\ factsKept' = factsKept
    BY <1>9 DEF financialVars
  <2>3. DocsOK'
    BY <1>0, <2>1, <2>2 DEF DocsOK
  <2>4. QED  BY <2>1, <2>3 DEF FinancialsInv
<1>10. ASSUME NEW r \in Clients, AnswerClient(r) PROVE FinancialsInv'
  BY <1>10, AnswerKeeps
<1>11. QED
  BY <1>2, <1>3, <1>4, <1>5, <1>6, <1>7, <1>8, <1>9, <1>10 DEF FinancialsNext

LEMMA FinancialsStart ==
  ASSUME FinancialsInit
  PROVE  FinancialsInv
<1>1. FactsOK
  <2>1. facts = <<>> /\ Filed = 0 /\ LastDate = 0 /\ AllFacts = {}
    BY DEF FinancialsInit, Filed, LastDate, AllFacts, Content
  <2>2. QED  BY <2>1 DEF FactsOK
<1>2. DocsOK
  BY DEF FinancialsInit, DocsOK
<1>3. QED  BY <1>1, <1>2 DEF FinancialsInit, FinancialsInv, KeptOK

\* What was read of a document when less was filed is in it.
LEMMA LaterReadsHaveMore ==
  ASSUME FactsOK, NEW c, NEW m \in Nat, NEW n \in Nat, m <= n
  PROVE  YearsOf(c, m) \subseteq YearsOf(c, n)
<1>1. FactsOf(c, m) \subseteq Reported
  BY DEF FactsOf, FactsOK
<1>2. \A f \in FactsOf(c, m) : f.nth \in Nat /\ f.nth <= m
  BY <1>1, FinancialsAssumption DEF Reported, FactsOf
<1>3. FactsOf(c, m) \subseteq FactsOf(c, n)
  BY <1>2 DEF FactsOf
<1>4. QED  BY <1>3 DEF YearsOf

\* What get_annual_financials keeps is of one reading of each document, however
\* requests, filings and the shared companyfacts fetch interleave.  For a period
\* that alone ends in its year, with one first and one newest report by date, the
\* row is the newest and a revision is told exactly if it differs from the first;
\* every revision told ends on the date of its row, also where several filings
\* have one date; and unless companyfacts failed no concept that reached a later
\* year was passed over.
THEOREM RowsTellWhatWasRevised == FinancialsSpec => []RowsTellRevisions
<1>1. FinancialsInv => RowsTellRevisions
  <2> SUFFICES ASSUME FinancialsInv, keptFinancials # Nothing PROVE RowsTellRevisions
    BY DEF RowsTellRevisions
  <2> DEFINE first == {n \in 0..Filed : \A i \in Tag : keptFinancials.read[i] = Nothing \/ n <= keptFinancials.read[i]}
             years == DOMAIN keptFinancials.rows
  <2>1. FactsOK /\ Told /\ Reached /\ Filed \in Nat
    BY DEF FinancialsInv, KeptOK, FactsOK
  <2>2. ASSUME ~keptFinancials.missed, NEW i \in Tag, NEW y \in YearsOf(Tags[i], Maximum(first))
        PROVE  y <= Maximum(years)
    <3>1. \A j \in Tag : keptFinancials.read[j] \in 0..Filed /\ keptFinancials.read[j] # Nothing
      BY <2>1, <2>2, FinancialsAssumption DEF Reached
    <3>2. 0 \in first /\ first \in SUBSET Nat /\ \A n \in first : n <= Filed
      BY <2>1, <3>1
    <3>3. Maximum(first) \in first
      <4> HIDE DEF first
      <4>1. QED  BY <2>1, <3>2, LargestExists
    <3>4. Maximum(first) \in Nat /\ Maximum(first) <= keptFinancials.read[i]
      <4>1. \A m \in first : m \in Nat /\ m <= keptFinancials.read[i]
        BY <2>1, <3>1
      <4> HIDE DEF first
      <4>2. QED  BY <3>3, <4>1
    <3> HIDE DEF first
    <3>5. y \in YearsOf(Tags[i], keptFinancials.read[i])
      BY <2>1, <2>2, <3>1, <3>4, LaterReadsHaveMore
    <3>6. QED  BY <2>1, <2>2, <3>5 DEF Reached
  <2>3. QED  BY <2>1, <2>2 DEF RowsTellRevisions, Told, ToldOf
<1>2. FinancialsInit => FinancialsInv
  BY FinancialsStart
<1>3. FinancialsInv /\ [FinancialsNext]_financialVars => FinancialsInv'
  BY FinancialsStep
<1>4. QED  BY <1>1, <1>2, <1>3, PTL DEF FinancialsSpec
=============================================================================
