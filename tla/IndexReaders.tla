---------------------------- MODULE IndexReaders ----------------------------
(***************************************************************************)
(* What is read from the Q&A index while it is being built: the drift      *)
(* against the prior filing (routers/analysis.py), a question to one       *)
(* filing, and a question across a company's filings (routers/companies.py *)
(* with services/retrieval.py).  Indexing models how an index grows; here  *)
(* it grows chunk by chunk, by a run of the server (with its in-process    *)
(* record) or by the backfill script (without), and survives a restart.    *)
(* The filings are one company's, of one form, numbered by filing date.    *)
(***************************************************************************)
EXTENDS Integers, FiniteSets

CONSTANTS
    Newest,       \* filings 1..Newest may be analysed
    Size,         \* chunks of a filing
    Drifters,     \* GET /drift requests
    Questioners,  \* POST /ask requests, of a filing or of the company
    MaxFilings,   \* retrieval.MAX_FILINGS
    PerFiling,    \* retrieval.PER_FILING
    K,            \* retrieval.COMPANY_K
    NoDrift

\* "no filing may supply more than half" of the rows (retrieval.py).
ASSUME ReadersAssumption ==
    /\ Newest \in Nat /\ Size \in Nat \ {0} /\ MaxFilings \in Nat
    /\ PerFiling \in Nat \ {0} /\ K \in Nat /\ 2 * PerFiling <= K

Filing == 1..Newest

VARIABLES
    total,        \* total[f]: "none" (no analyses row), "unset" or "set" chunks_expected
    stored,       \* stored[f]: chunks stored, a prefix
    record,       \* record[f]: indexing._status: "none", "indexing" or "over"
    listed,       \* list_cache: the totals of the company's rows, by filing
    keptDrift,    \* drift_cache by <<new, old>>, or NoDrift
    driftAt,      \* driftAt[d]: where a drift request is
    pair,         \* pair[d]: <<new, old>>, 0 for none
    rowTotal,     \* rowTotal[d]: the two rows' totals as it read them
    counted,      \* counted[d]: the two chunk counts, Unread before
    verdict,      \* verdict[d]: whether each index was judged complete
    asking,       \* asking[a]: where a question is
    scope,        \* scope[a]: the filings it is asked of
    sources       \* sources[a]: the chunks <<filing, index>> its answer cites

index == <<total, stored, record>>
drifting == <<driftAt, pair, rowTotal, counted, verdict>>
questions == <<asking, scope, sources>>
readerVars == <<index, listed, keptDrift, drifting, questions>>

Unread == Size + 1
Analysed(totals) == {f \in Filing : totals[f] # "none"}
Whole(f) == stored[f] = Size

\* Some filings are from before chunk totals were stored, indexed in part or
\* in full; the server has just started.
IndexInit ==
    /\ total \in [Filing -> {"none", "unset"}]
    /\ stored \in [Filing -> 0..Size]
    /\ \A f \in Filing : total[f] = "none" => stored[f] = 0

ReadersInit ==
    /\ IndexInit
    /\ record = [f \in Filing |-> "none"]
    /\ listed = [f \in Filing |-> "none"]
    /\ keptDrift = [p \in Filing \X Filing |-> NoDrift]
    /\ driftAt = [d \in Drifters |-> "idle"]
    /\ pair = [d \in Drifters |-> <<0, 0>>]
    /\ rowTotal = [d \in Drifters |-> <<"none", "none">>]
    /\ counted = [d \in Drifters |-> <<Unread, Unread>>]
    /\ verdict = [d \in Drifters |-> <<FALSE, FALSE>>]
    /\ asking = [a \in Questioners |-> "idle"]
    /\ scope = [a \in Questioners |-> {}]
    /\ sources = [a \in Questioners |-> {}]

(***************************************************************************)
(* The index (see Indexing)                                                *)
(***************************************************************************)

\* POST /analysis stores a row with its total, POST /reindex repairs one; both
\* mark the record before the run starts, and their writes clear list_cache.
RunScheduled(f) ==
    /\ record[f] # "indexing"
    /\ total' = [total EXCEPT ![f] = "set"]
    /\ record' = [record EXCEPT ![f] = "indexing"]
    /\ listed' = [g \in Filing |-> "none"]
    /\ UNCHANGED <<stored, keptDrift, drifting, questions>>

\* backfill_chunks.py records the total first; it clears no cache of the server.
ScriptRecords(f) ==
    /\ total[f] = "unset"
    /\ total' = [total EXCEPT ![f] = "set"]
    /\ UNCHANGED <<stored, record, listed, keptDrift, drifting, questions>>

\* A run or the script stores the next chunk.
ChunkStored(f) ==
    /\ total[f] = "set" /\ ~Whole(f)
    /\ stored' = [stored EXCEPT ![f] = @ + 1]
    /\ UNCHANGED <<total, record, listed, keptDrift, drifting, questions>>

\* The run ends, whole or not; its record then holds the total.
RunEnds(f) ==
    /\ record[f] = "indexing"
    /\ record' = [record EXCEPT ![f] = "over"]
    /\ UNCHANGED <<total, stored, listed, keptDrift, drifting, questions>>

\* An entry of list_cache outlives its minute.
ListExpires ==
    /\ Analysed(listed) # {}
    /\ listed' = [f \in Filing |-> "none"]
    /\ UNCHANGED <<index, keptDrift, drifting, questions>>

(***************************************************************************)
(* GET /analysis/{id}/drift                                                *)
(***************************************************************************)

DriftEnds(d) ==
    /\ driftAt' = [driftAt EXCEPT ![d] = "idle"]
    /\ pair' = [pair EXCEPT ![d] = <<0, 0>>]
    /\ rowTotal' = [rowTotal EXCEPT ![d] = <<"none", "none">>]
    /\ counted' = [counted EXCEPT ![d] = <<Unread, Unread>>]
    /\ verdict' = [verdict EXCEPT ![d] = <<FALSE, FALSE>>]

\* get_by_id: the newer row, from the table.
DriftReadsRow(d, f) ==
    /\ driftAt[d] = "idle"
    /\ total[f] # "none"
    /\ driftAt' = [driftAt EXCEPT ![d] = "listing"]
    /\ pair' = [pair EXCEPT ![d] = <<f, 0>>]
    /\ rowTotal' = [rowTotal EXCEPT ![d] = <<total[f], "none">>]
    /\ UNCHANGED <<index, listed, keptDrift, counted, verdict, questions>>

\* drift.pick_prior: the filing before f among those listed, 0 for none.
PickPrior(f, totals) ==
    LET earlier == {g \in Analysed(totals) : g < f}
    IN  IF earlier = {} THEN 0 ELSE CHOOSE g \in earlier : \A h \in earlier : h <= g

\* The history comes from list_cache when it holds one, so the prior row may be
\* up to a minute old.  Without a prior, or with the drift kept, that is all.
DriftPicksPrior(d) ==
    LET history == IF Analysed(listed) # {} THEN listed ELSE total
        f == pair[d][1]
        p == PickPrior(f, history)
    IN  /\ driftAt[d] = "listing"
        /\ listed' = history
        /\ IF p = 0 \/ (p # 0 /\ keptDrift[<<f, p>>] # NoDrift)
           THEN DriftEnds(d)
           ELSE /\ driftAt' = [driftAt EXCEPT ![d] = "judging"]
                /\ pair' = [pair EXCEPT ![d] = <<f, p>>]
                /\ rowTotal' = [rowTotal EXCEPT ![d][2] = history[p]]
                /\ UNCHANGED <<counted, verdict>>
        /\ UNCHANGED <<index, keptDrift, questions>>

\* status_for, run for both filings at once: the count is awaited, then the
\* record is looked at.
DriftCounts(d, i) ==
    /\ driftAt[d] = "judging" /\ counted[d][i] = Unread
    /\ counted' = [counted EXCEPT ![d][i] = stored[pair[d][i]]]
    /\ UNCHANGED <<index, listed, keptDrift, driftAt, pair, rowTotal, verdict, questions>>

\* Mutant: a run under way is not looked at.
StatusCompleteUnrecorded(d, i) ==
    /\ counted[d][i] > 0
    /\ rowTotal[d][i] = "set" /\ record[pair[d][i]] # "indexing" => counted[d][i] = Size

StatusComplete(d, i) ==
    /\ counted[d][i] > 0
    /\ record[pair[d][i]] # "indexing"
    /\ rowTotal[d][i] = "set" \/ record[pair[d][i]] = "over" => counted[d][i] = Size

\* Either is judged: a drift of an incomplete index is not measured.
DriftJudges(d, i) ==
    /\ driftAt[d] = "judging" /\ counted[d][i] # Unread /\ ~verdict[d][i]
    /\ IF StatusComplete(d, i)
       THEN /\ verdict' = [verdict EXCEPT ![d][i] = TRUE]
            /\ UNCHANGED <<driftAt, pair, rowTotal, counted>>
       ELSE DriftEnds(d)
    /\ UNCHANGED <<index, listed, keptDrift, questions>>

\* _measure_drift: the RPC compares what is stored now; only that is kept.
DriftMeasured(d) ==
    LET new == pair[d][1]  old == pair[d][2]
    IN  /\ driftAt[d] = "judging" /\ verdict[d] = <<TRUE, TRUE>>
        /\ keptDrift' = [keptDrift EXCEPT ![pair[d]] =
                            [of |-> <<stored[new], stored[old]>>, known |-> rowTotal[d]]]
        /\ DriftEnds(d)
        /\ UNCHANGED <<index, listed, questions>>

\* A read fails: a 500.
DriftFails(d) ==
    /\ driftAt[d] # "idle"
    /\ DriftEnds(d)
    /\ UNCHANGED <<index, listed, keptDrift, questions>>

(***************************************************************************)
(* POST /ask of a filing, and of a company                                 *)
(***************************************************************************)

Indexed == {f \in Filing : total[f] # "none" /\ stored[f] > 0}

\* company_indexed_filings: the latest that have a chunk.
LatestIndexed ==
    {f \in Indexed : Cardinality({g \in Indexed : g > f}) < MaxFilings}

QuestionEnds(a) ==
    /\ asking' = [asking EXCEPT ![a] = "idle"]
    /\ scope' = [scope EXCEPT ![a] = {}]
    /\ sources' = [sources EXCEPT ![a] = {}]
    /\ UNCHANGED <<index, listed, keptDrift, drifting>>

\* Fewer than two filings are a 404.
AskCompany(a) ==
    /\ asking[a] = "idle"
    /\ Cardinality(LatestIndexed) >= 2
    /\ asking' = [asking EXCEPT ![a] = "company"]
    /\ scope' = [scope EXCEPT ![a] = LatestIndexed]
    /\ UNCHANGED <<index, listed, keptDrift, drifting, sources>>

AskFiling(a, f) ==
    /\ asking[a] = "idle"
    /\ total[f] # "none"
    /\ asking' = [asking EXCEPT ![a] = "filing"]
    /\ scope' = [scope EXCEPT ![a] = {f}]
    /\ UNCHANGED <<index, listed, keptDrift, drifting, sources>>

\* The budget refuses, or the embedding, the RPC or the answer fails, or the
\* answer is sent.
QuestionReplied(a) == asking[a] # "idle" /\ QuestionEnds(a)

ChunksOf(f) == {f} \X (0..stored[f] - 1)

\* match_company_chunks: a filing's PerFiling nearest chunks.
Nearest(f) ==
    {S \in SUBSET ChunksOf(f) :
        Cardinality(S) = IF stored[f] < PerFiling THEN stored[f] ELSE PerFiling}

\* select_balanced under any ranking by similarity: the rows are taken greedily
\* until there are K, but none of a filing that has supplied PerFiling.
Balanced(rows) ==
    LET Supplied(S, f) == Cardinality({r \in S : r[1] = f})
    IN  {S \in SUBSET rows :
            /\ Cardinality(S) <= K
            /\ \A f \in Filing : Supplied(S, f) <= PerFiling
            /\ \/ Cardinality(S) = K
               \/ \A r \in rows \ S : Supplied(S, r[1]) = PerFiling}

Matched(a, rows) ==
    IF rows = {} THEN QuestionEnds(a)      \* a 404
    ELSE /\ asking' = [asking EXCEPT ![a] = "answering"]
         /\ sources' = [sources EXCEPT ![a] = rows]
         /\ UNCHANGED <<index, listed, keptDrift, drifting, scope>>

\* Mutant: rows of filings indexed since are dropped after the selection.
MatchCompanyDropsLate(a) ==
    /\ asking[a] = "company"
    /\ \E rows \in SUBSET (UNION {ChunksOf(f) : f \in LatestIndexed}) :
          /\ \A f \in LatestIndexed : {r \in rows : r[1] = f} \in Nearest(f)
          /\ \E picked \in Balanced(rows) : Matched(a, {r \in picked : r[1] \in scope[a]})

\* A filing indexed since the scope was read is skipped before the selection.
MatchCompany(a) ==
    /\ asking[a] = "company"
    /\ \E rows \in SUBSET (UNION {ChunksOf(f) : f \in LatestIndexed \cap scope[a]}) :
          /\ \A f \in LatestIndexed \cap scope[a] : {r \in rows : r[1] = f} \in Nearest(f)
          /\ \E picked \in Balanced(rows) : Matched(a, picked)

\* match_chunks: the nearest K of the filing's own.
MatchFiling(a) ==
    /\ asking[a] = "filing"
    /\ \E f \in scope[a] : \E rows \in SUBSET ChunksOf(f) :
          /\ Cardinality(rows) = IF stored[f] < K THEN stored[f] ELSE K
          /\ Matched(a, rows)

\* The server restarts: memory and requests are gone.
ServerRestarts ==
    /\ record' = [f \in Filing |-> "none"]
    /\ listed' = [f \in Filing |-> "none"]
    /\ keptDrift' = [p \in Filing \X Filing |-> NoDrift]
    /\ driftAt' = [d \in Drifters |-> "idle"]
    /\ pair' = [d \in Drifters |-> <<0, 0>>]
    /\ rowTotal' = [d \in Drifters |-> <<"none", "none">>]
    /\ counted' = [d \in Drifters |-> <<Unread, Unread>>]
    /\ verdict' = [d \in Drifters |-> <<FALSE, FALSE>>]
    /\ asking' = [a \in Questioners |-> "idle"]
    /\ scope' = [a \in Questioners |-> {}]
    /\ sources' = [a \in Questioners |-> {}]
    /\ UNCHANGED <<total, stored>>

IndexStep(f) ==
    RunScheduled(f) \/ ScriptRecords(f) \/ ChunkStored(f) \/ RunEnds(f)

DriftStep(d) ==
    \/ \E f \in Filing : DriftReadsRow(d, f)
    \/ DriftPicksPrior(d) \/ DriftMeasured(d) \/ DriftFails(d)
    \/ \E i \in {1, 2} : DriftCounts(d, i) \/ DriftJudges(d, i)

QuestionStep(a) ==
    \/ \E f \in Filing : AskFiling(a, f)
    \/ AskCompany(a) \/ MatchCompany(a) \/ MatchFiling(a) \/ QuestionReplied(a)

ReadersNext ==
    \/ \E f \in Filing : IndexStep(f)
    \/ \E d \in Drifters : DriftStep(d)
    \/ \E a \in Questioners : QuestionStep(a)
    \/ ListExpires \/ ServerRestarts

ReadersSpec == ReadersInit /\ [][ReadersNext]_readerVars

(***************************************************************************)
(* Properties                                                              *)
(***************************************************************************)

\* "A partial index would read as drift" and is kept for a day: if the rows a
\* request read had their chunk totals, what it kept compared two whole filings,
\* whatever indexing, restart or stale list fell between its five reads.
KnownDriftOfWhole ==
    \A p \in Filing \X Filing : keptDrift[p] # NoDrift =>
        \A i \in {1, 2} : keptDrift[p].known[i] = "set" => keptDrift[p].of[i] = Size

\* "only a complete index is ever cached" (cache.py), with no condition.
DriftOfWhole ==
    \A p \in Filing \X Filing : keptDrift[p] # NoDrift => keptDrift[p].of = <<Size, Size>>

\* "a question always sees at least two filings when two are indexed"
\* (retrieval.py), although the index grows between the two reads: an answer
\* across filings cites at least two of those it was asked of, and no other.
AcrossFilings ==
    \A a \in Questioners : asking[a] = "answering" =>
        /\ {r[1] : r \in sources[a]} \subseteq scope[a]
        /\ Cardinality(scope[a]) >= 2 => Cardinality({r[1] : r \in sources[a]}) >= 2
=============================================================================
