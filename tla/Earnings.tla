------------------------------ MODULE Earnings ------------------------------
(***************************************************************************)
(* Summaries of an earnings release: POST /companies/{cik}/earnings/{acc}  *)
(* finds the stored summary or pays for one and stores it, and GET         *)
(* /companies/{cik}/earnings lists a company's through earnings_cache      *)
(* (routers/companies.py, services/database.py).  One release is modelled; *)
(* EDGAR lists a joint filing under each of its registrants.               *)
(***************************************************************************)
CONSTANTS
    Registrants,    \* the companies whose recent 8-Ks list the release
    Summarizers,    \* POST requests
    Listers,        \* GET requests
    NoSummary

\* No company has the name of nobody.
ASSUME EarningsAssumption == NoSummary \notin Registrants

VARIABLES
    summary,     \* earnings_summaries: the cik of the release's row, or NoSummary
    keptList,    \* earnings_cache[c]: "none", or whether the list has the summary
    sumAt,       \* sumAt[s]: where a POST is
    sumFor,      \* sumFor[s]: the company it names
    found,       \* found[s]: the row as it was when s began
    reply,       \* reply[s]: the row it answers with
    listAt,      \* listAt[l]: where a GET is
    listRead     \* listRead[l]: <<company, whether its list has the summary>>

store == <<summary, keptList>>
posts == <<sumAt, sumFor, found, reply>>
gets == <<listAt, listRead>>
earningsVars == <<store, posts, gets>>

EarningsInit ==
    /\ summary = NoSummary
    /\ keptList = [c \in Registrants |-> "none"]
    /\ sumAt = [s \in Summarizers |-> "idle"]
    /\ sumFor = [s \in Summarizers |-> NoSummary]
    /\ found = [s \in Summarizers |-> NoSummary]
    /\ reply = [s \in Summarizers |-> NoSummary]
    /\ listAt = [l \in Listers |-> "idle"]
    /\ listRead = [l \in Listers |-> <<NoSummary, FALSE>>]

\* What a read of the table returns for company c.
Listed(c) == summary = c

SumGoes(s, from, to) ==
    /\ sumAt[s] = from
    /\ sumAt' = [sumAt EXCEPT ![s] = to]
    /\ UNCHANGED <<keptList, sumFor, found, gets>>

Answers(s, from, row) ==
    /\ SumGoes(s, from, "answered")
    /\ reply' = [reply EXCEPT ![s] = row]

BeginSummary(s, c) ==
    /\ sumAt[s] = "idle"
    /\ sumAt' = [sumAt EXCEPT ![s] = "looking"]
    /\ sumFor' = [sumFor EXCEPT ![s] = c]
    /\ found' = [found EXCEPT ![s] = summary]
    /\ UNCHANGED <<store, reply, gets>>

\* get_earnings_summary: a stored row of this company is the answer.
LookUpSummary(s) ==
    /\ \/ summary = sumFor[s] /\ Answers(s, "looking", summary)
       \/ summary # sumFor[s] /\ SumGoes(s, "looking", "checking") /\ UNCHANGED reply
    /\ UNCHANGED summary

\* The free checks have passed and require_quota spends a unit.
PayForSummary(s) ==
    /\ SumGoes(s, "checking", "paid")
    /\ UNCHANGED <<summary, reply>>

\* summarize_earnings answers.
Summarized(s) ==
    /\ SumGoes(s, "paid", "storing")
    /\ UNCHANGED <<summary, reply>>

\* Mutant: a row that is already there is overwritten.
InsertSummaryUpserts(s) ==
    /\ SumGoes(s, "storing", "stored")
    /\ summary' = sumFor[s]
    /\ UNCHANGED reply

\* create_earnings_summary: the insert, or the row that was there first.
InsertSummary(s) ==
    \/ /\ summary = NoSummary
       /\ SumGoes(s, "storing", "stored")
       /\ summary' = sumFor[s]
       /\ UNCHANGED reply
    \/ /\ summary # NoSummary
       /\ Answers(s, "storing", summary)
       /\ UNCHANGED summary

\* earnings_cache.discard, from the worker thread that inserted.
DiscardList(s) ==
    /\ sumAt[s] = "stored"
    /\ sumAt' = [sumAt EXCEPT ![s] = "answered"]
    /\ reply' = [reply EXCEPT ![s] = sumFor[s]]
    /\ keptList' = [keptList EXCEPT ![sumFor[s]] = "none"]
    /\ UNCHANGED <<summary, sumFor, found, gets>>

\* A check refuses (404, 422, 502), the budget (503) or the model (502, 503)
\* does, the insert fails or is applied with its answer lost (500), or the
\* answer is sent.
SummaryEnds(s) ==
    /\ sumAt[s] \notin {"idle", "stored"}
    /\ \/ UNCHANGED summary
       \/ sumAt[s] = "storing" /\ summary = NoSummary /\ summary' = sumFor[s]
    /\ sumAt' = [sumAt EXCEPT ![s] = "idle"]
    /\ sumFor' = [sumFor EXCEPT ![s] = NoSummary]
    /\ found' = [found EXCEPT ![s] = NoSummary]
    /\ reply' = [reply EXCEPT ![s] = NoSummary]
    /\ UNCHANGED <<keptList, gets>>

\* list_earnings_summaries, when the list is not kept: the query is sent, it is
\* answered, and the answer is kept.
QueryList(l, c) ==
    /\ listAt[l] = "idle" /\ keptList[c] = "none"
    /\ listAt' = [listAt EXCEPT ![l] = "reading"]
    /\ listRead' = [listRead EXCEPT ![l] = <<c, Listed(c)>>]
    /\ UNCHANGED <<store, posts>>

\* The read may fail (502), or is kept.
KeepList(l) ==
    /\ listAt[l] = "reading"
    /\ \/ UNCHANGED keptList
       \/ keptList' = [keptList EXCEPT ![listRead[l][1]] =
                          IF listRead[l][2] THEN "with" ELSE "without"]
    /\ listAt' = [listAt EXCEPT ![l] = "idle"]
    /\ listRead' = [listRead EXCEPT ![l] = <<NoSummary, FALSE>>]
    /\ UNCHANGED <<summary, posts>>

KeptListExpires(c) ==
    /\ keptList[c] # "none"
    /\ keptList' = [keptList EXCEPT ![c] = "none"]
    /\ UNCHANGED <<summary, posts, gets>>

EarningsNext ==
    \/ \E s \in Summarizers :
          \/ \E c \in Registrants : BeginSummary(s, c)
          \/ LookUpSummary(s) \/ PayForSummary(s) \/ Summarized(s)
          \/ InsertSummary(s) \/ DiscardList(s) \/ SummaryEnds(s)
    \/ \E l \in Listers : (\E c \in Registrants : QueryList(l, c)) \/ KeepList(l)
    \/ \E c \in Registrants : KeptListExpires(c)

EarningsSpec == EarningsInit /\ [][EarningsNext]_earningsVars

(***************************************************************************)
(* Properties                                                              *)
(***************************************************************************)

\* Requests for one release race between the lookup and the insert, and lists
\* are read and kept meanwhile: whoever is answered is answered with the row
\* that is stored, and no kept list shows a summary that is not.
AnsweredAsStored ==
    /\ \A s \in Summarizers : sumAt[s] = "answered" => reply[s] = summary
    /\ \A c \in Registrants : keptList[c] = "with" => Listed(c)

\* "Summarize one 8-K item 2.02 earnings release, once per release, ever"
\* (companies.py): a request that finds a summary of the release stored pays
\* for none.
PaidOncePerRelease ==
    \A s \in Summarizers : sumAt[s] = "paid" => found[s] = NoSummary
=============================================================================
