------------------------------ MODULE Financials ------------------------------
(***************************************************************************)
(* GET /api/financials/{cik} for one filer (routers/financials.py,         *)
(* services/xbrl.py): one document per candidate concept, fetched          *)
(* concurrently; companyfacts in their place, shared between fetches, for  *)
(* a filer whose documents come empty; the series by calendar year of the  *)
(* period's end, its selection and its revisions.  Revenue stands for the  *)
(* fifteen series.  Several filings may be filed on one date.              *)
(***************************************************************************)
EXTENDS Naturals, Sequences, FiniteSets

CONSTANTS
    Clients,     \* requests under way
    Tags,        \* the candidate concepts, in order
    EndYear,     \* EndYear[p]: the calendar year in which fiscal period p ends
    Original, Figures,  \* the value a period is first reported at, and later ones
    MaxFiled,    \* bound: annual reports and amendments
    Accession,   \* Accession[n]: the accession number of the n-th filing
    Nothing,
    Awaiting, Joined    \* a document awaited, and companyfacts in its place

\* Fiscal periods end one after the other, and a marker is no count of filings.
ASSUME FinancialsAssumption ==
    /\ Len(Tags) \in Nat /\ DOMAIN Tags = 1..Len(Tags)
    /\ EndYear \in Seq(Nat)
    /\ \A p, q \in DOMAIN EndYear : p <= q => EndYear[p] <= EndYear[q]
    /\ MaxFiled \in Nat /\ Accession \in [1..MaxFiled -> Nat]
    /\ \A m, n \in 1..MaxFiled : Accession[m] = Accession[n] => m = n
    /\ {Nothing, Awaiting, Joined} \cap Nat = {} /\ Nothing \notin {Awaiting, Joined}

Tag == DOMAIN Tags
FiscalPeriod == DOMAIN EndYear

\* A document is known by how much had been filed when it was read, and is Nothing
\* if companyfacts could not be read; that of a concept never tagged has no facts.
Pending == {Awaiting, Joined}

VARIABLES
    facts,      \* EDGAR's tagged annual figures, in order of filing
    hollow,     \* companyconcept answers for the filer without any facts
    docs,       \* docs[r]: the documents of request r by concept, or Nothing
    inflight,   \* _facts_inflight holds a task
    factsKept,  \* company_facts_cache, or Nothing
    missed,     \* missed[r]: the fallback failed for r
    keptFinancials  \* financials_cache, or Nothing

financialVars == <<facts, hollow, docs, inflight, factsKept, missed, keptFinancials>>

FinancialsInit ==
    /\ facts = <<>>
    /\ hollow \in BOOLEAN
    /\ docs = [r \in Clients |-> Nothing]
    /\ inflight = FALSE /\ factsKept = Nothing
    /\ missed = [r \in Clients |-> FALSE]
    /\ keptFinancials = Nothing

\* How much has been filed, when last, and up to which period.
Filed == IF facts = <<>> THEN 0 ELSE facts[Len(facts)].nth
LastDate == IF facts = <<>> THEN 0 ELSE facts[Len(facts)].filed
LatestPeriod == IF facts = <<>> THEN 0 ELSE facts[Len(facts)].period

\* External: a 10-K tags its year and the year before it, and a 10-K/A the same
\* again; a year that was tagged before may be restated.  Either report may move
\* to another concept, and may be filed on the date of the one before it.  What
\* it says of a period it says at one value: nth is the filing, filed its date.
Report(c, p, restated, date) ==
    /\ Filed < MaxFiled /\ p \in FiscalPeriod /\ p \in {LatestPeriod, LatestPeriod + 1}
    /\ LET Fact(q) == [tag |-> c, period |-> q, nth |-> Filed + 1, filed |-> date,
                       val |-> IF q > LatestPeriod THEN Original ELSE restated]
       IN  facts' = facts \o (IF p > 1 THEN <<Fact(p - 1)>> ELSE <<>>) \o <<Fact(p)>>
    /\ UNCHANGED <<hollow, docs, inflight, factsKept, missed, keptFinancials>>

\* The facts of concept c in a document read when n was filed.
FactsOf(c, n) == {f \in {facts[i] : i \in DOMAIN facts} : f.tag = c /\ f.nth <= n}
YearsOf(c, n) == {EndYear[f.period] : f \in FactsOf(c, n)}

\* A document lists its facts by the period's end, and those of a period as filed.
ComesFirst(f, g) == f.period < g.period \/ (f.period = g.period /\ f.nth <= g.nth)

\* Mutant: the first report of a year is kept.
WinnerFirst(c, n, y) ==
    CHOOSE f \in FactsOf(c, n) :
        /\ EndYear[f.period] = y
        /\ \A g \in FactsOf(c, n) : EndYear[g.period] = y => f.nth <= g.nth

\* _annual_facts: the latest date wins, and of the facts of one date the one that
\* comes first in the document.
Winner(c, n, y) ==
    CHOOSE f \in FactsOf(c, n) :
        /\ EndYear[f.period] = y
        /\ \A g \in FactsOf(c, n) :
              EndYear[g.period] = y =>
                  f.filed > g.filed \/ (f.filed = g.filed /\ ComesFirst(f, g))

Maximum(S) == CHOOSE y \in S : \A z \in S : z <= y

\* _select_series: the candidate that reaches the latest year, then the broader,
\* then the earlier in order; 0 if none has any value.
Selected(read) ==
    LET Years(i) == IF read[i] = Nothing THEN {} ELSE YearsOf(Tags[i], read[i])
        Beats(i, j) ==
            LET a == Maximum(Years(i))  b == Maximum(Years(j))
                m == Cardinality(Years(i))  n == Cardinality(Years(j))
            IN  a > b \/ (a = b /\ (m > n \/ (m = n /\ i < j)))
        With == {i \in Tag : Years(i) # {}}
    IN  IF With = {} THEN 0 ELSE CHOOSE i \in With : \A j \in With \ {i} : Beats(i, j)

\* _revisions: a period's first and last report in one document by date and, on
\* one date, by accession number, if they differ in value.
Precedes(f, g) ==
    f.filed < g.filed \/ (f.filed = g.filed /\ Accession[f.nth] <= Accession[g.nth])

RevisionsOf(c, n) ==
    {rev \in FactsOf(c, n) \X FactsOf(c, n) :
        /\ rev[1].period = rev[2].period /\ rev[1].val # rev[2].val
        /\ \A h \in FactsOf(c, n) :
              h.period = rev[1].period => Precedes(rev[1], h) /\ Precedes(h, rev[2])}

Open(r) ==
    /\ docs[r] = Nothing /\ keptFinancials = Nothing
    /\ docs' = [docs EXCEPT ![r] = [i \in Tag |-> Awaiting]]
    /\ UNCHANGED <<facts, hollow, inflight, factsKept, missed, keptFinancials>>

\* _fetch_concept, and _company_facts where the document has no facts.
FetchConcept(r, i) ==
    LET Read(d) == docs' = [docs EXCEPT ![r][i] = d]
    IN  /\ docs[r] # Nothing /\ docs[r][i] = Awaiting
        /\ IF ~hollow
           THEN Read(Filed) /\ UNCHANGED inflight
           ELSE IF factsKept # Nothing THEN Read(factsKept) /\ UNCHANGED inflight
           ELSE Read(Joined) /\ inflight' = TRUE
        /\ UNCHANGED <<facts, hollow, factsKept, missed, keptFinancials>>

\* The shared companyfacts response; {} to all that joined it when it fails.
CompanyFacts(ok) ==
    LET Waits(r, i) == docs[r] # Nothing /\ docs[r][i] = Joined
        read == IF ok THEN Filed ELSE Nothing
    IN  /\ inflight /\ inflight' = FALSE
        /\ docs' = [r \in Clients |->
              IF docs[r] = Nothing THEN Nothing
              ELSE [i \in Tag |-> IF Waits(r, i) THEN read ELSE docs[r][i]]]
        /\ missed' = [r \in Clients |-> missed[r] \/ (~ok /\ \E i \in Tag : Waits(r, i))]
        /\ factsKept' = IF ok THEN Filed ELSE factsKept
        /\ UNCHANGED <<facts, hollow, keptFinancials>>

Close(r) == docs' = [docs EXCEPT ![r] = Nothing] /\ missed' = [missed EXCEPT ![r] = FALSE]

\* get_annual_financials: the rows by year, each with its period's end, and the
\* revisions of the selected document; kept if there are any rows.
AnswerClient(r) ==
    LET i == Selected(docs[r])
        Rows == [y \in YearsOf(Tags[i], docs[r][i]) |-> Winner(Tags[i], docs[r][i], y)]
    IN  /\ docs[r] # Nothing /\ \A j \in Tag : docs[r][j] \notin Pending
        /\ Close(r)
        /\ keptFinancials' = IF i = 0 THEN keptFinancials
                   ELSE [rows |-> Rows,
                         concept |-> i, revisions |-> RevisionsOf(Tags[i], docs[r][i]),
                         read |-> docs[r], missed |-> missed[r]]
        /\ UNCHANGED <<facts, hollow, inflight, factsKept>>

\* An error other than 404 fails the request; what it joined goes on.
Fail(r) ==
    /\ docs[r] # Nothing /\ \E i \in Tag : docs[r][i] = Awaiting
    /\ Close(r)
    /\ UNCHANGED <<facts, hollow, inflight, factsKept, keptFinancials>>

FactsExpire ==
    /\ factsKept # Nothing /\ factsKept' = Nothing
    /\ UNCHANGED <<facts, hollow, docs, inflight, missed, keptFinancials>>

FinancialsExpire ==
    /\ keptFinancials # Nothing /\ keptFinancials' = Nothing
    /\ UNCHANGED <<facts, hollow, docs, inflight, factsKept, missed>>

FinancialsNext ==
    \/ \E i \in Tag, p \in FiscalPeriod, v \in Figures :
          \E date \in {LastDate, LastDate + 1} \ {0} : Report(Tags[i], p, v, date)
    \/ \E r \in Clients : Open(r) \/ AnswerClient(r) \/ Fail(r)
    \/ \E r \in Clients, i \in Tag : FetchConcept(r, i)
    \/ \E ok \in BOOLEAN : CompanyFacts(ok)
    \/ FactsExpire \/ FinancialsExpire

FinancialsSpec == FinancialsInit /\ [][FinancialsNext]_financialVars

(***************************************************************************)
(* Properties                                                              *)
(***************************************************************************)

\* What is kept of the selected concept, its facts as they were read.
KeptFacts == FactsOf(Tags[keptFinancials.concept], keptFinancials.read[keptFinancials.concept])
AloneInYear(p) == \A q \in FiscalPeriod : EndYear[q] = EndYear[p] => q = p
\* f is the only report of its period on the earliest date, g on the latest.
FirstByDate(f, S) == \A h \in S : h.period = f.period => h = f \/ f.filed < h.filed
LastByDate(g, S) == \A h \in S : h.period = g.period => h = g \/ h.filed < g.filed

\* What is kept is of one reading of the filer's history, with filings arriving
\* between the fetches of a request and documents shared between requests.  For a
\* period that alone ends in its year: the row is its newest report, and a
\* revision is told exactly if that differs from the first, where one filing is
\* the first and one the newest by date; and any revision that is told ends on the
\* date of the row, although reports of one date are ordered in two ways.  And
\* unless companyfacts failed, no candidate that had reached a later year when
\* the first document was read is passed over.
RowsTellRevisions ==
    keptFinancials # Nothing =>
        LET rows == keptFinancials.rows
            first == {n \in 0..Filed : \A i \in Tag : keptFinancials.read[i] = Nothing \/ n <= keptFinancials.read[i]}
        IN  /\ \A f, g \in KeptFacts :
                  /\ f.period = g.period /\ AloneInYear(g.period)
                  /\ FirstByDate(f, KeptFacts) /\ LastByDate(g, KeptFacts)
                  => /\ rows[EndYear[g.period]] = g
                     /\ <<f, g>> \in keptFinancials.revisions <=> f.val # g.val
            /\ \A rev \in keptFinancials.revisions :
                  AloneInYear(rev[2].period) =>
                      /\ EndYear[rev[2].period] \in DOMAIN rows
                      /\ rows[EndYear[rev[2].period]].filed = rev[2].filed
            /\ ~keptFinancials.missed =>
                  \A i \in Tag : \A y \in YearsOf(Tags[i], Maximum(first)) : y <= Maximum(DOMAIN rows)

\* "`_annual_values` keeps the latest `filed` and drops the rest; those dropped
\* facts are the only free record of a company revising itself" (xbrl.py,
\* _revisions): the value a revision ends at is the one that was kept, that of its
\* year's row, where no other period ends in the year.
RevisionsEndAtRow ==
    keptFinancials # Nothing =>
        \A rev \in keptFinancials.revisions :
            AloneInYear(rev[2].period) =>
                keptFinancials.rows[EndYear[rev[2].period]].val = rev[2].val

\* "returns every tagged fiscal year" (xbrl.py): every period that the selected
\* concept has is a row of what is kept.
EveryFiscalYear ==
    keptFinancials # Nothing =>
        LET i == Selected(keptFinancials.read)
        IN  \A f \in FactsOf(Tags[i], keptFinancials.read[i]) :
                \E y \in DOMAIN keptFinancials.rows : keptFinancials.rows[y].period = f.period
=============================================================================
