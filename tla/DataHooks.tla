------------------------------ MODULE DataHooks ------------------------------
(***************************************************************************)
(* Where the site applies answers that may arrive out of order: the hooks  *)
(* useFilings and useSection, the cache of watchlistStatus, which several  *)
(* surfaces share, and the search box, which has no guard.  An answer is   *)
(* known by what it was asked for; a failed one changes the status.        *)
(***************************************************************************)
EXTENDS Naturals, Sequences

CONSTANTS
    Forms,        \* values of the form filter
    Keys,         \* keys of a section
    Queries,      \* what is typed into the search box
    MaxRequests,  \* bound: requests of one hook
    Empty         \* no data, no key, no query

ASSUME HooksAssumption == Forms # {}

VARIABLES
    filings,      \* useFilings: [cik, form, requestId, status, shown]
    section,      \* useSection: [key, run, status, shown]
    watched,      \* the cache's promise for a company by number, 0 for none
    watchFresh,   \* it is younger than TTL_MS
    lookups,      \* lookups[i]: "out", or what the i-th lookup of it came to
    search,       \* SearchBar: [query, timer, asked, results]
    pending,      \* requests out by hook: [id, of]
    newest        \* what became of each hook's newest request

hookVars == <<filings, section, watched, watchFresh, lookups, search, pending, newest>>
watchVars == <<watched, watchFresh, lookups>>
requests == <<pending, newest>>

Hook == {"filings", "section", "search"}
AtFirst == [h \in Hook |-> "unasked"]

HooksInit ==
    /\ filings = [cik |-> FALSE, form |-> CHOOSE f \in Forms : TRUE, requestId |-> 0,
                  status |-> "loading", shown |-> Empty]
    /\ section = [key |-> Empty, run |-> 0, status |-> "loading", shown |-> Empty]
    /\ watched = 0 /\ watchFresh = FALSE /\ lookups = <<>>
    /\ search = [query |-> Empty, timer |-> Empty, asked |-> 0, results |-> Empty]
    /\ pending = [h \in Hook |-> {}]
    /\ newest = AtFirst

Send(h, id, of) ==
    /\ id <= MaxRequests
    /\ pending' = [pending EXCEPT ![h] = @ \cup {[id |-> id, of |-> of]}]
    /\ newest' = [newest EXCEPT ![h] = "out"]

\* One request of h is answered, in whatever order, or fails.
Arrives(h, r, ok) ==
    /\ r \in pending[h]
    /\ pending' = [pending EXCEPT ![h] = @ \ {r}]
    /\ newest' = IF \A s \in pending[h] : s.id <= r.id
                 THEN [newest EXCEPT ![h] = IF @ = "out" THEN ok ELSE @] ELSE newest

(***************************************************************************)
(* useFilings                                                              *)
(***************************************************************************)

\* load, from the effect that follows a change of the company, the filter or
\* the retry count; it idles until the company is known.
Load(next) ==
    IF next.cik
    THEN /\ filings' = [next EXCEPT !.requestId = @ + 1]
         /\ Send("filings", filings.requestId + 1, next.form)
    ELSE filings' = next /\ UNCHANGED <<pending, newest>>

CompanyResolved == ~filings.cik /\ Load([filings EXCEPT !.cik = TRUE])

SelectFilter(f) ==
    /\ f # filings.form
    /\ Load([filings EXCEPT !.form = f, !.status = "loading"])

RetryFilings ==
    /\ filings.status = "error"
    /\ Load([filings EXCEPT !.status = "loading"])

\* Mutant: any answer is applied.
FilingsArriveUnchecked(r, ok) ==
    /\ Arrives("filings", r, ok)
    /\ filings' = IF ok = "failed" THEN [filings EXCEPT !.status = "error"]
                  ELSE [filings EXCEPT !.status = "ready", !.shown = r.of]

\* Only the newest request may write.
FilingsArrive(r, ok) ==
    /\ Arrives("filings", r, ok)
    /\ filings' = IF r.id # filings.requestId THEN filings
                  ELSE IF ok = "failed" THEN [filings EXCEPT !.status = "error"]
                  ELSE [filings EXCEPT !.status = "ready", !.shown = r.of]

(***************************************************************************)
(* useSection                                                              *)
(***************************************************************************)

\* The effect: the run before it is cancelled.
Run(next) ==
    /\ section' = [next EXCEPT !.run = @ + 1]
    /\ Send("section", section.run + 1, next.key)

KeyChanges(k) == k # section.key /\ Run([section EXCEPT !.key = k])

RetrySection == section.status = "error" /\ Run([section EXCEPT !.status = "loading"])

SectionArrives(r, ok) ==
    /\ Arrives("section", r, ok)
    /\ section' = IF r.id # section.run THEN section
                  ELSE IF ok = "failed" THEN [section EXCEPT !.status = "error", !.shown = Empty]
                  ELSE [section EXCEPT !.status = "ready", !.shown = r.of]

(***************************************************************************)
(* watchlistStatus, for one company                                        *)
(***************************************************************************)

\* loadWatchStatus of a surface that mounts: a promise younger than the TTL is
\* shared, else a lookup starts.
LoadWatchStatus ==
    /\ watched = 0 \/ ~watchFresh
    /\ Len(lookups) < MaxRequests
    /\ lookups' = Append(lookups, "out")
    /\ watched' = Len(lookups) + 1
    /\ watchFresh' = TRUE

\* fetchStatus: whatever is cached for the company goes if either of its two
\* requests failed, "half" if that was the one for the analyses.
LookupEnds(i, outcome) ==
    /\ lookups[i] = "out"
    /\ lookups' = [lookups EXCEPT ![i] = outcome]
    /\ watched' = IF outcome # "whole" THEN 0 ELSE watched
    /\ UNCHANGED watchFresh

WatchExpires == watchFresh /\ watchFresh' = FALSE /\ UNCHANGED <<watched, lookups>>

(***************************************************************************)
(* SearchBar                                                               *)
(***************************************************************************)

\* handleChange sets the timer anew; an empty box has neither results nor a
\* timer, as clearQuery leaves it.
Type(q) ==
    /\ search' = [search EXCEPT !.query = q, !.timer = q,
                                !.results = IF q = Empty THEN Empty ELSE @]
    /\ UNCHANGED requests

\* handleSelect: the box then holds a name nobody searched for.
Select ==
    /\ search.results # Empty
    /\ search' = [search EXCEPT !.query = Empty, !.timer = Empty]
    /\ UNCHANGED requests

Debounced ==
    /\ search.timer # Empty
    /\ search' = [search EXCEPT !.timer = Empty, !.asked = @ + 1]
    /\ Send("search", search.asked + 1, search.timer)

\* Any answer is applied.
ResultsArrive(r, ok) ==
    /\ Arrives("search", r, ok)
    /\ search' = [search EXCEPT !.results = IF ok = "ok" THEN r.of ELSE Empty]

FilingsStep ==
    \/ CompanyResolved \/ RetryFilings
    \/ \E f \in Forms : SelectFilter(f)
    \/ \E r \in pending["filings"], ok \in {"ok", "failed"} : FilingsArrive(r, ok)

SectionStep ==
    \/ RetrySection
    \/ \E k \in Keys : KeyChanges(k)
    \/ \E r \in pending["section"], ok \in {"ok", "failed"} : SectionArrives(r, ok)

WatchStep ==
    \/ LoadWatchStatus \/ WatchExpires
    \/ \E i \in DOMAIN lookups, outcome \in {"whole", "half", "failed"} : LookupEnds(i, outcome)

SearchStep ==
    \/ Select \/ Debounced
    \/ \E q \in Queries \cup {Empty} : Type(q)
    \/ \E r \in pending["search"], ok \in {"ok", "failed"} : ResultsArrive(r, ok)

HooksNext ==
    \/ FilingsStep /\ UNCHANGED <<section, watchVars, search>>
    \/ SectionStep /\ UNCHANGED <<filings, watchVars, search>>
    \/ WatchStep /\ UNCHANGED <<filings, section, search, requests>>
    \/ SearchStep /\ UNCHANGED <<filings, section, watchVars>>

HooksSpec == HooksInit /\ [][HooksNext]_hookVars

(***************************************************************************)
(* Properties                                                              *)
(***************************************************************************)

\* "Only the newest request may write": once it is answered, the list is the
\* one the filter names, and a failure is not hidden by an older success, in
\* whatever order answers to earlier filters, keys and retries arrive; and no
\* surface is handed a lookup that is known to have failed, although lookups
\* of one company overlap across the TTL.
NewestAnswerStays ==
    /\ newest["filings"] = "ok" => filings.status = "ready" /\ filings.shown = filings.form
    /\ newest["filings"] = "failed" => filings.status = "error"
    /\ newest["section"] = "ok" => section.status = "ready" /\ section.shown = section.key
    /\ newest["section"] = "failed" => section.status = "error"
    /\ watched # 0 => lookups[watched] \in {"out", "whole"}

\* The same of the search box, which has no such guard (refuted).
ResultsOfQuery ==
    newest["search"] = "ok" /\ search.timer = Empty /\ search.query # Empty =>
        search.results = search.query
=============================================================================
