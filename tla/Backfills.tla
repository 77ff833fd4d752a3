------------------------------- MODULE Backfills -------------------------------
(***************************************************************************)
(* The scripts that fill a column of the analyses stored before it existed *)
(* (scripts/backfill_segments.py, backfill_flags.py, backfill_sic.py): the *)
(* candidates are paged newest first while the site goes on storing, then  *)
(* worked through company by company, any step of which may fail.  A run   *)
(* with --limit or --dry-run promises less and is not followed.            *)
(***************************************************************************)
EXTENDS Integers, FiniteSets

CONSTANTS
    Cik,           \* Cik[a]: company of the a-th analysis to be stored
    Stored,        \* analyses that are there at first
    Page,          \* _PAGE_SIZE
    Unclassified   \* companies without a classification in EDGAR

ASSUME BackfillAssumption == Stored \in Nat /\ Page \in Nat \ {0}

Analysis == DOMAIN Cik

VARIABLES
    column,    \* what is filled: "segments", "flags" or "sic"
    count,     \* analyses stored: 1..count, the newest last
    filled,    \* those with a value in the column
    step,      \* of the script: "off", "paging" or "working"
    every,     \* --all or --force
    atStart,   \* count when it started
    offset,    \* of the next page
    due,       \* analyses read that are still to be worked on
    failed,    \* those that were counted as failures
    code       \* exit code of the last complete or interrupted run

backfillVars == <<column, count, filled, step, every, atStart, offset, due, failed, code>>

BackfillInit ==
    /\ column \in {"segments", "flags", "sic"}
    /\ count = Stored
    /\ filled \in SUBSET (1..Stored)
    /\ step = "off" /\ every = FALSE /\ atStart = 0 /\ offset = 0 /\ due = {} /\ failed = {}
    /\ code = "none"

OfCompany(c, among) == {a \in among : Cik[a] = c}

\* The site stores an analysis, with a value for the column or without.
StoreAnalysis ==
    /\ count + 1 \in Analysis
    /\ count' = count + 1
    /\ filled' \in {filled, filled \cup {count + 1}}
    /\ column = "sic" /\ Cik[count + 1] \in Unclassified => filled' = filled
    /\ UNCHANGED <<column, step, every, atStart, offset, due, failed, code>>

StartBackfill ==
    /\ step = "off"
    /\ step' = "paging" /\ every' \in BOOLEAN /\ atStart' = count /\ offset' = 0 /\ due' = {} /\ failed' = {}
    /\ code' = "none"
    /\ UNCHANGED <<column, count, filled>>

\* Mutant: the total is the first page's.
LastPageOfFirst(next) == next >= atStart

\* list_analyses gives the total along with each page.
LastPage(next) == next >= count

\* A page of _load_candidates, by created_at descending; flags reads every row
\* again, the others with --all or --force.
ReadPage ==
    LET page == {a \in 1..count : count - a \in offset..(offset + Page - 1)}
    IN  /\ step = "paging"
        /\ due' = due \cup (IF every \/ column = "flags" THEN page ELSE page \ filled)
        /\ offset' = offset + Cardinality(page)
        /\ step' = IF page = {} \/ LastPage(offset') THEN "working" ELSE "paging"
        /\ UNCHANGED <<column, count, filled, every, atStart, failed, code>>

\* The submissions feed, or the profile, of a company cannot be read.
CompanyFails(c) ==
    LET rows == OfCompany(c, due)
    IN  /\ step = "working" /\ rows # {}
        /\ due' = due \ rows /\ failed' = failed \cup rows
        /\ UNCHANGED <<column, count, filled, step, every, atStart, offset, code>>

\* A filing is read and its row updated, or any of it fails.
FillRow(a, ok) ==
    /\ step = "working" /\ column # "sic" /\ a \in due
    /\ due' = due \ {a}
    /\ IF ok THEN filled' = filled \cup {a} /\ UNCHANGED failed
             ELSE failed' = failed \cup {a} /\ UNCHANGED filled
    /\ UNCHANGED <<column, count, step, every, atStart, offset, code>>

\* set_company_profile writes to all rows of the company there are.
FillCompany(c) ==
    LET rows == OfCompany(c, due)
    IN  /\ step = "working" /\ column = "sic" /\ rows # {}
        /\ due' = due \ rows
        /\ filled' = IF c \in Unclassified THEN filled ELSE filled \cup OfCompany(c, 1..count)
        /\ UNCHANGED <<column, count, step, every, atStart, offset, failed, code>>

EndBackfill ==
    /\ step = "working" /\ due = {}
    /\ step' = "off"
    /\ code' = IF failed # {} THEN "1" ELSE "0"
    /\ UNCHANGED <<column, count, filled, every, atStart, offset, due, failed>>

Interrupted ==
    /\ step # "off" /\ step' = "off" /\ due' = {} /\ code' = "130"
    /\ UNCHANGED <<column, count, filled, every, atStart, offset, failed>>

BackfillNext ==
    \/ StoreAnalysis \/ StartBackfill \/ ReadPage \/ EndBackfill \/ Interrupted
    \/ \E c \in {Cik[a] : a \in Analysis} : CompanyFails(c) \/ FillCompany(c)
    \/ \E a \in Analysis, ok \in BOOLEAN : FillRow(a, ok)

BackfillSpec == BackfillInit /\ [][BackfillNext]_backfillVars

(***************************************************************************)
(* Properties                                                              *)
(***************************************************************************)

\* A backfill that reports success has left no analysis behind that was stored
\* when it started, whatever the site stored and shifted between its pages and
\* whichever runs failed or were interrupted before; only companies that EDGAR
\* does not classify stay without.
DoneMeansFilled ==
    code = "0" =>
        \A a \in 1..atStart : a \in filled \/ (column = "sic" /\ Cik[a] \in Unclassified)
=============================================================================
