------------------------------ MODULE EdgarReads ------------------------------
(***************************************************************************)
(* The reads of src/backend/app/services/edgar.py that gather several      *)
(* EDGAR calls into one answer and keep it for hours: the peers of an      *)
(* industry, the insider trades and the executive pay of a company.        *)
(* Readers run concurrently and share the kept answers and the ticker map; *)
(* nothing makes two of them share a call.  A call is one step, as         *)
(* EdgarCall promises.  EDGAR's feed of an industry goes by name, page by  *)
(* page, and filers enter and leave it while its pages are read.           *)
(***************************************************************************)
EXTENDS Naturals, FiniteSets

CONSTANTS
    Askers,      \* requests under way
    Company,     \* the filers that may be of the industry, numbered by name
    PageLength,  \* how many of them EDGAR puts on a page
    Parts,       \* what a gather fetches: the pages after page 0, the Form 4s
    NoAnswer

ASSUME ReadsAssumption ==
    /\ Company \subseteq Nat /\ IsFiniteSet(Company)
    /\ PageLength \in Nat \ {0}
    /\ Parts \subseteq Nat \ {0}

Subjects == {"peers", "insiders", "pay"}

VARIABLES
    mapLoaded,   \* edgar.py's _ticker_map and _cik_index are filled
    keptRead,    \* peers_cache, insiders_cache, pay_cache: what is kept, if any
    readAt,      \* readAt[r]: where request r is
    subject,     \* subject[r]: what it reads
    part,        \* part[r][p]: how a gathered call of r went
    feed,        \* the filers that EDGAR lists under the industry
    got,         \* got[r]: the filers or Form 4s that r has read
    due          \* (ghost) due[r]: what r's answer owes: the filers within the
                 \* scan's depth that never changed page since it began, the
                 \* Form 4s of the window, the table of a tagged proxy

readVars == <<mapLoaded, keptRead, readAt, subject, part, feed, got, due>>

Page(listed, k) ==
    {c \in listed : /\ k * PageLength <= Cardinality({d \in listed : d < c})
                    /\ Cardinality({d \in listed : d < c}) < (k + 1) * PageLength}

\* What the scan can reach: _PEERS_MAX_PAGES pages.
InDepth(listed) == UNION {Page(listed, k) : k \in Parts \cup {0}}

\* A proxy's table, for the pay.
Table == 0

NoParts == [p \in Parts |-> "unasked"]

ReadsInit ==
    /\ mapLoaded \in BOOLEAN          \* the load at startup may have failed
    /\ keptRead = [s \in Subjects |-> NoAnswer]
    /\ readAt = [r \in Askers |-> "idle"]
    /\ subject = [r \in Askers |-> "none"]
    /\ part = [r \in Askers |-> NoParts]
    /\ feed \in SUBSET Company
    /\ got = [r \in Askers |-> {}]
    /\ due = [r \in Askers |-> {}]

Move(r, where) ==
    /\ readAt' = [readAt EXCEPT ![r] = where]
    /\ UNCHANGED <<subject, part, feed, got, due>>

Reply(r) ==
    /\ readAt' = [readAt EXCEPT ![r] = "idle"]
    /\ subject' = [subject EXCEPT ![r] = "none"]
    /\ part' = [part EXCEPT ![r] = NoParts]
    /\ got' = [got EXCEPT ![r] = {}]
    /\ due' = [due EXCEPT ![r] = {}]
    /\ UNCHANGED feed

\* What is kept, by what it lacks of what it owes and by the ticker map.
Keep(s, owed, items, ranked) ==
    keptRead' = [keptRead EXCEPT ![s] = [lacks |-> owed \ items, ranked |-> ranked]]

\* Mutant: whatever was gathered is kept.
FinishAlwaysKeeps(r, owed, items, missing, ranked) ==
    /\ Reply(r)
    /\ Keep(subject[r], owed, items, ranked)
    /\ UNCHANGED mapLoaded

\* An answer of the items read: it is kept unless a call failed.  Peers are the
\* companies read that the ticker map knows, all of these if it is filled (ranked)
\* and none if it is empty.
Finish(r, owed, items, missing, ranked) ==
    /\ Reply(r)
    /\ IF missing # {} THEN UNCHANGED keptRead ELSE Keep(subject[r], owed, items, ranked)
    /\ UNCHANGED mapLoaded

\* The endpoint is called: get_company_peers needs the filer's industry first,
\* the others look their cache up at once.
Request(r, s) ==
    /\ readAt[r] = "idle"
    /\ s = "peers" \/ keptRead[s] = NoAnswer
    /\ readAt' = [readAt EXCEPT ![r] = IF s = "peers" THEN "profile" ELSE "submissions"]
    /\ subject' = [subject EXCEPT ![r] = s]
    /\ UNCHANGED <<mapLoaded, keptRead, part, feed, got, due>>

\* A failed call that ends the request (a 502), or a filer that EDGAR never
\* classified and that has no peers (a 200).
Ends(r) ==
    /\ readAt[r] \in {"profile", "submissions", "instance", "folder"}
    /\ Reply(r)
    /\ UNCHANGED <<mapLoaded, keptRead>>

Profiled(r) ==
    /\ readAt[r] = "profile"
    /\ Move(r, "map")
    /\ UNCHANGED <<mapLoaded, keptRead>>

\* ensure_ticker_map: a failed load is logged and its result not looked at.
\* Then get_peers looks its cache up.
MapEnsured(r) ==
    /\ readAt[r] = "map"
    /\ \/ mapLoaded' = TRUE
       \/ ~mapLoaded /\ UNCHANGED mapLoaded
    /\ IF keptRead["peers"] # NoAnswer THEN Reply(r) ELSE Move(r, "first")
    /\ UNCHANGED keptRead

\* The first page of _scan_sic: a short one is the whole industry, a full one
\* calls for the rest.
FirstPage(r) ==
    /\ readAt[r] = "first"
    /\ \/ /\ Cardinality(Page(feed, 0)) < PageLength
          /\ Finish(r, InDepth(feed), Page(feed, 0), {}, mapLoaded)
       \/ /\ Cardinality(Page(feed, 0)) >= PageLength
          /\ readAt' = [readAt EXCEPT ![r] = "gather"]
          /\ part' = [part EXCEPT ![r] = [p \in Parts |-> "open"]]
          /\ got' = [got EXCEPT ![r] = Page(feed, 0)]
          /\ due' = [due EXCEPT ![r] = InDepth(feed)]
          /\ UNCHANGED <<mapLoaded, keptRead, subject, feed>>

\* The first page failed, or the whole scan took too long: no peers, not kept.
ScanFails(r) ==
    /\ \/ readAt[r] = "first"
       \/ readAt[r] = "gather" /\ subject[r] = "peers"
    /\ Reply(r)
    /\ UNCHANGED <<mapLoaded, keptRead>>

\* return_exceptions: one failure ends neither the gather nor the others.
PartEnds(r, p) ==
    /\ readAt[r] = "gather" /\ part[r][p] = "open"
    /\ \/ /\ part' = [part EXCEPT ![r][p] = "ok"]
          /\ got' = [got EXCEPT ![r] =
                         @ \cup (IF subject[r] = "peers" THEN Page(feed, p) ELSE {p})]
       \/ /\ part' = [part EXCEPT ![r][p] = "failed"]
          /\ UNCHANGED got
    /\ UNCHANGED <<mapLoaded, keptRead, readAt, subject, feed, due>>

\* The feed is intersected with the map; the trades are added up.
Gathered(r) ==
    /\ readAt[r] = "gather" /\ \A p \in Parts : part[r][p] # "open"
    /\ Finish(r, due[r], got[r], {p \in Parts : part[r][p] = "failed"},
              subject[r] = "peers" => mapLoaded)

\* get_filings lists Form 4s, maybe none, for the insiders; for the pay no
\* proxy, or the newest one, with a table or without.
Submissions(r) ==
    /\ readAt[r] = "submissions"
    /\ \/ /\ subject[r] = "insiders"
          /\ readAt' = [readAt EXCEPT ![r] = "gather"]
          /\ \E listed \in SUBSET Parts :
                /\ part' = [part EXCEPT ![r] =
                               [p \in Parts |-> IF p \in listed THEN "open" ELSE "unasked"]]
                /\ due' = [due EXCEPT ![r] = listed]
          /\ UNCHANGED <<mapLoaded, keptRead, subject, feed, got>>
       \/ /\ subject[r] = "pay"
          /\ Finish(r, {}, {}, {}, TRUE)
       \/ /\ subject[r] = "pay"
          /\ readAt' = [readAt EXCEPT ![r] = "instance"]
          /\ \E owed \in {{}, {Table}} : due' = [due EXCEPT ![r] = owed]
          /\ UNCHANGED <<mapLoaded, keptRead, subject, part, feed, got>>

\* _find_proxy_instance: the instance, or after a 404 the folder's index, which
\* names the instance of a tagged proxy.  Any other failure ends the request.
Instance(r) ==
    \/ /\ readAt[r] \in {"instance", "folder"} /\ due[r] = {Table}
       /\ Finish(r, due[r], {Table}, {}, TRUE)
    \/ /\ readAt[r] = "folder" /\ due[r] = {}
       /\ Finish(r, {}, {}, {}, TRUE)
    \/ /\ readAt[r] = "instance"
       /\ Move(r, "folder")
       /\ UNCHANGED <<mapLoaded, keptRead>>

\* A kept answer outlives its time.
Outlived(s) ==
    /\ keptRead[s] # NoAnswer
    /\ keptRead' = [keptRead EXCEPT ![s] = NoAnswer]
    /\ UNCHANGED <<mapLoaded, readAt, subject, part, feed, got, due>>

\* A filer enters the industry or leaves it, and those after it move up or down
\* the pages: a scan owes only those that stay where they were.
FeedChanges(c) ==
    /\ feed' = IF c \in feed THEN feed \ {c} ELSE feed \cup {c}
    /\ due' = [r \in Askers |->
                  IF subject[r] = "peers"
                  THEN {d \in due[r] :
                            \E k \in Parts \cup {0} : d \in Page(feed, k) \cap Page(feed', k)}
                  ELSE due[r]]
    /\ UNCHANGED <<mapLoaded, keptRead, readAt, subject, part, got>>

ReadsNext ==
    \/ \E r \in Askers :
          \/ \E s \in Subjects : Request(r, s)
          \/ Ends(r) \/ Profiled(r) \/ MapEnsured(r) \/ FirstPage(r) \/ ScanFails(r)
          \/ \E p \in Parts : PartEnds(r, p)
          \/ Gathered(r) \/ Submissions(r) \/ Instance(r)
    \/ \E s \in Subjects : Outlived(s)
    \/ \E c \in Company : FeedChanges(c)

ReadsSpec == ReadsInit /\ [][ReadsNext]_readVars

(***************************************************************************)
(* Properties                                                              *)
(***************************************************************************)

\* A transient EDGAR failure is never frozen for hours.  What is kept was gathered
\* whole: of the peers every company that stood on one page of the scan while it
\* ran, though pages fail, requests interleave and filers come and go in between;
\* of the trades every Form 4 of the window; the table of a tagged proxy.  The
\* list that is made of the peers has none of them if the ticker map is empty,
\* which is a failure too: KeptPeersAreRanked.
KeptIsWhole == \A s \in Subjects : keptRead[s] # NoAnswer => keptRead[s].lacks = {}

\* companies.py says that without the ticker map the peers would come back
\* empty, and edgar.py that a transient failure must not be frozen for a day:
\* a kept peer list was ranked with a filled map.
KeptPeersAreRanked == keptRead["peers"] # NoAnswer => keptRead["peers"].ranked
=============================================================================
