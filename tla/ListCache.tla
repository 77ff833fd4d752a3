------------------------------ MODULE ListCache ------------------------------
(***************************************************************************)
(* The cached list of analyses: database.list_analyses reads through       *)
(* cache.TTLCache.  The list is read from Postgres in a worker thread while*)
(* other requests run, and a writer clears the cache from its own worker   *)
(* thread, so a clear may fall between any two steps of a get or a set.    *)
(* Gets and sets themselves run on the event loop, one at a time.          *)
(***************************************************************************)
EXTENDS Integers, Sequences, FiniteSets

CONSTANTS
    Readers,     \* GET /analyses requests
    Writers,     \* server threads that write an analyses row
    Keys,        \* the combinations of page and filters
    TTL,         \* list_cache's ttl_seconds
    MaxEntries,  \* its max_entries
    ReadLimit,   \* the longest a reader takes from its lookup to its answer
    MaxWrites,   \* bound: the writes to the table
    MaxTime,     \* bound: the clock
    Nobody

ASSUME ListCacheAssumption ==
    /\ TTL \in Nat /\ MaxEntries \in Nat \ {0} /\ ReadLimit \in Nat
    /\ MaxWrites \in Nat /\ MaxTime \in Nat /\ Nobody \notin Readers \cup Keys

VARIABLES
    now,      \* time.monotonic()
    commits,  \* when each write to the table was committed, in order
    entries,  \* TTLCache._data, oldest inserted first
    loop,     \* the reader in the middle of a get or a set
    pc,       \* where each reader is
    key,      \* the list it asks for
    began,    \* when it looked that list up
    value,    \* the number of writes its list reflects
    floor,    \* the writes that were finished when it began
    writing,  \* the write each writer has yet to clear the cache for, or 0
    finished  \* the last of the writes whose writer has returned

reader == <<pc, key, began, value, floor>>
vars == <<now, commits, entries, loop, reader, writing, finished>>

Version == Len(commits)

Busy == {"expiring", "reading", "read", "replacing", "evicting", "storing"}

Cached(k) == \E i \in DOMAIN entries : entries[i].key = k
Place(k) == CHOOSE i \in DOMAIN entries : entries[i].key = k
Entry(k) == entries[Place(k)]
Without(k) ==
    IF ~ Cached(k) THEN entries
    ELSE [i \in 1 .. Len(entries) - 1 |-> entries[IF i < Place(k) THEN i ELSE i + 1]]

\* Mutant: an entry is served for one tick too long.
ExpiredLate(e) == now - e.at > TTL + 1

Expired(e) == now - e.at > TTL
-----------------------------------------------------------------------------
(* TTLCache.get *)

Lookup(r, k) ==
    /\ pc[r] = "idle" /\ loop = Nobody
    /\ key' = [key EXCEPT ![r] = k]
    /\ began' = [began EXCEPT ![r] = now]
    /\ floor' = [floor EXCEPT ![r] = finished]
    /\ IF ~ Cached(k)
       THEN pc' = [pc EXCEPT ![r] = "reading"] /\ UNCHANGED <<value, loop>>
       ELSE IF Expired(Entry(k))
       THEN pc' = [pc EXCEPT ![r] = "expiring"] /\ loop' = r /\ UNCHANGED value
       ELSE /\ pc' = [pc EXCEPT ![r] = "answered"]
            /\ value' = [value EXCEPT ![r] = Entry(k).value]
            /\ UNCHANGED loop
    /\ UNCHANGED <<now, commits, entries, writing, finished>>

\* del self._data[key]: the entry it goes by may be gone.
DropExpired(r) ==
    /\ pc[r] = "expiring"
    /\ pc' = [pc EXCEPT ![r] = IF Cached(key[r]) THEN "reading" ELSE "raised"]
    /\ entries' = Without(key[r])
    /\ loop' = Nobody
    /\ UNCHANGED <<now, commits, key, began, value, floor, writing, finished>>

\* The query, in a worker thread; it may fail.
ReadTable(r) ==
    /\ pc[r] = "reading"
    /\ \/ /\ pc' = [pc EXCEPT ![r] = "read"]
          /\ value' = [value EXCEPT ![r] = Version]
       \/ pc' = [pc EXCEPT ![r] = "raised"] /\ UNCHANGED value
    /\ UNCHANGED <<now, commits, entries, loop, key, began, floor, writing, finished>>

(* TTLCache.set *)

\* Mutant: a full cache takes one entry more.
BeginSetFull(r) ==
    /\ pc[r] = "read" /\ loop = Nobody
    /\ loop' = r
    /\ pc' = [pc EXCEPT ![r] = IF Cached(key[r]) THEN "replacing"
                               ELSE IF Len(entries) > MaxEntries THEN "evicting"
                               ELSE "storing"]
    /\ UNCHANGED <<now, commits, entries, key, began, value, floor, writing, finished>>

BeginSet(r) ==
    /\ pc[r] = "read" /\ loop = Nobody
    /\ loop' = r
    /\ pc' = [pc EXCEPT ![r] = IF Cached(key[r]) THEN "replacing"
                               ELSE IF Len(entries) >= MaxEntries THEN "evicting"
                               ELSE "storing"]
    /\ UNCHANGED <<now, commits, entries, key, began, value, floor, writing, finished>>

\* One of the two dels: of the key's own entry, or of the oldest one.  A clear
\* in between leaves nothing to delete, and the request fails.
Delete(r) ==
    /\ pc[r] \in {"replacing", "evicting"}
    /\ IF IF pc[r] = "replacing" THEN Cached(key[r]) ELSE entries # << >>
       THEN /\ entries' = IF pc[r] = "replacing" THEN Without(key[r]) ELSE Tail(entries)
            /\ pc' = [pc EXCEPT ![r] = "storing"]
            /\ UNCHANGED loop
       ELSE pc' = [pc EXCEPT ![r] = "raised"] /\ loop' = Nobody /\ UNCHANGED entries
    /\ UNCHANGED <<now, commits, key, began, value, floor, writing, finished>>

Store(r) ==
    /\ pc[r] = "storing"
    /\ entries' = Append(entries, [key |-> key[r], value |-> value[r], at |-> now])
    /\ pc' = [pc EXCEPT ![r] = "answered"]
    /\ loop' = Nobody
    /\ UNCHANGED <<now, commits, key, began, value, floor, writing, finished>>

Respond(r) ==
    /\ pc[r] \in {"answered", "raised"}
    /\ pc' = [pc EXCEPT ![r] = "idle"]
    /\ key' = [key EXCEPT ![r] = Nobody]
    /\ began' = [began EXCEPT ![r] = 0]
    /\ value' = [value EXCEPT ![r] = 0]
    /\ floor' = [floor EXCEPT ![r] = 0]
    /\ UNCHANGED <<now, commits, entries, loop, writing, finished>>
-----------------------------------------------------------------------------
(* The writers. *)

Commit == Version < MaxWrites /\ commits' = Append(commits, now)

\* _create_analysis_sync, _set_chunks_expected_sync: an answer that is lost ends
\* the writer before it clears anything.
Write(w) ==
    /\ writing[w] = 0
    /\ Commit
    /\ \/ writing' = [writing EXCEPT ![w] = Version']
       \/ UNCHANGED writing
    /\ UNCHANGED <<now, entries, loop, reader, finished>>

\* list_cache.clear(), and the writer returns.
Clear(w) ==
    /\ writing[w] # 0
    /\ entries' = << >>
    /\ writing' = [writing EXCEPT ![w] = 0]
    /\ finished' = IF writing[w] > finished THEN writing[w] ELSE finished
    /\ UNCHANGED <<now, commits, loop, reader>>

\* A script writes from a process of its own, and clears its own cache.
ScriptWrite == Commit /\ UNCHANGED <<now, entries, loop, reader, writing, finished>>

Tick ==
    /\ now < MaxTime
    /\ \A r \in Readers : pc[r] \in Busy => now - began[r] < ReadLimit
    /\ now' = now + 1
    /\ UNCHANGED <<commits, entries, loop, reader, writing, finished>>

Init ==
    /\ now = 0 /\ commits = << >> /\ entries = << >> /\ loop = Nobody
    /\ pc = [r \in Readers |-> "idle"]
    /\ key = [r \in Readers |-> Nobody]
    /\ began = [r \in Readers |-> 0]
    /\ value = [r \in Readers |-> 0]
    /\ floor = [r \in Readers |-> 0]
    /\ writing = [w \in Writers |-> 0]
    /\ finished = 0

ReaderStep(r) ==
    \/ DropExpired(r) \/ ReadTable(r) \/ BeginSet(r) \/ Delete(r) \/ Store(r) \/ Respond(r)
    \/ \E k \in Keys : Lookup(r, k)

Next ==
    \/ \E r \in Readers : ReaderStep(r)
    \/ \E w \in Writers : Write(w) \/ Clear(w)
    \/ ScriptWrite
    \/ Tick

Spec == Init /\ [][Next]_vars
-----------------------------------------------------------------------------
(* Properties. *)

\* "max_entries" and "oldest-inserted is evicted first" (cache.py), while clears
\* from worker threads fall between the steps of a get or a set: the cache never
\* outgrows its limit, holds a list once, and is ordered by age.
BoundedByAge ==
    /\ Len(entries) <= MaxEntries
    /\ \A i, j \in DOMAIN entries : i < j =>
          entries[i].key # entries[j].key /\ entries[i].at <= entries[j].at

\* "the TTL is a backstop": whoever wrote, and whatever clear was missed, a list
\* lacks no write older than the TTL and the one read that filled the cache.
StaleOnlyForTTL ==
    \A r \in Readers : pc[r] = "answered" =>
        \A v \in value[r] + 1 .. Version : began[r] - commits[v] <= TTL + ReadLimit

\* "Every writer that can change a listed row clears it, so the TTL is ... not
\* what keeps it fresh": a request that begins after a server write is finished
\* is answered with it.
FreshAfterWrite ==
    \A r \in Readers : pc[r] = "answered" => value[r] >= floor[r]
=============================================================================
