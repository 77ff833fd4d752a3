--------------------------- MODULE ListCacheProofs ---------------------------
(***************************************************************************)
(* Theorems about ListCache, for any readers, writers and lists, any limit *)
(* and any times.                                                          *)
(***************************************************************************)
EXTENDS ListCache, TLAPS

EntryType == [key : Keys, value : Nat, at : Nat]

Pcs == Busy \cup {"idle", "answered", "raised"}

Types ==
    /\ now \in Nat
    /\ commits \in Seq(Nat)
    /\ entries \in Seq(EntryType)
    /\ loop \in Readers \cup {Nobody}
    /\ pc \in [Readers -> Pcs]
    /\ key \in [Readers -> Keys \cup {Nobody}]
    /\ began \in [Readers -> Nat]
    /\ value \in [Readers -> Nat]

\* A reader that is busy asks for a list.
Asking == \A r \in Readers : pc[r] \in Busy => key[r] \in Keys

\* A get or a set is alone on the event loop.
InLoop == {"expiring", "replacing", "evicting", "storing"}
Alone == \A r \in Readers : pc[r] \in InLoop => loop = r

CacheTypes == Types /\ Asking /\ Alone

LEMMA CacheTypesInit == Init => CacheTypes
BY ListCacheAssumption DEF Init, CacheTypes, Types, Asking, Alone, Busy, InLoop, Pcs

\* The place of a cached list, and the entries without it.
LEMMA PlaceOf ==
  ASSUME NEW k, Cached(k)
  PROVE  Place(k) \in DOMAIN entries /\ entries[Place(k)].key = k
BY DEF Place, Cached

LEMMA WithoutIs ==
  ASSUME entries \in Seq(EntryType), NEW k
  PROVE  /\ Without(k) \in Seq(EntryType)
         /\ Cached(k) => /\ Len(Without(k)) = Len(entries) - 1
                         /\ \A i \in 1 .. Len(entries) - 1 :
                               Without(k)[i] = entries[IF i < Place(k) THEN i ELSE i + 1]
<1>1. CASE ~ Cached(k)  BY <1>1 DEF Without
<1>2. CASE Cached(k)
  <2> DEFINE n == Len(entries) - 1
             w == [i \in 1 .. n |-> entries[IF i < Place(k) THEN i ELSE i + 1]]
  <2>1. Place(k) \in 1 .. Len(entries)  BY <1>2, PlaceOf
  <2>2. n \in Nat  BY <2>1
  <2>3. \A i \in 1 .. n : entries[IF i < Place(k) THEN i ELSE i + 1] \in EntryType
    BY <2>1
  <2>4. w \in Seq(EntryType) /\ Len(w) = n  BY <2>2, <2>3
  <2>5. Without(k) = w  BY <1>2 DEF Without
  <2>6. QED  BY <2>4, <2>5
<1>3. QED  BY <1>1, <1>2

LEMMA EntryOf ==
  ASSUME entries \in Seq(EntryType), NEW k, Cached(k)
  PROVE  Entry(k) \in EntryType /\ Entry(k).value \in Nat /\ Entry(k).at \in Nat
<1>1. Place(k) \in DOMAIN entries  BY PlaceOf
<1>2. Entry(k) \in EntryType  BY <1>1 DEF Entry
<1>3. QED  BY <1>2 DEF EntryType

\* One reader's step, on the event loop or off it.
LEMMA ReaderMoves ==
  ASSUME CacheTypes, NEW r \in Readers, NEW p \in Pcs, pc' = [pc EXCEPT ![r] = p],
         UNCHANGED <<now, commits>>, entries' \in Seq(EntryType),
         key' \in [Readers -> Keys \cup {Nobody}], began' \in [Readers -> Nat],
         value' \in [Readers -> Nat], loop' \in Readers \cup {Nobody},
         p \in Busy => key'[r] \in Keys,
         \A q \in Readers : q # r => key'[q] = key[q],
         p \in InLoop => loop' = r,
         \A q \in Readers : q # r /\ pc[q] \in InLoop => loop' = q
  PROVE  CacheTypes'
<1>1. pc \in [Readers -> Pcs]  BY DEF CacheTypes, Types
<1>2. pc'[r] = p /\ \A q \in Readers : q # r => pc'[q] = pc[q]  BY <1>1
<1>3. Types'  BY <1>1 DEF CacheTypes, Types
<1>4. Asking'  BY <1>2 DEF CacheTypes, Asking
<1>5. Alone'  BY <1>2 DEF CacheTypes, Alone
<1>6. QED  BY <1>3, <1>4, <1>5 DEF CacheTypes

LEMMA CacheTypesNext == CacheTypes /\ [Next]_vars => CacheTypes'
<1> SUFFICES ASSUME CacheTypes, [Next]_vars PROVE CacheTypes'  OBVIOUS
<1>0. /\ Types /\ Asking /\ Alone
      /\ now \in Nat /\ commits \in Seq(Nat) /\ entries \in Seq(EntryType)
      /\ loop \in Readers \cup {Nobody} /\ pc \in [Readers -> Pcs]
      /\ key \in [Readers -> Keys \cup {Nobody}] /\ began \in [Readers -> Nat]
      /\ value \in [Readers -> Nat] /\ Nobody \notin Readers
  BY ListCacheAssumption DEF CacheTypes, Types
\* Who holds the loop is alone in it; nobody is in it when it is free.
<1>l. /\ \A r, q \in Readers : pc[r] \in InLoop /\ pc[q] \in InLoop => q = r
      /\ loop = Nobody => \A q \in Readers : pc[q] \notin InLoop
  BY <1>0 DEF Alone
<1>p. /\ Busy \subseteq Pcs /\ "answered" \in Pcs /\ "raised" \in Pcs /\ "idle" \in Pcs
      /\ InLoop \subseteq Busy
      /\ {"answered", "raised", "idle"} \cap Busy = {}
      /\ {"reading", "read"} \cap InLoop = {} /\ {"reading", "read"} \subseteq Busy
  BY DEF Pcs, Busy, InLoop
<1>1. ASSUME NEW r \in Readers, NEW k \in Keys, Lookup(r, k) PROVE CacheTypes'
  <2>1. PICK p \in {"reading", "expiring", "answered"} :
           /\ pc' = [pc EXCEPT ![r] = p]
           /\ loop' = IF p = "expiring" THEN r ELSE loop
    BY <1>1 DEF Lookup
  <2>2. value' \in [Readers -> Nat]  BY <1>0, <1>1, EntryOf DEF Lookup
  <2>3. /\ UNCHANGED <<now, commits, entries>> /\ key' = [key EXCEPT ![r] = k]
        /\ began' = [began EXCEPT ![r] = now] /\ loop = Nobody
    BY <1>1 DEF Lookup
  <2>4. p \in Pcs /\ (p \in InLoop => p = "expiring")  BY <1>p DEF InLoop
  <2>5. QED  BY <1>0, <1>l, <2>1, <2>2, <2>3, <2>4, ReaderMoves
<1>2. ASSUME NEW r \in Readers, DropExpired(r) PROVE CacheTypes'
  <2>1. Without(key[r]) \in Seq(EntryType)  BY <1>0, WithoutIs
  <2>2. pc[r] \in InLoop /\ pc[r] \in Busy  BY <1>2 DEF DropExpired, InLoop, Busy
  <2>3. PICK p \in {"reading", "raised"} : pc' = [pc EXCEPT ![r] = p]
    BY <1>2 DEF DropExpired
  <2>4. UNCHANGED <<now, commits, key, began, value>> /\ loop' = Nobody
        /\ entries' = Without(key[r])
    BY <1>2 DEF DropExpired
  <2>5. key[r] \in Keys  BY <1>0, <2>2 DEF Asking
  <2>6. QED  BY <1>0, <1>l, <1>p, <2>1, <2>2, <2>3, <2>4, <2>5, ReaderMoves
<1>3. ASSUME NEW r \in Readers, ReadTable(r) PROVE CacheTypes'
  <2>1. PICK p \in {"read", "raised"} : pc' = [pc EXCEPT ![r] = p]
    BY <1>3 DEF ReadTable
  <2>v. Version \in Nat  BY <1>0 DEF Version
  <2>2. value' \in [Readers -> Nat]  BY <1>0, <1>3, <2>v DEF ReadTable
  <2>3. UNCHANGED <<now, commits, entries, loop, key, began>> /\ pc[r] = "reading"
    BY <1>3 DEF ReadTable
  <2>4. key[r] \in Keys  BY <1>0, <1>p, <2>3 DEF Asking
  <2>5. QED  BY <1>0, <1>p, <2>1, <2>2, <2>3, <2>4, ReaderMoves DEF Alone
<1>4. ASSUME NEW r \in Readers, BeginSet(r) PROVE CacheTypes'
  <2>1. PICK p \in {"replacing", "evicting", "storing"} : pc' = [pc EXCEPT ![r] = p]
    BY <1>4 DEF BeginSet
  <2>2. /\ UNCHANGED <<now, commits, entries, key, began, value>> /\ loop = Nobody
        /\ loop' = r /\ pc[r] = "read"
    BY <1>4 DEF BeginSet
  <2>3. key[r] \in Keys  BY <1>0, <1>p, <2>2 DEF Asking
  <2>4. p \in Pcs  BY <2>1 DEF Pcs, Busy
  <2>5. QED  BY <1>0, <1>l, <2>1, <2>2, <2>3, <2>4, ReaderMoves
<1>5. ASSUME NEW r \in Readers, Delete(r) PROVE CacheTypes'
  <2>1. Without(key[r]) \in Seq(EntryType)  BY <1>0, WithoutIs
  <2>2. entries # << >> => Tail(entries) \in Seq(EntryType)  BY <1>0
  <2>3. entries' \in Seq(EntryType)  BY <1>0, <1>5, <2>1, <2>2 DEF Delete
  <2>4. PICK p \in {"storing", "raised"} :
           /\ pc' = [pc EXCEPT ![r] = p]
           /\ loop' = IF p = "storing" THEN loop ELSE Nobody
    BY <1>5 DEF Delete
  <2>5. UNCHANGED <<now, commits, key, began, value>> /\ pc[r] \in InLoop /\ pc[r] \in Busy
    BY <1>5 DEF Delete, InLoop, Busy
  <2>6. key[r] \in Keys /\ loop = r  BY <1>0, <2>5 DEF Asking, Alone
  <2>7. p \in Pcs /\ (p \in InLoop => p = "storing")  BY <2>4 DEF Pcs, Busy, InLoop
  <2>8. QED  BY <1>0, <1>l, <2>3, <2>4, <2>5, <2>6, <2>7, ReaderMoves
<1>6. ASSUME NEW r \in Readers, Store(r) PROVE CacheTypes'
  <2>1. pc[r] \in InLoop /\ pc[r] \in Busy  BY <1>6 DEF Store, InLoop, Busy
  <2>2. [key |-> key[r], value |-> value[r], at |-> now] \in EntryType
    BY <1>0, <2>1 DEF Asking, EntryType
  <2>3. entries' \in Seq(EntryType)  BY <1>0, <1>6, <2>2 DEF Store
  <2>4. /\ pc' = [pc EXCEPT ![r] = "answered"] /\ loop' = Nobody
        /\ UNCHANGED <<now, commits, key, began, value>>
    BY <1>6 DEF Store
  <2>5. QED  BY <1>0, <1>l, <1>p, <2>1, <2>3, <2>4, ReaderMoves
<1>7. ASSUME NEW r \in Readers, Respond(r) PROVE CacheTypes'
  <2>1. /\ pc' = [pc EXCEPT ![r] = "idle"] /\ UNCHANGED <<now, commits, entries, loop>>
        /\ key' = [key EXCEPT ![r] = Nobody] /\ began' = [began EXCEPT ![r] = 0]
        /\ value' = [value EXCEPT ![r] = 0]
    BY <1>7 DEF Respond
  <2>2. QED  BY <1>0, <1>p, <2>1, ReaderMoves DEF Alone
<1>8. ASSUME NEW w \in Writers, Write(w) \/ Clear(w) PROVE CacheTypes'
  <2>c. Append(commits, now) \in Seq(Nat) /\ << >> \in Seq(EntryType)  BY <1>0
  <2>1. UNCHANGED <<now, loop, reader>> /\ commits' \in Seq(Nat) /\ entries' \in Seq(EntryType)
    <3>1. CASE Write(w)  BY <1>0, <2>c, <3>1 DEF Write, Commit
    <3>2. CASE Clear(w)  BY <1>0, <2>c, <3>2 DEF Clear
    <3>3. QED  BY <1>8, <3>1, <3>2
  <2>2. QED  BY <1>0, <2>1 DEF CacheTypes, Types, Asking, Alone, reader
<1>9. CASE ScriptWrite
  BY <1>0, <1>9 DEF ScriptWrite, Commit, reader, CacheTypes, Types, Asking, Alone
<1>10. CASE Tick
  BY <1>0, <1>10 DEF Tick, reader, CacheTypes, Types, Asking, Alone
<1>11. CASE UNCHANGED vars
  BY <1>0, <1>11 DEF vars, reader, CacheTypes, Types, Asking, Alone
<1>12. QED
  BY <1>1, <1>2, <1>3, <1>4, <1>5, <1>6, <1>7, <1>8, <1>9, <1>10, <1>11
     DEF Next, ReaderStep
-----------------------------------------------------------------------------
(* The entries.  They are thinned out from anywhere and added to at the end, *)
(* and a reader adds one only where it has found or made room for it.        *)

ByAge(s) ==
    \A i, j \in DOMAIN s : i < j => s[i].key # s[j].key /\ s[i].at <= s[j].at

\* t is s with some of its entries left out.
Thinned(t, s) ==
    /\ Len(t) <= Len(s)
    /\ \E f \in [DOMAIN t -> DOMAIN s] :
          /\ \A i \in DOMAIN t : t[i] = s[f[i]]
          /\ \A i, j \in DOMAIN t : i < j => f[i] < f[j]

LEMMA ThinnedByAge ==
  ASSUME NEW s, NEW t, ByAge(s), Thinned(t, s)
  PROVE  ByAge(t) /\ \A i \in DOMAIN t : \E j \in DOMAIN s : t[i] = s[j]
BY DEF ByAge, Thinned

LEMMA ThinnedTail ==
  ASSUME NEW s \in Seq(EntryType), s # << >>
  PROVE  Thinned(Tail(s), s) /\ Len(Tail(s)) = Len(s) - 1
<1> DEFINE t == Tail(s)
<1>1. Len(s) \in Nat /\ Len(t) = Len(s) - 1 /\ t \in Seq(EntryType)
  OBVIOUS
<1>2. \A i \in 1 .. Len(s) - 1 : t[i] = s[i + 1]
  OBVIOUS
<1>3. DOMAIN t = 1 .. Len(s) - 1 /\ DOMAIN s = 1 .. Len(s)
  BY <1>1
<1> HIDE DEF t
<1> DEFINE f == [i \in 1 .. Len(s) - 1 |-> i + 1]
<1>4. f \in [DOMAIN t -> DOMAIN s]  BY <1>1, <1>3
<1>5. \A i \in DOMAIN t : t[i] = s[f[i]]  BY <1>2, <1>3
<1>6. \A i, j \in DOMAIN t : i < j => f[i] < f[j]  BY <1>1, <1>3
<1>7. Len(t) <= Len(s)  BY <1>1
<1> HIDE DEF f
<1>8. Thinned(t, s)  BY <1>4, <1>5, <1>6, <1>7 DEF Thinned
<1>9. QED  BY <1>1, <1>8 DEF t

LEMMA ThinnedWithout ==
  ASSUME entries \in Seq(EntryType), NEW k, Cached(k)
  PROVE  Thinned(Without(k), entries) /\ Len(Without(k)) = Len(entries) - 1
<1> DEFINE t == Without(k)
           n == Len(entries)
           p == Place(k)
           f == [i \in 1 .. n - 1 |-> IF i < p THEN i ELSE i + 1]
<1>1. /\ t \in Seq(EntryType) /\ Len(t) = n - 1 /\ n \in Nat /\ DOMAIN entries = 1 .. n
      /\ \A i \in 1 .. n - 1 : t[i] = entries[IF i < p THEN i ELSE i + 1]
  BY WithoutIs
<1>2. p \in 1 .. n  BY <1>1, PlaceOf
<1> HIDE DEF t, n, p
<1>3. DOMAIN t = 1 .. n - 1  BY <1>1
<1>4. f \in [DOMAIN t -> DOMAIN entries]  BY <1>1, <1>2, <1>3
<1>5. \A i \in DOMAIN t : t[i] = entries[f[i]]  BY <1>1, <1>3
<1>6. \A i, j \in DOMAIN t : i < j => f[i] < f[j]  BY <1>1, <1>2, <1>3
<1>7. Len(t) <= n  BY <1>1
<1> HIDE DEF f
<1>8. Thinned(t, entries)  BY <1>4, <1>5, <1>6, <1>7 DEF Thinned, n
<1>9. QED  BY <1>1, <1>8 DEF t, n

\* Of lists held once, none is left of the one taken out.
LEMMA WithoutKey ==
  ASSUME entries \in Seq(EntryType), ByAge(entries), NEW k
  PROVE  \A i \in DOMAIN Without(k) : Without(k)[i].key # k
<1>1. CASE ~ Cached(k)  BY <1>1 DEF Without, Cached
<1>2. CASE Cached(k)
  <2> DEFINE n == Len(entries)
             p == Place(k)
  <2>1. /\ Len(Without(k)) = n - 1 /\ n \in Nat /\ DOMAIN entries = 1 .. n
        /\ DOMAIN Without(k) = 1 .. n - 1
        /\ \A i \in 1 .. n - 1 : Without(k)[i] = entries[IF i < p THEN i ELSE i + 1]
    BY <1>2, WithoutIs
  <2>2. p \in 1 .. n /\ entries[p].key = k  BY <1>2, <2>1, PlaceOf
  <2> HIDE DEF n, p
  <2>3. ASSUME NEW i \in 1 .. n - 1 PROVE Without(k)[i].key # k
    <3>1. CASE i < p
      <4>1. i \in 1 .. n  BY <2>1
      <4>2. entries[i].key # entries[p].key  BY <2>1, <2>2, <3>1, <4>1 DEF ByAge
      <4>3. QED  BY <2>1, <2>2, <3>1, <4>2
    <3>2. CASE ~ (i < p)
      <4>1. i + 1 \in 1 .. n /\ p < i + 1  BY <2>1, <2>2, <3>2
      <4>2. entries[p].key # entries[i + 1].key  BY <2>1, <2>2, <4>1 DEF ByAge
      <4>3. QED  BY <2>1, <2>2, <3>2, <4>2
    <3>3. QED  BY <3>1, <3>2
  <2>4. QED  BY <2>1, <2>3
<1>3. QED  BY <1>1, <1>2

\* Where a reader is about to add its list there is room for it.
Room ==
    \A r \in Readers :
        /\ pc[r] \in {"evicting", "storing"} => ~ Cached(key[r])
        /\ pc[r] = "storing" => Len(entries) < MaxEntries

Past == \A i \in DOMAIN entries : entries[i].at <= now

SizeInv == Len(entries) <= MaxEntries /\ ByAge(entries) /\ Past /\ Room

\* Lists are taken out while nobody, or the reader who does it, is in the loop.
LEMMA SizeThinned ==
  ASSUME CacheTypes, SizeInv, entries' \in Seq(EntryType), Thinned(entries', entries),
         UNCHANGED now,
         \A r \in Readers : pc'[r] \in {"evicting", "storing"} => ~ Cached(key[r])'
                            /\ (pc'[r] = "storing" => Len(entries') < MaxEntries)
  PROVE  SizeInv'
<1>1. /\ ByAge(entries') /\ \A i \in DOMAIN entries' : \E j \in DOMAIN entries : entries'[i] = entries[j]
  BY ThinnedByAge DEF SizeInv
<1>2. Len(entries') <= MaxEntries
  <2>1. Len(entries) \in Nat /\ Len(entries') \in Nat /\ MaxEntries \in Nat
    BY ListCacheAssumption DEF CacheTypes, Types
  <2>2. Len(entries') <= Len(entries) /\ Len(entries) <= MaxEntries  BY DEF Thinned, SizeInv
  <2>3. QED  BY <2>1, <2>2
<1>3. Past'  BY <1>1 DEF Past, SizeInv
<1>4. Room'  BY DEF Room
<1>5. QED  BY <1>1, <1>2, <1>3, <1>4 DEF SizeInv

\* Steps that leave the entries alone and put nobody before an insertion.
LEMMA SizeKept ==
  ASSUME CacheTypes, SizeInv, UNCHANGED entries, now' >= now, now' \in Nat,
         \A r \in Readers : pc'[r] \in {"evicting", "storing"} =>
            pc[r] = pc'[r] /\ key'[r] = key[r]
  PROVE  SizeInv'
<1>1. Past'
  <2>0. now \in Nat /\ \A i \in DOMAIN entries : entries[i] \in EntryType
    BY DEF CacheTypes, Types
  <2>1. now \in Nat /\ \A i \in DOMAIN entries : entries[i].at \in Nat
    BY <2>0 DEF EntryType
  <2>2. QED  BY <2>1 DEF SizeInv, Past
<1>2. Room'  BY DEF SizeInv, Room, Cached
<1>3. QED  BY <1>1, <1>2 DEF SizeInv, ByAge

LEMMA SizeStore ==
  ASSUME CacheTypes, SizeInv, NEW r \in Readers, Store(r)
  PROVE  SizeInv'
<1> DEFINE n == Len(entries)
           e == [key |-> key[r], value |-> value[r], at |-> now]
<1>0. /\ entries \in Seq(EntryType) /\ n \in Nat /\ now \in Nat /\ pc \in [Readers -> Pcs]
      /\ DOMAIN entries = 1 .. n /\ MaxEntries \in Nat
  BY ListCacheAssumption DEF CacheTypes, Types
<1>1. /\ pc[r] = "storing" /\ entries' = Append(entries, e)
      /\ pc' = [pc EXCEPT ![r] = "answered"] /\ now' = now
  BY DEF Store
<1>2. n < MaxEntries /\ \A i \in 1 .. n : entries[i].key # key[r] /\ entries[i].at <= now
  BY <1>0, <1>1 DEF SizeInv, Room, Cached, Past
<1>3. /\ Len(entries') = n + 1 /\ DOMAIN entries' = 1 .. n + 1
      /\ \A i \in 1 .. n + 1 : entries'[i] = IF i = n + 1 THEN e ELSE entries[i]
  BY <1>0, <1>1
<1>4. e.key = key[r] /\ e.at = now  OBVIOUS
<1> HIDE DEF n, e
<1>5. Len(entries') <= MaxEntries  BY <1>0, <1>2, <1>3
<1>6. ASSUME NEW i \in 1 .. n + 1, NEW j \in 1 .. n + 1, i < j
      PROVE  entries'[i].key # entries'[j].key /\ entries'[i].at <= entries'[j].at
  <2>1. i \in 1 .. n /\ i # n + 1  BY <1>0, <1>6
  <2>2. entries'[i] = entries[i]  BY <1>3, <2>1
  <2>3. CASE j = n + 1
    <3>1. entries'[j] = e  BY <1>3, <2>3
    <3>2. QED  BY <1>2, <1>4, <2>1, <2>2, <3>1
  <2>4. CASE j # n + 1
    <3>1. j \in 1 .. n  BY <1>0, <2>4
    <3>2. entries'[j] = entries[j]  BY <1>3, <2>4
    <3>3. QED  BY <1>0, <1>6, <2>1, <2>2, <3>1, <3>2 DEF SizeInv, ByAge
  <2>5. QED  BY <2>3, <2>4
<1>7. ByAge(entries')  BY <1>3, <1>6 DEF ByAge
<1>8. \A i \in 1 .. n + 1 : entries'[i].at <= now
  <2> SUFFICES ASSUME NEW i \in 1 .. n + 1 PROVE entries'[i].at <= now  OBVIOUS
  <2>1. CASE i = n + 1  BY <1>0, <1>3, <1>4, <2>1
  <2>2. CASE i # n + 1
    <3>1. i \in 1 .. n  BY <1>0, <2>2
    <3>2. QED  BY <1>2, <1>3, <2>2, <3>1
  <2>3. QED  BY <2>1, <2>2
<1>9. Past'  BY <1>1, <1>3, <1>8 DEF Past
<1>10. Room'
  <2>1. \A q \in Readers : pc'[q] \notin {"evicting", "storing"}
    <3>1. \A q \in Readers : q # r => pc[q] \notin {"evicting", "storing"}
      BY <1>1 DEF CacheTypes, Alone, InLoop
    <3>2. QED  BY <1>0, <1>1, <3>1
  <2>2. QED  BY <2>1 DEF Room
<1>11. QED  BY <1>5, <1>7, <1>9, <1>10 DEF SizeInv

LEMMA SizeInvNext == CacheTypes /\ SizeInv /\ [Next]_vars => SizeInv'
<1> SUFFICES ASSUME CacheTypes, SizeInv, [Next]_vars PROVE SizeInv'  OBVIOUS
<1>0. /\ now \in Nat /\ entries \in Seq(EntryType) /\ pc \in [Readers -> Pcs]
      /\ key \in [Readers -> Keys \cup {Nobody}] /\ MaxEntries \in Nat \ {0}
      /\ now >= now /\ ByAge(entries) /\ Len(entries) \in Nat /\ Len(entries) <= MaxEntries
      /\ CacheTypes'
  BY ListCacheAssumption, CacheTypesNext DEF CacheTypes, Types, SizeInv
\* Whoever is in the loop is alone in it.
<1>a. ASSUME NEW r \in Readers, loop \in {r, Nobody}, NEW q \in Readers, q # r
      PROVE  pc[q] \notin {"evicting", "storing"}
  BY <1>a, ListCacheAssumption DEF CacheTypes, Alone, InLoop
<1>1. ASSUME NEW r \in Readers, NEW k \in Keys, Lookup(r, k) PROVE SizeInv'
  <2>1. /\ pc'[r] \notin {"evicting", "storing"} /\ UNCHANGED <<entries, now>>
        /\ \A q \in Readers : q # r => pc'[q] = pc[q] /\ key'[q] = key[q]
    BY <1>0, <1>1 DEF Lookup
  <2>2. QED  BY <1>0, <2>1, SizeKept
<1>2. ASSUME NEW r \in Readers, DropExpired(r) PROVE SizeInv'
  <2>1. /\ entries' = Without(key[r]) /\ UNCHANGED <<now, key>> /\ pc[r] = "expiring"
        /\ pc'[r] \notin {"evicting", "storing"}
        /\ \A q \in Readers : q # r => pc'[q] = pc[q]
    BY <1>0, <1>2 DEF DropExpired
  <2>2. loop = r  BY <2>1 DEF CacheTypes, Alone, InLoop
  <2>3. \A q \in Readers : pc'[q] \notin {"evicting", "storing"}
    BY <1>a, <2>1, <2>2
  <2>4. CASE Cached(key[r])
    <3>1. entries' \in Seq(EntryType) /\ Thinned(entries', entries)
      BY <1>0, <2>1, <2>4, WithoutIs, ThinnedWithout
    <3>2. QED  BY <2>1, <2>3, <3>1, SizeThinned
  <2>5. CASE ~ Cached(key[r])
    <3>1. UNCHANGED entries  BY <2>1, <2>5 DEF Without
    <3>2. QED  BY <1>0, <2>1, <2>3, <3>1, SizeKept
  <2>6. QED  BY <2>4, <2>5
<1>3. ASSUME NEW r \in Readers, ReadTable(r) \/ Respond(r) PROVE SizeInv'
  <2>1. /\ pc'[r] \notin {"evicting", "storing"} /\ UNCHANGED <<entries, now>>
        /\ \A q \in Readers : q # r => pc'[q] = pc[q] /\ key'[q] = key[q]
    BY <1>0, <1>3 DEF ReadTable, Respond
  <2>2. QED  BY <1>0, <2>1, SizeKept
<1>4. ASSUME NEW r \in Readers, BeginSet(r) PROVE SizeInv'
  <2>1. /\ UNCHANGED <<entries, now, key>> /\ loop = Nobody
        /\ pc'[r] = IF Cached(key[r]) THEN "replacing"
                    ELSE IF Len(entries) >= MaxEntries THEN "evicting" ELSE "storing"
        /\ \A q \in Readers : q # r => pc'[q] = pc[q]
    BY <1>0, <1>4 DEF BeginSet
  <2>2. \A q \in Readers : q # r => pc'[q] \notin {"evicting", "storing"}
    BY <1>a, <2>1
  <2>3. pc'[r] \in {"evicting", "storing"} => ~ Cached(key[r])
    BY <2>1
  <2>4. pc'[r] = "storing" => Len(entries) < MaxEntries
    BY <1>0, <2>1
  <2>5. Room'  BY <2>1, <2>2, <2>3, <2>4 DEF Room, Cached
  <2>6. QED  BY <2>1, <2>5 DEF SizeInv, ByAge, Past
<1>5. ASSUME NEW r \in Readers, Delete(r) PROVE SizeInv'
  <2>1. /\ pc[r] \in {"replacing", "evicting"} /\ UNCHANGED <<now, key>>
        /\ \A q \in Readers : q # r => pc'[q] = pc[q]
    BY <1>0, <1>5 DEF Delete
  <2>2. loop = r  BY <2>1 DEF CacheTypes, Alone, InLoop
  <2>3. \A q \in Readers : q # r => pc'[q] \notin {"evicting", "storing"}
    BY <1>a, <2>1, <2>2
  <2>4. CASE pc[r] = "replacing" /\ Cached(key[r])
    <3>1. entries' = Without(key[r])  BY <1>5, <2>4 DEF Delete
    <3>2. /\ Thinned(entries', entries) /\ entries' \in Seq(EntryType)
          /\ Len(entries') = Len(entries) - 1
      BY <1>0, <2>4, <3>1, WithoutIs, ThinnedWithout
    <3>3. ~ Cached(key[r])'
      <4>1. \A i \in DOMAIN entries' : entries'[i].key # key'[r]
        BY <1>0, <2>1, <3>1, WithoutKey
      <4>2. QED  BY <4>1 DEF Cached
    <3>4. Len(entries') < MaxEntries  BY <1>0, <3>2
    <3>5. QED  BY <2>1, <2>3, <3>2, <3>3, <3>4, SizeThinned
  <2>5. CASE pc[r] = "evicting" /\ entries # << >>
    <3>1. entries' = Tail(entries)  BY <1>5, <2>5 DEF Delete
    <3>2. /\ Thinned(entries', entries) /\ entries' \in Seq(EntryType)
          /\ Len(entries') = Len(entries) - 1
      BY <1>0, <2>5, <3>1, ThinnedTail
    <3>3. ~ Cached(key[r])'
      <4>1. ~ Cached(key[r])  BY <2>5 DEF SizeInv, Room
      <4>2. \A i \in DOMAIN entries' : \E j \in DOMAIN entries : entries'[i] = entries[j]
        BY <1>0, <3>2, ThinnedByAge
      <4>3. QED  BY <2>1, <4>1, <4>2 DEF Cached
    <3>4. Len(entries') < MaxEntries  BY <1>0, <3>2
    <3>5. QED  BY <2>1, <2>3, <3>2, <3>3, <3>4, SizeThinned
  <2>6. CASE ~ (pc[r] = "replacing" /\ Cached(key[r])) /\ ~ (pc[r] = "evicting" /\ entries # << >>)
    <3>1. UNCHANGED entries /\ pc'[r] = "raised"
      BY <1>0, <1>5, <2>6 DEF Delete
    <3>2. QED  BY <1>0, <2>1, <2>3, <3>1, SizeKept
  <2>7. QED  BY <2>4, <2>5, <2>6
<1>6. ASSUME NEW r \in Readers, Store(r) PROVE SizeInv'
  BY <1>6, SizeStore
<1>7. ASSUME NEW w \in Writers, Write(w) PROVE SizeInv'
  BY <1>0, <1>7, SizeKept DEF Write, reader
<1>8. ASSUME NEW w \in Writers, Clear(w) PROVE SizeInv'
  <2>1. entries' = << >> /\ UNCHANGED <<pc, key, now>>  BY <1>8 DEF Clear, reader
  <2>2. Len(entries') = 0 /\ DOMAIN entries' = {}  BY <2>1
  <2>3. Len(entries') < MaxEntries /\ Len(entries') <= MaxEntries  BY <1>0, <2>2
  <2>4. QED  BY <2>2, <2>3 DEF SizeInv, ByAge, Past, Room, Cached
<1>9. CASE ScriptWrite
  BY <1>0, <1>9, SizeKept DEF ScriptWrite, reader
<1>10. CASE Tick
  <2>1. now' = now + 1 /\ UNCHANGED <<entries, pc, key>>  BY <1>10 DEF Tick, reader
  <2>2. QED  BY <1>0, <2>1, SizeKept
<1>11. CASE UNCHANGED vars
  BY <1>0, <1>11, SizeKept DEF vars, reader
<1>12. QED
  BY <1>1, <1>2, <1>3, <1>4, <1>5, <1>6, <1>7, <1>8, <1>9, <1>10, <1>11
     DEF Next, ReaderStep

LEMMA SizeInvInit == Init => SizeInv
<1> SUFFICES ASSUME Init PROVE SizeInv  OBVIOUS
<1>1. Len(entries) = 0 /\ DOMAIN entries = {}  BY DEF Init
<1>2. QED  BY <1>1, ListCacheAssumption DEF Init, SizeInv, ByAge, Past, Room

\* "max_entries" and "oldest-inserted is evicted first" (cache.py): clears from any
\* number of worker threads, between any two steps of a get or a set, leave the cache
\* within its limit, with each list held once and in the order of age.
THEOREM CacheKeepsItsLimit == Spec => []BoundedByAge
<1>1. SizeInv => BoundedByAge  BY DEF SizeInv, ByAge, BoundedByAge
<1>2. CacheTypes /\ SizeInv /\ [Next]_vars => CacheTypes' /\ SizeInv'
  BY CacheTypesNext, SizeInvNext
<1>3. QED  BY <1>1, <1>2, CacheTypesInit, SizeInvInit, PTL DEF Spec
-----------------------------------------------------------------------------
(* The age of what is answered.  A list that was read lacks only writes made *)
(* since its reader began, and an entry is no older than its read is long.   *)

HasRead == {"read", "replacing", "evicting", "storing"}

Committed == \A v \in 1 .. Len(commits) : commits[v] <= now

Recent ==
    \A i \in DOMAIN entries : \A v \in entries[i].value + 1 .. Len(commits) :
        entries[i].at - commits[v] <= ReadLimit

Timely ==
    \A r \in Readers :
        /\ pc[r] \in Busy \cup {"answered"} => began[r] <= now
        /\ pc[r] \in Busy => now - began[r] <= ReadLimit

ReadSince ==
    \A r \in Readers : pc[r] \in HasRead =>
        \A v \in value[r] + 1 .. Len(commits) : commits[v] >= began[r]

AgeInv == Committed /\ Recent /\ Timely /\ ReadSince /\ StaleOnlyForTTL

\* A reader's step that adds no entry, with what it then goes by.
LEMMA AgeMoves ==
  ASSUME CacheTypes, AgeInv, NEW r \in Readers, UNCHANGED <<now, commits>>,
         \A i \in DOMAIN entries' : \E j \in DOMAIN entries : entries'[i] = entries[j],
         \A q \in Readers : q # r =>
            pc'[q] = pc[q] /\ began'[q] = began[q] /\ value'[q] = value[q],
         pc'[r] \in Busy \cup {"answered"} => began'[r] <= now,
         pc'[r] \in Busy => now - began'[r] <= ReadLimit,
         pc'[r] \in HasRead =>
            \A v \in value'[r] + 1 .. Len(commits) : commits[v] >= began'[r],
         pc'[r] = "answered" =>
            \A v \in value'[r] + 1 .. Len(commits) : began'[r] - commits[v] <= TTL + ReadLimit
  PROVE  AgeInv'
<1> USE DEF AgeInv
<1>1. Committed'  BY DEF Committed
<1>2. Recent'
  <2> SUFFICES ASSUME NEW i \in DOMAIN entries',
                      NEW v \in entries'[i].value + 1 .. Len(commits)
               PROVE  entries'[i].at - commits[v] <= ReadLimit
    BY DEF Recent
  <2>1. PICK j \in DOMAIN entries : entries'[i] = entries[j]  OBVIOUS
  <2>2. QED  BY <2>1 DEF Recent
<1>3. Timely'  BY DEF Timely
<1>4. ReadSince'  BY DEF ReadSince
<1>5. StaleOnlyForTTL'  BY DEF StaleOnlyForTTL, Version
<1>6. QED  BY <1>1, <1>2, <1>3, <1>4, <1>5

\* A write is committed now, after whatever has begun and been stored.
LEMMA AgeCommit ==
  ASSUME CacheTypes, SizeInv, AgeInv, commits' = Append(commits, now),
         UNCHANGED <<now, entries, pc, began, value>>
  PROVE  AgeInv'
<1> DEFINE n == Len(commits)
<1>0. /\ n \in Nat /\ now \in Nat /\ TTL \in Nat /\ ReadLimit \in Nat
      /\ began \in [Readers -> Nat] /\ value \in [Readers -> Nat]
      /\ \A i \in DOMAIN entries : /\ entries[i].at \in Nat /\ entries[i].value \in Nat
                                   /\ entries[i].at <= now
  <2>1. \A i \in DOMAIN entries : entries[i] \in EntryType  BY DEF CacheTypes, Types
  <2>2. QED  BY <2>1, ListCacheAssumption DEF CacheTypes, Types, EntryType, SizeInv, Past
<1>1. /\ Len(commits') = n + 1
      /\ \A v \in 1 .. n : commits'[v] = commits[v] /\ commits[v] \in Nat
      /\ commits'[n + 1] = now
  BY <1>0 DEF CacheTypes, Types
<1> HIDE DEF n
\* The same range with one write more.
<1>r. ASSUME NEW m \in Nat, NEW v \in m + 1 .. n + 1
      PROVE  v = n + 1 \/ (v \in m + 1 .. n /\ v \in 1 .. n)
  BY <1>0
<1>2. Committed'
  <2> SUFFICES ASSUME NEW v \in 1 .. n + 1 PROVE commits'[v] <= now
    BY <1>1 DEF Committed
  <2>1. v = n + 1 \/ v \in 1 .. n  BY <1>0
  <2>2. QED  BY <1>0, <1>1, <2>1 DEF AgeInv, Committed, n
<1>3. Recent'
  <2> SUFFICES ASSUME NEW i \in DOMAIN entries, NEW v \in entries[i].value + 1 .. n + 1
               PROVE  entries[i].at - commits'[v] <= ReadLimit
    BY <1>1 DEF Recent
  <2>1. CASE v = n + 1  BY <1>0, <1>1, <2>1
  <2>2. CASE v \in entries[i].value + 1 .. n /\ v \in 1 .. n
    BY <1>1, <2>2 DEF AgeInv, Recent, n
  <2>3. QED  BY <1>0, <1>r, <2>1, <2>2
<1>4. Timely'  BY DEF AgeInv, Timely
<1>5. ReadSince'
  <2> SUFFICES ASSUME NEW r \in Readers, pc[r] \in HasRead, NEW v \in value[r] + 1 .. n + 1
               PROVE  commits'[v] >= began[r]
    BY <1>1 DEF ReadSince
  <2>0. began[r] <= now /\ began[r] \in Nat /\ value[r] \in Nat
    BY <1>0 DEF AgeInv, Timely, HasRead, Busy
  <2>1. CASE v = n + 1  BY <1>0, <1>1, <2>0, <2>1
  <2>2. CASE v \in value[r] + 1 .. n /\ v \in 1 .. n
    BY <1>1, <2>2 DEF AgeInv, ReadSince, n
  <2>3. QED  BY <1>r, <2>0, <2>1, <2>2
<1>6. StaleOnlyForTTL'
  <2> SUFFICES ASSUME NEW r \in Readers, pc[r] = "answered", NEW v \in value[r] + 1 .. n + 1
               PROVE  began[r] - commits'[v] <= TTL + ReadLimit
    BY <1>1 DEF StaleOnlyForTTL, Version
  <2>0. began[r] <= now /\ began[r] \in Nat /\ value[r] \in Nat
    BY <1>0 DEF AgeInv, Timely
  <2>1. CASE v = n + 1  BY <1>0, <1>1, <2>0, <2>1
  <2>2. CASE v \in value[r] + 1 .. n /\ v \in 1 .. n
    BY <1>1, <2>2 DEF AgeInv, StaleOnlyForTTL, Version, n
  <2>3. QED  BY <1>r, <2>0, <2>1, <2>2
<1>7. QED  BY <1>2, <1>3, <1>4, <1>5, <1>6 DEF AgeInv

LEMMA AgeStore ==
  ASSUME CacheTypes, AgeInv, NEW r \in Readers, Store(r)
  PROVE  AgeInv'
<1> DEFINE n == Len(entries)
           e == [key |-> key[r], value |-> value[r], at |-> now]
<1>0. /\ entries \in Seq(EntryType) /\ n \in Nat /\ now \in Nat /\ pc \in [Readers -> Pcs]
      /\ began \in [Readers -> Nat] /\ value \in [Readers -> Nat]
      /\ DOMAIN entries = 1 .. n /\ TTL \in Nat /\ ReadLimit \in Nat
      /\ Len(commits) \in Nat /\ \A v \in 1 .. Len(commits) : commits[v] \in Nat
  BY ListCacheAssumption DEF CacheTypes, Types
<1>1. /\ pc[r] = "storing" /\ entries' = Append(entries, e)
      /\ pc' = [pc EXCEPT ![r] = "answered"] /\ UNCHANGED <<now, commits, began, value>>
  BY DEF Store
<1>2. /\ began[r] <= now /\ now - began[r] <= ReadLimit
      /\ \A v \in value[r] + 1 .. Len(commits) : commits[v] >= began[r]
  BY <1>1 DEF AgeInv, Timely, ReadSince, HasRead, Busy
<1>3. /\ DOMAIN entries' = 1 .. n + 1
      /\ \A i \in 1 .. n + 1 : entries'[i] = IF i = n + 1 THEN e ELSE entries[i]
  BY <1>0, <1>1
<1>4. e.value = value[r] /\ e.at = now  OBVIOUS
<1>v. ASSUME NEW v \in value[r] + 1 .. Len(commits)
      PROVE  commits[v] \in Nat /\ commits[v] >= began[r]
  BY <1>0, <1>2
<1> HIDE DEF n, e
<1>5. Recent'
  <2> SUFFICES ASSUME NEW i \in 1 .. n + 1, NEW v \in entries'[i].value + 1 .. Len(commits)
               PROVE  entries'[i].at - commits[v] <= ReadLimit
    BY <1>1, <1>3 DEF Recent
  <2>1. CASE i = n + 1
    <3>1. entries'[i] = e  BY <1>3, <2>1
    <3>2. commits[v] \in Nat /\ commits[v] >= began[r]  BY <1>v, <1>4, <3>1
    <3>3. now - commits[v] <= ReadLimit  BY <1>0, <1>2, <3>2
    <3>4. QED  BY <1>4, <3>1, <3>3
  <2>2. CASE i # n + 1
    <3>1. i \in 1 .. n /\ entries'[i] = entries[i]  BY <1>0, <1>3, <2>2
    <3>2. QED  BY <1>0, <3>1 DEF AgeInv, Recent
  <2>3. QED  BY <2>1, <2>2
<1>6. Committed' /\ Timely' /\ ReadSince'
  BY <1>0, <1>1, <1>2 DEF AgeInv, Committed, Timely, ReadSince, HasRead, Busy
<1>7. StaleOnlyForTTL'
  <2> SUFFICES ASSUME NEW q \in Readers, pc'[q] = "answered",
                      NEW v \in value[q] + 1 .. Len(commits)
               PROVE  began[q] - commits[v] <= TTL + ReadLimit
    BY <1>1 DEF StaleOnlyForTTL, Version
  <2>1. CASE q = r
    <3>1. commits[v] \in Nat /\ commits[v] >= began[r]  BY <1>v, <2>1
    <3>2. QED  BY <1>0, <2>1, <3>1
  <2>2. CASE q # r
    <3>1. pc[q] = "answered"  BY <1>0, <1>1, <2>2
    <3>2. QED  BY <3>1 DEF AgeInv, StaleOnlyForTTL, Version
  <2>3. QED  BY <2>1, <2>2
<1>8. QED  BY <1>5, <1>6, <1>7 DEF AgeInv

\* A list that is still good is at most TTL older than the request it answers.
LEMMA AgeLookup ==
  ASSUME CacheTypes, SizeInv, AgeInv, NEW r \in Readers, NEW k \in Keys, Lookup(r, k)
  PROVE  AgeInv'
<1>0. /\ entries \in Seq(EntryType) /\ now \in Nat /\ pc \in [Readers -> Pcs]
      /\ began \in [Readers -> Nat] /\ value \in [Readers -> Nat]
      /\ TTL \in Nat /\ ReadLimit \in Nat
      /\ Len(commits) \in Nat /\ \A v \in 1 .. Len(commits) : commits[v] \in Nat
  BY ListCacheAssumption DEF CacheTypes, Types
<1>1. /\ UNCHANGED <<now, commits, entries>> /\ began' = [began EXCEPT ![r] = now]
      /\ \A q \in Readers : q # r => pc'[q] = pc[q] /\ value'[q] = value[q]
      /\ pc'[r] \in {"reading", "expiring", "answered"}
      /\ pc'[r] = "answered" =>
            /\ Cached(k) /\ ~ Expired(Entry(k)) /\ value'[r] = Entry(k).value
  BY <1>0 DEF Lookup
<1>2. began'[r] = now /\ \A q \in Readers : q # r => began'[q] = began[q]
  BY <1>0, <1>1
<1>3. pc'[r] \notin HasRead  BY <1>1 DEF HasRead
<1>4. now - began'[r] <= ReadLimit /\ began'[r] <= now  BY <1>0, <1>2
<1>5. ASSUME pc'[r] = "answered", NEW v \in value'[r] + 1 .. Len(commits)
      PROVE  began'[r] - commits[v] <= TTL + ReadLimit
  <2>1. Place(k) \in DOMAIN entries /\ Entry(k) = entries[Place(k)]
    BY <1>1, <1>5, PlaceOf DEF Entry
  <2>2. Entry(k).at \in Nat /\ Entry(k).value \in Nat /\ now - Entry(k).at <= TTL
    <3>1. Entry(k).at \in Nat /\ Entry(k).value \in Nat  BY <1>0, <1>1, <1>5, EntryOf
    <3>2. QED  BY <1>0, <1>1, <1>5, <3>1 DEF Expired
  <2>3. Entry(k).at - commits[v] <= ReadLimit
    BY <1>1, <1>5, <2>1 DEF AgeInv, Recent
  <2>4. commits[v] \in Nat
    <3>1. v \in 1 .. Len(commits)  BY <1>0, <1>1, <1>5, <2>2
    <3>2. QED  BY <1>0, <3>1
  <2>5. QED  BY <1>0, <1>2, <2>2, <2>3, <2>4
<1>6. QED  BY <1>1, <1>2, <1>3, <1>4, <1>5, AgeMoves

LEMMA AgeInvNext == CacheTypes /\ SizeInv /\ AgeInv /\ [Next]_vars => AgeInv'
<1> SUFFICES ASSUME CacheTypes, SizeInv, AgeInv, [Next]_vars PROVE AgeInv'  OBVIOUS
<1>0. /\ entries \in Seq(EntryType) /\ now \in Nat /\ pc \in [Readers -> Pcs]
      /\ began \in [Readers -> Nat] /\ value \in [Readers -> Nat]
      /\ Len(commits) \in Nat
  BY DEF CacheTypes, Types
<1>t. \A r \in Readers : /\ pc[r] \in Busy \cup {"answered"} => began[r] <= now
                         /\ pc[r] \in Busy => now - began[r] <= ReadLimit
  BY DEF AgeInv, Timely
<1>b. HasRead \subseteq Busy /\ {"expiring", "reading"} \subseteq Busy
      /\ {"idle", "answered", "raised"} \cap Busy = {} /\ {"expiring", "reading"} \cap HasRead = {}
  BY DEF HasRead, Busy
<1>1. ASSUME NEW r \in Readers, NEW k \in Keys, Lookup(r, k) PROVE AgeInv'
  BY <1>1, AgeLookup
<1>2. ASSUME NEW r \in Readers, DropExpired(r) PROVE AgeInv'
  <2>1. /\ pc'[r] \in {"reading", "raised"} /\ pc[r] = "expiring"
        /\ UNCHANGED <<now, commits, began, value>> /\ entries' = Without(key[r])
        /\ \A q \in Readers : q # r => pc'[q] = pc[q]
    BY <1>0, <1>2 DEF DropExpired
  <2>2. \A i \in DOMAIN entries' : \E j \in DOMAIN entries : entries'[i] = entries[j]
    <3>1. CASE Cached(key[r])
      BY <1>0, <2>1, <3>1, ThinnedWithout, ThinnedByAge DEF SizeInv
    <3>2. CASE ~ Cached(key[r])  BY <2>1, <3>2 DEF Without
    <3>3. QED  BY <3>1, <3>2
  <2>3. began[r] <= now /\ now - began[r] <= ReadLimit
    BY <1>t, <2>1 DEF Busy, HasRead
  <2>4. pc'[r] \notin HasRead /\ pc'[r] # "answered"  BY <2>1 DEF HasRead
  <2>5. QED  BY <2>1, <2>2, <2>3, <2>4, AgeMoves
<1>3. ASSUME NEW r \in Readers, ReadTable(r) PROVE AgeInv'
  <2>1. /\ pc'[r] \in {"read", "raised"} /\ pc[r] = "reading"
        /\ UNCHANGED <<now, commits, began, entries>>
        /\ pc'[r] = "read" => value'[r] = Len(commits)
        /\ \A q \in Readers : q # r => pc'[q] = pc[q] /\ value'[q] = value[q]
    BY <1>0, <1>3 DEF ReadTable, Version
  <2>2. Len(commits) + 1 .. Len(commits) = {}  BY <1>0
  <2>3. began[r] <= now /\ now - began[r] <= ReadLimit
    BY <1>t, <2>1 DEF Busy, HasRead
  <2>4. pc'[r] # "answered" /\ (pc'[r] \in HasRead => value'[r] = Len(commits))
    BY <2>1 DEF HasRead
  <2>5. pc'[r] \in HasRead => \A v \in value'[r] + 1 .. Len(commits) : commits[v] >= began[r]
    BY <2>2, <2>4
  <2>6. QED  BY <2>1, <2>3, <2>4, <2>5, AgeMoves
<1>4. ASSUME NEW r \in Readers, BeginSet(r) PROVE AgeInv'
  <2>1. /\ pc'[r] \in HasRead /\ pc[r] \in HasRead
        /\ UNCHANGED <<now, commits, began, value, entries>>
        /\ \A q \in Readers : q # r => pc'[q] = pc[q]
    BY <1>0, <1>4 DEF BeginSet, HasRead
  <2>2. \A v \in value[r] + 1 .. Len(commits) : commits[v] >= began[r]
    BY <2>1 DEF AgeInv, ReadSince
  <2>3. began[r] <= now /\ now - began[r] <= ReadLimit
    BY <1>t, <2>1 DEF Busy, HasRead
  <2>4. pc'[r] # "answered"  BY <2>1 DEF HasRead
  <2>5. QED  BY <2>1, <2>2, <2>3, <2>4, AgeMoves
<1>5. ASSUME NEW r \in Readers, Delete(r) PROVE AgeInv'
  <2>1. /\ pc'[r] \in {"storing", "raised"} /\ pc[r] \in HasRead
        /\ UNCHANGED <<now, commits, began, value>>
        /\ \A q \in Readers : q # r => pc'[q] = pc[q]
    BY <1>0, <1>5 DEF Delete, HasRead
  <2>2. \A i \in DOMAIN entries' : \E j \in DOMAIN entries : entries'[i] = entries[j]
    <3>1. CASE entries' = Without(key[r]) /\ Cached(key[r])
      BY <1>0, <3>1, ThinnedWithout, ThinnedByAge DEF SizeInv
    <3>2. CASE entries' = Tail(entries) /\ entries # << >>
      BY <1>0, <3>2, ThinnedTail, ThinnedByAge DEF SizeInv
    <3>3. CASE UNCHANGED entries  BY <3>3
    <3>4. QED  BY <1>5, <3>1, <3>2, <3>3 DEF Delete
  <2>3. \A v \in value[r] + 1 .. Len(commits) : commits[v] >= began[r]
    BY <2>1 DEF AgeInv, ReadSince
  <2>4. began[r] <= now /\ now - began[r] <= ReadLimit
    BY <1>t, <2>1 DEF Busy, HasRead
  <2>5. pc'[r] # "answered"  BY <2>1
  <2>6. QED  BY <2>1, <2>2, <2>3, <2>4, <2>5, AgeMoves
<1>6. ASSUME NEW r \in Readers, Store(r) PROVE AgeInv'
  BY <1>6, AgeStore
<1>7. ASSUME NEW r \in Readers, Respond(r) PROVE AgeInv'
  <2>1. /\ pc'[r] = "idle" /\ UNCHANGED <<now, commits, entries>>
        /\ \A q \in Readers : q # r =>
              pc'[q] = pc[q] /\ began'[q] = began[q] /\ value'[q] = value[q]
    BY <1>0, <1>7 DEF Respond
  <2>2. QED  BY <1>b, <2>1, AgeMoves
<1>8. ASSUME NEW w \in Writers, Write(w) PROVE AgeInv'
  BY <1>8, AgeCommit DEF Write, Commit, reader
<1>9. ASSUME NEW w \in Writers, Clear(w) PROVE AgeInv'
  <2>1. entries' = << >> /\ UNCHANGED <<now, commits, pc, began, value>>
    BY <1>9 DEF Clear, reader
  <2>2. DOMAIN entries' = {}  BY <2>1
  <2>3. Recent'  BY <2>2 DEF Recent
  <2>4. QED  BY <2>1, <2>3 DEF AgeInv, Committed, Timely, ReadSince, StaleOnlyForTTL, Version
<1>10. CASE ScriptWrite
  BY <1>10, AgeCommit DEF ScriptWrite, Commit, reader
<1>11. CASE Tick
  <2>1. /\ now' = now + 1 /\ UNCHANGED <<commits, entries, pc, began, value>>
        /\ \A r \in Readers : pc[r] \in Busy => now - began[r] < ReadLimit
    BY <1>11 DEF Tick, reader
  <2>2. /\ \A v \in 1 .. Len(commits) : commits[v] \in Nat
        /\ \A r \in Readers : began[r] \in Nat
        /\ ReadLimit \in Nat
    BY ListCacheAssumption DEF CacheTypes, Types
  <2>3. Committed'  BY <1>0, <2>1, <2>2 DEF AgeInv, Committed
  <2>4. Timely'  BY <1>0, <2>1, <2>2 DEF AgeInv, Timely
  <2>5. QED
    BY <2>1, <2>3, <2>4 DEF AgeInv, Recent, ReadSince, StaleOnlyForTTL, Version
<1>12. CASE UNCHANGED vars
  BY <1>12 DEF vars, reader, AgeInv, Committed, Recent, Timely, ReadSince, StaleOnlyForTTL,
               Version
<1>13. QED
  BY <1>1, <1>2, <1>3, <1>4, <1>5, <1>6, <1>7, <1>8, <1>9, <1>10, <1>11, <1>12
     DEF Next, ReaderStep

LEMMA AgeInvInit == Init => AgeInv
<1> SUFFICES ASSUME Init PROVE AgeInv  OBVIOUS
<1>1. Len(commits) = 0 /\ DOMAIN entries = {} /\ 1 .. 0 = {}  BY DEF Init
<1>2. QED
  BY <1>1 DEF Init, AgeInv, Committed, Recent, Timely, ReadSince, StaleOnlyForTTL, Busy, HasRead

\* "the TTL is a backstop": whichever clears are lost or never come, because a
\* script writes from another process, no list that is answered lacks a write older
\* than the TTL and the read that filled the cache.
THEOREM StalenessBounded == Spec => []StaleOnlyForTTL
<1>1. CacheTypes /\ SizeInv /\ AgeInv /\ [Next]_vars => CacheTypes' /\ SizeInv' /\ AgeInv'
  BY CacheTypesNext, SizeInvNext, AgeInvNext
<1>2. AgeInv => StaleOnlyForTTL  BY DEF AgeInv
<1>3. QED  BY <1>1, <1>2, CacheTypesInit, SizeInvInit, AgeInvInit, PTL DEF Spec
=============================================================================
