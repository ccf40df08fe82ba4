--------------------------- MODULE IOCacheProofs ----------------------------
(***************************************************************************)
(* Proofs about IOCache and its caller StaticHandler, for any number of    *)
(* threads, files, versions of a file and any size of the cache.           *)
(***************************************************************************)
EXTENDS StaticHandler, SequenceTheorems, FiniteSetTheorems, TLAPS

\* The cache with its callers and the writers of files; and the handler.
CacheSpec == CacheInit /\ [][CacheNext]_cacheVars
StaticSpec == StaticInit /\ [][StaticNext]_staticVars

(***************************************************************************)
(* Lists.                                                                  *)
(***************************************************************************)

\* push_front.
LEMMA ConsList ==
  ASSUME NEW S, NEW s \in Seq(S), NEW e \in S
  PROVE  /\ <<e>> \o s \in Seq(S)
         /\ Len(<<e>> \o s) = Len(s) + 1
         /\ ToSet(<<e>> \o s) = {e} \cup ToSet(s)
<1> DEFINE r == <<e>> \o s
<1>1. <<e>> \in Seq(S) /\ Len(<<e>>) = 1 /\ <<e>>[1] = e
  OBVIOUS
<1>2. Len(s) \in Nat /\ DOMAIN s = 1..Len(s)
  BY LenProperties
<1>3. /\ r \in Seq(S) /\ Len(r) = Len(s) + 1
      /\ \A i \in 1..(Len(s) + 1) : r[i] = IF i <= 1 THEN e ELSE s[i - 1]
  BY <1>1, <1>2, ConcatProperties
<1>4. DOMAIN r = 1..(Len(s) + 1)
  BY <1>3, LenProperties
<1> HIDE DEF r
<1>5. ToSet(r) \subseteq {e} \cup ToSet(s)
  BY <1>2, <1>3, <1>4 DEF ToSet
<1>6. e \in ToSet(r)
  BY <1>2, <1>3, <1>4 DEF ToSet
<1>7. ASSUME NEW i \in 1..Len(s) PROVE s[i] \in ToSet(r)
  <2>1. i + 1 \in 1..(Len(s) + 1) /\ r[i + 1] = s[i]
    BY <1>2, <1>3
  <2> QED BY <1>4, <2>1 DEF ToSet
<1>8. ToSet(s) \subseteq ToSet(r)
  BY <1>2, <1>7 DEF ToSet
<1> QED BY <1>3, <1>5, <1>6, <1>8 DEF r

\* erase of one node; drop_entry erases the last one.
LEMMA WithoutList ==
  ASSUME NEW S, NEW s \in Seq(S), NEW i \in 1..Len(s)
  PROVE  /\ Without(s, i) \in Seq(S)
         /\ Len(Without(s, i)) = Len(s) - 1
         /\ ToSet(Without(s, i)) \subseteq ToSet(s)
         /\ \A e \in ToSet(s) : e # s[i] => e \in ToSet(Without(s, i))
<1> DEFINE r == Without(s, i)
           a == SubSeq(s, 1, i - 1)
           b == SubSeq(s, i + 1, Len(s))
<1>0. Len(s) \in Nat /\ \A j \in 1..Len(s) : s[j] \in S
  BY ElementOfSeq
<1>1. Len(s) \in Nat /\ DOMAIN s = 1..Len(s)
  BY LenProperties
<1>2. /\ a \in Seq(S) /\ Len(a) = i - 1
      /\ \A j \in 1..(i - 1) : a[j] = s[j]
  BY <1>0, SubSeqProperties
<1>3. /\ b \in Seq(S) /\ Len(b) = Len(s) - i
      /\ \A j \in 1..(Len(s) - i) : b[j] = s[i + j]
  BY <1>0, SubSeqProperties
<1> HIDE DEF a, b
<1>4. /\ r \in Seq(S) /\ Len(r) = Len(s) - 1
      /\ \A j \in 1..(Len(s) - 1) : r[j] = IF j <= i - 1 THEN a[j] ELSE b[j - (i - 1)]
  <2>1. r = a \o b
    BY DEF Without, a, b
  <2> HIDE DEF r
  <2>2. /\ r \in Seq(S) /\ Len(r) = Len(a) + Len(b)
        /\ \A j \in 1..(Len(a) + Len(b)) : r[j] = IF j <= Len(a) THEN a[j] ELSE b[j - Len(a)]
    BY <1>2, <1>3, <2>1, ConcatProperties
  <2>3. Len(a) + Len(b) = Len(s) - 1
    BY <1>1, <1>2, <1>3
  <2> QED BY <1>2, <2>2, <2>3
<1>5. Len(r) = Len(s) - 1 /\ DOMAIN r = 1..(Len(s) - 1)
  BY <1>1, <1>2, <1>3, <1>4, LenProperties
<1> HIDE DEF r
<1>6. ASSUME NEW j \in 1..(Len(s) - 1)
      PROVE  r[j] = IF j < i THEN s[j] ELSE s[j + 1]
  <2>1. CASE j < i
    BY <1>1, <1>2, <1>3, <1>4, <2>1
  <2>2. CASE j >= i
    <3>1. r[j] = b[j - (i - 1)] /\ j - (i - 1) \in 1..(Len(s) - i)
      BY <1>1, <1>2, <1>3, <1>4, <2>2
    <3>2. b[j - (i - 1)] = s[i + (j - (i - 1))]
      BY <1>3, <3>1
    <3>3. i + (j - (i - 1)) = j + 1
      BY <1>1
    <3> QED BY <2>2, <3>1, <3>2, <3>3
  <2> QED BY <1>1, <2>1, <2>2
<1>7. ToSet(r) \subseteq ToSet(s)
  <2> SUFFICES ASSUME NEW j \in 1..(Len(s) - 1) PROVE r[j] \in ToSet(s)
    BY <1>5 DEF ToSet
  <2>1. j \in 1..Len(s) /\ j + 1 \in 1..Len(s)
    BY <1>1
  <2>2. s[j] \in ToSet(s) /\ s[j + 1] \in ToSet(s)
    BY <1>1, <2>1 DEF ToSet
  <2> QED BY <1>6, <2>2
<1>8. ASSUME NEW e \in ToSet(s), e # s[i] PROVE e \in ToSet(r)
  <2>1. PICK j \in 1..Len(s) : e = s[j]
    BY <1>1 DEF ToSet
  <2>2. j # i
    BY <1>8, <2>1
  <2>3. CASE j < i
    <3>1. j \in 1..(Len(s) - 1) /\ r[j] = e
      BY <1>1, <1>6, <2>1, <2>3
    <3> QED BY <1>5, <3>1 DEF ToSet
  <2>4. CASE j > i
    <3>1. j - 1 \in 1..(Len(s) - 1) /\ ~(j - 1 < i) /\ (j - 1) + 1 = j
      BY <1>1, <2>4
    <3>2. r[j - 1] = e
      BY <1>6, <2>1, <3>1
    <3> QED BY <1>5, <3>1, <3>2 DEF ToSet
  <2> QED BY <1>1, <2>2, <2>3, <2>4
<1> QED BY <1>4, <1>5, <1>7, <1>8 DEF r

\* drop_entry's list without its back is an erase at the last place.
LEMMA FrontList ==
  ASSUME NEW S, NEW s \in Seq(S), Len(s) > 0
  PROVE  SubSeq(s, 1, Len(s) - 1) = Without(s, Len(s)) /\ Len(s) \in 1..Len(s)
<1>1. Len(s) \in Nat /\ \A j \in 1..Len(s) : s[j] \in S
  BY ElementOfSeq
<1>2. SubSeq(s, 1, Len(s) - 1) \in Seq(S)
  BY <1>1, SubSeqProperties
<1>3. SubSeq(s, Len(s) + 1, Len(s)) = <<>>
  BY <1>1, SubSeqEmpty
<1> QED BY <1>1, <1>2, <1>3, ConcatEmptySeq DEF Without

(***************************************************************************)
(* The invariant.                                                          *)
(***************************************************************************)

Entry == [addr : Nat \ {0}, path : Paths, size : Nat, last_mtime : Nat, data : Versions]
Question == [path : Paths, mtime : Nat, size : Nat]

\* Types; what a thread holds at each of its steps.
CacheTypes ==
  /\ file \in [Paths -> Versions]
  /\ entries \in Seq(Entry)
  /\ pc \in [Threads -> {"idle", "access", "load", "add", "open", "spin"}]
  /\ asked \in [Threads -> Question \cup {NULL}]
  /\ created \in [Threads -> Entry \cup {NULL}]
  /\ cached \in [Threads -> Entry \cup {NULL}]
  /\ \A t \in Threads :
       /\ pc[t] # "idle" => asked[t] \in Question
       /\ pc[t] = "add" => created[t] \in Entry
       /\ pc[t] \in {"idle", "access", "load", "add"} => cached[t] = NULL

\* The entries that there are: in the list, or not yet.
Held == ToSet(entries) \cup ({created[t] : t \in Threads} \ {NULL})

\* An address is that of one entry.
OneOwner == \A e, f \in Held : e.addr = f.addr => e = f

\* A map that points into a list.
Mapped(list, map) ==
  \A p \in DOMAIN map : \E e \in ToSet(list) : e.addr = map[p] /\ e.path = p

CacheInv == CacheTypes /\ OneOwner /\ Mapped(entries, entry_map)

\* Mapped is what MapPointsIntoList says of the list and the map.
LEMMA MappedIsMapPointsIntoList ==
  Mapped(entries, entry_map) <=> MapPointsIntoList
BY DEF Mapped, MapPointsIntoList, ToSet

\* The address of a new entry is not that of another one: one of n + 1
\* numbers is not among n addresses.
LEMMA FreshAddress ==
  ASSUME CacheTypes
  PROVE  NewAddress \in Nat \ {0} /\ NewAddress \notin Addresses
<1> DEFINE A == {entries[i].addr : i \in DOMAIN entries}
           B == {created[t].addr : t \in Threads}
           f == [i \in 1..Len(entries) |-> entries[i].addr]
           g == [t \in Threads |-> created[t].addr]
<1>1. Len(entries) \in Nat /\ DOMAIN entries = 1..Len(entries)
  BY LenProperties DEF CacheTypes
<1>2. f \in Surjection(1..Len(entries), A)
  BY <1>1 DEF Surjection
<1>3. g \in Surjection(Threads, B)
  BY DEF Surjection
<1>4. IsFiniteSet(1..Len(entries)) /\ IsFiniteSet(Threads)
  BY <1>1, FS_Interval, IOCacheAssumption
<1> HIDE DEF f, g
<1>5. IsFiniteSet(A) /\ IsFiniteSet(B)
  <2> HIDE DEF A, B
  <2> QED BY <1>2, <1>3, <1>4, FS_Surjection
<1>6. Addresses = A \cup B
  BY DEF Addresses
<1> HIDE DEF A, B
<1>7. IsFiniteSet(Addresses)
  BY <1>5, <1>6, FS_Union
<1> DEFINE n == Cardinality(Addresses)
<1>8. n \in Nat
  BY <1>7, FS_CardinalityType
<1>9. IsFiniteSet(1..(n + 1)) /\ Cardinality(1..(n + 1)) = n + 1
  <2>1. n + 1 \in Int /\ ~(1 > n + 1) /\ (n + 1) - 1 + 1 = n + 1
    BY <1>8
  <2> HIDE DEF n
  <2> QED BY <2>1, FS_Interval
<1>10. \E a \in 1..(n + 1) : a \notin Addresses
  <2> SUFFICES ASSUME 1..(n + 1) \subseteq Addresses PROVE FALSE
    OBVIOUS
  <2>1. Cardinality(1..(n + 1)) <= n
    BY <1>7, FS_Subset
  <2> QED BY <1>8, <1>9, <2>1
<1>11. NewAddress \in 1..(n + 1) /\ NewAddress \notin Addresses
  BY <1>10 DEF NewAddress
<1> QED BY <1>8, <1>11

\* find gives an entry of the path, in the list.
LEMMA PositionMapped ==
  ASSUME CacheInv, NEW p \in DOMAIN entry_map
  PROVE  /\ Position(p) \in 1..Len(entries)
         /\ entries[Position(p)] \in ToSet(entries)
         /\ entries[Position(p)] \in Entry
         /\ entries[Position(p)].path = p
<1>1. DOMAIN entries = 1..Len(entries) /\ \A i \in 1..Len(entries) : entries[i] \in Entry
  BY LenProperties, ElementOfSeq DEF CacheInv, CacheTypes
<1>2. PICK e \in ToSet(entries) : e.addr = entry_map[p] /\ e.path = p
  BY DEF CacheInv, Mapped
<1>3. \E i \in DOMAIN entries : entries[i].addr = entry_map[p]
  BY <1>2 DEF ToSet
<1>4. Position(p) \in DOMAIN entries /\ entries[Position(p)].addr = entry_map[p]
  BY <1>3 DEF Position
<1>5. entries[Position(p)] \in ToSet(entries)
  BY <1>4 DEF ToSet
<1>6. entries[Position(p)] = e
  BY <1>2, <1>4, <1>5 DEF CacheInv, OneOwner, Held
<1> QED BY <1>1, <1>2, <1>4, <1>5, <1>6

\* load_cache leaves a list of known entries with a map into it, and no more
\* than max_cache_entry - 1 of them or one less than there were.
LEMMA LoadCacheEffect ==
  ASSUME NEW t, NEW list \in Seq(Entry), NEW map, Mapped(list, map),
         max_cache_entry > 0, load_cache(t, list, map)
  PROVE  /\ entries' \in Seq(Entry)
         /\ ToSet(entries') \subseteq ToSet(list)
         /\ Mapped(entries', entry_map')
         /\ \/ Len(entries') = Len(list) - 1
            \/ Len(entries') = Len(list) /\ Len(list) < max_cache_entry
<1>1. Len(list) \in Nat /\ max_cache_entry \in Nat
  BY IOCacheAssumption
<1>2. CASE Len(list) >= max_cache_entry
  <2> DEFINE n == Len(list)
             r == Without(list, n)
  <2>1. n \in 1..Len(list) /\ entries' = r /\ entry_map' = Unmap(map, list[n].path)
    BY <1>1, <1>2, FrontList DEF load_cache, drop_entry
  <2>2. /\ r \in Seq(Entry) /\ Len(r) = Len(list) - 1 /\ ToSet(r) \subseteq ToSet(list)
        /\ \A e \in ToSet(list) : e # list[n] => e \in ToSet(r)
    BY <2>1, WithoutList
  <2> HIDE DEF n, r
  <2>3. Mapped(r, Unmap(map, list[n].path))
    <3> SUFFICES ASSUME NEW p \in DOMAIN map, p # list[n].path
                 PROVE  \E e \in ToSet(r) : e.addr = map[p] /\ e.path = p
      BY DEF Mapped, Unmap
    <3>1. PICK e \in ToSet(list) : e.addr = map[p] /\ e.path = p
      BY DEF Mapped
    <3> QED BY <2>2, <3>1
  <2> QED BY <2>1, <2>2, <2>3
<1>3. CASE ~(Len(list) >= max_cache_entry)
  BY <1>1, <1>3 DEF load_cache
<1> QED BY <1>2, <1>3

\* Removing a stale entry first (remove_entry) keeps the map into the list.
LEMMA RemoveEntryMapped ==
  ASSUME CacheInv, NEW p \in DOMAIN entry_map
  PROVE  /\ Without(entries, Position(p)) \in Seq(Entry)
         /\ Len(Without(entries, Position(p))) = Len(entries) - 1
         /\ ToSet(Without(entries, Position(p))) \subseteq ToSet(entries)
         /\ Mapped(Without(entries, Position(p)), Unmap(entry_map, p))
<1> DEFINE i == Position(p)
           r == Without(entries, i)
<1>1. i \in 1..Len(entries) /\ entries[i].path = p /\ entries \in Seq(Entry)
  BY PositionMapped DEF CacheInv, CacheTypes
<1> HIDE DEF i
<1>2. /\ r \in Seq(Entry) /\ Len(r) = Len(entries) - 1 /\ ToSet(r) \subseteq ToSet(entries)
      /\ \A e \in ToSet(entries) : e # entries[i] => e \in ToSet(r)
  BY <1>1, WithoutList
<1> HIDE DEF r
<1>3. Mapped(r, Unmap(entry_map, p))
  <2> SUFFICES ASSUME NEW q \in DOMAIN entry_map, q # p
               PROVE  \E e \in ToSet(r) : e.addr = entry_map[q] /\ e.path = q
    BY DEF Mapped, Unmap
  <2>1. PICK e \in ToSet(entries) : e.addr = entry_map[q] /\ e.path = q
    BY DEF Mapped, CacheInv
  <2> QED BY <1>1, <1>2, <2>1
<1> QED BY <1>2, <1>3 DEF r, i

\* A thread without a new entry holds none: the address 0 is no entry's.
LEMMA NullIsNoEntry == NULL \notin Entry
<1>1. NULL.addr = 0
  BY DEF NULL
<1> QED BY <1>1 DEF Entry

\* Steps that create no entry.
LEMMA HeldShrinks ==
  ASSUME OneOwner, Held' \subseteq Held
  PROVE  OneOwner'
BY DEF OneOwner

\* An empty cache satisfies the invariant.
LEMMA CacheInvInit == CacheInit => CacheInv
<1> SUFFICES ASSUME CacheInit PROVE CacheInv
  OBVIOUS
<1>1. entries = <<>> /\ entry_map = <<>> /\ ToSet(entries) = {}
  BY DEF CacheInit, ToSet
<1>2. 1 \in Versions
  <2>1. Mtime \in Seq(Nat) /\ Mtime # <<>>
    BY IOCacheAssumption
  <2>2. Len(Mtime) \in Nat /\ DOMAIN Mtime = 1..Len(Mtime) /\ Len(Mtime) # 0
    BY <2>1, LenProperties, EmptySeq
  <2> QED BY <2>2 DEF Versions
<1>3. CacheTypes
  BY <1>1, <1>2, EmptySeq DEF CacheInit, CacheTypes
<1>4. OneOwner
  BY <1>1 DEF CacheInit, OneOwner, Held
<1>5. Mapped(entries, entry_map)
  BY <1>1 DEF Mapped
<1> QED BY <1>3, <1>4, <1>5 DEF CacheInv

\* A hit moves the entry to the front.
LEMMA HitStep ==
  ASSUME CacheInv, NEW t \in Threads, Hit(t)
  PROVE  CacheInv' /\ Len(entries') = Len(entries) /\ Held' = Held
<1> DEFINE p == asked[t].path
           i == Position(p)
           e == entries[i]
           r == Without(entries, i)
<1>1. p \in DOMAIN entry_map /\ entries \in Seq(Entry)
  BY DEF Hit, CacheInv, CacheTypes
<1>2. i \in 1..Len(entries) /\ e \in ToSet(entries) /\ e \in Entry
  BY <1>1, PositionMapped
<1>3. entries' = <<e>> \o r /\ entry_map' = entry_map
  BY DEF Hit, move_entry
<1>3a. cached' = [cached EXCEPT ![t] = e] /\ pc' = [pc EXCEPT ![t] = "open"]
  BY DEF Hit, Return
<1> HIDE DEF i
<1>4. /\ r \in Seq(Entry) /\ Len(r) = Len(entries) - 1 /\ ToSet(r) \subseteq ToSet(entries)
      /\ \A f \in ToSet(entries) : f # e => f \in ToSet(r)
  BY <1>1, <1>2, WithoutList
<1> HIDE DEF r, e
<1>5. /\ entries' \in Seq(Entry) /\ Len(entries') = Len(r) + 1
      /\ ToSet(entries') = {e} \cup ToSet(r)
  BY <1>2, <1>3, <1>4, ConsList
<1>6. ToSet(entries') = ToSet(entries) /\ Len(entries') = Len(entries)
  BY <1>1, <1>2, <1>4, <1>5, LenProperties
<1>7. CacheTypes'
  BY <1>2, <1>3a, <1>5 DEF Hit, CacheInv, CacheTypes
<1>8. Held' = Held
  BY <1>6 DEF Hit, Held
<1>9. Mapped(entries, entry_map)'
  BY <1>3, <1>6 DEF CacheInv, Mapped
<1> QED BY <1>6, <1>7, <1>8, <1>9, HeldShrinks DEF CacheInv

\* What a call of load_cache makes of the invariant.
LEMMA LoadStep ==
  ASSUME CacheInv, NEW t \in Threads, pc[t] = "access",
         NEW list \in Seq(Entry), NEW map,
         ToSet(list) \subseteq ToSet(entries), Mapped(list, map), max_cache_entry > 0,
         load_cache(t, list, map), UNCHANGED <<file, asked, created, cached>>
  PROVE  CacheInv' /\ Held' \subseteq Held
<1>1. /\ entries' \in Seq(Entry) /\ ToSet(entries') \subseteq ToSet(entries)
      /\ Mapped(entries', entry_map')
  BY LoadCacheEffect
<1>2. pc' = [pc EXCEPT ![t] = "load"]
  BY DEF load_cache
<1>3. CacheTypes'
  BY <1>1, <1>2 DEF CacheInv, CacheTypes
<1>4. Held' \subseteq Held
  BY <1>1 DEF Held
<1> QED BY <1>1, <1>3, <1>4, HeldShrinks DEF CacheInv, Mapped

\* The new entry has an address of its own.
LEMMA CreateStep ==
  ASSUME CacheInv, NEW t \in Threads, Create(t)
  PROVE  /\ CacheInv'
         /\ Held' \subseteq Held \cup {created'[t]} /\ created'[t] \in Entry
         /\ created'[t].last_mtime = asked[t].mtime
         /\ created'[t].data = file[asked[t].path]
<1> DEFINE e == created'[t]
<1>1. /\ e = [addr |-> NewAddress, path |-> asked[t].path, size |-> asked[t].size,
              last_mtime |-> asked[t].mtime, data |-> file[asked[t].path]]
      /\ created' = [created EXCEPT ![t] = e] /\ pc' = [pc EXCEPT ![t] = "add"]
      /\ pc[t] = "load" /\ UNCHANGED <<file, entries, entry_map, asked, cached>>
  BY DEF Create, CacheInv, CacheTypes
<1>2. NewAddress \in Nat \ {0} /\ NewAddress \notin Addresses
  BY FreshAddress DEF CacheInv
<1>3. asked[t] \in Question
  BY <1>1 DEF CacheInv, CacheTypes
<1>4. /\ e \in Entry /\ e.addr = NewAddress /\ e.last_mtime = asked[t].mtime
      /\ e.data = file[asked[t].path]
  BY <1>1, <1>2, <1>3 DEF Entry, Question, CacheInv, CacheTypes
<1> HIDE DEF e
<1>5. CacheTypes'
  BY <1>1, <1>4 DEF CacheInv, CacheTypes
<1>6. Held' \subseteq Held \cup {e}
  BY <1>1 DEF Held, CacheInv, CacheTypes
<1>7. \A f \in Held : f.addr \in Addresses
  BY DEF Held, Addresses, ToSet
<1>8. OneOwner'
  BY <1>2, <1>4, <1>6, <1>7 DEF CacheInv, OneOwner
<1>9. Mapped(entries, entry_map)'
  BY <1>1 DEF CacheInv, Mapped
<1> QED BY <1>4, <1>5, <1>6, <1>8, <1>9 DEF CacheInv, e

\* The entry gets into the list, and into the map unless its path has one.
LEMMA AddStep ==
  ASSUME CacheInv, NEW t \in Threads, Add(t)
  PROVE  CacheInv' /\ Len(entries') = Len(entries) + 1 /\ Held' \subseteq Held
<1> DEFINE e == created[t]
<1>1. /\ pc[t] = "add" /\ entries' = <<e>> \o entries
      /\ entry_map' = [q \in DOMAIN entry_map \cup {e.path} |->
                         IF q \in DOMAIN entry_map THEN entry_map[q] ELSE e.addr]
      /\ created' = [created EXCEPT ![t] = NULL]
      /\ cached' = [cached EXCEPT ![t] = e] /\ pc' = [pc EXCEPT ![t] = "open"]
      /\ UNCHANGED <<file, asked>>
  BY DEF Add, add_entry, Return
<1>2. e \in Entry /\ entries \in Seq(Entry)
  BY <1>1 DEF CacheInv, CacheTypes
<1>3. e \in Held
  BY <1>2, NullIsNoEntry DEF Held
<1> HIDE DEF e
<1>4. /\ entries' \in Seq(Entry) /\ Len(entries') = Len(entries) + 1
      /\ ToSet(entries') = {e} \cup ToSet(entries)
  BY <1>1, <1>2, ConsList
<1>5. CacheTypes'
  BY <1>1, <1>2, <1>4 DEF CacheInv, CacheTypes
<1>6. Held' \subseteq Held
  BY <1>1, <1>3, <1>4 DEF Held, CacheInv, CacheTypes
<1>7. Mapped(entries', entry_map')
  <2> SUFFICES ASSUME NEW p \in DOMAIN entry_map'
               PROVE  \E f \in ToSet(entries') : f.addr = entry_map'[p] /\ f.path = p
    BY DEF Mapped
  <2>1. CASE p \in DOMAIN entry_map
    <3>1. PICK f \in ToSet(entries) : f.addr = entry_map[p] /\ f.path = p
      BY <2>1 DEF CacheInv, Mapped
    <3> QED BY <1>1, <1>4, <2>1, <3>1
  <2>2. CASE p \notin DOMAIN entry_map
    BY <1>1, <1>4, <2>2
  <2> QED BY <2>1, <2>2
<1> QED BY <1>4, <1>5, <1>6, <1>7, HeldShrinks DEF CacheInv, Mapped

\* The other steps leave the list, the map and the new entries alone.
LEMMA OtherStep ==
  ASSUME CacheInv, CacheTypes', UNCHANGED <<entries, entry_map, created>>
  PROVE  CacheInv'
BY DEF CacheInv, OneOwner, Held, Mapped

\* A miss and a refresh end in load_cache, or in nothing.
LEMMA MissStep ==
  ASSUME CacheInv, NEW t \in Threads, Miss(t)
  PROVE  CacheInv' /\ Held' \subseteq Held
<1> USE DEF CacheInv
<1>1. CASE max_cache_entry = 0
  <2>1. CacheTypes'
    BY <1>1 DEF Miss, Return, CacheTypes
  <2> QED BY <1>1, <2>1, OtherStep DEF Miss, Return, Held
<1>2. CASE max_cache_entry # 0
  <2>1. max_cache_entry > 0
    BY <1>2, IOCacheAssumption
  <2>2. /\ load_cache(t, entries, entry_map) /\ pc[t] = "access"
        /\ UNCHANGED <<file, asked, created, cached>>
    BY <1>2 DEF Miss
  <2> QED BY <2>1, <2>2, LoadStep DEF CacheTypes
<1> QED BY <1>1, <1>2

\* A stale entry is removed before load_cache, which may then drop another.
LEMMA RefreshStep ==
  ASSUME CacheInv, NEW t \in Threads, Refresh(t)
  PROVE  CacheInv' /\ Held' \subseteq Held
<1> DEFINE p == asked[t].path
           list == Without(entries, Position(p))
           map == Unmap(entry_map, p)
<1>1. /\ p \in DOMAIN entry_map /\ load_cache(t, list, map) /\ pc[t] = "access"
      /\ UNCHANGED <<file, asked, created, cached>>
  BY DEF Refresh
<1>2. list \in Seq(Entry) /\ ToSet(list) \subseteq ToSet(entries) /\ Mapped(list, map)
  BY <1>1, RemoveEntryMapped
<1>3. max_cache_entry > 0
  BY IOCacheAssumption DEF Refresh
<1> HIDE DEF list, map
<1> QED BY <1>1, <1>2, <1>3, LoadStep

\* Every step of the cache keeps the map into the list and one owner per entry.
LEMMA CacheInvNext == CacheInv /\ [CacheNext]_cacheVars => CacheInv'
<1> SUFFICES ASSUME CacheInv, [CacheNext]_cacheVars PROVE CacheInv'
  OBVIOUS
<1> USE DEF CacheInv
<1>1. ASSUME NEW t \in Threads, Hit(t) PROVE CacheInv'
  BY <1>1, HitStep
<1>2. ASSUME NEW t \in Threads, Miss(t) PROVE CacheInv'
  BY <1>2, MissStep
<1>3. ASSUME NEW t \in Threads, Refresh(t) PROVE CacheInv'
  BY <1>3, RefreshStep
<1>4. ASSUME NEW t \in Threads, Create(t) PROVE CacheInv'
  BY <1>4, CreateStep
<1>5. ASSUME NEW t \in Threads, CreateFails(t) PROVE CacheInv'
  <2>1. CacheTypes'
    BY <1>5 DEF CreateFails, Return, CacheTypes
  <2> QED BY <1>5, <2>1, OtherStep DEF CreateFails
<1>6. ASSUME NEW t \in Threads, Add(t) PROVE CacheInv'
  BY <1>6, AddStep
<1>7. ASSUME NEW t \in Threads, Done(t) \/ Hang(t) PROVE CacheInv'
  <2>1. CacheTypes'
    BY <1>7 DEF Done, Hang, CacheTypes
  <2> QED BY <1>7, <2>1, OtherStep DEF Done, Hang
<1>8. ASSUME NEW t \in Threads, NEW p \in Paths, Lookup(t, p) \/ Bypass(t, p)
      PROVE  CacheInv'
  <2>1. [path |-> p, mtime |-> Mtime[file[p]], size |-> Size[file[p]]] \in Question
    <3>1. file[p] \in DOMAIN Mtime
      BY DEF CacheTypes, Versions
    <3>2. Mtime[file[p]] \in Nat /\ Size[file[p]] \in Nat
      BY <3>1, IOCacheAssumption
    <3> QED BY <3>2 DEF Question
  <2>2. CacheTypes'
    BY <1>8, <2>1 DEF Lookup, Bypass, Ask, Return, CacheTypes
  <2> QED BY <1>8, <2>2, OtherStep DEF Lookup, Bypass, Ask
<1>9. ASSUME NEW p \in Mutable, Rewrite(p) PROVE CacheInv'
  <2>1. CacheTypes'
    BY <1>9 DEF Rewrite, CacheTypes
  <2> QED BY <1>9, <2>1, OtherStep DEF Rewrite
<1>10. CASE UNCHANGED cacheVars
  <2>1. CacheTypes'
    BY <1>10 DEF cacheVars, CacheTypes
  <2> QED BY <1>10, <2>1, OtherStep DEF cacheVars
<1> QED BY <1>1, <1>2, <1>3, <1>4, <1>5, <1>6, <1>7, <1>8, <1>9, <1>10
        DEF CacheNext, access_cache

(***************************************************************************)
(* The bound on the list.                                                  *)
(***************************************************************************)

\* The threads that load are counted among finitely many.
LEMMA LoadingFinite ==
  /\ IsFiniteSet(Threads) /\ Cardinality(Threads) \in Nat
  /\ Loading \subseteq Threads
  /\ IsFiniteSet(Loading) /\ Cardinality(Loading) \in Nat
  /\ Cardinality(Loading) <= Cardinality(Threads)
<1>1. IsFiniteSet(Threads) /\ Loading \subseteq Threads
  BY IOCacheAssumption DEF Loading
<1>2. IsFiniteSet(Loading) /\ Cardinality(Loading) <= Cardinality(Threads)
  BY <1>1, FS_Subset
<1> QED BY <1>1, <1>2, FS_CardinalityType

\* A thread that starts to load has made room, or found room; in the second
\* case the other threads, all of which may be loading, are the overrun.
LEMMA BoundedLoad ==
  ASSUME CacheInv, CacheBounded, NEW t \in Threads, pc[t] = "access",
         pc' = [pc EXCEPT ![t] = "load"], max_cache_entry > 0,
         Len(entries) \in Nat, Len(entries') \in Nat,
         \/ Len(entries') <= Len(entries) - 1
         \/ Len(entries') < max_cache_entry
  PROVE  CacheBounded'
<1>1. Loading' = Loading \cup {t} /\ t \notin Loading
  BY DEF Loading, CacheInv, CacheTypes
<1>2. Cardinality(Loading') = Cardinality(Loading) + 1
  BY <1>1, LoadingFinite, FS_AddElement
<1>3. Loading' \subseteq Threads
  BY <1>1, LoadingFinite
<1>4. Cardinality(Loading') <= Cardinality(Threads)
  BY <1>3, LoadingFinite, FS_Subset
<1>5. max_cache_entry \in Nat
  BY IOCacheAssumption
<1> HIDE DEF Loading
<1> QED BY <1>2, <1>4, <1>5, LoadingFinite DEF CacheBounded

\* A thread that is done with loading is no longer counted.
LEMMA LoadingEnds ==
  ASSUME CacheInv, NEW t \in Threads, pc[t] \in {"load", "add"},
         pc' = [pc EXCEPT ![t] = "open"]
  PROVE  Cardinality(Loading') = Cardinality(Loading) - 1
<1>1. Loading' = Loading \ {t} /\ t \in Loading
  BY DEF Loading, CacheInv, CacheTypes
<1> QED BY <1>1, LoadingFinite, FS_RemoveElement

\* The other steps.
LEMMA BoundedOther ==
  ASSUME CacheBounded, Loading' = Loading, Len(entries') = Len(entries)
  PROVE  CacheBounded'
BY DEF CacheBounded

\* Every step keeps the bound on the size of the list.
LEMMA CacheBoundedNext ==
  CacheInv /\ CacheBounded /\ [CacheNext]_cacheVars => CacheBounded'
<1> SUFFICES ASSUME CacheInv, CacheBounded, [CacheNext]_cacheVars PROVE CacheBounded'
  OBVIOUS
<1>a. entries \in Seq(Entry) /\ max_cache_entry \in Nat
  BY IOCacheAssumption DEF CacheInv, CacheTypes
<1>0. /\ Len(entries) \in Nat /\ max_cache_entry \in Nat /\ entries \in Seq(Entry)
      /\ pc \in [Threads -> {"idle", "access", "load", "add", "open", "spin"}]
  BY <1>a, LenProperties DEF CacheInv, CacheTypes
<1>1. ASSUME NEW t \in Threads, Hit(t) PROVE CacheBounded'
  <2>1. Len(entries') = Len(entries)
    BY <1>1, HitStep
  <2>2. Loading' = Loading
    BY <1>0, <1>1 DEF Hit, Return, Loading
  <2> QED BY <2>1, <2>2, BoundedOther
<1>2. ASSUME NEW t \in Threads, Miss(t) PROVE CacheBounded'
  <2>1. CASE max_cache_entry = 0
    BY <2>1 DEF CacheBounded
  <2>2. CASE max_cache_entry # 0
    <3>1. max_cache_entry > 0 /\ load_cache(t, entries, entry_map) /\ pc[t] = "access"
      BY <1>0, <1>2, <2>2 DEF Miss
    <3>2. /\ entries' \in Seq(Entry)
          /\ \/ Len(entries') = Len(entries) - 1
             \/ Len(entries') = Len(entries) /\ Len(entries) < max_cache_entry
      BY <1>0, <3>1, LoadCacheEffect DEF CacheInv
    <3>3. pc' = [pc EXCEPT ![t] = "load"] /\ Len(entries') \in Nat
      BY <3>1, <3>2, LenProperties DEF load_cache
    <3>4. Len(entries') <= Len(entries) - 1 \/ Len(entries') < max_cache_entry
      BY <1>0, <3>2, <3>3
    <3> QED BY <1>0, <3>1, <3>3, <3>4, BoundedLoad
  <2> QED BY <2>1, <2>2
<1>3. ASSUME NEW t \in Threads, Refresh(t) PROVE CacheBounded'
  <2> DEFINE p == asked[t].path
             list == Without(entries, Position(p))
             map == Unmap(entry_map, p)
  <2>1. /\ p \in DOMAIN entry_map /\ load_cache(t, list, map) /\ pc[t] = "access"
        /\ max_cache_entry > 0
    BY <1>0, <1>3 DEF Refresh
  <2>2. list \in Seq(Entry) /\ Len(list) = Len(entries) - 1 /\ Mapped(list, map)
    BY <2>1, RemoveEntryMapped
  <2> HIDE DEF list, map
  <2>3. /\ entries' \in Seq(Entry)
        /\ Len(entries') = Len(list) - 1 \/ Len(entries') = Len(list)
    BY <2>1, <2>2, LoadCacheEffect
  <2>4. pc' = [pc EXCEPT ![t] = "load"] /\ Len(entries') \in Nat
    BY <2>1, <2>3, LenProperties DEF load_cache
  <2>5. Len(entries') <= Len(entries) - 1
    BY <1>0, <2>2, <2>3, <2>4
  <2> QED BY <1>0, <2>1, <2>4, <2>5, BoundedLoad
<1>4. ASSUME NEW t \in Threads, Create(t) PROVE CacheBounded'
  <2>1. Loading' = Loading /\ entries' = entries
    BY <1>0, <1>4 DEF Create, Loading
  <2> QED BY <2>1, BoundedOther
<1>5. ASSUME NEW t \in Threads, CreateFails(t) PROVE CacheBounded'
  <2>1. Cardinality(Loading') = Cardinality(Loading) - 1 /\ entries' = entries
    BY <1>5, LoadingEnds DEF CreateFails, Return
  <2> QED BY <1>0, <2>1, LoadingFinite DEF CacheBounded
<1>6. ASSUME NEW t \in Threads, Add(t) PROVE CacheBounded'
  <2>1. Cardinality(Loading') = Cardinality(Loading) - 1
    BY <1>6, LoadingEnds DEF Add, Return
  <2>2. Len(entries') = Len(entries) + 1
    BY <1>6, AddStep
  <2> QED BY <1>0, <2>1, <2>2, LoadingFinite DEF CacheBounded
<1>7. ASSUME NEW t \in Threads, Done(t) \/ Hang(t) PROVE CacheBounded'
  <2>1. Loading' = Loading /\ entries' = entries
    BY <1>0, <1>7 DEF Done, Hang, Loading
  <2> QED BY <2>1, BoundedOther
<1>8. ASSUME NEW t \in Threads, NEW p \in Paths, Lookup(t, p) \/ Bypass(t, p)
      PROVE  CacheBounded'
  <2>1. Loading' = Loading /\ entries' = entries
    BY <1>0, <1>8 DEF Lookup, Bypass, Ask, Return, Loading
  <2> QED BY <2>1, BoundedOther
<1>9. ASSUME NEW p \in Mutable, Rewrite(p) PROVE CacheBounded'
  BY <1>9, BoundedOther DEF Rewrite, Loading
<1>10. CASE UNCHANGED cacheVars
  BY <1>10, BoundedOther DEF cacheVars, Loading
<1> QED BY <1>1, <1>2, <1>3, <1>4, <1>5, <1>6, <1>7, <1>8, <1>9, <1>10
        DEF CacheNext, access_cache

(***************************************************************************)
(* What the cache serves.                                                  *)
(***************************************************************************)

\* The bytes of an entry are not older than the time it carries, and a thread
\* asks for no more than the file has had since.
FreshInv ==
  /\ \A e \in Held : e.last_mtime <= Mtime[e.data]
  /\ \A t \in Threads :
       /\ pc[t] \in {"access", "load"} => asked[t].mtime <= Mtime[file[asked[t].path]]
       /\ pc[t] = "add" => created[t].last_mtime = asked[t].mtime
  /\ ServedIsFresh

\* Time stamps can be compared.
LEMMA TimesAreNumbers == \A v \in Versions : Mtime[v] \in Nat
<1>1. Mtime \in Seq(Nat)
  BY IOCacheAssumption
<1>2. DOMAIN Mtime = 1..Len(Mtime)
  BY <1>1, LenProperties
<1> QED BY <1>1, <1>2, ElementOfSeq DEF Versions

\* Every step keeps each entry at least as new as its recorded time, and what is
\* served at least as new as the stat of its request.
LEMMA FreshInvNext ==
  CacheInv /\ FreshInv /\ [CacheNext]_cacheVars => FreshInv'
<1> SUFFICES ASSUME CacheInv, FreshInv, [CacheNext]_cacheVars PROVE FreshInv'
  OBVIOUS
<1>0. CacheTypes
  BY DEF CacheInv
<1>1. ASSUME NEW t \in Threads, Hit(t) PROVE FreshInv'
  <2> DEFINE e == entries[Position(asked[t].path)]
  <2>1. /\ pc[t] = "access" /\ IsFresh(e, asked[t]) /\ asked[t].path \in DOMAIN entry_map
        /\ cached' = [cached EXCEPT ![t] = e] /\ pc' = [pc EXCEPT ![t] = "open"]
        /\ UNCHANGED <<file, asked, created>>
    BY <1>1 DEF Hit, Return
  <2>2. e \in Entry /\ e \in Held /\ Held' = Held
    BY <1>1, <2>1, PositionMapped, HitStep DEF Held
  <2> HIDE DEF e
  <2>3. Mtime[e.data] >= asked[t].mtime
    <3>1. e.last_mtime >= asked[t].mtime /\ e.last_mtime <= Mtime[e.data]
      BY <2>1, <2>2 DEF IsFresh, FreshInv
    <3>2. e.last_mtime \in Nat /\ asked[t].mtime \in Nat /\ Mtime[e.data] \in Nat
      BY <1>0, <2>1, <2>2, TimesAreNumbers DEF Entry, CacheTypes, Question
    <3> QED BY <3>1, <3>2
  <2> QED BY <1>0, <2>1, <2>2, <2>3 DEF FreshInv, ServedIsFresh, CacheTypes
<1>2. ASSUME NEW t \in Threads, Miss(t) PROVE FreshInv'
  <2>1. Held' \subseteq Held
    BY <1>2, MissStep
  <2> QED BY <1>0, <1>2, <2>1
          DEF Miss, load_cache, Return, FreshInv, ServedIsFresh, CacheTypes
<1>3. ASSUME NEW t \in Threads, Refresh(t) PROVE FreshInv'
  <2>1. Held' \subseteq Held
    BY <1>3, RefreshStep
  <2> QED BY <1>0, <1>3, <2>1 DEF Refresh, load_cache, FreshInv, ServedIsFresh, CacheTypes
<1>4. ASSUME NEW t \in Threads, Create(t) PROVE FreshInv'
  <2>1. /\ Held' \subseteq Held \cup {created'[t]}
        /\ created'[t].last_mtime = asked[t].mtime
        /\ created'[t].data = file[asked[t].path]
    BY <1>4, CreateStep
  <2>2. asked[t].mtime <= Mtime[file[asked[t].path]]
    BY <1>4 DEF Create, FreshInv
  <2>3. /\ pc' = [pc EXCEPT ![t] = "add"]
        /\ \A u \in Threads \ {t} : created'[u] = created[u]
        /\ UNCHANGED <<file, asked, cached>>
    BY <1>0, <1>4 DEF Create, CacheTypes
  <2> QED BY <1>0, <2>1, <2>2, <2>3 DEF FreshInv, ServedIsFresh, CacheTypes
<1>5. ASSUME NEW t \in Threads, CreateFails(t) PROVE FreshInv'
  BY <1>0, <1>5 DEF CreateFails, Return, FreshInv, ServedIsFresh, CacheTypes, Held
<1>6. ASSUME NEW t \in Threads, Add(t) PROVE FreshInv'
  <2>1. Held' \subseteq Held
    BY <1>6, AddStep
  <2>2. created[t] \in Held /\ created[t] \in Entry
    BY <1>0, <1>6, NullIsNoEntry DEF Add, Held, CacheTypes
  <2>3. Mtime[created[t].data] >= asked[t].mtime
    <3>1. created[t].last_mtime = asked[t].mtime /\ created[t].last_mtime <= Mtime[created[t].data]
      BY <1>6, <2>2 DEF Add, FreshInv
    <3>2. created[t].last_mtime \in Nat /\ Mtime[created[t].data] \in Nat
      BY <2>2, TimesAreNumbers DEF Entry
    <3> QED BY <3>1, <3>2
  <2> QED BY <1>0, <1>6, <2>1, <2>3 DEF Add, Return, FreshInv, ServedIsFresh, CacheTypes
<1>7. ASSUME NEW t \in Threads, Done(t) \/ Hang(t) PROVE FreshInv'
  <2>1. CASE Done(t)
    <3>1. /\ pc' = [pc EXCEPT ![t] = "idle"] /\ cached' = [cached EXCEPT ![t] = NULL]
          /\ \A u \in Threads \ {t} : asked'[u] = asked[u]
          /\ UNCHANGED <<file, created>> /\ Held' = Held
      BY <1>0, <2>1 DEF Done, Held, CacheTypes
    <3> QED BY <1>0, <3>1 DEF FreshInv, ServedIsFresh, CacheTypes
  <2>2. CASE Hang(t)
    BY <1>0, <2>2 DEF Hang, FreshInv, ServedIsFresh, CacheTypes, Held
  <2> QED BY <1>7, <2>1, <2>2
<1>8. ASSUME NEW t \in Threads, NEW p \in Paths, Lookup(t, p) \/ Bypass(t, p)
      PROVE  FreshInv'
  <2> DEFINE a == [path |-> p, mtime |-> Mtime[file[p]], size |-> Size[file[p]]]
  <2>1. /\ pc[t] = "idle" /\ asked' = [asked EXCEPT ![t] = a]
        /\ UNCHANGED <<file, entries, created>>
        /\ \/ pc' = [pc EXCEPT ![t] = "access"] /\ cached' = cached
           \/ pc' = [pc EXCEPT ![t] = "open"] /\ cached' = [cached EXCEPT ![t] = NULL]
    BY <1>8 DEF Lookup, Bypass, Ask, Return
  <2>2. a.mtime <= Mtime[file[a.path]] /\ Held' = Held
    <3>1. Mtime[file[p]] \in Nat
      BY <1>0, TimesAreNumbers DEF CacheTypes
    <3> QED BY <2>1, <3>1 DEF Held
  <2> HIDE DEF a
  <2>3. cached[t] = NULL /\ cached'[t] = NULL
    BY <1>0, <2>1 DEF CacheTypes
  <2>4. \A u \in Threads \ {t} : /\ cached'[u] = cached[u] /\ asked'[u] = asked[u]
                               /\ pc'[u] = pc[u]
    BY <1>0, <2>1 DEF CacheTypes
  <2>5. asked'[t] = a /\ pc'[t] \in {"access", "open"}
    BY <1>0, <2>1 DEF CacheTypes
  <2> QED BY <1>0, <2>1, <2>2, <2>3, <2>4, <2>5 DEF FreshInv, ServedIsFresh
<1>9. ASSUME NEW p \in Mutable, Rewrite(p) PROVE FreshInv'
  <2>1. /\ file' = [file EXCEPT ![p] = @ + 1] /\ file[p] + 1 \in Versions
        /\ UNCHANGED <<entries, pc, asked, created, cached>>
    BY <1>9 DEF Rewrite
  <2>2. \A q \in Paths : Mtime[file[q]] <= Mtime[file'[q]]
    <3> SUFFICES ASSUME NEW q \in Paths PROVE Mtime[file[q]] <= Mtime[file'[q]]
      OBVIOUS
    <3>1. file[q] \in Versions /\ file'[q] \in Versions /\ file'[q] \in {file[q], file[q] + 1}
      BY <1>0, <2>1 DEF CacheTypes
    <3>2. Mtime \in Seq(Nat)
      BY IOCacheAssumption
    <3>3. file[q] \in Nat
      BY <3>1, <3>2, LenProperties DEF Versions
    <3>4. file[q] <= file'[q]
      BY <3>1, <3>3
    <3> QED BY <3>1, <3>4, IOCacheAssumption DEF Versions
  <2>3. ASSUME NEW t \in Threads, pc[t] \in {"access", "load"}
        PROVE  asked[t].mtime <= Mtime[file'[asked[t].path]]
    <3>1. asked[t] \in Question
      BY <1>0, <2>3 DEF CacheTypes
    <3>2. asked[t].path \in Paths /\ asked[t].mtime \in Nat
      BY <3>1 DEF Question
    <3>3. file[asked[t].path] \in Versions /\ file'[asked[t].path] \in Versions
      BY <1>0, <2>1, <3>2 DEF CacheTypes
    <3>4. Mtime[file[asked[t].path]] \in Nat /\ Mtime[file'[asked[t].path]] \in Nat
      BY <3>3, TimesAreNumbers
    <3> QED BY <2>2, <2>3, <3>2, <3>4 DEF FreshInv
  <2> QED BY <2>1, <2>3 DEF FreshInv, ServedIsFresh, Held
<1>10. CASE UNCHANGED cacheVars
  BY <1>10 DEF cacheVars, FreshInv, ServedIsFresh, Held
<1> QED BY <1>1, <1>2, <1>3, <1>4, <1>5, <1>6, <1>7, <1>8, <1>9, <1>10
        DEF CacheNext, access_cache

(***************************************************************************)
(* The theorems.                                                           *)
(***************************************************************************)

\* No thread, whatever the others load, add, move and drop meanwhile, follows
\* an iterator of entry_map_ that is no longer in entries_.
THEOREM MapPointsIntoListTheorem == CacheSpec => []MapPointsIntoList
<1>1. CacheInit => CacheInv
  BY CacheInvInit
<1>2. CacheInv /\ [CacheNext]_cacheVars => CacheInv'
  BY CacheInvNext
<1>3. CacheInv => MapPointsIntoList
  BY MappedIsMapPointsIntoList DEF CacheInv
<1> QED BY <1>1, <1>2, <1>3, PTL DEF CacheSpec

\* max_cache_entry_ is exceeded by less than the number of threads.
THEOREM CacheBoundedTheorem == CacheSpec => []CacheBounded
<1>1. CacheInit => CacheInv /\ CacheBounded
  <2> SUFFICES ASSUME CacheInit PROVE CacheBounded
    BY CacheInvInit
  <2>1. Loading = {} /\ Len(entries) = 0
    BY EmptySeq DEF CacheInit, Loading
  <2>2. Cardinality(Loading) = 0 /\ Cardinality(Threads) \in Nat \ {0}
    BY <2>1, FS_EmptySet, LoadingFinite, IOCacheAssumption
  <2> QED BY <2>1, <2>2, IOCacheAssumption DEF CacheBounded
<1>2. CacheInv /\ CacheBounded /\ [CacheNext]_cacheVars => (CacheInv /\ CacheBounded)'
  BY CacheInvNext, CacheBoundedNext
<1> QED BY <1>1, <1>2, PTL DEF CacheSpec

\* A request is never served bytes that are older than its stat.
THEOREM ServedIsFreshTheorem == CacheSpec => []ServedIsFresh
<1>1. CacheInit => CacheInv /\ FreshInv
  <2> SUFFICES ASSUME CacheInit PROVE FreshInv
    BY CacheInvInit
  <2>1. Held = {}
    BY DEF CacheInit, Held, ToSet
  <2> QED BY <2>1 DEF CacheInit, FreshInv, ServedIsFresh
<1>2. CacheInv /\ FreshInv /\ [CacheNext]_cacheVars => (CacheInv /\ FreshInv)'
  BY CacheInvNext, FreshInvNext
<1>3. FreshInv => ServedIsFresh
  BY DEF FreshInv
<1> QED BY <1>1, <1>2, <1>3, PTL DEF CacheSpec

\* The static handler uses the cache as CacheSpec says: the theorems above
\* hold of it as well.
THEOREM StaticUsesCache == StaticSpec => CacheSpec
<1>1. StaticInit => CacheInit
  BY DEF StaticInit
<1>2. [StaticNext]_staticVars => [CacheNext]_cacheVars
  <2> SUFFICES ASSUME [StaticNext]_staticVars PROVE [CacheNext]_cacheVars
    OBVIOUS
  <2>1. ASSUME NEW t \in Threads, StaticStep(t) PROVE CacheNext
    BY <2>1 DEF StaticStep, Respond, Spin, CacheNext
  <2>2. ASSUME NEW t \in Threads, NEW q \in Requests, HandleOther(t, q)
        PROVE  UNCHANGED cacheVars
    BY <2>2 DEF HandleOther
  <2>3. ASSUME NEW t \in Threads, NEW q \in Requests, HandleFile(t, q) PROVE CacheNext
    BY <2>3 DEF HandleFile, CacheNext
  <2>4. ASSUME NEW p \in Mutable, Rewrite(p) PROVE CacheNext
    BY <2>4 DEF CacheNext
  <2>5. CASE UNCHANGED staticVars
    BY <2>5 DEF staticVars
  <2> QED BY <2>1, <2>2, <2>3, <2>4, <2>5 DEF StaticNext
<1> QED BY <1>1, <1>2, PTL DEF StaticSpec, CacheSpec
=============================================================================
