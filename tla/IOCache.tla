------------------------------ MODULE IOCache -------------------------------
(***************************************************************************)
(* The cache of small files of the static handler (http/io_cache.cc),      *)
(* shared by the threads of the handler stage.  access_cache looks a path  *)
(* up under mutex_; a miss evicts one entry, gives mutex_ back, reads the  *)
(* file, takes mutex_ again and adds the entry.  Each of these is a step:  *)
(* files change and other threads work in between.                         *)
(*                                                                         *)
(* The bytes of a file are the number of its version; a version has a      *)
(* modification time, in the seconds that time_t counts, and a size.       *)
(***************************************************************************)
EXTENDS Integers, Sequences, FiniteSets

CONSTANTS
  Threads,          \* threads of the handler stage
  Paths,            \* regular files under doc_root
  max_cache_entry,  \* max_cache_entry_
  max_entry_size,   \* max_entry_size_
  Mtime,            \* Mtime[v], Size[v]: st_mtime and st_size of version v
  Size,
  Readable,         \* Readable[v]: can it be opened?
  Mutable           \* bound: the files that change

Versions == DOMAIN Mtime

ASSUME IOCacheAssumption ==
  /\ IsFiniteSet(Threads) /\ Threads # {}
  /\ max_cache_entry \in Nat /\ max_entry_size \in Nat
  /\ Mtime \in Seq(Nat) /\ Size \in [DOMAIN Mtime -> Nat]
  /\ Readable \in [DOMAIN Mtime -> BOOLEAN] /\ Mutable \subseteq Paths
  /\ Mtime # <<>>
  /\ \A u, v \in DOMAIN Mtime : u <= v => Mtime[u] <= Mtime[v]

VARIABLES
  file,       \* file[p]: current version of p
  entries,    \* entries_, most recently used first
  entry_map,  \* entry_map_: the addresses of entries
  pc,         \* what each thread does
  asked,      \* asked[t]: path, mtime and size that t looks up
  created,    \* created[t]: the IOCacheEntry that t is about to add
  cached      \* cached[t]: the copy that access_cache returned

cacheVars == <<file, entries, entry_map, pc, asked, created, cached>>

NULL == [addr |-> 0]

\* Threads that have given mutex_ back and have an entry to add.
Loading == {t \in Threads : pc[t] \in {"load", "add"}}

Addresses == {entries[i].addr : i \in DOMAIN entries}
               \cup {created[t].addr : t \in Threads}

\* The address of a new IOCacheEntry.
NewAddress == CHOOSE a \in 1..(Cardinality(Addresses) + 1) : a \notin Addresses

-----------------------------------------------------------------------------
(* Operations on the list and the map, all under mutex_.                   *)

\* The place in the list that entry_map_ holds for p.
Position(p) == CHOOSE i \in DOMAIN entries : entries[i].addr = entry_map[p]

Without(s, i) == SubSeq(s, 1, i - 1) \o SubSeq(s, i + 1, Len(s))

Unmap(map, p) == [q \in DOMAIN map \ {p} |-> map[q]]

\* insert leaves the entry that p has already, if any.
add_entry(e) ==
  /\ entries' = <<e>> \o entries
  /\ entry_map' = [q \in DOMAIN entry_map \cup {e.path} |->
                     IF q \in DOMAIN entry_map THEN entry_map[q] ELSE e.addr]

move_entry(p) ==
  /\ entries' = <<entries[Position(p)]>> \o Without(entries, Position(p))
  /\ UNCHANGED entry_map

DropsOnlyNode(list, map) ==
  /\ entries' = SubSeq(list, 1, Len(list) - 1)
  /\ entry_map' = map

\* The last entry goes, and with it what its path is mapped to.
drop_entry(list, map) ==
  /\ entries' = SubSeq(list, 1, Len(list) - 1)
  /\ entry_map' = Unmap(map, list[Len(list)].path)

LoadOverFull(t, list, map) ==
  /\ IF Len(list) > max_cache_entry THEN drop_entry(list, map)
     ELSE entries' = list /\ entry_map' = map
  /\ pc' = [pc EXCEPT ![t] = "load"]

\* load_cache makes room, and gives mutex_ back before it reads the file.
load_cache(t, list, map) ==
  /\ IF Len(list) >= max_cache_entry THEN drop_entry(list, map)
     ELSE entries' = list /\ entry_map' = map
  /\ pc' = [pc EXCEPT ![t] = "load"]

FreshBySize(e, a) == e.size = a.size


\* sync_cache's test of the entry that was found.
IsFresh(e, a) == e.last_mtime >= a.mtime /\ e.last_mtime # 0 /\ e.size = a.size

-----------------------------------------------------------------------------
(* access_cache, step by step.                                             *)

Return(t, copy) ==
  /\ cached' = [cached EXCEPT ![t] = copy]
  /\ pc' = [pc EXCEPT ![t] = "open"]

\* With no entries allowed the cache is off.
Hit(t) ==
  /\ pc[t] = "access" /\ max_cache_entry # 0
  /\ asked[t].path \in DOMAIN entry_map
  /\ LET e == entries[Position(asked[t].path)]
     IN  IsFresh(e, asked[t]) /\ Return(t, e)
  /\ move_entry(asked[t].path)
  /\ UNCHANGED <<file, asked, created>>

Miss(t) ==
  /\ pc[t] = "access"
  /\ asked[t].path \notin DOMAIN entry_map
  /\ IF max_cache_entry = 0 THEN Return(t, NULL) /\ UNCHANGED <<entries, entry_map>>
     ELSE load_cache(t, entries, entry_map) /\ UNCHANGED cached
  /\ UNCHANGED <<file, asked, created>>

\* A stale entry is removed first (remove_entry).
Refresh(t) ==
  /\ pc[t] = "access" /\ max_cache_entry # 0
  /\ asked[t].path \in DOMAIN entry_map
  /\ LET i == Position(asked[t].path)
     IN  /\ ~IsFresh(entries[i], asked[t])
         /\ load_cache(t, Without(entries, i), Unmap(entry_map, asked[t].path))
  /\ UNCHANGED <<file, asked, created, cached>>

\* create_cache_entry and the constructor of IOCacheEntry: the file is read
\* as it is now and gets the modification time that was asked for.
Create(t) ==
  LET a == asked[t]
  IN  /\ pc[t] = "load"
      /\ a.size < max_entry_size /\ Readable[file[a.path]]
      /\ created' = [created EXCEPT ![t] =
                       [addr |-> NewAddress, path |-> a.path, size |-> a.size,
                        last_mtime |-> a.mtime, data |-> file[a.path]]]
      /\ pc' = [pc EXCEPT ![t] = "add"]
      /\ UNCHANGED <<file, entries, entry_map, asked, cached>>

KeepsTrying(t) ==
  /\ pc[t] = "load"
  /\ ~(asked[t].size < max_entry_size /\ Readable[file[asked[t].path]])
  /\ UNCHANGED cacheVars

\* Too large, or it cannot be opened.
CreateFails(t) ==
  /\ pc[t] = "load"
  /\ ~(asked[t].size < max_entry_size /\ Readable[file[asked[t].path]])
  /\ Return(t, NULL)
  /\ UNCHANGED <<file, entries, entry_map, asked, created>>

AddsAgain(t) ==
  /\ pc[t] = "add"
  /\ add_entry(created[t])
  /\ Return(t, created[t])
  /\ UNCHANGED <<file, asked, created>>

Add(t) ==
  /\ pc[t] = "add"
  /\ add_entry(created[t])
  /\ created' = [created EXCEPT ![t] = NULL]
  /\ Return(t, created[t])
  /\ UNCHANGED <<file, asked>>

access_cache(t) ==
  \/ Hit(t) \/ Miss(t) \/ Refresh(t)
  \/ Create(t) \/ CreateFails(t) \/ Add(t)

-----------------------------------------------------------------------------
(* The caller, as far as the cache goes, and whoever writes the files.     *)

\* The handler has stat'ed p.
Ask(t, p) ==
  /\ pc[t] = "idle"
  /\ asked' = [asked EXCEPT ![t] =
                 [path |-> p, mtime |-> Mtime[file[p]], size |-> Size[file[p]]]]
  /\ UNCHANGED <<file, entries, entry_map, created>>

\* For a HEAD request the cache is not asked.
Lookup(t, p) == Ask(t, p) /\ pc' = [pc EXCEPT ![t] = "access"] /\ UNCHANGED cached
Bypass(t, p) == Ask(t, p) /\ Return(t, NULL)

\* delete [] cached_entry.
Done(t) ==
  /\ pc[t] = "open"
  /\ pc' = [pc EXCEPT ![t] = "idle"]
  /\ cached' = [cached EXCEPT ![t] = NULL]
  /\ asked' = [asked EXCEPT ![t] = NULL]
  /\ UNCHANGED <<file, entries, entry_map, created>>

\* The caller keeps the copy for good.
Hang(t) ==
  /\ pc[t] = "open"
  /\ pc' = [pc EXCEPT ![t] = "spin"]
  /\ UNCHANGED <<file, entries, entry_map, asked, created, cached>>

Rewrite(p) ==
  /\ file[p] + 1 \in Versions
  /\ file' = [file EXCEPT ![p] = @ + 1]
  /\ UNCHANGED <<entries, entry_map, pc, asked, created, cached>>

CacheInit ==
  /\ file = [p \in Paths |-> 1]
  /\ entries = <<>> /\ entry_map = <<>>
  /\ pc = [t \in Threads |-> "idle"]
  /\ asked = [t \in Threads |-> NULL]
  /\ created = [t \in Threads |-> NULL] /\ cached = [t \in Threads |-> NULL]

CacheNext ==
  \/ \E t \in Threads : access_cache(t) \/ Done(t) \/ Hang(t)
  \/ \E t \in Threads, p \in Paths : Lookup(t, p) \/ Bypass(t, p)
  \/ \E p \in Mutable : Rewrite(p)

-----------------------------------------------------------------------------
(* Properties.                                                             *)

\* The entry that entry_map_ holds for a path is in the list and is for that
\* path, although two threads that load the same file add it twice and
\* drop_entry erases by path (io_cache.cc:58, 79): no iterator dangles.
MapPointsIntoList ==
  \A p \in DOMAIN entry_map :
    \E i \in DOMAIN entries : entries[i].addr = entry_map[p] /\ entries[i].path = p

\* max_cache_entry_ is overrun by threads that load at the same time, each
\* having found room before any of them adds (io_cache.cc:128, 137), but by no
\* more than one entry for every other thread.
CacheBounded ==
  max_cache_entry > 0 =>
    Len(entries) + Cardinality(Loading) <= max_cache_entry + Cardinality(Threads) - 1

\* What a request is served from the cache is never from before the stat that
\* started it, to the second, however the file is rewritten while other
\* threads load, add and move entries of it.
ServedIsFresh ==
  \A t \in Threads : cached[t] # NULL => Mtime[cached[t].data] >= asked[t].mtime
=============================================================================
