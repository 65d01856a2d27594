------------------------------- MODULE Cache -------------------------------
(***************************************************************************)
(* The cached lists of the components: get before a query, set after it,   *)
(* delete after some of the writes.  An error of Redis is swallowed by all *)
(* three.  (Which backend holds an entry, and what a crash does to it, is  *)
(* in module Tarefas.)                                                     *)
(***************************************************************************)
EXTENDS Handlers

CONSTANT MaxFaults      \* bound: errors of Redis

ASSUME CacheAssumption == MaxFaults \in Nat

VARIABLES
    cache,      \* the entries: a key, the rows, and who read them
    faults      \* errors of Redis

caches == <<cache, faults>>

CacheInit == cache = {} /\ faults = 0

Entries(key) == {e \in cache : e.key = key}

(* An error that is swallowed.                                             *)
RedisError ==
    /\ faults < MaxFaults
    /\ faults' = faults + 1
    /\ UNCHANGED cache

(* getCache: a hit is the answer; a miss, or an error, goes on to miss.    *)
GetCache(r, key, miss) ==
    \/ Entries(key) # {} /\ Reply(r, 200) /\ UNCHANGED caches
    \/ Entries(key) = {} /\ Goto(r, miss) /\ UNCHANGED caches
    \/ RedisError /\ Goto(r, miss)

(* setCache, and the answer of the rows.                                   *)
SetCache(r, key, rows) ==
    /\ Reply(r, 200)
    /\ \/ /\ cache' = (cache \ Entries(key)) \cup {[key |-> key, rows |-> rows, reader |-> r]}
          /\ UNCHANGED faults
       \/ RedisError

(* deleteCache                                                             *)
DeleteCache(keys) ==
    \/ cache' = {e \in cache : e.key \notin keys} /\ UNCHANGED faults
    \/ RedisError

(* The TTL of an entry is over.                                            *)
Expire(e) ==
    /\ e \in cache
    /\ cache' = cache \ {e}
    /\ UNCHANGED <<faults, handlers>>

=============================================================================
