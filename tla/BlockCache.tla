----------------------------- MODULE BlockCache -----------------------------
(***************************************************************************)
(* The LRU cache of BlockFetcher (pubsub/block_fetcher.go), as its code    *)
(* uses it: results by block NUMBER, at most CacheSize of them, the least  *)
(* recently used one dropped first.  A cache is the sequence of its        *)
(* entries <<number, result>>, the most recently used last.                *)
(***************************************************************************)
EXTENDS Naturals, Sequences, SequencesExt

CONSTANT CacheSize      \* cacheSize

ASSUME CacheSizeAssumption == CacheSize \in Nat \ {0}

Cached(c, n) == \E i \in DOMAIN c : c[i][1] = n

\* Where the entry of a cached number is; there is one at most.
Position(c, n) == CHOOSE i \in DOMAIN c : c[i][1] = n

\* cache.Get's result for a number that is cached.
Lookup(c, n) == c[Position(c, n)][2]

Without(c, n) == IF Cached(c, n) THEN RemoveAt(c, Position(c, n)) ELSE c

\* cache.Get marks the entry as the most recently used.
Touch(c, n) == Append(Without(c, n), <<n, Lookup(c, n)>>)

\* cache.Add replaces or adds the entry and evicts the oldest one.
Insert(c, n, r) ==
    LET added == Append(Without(c, n), <<n, r>>)
    IN  IF Len(added) > CacheSize THEN Tail(added) ELSE added
=============================================================================
