--------------------------- MODULE MCBlockFetcher ---------------------------
(* FetchBlock with three callers, two numbers and a cache of one entry. *)
EXTENDS BlockFetcher

CONSTANTS c1, c2, c3
=============================================================================
