---------------------------- MODULE MCCacheManager ----------------------------
(* Two or three blocks of global memory, one or two slots.                 *)
EXTENDS CacheManager, TLC

(* Blocks are interchangeable; slots are ordered by the LRU list.          *)
Symmetry == Permutations(Blocks)

================================================================================
