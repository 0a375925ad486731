---------------------------- MODULE MCCacheStats ----------------------------
(* Instances of CacheStats for TLC. *)
EXTENDS CacheStats
=============================================================================
