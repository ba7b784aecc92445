------------------------- MODULE MC_MemcachedStore -------------------------
(* One item lock for each key.                                              *)
EXTENDS MemcachedStore

OwnLock == [k \in Keys |-> k]

=============================================================================
