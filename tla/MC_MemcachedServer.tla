------------------------ MODULE MC_MemcachedServer ------------------------
(* Instances of MemcachedServer for TLC.                                   *)
EXTENDS MemcachedServer

=============================================================================
