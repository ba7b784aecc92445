------------------------- MODULE MC_MacswapLibdpdk -------------------------
(* One lcore that polls one queue, and the worker's lcore.                  *)
EXTENDS MacswapLibdpdk, MC_MacswapWorkers
=============================================================================
