------------------------ MODULE MC_MacswapPipeline ------------------------
(* TLC instances of MacswapPipeline.                                        *)
EXTENDS MacswapPipeline, TLC
=============================================================================
