--------------------------- MODULE MacswapLibdpdk ---------------------------
(***************************************************************************)
(* The libdpdk macswap engine (macswap_libdpdk.c; the one of               *)
(* dpdk-pipeline-macswap-new is the same but for the worker's lcore).  It  *)
(* is the engine of MacswapWorkers with one worker and one set of data for *)
(* every caller (NUM_CORE = 1), a poller that does not wait for previous   *)
(* work, and a worker that takes the flag down before it swaps.            *)
(***************************************************************************)
EXTENDS MacswapWorkers

\* The data is zero from the start, so it is not initialized.
LCheck(p) ==
  /\ At(p, "check")
  /\ GoTo(p, IF thread_initialized[0] THEN "rx" ELSE "launch")
  /\ UNCHANGED <<control, data, burst, turn, history>>

\* The poller stores its array and nb_rx at once, whatever the worker does.
LWrite(p) ==
  /\ At(p, "wait")
  /\ work' = [work EXCEPT ![0] = [array |-> p, nb_rx |-> burst[p].nb_rx]]
  /\ GoTo(p, "signal")
  /\ UNCHANGED <<control, ready, stop, burst, turn, history>>

LPoller(p) == \/ LCheck(p) \/ PLaunch(p) \/ PMark(p) \/ PRx(p) \/ LWrite(p)
              \/ PSignal(p) \/ PDone(p) \/ PTx(p) \/ PDrop(p) \/ PNext(p)

\* __sync_bool_compare_and_swap(&data->ready, 1, 0).
LTake(i) ==
  /\ WAt(i, "poll") /\ ready[i]
  /\ ready' = [ready EXCEPT ![i] = FALSE]
  /\ wpc' = [wpc EXCEPT ![i] = "swap"]
  /\ UNCHANGED <<job, stopped, thread_initialized, stop, work, burst, pc,
                 turn, exited, main, history>>

LSwap(i) ==
  /\ WAt(i, "swap")
  /\ SwapArray(i)
  /\ wpc' = [wpc EXCEPT ![i] = "poll"]
  /\ UNCHANGED <<job, stopped, thread_initialized, data, burst, pc, turn,
                 exited, main, rxd, out>>

LNext == \/ MStart \/ MLaunch \/ MStop
         \/ \E p \in Pollers : LPoller(p)
         \/ \E i \in Indices : LTake(i) \/ LSwap(i)

LSpec == Init /\ [][LNext]_vars

\* "Wait for the processing thread to complete the macswap": what a poller sends
\* or frees after that wait has been swapped, once.
SentSwapped == TransmitProcessed

=============================================================================
