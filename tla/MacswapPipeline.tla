--------------------------- MODULE MacswapPipeline ---------------------------
(***************************************************************************)
(* The pipelined macswap engine of testpmd                                 *)
(* (dpdk-pipeline-scale/app/test-pmd/macswap-pipeline-scale-fix-intensity.c)*)
(* One forwarding lcore ("fwd"), the helper lcore that swaps MAC addresses  *)
(* for it ("wk") and the main lcore ("main") that begins, starts, stops and *)
(* ends the engine.  The forwarding lcore and its helper share one ring of  *)
(* DEPTH persistent slots per stream, with three cursors.                   *)
(*                                                                         *)
(* Packets of a stream are numbered in the order the NIC delivers them.    *)
(* Every step of the model makes at most one access to a cursor another    *)
(* lcore writes; a slot is in use from the step that decides to touch it    *)
(* to the step that gives it away, so two lcores in one slot is a state.    *)
(***************************************************************************)
EXTENDS Integers, Sequences

CONSTANTS
  NbQueues,            \* worker->nb_queues: streams of this forwarding lcore
  DEPTH,               \* MACSWAP_PIPELINE_DEPTH
  MaxPkts,             \* bound: packets the NIC delivers to each stream
  nb_pkt_per_burst,    \* most packets of one rx burst
  RetryEnabled,        \* fs->retry_enabled
  burst_tx_retry_num,  \* tx retries of one batch
  WaitPkg              \* macswap_waitpkg_supported

ASSUME PipelineAssumption ==
  /\ NbQueues \in Nat \ {0}
  /\ DEPTH \in Nat \ {0}
  /\ MaxPkts \in Nat
  /\ nb_pkt_per_burst \in Nat \ {0}
  /\ RetryEnabled \in BOOLEAN
  /\ burst_tx_retry_num \in Nat
  /\ WaitPkg \in BOOLEAN

VARIABLES
  submitted, completed, reclaimed,  \* the cursors of each stream's ring
  slots,        \* queue->batches of each stream
  live,         \* the rings are allocated
  stopped,      \* owner->stopped
  abort,        \* worker->abort
  pc,           \* where each lcore is
  cur,          \* the stream each lcore works on
  rec, com,     \* locals of a drain: reclaimed and completed
  retry,        \* retries spent on the batch being transmitted
  full,         \* the drain under way is the one of a full ring
  woken,        \* the monitored completion cursor was written (UMONITOR)
  next_queue,   \* round-robin position of the worker, and of the finish
  scanned,      \* queues the worker scanned in this poll
  rxd,          \* packets the NIC has delivered to each stream
  swaps,        \* MAC swaps done on each packet
  out,          \* packets given away, in order: to the NIC or to the pool
  stats         \* rx_packets, tx_packets, fwd_dropped of each stream

ring == <<submitted, completed, reclaimed, slots, live>>
locals == <<pc, cur, rec, com, retry, full, woken, next_queue, scanned>>
history == <<rxd, swaps, out, stats>>
vars == <<ring, stopped, abort, locals, history>>

-----------------------------------------------------------------------------
Queues == 0 .. NbQueues - 1
Pkts == 1 .. MaxPkts
Procs == {"fwd", "wk", "main"}
Drainers == {"fwd", "main"}

FwdPC == {"off", "check", "wait", "armed", "asleep", "woke", "drain", "tx",
          "drop", "store", "recheck", "rx", "publish", "next"}
WkPC == {"off", "poll", "idle", "scan", "swap", "publish"}
MainPC == {"idle", "begun", "forwarding", "failjoin", "join", "process",
           "drain", "tx", "drop", "store", "free"}

\* A batch holds the packets first .. first + nb_rx - 1 of its stream.
Batch == [first : Nat, nb_rx : Nat, tx_sent : Nat]
ZeroBatch == [first |-> 0, nb_rx |-> 0, tx_sent |-> 0]

Slot(c) == c % DEPTH
BatchAt(q, c) == slots[q][Slot(c)]
PktsOf(b) == b.first .. b.first + b.nb_rx - 1

\* Mutant: the slot's old tx_sent is not reset.
NewBatchKeepsSent(b, first, n) == [b EXCEPT !.first = first, !.nb_rx = n]

\* The slot after an rx burst of n packets.
NewBatch(b, first, n) == [first |-> first, nb_rx |-> n, tx_sent |-> 0]

\* Packets first .. first + n - 1 of stream q leave as "tx" or "free".
Leave(q, first, n, how) ==
  [k \in 1 .. n |-> [pkt |-> first + k - 1, how |-> how,
                     swaps |-> swaps[q][first + k - 1]]]

-----------------------------------------------------------------------------
Init ==
  /\ submitted = [q \in Queues |-> 0]
  /\ completed = [q \in Queues |-> 0]
  /\ reclaimed = [q \in Queues |-> 0]
  /\ slots = [q \in Queues |-> [s \in 0 .. DEPTH - 1 |-> ZeroBatch]]
  /\ live = FALSE
  /\ stopped = FALSE
  /\ abort = FALSE
  /\ pc = [fwd |-> "off", wk |-> "off", main |-> "idle"]
  /\ cur = [p \in Procs |-> 0]
  /\ rec = [p \in Drainers |-> 0]
  /\ com = [p \in Drainers |-> 0]
  /\ retry = [p \in Drainers |-> 0]
  /\ full = FALSE
  /\ woken = FALSE
  /\ next_queue = [p \in {"wk", "main"} |-> 0]
  /\ scanned = 0
  /\ rxd = [q \in Queues |-> 0]
  /\ swaps = [q \in Queues |-> [i \in Pkts |-> 0]]
  /\ out = [q \in Queues |-> << >>]
  /\ stats = [q \in Queues |-> [rx |-> 0, tx |-> 0, dropped |-> 0]]

GoTo(p, l) == pc' = [pc EXCEPT ![p] = l]

-----------------------------------------------------------------------------
(* The drain of a ring (macswap_drain_completions, and the loop of          *)
(* macswap_finish_queued_work): done by the forwarding lcore, and by the    *)
(* main lcore once both stages are joined.                                  *)

\* Mutant: drains up to the submitted cursor.
DrainLoadSubmitted(p) ==
  LET q == cur[p] IN
  /\ pc[p] = "drain"
  /\ rec' = [rec EXCEPT ![p] = reclaimed[q]]
  /\ com' = [com EXCEPT ![p] = submitted[q]]
  /\ retry' = [retry EXCEPT ![p] = 0]
  /\ GoTo(p, IF reclaimed[q] # submitted[q] THEN "tx" ELSE "store")
  /\ UNCHANGED <<ring, stopped, abort, cur, full, woken, next_queue, scanned,
                 history>>

DrainLoad(p) ==
  LET q == cur[p] IN
  /\ pc[p] = "drain"
  /\ rec' = [rec EXCEPT ![p] = reclaimed[q]]
  /\ com' = [com EXCEPT ![p] = completed[q]]
  /\ retry' = [retry EXCEPT ![p] = 0]
  /\ GoTo(p, IF reclaimed[q] # completed[q] THEN "tx" ELSE "store")
  /\ UNCHANGED <<ring, stopped, abort, cur, full, woken, next_queue, scanned,
                 history>>

\* The slot's batch has left: on to the next completed slot, if any.
NextBatch(p) ==
  /\ rec' = [rec EXCEPT ![p] = @ + 1]
  /\ retry' = [retry EXCEPT ![p] = 0]
  /\ GoTo(p, IF rec[p] + 1 # com[p] THEN "tx" ELSE "store")

\* One call of rte_eth_tx_burst: the NIC takes any number of what is left.
TxBurst(p) ==
  LET q == cur[p]
      b == BatchAt(q, rec[p])
      left == b.nb_rx - b.tx_sent
  IN
  /\ pc[p] = "tx"
  /\ \E n \in 0 .. left :
       /\ slots' = [slots EXCEPT ![q][Slot(rec[p])].tx_sent = @ + n]
       /\ out' = [out EXCEPT ![q] =
                    @ \o Leave(q, b.first + b.tx_sent, n, "tx")]
       /\ stats' = [stats EXCEPT ![q].tx = @ + n]
       /\ IF n = left
          THEN NextBatch(p)
          ELSE /\ IF RetryEnabled /\ retry[p] < burst_tx_retry_num
                  THEN /\ retry' = [retry EXCEPT ![p] = @ + 1]
                       /\ UNCHANGED pc
                  ELSE GoTo(p, "drop") /\ UNCHANGED retry
               /\ UNCHANGED rec
  /\ UNCHANGED <<submitted, completed, reclaimed, live, stopped, abort, cur,
                 com, full, woken, next_queue, scanned, rxd, swaps>>

\* Mutant: what the NIC did not take is counted but not freed.
TxDropLeaks(p) ==
  LET q == cur[p]
      b == BatchAt(q, rec[p])
  IN
  /\ pc[p] = "drop"
  /\ stats' = [stats EXCEPT ![q].dropped = @ + b.nb_rx - b.tx_sent]
  /\ slots' = [slots EXCEPT ![q][Slot(rec[p])].tx_sent = b.nb_rx]
  /\ NextBatch(p)
  /\ UNCHANGED <<submitted, completed, reclaimed, live, stopped, abort, cur,
                 com, full, woken, next_queue, scanned, rxd, swaps, out>>

\* What the NIC did not take is freed and counted as dropped.
TxDrop(p) ==
  LET q == cur[p]
      b == BatchAt(q, rec[p])
      left == b.nb_rx - b.tx_sent
  IN
  /\ pc[p] = "drop"
  /\ out' = [out EXCEPT ![q] = @ \o Leave(q, b.first + b.tx_sent, left, "free")]
  /\ stats' = [stats EXCEPT ![q].dropped = @ + left]
  /\ slots' = [slots EXCEPT ![q][Slot(rec[p])].tx_sent = b.nb_rx]
  /\ NextBatch(p)
  /\ UNCHANGED <<submitted, completed, reclaimed, live, stopped, abort, cur,
                 com, full, woken, next_queue, scanned, rxd, swaps>>

\* Publish the new reclaimed cursor, and go where the caller goes.
DrainStore(p) ==
  LET q == cur[p] IN
  /\ pc[p] = "store"
  /\ reclaimed' = [reclaimed EXCEPT ![q] = rec[p]]
  /\ CASE p = "fwd" -> /\ GoTo(p, IF full THEN "recheck" ELSE "next")
                       /\ UNCHANGED cur
       [] p = "main" -> IF q + 1 < NbQueues
                        THEN /\ cur' = [cur EXCEPT ![p] = q + 1]
                             /\ GoTo(p, "drain")
                        ELSE GoTo(p, "free") /\ UNCHANGED cur
  /\ UNCHANGED <<submitted, completed, slots, live, stopped, abort, rec, com,
                 retry, full, woken, next_queue, scanned, history>>

Drain(p) == DrainLoad(p) \/ TxBurst(p) \/ TxDrop(p) \/ DrainStore(p)

-----------------------------------------------------------------------------
(* The forwarding lcore: run_pkt_fwd_on_lcore calls pkt_burst_mac_swap for   *)
(* each of its streams in turn, until it is told to stop.                    *)

\* Mutant: off by one, the ring is taken for full one batch too late.
RingOverfull(q) == submitted[q] - reclaimed[q] > DEPTH

RingFull(q) == submitted[q] - reclaimed[q] = DEPTH

\* Mutant: a full ring with completions is not drained first.
FwdCheckNoDrain ==
  LET q == cur["fwd"] IN
  /\ pc["fwd"] = "check"
  /\ GoTo("fwd", IF RingFull(q) /\ completed[q] = reclaimed[q]
                 THEN "wait" ELSE "rx")
  /\ UNCHANGED <<ring, stopped, abort, cur, rec, com, retry, full, woken,
                 next_queue, scanned, history>>

\* Mutant: a full ring is drained without waiting for a completion.
FwdCheckNoWait ==
  LET q == cur["fwd"] IN
  /\ pc["fwd"] = "check"
  /\ GoTo("fwd", IF RingFull(q) THEN "drain" ELSE "rx")
  /\ full' = RingFull(q)
  /\ UNCHANGED <<ring, stopped, abort, cur, rec, com, retry, woken,
                 next_queue, scanned, history>>

\* Full and nothing completed: wait.  Full with completions: drain first.
FwdCheck ==
  LET q == cur["fwd"] IN
  /\ pc["fwd"] = "check"
  /\ IF RingFull(q)
     THEN IF completed[q] = reclaimed[q]
          THEN GoTo("fwd", "wait") /\ UNCHANGED full
          ELSE GoTo("fwd", "drain") /\ full' = TRUE
     ELSE GoTo("fwd", "rx") /\ UNCHANGED full
  /\ UNCHANGED <<ring, stopped, abort, cur, rec, com, retry, woken,
                 next_queue, scanned, history>>

\* macswap_wait_for_completion: UMONITOR the cursor, or a bounded pause loop.
FwdWait ==
  /\ pc["fwd"] = "wait"
  /\ IF WaitPkg THEN GoTo("fwd", "armed") /\ woken' = FALSE
                ELSE GoTo("fwd", "woke") /\ UNCHANGED woken
  /\ UNCHANGED <<ring, stopped, abort, cur, rec, com, retry, full, next_queue,
                 scanned, history>>

\* Mutant: UMWAIT without reading the cursor again.
FwdArmedNoCheck ==
  /\ pc["fwd"] = "armed"
  /\ GoTo("fwd", "asleep")
  /\ UNCHANGED <<ring, stopped, abort, cur, rec, com, retry, full, woken,
                 next_queue, scanned, history>>

\* Read the cursor again after UMONITOR; UMWAIT only if it has not moved.
FwdArmedCheck ==
  LET q == cur["fwd"] IN
  /\ pc["fwd"] = "armed"
  /\ GoTo("fwd", IF completed[q] = reclaimed[q] THEN "asleep" ELSE "woke")
  /\ UNCHANGED <<ring, stopped, abort, cur, rec, com, retry, full, woken,
                 next_queue, scanned, history>>

\* A store to the monitored line ends UMWAIT.
FwdWake ==
  /\ pc["fwd"] = "asleep" /\ woken
  /\ GoTo("fwd", "woke")
  /\ UNCHANGED <<ring, stopped, abort, cur, rec, com, retry, full, woken,
                 next_queue, scanned, history>>

\* So does the deadline given to UMWAIT.
FwdDeadline ==
  /\ pc["fwd"] = "asleep" /\ ~woken
  /\ GoTo("fwd", "woke")
  /\ UNCHANGED <<ring, stopped, abort, cur, rec, com, retry, full, woken,
                 next_queue, scanned, history>>

\* Leave the callback when told to stop, or to serve another stream.
FwdWoke ==
  LET q == cur["fwd"] IN
  /\ pc["fwd"] = "woke"
  /\ GoTo("fwd", IF stopped \/ (NbQueues # 1 /\ completed[q] = reclaimed[q])
                 THEN "next" ELSE "check")
  /\ UNCHANGED <<ring, stopped, abort, cur, rec, com, retry, full, woken,
                 next_queue, scanned, history>>

\* After the drain of a full ring the cursors are compared again.
FwdRecheck ==
  /\ pc["fwd"] = "recheck"
  /\ full' = FALSE
  /\ GoTo("fwd", IF RingFull(cur["fwd"]) THEN "next" ELSE "rx")
  /\ UNCHANGED <<ring, stopped, abort, cur, rec, com, retry, woken,
                 next_queue, scanned, history>>

\* rte_eth_rx_burst straight into the slot at the submitted cursor.
FwdRx ==
  LET q == cur["fwd"]
      s == Slot(submitted[q])
  IN
  /\ pc["fwd"] = "rx"
  /\ \E n \in 0 .. nb_pkt_per_burst :
       /\ rxd[q] + n <= MaxPkts
       /\ IF n = 0
          THEN GoTo("fwd", "drain") /\ UNCHANGED <<slots, rxd, stats>>
          ELSE /\ slots' = [slots EXCEPT ![q][s] = NewBatch(@, rxd[q] + 1, n)]
               /\ rxd' = [rxd EXCEPT ![q] = @ + n]
               /\ stats' = [stats EXCEPT ![q].rx = @ + n]
               /\ GoTo("fwd", "publish")
  /\ UNCHANGED <<submitted, completed, reclaimed, live, stopped, abort, cur,
                 rec, com, retry, full, woken, next_queue, scanned, swaps, out>>

FwdPublish ==
  /\ pc["fwd"] = "publish"
  /\ submitted' = [submitted EXCEPT ![cur["fwd"]] = @ + 1]
  /\ GoTo("fwd", "drain")
  /\ UNCHANGED <<completed, reclaimed, slots, live, stopped, abort, cur, rec,
                 com, retry, full, woken, next_queue, scanned, history>>

\* Mutant: one stream too many.
FwdNextOffByOne ==
  LET q == cur["fwd"] IN
  /\ pc["fwd"] = "next"
  /\ IF q < NbQueues
     THEN cur' = [cur EXCEPT !["fwd"] = q + 1] /\ GoTo("fwd", "check")
     ELSE /\ cur' = [cur EXCEPT !["fwd"] = 0]
          /\ GoTo("fwd", IF stopped THEN "off" ELSE "check")
  /\ UNCHANGED <<ring, stopped, abort, rec, com, retry, full, woken,
                 next_queue, scanned, history>>

\* The callback returns: next stream, or test `stopped' after the last one.
FwdNext ==
  LET q == cur["fwd"] IN
  /\ pc["fwd"] = "next"
  /\ IF q + 1 < NbQueues
     THEN cur' = [cur EXCEPT !["fwd"] = q + 1] /\ GoTo("fwd", "check")
     ELSE /\ cur' = [cur EXCEPT !["fwd"] = 0]
          /\ GoTo("fwd", IF stopped THEN "off" ELSE "check")
  /\ UNCHANGED <<ring, stopped, abort, rec, com, retry, full, woken,
                 next_queue, scanned, history>>

Fwd == \/ FwdCheck \/ FwdWait \/ FwdArmedCheck \/ FwdWake \/ FwdDeadline
       \/ FwdWoke \/ Drain("fwd") \/ FwdRecheck \/ FwdRx \/ FwdPublish
       \/ FwdNext

-----------------------------------------------------------------------------
(* The helper: macswap_worker_main.  With one queue it exits only when it   *)
(* finds the ring empty and then sees a stop; with more it exits on the     *)
(* first stop it sees, and scans the queues round robin.                    *)

\* Mutant: the helper is deaf to a stop.
AbortOnly == abort

Exiting == abort \/ stopped

WkPoll ==
  /\ pc["wk"] = "poll"
  /\ IF NbQueues = 1
     THEN GoTo("wk", IF completed[0] = submitted[0] THEN "idle" ELSE "swap")
     ELSE GoTo("wk", IF Exiting THEN "off" ELSE "scan")
  /\ scanned' = 0
  /\ UNCHANGED <<ring, stopped, abort, cur, rec, com, retry, full, woken,
                 next_queue, history>>

WkIdle ==
  /\ pc["wk"] = "idle"
  /\ GoTo("wk", IF Exiting THEN "off" ELSE "poll")
  /\ UNCHANGED <<ring, stopped, abort, cur, rec, com, retry, full, woken,
                 next_queue, scanned, history>>

WkScan ==
  LET q == (next_queue["wk"] + scanned) % NbQueues IN
  /\ pc["wk"] = "scan"
  /\ IF completed[q] = submitted[q]
     THEN /\ scanned' = scanned + 1
          /\ GoTo("wk", IF scanned + 1 = NbQueues THEN "poll" ELSE "scan")
          /\ UNCHANGED cur
     ELSE /\ cur' = [cur EXCEPT !["wk"] = q]
          /\ GoTo("wk", "swap")
          /\ UNCHANGED scanned
  /\ UNCHANGED <<ring, stopped, abort, rec, com, retry, full, woken,
                 next_queue, history>>

\* do_macswap on the whole batch.
SwapBatch(q) ==
  swaps' = [swaps EXCEPT ![q] =
    [i \in Pkts |-> IF i \in PktsOf(BatchAt(q, completed[q]))
                    THEN swaps[q][i] + 1 ELSE swaps[q][i]]]

WkSwap ==
  /\ pc["wk"] = "swap"
  /\ SwapBatch(cur["wk"])
  /\ GoTo("wk", "publish")
  /\ UNCHANGED <<ring, stopped, abort, cur, rec, com, retry, full, woken,
                 next_queue, scanned, rxd, out, stats>>

\* Publish the packet writes; the store wakes a forwarding lcore in UMWAIT.
WkPublish ==
  LET q == cur["wk"] IN
  /\ pc["wk"] = "publish"
  /\ completed' = [completed EXCEPT ![q] = @ + 1]
  /\ woken' = (woken \/ q = cur["fwd"])
  /\ next_queue' = [next_queue EXCEPT !["wk"] = (q + 1) % NbQueues]
  /\ GoTo("wk", "poll")
  /\ UNCHANGED <<submitted, reclaimed, slots, live, stopped, abort, cur, rec,
                 com, retry, full, scanned, history>>

Wk == WkPoll \/ WkIdle \/ WkScan \/ WkSwap \/ WkPublish

-----------------------------------------------------------------------------
(* The main lcore: start_packet_forwarding and stop_packet_forwarding with  *)
(* the engine's begin and end callbacks.                                    *)

\* begin: fresh zeroed rings, then the helper is launched.
MBegin ==
  /\ pc["main"] = "idle"
  /\ pc' = [pc EXCEPT !["main"] = "begun", !["wk"] = "poll"]
  /\ submitted' = [q \in Queues |-> 0]
  /\ completed' = [q \in Queues |-> 0]
  /\ reclaimed' = [q \in Queues |-> 0]
  /\ slots' = [q \in Queues |-> [s \in 0 .. DEPTH - 1 |-> ZeroBatch]]
  /\ live' = TRUE
  /\ stopped' = FALSE
  /\ abort' = FALSE
  /\ next_queue' = [next_queue EXCEPT !["wk"] = 0]
  /\ UNCHANGED <<cur, rec, com, retry, full, woken, scanned, history>>

\* The launch of another forwarding lcore's helper fails: begin backs out.
MBeginFails ==
  /\ pc["main"] = "begun"
  /\ abort' = TRUE
  /\ stopped' = TRUE
  /\ GoTo("main", "failjoin")
  /\ UNCHANGED <<ring, cur, rec, com, retry, full, woken, next_queue, scanned,
                 history>>

\* fwd_stats_reset, then the forwarding lcore is launched.
MLaunch ==
  /\ pc["main"] = "begun"
  /\ pc' = [pc EXCEPT !["main"] = "forwarding", !["fwd"] = "check"]
  /\ stopped' = FALSE
  /\ stats' = [q \in Queues |-> [rx |-> 0, tx |-> 0, dropped |-> 0]]
  /\ UNCHANGED <<ring, abort, cur, rec, com, retry, full, woken, next_queue,
                 scanned, rxd, swaps, out>>

MStop ==
  /\ pc["main"] = "forwarding"
  /\ stopped' = TRUE
  /\ GoTo("main", "join")
  /\ UNCHANGED <<ring, abort, cur, rec, com, retry, full, woken, next_queue,
                 scanned, history>>

\* Mutant: the helper is not joined.
MJoinFwdOnly ==
  /\ pc["main"] = "join"
  /\ pc["fwd"] = "off"
  /\ GoTo("main", "process")
  /\ next_queue' = [next_queue EXCEPT !["main"] = 0]
  /\ UNCHANGED <<ring, stopped, abort, cur, rec, com, retry, full, woken,
                 scanned, history>>

\* Mutant: end does not finish the queued work, it only frees it.
MJoinThenFree ==
  /\ pc["main"] = "join"
  /\ pc["fwd"] = "off" /\ pc["wk"] = "off"
  /\ GoTo("main", "free")
  /\ UNCHANGED <<ring, stopped, abort, cur, rec, com, retry, full, woken,
                 next_queue, scanned, history>>

\* rte_eal_mp_wait_lcore returns; end finishes the queued work.
MJoin ==
  /\ pc["main"] = "join"
  /\ pc["fwd"] = "off" /\ pc["wk"] = "off"
  /\ GoTo("main", "process")
  /\ next_queue' = [next_queue EXCEPT !["main"] = 0]
  /\ UNCHANGED <<ring, stopped, abort, cur, rec, com, retry, full, woken,
                 scanned, history>>

\* rte_eal_wait_lcore on the launched helpers of a begin that failed.
MFailJoin ==
  /\ pc["main"] = "failjoin"
  /\ pc["wk"] = "off"
  /\ GoTo("main", "free")
  /\ UNCHANGED <<ring, stopped, abort, cur, rec, com, retry, full, woken,
                 next_queue, scanned, history>>

\* macswap_process_one: the first queue from next_queue on that has work.
MProcess ==
  /\ pc["main"] = "process"
  /\ \E k \in 0 .. NbQueues - 1 :
       LET Q(j) == (next_queue["main"] + j) % NbQueues
           q == Q(k)
       IN
       /\ completed[q] # submitted[q]
       /\ \A j \in 0 .. k - 1 : completed[Q(j)] = submitted[Q(j)]
       /\ SwapBatch(q)
       /\ completed' = [completed EXCEPT ![q] = @ + 1]
       /\ next_queue' = [next_queue EXCEPT !["main"] = (q + 1) % NbQueues]
  /\ UNCHANGED <<submitted, reclaimed, slots, live, stopped, abort, pc, cur,
                 rec, com, retry, full, woken, scanned, rxd, out, stats>>

\* Mutant: completed slots are left to macswap_pipeline_free.
MProcessedThenFree ==
  /\ pc["main"] = "process"
  /\ \A q \in Queues : completed[q] = submitted[q]
  /\ GoTo("main", "free")
  /\ UNCHANGED <<ring, stopped, abort, cur, rec, com, retry, full, woken,
                 next_queue, scanned, history>>

\* Nothing left to process: transmit what was never reclaimed.
MProcessed ==
  /\ pc["main"] = "process"
  /\ \A q \in Queues : completed[q] = submitted[q]
  /\ cur' = [cur EXCEPT !["main"] = 0]
  /\ GoTo("main", "drain")
  /\ UNCHANGED <<ring, stopped, abort, rec, com, retry, full, woken,
                 next_queue, scanned, history>>

\* macswap_free_unreclaimed: packets of the slots never reclaimed, oldest first.
Unreclaimed(q) ==
  IF reclaimed[q] = submitted[q] THEN << >>
  ELSE LET b == BatchAt(q, reclaimed[q])
           l == BatchAt(q, submitted[q] - 1)
           from == b.first + b.tx_sent
       IN Leave(q, from, l.first + l.nb_rx - from, "free")

\* macswap_pipeline_free.
MFree ==
  /\ pc["main"] = "free"
  /\ out' = [q \in Queues |-> out[q] \o Unreclaimed(q)]
  /\ live' = FALSE
  /\ GoTo("main", "idle")
  /\ UNCHANGED <<submitted, completed, reclaimed, slots, stopped, abort, cur,
                 rec, com, retry, full, woken, next_queue, scanned, rxd, swaps,
                 stats>>

\* What the main lcore does on its own; begin, launch and stop are commands.
MainSteps == \/ MJoin \/ MFailJoin \/ MProcess \/ MProcessed \/ Drain("main")
             \/ MFree
Main == MBegin \/ MBeginFails \/ MLaunch \/ MStop \/ MainSteps

Next == Fwd \/ Wk \/ Main

Spec == Init /\ [][Next]_vars

\* Every lcore keeps running; the deadline of UMWAIT need not expire, and the
\* commands may not come.
FwdNoDeadline == Fwd /\ ~(pc["fwd"] = "asleep" /\ ~woken)
FairSpec ==
  Spec /\ WF_vars(FwdNoDeadline) /\ WF_vars(Wk) /\ WF_vars(MainSteps)

\* It is one second of TSC, so it does: properties that need it say so.
DeadlineExpires == WF_vars(FwdDeadline)

-----------------------------------------------------------------------------
\* Type invariant, in parts.
CursorType ==
  /\ submitted \in [Queues -> Nat]
  /\ completed \in [Queues -> Nat]
  /\ reclaimed \in [Queues -> Nat]
SlotsType == slots \in [Queues -> [0 .. DEPTH - 1 -> Batch]]
FlagType == {live, stopped, abort, full, woken} \subseteq BOOLEAN
PcType ==
  /\ pc \in [Procs -> FwdPC \cup WkPC \cup MainPC]
  /\ pc["fwd"] \in FwdPC /\ pc["wk"] \in WkPC /\ pc["main"] \in MainPC
LocalType ==
  /\ cur \in [Procs -> Queues]
  /\ rec \in [Drainers -> Nat]
  /\ com \in [Drainers -> Nat]
RetryType == retry \in [Drainers -> 0 .. burst_tx_retry_num]
ScanType ==
  /\ next_queue \in [{"wk", "main"} -> Queues]
  /\ scanned \in 0 .. NbQueues
RxType ==
  /\ rxd \in [Queues -> 0 .. MaxPkts]
  /\ swaps \in [Queues -> [Pkts -> Nat]]
OutType ==
  out \in [Queues -> Seq([pkt : Nat, how : {"tx", "free"}, swaps : Nat])]
StatsType == stats \in [Queues -> [rx : Nat, tx : Nat, dropped : Nat]]

TypeOK ==
  /\ CursorType /\ SlotsType /\ FlagType /\ PcType /\ LocalType /\ RetryType
  /\ ScanType /\ RxType /\ OutType /\ StatsType

\* The cursors never overtake each other and the ring never overflows.
CursorOrder ==
  \A q \in Queues :
    /\ reclaimed[q] <= completed[q]
    /\ completed[q] <= submitted[q]
    /\ submitted[q] <= reclaimed[q] + DEPTH

\* The slot an lcore reads or writes at its present step, if any.
InUse(p) ==
  CASE p \in Drainers /\ pc[p] \in {"tx", "drop"} -> {<<cur[p], Slot(rec[p])>>}
    [] p = "fwd" /\ pc[p] \in {"rx", "publish"} ->
         {<<cur[p], Slot(submitted[cur[p]])>>}
    [] p = "wk" /\ pc[p] \in {"swap", "publish"} ->
         {<<cur[p], Slot(completed[cur[p]])>>}
    [] OTHER -> {}

\* "A slot remains owned by the forwarding core until it is submitted, by the
\* processing core until it is completed, and by the forwarding core again
\* until it is transmitted and reclaimed": no two lcores are in one slot.
SlotOwnership ==
  \A p1, p2 \in Procs : p1 # p2 => InUse(p1) \cap InUse(p2) = {}

\* The forwarding lcore never receives into a slot that holds packets still to
\* be swapped or transmitted (rte_eth_rx_burst writes batch->pkts in place).
RxIntoFreeSlot ==
  LET q == cur["fwd"] IN
  pc["fwd"] \in {"rx", "publish"} =>
    \A c \in reclaimed[q] .. submitted[q] - 1 : Slot(c) # Slot(submitted[q])

\* No packet is lost, duplicated or reordered: the k-th thing to leave a stream
\* is its k-th packet, whatever mix of bursts, retries, drops and shutdown.
InOrderOnce ==
  \A q \in Queues : \A k \in 1 .. Len(out[q]) : out[q][k].pkt = k

\* Every packet is swapped exactly once before it leaves (a second swap would
\* undo the first), also when the main lcore finishes the work after a stop.
SwappedOnce ==
  \A q \in Queues : \A k \in 1 .. Len(out[q]) : out[q][k].swaps = 1

\* Once end has returned, every packet received has left and the statistics
\* agree: rx_packets = tx_packets + fwd_dropped.
StatsBalanced ==
  pc["main"] = "idle" =>
    \A q \in Queues : /\ Len(out[q]) = rxd[q]
                      /\ stats[q].rx = stats[q].tx + stats[q].dropped

\* "No queue memory is freed until both stages have stopped": a lcore that runs
\* the engine's code finds its rings allocated.
NoUseAfterFree ==
  \/ live
  \/ pc = [fwd |-> "off", wk |-> "off", main |-> "idle"]

\* "UMONITOR the completion cursor, then close the missed-wakeup race": the
\* forwarding lcore never sleeps past a completion it was waiting for.
NoMissedWakeup ==
  LET q == cur["fwd"] IN
  pc["fwd"] = "asleep" /\ ~woken => completed[q] = reclaimed[q]

\* The drain of a full ring always frees a slot: the second full test of
\* pkt_burst_mac_swap never sends the callback home.
DrainMakesRoom == pc["fwd"] = "recheck" => ~RingFull(cur["fwd"])

\* No step changes a batch the helper has been given and not completed.
GivenBatchesStable ==
  [][live /\ live' => \A q \in Queues :
       \A c \in completed[q] .. submitted[q] - 1 :
         slots'[q][Slot(c)] = slots[q][Slot(c)]]_vars

\* A stop ends, and so does a begin that backs out: the lcores leave, the queued
\* work is finished, end returns; but a stop may need the deadline of UMWAIT.
StopCompletes ==
  /\ pc["main"] = "failjoin" ~> pc["main"] = "idle"
  /\ DeadlineExpires => (pc["main"] = "join" ~> pc["main"] = "idle")

\* Until a stop, UMWAIT does not need its deadline: a completion ends it.  (The
\* helper may leave on a stale read of `submitted' as a stop comes, and then only
\* the deadline wakes a forwarding lcore asleep on a full ring.)
SleepEndsUntilStop ==
  pc["fwd"] = "asleep" ~> pc["fwd"] # "asleep" \/ stopped

-----------------------------------------------------------------------------
(* The inductive invariant behind the safety properties.                    *)

\* A slot holds packets that were received, and sends no more than it holds.
BatchesValid ==
  \A q \in Queues : \A s \in 0 .. DEPTH - 1 :
    LET b == slots[q][s] IN
    /\ b.tx_sent <= b.nb_rx
    /\ b.nb_rx > 0 => b.first > 0 /\ b.first + b.nb_rx <= rxd[q] + 1

\* A drain works between the reclaimed and the completed cursor of its ring.
DrainLocals ==
  \A p \in Drainers :
    /\ pc[p] \in {"tx", "drop"} =>
         reclaimed[cur[p]] <= rec[p] /\ rec[p] < com[p]
    /\ pc[p] = "store" => reclaimed[cur[p]] <= rec[p] /\ rec[p] = com[p]
    /\ pc[p] \in {"tx", "drop", "store"} => com[p] <= completed[cur[p]]

\* The forwarding lcore fills a free slot; a full ring is drained of something.
FwdLocals ==
  LET q == cur["fwd"] IN
  /\ pc["fwd"] \in {"rx", "publish"} => submitted[q] < reclaimed[q] + DEPTH
  /\ full => pc["fwd"] \in {"drain", "tx", "drop", "store", "recheck"}
  /\ full /\ pc["fwd"] = "drain" => reclaimed[q] < completed[q]
  /\ full /\ pc["fwd"] \in {"tx", "drop", "store"} => reclaimed[q] < com["fwd"]
  /\ pc["fwd"] = "recheck" => submitted[q] < reclaimed[q] + DEPTH

\* The helper swaps a submitted batch that it has not completed.
WkLocals ==
  /\ pc["wk"] \in {"swap", "publish"} =>
       completed[cur["wk"]] < submitted[cur["wk"]]
  /\ pc["wk"] = "scan" => scanned < NbQueues

\* What is known of the others at each step of the main lcore.
MainLocals ==
  /\ pc["main"] = "idle" => ~live
  /\ pc["main"] # "idle" => live
  /\ pc["main"] \notin {"forwarding", "join"} => pc["fwd"] = "off"
  /\ pc["main"] \notin {"begun", "forwarding", "failjoin", "join"} =>
       pc["wk"] = "off"
  /\ pc["main"] \in {"begun", "failjoin"} =>
       \A q \in Queues : submitted[q] = reclaimed[q]
  /\ pc["main"] \in {"drain", "tx", "drop", "store"} =>
       /\ \A q \in Queues : completed[q] = submitted[q]
       /\ \A q \in 0 .. cur["main"] - 1 : reclaimed[q] = submitted[q]
  /\ pc["main"] \in {"tx", "drop", "store"} => com["main"] = completed[cur["main"]]
  /\ pc["main"] = "free" => \A q \in Queues : reclaimed[q] = submitted[q]

\* The cursors, the slots and what the locals of every lcore say of them.
IndInv == /\ TypeOK /\ BatchesValid /\ CursorOrder /\ DrainLocals /\ FwdLocals
          /\ WkLocals /\ MainLocals

-----------------------------------------------------------------------------
(* The history behind them: where the packets of a stream are.              *)

\* The batches of stream q that hold packets are reclaimed .. Top - 1: the
\* one received and not yet published counts.
Top(q) == IF pc["fwd"] = "publish" /\ cur["fwd"] = q
          THEN submitted[q] + 1 ELSE submitted[q]

\* The first batch not swapped: the one swapped and not yet published counts.
Done(q) == IF pc["wk"] = "publish" /\ cur["wk"] = q
           THEN completed[q] + 1 ELSE completed[q]

\* The batch that leaves next.
Draining(p, q) == pc[p] \in {"tx", "drop", "store"} /\ cur[p] = q
At(q) == IF Draining("fwd", q) THEN rec["fwd"]
         ELSE IF Draining("main", q) THEN rec["main"] ELSE reclaimed[q]

\* The first packet of batch c, and how many of its packets left.
Start(q, c) == IF c = Top(q) THEN rxd[q] + 1 ELSE BatchAt(q, c).first
Sent(q, c) == IF c = Top(q) THEN 0 ELSE BatchAt(q, c).tx_sent

\* Batches follow one another, up to the last packet received.
BatchesFollow ==
  \A q \in Queues :
    /\ \A c \in reclaimed[q] .. Top(q) - 1 :
         Start(q, c) + BatchAt(q, c).nb_rx = Start(q, c + 1)
    /\ \A c, d \in reclaimed[q] .. Top(q) : c <= d => Start(q, c) <= Start(q, d)

\* What left is what came before the packet that leaves next; nothing of a
\* later batch left.
LeftInOrder ==
  \A q \in Queues :
    /\ Len(out[q]) + 1 = Start(q, At(q)) + Sent(q, At(q))
    /\ \A c \in At(q) + 1 .. Top(q) - 1 : BatchAt(q, c).tx_sent = 0

\* The packets of the batches done are swapped once, the others not at all.
SwappedSoFar ==
  \A q \in Queues : \A i \in Pkts :
    swaps[q][i] = IF i < Start(q, Done(q)) THEN 1 ELSE 0

\* The statistics account for the packets that are held.
HeldCounted ==
  \A q \in Queues : rxd[q] - Len(out[q]) =
                     stats[q].rx - stats[q].tx - stats[q].dropped

\* Between runs the rings are empty.
IdleEmpty ==
  pc["main"] = "idle" => \A q \in Queues : submitted[q] = reclaimed[q]

\* The packets of a stream, from the pool to the NIC: in order, swapped once the
\* helper or end is done with them, counted until they leave.
HistoryInv ==
  /\ BatchesFollow /\ LeftInOrder /\ SwappedSoFar /\ HeldCounted /\ IdleEmpty
  /\ InOrderOnce /\ SwappedOnce

\* What holds at every step of forwarding, stop and end: the cursors and the
\* locals of every lcore (IndInv), and the packets (HistoryInv).
FullInv == IndInv /\ HistoryInv

-----------------------------------------------------------------------------
\* What the engine promises: each stream is an in-order forwarder that swaps
\* every packet once (safety and liveness).
Promise == INSTANCE InOrderForwarding WITH Streams <- Queues
PromiseSpec == Promise!Spec /\ (DeadlineExpires => Promise!Fairness)

=============================================================================
