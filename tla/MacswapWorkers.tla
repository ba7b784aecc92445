--------------------------- MODULE MacswapWorkers ---------------------------
(***************************************************************************)
(* The worker-per-queue macswap engine                                     *)
(* (dpdk-pipeline-scale/app/test-pmd/macswap.c): a forwarding lcore ("poller") *)
(* hands each burst to the worker of the stream's rx queue through a `ready' *)
(* flag and waits for the worker to clear it.  A worker is launched by the *)
(* first callback that needs it.                                           *)
(*                                                                         *)
(* The worker is given a pointer to the poller's packet array, not the     *)
(* packets: it swaps what the array holds when it gets to it.  The retries *)
(* of a transmission are one step: whatever they come to, the NIC has      *)
(* taken the first packets of the burst, and the rest is freed.  Nothing   *)
(* ever sets `stop', so a worker never leaves its lcore and the join of a  *)
(* stop never comes.                                                       *)
(***************************************************************************)
EXTENDS Integers, Sequences

CONSTANTS
  Pollers,       \* the forwarding lcores
  StreamsOf,     \* the streams each polls, in turn
  Queues,        \* all streams
  rx_queue,      \* fs->rx_queue of each stream
  NUM_CORE,
  my_lcore_id,   \* lcore of each worker index
  MaxPkts,       \* bound: packets the NIC delivers to each stream
  nb_pkt_per_burst

Indices == 0 .. NUM_CORE - 1
Lcores == Pollers \cup {my_lcore_id[i] : i \in Indices}
Pkts == 1 .. MaxPkts

ASSUME WorkersAssumption ==
  /\ NUM_CORE \in Nat \ {0}
  /\ StreamsOf \in [Pollers -> Seq(Queues)]
  /\ \A p \in Pollers : StreamsOf[p] # << >>
  /\ rx_queue \in [Queues -> Nat]
  /\ DOMAIN my_lcore_id = Indices
  /\ MaxPkts \in Nat /\ nb_pkt_per_burst \in Nat \ {0}

VARIABLES
  job,          \* what each lcore runs: "none", "poller", "worker"
  stopped,      \* fwd_lcores[]->stopped of each poller
  thread_initialized,
  ready, stop,  \* macswap_data[i].ready, .stop
  work,         \* macswap_data[i].pkts_burst, as its poller, and .nb_rx
  burst,        \* what each poller's array holds, and how much of it is sent
  pc,           \* where each poller is
  turn,         \* the stream it serves, as an index of StreamsOf
  wpc,          \* where each worker is
  exited,       \* rte_exit was called
  main,         \* the main lcore: "idle", "launching", "forwarding", "join"
  rxd, swaps, out   \* as in MacswapPipeline

data == <<ready, stop, work>>
history == <<rxd, swaps, out>>
vars == <<job, stopped, thread_initialized, data, burst, pc, turn, wpc, exited,
          main, history>>

\* The parts of the state an action of a poller or of a worker leaves alone.
control == <<job, stopped, thread_initialized, wpc, exited, main>>

Stream(p) == StreamsOf[p][turn[p]]
Index(p) == rx_queue[Stream(p)] % NUM_CORE
NoWork == [array |-> "null", nb_rx |-> 0]
NoBurst == [first |-> 1, nb_rx |-> 0, nb_tx |-> 0]

\* The packets from place `from' of a burst to place `to' leave.
Leave(q, b, from, to, how) ==
  [k \in 1 .. to - from + 1 |->
     LET pkt == b.first + from + k - 2
     IN [pkt |-> pkt, how |-> how, swaps |-> swaps[q][pkt]]]

GoTo(p, l) == pc' = [pc EXCEPT ![p] = l]
At(p, l) == ~exited /\ job[p] = "poller" /\ pc[p] = l

-----------------------------------------------------------------------------
Init ==
  /\ job = [l \in Lcores |-> "none"]
  /\ stopped = [p \in Pollers |-> FALSE]
  /\ thread_initialized = [i \in Indices |-> FALSE]
  /\ ready = [i \in Indices |-> FALSE]
  /\ stop = [i \in Indices |-> FALSE]
  /\ work = [i \in Indices |-> NoWork]
  /\ burst = [p \in Pollers |-> NoBurst]
  /\ pc = [p \in Pollers |-> "check"]
  /\ turn = [p \in Pollers |-> 1]
  /\ wpc = [i \in Indices |-> "poll"]
  /\ exited = FALSE
  /\ main = "idle"
  /\ rxd = [q \in Queues |-> 0]
  /\ swaps = [q \in Queues |-> [i \in Pkts |-> 0]]
  /\ out = [q \in Queues |-> << >>]

-----------------------------------------------------------------------------
(* pkt_burst_mac_swap. *)

\* Is the worker of this queue initialized?
PCheck(p) ==
  /\ At(p, "check")
  /\ GoTo(p, IF thread_initialized[Index(p)] THEN "rx" ELSE "init")
  /\ UNCHANGED <<control, data, burst, turn, history>>

\* init_thread_data.
PInit(p) ==
  /\ At(p, "init")
  /\ ready' = [ready EXCEPT ![Index(p)] = FALSE]
  /\ stop' = [stop EXCEPT ![Index(p)] = FALSE]
  /\ work' = [work EXCEPT ![Index(p)] = NoWork]
  /\ GoTo(p, "launch")
  /\ UNCHANGED <<control, burst, turn, history>>

\* rte_eal_remote_launch: -EBUSY, and the program exits, unless in WAIT.
PLaunch(p) ==
  LET l == my_lcore_id[Index(p)] IN
  /\ At(p, "launch")
  /\ IF job[l] = "none"
     THEN /\ job' = [job EXCEPT ![l] = "worker"]
          /\ wpc' = [wpc EXCEPT ![Index(p)] = "poll"]
          /\ GoTo(p, "mark")
          /\ UNCHANGED exited
     ELSE exited' = TRUE /\ UNCHANGED <<job, wpc, pc>>
  /\ UNCHANGED <<stopped, thread_initialized, data, burst, turn, main, history>>

\* Mutant: the worker is not marked as launched.
PMarkMissing(p) ==
  /\ At(p, "mark")
  /\ GoTo(p, "rx")
  /\ UNCHANGED <<control, data, burst, turn, history>>

PMark(p) ==
  /\ At(p, "mark")
  /\ thread_initialized' = [thread_initialized EXCEPT ![Index(p)] = TRUE]
  /\ GoTo(p, "rx")
  /\ UNCHANGED <<job, stopped, data, burst, turn, wpc, exited, main, history>>

\* rte_eth_rx_burst into the array on the stack.
PRx(p) ==
  LET q == Stream(p) IN
  /\ At(p, "rx")
  /\ \E n \in 0 .. nb_pkt_per_burst :
       /\ rxd[q] + n <= MaxPkts
       /\ burst' = [burst EXCEPT ![p] =
            [first |-> rxd[q] + 1, nb_rx |-> n, nb_tx |-> 0]]
       /\ rxd' = [rxd EXCEPT ![q] = @ + n]
       /\ GoTo(p, IF n = 0 THEN "next" ELSE "wait")
  /\ UNCHANGED <<control, data, turn, swaps, out>>

\* Wait for previous work to complete.
PWait(p) ==
  /\ At(p, "wait") /\ ~ready[Index(p)]
  /\ GoTo(p, "write")
  /\ UNCHANGED <<control, data, burst, turn, history>>

\* Mutant: the number of packets is left from the burst before.
PWriteArrayOnly(p) ==
  /\ At(p, "write")
  /\ work' = [work EXCEPT ![Index(p)].array = p]
  /\ GoTo(p, "signal")
  /\ UNCHANGED <<control, ready, stop, burst, turn, history>>

PWrite(p) ==
  /\ At(p, "write")
  /\ work' = [work EXCEPT ![Index(p)] =
       [array |-> p, nb_rx |-> burst[p].nb_rx]]
  /\ GoTo(p, "signal")
  /\ UNCHANGED <<control, ready, stop, burst, turn, history>>

\* Signal work is ready.
PSignal(p) ==
  /\ At(p, "signal")
  /\ ready' = [ready EXCEPT ![Index(p)] = TRUE]
  /\ GoTo(p, "done")
  /\ UNCHANGED <<control, stop, work, burst, turn, history>>

\* Mutant: the work is announced, but not waited for.
PDoneNoWait(p) ==
  /\ At(p, "done")
  /\ GoTo(p, "tx")
  /\ UNCHANGED <<control, data, burst, turn, history>>

\* Wait for processing completion.
PDone(p) ==
  /\ At(p, "done") /\ ~ready[Index(p)]
  /\ GoTo(p, "tx")
  /\ UNCHANGED <<control, data, burst, turn, history>>

\* Transmit processed packets: the NIC takes the first n.
PTx(p) ==
  LET q == Stream(p)
      b == burst[p]
  IN
  /\ At(p, "tx")
  /\ \E n \in 0 .. b.nb_rx :
       /\ out' = [out EXCEPT ![q] = @ \o Leave(q, b, 1, n, "tx")]
       /\ burst' = [burst EXCEPT ![p].nb_tx = n]
       /\ GoTo(p, IF n < b.nb_rx THEN "drop" ELSE "next")
  /\ UNCHANGED <<control, data, turn, rxd, swaps>>

\* Mutant: the first packet that was not sent is not freed either.
PDropSkipsOne(p) ==
  LET q == Stream(p)
      b == burst[p]
  IN
  /\ At(p, "drop")
  /\ out' = [out EXCEPT ![q] = @ \o Leave(q, b, b.nb_tx + 2, b.nb_rx, "free")]
  /\ GoTo(p, "next")
  /\ UNCHANGED <<control, data, burst, turn, rxd, swaps>>

\* The rest is freed.
PDrop(p) ==
  LET q == Stream(p)
      b == burst[p]
  IN
  /\ At(p, "drop")
  /\ out' = [out EXCEPT ![q] = @ \o Leave(q, b, b.nb_tx + 1, b.nb_rx, "free")]
  /\ GoTo(p, "next")
  /\ UNCHANGED <<control, data, burst, turn, rxd, swaps>>

\* Mutant: the streams are not started over.
PNextNoWrap(p) ==
  /\ At(p, "next")
  /\ GoTo(p, "check")
  /\ turn' = [turn EXCEPT ![p] = @ + 1]
  /\ UNCHANGED <<control, data, burst, history>>

\* Next stream; `stopped' is read after the last one (run_pkt_fwd_on_lcore).
PNext(p) ==
  /\ At(p, "next")
  /\ GoTo(p, "check")
  /\ IF turn[p] < Len(StreamsOf[p])
     THEN turn' = [turn EXCEPT ![p] = @ + 1] /\ UNCHANGED job
     ELSE /\ turn' = [turn EXCEPT ![p] = 1]
          /\ job' = [job EXCEPT ![p] = IF stopped[p] THEN "none" ELSE @]
  /\ UNCHANGED <<stopped, thread_initialized, data, burst, wpc, exited, main,
                 history>>

Poller(p) == \/ PCheck(p) \/ PInit(p) \/ PLaunch(p) \/ PMark(p) \/ PRx(p)
             \/ PWait(p) \/ PWrite(p) \/ PSignal(p) \/ PDone(p) \/ PTx(p)
             \/ PDrop(p) \/ PNext(p)

-----------------------------------------------------------------------------
(* macswap_thread_func. *)

WAt(i, l) == ~exited /\ job[my_lcore_id[i]] = "worker" /\ wpc[i] = l

\* Both flags are read in turn; with neither set the worker pauses.
WPoll(i) ==
  /\ WAt(i, "poll")
  /\ IF stop[i]
     THEN job' = [job EXCEPT ![my_lcore_id[i]] = "none"] /\ UNCHANGED wpc
     ELSE /\ wpc' = [wpc EXCEPT ![i] = IF ready[i] THEN "swap" ELSE "poll"]
          /\ UNCHANGED job
  /\ UNCHANGED <<stopped, thread_initialized, data, burst, pc, turn, exited,
                 main, history>>

\* do_macswap on nb_rx packets of the array, as they are now.
SwapArray(i) ==
  IF work[i].nb_rx = 0 THEN UNCHANGED swaps
  ELSE LET first == burst[work[i].array].first IN
    swaps' = [swaps EXCEPT ![Stream(work[i].array)] = [k \in Pkts |->
      IF k \in first .. first + work[i].nb_rx - 1 THEN @[k] + 1 ELSE @[k]]]

WSwap(i) ==
  /\ WAt(i, "swap")
  /\ SwapArray(i)
  /\ wpc' = [wpc EXCEPT ![i] = "clear"]
  /\ UNCHANGED <<job, stopped, thread_initialized, data, burst, pc, turn,
                 exited, main, rxd, out>>

\* Mark work as complete.
WClear(i) ==
  /\ WAt(i, "clear")
  /\ ready' = [ready EXCEPT ![i] = FALSE]
  /\ wpc' = [wpc EXCEPT ![i] = "poll"]
  /\ UNCHANGED <<job, stopped, thread_initialized, stop, work, burst, pc,
                 turn, exited, main, history>>

Worker(i) == WPoll(i) \/ WSwap(i) \/ WClear(i)

-----------------------------------------------------------------------------
(* The main lcore: one start and one stop of testpmd. *)

MStart ==
  /\ ~exited /\ main = "idle"
  /\ main' = "launching"
  /\ UNCHANGED <<job, stopped, thread_initialized, data, burst, pc, turn, wpc,
                 exited, history>>

\* launch_packet_forwarding.
MLaunch ==
  /\ ~exited /\ main = "launching"
  /\ \E p \in Pollers :
       /\ job[p] = "none"
       /\ job' = [job EXCEPT ![p] = "poller"]
  /\ main' = IF \A p \in Pollers : job'[p] # "none" THEN "forwarding"
                                                    ELSE "launching"
  /\ UNCHANGED <<stopped, thread_initialized, data, burst, pc, turn, wpc,
                 exited, history>>

\* stop_packet_forwarding, up to rte_eal_mp_wait_lcore, which waits for
\* the workers for ever.
MStop ==
  /\ ~exited /\ main = "forwarding"
  /\ stopped' = [p \in Pollers |-> TRUE]
  /\ main' = "join"
  /\ UNCHANGED <<job, thread_initialized, data, burst, pc, turn, wpc, exited,
                 history>>

-----------------------------------------------------------------------------
Next == \/ MStart \/ MLaunch \/ MStop
        \/ \E p \in Pollers : Poller(p)
        \/ \E i \in Indices : Worker(i)

Spec == Init /\ [][Next]_vars

\* Every lcore keeps running; the operator need not type anything.
FairSpec ==
  /\ Spec
  /\ WF_vars(MLaunch)
  /\ \A p \in Pollers : WF_vars(Poller(p))
  /\ \A i \in Indices : WF_vars(Worker(i))

-----------------------------------------------------------------------------
TypeOK ==
  /\ job \in [Lcores -> {"none", "poller", "worker"}]
  /\ {thread_initialized, ready, stop} \subseteq [Indices -> BOOLEAN]
  /\ stopped \in [Pollers -> BOOLEAN]
  /\ work \in [Indices -> [array : Pollers \cup {"null"},
                           nb_rx : 0 .. nb_pkt_per_burst]]
  /\ burst \in [Pollers -> [first : 1 .. MaxPkts + 1, nb_rx : 0 .. nb_pkt_per_burst,
                            nb_tx : 0 .. nb_pkt_per_burst]]
  /\ pc \in [Pollers -> {"check", "init", "launch", "mark", "rx", "wait",
             "write", "signal", "done", "tx", "drop", "next"}]
  /\ turn \in [Pollers -> Nat]
  /\ \A p \in Pollers : turn[p] \in DOMAIN StreamsOf[p]
  /\ wpc \in [Indices -> {"poll", "swap", "clear"}]
  /\ exited \in BOOLEAN
  /\ main \in {"idle", "launching", "forwarding", "join"}
  /\ rxd \in [Queues -> 0 .. MaxPkts]
  /\ swaps \in [Queues -> [Pkts -> Nat]]

\* "Transmit processed packets": whatever leaves the engine, sent or freed,
\* has been swapped, once.
TransmitProcessed ==
  \A q \in Queues : \A k \in DOMAIN out[q] : out[q][k].swaps = 1

\* While a worker swaps, the array it was given is the one its poller waits
\* for: it is not being filled, transmitted or freed, and holds nb_rx packets.
HandoffExclusive ==
  \A i \in Indices : WAt(i, "swap") =>
    \E p \in Pollers : /\ work[i] = [array |-> p, nb_rx |-> burst[p].nb_rx]
                       /\ pc[p] = "done" /\ Index(p) = i

\* Each poller owns the workers of its queues: the assumption under which the
\* handoff works.  Two ports that share a queue number break it.
WorkersNotShared ==
  \A p, r \in Pollers : \A a \in DOMAIN StreamsOf[p] : \A b \in DOMAIN StreamsOf[r] :
    rx_queue[StreamsOf[p][a]] % NUM_CORE = rx_queue[StreamsOf[r][b]] % NUM_CORE
      => p = r

\* The worker lcores are apart from the pollers' and from one another.
LcoresApart ==
  \A i \in Indices :
    /\ my_lcore_id[i] \notin Pollers
    /\ \A j \in Indices : my_lcore_id[i] = my_lcore_id[j] => i = j

\* Each stream is an in-order forwarder that swaps every packet once and holds
\* none for ever (pkt_burst_mac_swap and macswap_thread_func together).
Promise == INSTANCE InOrderForwarding WITH Streams <- Queues
PromiseSpec == Promise!FairSpec

\* "Failed to launch macswap_thread_func": no worker is launched on a busy
\* lcore, so none twice, wherever the worker lcores are apart from the pollers'
\* (the ones compiled in are the lcores testpmd polls on by default).
LaunchSucceeds == ~exited

=============================================================================
