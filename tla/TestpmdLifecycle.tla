-------------------------- MODULE TestpmdLifecycle --------------------------
(***************************************************************************)
(* Starting and stopping packet forwarding in testpmd                      *)
(* (start_packet_forwarding, stop_packet_forwarding) around the begin and  *)
(* end callbacks of the pipelined macswap engine, for several forwarding   *)
(* lcores, each with a helper lcore, and several ports.  The callbacks are *)
(* called once per port and build and free one pipeline for all of them.   *)
(* What the lcores do with packets is MacswapPipeline; here an lcore only  *)
(* runs until it sees the flag that stops it.                              *)
(***************************************************************************)
EXTENDS Integers, Sequences

CONSTANTS
  fwd_lcores_cpuids,  \* the lcore of each forwarding index
  NUM_CORE,           \* worker indices: helpers there may be
  Placements,         \* the tables of helper lcores that may be compiled in
  Workers,            \* EAL worker lcores: the enabled ones but the main lcore
  NbPorts,            \* cur_fwd_config.nb_fwd_ports
  MaxQueues,          \* bound: queues per port, the lesser of nb_rxq and nb_txq
  Engines,            \* the forwarding engines the operator picks from
  SwitchWhileForwarding  \* the operator types "set fwd" while forwarding, too

\* An engine: does it have begin and end callbacks, as the pipelined one has, and
\* (bound) how many bursts a "start tx_first" asks of it, 0 for plain starts only.
Engine == [callbacks : BOOLEAN, tx_first : Nat]

Indices == 1 .. Len(fwd_lcores_cpuids)
WorkerIds == 1 .. NUM_CORE

ASSUME LifecycleAssumption ==
  /\ fwd_lcores_cpuids \in Seq(Workers) /\ fwd_lcores_cpuids # << >>
  /\ \A i, j \in Indices : fwd_lcores_cpuids[i] = fwd_lcores_cpuids[j] => i = j
  /\ NUM_CORE \in Nat \ {0}
  /\ \A t \in Placements : DOMAIN t = WorkerIds
  /\ NbPorts \in Nat \ {0} /\ MaxQueues \in Nat \ {0}
  /\ Engines \subseteq Engine /\ Engines # {}
  /\ SwitchWhileForwarding \in BOOLEAN

VARIABLES
  my_lcore_id,        \* the helper lcore of each worker index, never changed
  nb_fwd_lcores,      \* set by the operator
  nb_q,               \* set by the operator: queues in use per port
  cur_fwd_eng,        \* set by the operator
  cur_lcores, fwd_eng,  \* cur_fwd_config.nb_fwd_lcores and .fwd_eng
  job,                \* what each worker lcore runs: lcore_config[].f and arg
  stopped,            \* fwd_lcores[i]->stopped
  owner, abort,       \* macswap_workers[i].owner # NULL, .abort
  queues,             \* macswap_workers[i].queues, allocated
  launched,           \* macswap_launched_workers
  initialized,        \* macswap_pipeline_initialized
  test_done,
  pc,                 \* where the main lcore is
  port, w, bursts     \* its loops: ports, workers, tx_first bursts left

config == <<my_lcore_id, nb_fwd_lcores, nb_q, cur_fwd_eng, cur_lcores, fwd_eng>>
engine == <<owner, abort, queues, launched, initialized>>
loops == <<port, w, bursts>>
vars == <<config, job, stopped, engine, test_done, pc, loops>>

\* An idle lcore is in state WAIT; any other runs f(arg).
Idle == [f |-> "none", arg |-> 0]
Job(f, i) == [f |-> f, arg |-> i]
Waiting(l) == job[l] = Idle
AllWaiting == \A l \in Workers : Waiting(l)
InUse(i) == i <= cur_lcores
Forwarding(l) == \E i \in Indices : InUse(i) /\ fwd_lcores_cpuids[i] = l

\* No more lcores than streams, one for each queue of each port.
CappedLcores(n, q) ==
  LET nb_fwd_streams == q * NbPorts
  IN IF nb_fwd_streams < n THEN nb_fwd_streams ELSE n

-----------------------------------------------------------------------------
Init ==
  /\ my_lcore_id \in Placements
  /\ nb_fwd_lcores \in Indices /\ nb_q \in 1 .. MaxQueues
  /\ cur_fwd_eng \in Engines
  /\ cur_lcores = CappedLcores(nb_fwd_lcores, nb_q) /\ fwd_eng = cur_fwd_eng
  /\ job = [l \in Workers |-> Idle]
  /\ stopped = [i \in Indices |-> FALSE]
  /\ owner = [i \in WorkerIds |-> FALSE]
  /\ abort = [i \in WorkerIds |-> FALSE]
  /\ queues = [i \in WorkerIds |-> FALSE]
  /\ launched = 0
  /\ initialized = FALSE
  /\ test_done = TRUE
  /\ pc = "prompt"
  /\ port = 1 /\ w = 1 /\ bursts = 0

\* fwd_config_setup.
ConfigSetup == /\ cur_lcores' = CappedLcores(nb_fwd_lcores', nb_q')
               /\ fwd_eng' = cur_fwd_eng'

\* "set nbcore": refused while forwarding, and then the configuration is set up
\* again all the same.  Zero is accepted and divides by zero in that setup.
SetNbCores ==
  /\ pc = "prompt"
  /\ IF test_done THEN nb_fwd_lcores' \in Indices ELSE UNCHANGED nb_fwd_lcores
  /\ UNCHANGED <<nb_q, cur_fwd_eng>>
  /\ ConfigSetup
  /\ UNCHANGED <<my_lcore_id, job, stopped, engine, test_done, pc, loops>>

\* "port config all rxq" and "txq", with the ports stopped, which a forwarding port
\* refuses.
SetQueues ==
  /\ pc = "prompt" /\ test_done
  /\ nb_q' \in 1 .. MaxQueues
  /\ UNCHANGED <<nb_fwd_lcores, cur_fwd_eng>>
  /\ ConfigSetup
  /\ UNCHANGED <<my_lcore_id, job, stopped, engine, test_done, pc, loops>>

\* "set fwd": accepted at any time.
SetFwd ==
  /\ pc = "prompt" /\ (test_done \/ SwitchWhileForwarding)
  /\ cur_fwd_eng' \in Engines
  /\ UNCHANGED <<my_lcore_id, nb_fwd_lcores, nb_q, cur_lcores, fwd_eng, job, stopped,
                 engine, test_done, pc, loops>>

\* "start" (bursts = 0) and "start tx_first": fwd_config_setup, then begin.
Start ==
  /\ pc = "prompt" /\ test_done
  /\ UNCHANGED <<nb_fwd_lcores, nb_q, cur_fwd_eng>>
  /\ ConfigSetup
  /\ bursts' \in 0 .. cur_fwd_eng.tx_first
  /\ port' = 1
  /\ pc' = IF cur_fwd_eng.callbacks THEN "begin"
           ELSE IF bursts' > 0 THEN "txbegin" ELSE "launch"
  /\ UNCHANGED <<my_lcore_id, job, stopped, engine, test_done, w>>

\* The start returns without forwarding.
NotReady == pc' = "prompt"

-----------------------------------------------------------------------------
(* macswap_pipeline_begin, once per port. *)

NextPort(l, done) ==
  IF port < NbPorts THEN port' = port + 1 /\ pc' = l
                    ELSE port' = 1 /\ pc' = done

AfterBegin == IF bursts > 0 THEN "txbegin" ELSE "launch"

\* Too many lcores; never none, as there is a stream for each queue.
BeginTooMany ==
  /\ pc = "begin" /\ ~initialized
  /\ cur_lcores > NUM_CORE
  /\ NotReady
  /\ UNCHANGED <<config, job, stopped, engine, test_done, loops>>

Begin ==
  /\ pc = "begin"
  /\ IF initialized
     THEN NextPort("begin", AfterBegin) /\ UNCHANGED <<w, bursts>>
     ELSE /\ cur_lcores <= NUM_CORE
          /\ w' = 1 /\ pc' = "build" /\ UNCHANGED <<port, bursts>>
  /\ UNCHANGED <<config, job, stopped, engine, test_done>>

\* Mutant: a helper that forwards, too, is accepted.
AnyHelper(i) == my_lcore_id[i] \in Workers /\ Waiting(my_lcore_id[i])

\* The helper lcore must be enabled, not the main one, not forwarding, in WAIT.
HelperAvailable(i) ==
  LET l == my_lcore_id[i] IN l \in Workers /\ ~Forwarding(l) /\ Waiting(l)

HelperMissing ==
  /\ pc = "build" /\ InUse(w) /\ ~HelperAvailable(w)
  /\ pc' = "fail"
  /\ UNCHANGED <<config, job, stopped, engine, test_done, loops>>

\* One worker's queues; an allocation may fail half way.
Build ==
  /\ pc = "build" /\ InUse(w) /\ HelperAvailable(w)
  /\ owner' = [owner EXCEPT ![w] = TRUE]
  /\ stopped' = [stopped EXCEPT ![w] = FALSE]
  /\ queues' = [queues EXCEPT ![w] = TRUE]
  /\ \/ pc' = "fail" /\ UNCHANGED w
     \/ /\ w' = IF InUse(w + 1) THEN w + 1 ELSE 1
        /\ pc' = IF InUse(w + 1) THEN "build" ELSE "helpers"
  /\ UNCHANGED <<config, job, abort, launched, initialized, test_done,
                 port, bursts>>

\* rte_eal_remote_launch of a helper: -EBUSY unless its lcore is in WAIT.
LaunchHelper ==
  /\ pc = "helpers"
  /\ LET l == my_lcore_id[w] IN
     IF Waiting(l)
     THEN /\ job' = [job EXCEPT ![l] = Job("helper", w)]
          /\ launched' = launched + 1
          /\ IF InUse(w + 1)
             THEN w' = w + 1 /\ UNCHANGED <<pc, port, initialized>>
             ELSE /\ initialized' = TRUE
                  /\ NextPort("begin", AfterBegin) /\ UNCHANGED w
     ELSE pc' = "fail" /\ UNCHANGED <<job, launched, w, port, initialized>>
  /\ UNCHANGED <<config, stopped, owner, abort, queues, test_done, bursts>>

\* The fail label: stop the helpers launched so far, join them, free.
Fail ==
  /\ pc = "fail"
  /\ abort' = [i \in WorkerIds |-> TRUE]
  /\ stopped' = [i \in Indices |-> stopped[i] \/ (i \in WorkerIds /\ owner[i])]
  /\ pc' = "failjoin"
  /\ UNCHANGED <<config, job, owner, queues, launched, initialized,
                 test_done, loops>>

\* Mutant: the count of launched helpers survives.
FreeKeepsCount ==
  /\ owner' = [i \in WorkerIds |-> FALSE]
  /\ abort' = [i \in WorkerIds |-> FALSE]
  /\ queues' = [i \in WorkerIds |-> FALSE]
  /\ initialized' = FALSE
  /\ UNCHANGED launched

\* macswap_pipeline_free.
Free ==
  /\ owner' = [i \in WorkerIds |-> FALSE]
  /\ abort' = [i \in WorkerIds |-> FALSE]
  /\ queues' = [i \in WorkerIds |-> FALSE]
  /\ launched' = 0
  /\ initialized' = FALSE

\* Mutant: begin frees without joining the helpers it launched.
FailNoJoin ==
  /\ pc = "failjoin"
  /\ Free
  /\ NotReady
  /\ UNCHANGED <<config, job, stopped, test_done, loops>>

FailJoin ==
  /\ pc = "failjoin"
  /\ \A i \in 1 .. launched : Waiting(my_lcore_id[i])
  /\ Free
  /\ NotReady
  /\ UNCHANGED <<config, job, stopped, test_done, loops>>

-----------------------------------------------------------------------------
(* The rest of start_packet_forwarding. *)

\* tx_only_begin of a port; it refuses some packet settings.
TxOnlyBegin ==
  /\ pc = "txbegin"
  /\ \/ NotReady /\ UNCHANGED port
     \/ NextPort("txbegin", "txfirst")
  /\ UNCHANGED <<config, job, stopped, engine, test_done, w, bursts>>

\* launch_packet_forwarding(f): a launch that fails is only reported.
LaunchAll(f) ==
  /\ stopped' = [i \in Indices |-> stopped[i] /\ ~InUse(i)]
  /\ job' = [l \in Workers |->
       IF Waiting(l) /\ Forwarding(l)
       THEN Job(f, CHOOSE i \in Indices : fwd_lcores_cpuids[i] = l)
       ELSE job[l]]

\* One burst of the tx-only engine on every forwarding lcore...
TxFirst ==
  /\ pc = "txfirst"
  /\ test_done' = FALSE
  /\ LaunchAll("txonly")
  /\ bursts' = bursts - 1
  /\ pc' = "txwait"
  /\ UNCHANGED <<config, engine, port, w>>

\* ... and rte_eal_mp_wait_lcore: every worker lcore, helpers included.
TxWait ==
  /\ pc = "txwait"
  /\ AllWaiting
  /\ pc' = IF bursts > 0 THEN "txfirst" ELSE "launch"
  /\ UNCHANGED <<config, job, stopped, engine, test_done, loops>>

Launch ==
  /\ pc = "launch"
  /\ test_done' = FALSE
  /\ LaunchAll(IF fwd_eng.callbacks THEN "macswap" ELSE "fwd")
  /\ pc' = "prompt"
  /\ UNCHANGED <<config, engine, loops>>

-----------------------------------------------------------------------------
(* stop_packet_forwarding. *)

\* Mutant: only the first forwarding lcore is told.
StopFirstOnly ==
  /\ pc = "prompt" /\ ~test_done
  /\ stopped' = [stopped EXCEPT ![1] = TRUE]
  /\ pc' = "stopping"
  /\ UNCHANGED <<config, job, engine, test_done, loops>>

Stop ==
  /\ pc = "prompt" /\ ~test_done
  /\ stopped' = [i \in Indices |-> stopped[i] \/ InUse(i)]
  /\ pc' = "stopping"
  /\ UNCHANGED <<config, job, engine, test_done, loops>>

\* Mutant: the main lcore waits for the forwarding lcores only.
JoinForwarding ==
  /\ pc = "stopping"
  /\ \A l \in Workers : Forwarding(l) => Waiting(l)
  /\ port' = 1
  /\ pc' = IF fwd_eng.callbacks THEN "end" ELSE "prompt"
  /\ test_done' = ~fwd_eng.callbacks
  /\ UNCHANGED <<config, job, stopped, engine, w, bursts>>

Join ==
  /\ pc = "stopping"
  /\ AllWaiting
  /\ port' = 1
  /\ pc' = IF fwd_eng.callbacks THEN "end" ELSE "prompt"
  /\ test_done' = ~fwd_eng.callbacks
  /\ UNCHANGED <<config, job, stopped, engine, w, bursts>>

\* macswap_pipeline_end of a port: finishes the queued work, frees, once.
End ==
  /\ pc = "end"
  /\ IF initialized THEN Free ELSE UNCHANGED engine
  /\ NextPort("end", "prompt")
  /\ test_done' = (port = NbPorts)
  /\ UNCHANGED <<config, job, stopped, w, bursts>>

Main == \/ BeginTooMany \/ Begin \/ HelperMissing \/ Build \/ LaunchHelper
        \/ Fail \/ FailJoin \/ TxOnlyBegin \/ TxFirst \/ TxWait \/ Launch
        \/ Join \/ End

-----------------------------------------------------------------------------
\* macswap_worker_main returns.
HelperExit(l) ==
  /\ job[l].f = "helper"
  /\ abort[job[l].arg] \/ stopped[job[l].arg]
  /\ job' = [job EXCEPT ![l] = Idle]
  /\ UNCHANGED <<config, stopped, engine, test_done, pc, loops>>

\* run_pkt_fwd_on_lcore returns; the tx-only burst runs on a copy that says stop.
FwdExit(l) ==
  /\ \/ job[l].f \in {"fwd", "macswap"} /\ stopped[job[l].arg]
     \/ job[l].f = "txonly"
  /\ job' = [job EXCEPT ![l] = Idle]
  /\ UNCHANGED <<config, stopped, engine, test_done, pc, loops>>

Lcore(l) == HelperExit(l) \/ FwdExit(l)

Next == \/ SetNbCores \/ SetQueues \/ SetFwd \/ Start \/ Stop \/ Main
        \/ \E l \in Workers : Lcore(l)

Spec == Init /\ [][Next]_vars

\* Lcores and the main lcore run; the operator need not type anything.
FairSpec == Spec /\ WF_vars(Main) /\ \A l \in Workers : WF_vars(Lcore(l))

-----------------------------------------------------------------------------
TypeOK ==
  /\ my_lcore_id \in Placements
  /\ {nb_fwd_lcores, cur_lcores} \subseteq Indices /\ nb_q \in 1 .. MaxQueues
  /\ {cur_fwd_eng, fwd_eng} \subseteq Engines
  /\ job \in [Workers -> {Idle} \cup [f : {"fwd", "macswap", "txonly"}, arg : Indices]
                                \cup [f : {"helper"}, arg : WorkerIds \cap Indices]]
  /\ stopped \in [Indices -> BOOLEAN]
  /\ {owner, abort, queues} \subseteq [WorkerIds -> BOOLEAN]
  /\ launched \in 0 .. NUM_CORE
  /\ {initialized, test_done} \subseteq BOOLEAN
  /\ pc \in {"prompt", "begin", "build", "helpers", "fail", "failjoin",
             "txbegin", "txfirst", "txwait", "launch", "stopping", "end"}
  /\ port \in 1 .. NbPorts
  /\ w \in WorkerIds
  /\ bursts \in Nat

\* "No queue memory is freed until both stages have stopped": also when begin
\* backs out half way, and when end runs for the first of several ports.
RingsOutliveStages ==
  \A l \in Workers :
    /\ job[l].f = "helper" => owner[job[l].arg] /\ queues[job[l].arg]
    /\ job[l].f = "macswap" => initialized /\ queues[job[l].arg]

\* An lcore runs at most one stage, and each forwarding lcore has its helper:
\* while forwarding, both stages of every index run, on lcores of their own.
BothStagesRun ==
  pc = "prompt" /\ ~test_done =>
    \A i \in 1 .. cur_lcores :
      LET j == job[fwd_lcores_cpuids[i]] IN
      /\ j \in {Job("fwd", i), Job("macswap", i)}
      /\ j.f = "macswap" => job[my_lcore_id[i]] = Job("helper", i)

\* Back at the prompt with forwarding off nothing is left of a start, whether
\* it was stopped or backed out: no lcore runs, no memory is held.
NothingLeftBehind ==
  pc = "prompt" /\ test_done =>
    /\ AllWaiting
    /\ ~initialized /\ launched = 0
    /\ \A i \in WorkerIds : ~queues[i] /\ ~owner[i] /\ ~abort[i]

\* Every command returns to the prompt.
CommandsReturn == pc # "prompt" ~> pc = "prompt"

\* "Start packet forwarding with current configuration after sending specified
\* number of bursts of packets": start tx_first gets to forwarding, or is refused.
StartTxFirstForwards ==
  (pc \in {"begin", "txbegin"} /\ bursts > 0) ~> (pc = "prompt")

=============================================================================
