----------------------------- MODULE MacswapCond -----------------------------
(***************************************************************************)
(* The condition-variable macswap engine                                   *)
(* (dpdk-pipeline-macswap/app/test-pmd/macswap.c) with testpmd's start and *)
(* stop around it: a forwarding lcore only posts its stream, and a thread  *)
(* receives, swaps and transmits.  Start and stop run once per port, so    *)
(* there are as many threads as ports, but one variable for their name.    *)
(*                                                                         *)
(* A critical section is one step, pthread_cond_wait ends it: a signal     *)
(* wakes one thread that waits, or nobody.                                 *)
(***************************************************************************)
EXTENDS Integers

CONSTANTS
  NbPorts,
  Streams,    \* the streams, each posted by a forwarding lcore of its own
  MaxTxFirst, \* bound: bursts of a "start tx_first"
  MaxThreads  \* bound: threads created in all

VARIABLES
  running,        \* macswap_thread_running
  current_fs,     \* the stream posted last and not yet taken, or "null"
  macswap_thread, \* the thread created last
  created,        \* threads created
  thread,         \* where each thread is
  fs,             \* the stream it took
  stopped,        \* fwd_lcores[]->stopped
  fwd,            \* where each forwarding lcore is
  main, port, bursts  \* where the main lcore is: its port and bursts left

engine == <<running, current_fs, macswap_thread, created, thread, fs>>
loops == <<main, port, bursts>>
vars == <<engine, stopped, fwd, loops>>

Threads == 1 .. MaxThreads

Init ==
  /\ running = FALSE
  /\ current_fs = "null"
  /\ macswap_thread = 0
  /\ created = 0
  /\ thread = [t \in Threads |-> "none"]
  /\ fs = [t \in Threads |-> "null"]
  /\ stopped = TRUE
  /\ fwd = [s \in Streams |-> "off"]
  /\ main = "idle" /\ port = 1 /\ bursts = 0

\* pthread_cond_signal: one of the threads that wait.
Signal ==
  \/ \E t \in Threads : /\ thread[t] = "waiting"
                        /\ thread' = [thread EXCEPT ![t] = "lock"]
  \/ (\A t \in Threads : thread[t] # "waiting") /\ UNCHANGED thread

-----------------------------------------------------------------------------
(* macswap_thread_func. *)

Move(t, to) == thread' = [thread EXCEPT ![t] = to]

TTest(t) ==
  /\ thread[t] = "test"
  /\ Move(t, IF running THEN "lock" ELSE "exited")
  /\ UNCHANGED <<running, current_fs, macswap_thread, created, fs, stopped, fwd, loops>>

TTake(t) ==
  /\ thread[t] = "lock"
  /\ IF running /\ current_fs # "null"
     THEN /\ fs' = [fs EXCEPT ![t] = current_fs]
          /\ current_fs' = "null"
          /\ Move(t, "process")
     ELSE /\ Move(t, IF running THEN "waiting" ELSE "exited")
          /\ UNCHANGED <<fs, current_fs>>
  /\ UNCHANGED <<running, macswap_thread, created, stopped, fwd, loops>>

\* Receives from the stream it took, swaps and transmits.
TProcess(t) ==
  /\ thread[t] = "process"
  /\ Move(t, "test")
  /\ UNCHANGED <<running, current_fs, macswap_thread, created, fs, stopped, fwd, loops>>

SpuriousWake(t) ==
  /\ thread[t] = "waiting"
  /\ Move(t, "lock")
  /\ UNCHANGED <<running, current_fs, macswap_thread, created, fs, stopped, fwd, loops>>

Thread(t) == TTest(t) \/ TTake(t) \/ TProcess(t)

-----------------------------------------------------------------------------
(* A forwarding lcore: run_pkt_fwd_on_lcore with pkt_burst_mac_swap. *)

Post(s) ==
  /\ fwd[s] = "post"
  /\ current_fs' = s
  /\ Signal
  /\ fwd' = [fwd EXCEPT ![s] = "posted"]
  /\ UNCHANGED <<running, macswap_thread, created, fs, stopped, loops>>

FTest(s) ==
  /\ fwd[s] = "posted"
  /\ fwd' = [fwd EXCEPT ![s] = IF stopped THEN "off" ELSE "post"]
  /\ UNCHANGED <<engine, stopped, loops>>

Forward(s) == Post(s) \/ FTest(s)

-----------------------------------------------------------------------------
(* The main lcore. *)

NextPort(l, done) == IF port < NbPorts THEN port' = port + 1 /\ main' = l
                                       ELSE port' = 1 /\ main' = done

\* start_packet_forwarding: each launch, the tx-only ones too, begins again.
MStart ==
  /\ main = "idle"
  /\ bursts' \in 0 .. MaxTxFirst
  /\ created + NbPorts * (bursts' + 1) <= MaxThreads
  /\ main' = "begin" /\ port' = 1
  /\ UNCHANGED <<engine, stopped, fwd>>

\* mac_swap_start.
MBegin ==
  /\ main = "begin"
  /\ running' = TRUE
  /\ created' = created + 1
  /\ macswap_thread' = created + 1
  /\ Move(created + 1, "test")
  /\ NextPort("begin", "launch")
  /\ UNCHANGED <<current_fs, fs, bursts, stopped, fwd>>

\* The tx-only burst does not touch the engine; then the lcores forward.
MLaunch ==
  /\ main = "launch"
  /\ stopped' = FALSE
  /\ IF bursts > 0
     THEN bursts' = bursts - 1 /\ main' = "begin" /\ UNCHANGED fwd
     ELSE /\ fwd' = [s \in Streams |-> "post"]
          /\ main' = "forwarding" /\ UNCHANGED bursts
  /\ UNCHANGED <<engine, port>>

\* stop_packet_forwarding.
MStop ==
  /\ main = "forwarding"
  /\ stopped' = TRUE
  /\ main' = "wait"
  /\ UNCHANGED <<engine, fwd, port, bursts>>

MWait ==
  /\ main = "wait" /\ \A s \in Streams : fwd[s] = "off"
  /\ main' = "clear"
  /\ UNCHANGED <<engine, stopped, fwd, port, bursts>>

\* mac_swap_stop: the flag is cleared without the mutex...
MClear ==
  /\ main = "clear"
  /\ running' = FALSE
  /\ main' = "signal"
  /\ UNCHANGED <<current_fs, macswap_thread, created, thread, fs, stopped, fwd, port, bursts>>

MSignal ==
  /\ main = "signal"
  /\ Signal
  /\ main' = "join"
  /\ UNCHANGED <<running, current_fs, macswap_thread, created, fs, stopped, fwd, port, bursts>>

\* ... and the thread created last is joined.  (A second join of one thread is
\* undefined; here it does no harm.)
MJoin ==
  /\ main = "join" /\ thread[macswap_thread] = "exited"
  /\ NextPort("clear", "idle")
  /\ UNCHANGED <<engine, stopped, fwd, bursts>>

MainSteps == MBegin \/ MLaunch \/ MWait \/ MClear \/ MSignal \/ MJoin

-----------------------------------------------------------------------------
Next == \/ MStart \/ MStop \/ MainSteps
        \/ \E t \in Threads : Thread(t) \/ SpuriousWake(t)
        \/ \E s \in Streams : Forward(s)

Spec == Init /\ [][Next]_vars

\* Everybody runs; the operator need not type, nor a thread wake by itself.
FairSpec ==
  /\ Spec
  /\ WF_vars(MainSteps)
  /\ \A t \in Threads : WF_vars(Thread(t))
  /\ \A s \in Streams : WF_vars(Forward(s))

-----------------------------------------------------------------------------
\* What is asked of the constants.
CondConstants ==
  /\ NbPorts \in Nat \ {0} /\ MaxTxFirst \in Nat /\ MaxThreads \in Nat
  /\ "null" \notin Streams

Alive(t) == thread[t] \notin {"none", "exited"}

\* A post does not sit there while all threads sleep: whoever has posted, one is
\* on its way to it.
NoPostLost ==
  running /\ current_fs # "null" =>
    \E t \in Threads : thread[t] \in {"test", "lock", "process"}

\* The engine is begun once in a start: one port, and no tx-only burst.
OnePort == NbPorts = 1 /\ MaxTxFirst = 0

\* There is one thread at most: no stream is polled by two at a time.
OneThread == \A t, u \in Threads : Alive(t) /\ Alive(u) => t = u

\* The thread that stop joins is awake, and does not go to sleep any more.
JoinEnds == main = "join" => ~running /\ thread[macswap_thread] # "waiting"

\* No thread is left when stop has returned.
NoThreadLeft == main = "idle" => \A t \in Threads : ~Alive(t)

\* "Stop packet forwarding": stop_packet_forwarding returns.  With two
\* threads its signal may wake the other one; with one JoinEnds holds.
StopReturns == main = "wait" ~> main = "idle"

=============================================================================
