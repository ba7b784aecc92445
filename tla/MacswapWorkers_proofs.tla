----------------------- MODULE MacswapWorkers_proofs -----------------------
(***************************************************************************)
(* Theorems about MacswapWorkers: where no two pollers share a worker and  *)
(* the worker lcores are apart from the pollers', the ready flag is enough *)
(* for any number of pollers, workers, streams and packets.                *)
(***************************************************************************)
EXTENDS MacswapWorkers, SequenceTheorems, TLAPS

\* What the engine needs of its configuration.
Apart == WorkersNotShared /\ LcoresApart

\* What leaves a stream.
Departure == [pkt : Nat, how : {"tx", "free"}, swaps : Nat]

Types == TypeOK /\ out \in [Queues -> Seq(Departure)]

\* A worker lcore runs its worker from the launch on, which happens before the
\* worker is marked; whoever is about to launch finds the lcore idle.
Launches ==
  /\ ~exited
  /\ \A i \in Indices : ~stop[i] /\ job[my_lcore_id[i]] # "poller"
  /\ \A i \in Indices : job[my_lcore_id[i]] = "worker" =>
       thread_initialized[i] \/ \E p \in Pollers : pc[p] = "mark" /\ Index(p) = i
  /\ \A p \in Pollers : pc[p] \in {"init", "launch"} =>
       job[my_lcore_id[Index(p)]] = "none"

\* Work is ready only while a poller waits for it; the worker is at it only while
\* it is ready; and what the worker was given is what the poller has.
Handoff ==
  /\ \A i \in Indices : ready[i] => \E p \in Pollers : pc[p] = "done" /\ Index(p) = i
  /\ \A i \in Indices : wpc[i] # "poll" => ready[i]
  /\ \A p \in Pollers : pc[p] \in {"signal", "done"} =>
       work[Index(p)] = [array |-> p, nb_rx |-> burst[p].nb_rx]

\* The poller has a burst in its array, which the worker has swapped or not.
Holds(p) == pc[p] \in {"wait", "write", "signal", "done", "tx", "drop"}
Swapped(p) ==
  \/ pc[p] \in {"tx", "drop"}
  \/ pc[p] = "done" /\ (~ready[Index(p)] \/ wpc[Index(p)] = "clear")
Sent(p) == IF pc[p] = "drop" THEN burst[p].nb_tx ELSE 0

\* A burst held is the last one received, nothing before it is left, and its
\* packets have been swapped once or not at all.
BurstHeld(p, q) ==
  /\ burst[p].nb_tx <= burst[p].nb_rx
  /\ burst[p].first + burst[p].nb_rx = rxd[q] + 1
  /\ Len(out[q]) + 1 = burst[p].first + Sent(p)
  /\ \A k \in Pkts : burst[p].first <= k /\ k <= rxd[q] =>
       swaps[q][k] = IF Swapped(p) THEN 1 ELSE 0

Bursts ==
  /\ \A p \in Pollers : Holds(p) => BurstHeld(p, Stream(p))
  /\ \A q \in Queues : (\A p \in Pollers : Holds(p) => Stream(p) # q)
                          => Len(out[q]) = rxd[q]
  /\ \A q \in Queues : \A k \in Pkts : k > rxd[q] => swaps[q][k] = 0
  /\ \A q \in Queues : \A k \in 1 .. Len(out[q]) :
       out[q][k].pkt = k /\ out[q][k].swaps = 1

\* The inductive invariant.
WorkersInv == Apart /\ Types /\ Launches /\ Handoff /\ Bursts

-----------------------------------------------------------------------------
(* Indices, streams and lcores.                                             *)

\* A poller serves one of its streams, through one worker.
LEMMA IndexType ==
  ASSUME TypeOK, NEW p \in Pollers
  PROVE  Stream(p) \in Queues /\ Index(p) \in Indices
<1>1. turn[p] \in DOMAIN StreamsOf[p] BY DEF TypeOK
<1>2. StreamsOf[p] \in Seq(Queues) BY WorkersAssumption
<1>3. Stream(p) \in Queues BY <1>1, <1>2 DEF Stream
<1>4. PICK n \in Nat : n = rx_queue[Stream(p)] BY <1>3, WorkersAssumption
<1>5. n % NUM_CORE \in 0 .. NUM_CORE - 1 BY WorkersAssumption
<1> QED BY <1>3, <1>4, <1>5 DEF Index, Indices

\* No two pollers serve the same worker, or the same stream.
LEMMA IndexOwned ==
  ASSUME Apart, TypeOK, NEW p \in Pollers, NEW r \in Pollers,
         Index(p) = Index(r) \/ Stream(p) = Stream(r)
  PROVE  p = r
<1>1. turn[p] \in DOMAIN StreamsOf[p] /\ turn[r] \in DOMAIN StreamsOf[r]
  BY DEF TypeOK
<1> QED BY <1>1 DEF Apart, WorkersNotShared, Index, Stream

LEMMA LcoreTypes ==
  ASSUME Apart, NEW i \in Indices
  PROVE  /\ my_lcore_id[i] \in Lcores /\ my_lcore_id[i] \notin Pollers
         /\ \A j \in Indices : my_lcore_id[i] = my_lcore_id[j] => i = j
         /\ Pollers \subseteq Lcores
BY DEF Apart, LcoresApart, Lcores

\* The functions the state is made of, and their domains.
LEMMA Domains ==
  ASSUME TypeOK
  PROVE  /\ DOMAIN job = Lcores /\ DOMAIN stopped = Pollers
         /\ thread_initialized \in [Indices -> BOOLEAN]
         /\ ready \in [Indices -> BOOLEAN] /\ stop \in [Indices -> BOOLEAN]
         /\ DOMAIN work = Indices /\ DOMAIN burst = Pollers
         /\ DOMAIN pc = Pollers /\ DOMAIN turn = Pollers /\ DOMAIN wpc = Indices
         /\ DOMAIN rxd = Queues /\ DOMAIN swaps = Queues
<1>1. /\ thread_initialized \in [Indices -> BOOLEAN]
      /\ ready \in [Indices -> BOOLEAN] /\ stop \in [Indices -> BOOLEAN]
  BY DEF TypeOK
<1>2. DOMAIN work = Indices /\ DOMAIN burst = Pollers BY DEF TypeOK
<1>3. DOMAIN pc = Pollers /\ DOMAIN wpc = Indices BY DEF TypeOK
<1>4. DOMAIN job = Lcores /\ DOMAIN stopped = Pollers /\ DOMAIN turn = Pollers
  BY DEF TypeOK
<1>5. DOMAIN rxd = Queues /\ DOMAIN swaps = Queues BY DEF TypeOK
<1> QED BY <1>1, <1>2, <1>3, <1>4, <1>5

-----------------------------------------------------------------------------
(* The initial state.                                                       *)

LEMMA WorkersInit == ASSUME Apart, Init PROVE WorkersInv
<1>1. TypeOK
  <2>1. \A p \in Pollers : 1 \in DOMAIN StreamsOf[p]
    <3> SUFFICES ASSUME NEW p \in Pollers PROVE 1 \in DOMAIN StreamsOf[p] OBVIOUS
    <3>1. StreamsOf[p] \in Seq(Queues) /\ StreamsOf[p] # << >>
      BY WorkersAssumption
    <3> QED BY <3>1
  <2>2. /\ job \in [Lcores -> {"none", "poller", "worker"}]
        /\ {thread_initialized, ready, stop} \subseteq [Indices -> BOOLEAN]
        /\ stopped \in [Pollers -> BOOLEAN]
        /\ exited \in BOOLEAN /\ main \in {"idle", "launching", "forwarding", "join"}
    BY DEF Init
  <2>3. /\ work \in [Indices -> [array : Pollers \cup {"null"},
                                 nb_rx : 0 .. nb_pkt_per_burst]]
        /\ burst \in [Pollers -> [first : 1 .. MaxPkts + 1,
                                  nb_rx : 0 .. nb_pkt_per_burst,
                                  nb_tx : 0 .. nb_pkt_per_burst]]
    BY WorkersAssumption DEF Init, NoWork, NoBurst
  <2>4. /\ pc \in [Pollers -> {"check", "init", "launch", "mark", "rx", "wait",
                               "write", "signal", "done", "tx", "drop", "next"}]
        /\ wpc \in [Indices -> {"poll", "swap", "clear"}]
        /\ turn \in [Pollers -> Nat]
        /\ \A p \in Pollers : turn[p] \in DOMAIN StreamsOf[p]
    BY <2>1 DEF Init
  <2>5. rxd \in [Queues -> 0 .. MaxPkts] /\ swaps \in [Queues -> [Pkts -> Nat]]
    BY WorkersAssumption DEF Init
  <2> QED BY <2>2, <2>3, <2>4, <2>5 DEF TypeOK
<1>2. out \in [Queues -> Seq(Departure)] BY DEF Init
<1>3. Launches
  BY LcoreTypes DEF Init, Launches
<1>4. Handoff BY DEF Init, Handoff
<1>5. Bursts
  <2>1. \A q \in Queues : out[q] = << >> /\ rxd[q] = 0 BY DEF Init
  <2>2. \A q \in Queues : \A k \in Pkts : swaps[q][k] = 0 BY DEF Init
  <2>3. \A p \in Pollers : ~Holds(p) BY DEF Init, Holds
  <2> QED BY <2>1, <2>2, <2>3 DEF Bursts
<1> QED BY <1>1, <1>2, <1>3, <1>4, <1>5 DEF WorkersInv, Types

-----------------------------------------------------------------------------
(* The launches.                                                            *)

LEMMA LaunchesStep ==
  ASSUME WorkersInv, TypeOK', [Next]_vars PROVE Launches'
<1> USE DEF WorkersInv, Types
<1>a. \A p, r \in Pollers : Index(p) = Index(r) => p = r BY IndexOwned
<1>b. \A p \in Pollers : Index(p) \in Indices BY IndexType
<1>c. \A i \in Indices : /\ my_lcore_id[i] \in Lcores /\ my_lcore_id[i] \notin Pollers
                         /\ \A j \in Indices : my_lcore_id[i] = my_lcore_id[j] => i = j
  BY LcoreTypes
<1>d. /\ DOMAIN pc = Pollers /\ thread_initialized \in [Indices -> BOOLEAN]
      /\ DOMAIN job = Lcores /\ DOMAIN turn = Pollers
  BY Domains
<1>1. ASSUME NEW p \in Pollers, PCheck(p) PROVE Launches'
  <2>1. /\ UNCHANGED <<job, thread_initialized, stop, exited, turn>>
        /\ pc' = [pc EXCEPT ![p] = IF thread_initialized[Index(p)] THEN "rx" ELSE "init"]
        /\ pc[p] = "check"
    BY <1>1 DEF PCheck, At, GoTo, control, data
  <2>2. ~thread_initialized[Index(p)] => job[my_lcore_id[Index(p)]] = "none"
    <3>1. job[my_lcore_id[Index(p)]] \in {"none", "poller", "worker"}
      BY <1>b, <1>c DEF TypeOK
    <3> QED BY <2>1, <3>1, <1>a, <1>b DEF Launches
  <2>3. \A r \in Pollers : Index(r)' = Index(r) BY <2>1 DEF Index, Stream
  <2> QED BY <2>1, <2>2, <2>3, <1>d DEF Launches
<1>2. ASSUME NEW p \in Pollers, PInit(p) PROVE Launches'
  <2>1. /\ UNCHANGED <<job, thread_initialized, exited, turn>>
        /\ pc' = [pc EXCEPT ![p] = "launch"] /\ pc[p] = "init"
        /\ stop' = [stop EXCEPT ![Index(p)] = FALSE]
    BY <1>2 DEF PInit, At, GoTo, control
  <2>2. \A i \in Indices : ~stop'[i] BY <2>1, <1>d, Domains DEF Launches
  <2>3. \A r \in Pollers : Index(r)' = Index(r) BY <2>1 DEF Index, Stream
  <2> QED BY <2>1, <2>2, <2>3, <1>d DEF Launches
<1>3. ASSUME NEW p \in Pollers, PLaunch(p) PROVE Launches'
  <2>1. job[my_lcore_id[Index(p)]] = "none" /\ pc[p] = "launch"
    BY <1>3 DEF PLaunch, At, Launches
  <2>2. /\ job' = [job EXCEPT ![my_lcore_id[Index(p)]] = "worker"]
        /\ pc' = [pc EXCEPT ![p] = "mark"]
        /\ UNCHANGED <<thread_initialized, exited, turn, stop>>
    BY <1>3, <2>1 DEF PLaunch, GoTo, data
  <2>3. \A r \in Pollers : Index(r)' = Index(r) BY <2>2 DEF Index, Stream
  <2>4. \A i \in Indices :
          job'[my_lcore_id[i]] = IF i = Index(p) THEN "worker" ELSE job[my_lcore_id[i]]
    BY <2>2, <1>b, <1>c, <1>d
  <2>5. \A r \in Pollers : pc'[r] = IF r = p THEN "mark" ELSE pc[r] BY <2>2, <1>d
  <2> QED BY <2>1, <2>2, <2>3, <2>4, <2>5, <1>a, <1>b DEF Launches
<1>4. ASSUME NEW p \in Pollers, PMark(p) PROVE Launches'
  BY <1>4, <1>a, <1>b, <1>c, <1>d DEF PMark, At, GoTo, data, Launches, Index, Stream
<1>5. ASSUME NEW p \in Pollers, PNext(p) PROVE Launches'
  BY <1>5, <1>a, <1>b, <1>c, <1>d DEF PNext, At, GoTo, data, Launches, Index, Stream
<1>6. ASSUME NEW p \in Pollers,
             PRx(p) \/ PWait(p) \/ PWrite(p) \/ PSignal(p) \/ PDone(p) \/ PTx(p) \/ PDrop(p)
      PROVE  Launches'
  <2>1. /\ UNCHANGED <<job, thread_initialized, stop, exited, turn>>
        /\ pc[p] # "mark" /\ \A r \in Pollers : pc'[r] # pc[r] => r = p
        /\ pc'[p] \notin {"init", "launch"}
    BY <1>6, <1>d DEF PRx, PWait, PWrite, PSignal, PDone, PTx, PDrop, At, GoTo, control, data
  <2> QED BY <2>1 DEF Launches, Index, Stream
<1>7. ASSUME NEW i \in Indices, Worker(i) PROVE Launches'
  <2>1. ~stop[i] BY DEF Launches
  <2>2. UNCHANGED <<job, thread_initialized, stop, exited, turn, pc>>
    BY <1>7, <2>1 DEF Worker, WPoll, WSwap, WClear, data
  <2> QED BY <2>2 DEF Launches, Index, Stream
<1>8. CASE MLaunch
  BY <1>8, <1>b, <1>c, <1>d DEF MLaunch, data, Launches, Index, Stream
<1>9. CASE MStart \/ MStop \/ UNCHANGED vars
  BY <1>9 DEF MStart, MStop, vars, data, Launches, Index, Stream
<1> QED BY <1>1, <1>2, <1>3, <1>4, <1>5, <1>6, <1>7, <1>8, <1>9 DEF Next, Poller

-----------------------------------------------------------------------------
(* The handoff.                                                             *)

LEMMA HandoffStep ==
  ASSUME WorkersInv, TypeOK', [Next]_vars PROVE Handoff'
<1> USE DEF WorkersInv, Types
<1>a. \A p, r \in Pollers : Index(p) = Index(r) => p = r BY IndexOwned
<1>b. \A p \in Pollers : Index(p) \in Indices BY IndexType
<1>d. /\ DOMAIN pc = Pollers /\ DOMAIN turn = Pollers /\ DOMAIN wpc = Indices
      /\ ready \in [Indices -> BOOLEAN] /\ DOMAIN work = Indices
      /\ DOMAIN burst = Pollers
  BY Domains
<1>1. ASSUME NEW p \in Pollers, PCheck(p) \/ PMark(p) \/ PWait(p) \/ PNext(p) \/ PDrop(p)
      PROVE  Handoff'
  <2>1. /\ UNCHANGED <<ready, wpc, work, burst>>
        /\ pc[p] # "done" /\ \A r \in Pollers : r # p => pc'[r] = pc[r] /\ turn'[r] = turn[r]
        /\ pc'[p] \notin {"signal", "done"}
    BY <1>1, <1>d DEF PCheck, PMark, PWait, PNext, PDrop, At, GoTo, control, data
  <2> QED BY <2>1 DEF Handoff, Index, Stream
<1>2. ASSUME NEW p \in Pollers, PInit(p) PROVE Handoff'
  BY <1>2, <1>a, <1>b, <1>d DEF PInit, At, GoTo, control, Handoff, Index, Stream
<1>3. ASSUME NEW p \in Pollers, PLaunch(p) PROVE Handoff'
  BY <1>3, <1>a, <1>b, <1>d DEF PLaunch, At, GoTo, data, Handoff, Index, Stream
<1>4. ASSUME NEW p \in Pollers, PRx(p) \/ PTx(p) PROVE Handoff'
  <2>1. /\ UNCHANGED <<ready, wpc, work, turn>>
        /\ pc[p] \notin {"done", "signal"}
        /\ \A r \in Pollers : r # p => pc'[r] = pc[r] /\ burst'[r] = burst[r]
        /\ pc'[p] \notin {"signal", "done"}
    BY <1>4, <1>d DEF PRx, PTx, At, GoTo, control, data
  <2> QED BY <2>1 DEF Handoff, Index, Stream
<1>5. ASSUME NEW p \in Pollers, PWrite(p) PROVE Handoff'
  BY <1>5, <1>a, <1>b, <1>d DEF PWrite, At, GoTo, control, Handoff, Index, Stream
<1>6. ASSUME NEW p \in Pollers, PSignal(p) PROVE Handoff'
  BY <1>6, <1>a, <1>b, <1>d DEF PSignal, At, GoTo, control, Handoff, Index, Stream
<1>7. ASSUME NEW p \in Pollers, PDone(p) PROVE Handoff'
  BY <1>7, <1>a, <1>b, <1>d DEF PDone, At, GoTo, control, data, Handoff, Index, Stream
<1>8. ASSUME NEW i \in Indices, Worker(i) PROVE Handoff'
  <2>1. CASE WPoll(i)
    BY <2>1, <1>d DEF WPoll, WAt, data, Handoff, Index, Stream, Launches
  <2>2. CASE WSwap(i)
    BY <2>2, <1>d DEF WSwap, WAt, data, Handoff, Index, Stream
  <2>3. CASE WClear(i)
    BY <2>3, <1>d DEF WClear, WAt, Handoff, Index, Stream
  <2> QED BY <1>8, <2>1, <2>2, <2>3 DEF Worker
<1>9. CASE MStart \/ MLaunch \/ MStop \/ UNCHANGED vars
  BY <1>9 DEF MStart, MLaunch, MStop, vars, data, Handoff, Index, Stream
<1> QED
  BY <1>1, <1>2, <1>3, <1>4, <1>5, <1>6, <1>7, <1>8, <1>9 DEF Next, Poller

-----------------------------------------------------------------------------
(* The packets.                                                             *)

LEMMA BurstType ==
  ASSUME TypeOK, NEW p \in Pollers
  PROVE  /\ burst[p].first \in Nat /\ burst[p].first >= 1
         /\ burst[p].first <= MaxPkts + 1
         /\ burst[p].nb_rx \in Nat /\ burst[p].nb_rx <= nb_pkt_per_burst
         /\ burst[p].nb_tx \in Nat
         /\ burst[p] = [first |-> burst[p].first, nb_rx |-> burst[p].nb_rx,
                        nb_tx |-> burst[p].nb_tx]
<1>1. burst[p] \in [first : 1 .. MaxPkts + 1, nb_rx : 0 .. nb_pkt_per_burst,
                    nb_tx : 0 .. nb_pkt_per_burst]
  BY DEF TypeOK
<1> QED BY <1>1, WorkersAssumption

\* The next n packets to leave a stream, swapped once.
NextPackets(q, n, how) ==
  [k \in 1 .. n |-> [pkt |-> Len(out[q]) + k, how |-> how, swaps |-> 1]]

\* What a poller transmits or frees are the next packets of its stream.
LEMMA NextToLeave ==
  ASSUME Types, Bursts, NEW p \in Pollers, pc[p] \in {"tx", "drop"},
         NEW q, q = Stream(p), NEW n \in Nat, n <= burst[p].nb_rx - Sent(p), NEW how
  PROVE  Leave(q, burst[p], Sent(p) + 1, Sent(p) + n, how) = NextPackets(q, n, how)
<1>1. PICK b : b = burst[p] OBVIOUS
<1>2. b.first \in Nat /\ b.first >= 1 /\ b.nb_rx \in Nat /\ b.nb_tx \in Nat
  BY <1>1, BurstType DEF Types
<1>3. Holds(p) /\ Swapped(p) BY DEF Holds, Swapped
<1>4. BurstHeld(p, q) BY <1>3 DEF Bursts
<1>5. PICK s \in Nat : s = Sent(p) /\ s <= b.nb_rx
  BY <1>1, <1>2, <1>4 DEF Sent, BurstHeld
<1>6. q \in Queues /\ rxd[q] \in Nat /\ rxd[q] <= MaxPkts
  <2>1. q \in Queues BY IndexType DEF Types
  <2>2. rxd[q] \in 0 .. MaxPkts BY <2>1 DEF Types, TypeOK
  <2> QED BY <2>1, <2>2, WorkersAssumption
<1>7. PICK m \in Nat : m = Len(out[q])
  BY <1>6 DEF Types
<1>8. m + 1 = b.first + s /\ b.first + b.nb_rx = rxd[q] + 1
  BY <1>1, <1>4, <1>5, <1>7 DEF BurstHeld
<1>9. ASSUME NEW k \in 1 .. n
      PROVE  b.first + (s + 1) + k - 2 = m + k /\ swaps[q][m + k] = 1
  <2>1. PICK f \in Nat, x \in Nat, r \in Nat :
          f = b.first /\ x = b.nb_rx /\ r = rxd[q]
    BY <1>2, <1>6
  <2>2. /\ n <= x - s /\ m + 1 = f + s /\ f + x = r + 1 /\ s <= x
        /\ r <= MaxPkts /\ f >= 1
    BY <1>1, <1>2, <1>5, <1>6, <1>8, <2>1
  <2>3. /\ m + k \in Nat /\ m + k >= 1 /\ m + k <= MaxPkts
        /\ f <= m + k /\ m + k <= r /\ f + (s + 1) + k - 2 = m + k
    <3>1. m + k <= r /\ f <= m + k /\ m + k >= 1 /\ f + (s + 1) + k - 2 = m + k
      BY <2>2
    <3>2. MaxPkts \in Nat BY WorkersAssumption
    <3> QED BY <2>2, <3>1, <3>2
  <2>4. m + k \in Pkts BY <2>3, WorkersAssumption DEF Pkts
  <2>5. swaps[q][m + k] = 1 BY <1>1, <1>3, <1>4, <2>1, <2>3, <2>4 DEF BurstHeld
  <2> QED BY <2>1, <2>3, <2>5
<1>10. (s + n) - (s + 1) + 1 = n BY <1>5
<1> QED BY <1>1, <1>5, <1>7, <1>9, <1>10 DEF Leave, NextPackets

\* A transmission or a drop, in those terms.
Departs(p, q, n, how) ==
  /\ n <= burst[p].nb_rx - Sent(p)
  /\ out' = [out EXCEPT ![q] = @ \o NextPackets(q, n, how)]
  /\ pc' = [pc EXCEPT ![p] = IF Sent(p) + n = burst[p].nb_rx THEN "next" ELSE "drop"]
  /\ \/ burst' = [burst EXCEPT ![p].nb_tx = Sent(p) + n]
     \/ Sent(p) + n = burst[p].nb_rx /\ burst' = burst
  /\ pc[p] \in {"tx", "drop"}
  /\ UNCHANGED <<control, data, turn, rxd, swaps>>

LEMMA Departing ==
  ASSUME Types, Bursts, NEW p \in Pollers, PTx(p) \/ PDrop(p), NEW q, q = Stream(p)
  PROVE  \E n \in Nat, how \in {"tx", "free"} : Departs(p, q, n, how)
<1>1. PICK x \in Nat, y \in Nat : x = burst[p].nb_rx /\ y = burst[p].nb_tx
  BY BurstType DEF Types
<1>2. CASE PTx(p)
  <2>1. pc[p] = "tx" /\ Sent(p) = 0 BY <1>2 DEF PTx, At, Sent
  <2>2. PICK n \in 0 .. x :
          /\ out' = [out EXCEPT ![q] = @ \o Leave(q, burst[p], 1, n, "tx")]
          /\ burst' = [burst EXCEPT ![p].nb_tx = n]
          /\ pc' = [pc EXCEPT ![p] = IF n < x THEN "drop" ELSE "next"]
    BY <1>1, <1>2 DEF PTx, GoTo
  <2>3. Sent(p) + 1 = 1 /\ Sent(p) + n = n /\ n \in Nat /\ n <= x - Sent(p) BY <2>1
  <2>4. Leave(q, burst[p], 1, n, "tx") = NextPackets(q, n, "tx")
    <3>1. Leave(q, burst[p], Sent(p) + 1, Sent(p) + n, "tx") = NextPackets(q, n, "tx")
      BY <1>1, <2>1, <2>3, NextToLeave
    <3> QED BY <2>3, <3>1
  <2>5. (n < x) <=> ~(Sent(p) + n = x) BY <2>3
  <2> QED BY <1>1, <1>2, <2>1, <2>2, <2>3, <2>4, <2>5 DEF PTx, Departs
<1>3. CASE PDrop(p)
  <2>1. pc[p] = "drop" /\ Sent(p) = y BY <1>1, <1>3 DEF PDrop, At, Sent
  <2>2. y <= x BY <1>1, <2>1 DEF Bursts, Holds, BurstHeld
  <2>3. PICK n \in Nat : n = x - y /\ y + n = x BY <2>2
  <2>4. Leave(q, burst[p], y + 1, x, "free") = NextPackets(q, n, "free")
    BY <1>1, <2>1, <2>3, NextToLeave
  <2>5. /\ out' = [out EXCEPT ![q] = @ \o Leave(q, burst[p], y + 1, x, "free")]
        /\ burst' = burst /\ pc' = [pc EXCEPT ![p] = "next"]
    BY <1>1, <1>3 DEF PDrop, GoTo
  <2>6. /\ n <= burst[p].nb_rx - Sent(p) /\ Sent(p) + n = burst[p].nb_rx
        /\ UNCHANGED <<control, data, turn, rxd, swaps>>
    BY <1>1, <1>3, <2>1, <2>3 DEF PDrop
  <2>7. pc' = [pc EXCEPT ![p] = IF Sent(p) + n = burst[p].nb_rx
                                THEN "next" ELSE "drop"]
    BY <2>5, <2>6
  <2>8. out' = [out EXCEPT ![q] = @ \o NextPackets(q, n, "free")] BY <2>4, <2>5
  <2> QED BY <2>1, <2>5, <2>6, <2>7, <2>8 DEF Departs
<1> QED BY <1>2, <1>3

\* The log of a stream that packets leave.
LEMMA LogGrows ==
  ASSUME Types, NEW q \in Queues, NEW n \in Nat, NEW how \in {"tx", "free"},
         out' = [out EXCEPT ![q] = @ \o NextPackets(q, n, how)]
  PROVE  /\ out' \in [Queues -> Seq(Departure)]
         /\ \A q2 \in Queues : q2 # q => out'[q2] = out[q2]
         /\ Len(out'[q]) = Len(out[q]) + n /\ Len(out[q]) \in Nat
         /\ \A k \in 1 .. Len(out'[q]) :
              IF k <= Len(out[q]) THEN out'[q][k] = out[q][k]
              ELSE out'[q][k].pkt = k /\ out'[q][k].swaps = 1
<1> DEFINE g == NextPackets(q, n, how)   o == out[q]
<1>1. o \in Seq(Departure) /\ Len(o) \in Nat BY DEF Types
<1>2. g \in Seq(Departure) /\ Len(g) = n
  BY <1>1 DEF NextPackets, Departure
<1>3. \A k \in 1 .. n : g[k].pkt = Len(o) + k /\ g[k].swaps = 1
  BY DEF NextPackets
<1>4. out \in [Queues -> Seq(Departure)] BY DEF Types
<1>5. out'[q] = o \o g /\ \A q2 \in Queues : q2 # q => out'[q2] = out[q2]
  BY <1>4
<1> HIDE DEF g, o
<1>6. /\ o \o g \in Seq(Departure)
      /\ Len(o \o g) = Len(o) + n
      /\ \A k \in 1 .. Len(o) + n :
           (o \o g)[k] = IF k <= Len(o) THEN o[k] ELSE g[k - Len(o)]
  BY <1>1, <1>2, ConcatProperties
<1>7. out' \in [Queues -> Seq(Departure)]
  <2>1. out' = [out EXCEPT ![q] = o \o g] BY DEF o, g
  <2> QED BY <1>4, <1>6, <2>1
<1>8. \A k \in 1 .. Len(o) + n : ~(k <= Len(o)) =>
        k - Len(o) \in 1 .. n /\ Len(o) + (k - Len(o)) = k
  BY <1>1
<1>9. \A k \in 1 .. Len(o) + n : ~(k <= Len(o)) =>
        (o \o g)[k].pkt = k /\ (o \o g)[k].swaps = 1
  BY <1>3, <1>6, <1>8
<1>10. \A k \in 1 .. Len(o) + n : k <= Len(o) => (o \o g)[k] = o[k] BY <1>6
<1> QED BY <1>1, <1>5, <1>6, <1>7, <1>9, <1>10 DEF o

\* Steps that move no packet: what a poller holds and whether it was swapped stays.
LEMMA QuietBursts ==
  ASSUME Bursts, UNCHANGED <<rxd, swaps, out>>,
         \A r \in Pollers : /\ Holds(r)' = Holds(r)
                            /\ Holds(r) => /\ Stream(r)' = Stream(r)
                                           /\ Swapped(r)' = Swapped(r)
                                           /\ Sent(r)' = Sent(r)
                                           /\ burst'[r] = burst[r]
  PROVE  Bursts'
<1>1. ASSUME NEW r \in Pollers, Holds(r)' PROVE BurstHeld(r, Stream(r))'
  <2>1. Holds(r) /\ BurstHeld(r, Stream(r)) BY <1>1 DEF Bursts
  <2> QED BY <2>1 DEF BurstHeld
<1>2. \A q \in Queues : (\A p \in Pollers : Holds(p)' => Stream(p)' # q)
                           => (\A p \in Pollers : Holds(p) => Stream(p) # q)
  OBVIOUS
<1> QED BY <1>1, <1>2 DEF Bursts

LEMMA RxBursts ==
  ASSUME WorkersInv, TypeOK', NEW p \in Pollers, PRx(p) PROVE Bursts'
<1> USE DEF WorkersInv, Types
<1> DEFINE q == Stream(p)
<1>1. q \in Queues /\ rxd[q] \in 0 .. MaxPkts /\ rxd[q] \in Nat
  <2>1. q \in Queues BY IndexType
  <2>2. rxd[q] \in 0 .. MaxPkts BY <2>1 DEF TypeOK
  <2> QED BY <2>1, <2>2, WorkersAssumption
<1>2. PICK n \in Nat :
        /\ burst' = [burst EXCEPT ![p] = [first |-> rxd[q] + 1, nb_rx |-> n, nb_tx |-> 0]]
        /\ rxd' = [rxd EXCEPT ![q] = @ + n]
        /\ pc' = [pc EXCEPT ![p] = IF n = 0 THEN "next" ELSE "wait"]
        /\ pc[p] = "rx"
        /\ UNCHANGED <<control, data, turn, swaps, out>>
  <2>1. PICK n \in 0 .. nb_pkt_per_burst :
          /\ burst' = [burst EXCEPT ![p] = [first |-> rxd[q] + 1, nb_rx |-> n, nb_tx |-> 0]]
          /\ rxd' = [rxd EXCEPT ![q] = @ + n]
          /\ pc' = [pc EXCEPT ![p] = IF n = 0 THEN "next" ELSE "wait"]
    BY DEF PRx, GoTo
  <2>2. n \in Nat BY WorkersAssumption
  <2>3. pc[p] = "rx" /\ UNCHANGED <<control, data, turn, swaps, out>>
    BY DEF PRx, At
  <2> QED BY <2>1, <2>2, <2>3
<1>3. ~Holds(p) BY <1>2 DEF Holds
<1>4. \A r \in Pollers : Stream(r)' = Stream(r) BY <1>2 DEF Stream
<1>5. \A r \in Pollers : r # p => Stream(r) # q BY IndexOwned
<1>6. \A r \in Pollers : r # p => /\ Holds(r)' = Holds(r) /\ Sent(r)' = Sent(r)
                                  /\ Swapped(r)' = Swapped(r) /\ burst'[r] = burst[r]
  <2>1. \A r \in Pollers : Index(r)' = Index(r) BY <1>4 DEF Index
  <2>2. ready' = ready /\ wpc' = wpc BY <1>2 DEF control, data
  <2>3. \A r \in Pollers : r # p => pc'[r] = pc[r] /\ burst'[r] = burst[r]
    BY <1>2, Domains
  <2> QED BY <2>1, <2>2, <2>3 DEF Holds, Sent, Swapped
<1>7. /\ rxd'[q] = rxd[q] + n /\ \A q2 \in Queues : q2 # q => rxd'[q2] = rxd[q2]
      /\ swaps' = swaps /\ out' = out
  BY <1>1, <1>2, Domains
<1>8. Len(out[q]) = rxd[q] BY <1>1, <1>3, <1>5 DEF Bursts
<1>9. \A k \in Pkts : k > rxd[q] => swaps[q][k] = 0 BY <1>1 DEF Bursts
<1>10. ASSUME NEW r \in Pollers, Holds(r)' PROVE BurstHeld(r, Stream(r))'
  <2>1. CASE r = p
    <3>1. /\ burst'[p].first = rxd[q] + 1 /\ burst'[p].nb_rx = n /\ burst'[p].nb_tx = 0
          /\ pc'[p] = "wait"
      BY <1>2, <1>10, <2>1, Domains DEF Holds
    <3>2. ~Swapped(p)' /\ Sent(p)' = 0 BY <3>1 DEF Swapped, Sent
    <3>3. Stream(p)' = q BY <1>4
    <3>4. \A k \in Pkts : rxd[q] + 1 <= k => k > rxd[q] BY <1>1 DEF Pkts
    <3>5. /\ 0 <= n /\ (rxd[q] + 1) + n = (rxd[q] + n) + 1
          /\ Len(out[q]) + 1 = (rxd[q] + 1) + 0
      BY <1>1, <1>8
    <3> HIDE DEF q
    <3> QED BY <1>7, <1>9, <2>1, <3>1, <3>2, <3>3, <3>4, <3>5 DEF BurstHeld
  <2>2. CASE r # p
    <3>1. Holds(r) /\ BurstHeld(r, Stream(r)) BY <1>6, <1>10, <2>2 DEF Bursts
    <3>2. Stream(r) \in Queues /\ Stream(r) # q BY <1>5, <2>2, IndexType
    <3> QED BY <1>4, <1>6, <1>7, <2>2, <3>1, <3>2 DEF BurstHeld
  <2> QED BY <2>1, <2>2
<1>11. ASSUME NEW q2 \in Queues, \A r \in Pollers : Holds(r)' => Stream(r)' # q2
       PROVE  Len(out'[q2]) = rxd'[q2]
  <2>1. CASE q2 = q
    <3>1. ~Holds(p)' BY <1>4, <1>11, <2>1
    <3>2. n = 0 BY <1>2, <3>1, Domains DEF Holds
    <3> QED BY <1>1, <1>7, <1>8, <2>1, <3>2
  <2>2. CASE q2 # q
    <3>1. \A r \in Pollers : Holds(r) => Stream(r) # q2 BY <1>3, <1>4, <1>6, <1>11
    <3> QED BY <1>7, <2>2, <3>1 DEF Bursts
  <2> QED BY <2>1, <2>2
<1>12. ASSUME NEW q2 \in Queues, NEW k \in Pkts, k > rxd'[q2] PROVE swaps'[q2][k] = 0
  <2>1. CASE q2 = q
    <3>1. k > rxd[q] + n => k > rxd[q] BY <1>1 DEF Pkts
    <3> QED BY <1>7, <1>9, <1>12, <2>1, <3>1
  <2>2. CASE q2 # q BY <1>7, <1>12, <2>2 DEF Bursts
  <2> QED BY <2>1, <2>2
<1>13. \A q2 \in Queues : \A k \in 1 .. Len(out'[q2]) :
         out'[q2][k].pkt = k /\ out'[q2][k].swaps = 1
  BY <1>7 DEF Bursts
<1> QED BY <1>10, <1>11, <1>12, <1>13 DEF Bursts

LEMMA LeaveBursts ==
  ASSUME WorkersInv, TypeOK', NEW p \in Pollers, PTx(p) \/ PDrop(p) PROVE Bursts'
<1> USE DEF WorkersInv, Types
<1> DEFINE q == Stream(p)
<1>1. q \in Queues BY IndexType
<1>a. PICK n \in Nat, how \in {"tx", "free"} : Departs(p, q, n, how)
  BY Departing
<1>2. /\ n <= burst[p].nb_rx - Sent(p)
      /\ out' = [out EXCEPT ![q] = @ \o NextPackets(q, n, how)]
      /\ pc' = [pc EXCEPT ![p] = IF Sent(p) + n = burst[p].nb_rx
                                 THEN "next" ELSE "drop"]
      /\ \/ burst' = [burst EXCEPT ![p].nb_tx = Sent(p) + n]
         \/ Sent(p) + n = burst[p].nb_rx /\ burst' = burst
      /\ pc[p] \in {"tx", "drop"}
      /\ UNCHANGED <<control, data, turn, rxd, swaps>>
  BY <1>a DEF Departs
<1>3. /\ \A q2 \in Queues : q2 # q => out'[q2] = out[q2]
      /\ Len(out'[q]) = Len(out[q]) + n /\ Len(out[q]) \in Nat
      /\ \A k \in 1 .. Len(out'[q]) :
           IF k <= Len(out[q]) THEN out'[q][k] = out[q][k]
           ELSE out'[q][k].pkt = k /\ out'[q][k].swaps = 1
  BY <1>1, <1>2, LogGrows
<1>4. Holds(p) /\ Swapped(p) /\ BurstHeld(p, q) BY <1>2 DEF Holds, Swapped, Bursts
<1>5. \A r \in Pollers : Stream(r)' = Stream(r) BY <1>2 DEF Stream
<1>6. \A r \in Pollers : r # p => Stream(r) # q BY IndexOwned
<1>7. \A r \in Pollers : r # p => /\ Holds(r)' = Holds(r) /\ Sent(r)' = Sent(r)
                                  /\ Swapped(r)' = Swapped(r) /\ burst'[r] = burst[r]
  <2>1. \A r \in Pollers : Index(r)' = Index(r) BY <1>5 DEF Index
  <2>2. ready' = ready /\ wpc' = wpc BY <1>2 DEF control, data
  <2>3. \A r \in Pollers : r # p => pc'[r] = pc[r] /\ burst'[r] = burst[r]
    BY <1>2, Domains
  <2> QED BY <2>1, <2>2, <2>3 DEF Holds, Sent, Swapped
<1>8. PICK f \in Nat, x \in Nat, s \in Nat, m \in Nat, t \in Nat :
        /\ f = burst[p].first /\ x = burst[p].nb_rx /\ s = Sent(p)
        /\ m = Len(out[q]) /\ t = rxd[q]
  <2>1. rxd[q] \in 0 .. MaxPkts BY <1>1 DEF TypeOK
  <2>2. Sent(p) \in Nat BY BurstType DEF Sent
  <2>3. rxd[q] \in Nat BY <2>1, WorkersAssumption
  <2>4. burst[p].first \in Nat /\ burst[p].nb_rx \in Nat BY BurstType
  <2> HIDE DEF q
  <2> QED BY <1>3, <2>2, <2>3, <2>4
<1>9. s + n <= x /\ m + 1 = f + s /\ f + x = t + 1
  BY <1>2, <1>4, <1>8 DEF BurstHeld
<1>10. ASSUME NEW r \in Pollers, Holds(r)' PROVE BurstHeld(r, Stream(r))'
  <2>1. CASE r = p
    <3>1. pc'[p] = "drop" /\ s + n # x BY <1>2, <1>8, <1>10, <2>1, Domains DEF Holds
    <3>2. burst' = [burst EXCEPT ![p].nb_tx = s + n] BY <1>2, <1>8, <3>1
    <3>3. burst'[p].first = f /\ burst'[p].nb_rx = x /\ burst'[p].nb_tx = s + n
      <4>1. PICK b : b = burst[p] /\ b = [first |-> f, nb_rx |-> x, nb_tx |-> b.nb_tx]
        BY <1>8, BurstType
      <4>2. burst'[p] = [b EXCEPT !.nb_tx = s + n] BY <3>2, <4>1, Domains
      <4> QED BY <4>1, <4>2
    <3>4. Swapped(p)' /\ Sent(p)' = s + n BY <3>1, <3>3 DEF Swapped, Sent
    <3>5. Stream(p)' = q /\ swaps' = swaps /\ rxd' = rxd BY <1>2, <1>5
    <3>6. Len(out'[q]) = m + n BY <1>3, <1>8
    <3>7. (m + n) + 1 = f + (s + n) BY <1>9
    <3>8. \A k \in Pkts : f <= k /\ k <= t => swaps[q][k] = 1
      BY <1>4, <1>8 DEF BurstHeld
    <3> HIDE DEF q
    <3> QED BY <1>8, <1>9, <2>1, <3>3, <3>4, <3>5, <3>6, <3>7, <3>8 DEF BurstHeld
  <2>2. CASE r # p
    <3>1. Holds(r) /\ BurstHeld(r, Stream(r)) BY <1>7, <1>10, <2>2 DEF Bursts
    <3>2. Stream(r) \in Queues /\ Stream(r) # q BY <1>6, <2>2, IndexType
    <3>3. swaps' = swaps /\ rxd' = rxd BY <1>2
    <3> QED BY <1>3, <1>5, <1>7, <2>2, <3>1, <3>2, <3>3 DEF BurstHeld
  <2> QED BY <2>1, <2>2
<1>11. ASSUME NEW q2 \in Queues, \A r \in Pollers : Holds(r)' => Stream(r)' # q2
       PROVE  Len(out'[q2]) = rxd'[q2]
  <2>1. CASE q2 = q
    <3>1. ~Holds(p)' BY <1>5, <1>11, <2>1
    <3>2. s + n = x BY <1>2, <1>8, <3>1, Domains DEF Holds
    <3>3. m + n = t BY <1>9, <3>2
    <3> QED BY <1>2, <1>3, <1>8, <2>1, <3>3
  <2>2. CASE q2 # q
    <3>1. \A r \in Pollers : Holds(r) => Stream(r) # q2 BY <1>5, <1>7, <1>11, <2>2
    <3> QED BY <1>2, <1>3, <2>2, <3>1 DEF Bursts
  <2> QED BY <2>1, <2>2
<1>12. \A q2 \in Queues : \A k \in Pkts : k > rxd'[q2] => swaps'[q2][k] = 0
  BY <1>2 DEF Bursts
<1>13. ASSUME NEW q2 \in Queues, NEW k \in 1 .. Len(out'[q2])
       PROVE  out'[q2][k].pkt = k /\ out'[q2][k].swaps = 1
  <2>1. CASE q2 = q
    <3>1. k <= Len(out[q]) => k \in 1 .. Len(out[q]) BY <1>3, <2>1
    <3>2. k <= Len(out[q]) => out[q][k].pkt = k /\ out[q][k].swaps = 1
      BY <1>1, <3>1 DEF Bursts
    <3> HIDE DEF q
    <3> QED BY <1>3, <2>1, <3>2
  <2>2. CASE q2 # q BY <1>3, <2>2 DEF Bursts
  <2> QED BY <2>1, <2>2
<1> QED BY <1>10, <1>11, <1>12, <1>13 DEF Bursts

\* The worker swaps the burst of the poller that waits for it, and no other.
LEMMA Swapping ==
  ASSUME WorkersInv, NEW i \in Indices, wpc[i] = "swap"
  PROVE  \E p \in Pollers :
           /\ pc[p] = "done" /\ Index(p) = i /\ ready[i]
           /\ work[i] = [array |-> p, nb_rx |-> burst[p].nb_rx]
<1>1. ready[i] BY DEF WorkersInv, Handoff
<1>2. PICK p \in Pollers : pc[p] = "done" /\ Index(p) = i
  BY <1>1 DEF WorkersInv, Handoff
<1>3. work[i] = [array |-> p, nb_rx |-> burst[p].nb_rx]
  BY <1>2 DEF WorkersInv, Handoff
<1> QED BY <1>1, <1>2, <1>3

LEMMA SwapBursts ==
  ASSUME WorkersInv, NEW i \in Indices, WSwap(i)
  PROVE  Bursts' /\ swaps' \in [Queues -> [Pkts -> Nat]]
<1> USE DEF WorkersInv, Types
<1>1. wpc[i] = "swap" /\ wpc' = [wpc EXCEPT ![i] = "clear"]
      /\ UNCHANGED <<ready, burst, pc, turn, rxd, out>>
  BY DEF WSwap, WAt, data
<1>2. PICK p \in Pollers :
        /\ pc[p] = "done" /\ Index(p) = i /\ ready[i]
        /\ work[i] = [array |-> p, nb_rx |-> burst[p].nb_rx]
  BY <1>1, Swapping
<1>3. PICK q \in Queues : q = Stream(p) BY IndexType
<1>4. Holds(p) /\ ~Swapped(p) /\ BurstHeld(p, q)
  BY <1>1, <1>2, <1>3 DEF Holds, Swapped, Bursts
<1>5. PICK f \in Nat, x \in Nat, t \in Nat :
        /\ f = burst[p].first /\ x = burst[p].nb_rx /\ t = rxd[q]
        /\ f + x = t + 1 /\ f + x - 1 = t
  <2>1. rxd[q] \in 0 .. MaxPkts BY DEF TypeOK
  <2>2. rxd[q] \in Nat BY <2>1, WorkersAssumption
  <2>3. burst[p].first \in Nat /\ burst[p].nb_rx \in Nat BY BurstType
  <2>4. burst[p].first + burst[p].nb_rx = rxd[q] + 1 BY <1>4 DEF BurstHeld
  <2>5. PICK f \in Nat, x \in Nat, t \in Nat :
          f = burst[p].first /\ x = burst[p].nb_rx /\ t = rxd[q]
    BY <2>2, <2>3
  <2>6. f + x = t + 1 BY <2>4, <2>5
  <2>7. f + x - 1 = t BY <2>6
  <2> QED BY <2>5, <2>6, <2>7
<1>6. swaps \in [Queues -> [Pkts -> Nat]] BY DEF TypeOK
<1>7. \A k \in Pkts : f <= k /\ k <= t => swaps[q][k] = 0
  BY <1>4, <1>5 DEF BurstHeld
<1>8. \A k \in Pkts : k \in f .. f + x - 1 <=> f <= k /\ k <= t
  <2>1. \A k \in Pkts : k \in Int BY WorkersAssumption DEF Pkts
  <2>2. \A k \in Pkts : k \in f .. t <=> f <= k /\ k <= t BY <2>1
  <2>3. f .. f + x - 1 = f .. t BY <1>5
  <2> QED BY <2>2, <2>3
<1> DEFINE new == [k \in Pkts |-> IF f <= k /\ k <= t THEN 1 ELSE swaps[q][k]]
<1>9. swaps' = [swaps EXCEPT ![q] = new]
  <2>1. work[i].array = p /\ work[i].nb_rx = x BY <1>2, <1>5
  <2>2. CASE x = 0
    <3>1. swaps' = swaps BY <2>1, <2>2 DEF WSwap, SwapArray
    <3>2. \A k \in Pkts : ~(f <= k /\ k <= t) BY <1>5, <2>2 DEF Pkts
    <3>3. new = swaps[q] BY <1>6, <3>2
    <3> HIDE DEF new
    <3> QED BY <1>6, <3>1, <3>3
  <2>3. CASE x # 0
    <3>1. swaps' = [swaps EXCEPT ![q] = [k \in Pkts |->
            IF k \in f .. f + x - 1 THEN @[k] + 1 ELSE @[k]]]
      BY <1>3, <1>5, <2>1, <2>3 DEF WSwap, SwapArray
    <3>2. [k \in Pkts |-> IF k \in f .. f + x - 1 THEN swaps[q][k] + 1
                          ELSE swaps[q][k]] = new
      BY <1>7, <1>8
    <3> QED BY <3>1, <3>2
  <2> QED BY <2>2, <2>3
<1>10. new \in [Pkts -> Nat] BY <1>6
<1>11. /\ \A q2 \in Queues : q2 # q => swaps'[q2] = swaps[q2]
       /\ \A k \in Pkts : swaps'[q][k] = IF f <= k /\ k <= t THEN 1 ELSE swaps[q][k]
  <2>1. swaps'[q] = new /\ \A q2 \in Queues : q2 # q => swaps'[q2] = swaps[q2]
    BY <1>6, <1>9
  <2> QED BY <2>1
<1>12. swaps' \in [Queues -> [Pkts -> Nat]]
  <2> HIDE DEF new
  <2> QED BY <1>6, <1>9, <1>10
<1> HIDE DEF new
<1>13. \A r \in Pollers : Stream(r)' = Stream(r) /\ Index(r)' = Index(r)
  BY <1>1 DEF Stream, Index
<1>14. \A r \in Pollers : r # p => Index(r) # i /\ Stream(r) # q
  BY <1>2, <1>3, IndexOwned
<1>15. \A r \in Pollers : r # p => Swapped(r)' = Swapped(r)
  <2>1. \A r \in Pollers : r # p => wpc'[Index(r)] = wpc[Index(r)]
    BY <1>1, <1>14, IndexType, Domains
  <2> QED BY <1>1, <1>13, <2>1 DEF Swapped
<1>16. \A r \in Pollers : Holds(r)' = Holds(r) /\ Sent(r)' = Sent(r)
  BY <1>1 DEF Holds, Sent
<1>17. ASSUME NEW r \in Pollers, Holds(r)' PROVE BurstHeld(r, Stream(r))'
  <2>1. CASE r = p
    <3>1. Swapped(p)' BY <1>1, <1>2, <1>13, Domains DEF Swapped
    <3>2. \A k \in Pkts : f <= k /\ k <= t => swaps'[q][k] = 1 BY <1>11
    <3>3. Stream(p)' = q BY <1>3, <1>13
    <3> QED BY <1>1, <1>4, <1>5, <1>16, <2>1, <3>1, <3>2, <3>3 DEF BurstHeld
  <2>2. CASE r # p
    <3>1. Holds(r) /\ BurstHeld(r, Stream(r)) BY <1>16, <1>17 DEF Bursts
    <3>2. Stream(r) \in Queues /\ Stream(r) # q BY <1>14, <2>2, IndexType
    <3>3. swaps'[Stream(r)] = swaps[Stream(r)] BY <1>11, <3>2
    <3> QED BY <1>1, <1>13, <1>15, <1>16, <2>2, <3>1, <3>3 DEF BurstHeld
  <2> QED BY <2>1, <2>2
<1>18. \A q2 \in Queues : (\A r \in Pollers : Holds(r)' => Stream(r)' # q2)
                            => Len(out'[q2]) = rxd'[q2]
  BY <1>1, <1>13, <1>16 DEF Bursts
<1>19. ASSUME NEW q2 \in Queues, NEW k \in Pkts, k > rxd'[q2] PROVE swaps'[q2][k] = 0
  <2>1. swaps[q2][k] = 0 /\ rxd'[q2] = rxd[q2] BY <1>1, <1>19 DEF Bursts
  <2>2. q2 = q => ~(k <= t) BY <1>1, <1>5, <1>19 DEF Pkts
  <2> QED BY <1>11, <2>1, <2>2
<1>20. \A q2 \in Queues : \A k \in 1 .. Len(out'[q2]) :
         out'[q2][k].pkt = k /\ out'[q2][k].swaps = 1
  BY <1>1 DEF Bursts
<1> QED BY <1>12, <1>17, <1>18, <1>19, <1>20 DEF Bursts

LEMMA BurstsStep ==
  ASSUME WorkersInv, TypeOK', [Next]_vars PROVE Bursts'
<1> USE DEF WorkersInv, Types
<1>a. \A p, r \in Pollers : Index(p) = Index(r) => p = r BY IndexOwned
<1>b. \A p \in Pollers : Index(p) \in Indices BY IndexType
<1>d. /\ DOMAIN pc = Pollers /\ DOMAIN turn = Pollers /\ DOMAIN wpc = Indices
      /\ ready \in [Indices -> BOOLEAN]
  BY Domains
<1>1. ASSUME NEW p \in Pollers,
             PCheck(p) \/ PMark(p) \/ PNext(p) \/ PWait(p) \/ PWrite(p) \/ PDone(p)
      PROVE  Bursts'
  <2>1. /\ UNCHANGED <<rxd, swaps, out, burst, ready, wpc>>
        /\ \A r \in Pollers : r # p => pc'[r] = pc[r] /\ turn'[r] = turn[r]
    BY <1>1, <1>d
       DEF PCheck, PMark, PNext, PWait, PWrite, PDone, GoTo, control, data, history
  <2>2. \/ pc[p] \in {"check", "mark", "next"} /\ pc'[p] \in {"rx", "init", "check"}
        \/ /\ pc[p] \in {"wait", "write"} /\ pc'[p] \in {"write", "signal"}
           /\ turn'[p] = turn[p]
        \/ /\ pc[p] = "done" /\ pc'[p] = "tx" /\ ~ready[Index(p)]
           /\ turn'[p] = turn[p]
    BY <1>1, <1>d
       DEF PCheck, PMark, PNext, PWait, PWrite, PDone, At, GoTo
  <2>3. \A r \in Pollers : Holds(r) => turn'[r] = turn[r] BY <2>1, <2>2 DEF Holds
  <2>4. \A r \in Pollers : Holds(r) => Stream(r)' = Stream(r) /\ Index(r)' = Index(r)
    BY <2>3 DEF Stream, Index
  <2>5. \A r \in Pollers : Holds(r)' = Holds(r) BY <2>1, <2>2 DEF Holds
  <2>6. \A r \in Pollers : Holds(r) => Sent(r)' = Sent(r) BY <2>1, <2>2 DEF Sent
  <2>7. \A r \in Pollers : Holds(r) => Swapped(r)' = Swapped(r)
    <3>1. Holds(p) => Swapped(p)' = Swapped(p) BY <2>1, <2>2, <2>4 DEF Holds, Swapped
    <3>2. ASSUME NEW r \in Pollers, r # p, Holds(r) PROVE Swapped(r)' = Swapped(r)
      BY <2>1, <2>4, <3>2 DEF Swapped
    <3> QED BY <3>1, <3>2
  <2> QED BY <2>1, <2>4, <2>5, <2>6, <2>7, QuietBursts
<1>2. ASSUME NEW p \in Pollers, PInit(p) \/ PLaunch(p) PROVE Bursts'
  <2>1. /\ UNCHANGED <<rxd, swaps, out, burst, turn>>
        /\ \A r \in Pollers : r # p => pc'[r] = pc[r]
        /\ pc[p] \in {"init", "launch"} /\ pc'[p] \in {"init", "launch", "mark"}
        /\ \A j \in Indices : j # Index(p) => ready'[j] = ready[j] /\ wpc'[j] = wpc[j]
    BY <1>2, <1>d DEF PInit, PLaunch, At, GoTo, control, data, history
  <2>2. \A r \in Pollers : r # p => Index(r) \in Indices /\ Index(r) # Index(p)
    BY <1>a, <1>b
  <2> QED BY <2>1, <2>2, QuietBursts DEF Holds, Swapped, Sent, Stream, Index
<1>3. ASSUME NEW p \in Pollers, PSignal(p) PROVE Bursts'
  <2>1. /\ UNCHANGED <<rxd, swaps, out, burst, turn, wpc>>
        /\ \A r \in Pollers : r # p => pc'[r] = pc[r]
        /\ pc[p] = "signal" /\ pc'[p] = "done" /\ ready'[Index(p)]
        /\ \A j \in Indices : j # Index(p) => ready'[j] = ready[j]
    BY <1>3, <1>b, <1>d DEF PSignal, At, GoTo, control, history
  <2>2. \A r \in Pollers : r # p => Index(r) \in Indices /\ Index(r) # Index(p)
    BY <1>a, <1>b
  <2>3. wpc[Index(p)] = "poll"
    <3>1. ~ready[Index(p)] BY <1>a, <1>b, <2>1 DEF Handoff
    <3> QED BY <1>b, <3>1 DEF Handoff
  <2>4. \A r \in Pollers : Index(r)' = Index(r) /\ Stream(r)' = Stream(r)
    BY <2>1 DEF Index, Stream
  <2>5. Swapped(p)' = Swapped(p) BY <2>1, <2>3, <2>4 DEF Swapped
  <2>6. \A r \in Pollers : r # p => Swapped(r)' = Swapped(r)
    BY <2>1, <2>2, <2>4 DEF Swapped
  <2>7. \A r \in Pollers : Holds(r)' = Holds(r) /\ Sent(r)' = Sent(r)
    BY <2>1 DEF Holds, Sent
  <2> QED BY <2>1, <2>4, <2>5, <2>6, <2>7, QuietBursts
<1>4. ASSUME NEW p \in Pollers, PRx(p) PROVE Bursts' BY <1>4, RxBursts
<1>5. ASSUME NEW p \in Pollers, PTx(p) \/ PDrop(p) PROVE Bursts'
  BY <1>5, LeaveBursts
<1>6. ASSUME NEW i \in Indices, WSwap(i) PROVE Bursts' BY <1>6, SwapBursts
<1>7. ASSUME NEW i \in Indices, WPoll(i) \/ WClear(i) PROVE Bursts'
  <2>1. /\ UNCHANGED <<rxd, swaps, out, burst, turn, pc>>
        /\ \A j \in Indices : j # i => ready'[j] = ready[j] /\ wpc'[j] = wpc[j]
    BY <1>7, <1>d DEF WPoll, WClear, data, history
  <2>2. (~ready'[i] \/ wpc'[i] = "clear") <=> (~ready[i] \/ wpc[i] = "clear")
    BY <1>7, <1>d DEF WPoll, WClear, WAt, data
  <2>3. \A r \in Pollers : Index(r)' = Index(r) /\ Stream(r)' = Stream(r)
    BY <2>1 DEF Index, Stream
  <2>4. \A r \in Pollers : Swapped(r)' = Swapped(r)
    BY <1>b, <2>1, <2>2, <2>3 DEF Swapped
  <2>5. \A r \in Pollers : Holds(r)' = Holds(r) /\ Sent(r)' = Sent(r)
    BY <2>1 DEF Holds, Sent
  <2> QED BY <2>1, <2>3, <2>4, <2>5, QuietBursts
<1>8. CASE MStart \/ MLaunch \/ MStop \/ UNCHANGED vars
  <2>1. UNCHANGED <<rxd, swaps, out, burst, turn, pc, ready, wpc>>
    BY <1>8 DEF MStart, MLaunch, MStop, data, history, vars
  <2> QED BY <2>1, QuietBursts DEF Holds, Swapped, Sent, Stream, Index
<1> QED
  BY <1>1, <1>2, <1>3, <1>4, <1>5, <1>6, <1>7, <1>8 DEF Next, Poller, Worker

-----------------------------------------------------------------------------
(* Types.                                                                   *)

LEMMA OutStep == ASSUME WorkersInv, [Next]_vars PROVE out' \in [Queues -> Seq(Departure)]
<1> USE DEF WorkersInv, Types
<1>1. ASSUME NEW p \in Pollers, PTx(p) \/ PDrop(p)
      PROVE  out' \in [Queues -> Seq(Departure)]
  <2>1. PICK q \in Queues : q = Stream(p) BY IndexType
  <2>2. PICK n \in Nat, how \in {"tx", "free"} : Departs(p, q, n, how)
    BY <1>1, <2>1, Departing
  <2>3. out' = [out EXCEPT ![q] = @ \o NextPackets(q, n, how)] BY <2>2 DEF Departs
  <2> QED BY <2>3, LogGrows
<1>2. ASSUME NEW p \in Pollers,
             PCheck(p) \/ PInit(p) \/ PLaunch(p) \/ PMark(p) \/ PRx(p) \/ PWait(p)
               \/ PWrite(p) \/ PSignal(p) \/ PDone(p) \/ PNext(p)
      PROVE  out' = out
  BY <1>2 DEF PCheck, PInit, PLaunch, PMark, PRx, PWait, PWrite, PSignal, PDone,
              PNext, history
<1>3. ASSUME NEW i \in Indices, Worker(i) PROVE out' = out
  BY <1>3 DEF Worker, WPoll, WSwap, WClear, history
<1>4. CASE MStart \/ MLaunch \/ MStop \/ UNCHANGED vars
  BY <1>4 DEF MStart, MLaunch, MStop, history, vars
<1> QED BY <1>1, <1>2, <1>3, <1>4 DEF Next, Poller

LEMMA TypeStep == ASSUME WorkersInv, [Next]_vars PROVE TypeOK'
<1> USE DEF WorkersInv, Types
<1> DEFINE Work == [array : Pollers \cup {"null"}, nb_rx : 0 .. nb_pkt_per_burst]
           Burst == [first : 1 .. MaxPkts + 1, nb_rx : 0 .. nb_pkt_per_burst,
                     nb_tx : 0 .. nb_pkt_per_burst]
           PC == {"check", "init", "launch", "mark", "rx", "wait", "write",
                  "signal", "done", "tx", "drop", "next"}
<1>a. /\ job \in [Lcores -> {"none", "poller", "worker"}]
      /\ stopped \in [Pollers -> BOOLEAN]
      /\ exited \in BOOLEAN /\ main \in {"idle", "launching", "forwarding", "join"}
      /\ wpc \in [Indices -> {"poll", "swap", "clear"}]
  BY DEF TypeOK
<1>b. /\ thread_initialized \in [Indices -> BOOLEAN] /\ ready \in [Indices -> BOOLEAN]
      /\ stop \in [Indices -> BOOLEAN]
  BY DEF TypeOK
<1>c. pc \in [Pollers -> PC] /\ work \in [Indices -> Work] /\ burst \in [Pollers -> Burst]
  BY DEF TypeOK
<1>d. /\ turn \in [Pollers -> Nat] /\ \A p \in Pollers : turn[p] \in DOMAIN StreamsOf[p]
      /\ rxd \in [Queues -> 0 .. MaxPkts] /\ swaps \in [Queues -> [Pkts -> Nat]]
  BY DEF TypeOK
<1>e. \A p \in Pollers : Index(p) \in Indices /\ Stream(p) \in Queues BY IndexType
<1>f. \A i \in Indices : my_lcore_id[i] \in Lcores BY LcoreTypes
<1>g. Pollers \subseteq Lcores BY DEF Lcores
<1>1. /\ job' \in [Lcores -> {"none", "poller", "worker"}]
      /\ stopped' \in [Pollers -> BOOLEAN]
      /\ exited' \in BOOLEAN /\ main' \in {"idle", "launching", "forwarding", "join"}
      /\ wpc' \in [Indices -> {"poll", "swap", "clear"}]
  <2>1. ASSUME NEW p \in Pollers, Poller(p)
        PROVE  /\ job' \in [Lcores -> {"none", "poller", "worker"}]
               /\ wpc' \in [Indices -> {"poll", "swap", "clear"}]
               /\ stopped' = stopped /\ main' = main /\ exited' \in BOOLEAN
    <3>1. CASE PLaunch(p) BY <3>1, <1>a, <1>e, <1>f DEF PLaunch
    <3>2. CASE PMark(p) BY <3>2, <1>a DEF PMark
    <3>3. CASE PNext(p) BY <3>3, <1>a, <1>g DEF PNext
    <3>4. CASE PCheck(p) \/ PInit(p) \/ PRx(p) \/ PWait(p) \/ PWrite(p)
                 \/ PSignal(p) \/ PDone(p) \/ PTx(p) \/ PDrop(p)
      BY <3>4, <1>a
         DEF PCheck, PInit, PRx, PWait, PWrite, PSignal, PDone, PTx, PDrop, control
    <3> QED BY <2>1, <3>1, <3>2, <3>3, <3>4 DEF Poller
  <2>2. ASSUME NEW i \in Indices, Worker(i)
        PROVE  /\ job' \in [Lcores -> {"none", "poller", "worker"}]
               /\ wpc' \in [Indices -> {"poll", "swap", "clear"}]
               /\ stopped' = stopped /\ main' = main /\ exited' = exited
    BY <2>2, <1>a, <1>f DEF Worker, WPoll, WSwap, WClear
  <2>3. CASE MStart BY <2>3, <1>a DEF MStart
  <2>4. CASE MLaunch BY <2>4, <1>a, <1>g DEF MLaunch
  <2>5. CASE MStop BY <2>5, <1>a DEF MStop
  <2>6. CASE UNCHANGED vars BY <2>6, <1>a DEF vars
  <2> QED BY <1>a, <2>1, <2>2, <2>3, <2>4, <2>5, <2>6 DEF Next
<1>2. /\ thread_initialized' \in [Indices -> BOOLEAN] /\ ready' \in [Indices -> BOOLEAN]
      /\ stop' \in [Indices -> BOOLEAN] /\ work' \in [Indices -> Work]
  <2>1. ASSUME NEW p \in Pollers, PWrite(p) PROVE work' \in [Indices -> Work]
    <3>1. burst[p].nb_rx \in 0 .. nb_pkt_per_burst BY <1>c
    <3>2. [array |-> p, nb_rx |-> burst[p].nb_rx] \in Work BY <3>1
    <3> HIDE DEF Work
    <3> QED BY <2>1, <3>2, <1>c, <1>e DEF PWrite
  <2>2. ASSUME NEW p \in Pollers, PInit(p) PROVE work' \in [Indices -> Work]
    <3>1. NoWork \in Work BY WorkersAssumption DEF NoWork
    <3> HIDE DEF Work
    <3> QED BY <2>2, <3>1, <1>c, <1>e DEF PInit
  <2> HIDE DEF Work
  <2>3. ASSUME NEW p \in Pollers, Poller(p)
        PROVE  /\ thread_initialized' \in [Indices -> BOOLEAN]
               /\ ready' \in [Indices -> BOOLEAN] /\ stop' \in [Indices -> BOOLEAN]
               /\ work' \in [Indices -> Work]
    <3>1. CASE PInit(p)
      BY <3>1, <2>2, <1>b DEF PInit, control
    <3>2. CASE PWrite(p) BY <3>2, <2>1, <1>b DEF PWrite, control
    <3>3. CASE PSignal(p) BY <3>3, <1>b, <1>c DEF PSignal, control
    <3>4. CASE PMark(p) BY <3>4, <1>b, <1>c DEF PMark, data
    <3>5. CASE PCheck(p) \/ PLaunch(p) \/ PRx(p) \/ PWait(p) \/ PDone(p) \/ PTx(p)
                 \/ PDrop(p) \/ PNext(p)
      BY <3>5, <1>b, <1>c
         DEF PCheck, PLaunch, PRx, PWait, PDone, PTx, PDrop, PNext, control, data
    <3> QED BY <2>3, <3>1, <3>2, <3>3, <3>4, <3>5 DEF Poller
  <2>4. ASSUME NEW i \in Indices, Worker(i)
        PROVE  /\ thread_initialized' = thread_initialized /\ stop' = stop
               /\ ready' \in [Indices -> BOOLEAN] /\ work' = work
    BY <2>4, <1>b DEF Worker, WPoll, WSwap, WClear, data
  <2>5. CASE MStart \/ MLaunch \/ MStop \/ UNCHANGED vars
    BY <2>5, <1>b, <1>c DEF MStart, MLaunch, MStop, data, vars
  <2> QED BY <1>b, <1>c, <2>3, <2>4, <2>5 DEF Next
<1>3. pc' \in [Pollers -> PC] /\ burst' \in [Pollers -> Burst]
      /\ rxd' \in [Queues -> 0 .. MaxPkts]
  <2>1. ASSUME NEW p \in Pollers, PRx(p)
        PROVE  burst' \in [Pollers -> Burst] /\ rxd' \in [Queues -> 0 .. MaxPkts]
    <3>1. PICK q \in Queues : q = Stream(p) BY <1>e
    <3>2. PICK n \in 0 .. nb_pkt_per_burst :
            /\ rxd[q] + n <= MaxPkts
            /\ burst' = [burst EXCEPT ![p] = [first |-> rxd[q] + 1, nb_rx |-> n, nb_tx |-> 0]]
            /\ rxd' = [rxd EXCEPT ![q] = @ + n]
      BY <2>1, <3>1 DEF PRx
    <3>3. rxd[q] \in 0 .. MaxPkts BY <1>d
    <3>4. rxd[q] + 1 \in 1 .. MaxPkts + 1 /\ rxd[q] + n \in 0 .. MaxPkts
      BY <3>2, <3>3, WorkersAssumption
    <3>5. [first |-> rxd[q] + 1, nb_rx |-> n, nb_tx |-> 0] \in Burst
      <4>1. 0 \in 0 .. nb_pkt_per_burst BY WorkersAssumption
      <4>2. PICK f \in 1 .. MaxPkts + 1 : f = rxd[q] + 1 BY <3>4
      <4>3. [first |-> f, nb_rx |-> n, nb_tx |-> 0] \in Burst BY <4>1
      <4> QED BY <4>2, <4>3
    <3> HIDE DEF Burst
    <3> QED BY <3>2, <3>4, <3>5, <1>c, <1>d
  <2>2. ASSUME NEW p \in Pollers, PTx(p) PROVE burst' \in [Pollers -> Burst]
    <3>1. PICK n \in 0 .. burst[p].nb_rx : burst' = [burst EXCEPT ![p].nb_tx = n]
      BY <2>2 DEF PTx
    <3>2. PICK b \in Burst : b = burst[p] BY <1>c
    <3>3. n \in 0 .. nb_pkt_per_burst
      <4>1. b.nb_rx \in 0 .. nb_pkt_per_burst BY <3>2
      <4> QED BY <3>1, <3>2, <4>1, WorkersAssumption
    <3>4. [b EXCEPT !.nb_tx = n] \in Burst BY <3>2, <3>3
    <3>5. burst' = [burst EXCEPT ![p] = [b EXCEPT !.nb_tx = n]] BY <3>1, <3>2
    <3> HIDE DEF Burst
    <3> QED BY <3>4, <3>5, <1>c
  <2> HIDE DEF Burst
  <2>3. ASSUME NEW p \in Pollers, Poller(p) PROVE pc' \in [Pollers -> PC]
    BY <2>3, <1>c DEF Poller, PCheck, PInit, PLaunch, PMark, PRx, PWait, PWrite, PSignal,
                      PDone, PTx, PDrop, PNext, GoTo
  <2> HIDE DEF PC
  <2>4. ASSUME NEW p \in Pollers, Poller(p)
        PROVE  burst' \in [Pollers -> Burst] /\ rxd' \in [Queues -> 0 .. MaxPkts]
    <3>1. CASE PRx(p) BY <2>1, <3>1
    <3>2. CASE PTx(p) BY <2>2, <3>2, <1>d DEF PTx
    <3>3. CASE PCheck(p) \/ PInit(p) \/ PLaunch(p) \/ PMark(p) \/ PWait(p) \/ PWrite(p)
                 \/ PSignal(p) \/ PDone(p) \/ PDrop(p) \/ PNext(p)
      BY <3>3, <1>c, <1>d DEF PCheck, PInit, PLaunch, PMark, PWait, PWrite, PSignal,
                              PDone, PDrop, PNext, history
    <3> QED BY <2>4, <3>1, <3>2, <3>3 DEF Poller
  <2>5. ASSUME NEW i \in Indices, Worker(i)
        PROVE  pc' = pc /\ burst' = burst /\ rxd' = rxd
    BY <2>5 DEF Worker, WPoll, WSwap, WClear, history
  <2>6. CASE MStart \/ MLaunch \/ MStop \/ UNCHANGED vars
    BY <2>6, <1>c, <1>d DEF MStart, MLaunch, MStop, history, vars
  <2> QED BY <1>c, <1>d, <2>3, <2>4, <2>5, <2>6 DEF Next
<1>4. turn' \in [Pollers -> Nat] /\ \A p \in Pollers : turn'[p] \in DOMAIN StreamsOf[p]
  <2>1. ASSUME NEW p \in Pollers, PNext(p)
        PROVE  /\ turn' \in [Pollers -> Nat]
               /\ \A r \in Pollers : turn'[r] \in DOMAIN StreamsOf[r]
    <3>1. StreamsOf[p] \in Seq(Queues) /\ StreamsOf[p] # << >> BY WorkersAssumption
    <3>2. PICK m \in Nat : m = Len(StreamsOf[p]) /\ m >= 1 /\ DOMAIN StreamsOf[p] = 1 .. m
      BY <3>1
    <3>3. PICK t \in 1 .. m : turn' = [turn EXCEPT ![p] = t]
      <4>1. turn[p] \in 1 .. m BY <1>d, <3>2
      <4>2. CASE turn[p] < m
        <5>1. turn[p] + 1 \in 1 .. m BY <3>2, <4>1, <4>2
        <5> QED BY <2>1, <3>2, <4>2, <5>1 DEF PNext
      <4>3. CASE ~(turn[p] < m)
        <5>1. 1 \in 1 .. m BY <3>2
        <5> QED BY <2>1, <3>2, <4>3, <5>1 DEF PNext
      <4> QED BY <4>2, <4>3
    <3>4. t \in Nat OBVIOUS
    <3> QED BY <1>d, <3>2, <3>3, <3>4
  <2>2. ASSUME NEW p \in Pollers,
               PCheck(p) \/ PInit(p) \/ PLaunch(p) \/ PMark(p) \/ PRx(p) \/ PWait(p)
                 \/ PWrite(p) \/ PSignal(p) \/ PDone(p) \/ PTx(p) \/ PDrop(p)
        PROVE  turn' = turn
    BY <2>2 DEF PCheck, PInit, PLaunch, PMark, PRx, PWait, PWrite, PSignal, PDone,
                PTx, PDrop
  <2>3. ASSUME NEW i \in Indices, Worker(i) PROVE turn' = turn
    BY <2>3 DEF Worker, WPoll, WSwap, WClear
  <2>4. CASE MStart \/ MLaunch \/ MStop \/ UNCHANGED vars
    BY <2>4, <1>d DEF MStart, MLaunch, MStop, vars
  <2> QED BY <1>d, <2>1, <2>2, <2>3, <2>4 DEF Next, Poller
<1>5. swaps' \in [Queues -> [Pkts -> Nat]]
  <2>1. ASSUME NEW p \in Pollers, Poller(p) PROVE swaps' = swaps
    BY <2>1 DEF Poller, PCheck, PInit, PLaunch, PMark, PRx, PWait, PWrite, PSignal,
                PDone, PTx, PDrop, PNext, history
  <2>2. ASSUME NEW i \in Indices, WSwap(i) PROVE swaps' \in [Queues -> [Pkts -> Nat]]
    BY <2>2, SwapBursts
  <2>3. ASSUME NEW i \in Indices, WPoll(i) \/ WClear(i) PROVE swaps' = swaps
    BY <2>3 DEF WPoll, WClear, history
  <2>4. CASE MStart \/ MLaunch \/ MStop \/ UNCHANGED vars
    BY <2>4, <1>d DEF MStart, MLaunch, MStop, history, vars
  <2> QED BY <1>d, <2>1, <2>2, <2>3, <2>4 DEF Next, Worker
<1> QED BY <1>1, <1>2, <1>3, <1>4, <1>5 DEF TypeOK

-----------------------------------------------------------------------------
(* The theorems.                                                            *)

LEMMA WorkersStep == ASSUME WorkersInv, [Next]_vars PROVE WorkersInv'
<1>1. TypeOK' BY TypeStep
<1>2. out' \in [Queues -> Seq(Departure)] BY OutStep
<1>3. Launches' BY <1>1, LaunchesStep
<1>4. Handoff' BY <1>1, HandoffStep
<1>5. Bursts' BY <1>1, BurstsStep
<1>6. Apart' BY DEF WorkersInv, Apart, WorkersNotShared, LcoresApart
<1> QED BY <1>1, <1>2, <1>3, <1>4, <1>5, <1>6 DEF WorkersInv, Types

\* The inductive invariant holds in every state of every configuration that keeps
\* workers and their lcores apart (pkt_burst_mac_swap, macswap_thread_func).
THEOREM WorkersInductive == Apart /\ Spec => []WorkersInv
<1>1. Apart /\ Init => WorkersInv BY WorkersInit
<1>2. WorkersInv /\ [Next]_vars => WorkersInv' BY WorkersStep
<1> QED BY <1>1, <1>2, PTL DEF Spec

\* Type correctness of the engine.
THEOREM WorkersTypes == Apart /\ Spec => []TypeOK
<1>1. WorkersInv => TypeOK BY DEF WorkersInv, Types
<1> QED BY <1>1, WorkersInductive, PTL

\* No callback launches a worker on a busy lcore, so none exits the program.
THEOREM LaunchesSucceed == Apart /\ Spec => []LaunchSucceeds
<1>1. WorkersInv => LaunchSucceeds BY DEF WorkersInv, Launches, LaunchSucceeds
<1> QED BY <1>1, WorkersInductive, PTL

\* While a worker swaps, its poller waits with the burst the worker was given.
THEOREM HandoffsExclusive == Apart /\ Spec => []HandoffExclusive
<1>1. WorkersInv => HandoffExclusive
  BY Swapping DEF HandoffExclusive, WAt
<1> QED BY <1>1, WorkersInductive, PTL

\* Whatever leaves the engine, sent or freed, has been swapped once.
THEOREM TransmitsProcessed == Apart /\ Spec => []TransmitProcessed
<1>1. WorkersInv => TransmitProcessed
  BY DEF WorkersInv, Types, Bursts, TransmitProcessed
<1> QED BY <1>1, WorkersInductive, PTL

\* The engine implements the in-order forwarder: each step is a burst received,
\* the oldest packets leaving swapped once, or nothing at all.
LEMMA WorkersPromise ==
  ASSUME WorkersInv, [Next]_vars
  PROVE  Promise!Next \/ (rxd' = rxd /\ out' = out)
<1> USE DEF WorkersInv, Types
<1>1. ASSUME NEW p \in Pollers, PRx(p)
      PROVE  Promise!Next \/ (rxd' = rxd /\ out' = out)
  <2>1. PICK q \in Queues : q = Stream(p) BY IndexType
  <2>2. PICK n \in 0 .. nb_pkt_per_burst :
          rxd[q] + n <= MaxPkts /\ rxd' = [rxd EXCEPT ![q] = @ + n]
    BY <1>1, <2>1 DEF PRx
  <2>3. rxd \in [Queues -> 0 .. MaxPkts] BY DEF TypeOK
  <2>4. rxd[q] \in Nat /\ n \in Nat BY <2>3, WorkersAssumption
  <2>5. out' = out BY <1>1 DEF PRx
  <2>6. CASE n = 0
    <3>1. rxd[q] + n = rxd[q] BY <2>4, <2>6
    <3>2. rxd' = [rxd EXCEPT ![q] = rxd[q]] BY <2>2, <3>1
    <3> QED BY <2>3, <2>5, <3>2
  <2>7. CASE n # 0
    <3>1. n \in 1 .. MaxPkts - rxd[q] BY <2>2, <2>4, <2>7, WorkersAssumption
    <3> QED BY <2>2, <2>5, <3>1 DEF Promise!Receive, Promise!Next
  <2> QED BY <2>6, <2>7
<1>2. ASSUME NEW p \in Pollers, PTx(p) \/ PDrop(p)
      PROVE  Promise!Next \/ (rxd' = rxd /\ out' = out)
  <2>1. PICK q \in Queues : q = Stream(p) BY IndexType
  <2>a. PICK n \in Nat, how \in {"tx", "free"} : Departs(p, q, n, how)
    BY <1>2, <2>1, Departing
  <2>2. /\ n <= burst[p].nb_rx - Sent(p)
        /\ out' = [out EXCEPT ![q] = @ \o NextPackets(q, n, how)]
        /\ pc[p] \in {"tx", "drop"} /\ rxd' = rxd
    BY <2>a DEF Departs
  <2>3. BurstHeld(p, q) BY <2>1, <2>2 DEF Bursts, Holds
  <2>4. out \in [Queues -> Seq(Departure)] /\ out[q] \in Seq(Departure)
    OBVIOUS
  <2>5. PICK m \in Nat : m = Len(out[q]) BY <2>4
  <2>6. PICK f \in Nat, x \in Nat, s \in Nat, t \in Nat :
          f = burst[p].first /\ x = burst[p].nb_rx /\ s = Sent(p) /\ t = rxd[q]
    <3>1. rxd[q] \in 0 .. MaxPkts BY DEF TypeOK
    <3>2. rxd[q] \in Nat BY <3>1, WorkersAssumption
    <3>3. Sent(p) \in Nat BY BurstType DEF Sent
    <3> QED BY <3>2, <3>3, BurstType
  <2>7. n <= x - s /\ f + x = t + 1 /\ m + 1 = f + s
    BY <2>2, <2>3, <2>5, <2>6 DEF BurstHeld
  <2>8. n <= t - m BY <2>7
  <2>9. CASE n = 0
    <3>1. NextPackets(q, n, how) = << >> BY <2>9 DEF NextPackets
    <3>2. out[q] \o NextPackets(q, n, how) = out[q] BY <2>4, <3>1, ConcatEmptySeq
    <3>3. out' = [out EXCEPT ![q] = out[q]] BY <2>2, <3>2
    <3> QED BY <2>2, <2>4, <3>3
  <2>10. CASE n # 0
    <3>1. n \in 1 .. rxd[q] - Len(out[q]) BY <2>5, <2>6, <2>8, <2>10
    <3>2. Promise!Leave(q) BY <2>2, <3>1 DEF Promise!Leave, NextPackets
    <3> QED BY <3>2 DEF Promise!Next
  <2> QED BY <2>9, <2>10
<1>3. ASSUME NEW p \in Pollers,
             PCheck(p) \/ PInit(p) \/ PLaunch(p) \/ PMark(p) \/ PWait(p)
               \/ PWrite(p) \/ PSignal(p) \/ PDone(p) \/ PNext(p)
      PROVE  rxd' = rxd /\ out' = out
  BY <1>3 DEF PCheck, PInit, PLaunch, PMark, PWait, PWrite, PSignal, PDone,
              PNext, history
<1>4. ASSUME NEW i \in Indices, Worker(i) PROVE rxd' = rxd /\ out' = out
  BY <1>4 DEF Worker, WPoll, WSwap, WClear, history
<1>5. CASE MStart \/ MLaunch \/ MStop \/ UNCHANGED vars
  BY <1>5 DEF MStart, MLaunch, MStop, history, vars
<1> QED BY <1>1, <1>2, <1>3, <1>4, <1>5 DEF Next, Poller

\* However pollers and workers interleave, the engine is an in-order forwarder for
\* each stream (the safety part of PromiseSpec).
THEOREM WorkersKeepPromise == Apart /\ Spec => Promise!Spec
<1>1. Init => Promise!Init BY DEF Init, Promise!Init
<1>2. WorkersInv /\ [Next]_vars => [Promise!Next]_(Promise!vars)
  BY WorkersPromise DEF Promise!vars
<1> QED BY <1>1, <1>2, WorkersInductive, PTL DEF Spec, Promise!Spec

=============================================================================
