--------------------------- MODULE MemcachedServer ---------------------------
(***************************************************************************)
(* The memcached server over DPDK                                          *)
(* (memcached_dpdk_pipeline/memcached/memcached.c, dpdk.h): the main loop   *)
(* receives a burst of requests, allocates a burst of response buffers,     *)
(* hands the requests one by one to a processing thread through a mutex and *)
(* a condition variable, and sends the responses.                          *)
(*                                                                         *)
(* A critical section is one step, with the pthread_cond_wait that ends it. *)
(* Packets are numbered as they are received; the number stands for the     *)
(* request, its client and the size of its response, if it is answered: a    *)
(* packet that is not memcached's still gets a header and is sent back.  The *)
(* NIC, its driver and the packet pool (a FIFO of mbufs) are external.       *)
(***************************************************************************)
EXTENDS Integers, Sequences, FiniteSets, SequencesExt

CONSTANTS
  PoolSize,       \* mbufs of dpdk_obj->mpool: kRingN * kRingDescN * 2
  kRingDescN,     \* descriptors of the rx ring, and of the tx ring
  kMaxBurstSize,
  MaxPkts         \* bound: packets the network delivers

Mbufs == 1 .. PoolSize
Pkts == 1 .. MaxPkts

ASSUME ServerAssumption ==
  /\ kRingDescN \in Nat \ {0} /\ kMaxBurstSize \in Nat \ {0} /\ MaxPkts \in Nat
  \* Both rings are created from the pool; the first burst finds mbufs in it.
  /\ PoolSize \in Nat /\ PoolSize >= 2 * kRingDescN

VARIABLES
  pool,            \* free mbufs
  rx_ring,         \* mbufs the driver has posted for reception
  tx_ring,         \* mbufs the NIC has still to send
  tx_done,         \* mbufs it has sent and the driver has not freed
  mem,             \* what each mbuf holds
  rx_mbufs, rx_burst_ptr,                  \* rx_burst_size is Len(rx_mbufs)
  tx_mbufs, tx_burst_size, tx_burst_ptr,
  rx, tx,          \* rx_mbuf and tx_mbuf of the main loop
  pc,              \* where the main loop is
  work_ready, rx_buff_ptr, tx_buff_ptr, rsp_pckt_size,  \* thread_params
  waiting,         \* the threads in pthread_cond_wait
  failed,          \* the last AllocateDPDKTxBuffers failed
  rcvd,            \* packets received
  wire             \* what was sent, in order

nic == <<rx_ring, tx_ring, tx_done>>
rxburst == <<rx_mbufs, rx_burst_ptr>>
txburst == <<tx_mbufs, tx_burst_size, tx_burst_ptr>>
params == <<work_ready, rx_buff_ptr, tx_buff_ptr, rsp_pckt_size>>
vars == <<pool, nic, mem, rxburst, txburst, rx, tx, pc, params, waiting, failed,
          rcvd, wire>>

NULL == 0
Threads == {"main", "worker"}

\* Contents of an mbuf: a request; its response, without and with a header.
Junk == [kind |-> "junk", pkt |-> 0, size |-> 0, to |-> 0]
Request(k) == [kind |-> "request", pkt |-> k, size |-> 0, to |-> 0]
Response(k) == [kind |-> "response", pkt |-> k, size |-> k, to |-> k]

\* process_through_memcached on request k and a buffer that holds old: the body
\* of a response and its size; or nothing and 0, if the packet is not memcached's.
Processed(k, old) ==
  {[body |-> [kind |-> "response", pkt |-> k, size |-> 0, to |-> 0], size |-> k],
   [body |-> old, size |-> 0]}

\* pthread_cond_signal wakes a waiting thread, if there is one.
Woken(W) == IF W = {} THEN {W} ELSE {W \ {p} : p \in W}

-----------------------------------------------------------------------------
Init ==
  /\ rx_ring = [k \in 1 .. kRingDescN |-> k]
  /\ pool = [k \in 1 .. PoolSize - kRingDescN |-> kRingDescN + k]
  /\ tx_ring = << >> /\ tx_done = << >>
  /\ mem = [m \in Mbufs |-> Junk]
  /\ rx_mbufs = << >> /\ rx_burst_ptr = 0
  /\ tx_mbufs = << >> /\ tx_burst_size = 0 /\ tx_burst_ptr = 0
  /\ rx = NULL /\ tx = NULL
  /\ pc = "recv"
  /\ work_ready = FALSE
  /\ rx_buff_ptr = NULL /\ tx_buff_ptr = NULL /\ rsp_pckt_size = 0
  /\ waiting = {}
  /\ failed = FALSE
  /\ rcvd = 0
  /\ wire = << >>

-----------------------------------------------------------------------------
(* The main loop. *)

Prefix(s, n) == SubSeq(s, 1, n)
Rest(s, n) == SubSeq(s, n + 1, Len(s))

\* What s has at the positions in I, in the same order.
Rank(I, i) == Cardinality(I \cap 1 .. i)
Picked(s, I) ==
  [k \in 1 .. Cardinality(I) |-> s[CHOOSE i \in I : Rank(I, i) = k]]

\* RecvOverDPDK takes n mbufs from the ring and frees the foreign ones, which hold
\* no IPv4 packet.  The driver posts free mbufs in the place of those it hands
\* over, as far as it can or cares to.
Receive(n, foreign, refill) ==
  LET got == Prefix(rx_ring, n)
      kept == Picked(got, (1 .. n) \ foreign)
  IN
  /\ n <= Len(rx_ring) /\ rcvd + n <= MaxPkts
  /\ Len(rx_ring) - n + refill <= kRingDescN
  /\ rx_ring' = Rest(rx_ring, n) \o Prefix(pool, refill)
  /\ pool' = Rest(pool, refill) \o Picked(got, foreign)
  /\ rcvd' = rcvd + n
  /\ mem' = [m \in Mbufs |->
       IF \E k \in 1 .. n : got[k] = m
       THEN Request(rcvd + CHOOSE k \in 1 .. n : got[k] = m) ELSE mem[m]]
  /\ IF n = 0 THEN UNCHANGED rxburst
              ELSE rx_mbufs' = kept /\ rx_burst_ptr' = 0
  /\ pc' = IF kept = << >> THEN "recv" ELSE "alloc"

MRecv ==
  /\ pc = "recv"
  /\ \E n \in 0 .. kMaxBurstSize : \E foreign \in SUBSET (1 .. n) :
     \E refill \in 0 .. Len(pool) : Receive(n, foreign, refill)
  /\ UNCHANGED <<tx_ring, tx_done, txburst, rx, tx, params, waiting, failed, wire>>

\* Mutant: the pointer is left where the last burst ended.
MAllocKeepsPtr ==
  LET n == Len(rx_mbufs) IN
  /\ pc = "alloc"
  /\ failed' = (Len(pool) < n)
  /\ IF Len(pool) < n THEN UNCHANGED <<pool, txburst>>
     ELSE /\ tx_mbufs' = Prefix(pool, n)
          /\ pool' = Rest(pool, n)
          /\ tx_burst_size' = n /\ UNCHANGED tx_burst_ptr
  /\ pc' = "next"
  /\ UNCHANGED <<nic, mem, rxburst, rx, tx, params, waiting, rcvd, wire>>

\* AllocateDPDKTxBuffers: all or nothing; the main loop does not ask which.
MAlloc ==
  LET n == Len(rx_mbufs) IN
  /\ pc = "alloc"
  /\ failed' = (Len(pool) < n)
  /\ IF Len(pool) < n THEN UNCHANGED <<pool, txburst>>
     ELSE /\ tx_mbufs' = Prefix(pool, n)
          /\ pool' = Rest(pool, n)
          /\ tx_burst_size' = n /\ tx_burst_ptr' = 0
  /\ pc' = "next"
  /\ UNCHANGED <<nic, mem, rxburst, rx, tx, params, waiting, rcvd, wire>>

\* GetNextDPDKRxBuffer, GetNextDPDKTxBuffer, and the assertions on them.
MNext ==
  /\ pc = "next" /\ rx_burst_ptr < Len(rx_mbufs)
  /\ rx' = rx_mbufs[rx_burst_ptr + 1]
  /\ rx_burst_ptr' = rx_burst_ptr + 1
  /\ IF tx_burst_ptr >= tx_burst_size
     THEN tx' = NULL /\ UNCHANGED tx_burst_ptr /\ pc' = "aborted"
     ELSE /\ tx' = tx_mbufs[tx_burst_ptr + 1]
          /\ tx_burst_ptr' = tx_burst_ptr + 1
          /\ pc' = "post"
  /\ UNCHANGED <<pool, nic, mem, rx_mbufs, tx_mbufs, tx_burst_size, params,
                 waiting, failed, rcvd, wire>>

\* Set the thread parameters, signal, and wait: the flag has just been set.
MPost ==
  /\ pc = "post"
  /\ rx_buff_ptr' = rx /\ tx_buff_ptr' = tx /\ work_ready' = TRUE
  /\ \E W \in Woken(waiting) : waiting' = W \cup {"main"}
  /\ pc' = "wait"
  /\ UNCHANGED <<pool, nic, mem, rxburst, txburst, rx, tx, rsp_pckt_size, failed,
                 rcvd, wire>>

\* Mutant: a wake-up is taken for the answer.
MWakeOnce ==
  /\ pc = "wait" /\ "main" \notin waiting
  /\ pc' = "reply"
  /\ UNCHANGED <<pool, nic, mem, rxburst, txburst, rx, tx, params, waiting,
                 failed, rcvd, wire>>

\* Back from pthread_cond_wait: wait again while the flag is set.
MWake ==
  /\ pc = "wait" /\ "main" \notin waiting
  /\ IF work_ready THEN waiting' = waiting \cup {"main"} /\ UNCHANGED pc
                   ELSE pc' = "reply" /\ UNCHANGED waiting
  /\ UNCHANGED <<pool, nic, mem, rxburst, txburst, rx, tx, params, failed, rcvd,
                 wire>>

\* Mutant: the request's mbuf is not freed.
MReplyLeaks ==
  /\ pc = "reply"
  /\ mem' = [mem EXCEPT ![tx].size = rsp_pckt_size, ![tx].to = mem[rx].pkt]
  /\ pc' = "next"
  /\ UNCHANGED <<pool, nic, rxburst, txburst, rx, tx, params, waiting, failed,
                 rcvd, wire>>

\* AppendPacketHeader to the client of the request, FreeDPDKPacket.
MReply ==
  /\ pc = "reply"
  /\ mem' = [mem EXCEPT ![tx].size = rsp_pckt_size, ![tx].to = mem[rx].pkt]
  /\ pool' = Append(pool, rx)
  /\ pc' = "next"
  /\ UNCHANGED <<nic, rxburst, txburst, rx, tx, params, waiting, failed, rcvd,
                 wire>>

\* Mutant: what the NIC did not take is not freed.
MSendLeaks ==
  /\ pc = "next" /\ rx_burst_ptr = Len(rx_mbufs)
  /\ \E n \in 0 .. tx_burst_size : \E done \in 0 .. Len(tx_done) :
       /\ Len(tx_ring) + Len(tx_done) - done + n <= kRingDescN
       /\ tx_ring' = tx_ring \o Prefix(tx_mbufs, n)
       /\ tx_done' = Rest(tx_done, done)
       /\ pool' = pool \o Prefix(tx_done, done)
       /\ tx_burst_ptr' = IF n = tx_burst_size THEN 0 ELSE tx_burst_ptr
  /\ pc' = "recv"
  /\ UNCHANGED <<rx_ring, mem, rxburst, tx_mbufs, tx_burst_size, rx, tx, params,
                 waiting, failed, rcvd, wire>>

\* SendBatch: the driver frees some of the mbufs it has sent, takes what fits,
\* and the rest is freed.
MSend ==
  /\ pc = "next" /\ rx_burst_ptr = Len(rx_mbufs)
  /\ \E n \in 0 .. tx_burst_size : \E done \in 0 .. Len(tx_done) :
       /\ Len(tx_ring) + Len(tx_done) - done + n <= kRingDescN
       /\ tx_ring' = tx_ring \o Prefix(tx_mbufs, n)
       /\ tx_done' = Rest(tx_done, done)
       /\ pool' = pool \o Prefix(tx_done, done)
                       \o SubSeq(tx_mbufs, n + 1, tx_burst_size)
       /\ tx_burst_ptr' = IF n = tx_burst_size THEN 0 ELSE tx_burst_ptr
  /\ pc' = "recv"
  /\ UNCHANGED <<rx_ring, mem, rxburst, tx_mbufs, tx_burst_size, rx, tx, params,
                 waiting, failed, rcvd, wire>>

Main == MRecv \/ MAlloc \/ MNext \/ MPost \/ MWake \/ MReply \/ MSend

\* The loop without the network: from a burst back to the next reception.
MainSteps == Main /\ pc # "recv"

-----------------------------------------------------------------------------
(* memcached_thread_func. *)

\* Mutant: the main loop is not told.
WorkSilent ==
  /\ "worker" \notin waiting
  /\ IF ~work_ready
     THEN /\ waiting' = waiting \cup {"worker"}
          /\ UNCHANGED <<mem, work_ready, rsp_pckt_size>>
     ELSE \E rsp \in Processed(mem[rx_buff_ptr].pkt, mem[tx_buff_ptr]) :
          /\ work_ready' = FALSE
          /\ mem' = [mem EXCEPT ![tx_buff_ptr] = rsp.body]
          /\ rsp_pckt_size' = rsp.size
          /\ UNCHANGED waiting
  /\ UNCHANGED <<pool, nic, rxburst, txburst, rx, tx, pc, rx_buff_ptr,
                 tx_buff_ptr, failed, rcvd, wire>>

\* Wait for work; take it, process it and signal, all under the mutex.
Work ==
  /\ "worker" \notin waiting
  /\ IF ~work_ready
     THEN /\ waiting' = waiting \cup {"worker"}
          /\ UNCHANGED <<mem, work_ready, rsp_pckt_size>>
     ELSE \E rsp \in Processed(mem[rx_buff_ptr].pkt, mem[tx_buff_ptr]) :
          /\ work_ready' = FALSE
          /\ mem' = [mem EXCEPT ![tx_buff_ptr] = rsp.body]
          /\ rsp_pckt_size' = rsp.size
          /\ waiting' \in Woken(waiting)
  /\ UNCHANGED <<pool, nic, rxburst, txburst, rx, tx, pc, rx_buff_ptr,
                 tx_buff_ptr, failed, rcvd, wire>>

\* pthread_cond_wait may return without a signal.
SpuriousWake(p) ==
  /\ p \in waiting
  /\ waiting' = waiting \ {p}
  /\ UNCHANGED <<pool, nic, mem, rxburst, txburst, rx, tx, pc, params, failed,
                 rcvd, wire>>

-----------------------------------------------------------------------------
\* The NIC puts the next packet on the wire, as it is now.
NicSend ==
  /\ tx_ring # << >>
  /\ wire' = Append(wire, mem[Head(tx_ring)])
  /\ tx_ring' = Tail(tx_ring)
  /\ tx_done' = Append(tx_done, Head(tx_ring))
  /\ UNCHANGED <<pool, rx_ring, mem, rxburst, txburst, rx, tx, pc, params,
                 waiting, failed, rcvd>>

Next == \/ Main \/ Work \/ NicSend
        \/ \E p \in Threads : SpuriousWake(p)

Spec == Init /\ [][Next]_vars

\* Both threads run; requests, NIC and spurious wake-ups may or may not come.
FairSpec == Spec /\ WF_vars(MainSteps) /\ WF_vars(Work)

\* The behaviours up to the first allocation that fails, if one does, with the
\* same fairness: what the ignored failure leads to is another question.
AllocSucceeds == ~failed
AllocatingSpec == /\ Init /\ [][Next /\ AllocSucceeds']_vars
                  /\ WF_vars(MainSteps /\ AllocSucceeds') /\ WF_vars(Work)

-----------------------------------------------------------------------------
Contents == [kind : {"junk", "request", "response"}, pkt : 0 .. MaxPkts,
             size : 0 .. MaxPkts, to : 0 .. MaxPkts]
TypeOK ==
  /\ {pool, rx_ring, tx_ring, tx_done, rx_mbufs, tx_mbufs} \subseteq Seq(Mbufs)
  /\ mem \in [Mbufs -> Contents]
  /\ rx_burst_ptr \in 0 .. Len(rx_mbufs) /\ Len(rx_mbufs) <= kMaxBurstSize
  /\ tx_burst_ptr \in 0 .. tx_burst_size /\ tx_burst_size = Len(tx_mbufs)
  /\ {rx, tx, rx_buff_ptr, tx_buff_ptr} \subseteq Mbufs \cup {NULL}
  /\ pc \in {"recv", "alloc", "next", "post", "wait", "reply", "aborted"}
  /\ {work_ready, failed} \subseteq BOOLEAN
  /\ rsp_pckt_size \in 0 .. MaxPkts
  /\ waiting \subseteq Threads
  /\ rcvd \in 0 .. MaxPkts

\* "assert(tx_mbuf != NULL)": there is a response buffer for every request.
AssertsHold == pc # "aborted"

\* The mbufs the main loop holds: what it has not replied to, what it has not
\* sent.
HeldRx ==
  LET from == IF pc \in {"post", "wait", "reply"} THEN rx_burst_ptr
                                                  ELSE rx_burst_ptr + 1
  IN IF pc = "recv" THEN << >> ELSE SubSeq(rx_mbufs, from, Len(rx_mbufs))
HeldTx == IF pc \in {"recv", "alloc"} THEN << >> ELSE tx_mbufs

\* No mbuf is leaked, freed twice, or used by two of the pool, the rings and the
\* main loop: each is in one place.
MbufsAccounted ==
  LET places == pool \o rx_ring \o tx_ring \o tx_done \o HeldRx \o HeldTx
  IN Len(places) = PoolSize /\ ToSet(places) = Mbufs

\* Each received packet is answered at most once, in the order received; and an
\* answer that carries anything is the response to the packet of the client it
\* goes to, with the size of that response.
WireCorrect ==
  /\ \A k \in DOMAIN wire : wire[k].size # 0 => wire[k] = Response(wire[k].to)
  /\ \A k \in 1 .. Len(wire) : wire[k].to > IF k = 1 THEN 0 ELSE wire[k - 1].to

\* The server is a request-response server to its clients.
Promise == INSTANCE RequestResponse
PromiseSpec == Promise!Spec

\* A burst finds the pool short of response buffers only while the tx ring holds
\* so many mbufs that fewer descriptors than two bursts are left of it: every other
\* mbuf comes back in time, whatever was refused, foreign or not memcached's.
ShortOnlyIfTxHolds ==
  pc = "alloc" /\ Len(pool) < Len(rx_mbufs) =>
    kRingDescN - (Len(tx_ring) + Len(tx_done)) < 2 * Len(rx_mbufs)

\* Every burst that got its response buffers is processed, and the loop comes back
\* for the next.
BurstsComplete == pc \notin {"recv", "alloc"} ~> pc = "recv"

=============================================================================
