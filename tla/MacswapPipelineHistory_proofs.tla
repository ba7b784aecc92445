------------------- MODULE MacswapPipelineHistory_proofs -------------------
(***************************************************************************)
(* What the macswap pipeline does to the packets, for every number of      *)
(* streams, ring depth, burst size and number of packets: they leave in    *)
(* order, once, swapped once and counted, and the pipeline implements the  *)
(* in-order forwarder.  Rests on IndInv, proved in MacswapPipeline_proofs. *)
(***************************************************************************)
EXTENDS MacswapPipeline_proofs

USE DEF Queues, Pkts, Procs, Drainers

-----------------------------------------------------------------------------
\* The order of the places of a ring: what is reclaimed, what leaves, what is
\* completed, what is swapped, what is submitted and what is received.
LEMMA Places ==
  ASSUME IndInv, NEW q \in Queues
  PROVE  /\ reclaimed[q] \in Nat /\ completed[q] \in Nat /\ submitted[q] \in Nat
         /\ At(q) \in Nat /\ Done(q) \in Nat /\ Top(q) \in Nat
         /\ reclaimed[q] <= At(q) /\ At(q) <= completed[q]
         /\ completed[q] <= Done(q) /\ Done(q) <= submitted[q]
         /\ submitted[q] <= Top(q) /\ Top(q) <= reclaimed[q] + DEPTH
<1>1. /\ reclaimed[q] \in Nat /\ completed[q] \in Nat /\ submitted[q] \in Nat
      /\ reclaimed[q] <= completed[q] /\ completed[q] <= submitted[q]
      /\ submitted[q] <= reclaimed[q] + DEPTH
      /\ rec["fwd"] \in Nat /\ rec["main"] \in Nat
      /\ com["fwd"] \in Nat /\ com["main"] \in Nat
  BY DEF IndInv, TypeOK, CursorType, CursorOrder, LocalType
<1>2. \A p \in Drainers : Draining(p, q) =>
        reclaimed[q] <= rec[p] /\ rec[p] <= com[p] /\ com[p] <= completed[q]
  <2>1. \A p \in Drainers : rec[p] \in Nat /\ com[p] \in Nat BY <1>1
  <2> QED BY <1>1, <2>1 DEF IndInv, DrainLocals, Draining
<1>3. At(q) \in Nat /\ reclaimed[q] <= At(q) /\ At(q) <= completed[q]
  <2>1. CASE Draining("fwd", q) BY <1>1, <1>2, <2>1 DEF At
  <2>2. CASE ~Draining("fwd", q) /\ Draining("main", q)
    BY <1>1, <1>2, <2>2 DEF At
  <2>3. CASE ~Draining("fwd", q) /\ ~Draining("main", q)
    BY <1>1, <2>3 DEF At
  <2> QED BY <2>1, <2>2, <2>3
<1>4. Done(q) \in Nat /\ completed[q] <= Done(q) /\ Done(q) <= submitted[q]
  <2>1. pc["wk"] = "publish" /\ cur["wk"] = q => completed[q] < submitted[q]
    BY DEF IndInv, WkLocals
  <2> QED BY <1>1, <2>1 DEF Done
<1>5. Top(q) \in Nat /\ submitted[q] <= Top(q) /\ Top(q) <= reclaimed[q] + DEPTH
  <2>1. pc["fwd"] = "publish" /\ cur["fwd"] = q =>
          submitted[q] < reclaimed[q] + DEPTH
    BY DEF IndInv, FwdLocals
  <2> QED BY <1>1, <2>1, PipelineAssumption DEF Top
<1> QED BY <1>1, <1>3, <1>4, <1>5

\* The batch under transmission is the one At names; the helper has completed it.
LEMMA DrainPlace ==
  ASSUME IndInv, NEW p \in Drainers, pc[p] \in {"tx", "drop"}
  PROVE  /\ cur[p] \in Queues /\ rec[p] \in Nat /\ At(cur[p]) = rec[p]
         /\ rec[p] < completed[cur[p]] /\ Draining(p, cur[p])
         /\ \A o \in Drainers : o # p =>
              ~Draining(o, cur[p]) \/ (p = "fwd" /\ o = "main")
<1>1. /\ cur[p] \in Queues /\ rec[p] \in Nat /\ com[p] \in Nat
      /\ completed[cur[p]] \in Nat
  BY DEF IndInv, TypeOK, LocalType, CursorType
<1>2. rec[p] < com[p] /\ com[p] <= completed[cur[p]]
  BY DEF IndInv, DrainLocals
<1>3. p = "main" => pc["fwd"] = "off" BY DrainerAlone
<1> QED BY <1>1, <1>2, <1>3 DEF At, Draining

\* What a batch holds.
LEMMA BatchFields ==
  ASSUME IndInv, NEW q \in Queues, NEW c \in Nat
  PROVE  LET b == BatchAt(q, c) IN
         /\ b \in Batch
         /\ b.first \in Nat /\ b.nb_rx \in Nat /\ b.tx_sent \in Nat
         /\ b.tx_sent <= b.nb_rx
         /\ b.nb_rx > 0 => b.first > 0 /\ b.first + b.nb_rx <= rxd[q] + 1
         /\ rxd[q] \in 0 .. MaxPkts /\ rxd[q] \in Nat
<1>1. Slot(c) \in 0 .. DEPTH - 1 BY SlotType
<1>2. BatchAt(q, c) \in Batch
  BY <1>1 DEF IndInv, TypeOK, SlotsType, BatchAt
<1>3. rxd[q] \in 0 .. MaxPkts BY DEF IndInv, TypeOK, RxType
<1>4. /\ BatchAt(q, c).tx_sent <= BatchAt(q, c).nb_rx
      /\ BatchAt(q, c).nb_rx > 0 =>
           /\ BatchAt(q, c).first > 0
           /\ BatchAt(q, c).first + BatchAt(q, c).nb_rx <= rxd[q] + 1
  BY <1>1 DEF IndInv, BatchesValid, BatchAt
<1> QED BY <1>2, <1>3, <1>4, PipelineAssumption DEF Batch

LEMMA StartType ==
  ASSUME IndInv, NEW q \in Queues, NEW c \in Nat
  PROVE  Start(q, c) \in Nat /\ Sent(q, c) \in Nat /\ Len(out[q]) \in Nat
<1>1. out[q] \in Seq([pkt : Nat, how : {"tx", "free"}, swaps : Nat])
  BY DEF IndInv, TypeOK, OutType
<1>2. Len(out[q]) \in Nat BY <1>1, LenProperties
<1>3. Start(q, c) \in Nat /\ Sent(q, c) \in Nat
  BY BatchFields DEF Start, Sent
<1> QED BY <1>2, <1>3

\* A step that moves no packet and no place keeps the history; a drain that
\* publishes its cursor moves neither.
LEMMA StillInv ==
  ASSUME IndInv, IndInv', HistoryInv,
         UNCHANGED <<slots, rxd, swaps, out>>,
         \A q \in Queues : /\ Top(q)' = Top(q) /\ At(q)' = At(q)
                           /\ Done(q)' = Done(q) /\ reclaimed[q] <= reclaimed'[q],
         HeldCounted', IdleEmpty'
  PROVE  HistoryInv'
<1>1. \A q \in Queues : \A c \in Nat :
        Start(q, c)' = Start(q, c) /\ Sent(q, c)' = Sent(q, c)
        /\ BatchAt(q, c)' = BatchAt(q, c)
  BY DEF Start, Sent, BatchAt
<1>2. BatchesFollow'
  <2> SUFFICES ASSUME NEW q \in Queues
               PROVE
        /\ \A c \in reclaimed'[q] .. Top(q)' - 1 :
             Start(q, c)' + (BatchAt(q, c)').nb_rx = Start(q, c + 1)'
        /\ \A c, d \in reclaimed'[q] .. Top(q)' :
             c <= d => Start(q, c)' <= Start(q, d)'
    BY DEF BatchesFollow
  <2>1. /\ reclaimed[q] \in Nat /\ reclaimed'[q] \in Nat /\ Top(q) \in Nat
        /\ reclaimed[q] <= reclaimed'[q] /\ Top(q)' = Top(q)
    BY Places DEF IndInv, TypeOK, CursorType
  <2>2. /\ \A c \in reclaimed[q] .. Top(q) - 1 :
             Start(q, c) + BatchAt(q, c).nb_rx = Start(q, c + 1)
        /\ \A c, d \in reclaimed[q] .. Top(q) :
             c <= d => Start(q, c) <= Start(q, d)
    BY DEF HistoryInv, BatchesFollow
  <2>3. ASSUME NEW c \in reclaimed'[q] .. Top(q)' - 1
        PROVE  Start(q, c)' + (BatchAt(q, c)').nb_rx = Start(q, c + 1)'
    <3>1. c \in reclaimed[q] .. Top(q) - 1 /\ c \in Nat /\ c + 1 \in Nat
      BY <2>1
    <3> QED BY <1>1, <2>2, <3>1
  <2>4. ASSUME NEW c \in reclaimed'[q] .. Top(q)',
               NEW d \in reclaimed'[q] .. Top(q)', c <= d
        PROVE  Start(q, c)' <= Start(q, d)'
    <3>1. /\ c \in reclaimed[q] .. Top(q) /\ c \in Nat
          /\ d \in reclaimed[q] .. Top(q) /\ d \in Nat
      BY <2>1
    <3> QED BY <1>1, <2>2, <2>4, <3>1
  <2> QED BY <2>3, <2>4
<1>3. LeftInOrder'
  <2> SUFFICES ASSUME NEW q \in Queues
               PROVE
        /\ Len(out'[q]) + 1 = Start(q, At(q))' + Sent(q, At(q))'
        /\ \A c \in At(q)' + 1 .. Top(q)' - 1 : (BatchAt(q, c)').tx_sent = 0
    BY DEF LeftInOrder
  <2>1. At(q) \in Nat /\ Top(q) \in Nat /\ At(q)' = At(q) /\ Top(q)' = Top(q)
    BY Places
  <2>2. /\ Len(out[q]) + 1 = Start(q, At(q)) + Sent(q, At(q))
        /\ \A c \in At(q) + 1 .. Top(q) - 1 : BatchAt(q, c).tx_sent = 0
    BY DEF HistoryInv, LeftInOrder
  <2>3. \A c \in At(q) + 1 .. Top(q) - 1 : c \in Nat BY <2>1
  <2> QED BY <1>1, <2>1, <2>2, <2>3
<1>4. SwappedSoFar'
  <2> SUFFICES ASSUME NEW q \in Queues, NEW i \in Pkts
               PROVE  swaps'[q][i] = IF i < Start(q, Done(q))' THEN 1 ELSE 0
    BY DEF SwappedSoFar
  <2>1. Done(q) \in Nat /\ Done(q)' = Done(q) BY Places
  <2> QED BY <1>1, <2>1 DEF HistoryInv, SwappedSoFar
<1>5. InOrderOnce' /\ SwappedOnce'
  BY DEF HistoryInv, InOrderOnce, SwappedOnce
<1> QED BY <1>2, <1>3, <1>4, <1>5 DEF HistoryInv

-----------------------------------------------------------------------------
(* Packets leave.                                                           *)

\* Whether they were sent or dropped, n packets that left are counted.
LEMMA Accounted ==
  ASSUME NEW a \in Nat, NEW m \in Nat, NEW n \in Nat, NEW rx \in Nat,
         NEW tx \in Nat, NEW d \in Nat, NEW tx2 \in Nat, NEW d2 \in Nat,
         a - m = rx - tx - d, tx2 + d2 = tx + d + n
  PROVE  a - (m + n) = rx - tx2 - d2
OBVIOUS

\* n packets of the batch b in slot r leave stream q: b becomes b2 and the drain
\* stays on it or, all of it gone, goes on to the next.
LeavesFrom(p, q, r, b, b2, n, how, l, r2) ==
  /\ b2.first = b.first /\ b2.nb_rx = b.nb_rx /\ b2.tx_sent = b.tx_sent + n
  /\ slots'[q][Slot(r)] = b2
  /\ \A q2 \in Queues : \A s2 \in 0 .. DEPTH - 1 :
       q2 # q \/ s2 # Slot(r) => slots'[q2][s2] = slots[q2][s2]
  /\ out'[q] = out[q] \o Leave(q, b.first + b.tx_sent, n, how)
  /\ \A q2 \in Queues : q2 # q => out'[q2] = out[q2] /\ stats'[q2] = stats[q2]
  /\ stats'[q].rx = stats[q].rx
  /\ stats'[q].tx + stats'[q].dropped = stats[q].tx + stats[q].dropped + n
  /\ submitted' = submitted /\ completed' = completed /\ reclaimed' = reclaimed
  /\ cur' = cur /\ rxd' = rxd /\ swaps' = swaps
  /\ pc'[p] = l /\ \A o \in Procs : o # p => pc'[o] = pc[o]
  /\ rec'[p] = r2 /\ \A o \in Drainers : o # p => rec'[o] = rec[o]
  /\ r2 = r \/ (r2 = r + 1 /\ n = b.nb_rx - b.tx_sent)

LEMMA LeavingInv ==
  ASSUME IndInv, IndInv', HistoryInv,
         NEW p \in Drainers, pc[p] \in {"tx", "drop"},
         NEW q \in Queues, q = cur[p], NEW r \in Nat, r = rec[p],
         NEW b \in Batch, b = BatchAt(q, r), NEW b2 \in Batch,
         NEW n \in Nat, n <= b.nb_rx - b.tx_sent, NEW how \in {"tx", "free"},
         NEW l \in {"tx", "drop", "store"}, NEW r2 \in Nat,
         LeavesFrom(p, q, r, b, b2, n, how, l, r2)
  PROVE  HistoryInv'
<1>a. /\ b2.first = b.first /\ b2.nb_rx = b.nb_rx /\ b2.tx_sent = b.tx_sent + n
      /\ r2 = r \/ (r2 = r + 1 /\ n = b.nb_rx - b.tx_sent)
  BY DEF LeavesFrom
<1>b. /\ slots'[q][Slot(r)] = b2
      /\ \A q2 \in Queues : \A s2 \in 0 .. DEPTH - 1 :
           q2 # q \/ s2 # Slot(r) => slots'[q2][s2] = slots[q2][s2]
  BY DEF LeavesFrom
<1>c. /\ out'[q] = out[q] \o Leave(q, b.first + b.tx_sent, n, how)
      /\ \A q2 \in Queues : q2 # q => out'[q2] = out[q2] /\ stats'[q2] = stats[q2]
      /\ stats'[q].rx = stats[q].rx
      /\ stats'[q].tx + stats'[q].dropped = stats[q].tx + stats[q].dropped + n
  BY DEF LeavesFrom
<1>d. /\ submitted' = submitted /\ completed' = completed /\ reclaimed' = reclaimed
      /\ cur' = cur /\ rxd' = rxd /\ swaps' = swaps
  BY DEF LeavesFrom
<1>e. /\ pc'[p] = l /\ \A o \in Procs : o # p => pc'[o] = pc[o]
      /\ rec'[p] = r2 /\ \A o \in Drainers : o # p => rec'[o] = rec[o]
  BY DEF LeavesFrom
<1> DEFINE f == b.first + b.tx_sent
           e == Leave(q, f, n, how)
<1>1. /\ At(q) = r /\ r < completed[q] /\ Draining(p, q)
      /\ p = "main" => pc["fwd"] = "off"
  BY DrainPlace, DrainerAlone
<1>2. /\ reclaimed[q] \in Nat /\ completed[q] \in Nat /\ Done(q) \in Nat
      /\ Top(q) \in Nat /\ reclaimed[q] <= r /\ completed[q] <= Done(q)
      /\ Done(q) <= Top(q) /\ Top(q) <= reclaimed[q] + DEPTH
      /\ r < Top(q)
  BY <1>1, Places
<1>3. /\ b.first \in Nat /\ b.nb_rx \in Nat /\ b.tx_sent \in Nat
      /\ b.tx_sent <= b.nb_rx /\ rxd[q] \in 0 .. MaxPkts
  BY BatchFields
<1>5. \A q2 \in Queues : Top(q2)' = Top(q2) /\ Done(q2)' = Done(q2)
  BY <1>d, <1>e DEF Top, Done
<1>6. \A q2 \in Queues : q2 # q => At(q2)' = At(q2)
  BY <1>d, <1>e DEF At, Draining
<1>7. At(q)' = r2
  BY <1>1, <1>d, <1>e DEF At, Draining
<1>8. \A c \in Nat : Slot(c) \in 0 .. DEPTH - 1 BY SlotType
<1>9. \A q2 \in Queues : \A c \in Nat :
        /\ (BatchAt(q2, c)').first = BatchAt(q2, c).first
        /\ (BatchAt(q2, c)').nb_rx = BatchAt(q2, c).nb_rx
        /\ q2 # q \/ Slot(c) # Slot(r) => BatchAt(q2, c)' = BatchAt(q2, c)
  <2> SUFFICES ASSUME NEW q2 \in Queues, NEW c \in Nat
               PROVE
        /\ (BatchAt(q2, c)').first = BatchAt(q2, c).first
        /\ (BatchAt(q2, c)').nb_rx = BatchAt(q2, c).nb_rx
        /\ q2 # q \/ Slot(c) # Slot(r) => BatchAt(q2, c)' = BatchAt(q2, c)
    OBVIOUS
  <2>1. CASE q2 = q /\ Slot(c) = Slot(r)
    <3>1. BatchAt(q2, c) = b /\ BatchAt(q2, c)' = b2 BY <1>b, <2>1 DEF BatchAt
    <3> QED BY <1>a, <2>1, <3>1
  <2>2. CASE ~(q2 = q /\ Slot(c) = Slot(r))
    <3>1. BatchAt(q2, c)' = BatchAt(q2, c) BY <1>8, <1>b, <2>2 DEF BatchAt
    <3> QED BY <2>2, <3>1
  <2> QED BY <2>1, <2>2
<1>10. \A q2 \in Queues : \A c \in Nat : Start(q2, c)' = Start(q2, c)
  BY <1>5, <1>9, <1>d DEF Start
<1>11. BatchesFollow'
  <2> SUFFICES ASSUME NEW q2 \in Queues
               PROVE
        /\ \A c \in reclaimed'[q2] .. Top(q2)' - 1 :
             Start(q2, c)' + (BatchAt(q2, c)').nb_rx = Start(q2, c + 1)'
        /\ \A c, d \in reclaimed'[q2] .. Top(q2)' :
             c <= d => Start(q2, c)' <= Start(q2, d)'
    BY DEF BatchesFollow
  <2>1. reclaimed[q2] \in Nat /\ Top(q2) \in Nat BY Places
  <2>2. \A c \in reclaimed[q2] .. Top(q2) : c \in Nat /\ c + 1 \in Nat BY <2>1
  <2>3. \A c \in reclaimed[q2] .. Top(q2) - 1 : c \in Nat /\ c + 1 \in Nat
    BY <2>1
  <2> QED BY <1>d, <1>5, <1>9, <1>10, <2>2, <2>3 DEF HistoryInv, BatchesFollow
\* What comes after the batch in transmission.
<1>12. /\ Start(q, r) = b.first /\ Sent(q, r) = b.tx_sent
       /\ b.first + b.nb_rx = Start(q, r + 1)
       /\ Start(q, r + 1) <= Start(q, Done(q))
       /\ Start(q, r + 1) <= rxd[q] + 1
  <2>1. Start(q, r) = b.first /\ Sent(q, r) = b.tx_sent
    BY <1>2 DEF Start, Sent
  <2>2. r \in reclaimed[q] .. Top(q) - 1 BY <1>2
  <2>3. r + 1 \in reclaimed[q] .. Top(q) /\ r + 1 <= Done(q)
        /\ Done(q) \in reclaimed[q] .. Top(q) /\ Top(q) \in reclaimed[q] .. Top(q)
        /\ r + 1 <= Top(q)
    BY <1>1, <1>2
  <2>4. Start(q, Top(q)) = rxd[q] + 1 BY DEF Start
  <2>5. /\ \A c \in reclaimed[q] .. Top(q) - 1 :
             Start(q, c) + BatchAt(q, c).nb_rx = Start(q, c + 1)
        /\ \A c, d \in reclaimed[q] .. Top(q) :
             c <= d => Start(q, c) <= Start(q, d)
    BY DEF HistoryInv, BatchesFollow
  <2> QED BY <2>1, <2>2, <2>3, <2>4, <2>5
<1>13. \A c \in r + 1 .. Top(q) - 1 :
         c \in Nat /\ BatchAt(q, c).tx_sent = 0 /\ (BatchAt(q, c)').tx_sent = 0
  <2> SUFFICES ASSUME NEW c \in r + 1 .. Top(q) - 1
               PROVE  /\ c \in Nat /\ BatchAt(q, c).tx_sent = 0
                      /\ (BatchAt(q, c)').tx_sent = 0
    OBVIOUS
  <2>1. c \in Nat /\ r < c /\ c < r + DEPTH BY <1>2, PipelineAssumption
  <2>2. BatchAt(q, c).tx_sent = 0 BY <1>1 DEF HistoryInv, LeftInOrder
  <2>3. Slot(c) # Slot(r) BY <2>1, SlotsDiffer
  <2> QED BY <1>9, <2>1, <2>2, <2>3
\* The log of the stream, before and after.
<1>14. Len(out[q]) \in Nat /\ Len(out[q]) + 1 = f
  <2>1. Len(out[q]) \in Nat BY StartType
  <2>2. Len(out[q]) + 1 = Start(q, r) + Sent(q, r)
    BY <1>1 DEF HistoryInv, LeftInOrder
  <2> QED BY <1>12, <2>1, <2>2
<1>15. \A k \in 1 .. n : e[k].pkt = f + k - 1 /\ e[k].swaps = swaps[q][f + k - 1]
  BY DEF Leave
<1>16. e \in Seq([pkt : Nat, how : {"tx", "free"}, swaps : Nat]) /\ Len(e) = n
  <2>1. f + n <= b.first + b.nb_rx /\ b.first + b.nb_rx <= rxd[q] + 1
    BY <1>3, <1>12
  <2>2. f \in Nat /\ (n > 0 => f > 0 /\ f + n <= MaxPkts + 1)
    <3>1. f \in Nat /\ f > 0 BY <1>14
    <3>2. rxd[q] <= MaxPkts /\ rxd[q] \in Nat /\ MaxPkts \in Nat
      BY <1>3, PipelineAssumption
    <3>3. f + n <= rxd[q] + 1 BY <1>3, <2>1, <3>1, <3>2
    <3> HIDE DEF f
    <3> QED BY <3>1, <3>2, <3>3
  <2>3. TypeOK BY DEF IndInv
  <2>4. Len(e) = n BY DEF Leave
  <2> HIDE DEF f
  <2> QED BY <2>2, <2>3, <2>4, LeaveType
<1> HIDE DEF e, f
<1>17. out'[q] = out[q] \o e BY <1>c DEF e, f
<1>18. /\ Len(out'[q]) = Len(out[q]) + n
       /\ \A k \in 1 .. Len(out[q]) : out'[q][k] = out[q][k]
       /\ \A k \in Len(out[q]) + 1 .. Len(out[q]) + n :
            out'[q][k] = e[k - Len(out[q])]
  <2> DEFINE R == [pkt : Nat, how : {"tx", "free"}, swaps : Nat]
             o == out[q]
  <2>1. o \in Seq(R) /\ e \in Seq(R) /\ Len(e) = n
    BY <1>16 DEF IndInv, TypeOK, OutType
  <2>2. out'[q] = o \o e /\ Len(o) \in Nat BY <1>14, <1>17
  <2> HIDE DEF R, o
  <2>3. /\ Len(out'[q]) = Len(o) + n
        /\ \A k \in 1 .. Len(o) + n :
             out'[q][k] = IF k <= Len(o) THEN o[k] ELSE e[k - Len(o)]
    <3>1. /\ Len(o \o e) = Len(o) + Len(e)
          /\ \A i \in 1 .. Len(o) + Len(e) :
               (o \o e)[i] = IF i <= Len(o) THEN o[i] ELSE e[i - Len(o)]
      BY <2>1, ConcatProperties, Zenon
    <3> QED BY <2>1, <2>2, <3>1, Zenon
  <2>4. /\ \A k \in 1 .. Len(o) : k \in 1 .. Len(o) + n /\ k <= Len(o)
        /\ \A k \in Len(o) + 1 .. Len(o) + n :
             k \in 1 .. Len(o) + n /\ ~(k <= Len(o))
    BY <2>2
  <2>5. /\ Len(out'[q]) = Len(o) + n
        /\ \A k \in 1 .. Len(o) : out'[q][k] = o[k]
        /\ \A k \in Len(o) + 1 .. Len(o) + n : out'[q][k] = e[k - Len(o)]
    BY <2>3, <2>4, Zenon
  <2> QED BY <2>5 DEF o
<1>19. LeftInOrder'
  <2> SUFFICES ASSUME NEW q2 \in Queues
               PROVE
        /\ Len(out'[q2]) + 1 = Start(q2, At(q2))' + Sent(q2, At(q2))'
        /\ \A c \in At(q2)' + 1 .. Top(q2)' - 1 : (BatchAt(q2, c)').tx_sent = 0
    BY DEF LeftInOrder
  <2>1. /\ Len(out[q2]) + 1 = Start(q2, At(q2)) + Sent(q2, At(q2))
        /\ \A c \in At(q2) + 1 .. Top(q2) - 1 : BatchAt(q2, c).tx_sent = 0
    BY DEF HistoryInv, LeftInOrder
  <2>2. At(q2) \in Nat /\ Top(q2) \in Nat BY Places
  <2>3. CASE q2 # q
    <3>1. At(q2)' = At(q2) /\ Top(q2)' = Top(q2) /\ out'[q2] = out[q2]
      BY <1>c, <1>5, <1>6, <2>3
    <3>2. \A c \in Nat : /\ BatchAt(q2, c)' = BatchAt(q2, c)
                         /\ Start(q2, c)' = Start(q2, c)
      BY <1>9, <1>10, <2>3
    <3>3. \A c \in Nat : Sent(q2, c)' = Sent(q2, c) BY <3>1, <3>2 DEF Sent
    <3>4. \A c \in At(q2) + 1 .. Top(q2) - 1 : c \in Nat BY <2>2
    <3> QED BY <2>1, <2>2, <3>1, <3>2, <3>3, <3>4
  <2>4. CASE q2 = q
    <3>1. Len(out'[q]) + 1 = f + n BY <1>14, <1>18
    <3>2. /\ Start(q, r)' = b.first /\ Start(q, r + 1)' = b.first + b.nb_rx
          /\ r + 1 \in Nat
      BY <1>10, <1>12
    <3>3. Sent(q, r)' = b.tx_sent + n
      <4>1. BatchAt(q, r)' = b2 BY <1>b DEF BatchAt
      <4>2. r # Top(q)' BY <1>2, <1>5
      <4> QED BY <1>a, <4>1, <4>2 DEF Sent
    <3>4. Sent(q, r + 1)' = 0
      <4>1. r + 1 # Top(q) => r + 1 \in r + 1 .. Top(q) - 1 BY <1>2
      <4> QED BY <1>5, <1>13, <4>1 DEF Sent
    <3>5. Len(out'[q]) + 1 = Start(q, At(q))' + Sent(q, At(q))'
      <4>1. CASE r2 = r
        BY <1>3, <1>7, <3>1, <3>2, <3>3, <4>1 DEF f
      <4>2. CASE r2 = r + 1 /\ n = b.nb_rx - b.tx_sent
        BY <1>3, <1>7, <3>1, <3>2, <3>4, <4>2 DEF f
      <4> QED BY <1>a, <4>1, <4>2
    <3>6. \A c \in r2 + 1 .. Top(q) - 1 : c \in r + 1 .. Top(q) - 1
      BY <1>a, <1>2
    <3> QED BY <1>5, <1>7, <1>13, <2>4, <3>5, <3>6
  <2> QED BY <2>3, <2>4
<1>20. SwappedSoFar'
  <2>1. \A q2 \in Queues : Start(q2, Done(q2))' = Start(q2, Done(q2))
    BY <1>5, <1>10, Places
  <2> QED BY <1>d, <2>1 DEF HistoryInv, SwappedSoFar
<1>21. ASSUME NEW q2 \in Queues, NEW k \in 1 .. Len(out'[q2])
       PROVE  out'[q2][k].pkt = k /\ out'[q2][k].swaps = 1
  <2>1. \A j \in 1 .. Len(out[q2]) : out[q2][j].pkt = j /\ out[q2][j].swaps = 1
    BY DEF HistoryInv, InOrderOnce, SwappedOnce
  <2>2. CASE q2 # q BY <1>c, <1>21, <2>1, <2>2
  <2>3. CASE q2 = q /\ k \in 1 .. Len(out[q])
    BY <1>18, <2>1, <2>3
  <2>4. CASE q2 = q /\ ~(k \in 1 .. Len(out[q]))
    <3> DEFINE j == k - Len(out[q])
    <3>1. /\ k \in Nat /\ j \in 1 .. n /\ f + j - 1 = k
          /\ k \in Len(out[q]) + 1 .. Len(out[q]) + n
      <4>1. Len(out'[q]) = Len(out[q]) + n /\ k \in 1 .. Len(out'[q])
        BY <1>18, <1>21, <2>4
      <4> DEFINE m == Len(out[q])
      <4>2. /\ m \in Nat /\ m + 1 = f /\ k \in 1 .. m + n /\ ~(k \in 1 .. m)
            /\ j = k - m
        BY <1>14, <2>4, <4>1
      <4> HIDE DEF m, j
      <4>3. k \in Nat /\ j \in 1 .. n /\ f + j - 1 = k /\ k \in m + 1 .. m + n
        BY <4>2
      <4> QED BY <4>3 DEF m
    <3>2. out'[q][k].pkt = k /\ out'[q][k].swaps = swaps[q][k]
      BY <1>15, <1>18, <3>1
    <3>3. k < b.first + b.nb_rx BY <1>3, <3>1, SMTT(30) DEF f
    <3>4. k < Start(q, Done(q)) /\ k <= rxd[q] /\ k >= 1
      <4>1. Start(q, Done(q)) \in Nat BY <1>2, StartType
      <4> QED BY <1>3, <1>12, <3>1, <3>3, <4>1, <1>21, SMTT(30)
    <3>5. k \in Pkts BY <1>3, <3>1, <3>4, PipelineAssumption
    <3> QED BY <2>4, <3>2, <3>4, <3>5 DEF HistoryInv, SwappedSoFar
  <2> QED BY <2>2, <2>3, <2>4
<1>22. HeldCounted'
  <2> SUFFICES ASSUME NEW q2 \in Queues
               PROVE  rxd'[q2] - Len(out'[q2]) =
                        stats'[q2].rx - stats'[q2].tx - stats'[q2].dropped
    BY DEF HeldCounted
  <2>1. /\ rxd[q2] - Len(out[q2]) =
             stats[q2].rx - stats[q2].tx - stats[q2].dropped
        /\ rxd[q2] \in Nat
    BY BatchFields DEF HistoryInv, HeldCounted
  <2>2. /\ stats[q] \in [rx : Nat, tx : Nat, dropped : Nat]
        /\ stats'[q] \in [rx : Nat, tx : Nat, dropped : Nat]
    BY DEF IndInv, TypeOK, StatsType
  <2>3. CASE q2 # q BY <1>c, <1>d, <2>1, <2>3
  <2>4. CASE q2 = q
    <3>1. /\ stats[q].rx \in Nat /\ stats[q].tx \in Nat /\ stats[q].dropped \in Nat
          /\ stats'[q].tx \in Nat /\ stats'[q].dropped \in Nat
      BY <2>2
    <3>2. /\ stats'[q].rx = stats[q].rx /\ rxd' = rxd
          /\ stats'[q].tx + stats'[q].dropped = stats[q].tx + stats[q].dropped + n
          /\ Len(out'[q]) = Len(out[q]) + n
          /\ rxd[q] - Len(out[q]) = stats[q].rx - stats[q].tx - stats[q].dropped
          /\ rxd[q] \in Nat
      BY <1>c, <1>d, <1>18, <2>1, <2>4
    <3>3. rxd'[q] - Len(out'[q]) =
            stats'[q].rx - stats'[q].tx - stats'[q].dropped
      <4> DEFINE m == Len(out[q])  m2 == Len(out'[q])
      <4>1. m \in Nat /\ m2 = m + n BY <1>14, <3>2
      <4>2. rxd[q] - m = stats[q].rx - stats[q].tx - stats[q].dropped BY <3>2
      <4> HIDE DEF m, m2
      <4>3. rxd'[q] - m2 = stats'[q].rx - stats'[q].tx - stats'[q].dropped
        <5>1. rxd[q] - (m + n) = stats[q].rx - stats'[q].tx - stats'[q].dropped
          <6> DEFINE rx == stats[q].rx   tx == stats[q].tx
                     d == stats[q].dropped   tx2 == stats'[q].tx
                     d2 == stats'[q].dropped   a == rxd[q]
          <6>1. /\ rx \in Nat /\ tx \in Nat /\ d \in Nat /\ tx2 \in Nat
                /\ d2 \in Nat /\ a \in Nat /\ m \in Nat
                /\ a - m = rx - tx - d /\ tx2 + d2 = tx + d + n
            BY <3>1, <3>2, <4>1, <4>2
          <6> HIDE DEF rx, tx, d, tx2, d2, a
          <6>2. a - (m + n) = rx - tx2 - d2 BY <6>1, Accounted, SMTT(30)
          <6> QED BY <6>2 DEF rx, tx2, d2, a
        <5> QED BY <3>2, <4>1, <5>1
      <4> QED BY <4>3 DEF m2
    <3> QED BY <2>4, <3>3
  <2> QED BY <2>3, <2>4
<1>23. IdleEmpty'
  <2>1. pc'["main"] # "idle" BY <1>e, DrainerAlone
  <2> QED BY <2>1 DEF IdleEmpty
<1>24. InOrderOnce' /\ SwappedOnce' BY <1>21 DEF InOrderOnce, SwappedOnce
<1> QED BY <1>11, <1>19, <1>20, <1>22, <1>23, <1>24 DEF HistoryInv

\* n more packets counted as sent or dropped, and nothing else.
LEMMA LeftCounted ==
  ASSUME StatsType, NEW q \in Queues, NEW n \in Nat,
         \/ stats' = [stats EXCEPT ![q].tx = @ + n]
         \/ stats' = [stats EXCEPT ![q].dropped = @ + n]
  PROVE  /\ \A q2 \in Queues : q2 # q => stats'[q2] = stats[q2]
         /\ stats'[q].rx = stats[q].rx
         /\ stats'[q].tx + stats'[q].dropped = stats[q].tx + stats[q].dropped + n
<1> DEFINE T == [rx : Nat, tx : Nat, dropped : Nat]
           z == stats[q]
<1>1. stats \in [Queues -> T] /\ z \in T BY DEF StatsType
<1>2. z.rx \in Nat /\ z.tx \in Nat /\ z.dropped \in Nat BY <1>1
<1>3. PICK y \in T : /\ stats' = [stats EXCEPT ![q] = y]
                     /\ y.rx = z.rx /\ y.tx + y.dropped = z.tx + z.dropped + n
  <2>1. CASE stats' = [stats EXCEPT ![q].tx = @ + n]
    <3> DEFINE y == [z EXCEPT !.tx = @ + n]
    <3>1. y \in T /\ y.rx = z.rx /\ y.tx = z.tx + n /\ y.dropped = z.dropped
      BY <1>1
    <3>2. stats' = [stats EXCEPT ![q] = y] BY <2>1
    <3> HIDE DEF y, z
    <3>3. y.tx + y.dropped = z.tx + z.dropped + n BY <1>2, <3>1
    <3> QED BY <3>1, <3>2, <3>3
  <2>2. CASE stats' = [stats EXCEPT ![q].dropped = @ + n]
    <3> DEFINE y == [z EXCEPT !.dropped = @ + n]
    <3>1. y \in T /\ y.rx = z.rx /\ y.tx = z.tx /\ y.dropped = z.dropped + n
      BY <1>1
    <3>2. stats' = [stats EXCEPT ![q] = y] BY <2>2
    <3> HIDE DEF y, z
    <3>3. y.tx + y.dropped = z.tx + z.dropped + n BY <1>2, <3>1
    <3> QED BY <3>1, <3>2, <3>3
  <2> QED BY <2>1, <2>2
<1> HIDE DEF T
<1>4. stats'[q] = y /\ \A q2 \in Queues : q2 # q => stats'[q2] = stats[q2]
  BY <1>1, <1>3
<1> QED BY <1>3, <1>4

LEMMA TxBurstHist ==
  ASSUME IndInv, IndInv', HistoryInv, NEW p \in Drainers, TxBurst(p)
  PROVE  HistoryInv'
<1> DEFINE q == cur[p]
           r == rec[p]
           b == BatchAt(q, r)
           left == b.nb_rx - b.tx_sent
           s == Slot(r)
<1>1. pc[p] = "tx" BY DEF TxBurst
<1>2. PICK n \in 0 .. left :
        /\ slots' = [slots EXCEPT ![q][s].tx_sent = @ + n]
        /\ out' = [out EXCEPT ![q] =
                     @ \o Leave(q, b.first + b.tx_sent, n, "tx")]
        /\ stats' = [stats EXCEPT ![q].tx = @ + n]
        /\ IF n = left
           THEN NextBatch(p)
           ELSE /\ IF RetryEnabled /\ retry[p] < burst_tx_retry_num
                   THEN /\ retry' = [retry EXCEPT ![p] = @ + 1]
                        /\ UNCHANGED pc
                   ELSE GoTo(p, "drop") /\ UNCHANGED retry
                /\ UNCHANGED rec
  BY DEF TxBurst
<1>3. /\ submitted' = submitted /\ completed' = completed
      /\ reclaimed' = reclaimed /\ cur' = cur /\ rxd' = rxd /\ swaps' = swaps
  BY DEF TxBurst
<1>4. q \in Queues /\ r \in Nat /\ com[p] \in Nat /\ s \in 0 .. DEPTH - 1
  BY SlotType DEF IndInv, TypeOK, LocalType
<1>5. /\ b \in Batch /\ b.first \in Nat /\ b.nb_rx \in Nat /\ b.tx_sent \in Nat
      /\ b.tx_sent <= b.nb_rx
  BY <1>4, BatchFields
<1>6. n \in Nat /\ n <= left BY <1>5
<1> DEFINE b2 == [b EXCEPT !.tx_sent = @ + n]
<1>7. /\ b2 \in Batch /\ b2.first = b.first /\ b2.nb_rx = b.nb_rx
      /\ b2.tx_sent = b.tx_sent + n
  BY <1>5, <1>6 DEF Batch
<1>8. SlotsType /\ OutType /\ StatsType /\ PcType /\ LocalType
  BY DEF IndInv, TypeOK
<1>9. slots' = [slots EXCEPT ![q][s] = b2]
  BY <1>2, <1>4, <1>8 DEF BatchAt, SlotsType
<1>10. PICK l \in {"tx", "drop", "store"}, r2 \in Nat :
         /\ pc' = [pc EXCEPT ![p] = l] /\ rec' = [rec EXCEPT ![p] = r2]
         /\ r2 = r \/ (r2 = r + 1 /\ n = left)
  <2>1. CASE n = left
    <3>1. NextBatch(p) BY <1>2, <2>1
    <3> DEFINE l == IF r + 1 # com[p] THEN "tx" ELSE "store"
    <3>2. pc' = [pc EXCEPT ![p] = l] /\ rec' = [rec EXCEPT ![p] = r + 1]
      BY <3>1 DEF NextBatch, GoTo
    <3>3. l \in {"tx", "drop", "store"} /\ r + 1 \in Nat BY <1>4
    <3> HIDE DEF l
    <3> QED BY <2>1, <3>2, <3>3
  <2>2. CASE n # left
    <3>1. rec' = rec /\ (pc' = pc \/ pc' = [pc EXCEPT ![p] = "drop"])
      BY <1>2, <2>2 DEF GoTo
    <3>2. rec' = [rec EXCEPT ![p] = r] BY <1>8, <3>1 DEF LocalType
    <3>3. pc' = [pc EXCEPT ![p] = "tx"] \/ pc' = [pc EXCEPT ![p] = "drop"]
      BY <1>1, <1>8, <3>1 DEF PcType
    <3> QED BY <1>4, <3>2, <3>3
  <2> QED BY <2>1, <2>2
<1>11. /\ pc'[p] = l /\ \A o \in Procs : o # p => pc'[o] = pc[o]
       /\ rec'[p] = r2 /\ \A o \in Drainers : o # p => rec'[o] = rec[o]
  BY <1>8, <1>10 DEF PcType, LocalType
<1>12. /\ out'[q] = out[q] \o Leave(q, b.first + b.tx_sent, n, "tx")
       /\ \A q2 \in Queues : q2 # q => out'[q2] = out[q2]
  BY <1>2, <1>4, <1>8 DEF OutType
<1>13. /\ \A q2 \in Queues : q2 # q => stats'[q2] = stats[q2]
       /\ stats'[q].rx = stats[q].rx
       /\ stats'[q].tx + stats'[q].dropped = stats[q].tx + stats[q].dropped + n
  BY <1>2, <1>4, <1>6, <1>8, LeftCounted
<1> HIDE DEF q, r, s, b2
<1>14. /\ slots'[q][s] = b2
       /\ \A q2 \in Queues : \A s2 \in 0 .. DEPTH - 1 :
            q2 # q \/ s2 # s => slots'[q2][s2] = slots[q2][s2]
  BY <1>4, <1>7, <1>8, <1>9, SlotUpdate, ZenonT(30)
<1>15. LeavesFrom(p, q, r, b, b2, n, "tx", l, r2)
  BY <1>3, <1>7, <1>10, <1>11, <1>12, <1>13, <1>14 DEF LeavesFrom, s
<1>16. q = cur[p] /\ r = rec[p] /\ pc[p] \in {"tx", "drop"} BY <1>1 DEF q, r
<1>17. b = BatchAt(q, r) /\ n <= b.nb_rx - b.tx_sent BY <1>6
<1> HIDE DEF b, left
<1> QED BY <1>4, <1>5, <1>6, <1>7, <1>15, <1>16, <1>17, LeavingInv

LEMMA TxDropHist ==
  ASSUME IndInv, IndInv', HistoryInv, NEW p \in Drainers, TxDrop(p)
  PROVE  HistoryInv'
<1> DEFINE q == cur[p]
           r == rec[p]
           b == BatchAt(q, r)
           n == b.nb_rx - b.tx_sent
           s == Slot(r)
           b2 == [b EXCEPT !.tx_sent = b.nb_rx]
           l == IF r + 1 # com[p] THEN "tx" ELSE "store"
           r2 == r + 1
<1>1. /\ pc[p] = "drop"
      /\ slots' = [slots EXCEPT ![q][s].tx_sent = b.nb_rx]
      /\ out' = [out EXCEPT ![q] =
                   @ \o Leave(q, b.first + b.tx_sent, n, "free")]
      /\ stats' = [stats EXCEPT ![q].dropped = @ + n]
      /\ pc' = [pc EXCEPT ![p] = l] /\ rec' = [rec EXCEPT ![p] = r2]
  BY DEF TxDrop, NextBatch, GoTo
<1>3. /\ submitted' = submitted /\ completed' = completed
      /\ reclaimed' = reclaimed /\ cur' = cur /\ rxd' = rxd /\ swaps' = swaps
  BY DEF TxDrop
<1>4. q \in Queues /\ r \in Nat /\ com[p] \in Nat /\ s \in 0 .. DEPTH - 1
  BY SlotType DEF IndInv, TypeOK, LocalType
<1>5. /\ b \in Batch /\ b.first \in Nat /\ b.nb_rx \in Nat /\ b.tx_sent \in Nat
      /\ b.tx_sent <= b.nb_rx
  BY <1>4, BatchFields
<1>6. n \in Nat /\ n <= b.nb_rx - b.tx_sent BY <1>5
<1>7. /\ b2 \in Batch /\ b2.first = b.first /\ b2.nb_rx = b.nb_rx
      /\ b2.tx_sent = b.tx_sent + n
  BY <1>5 DEF Batch
<1>8. SlotsType /\ OutType /\ StatsType /\ PcType /\ LocalType
  BY DEF IndInv, TypeOK
<1>9. slots' = [slots EXCEPT ![q][s] = b2]
  BY <1>1, <1>4, <1>8 DEF BatchAt, SlotsType
<1>10. l \in {"tx", "drop", "store"} /\ r2 \in Nat BY <1>4
<1> HIDE DEF l, r2, n
<1>11. /\ pc'[p] = l /\ \A o \in Procs : o # p => pc'[o] = pc[o]
       /\ rec'[p] = r2 /\ \A o \in Drainers : o # p => rec'[o] = rec[o]
  BY <1>1, <1>8 DEF PcType, LocalType
<1>12. /\ out'[q] = out[q] \o Leave(q, b.first + b.tx_sent, n, "free")
       /\ \A q2 \in Queues : q2 # q => out'[q2] = out[q2]
  BY <1>1, <1>4, <1>8 DEF OutType
<1>13. /\ \A q2 \in Queues : q2 # q => stats'[q2] = stats[q2]
       /\ stats'[q].rx = stats[q].rx
       /\ stats'[q].tx + stats'[q].dropped = stats[q].tx + stats[q].dropped + n
  BY <1>1, <1>4, <1>6, <1>8, LeftCounted
<1>14. r2 = r + 1 /\ n = b.nb_rx - b.tx_sent BY DEF r2, n
<1> HIDE DEF q, r, s, b2
<1>15. /\ slots'[q][s] = b2
       /\ \A q2 \in Queues : \A s2 \in 0 .. DEPTH - 1 :
            q2 # q \/ s2 # s => slots'[q2][s2] = slots[q2][s2]
  BY <1>4, <1>7, <1>8, <1>9, SlotUpdate, ZenonT(30)
<1>16. LeavesFrom(p, q, r, b, b2, n, "free", l, r2)
  BY <1>3, <1>7, <1>11, <1>12, <1>13, <1>14, <1>15 DEF LeavesFrom, s
<1>17. q = cur[p] /\ r = rec[p] /\ pc[p] \in {"tx", "drop"} BY <1>1 DEF q, r
<1>18. b = BatchAt(q, r) OBVIOUS
<1> HIDE DEF b
<1> QED BY <1>4, <1>5, <1>6, <1>7, <1>10, <1>16, <1>17, <1>18, LeavingInv

-----------------------------------------------------------------------------
(* Packets come in, and are swapped.                                        *)

\* n packets received are counted.
LEMMA ReceivedCounted ==
  ASSUME NEW a \in Nat, NEW m \in Nat, NEW n \in Nat, NEW rx \in Nat,
         NEW tx \in Nat, NEW d \in Nat, a - m = rx - tx - d
  PROVE  (a + n) - m = (rx + n) - tx - d
OBVIOUS

\* A burst is received: one more batch, behind all the others.
LEMMA FwdRxInto ==
  ASSUME IndInv, IndInv', HistoryInv, FwdRx,
         NEW q \in Queues, q = cur["fwd"], NEW t \in Nat, t = submitted[q]
  PROVE  HistoryInv'
<1>1. /\ pc["fwd"] = "rx" /\ q \in Queues
      /\ PcType /\ SlotsType /\ StatsType
  BY DEF FwdRx, IndInv, TypeOK, LocalType
<1>2. PICK n \in 0 .. nb_pkt_per_burst :
        /\ rxd[q] + n <= MaxPkts
        /\ IF n = 0
           THEN GoTo("fwd", "drain") /\ UNCHANGED <<slots, rxd, stats>>
           ELSE /\ slots' = [slots EXCEPT ![q][Slot(t)] =
                               NewBatch(@, rxd[q] + 1, n)]
                /\ rxd' = [rxd EXCEPT ![q] = @ + n]
                /\ stats' = [stats EXCEPT ![q].rx = @ + n]
                /\ GoTo("fwd", "publish")
  BY DEF FwdRx
<1>3. /\ submitted' = submitted /\ completed' = completed
      /\ reclaimed' = reclaimed /\ cur' = cur /\ rec' = rec /\ swaps' = swaps
      /\ out' = out
  BY DEF FwdRx
<1>4. PICK l \in {"drain", "publish"} :
        pc' = [pc EXCEPT !["fwd"] = l] /\ l = IF n = 0 THEN "drain" ELSE "publish"
  BY <1>2 DEF GoTo
<1>5. pc'["fwd"] = l /\ pc'["wk"] = pc["wk"] /\ pc'["main"] = pc["main"]
  BY <1>1, <1>4 DEF PcType
<1>6. /\ \A q2 \in Queues : /\ At(q2)' = At(q2) /\ Done(q2)' = Done(q2)
                            /\ q2 # q => Top(q2)' = Top(q2)
      /\ Top(q) = t /\ Top(q)' = IF n = 0 THEN t ELSE t + 1
  BY <1>1, <1>3, <1>4, <1>5 DEF At, Draining, Done, Top
<1>7. IdleEmpty' BY <1>3, <1>5 DEF HistoryInv, IdleEmpty
<1>8. CASE n = 0
  <2>1. HeldCounted' BY <1>2, <1>3, <1>8 DEF HistoryInv, HeldCounted
  <2>2. \A q2 \in Queues : reclaimed[q2] <= reclaimed'[q2]
    BY <1>3, Places
  <2>3. UNCHANGED <<slots, rxd, swaps, out>> BY <1>2, <1>3, <1>8
  <2>4. \A q2 \in Queues : Top(q2)' = Top(q2) BY <1>6, <1>8
  <2> QED BY <1>6, <1>7, <2>1, <2>2, <2>3, <2>4, StillInv
<1>9. CASE n # 0
  <2> DEFINE b == NewBatch(slots[q][Slot(t)], rxd[q] + 1, n)
  <2>1. /\ t \in Nat /\ reclaimed[q] \in Nat /\ reclaimed[q] <= At(q)
        /\ At(q) \in Nat /\ At(q) <= Done(q) /\ Done(q) <= t /\ Done(q) \in Nat
        /\ t < reclaimed[q] + DEPTH
        /\ rxd[q] \in Nat /\ n \in Nat /\ n > 0
        /\ rxd \in [Queues -> 0 .. MaxPkts]
    <3>1. t < reclaimed[q] + DEPTH BY <1>1 DEF IndInv, FwdLocals
    <3>2. rxd \in [Queues -> 0 .. MaxPkts] BY DEF IndInv, TypeOK, RxType
    <3>3. rxd[q] \in Nat BY <1>1, <3>2, PipelineAssumption
    <3>4. n \in Nat /\ n > 0 BY <1>9, PipelineAssumption
    <3>5. /\ t \in Nat /\ reclaimed[q] \in Nat /\ reclaimed[q] <= At(q)
          /\ At(q) \in Nat /\ completed[q] \in Nat /\ At(q) <= completed[q]
          /\ completed[q] <= Done(q) /\ Done(q) <= t /\ Done(q) \in Nat
      BY <1>1, Places
    <3> QED BY <3>1, <3>2, <3>3, <3>4, <3>5
  <2>2. b \in Batch /\ b.first = rxd[q] + 1 /\ b.nb_rx = n /\ b.tx_sent = 0
    BY <2>1 DEF NewBatch, Batch
  <2>3. Slot(t) \in 0 .. DEPTH - 1 BY <2>1, SlotType
  <2>4. slots' = [slots EXCEPT ![q][Slot(t)] = b]
    BY <1>1, <1>2, <1>9, <2>3 DEF SlotsType
  <2> HIDE DEF b
  <2>5. /\ slots'[q][Slot(t)] = b
        /\ \A q2 \in Queues : \A s2 \in 0 .. DEPTH - 1 :
             q2 # q \/ s2 # Slot(t) => slots'[q2][s2] = slots[q2][s2]
    <3> DEFINE s == Slot(t)
    <3>1. s \in 0 .. DEPTH - 1 /\ slots' = [slots EXCEPT ![q][s] = b]
      BY <2>3, <2>4
    <3>2. SlotsType /\ b \in Batch BY <1>1, <2>2
    <3> HIDE DEF s
    <3>3. /\ slots'[q][s] = b
          /\ \A q2 \in Queues : \A s2 \in 0 .. DEPTH - 1 :
               q2 # q \/ s2 # s => slots'[q2][s2] = slots[q2][s2]
      <4>1. q \in Queues /\ s \in 0 .. DEPTH - 1 /\ b \in Batch /\ SlotsType
        BY <3>1, <3>2
      <4>2. slots' = [slots EXCEPT ![q][s] = b] BY <3>1
      <4> DEFINE row == [slots[q] EXCEPT ![s] = b]
      <4>3. slots \in [Queues -> [0 .. DEPTH - 1 -> Batch]]
        BY <4>1 DEF SlotsType
      <4>4. slots' = [slots EXCEPT ![q] = row] BY <4>2
      <4>5. row[s] = b /\ \A s2 \in 0 .. DEPTH - 1 : s2 # s => row[s2] = slots[q][s2]
        BY <4>1, <4>3
      <4> HIDE DEF row
      <4>6. slots'[q] = row /\ \A q2 \in Queues : q2 # q => slots'[q2] = slots[q2]
        BY <4>1, <4>3, <4>4
      <4> QED BY <4>5, <4>6
    <3> QED BY <3>3 DEF s
  <2>6. /\ rxd'[q] = rxd[q] + n
        /\ \A q2 \in Queues : q2 # q => rxd'[q2] = rxd[q2]
    BY <1>1, <1>2, <1>9, <2>1
  \* Nothing of another stream changes, and nothing of the older batches.
  <2>7. \A q2 \in Queues : q2 # q => \A c \in Nat :
          BatchAt(q2, c)' = BatchAt(q2, c) /\ Start(q2, c)' = Start(q2, c)
          /\ Sent(q2, c)' = Sent(q2, c)
    <3>1. \A q2 \in Queues : q2 # q => \A c \in Nat :
            BatchAt(q2, c)' = BatchAt(q2, c)
      BY <2>5, SlotType DEF BatchAt
    <3> QED BY <1>6, <2>6, <3>1 DEF Start, Sent
  <2>8. \A c \in reclaimed[q] .. t - 1 :
          /\ c \in Nat /\ BatchAt(q, c)' = BatchAt(q, c)
          /\ Start(q, c)' = Start(q, c) /\ Sent(q, c)' = Sent(q, c)
    <3> SUFFICES ASSUME NEW c \in reclaimed[q] .. t - 1
                 PROVE  /\ c \in Nat /\ BatchAt(q, c)' = BatchAt(q, c)
                        /\ Start(q, c)' = Start(q, c) /\ Sent(q, c)' = Sent(q, c)
      OBVIOUS
    <3>1. c \in Nat /\ c < t /\ t < c + DEPTH /\ c # t + 1
      <4> DEFINE lo == reclaimed[q]
      <4>1. lo \in Nat /\ t \in Nat /\ t < lo + DEPTH /\ c \in lo .. t - 1
        BY <2>1
      <4> HIDE DEF lo
      <4> QED BY <4>1, PipelineAssumption
    <3>2. Slot(c) # Slot(t) BY <2>1, <3>1, SlotsDiffer
    <3>3. BatchAt(q, c)' = BatchAt(q, c)
      BY <1>1, <2>5, <3>1, <3>2, SlotType DEF BatchAt
    <3>4. Top(q) = t /\ Top(q)' = t + 1 BY <1>6, <1>9
    <3> QED BY <2>1, <3>1, <3>3, <3>4 DEF Start, Sent
  <2>9. /\ BatchAt(q, t)' = b
        /\ Start(q, t) = rxd[q] + 1 /\ Start(q, t)' = rxd[q] + 1
        /\ Sent(q, t) = 0 /\ Sent(q, t)' = 0
        /\ Start(q, t + 1)' = rxd[q] + n + 1
        /\ Top(q) = t /\ Top(q)' = t + 1
    <3>1. BatchAt(q, t)' = b BY <2>5 DEF BatchAt
    <3>2. Top(q) = t /\ Top(q)' = t + 1 BY <1>6, <1>9
    <3>3. t # t + 1 BY <2>1
    <3>4. rxd[q] + n + 1 = rxd'[q] + 1 BY <2>6
    <3> QED BY <2>2, <3>1, <3>2, <3>3, <3>4 DEF Start, Sent
  <2>10. /\ \A c \in reclaimed[q] .. t - 1 :
              Start(q, c) + BatchAt(q, c).nb_rx = Start(q, c + 1)
         /\ \A c, d \in reclaimed[q] .. t : c <= d => Start(q, c) <= Start(q, d)
    BY <1>1, <2>9 DEF HistoryInv, BatchesFollow
  <2>11. \A c \in reclaimed[q] .. t : /\ Start(q, c)' = Start(q, c)
                                      /\ Sent(q, c)' = Sent(q, c)
                                      /\ Start(q, c) \in Nat
                                      /\ Start(q, c) <= rxd[q] + 1
    <3> SUFFICES ASSUME NEW c \in reclaimed[q] .. t
                 PROVE  /\ Start(q, c)' = Start(q, c)
                        /\ Sent(q, c)' = Sent(q, c)
                        /\ Start(q, c) \in Nat
                        /\ Start(q, c) <= rxd[q] + 1
      OBVIOUS
    <3>1. c \in Nat /\ c <= t /\ t \in reclaimed[q] .. t BY <2>1
    <3>2. Start(q, c) \in Nat BY <1>1, <3>1, StartType
    <3>3. Start(q, c) <= rxd[q] + 1 BY <2>9, <2>10, <3>1
    <3>4. CASE c = t BY <2>9, <3>2, <3>3, <3>4
    <3>5. CASE c # t
      <4>1. c \in reclaimed[q] .. t - 1 BY <2>1, <3>1, <3>5
      <4> QED BY <2>8, <3>2, <3>3, <4>1
    <3> QED BY <3>4, <3>5
  <2>12. BatchesFollow'
    <3> SUFFICES ASSUME NEW q2 \in Queues
                 PROVE
          /\ \A c \in reclaimed'[q2] .. Top(q2)' - 1 :
               Start(q2, c)' + (BatchAt(q2, c)').nb_rx = Start(q2, c + 1)'
          /\ \A c, d \in reclaimed'[q2] .. Top(q2)' :
               c <= d => Start(q2, c)' <= Start(q2, d)'
      BY DEF BatchesFollow
    <3>1. CASE q2 # q
      <4>1. reclaimed[q2] \in Nat /\ Top(q2) \in Nat BY Places
      <4>2. \A c \in reclaimed[q2] .. Top(q2) : c \in Nat /\ c + 1 \in Nat
        BY <4>1
      <4>3. \A c \in reclaimed[q2] .. Top(q2) - 1 : c \in Nat /\ c + 1 \in Nat
        BY <4>1
      <4>4. Top(q2)' = Top(q2) BY <1>6, <3>1
      <4> QED BY <1>3, <2>7, <3>1, <4>2, <4>3, <4>4 DEF HistoryInv, BatchesFollow
    <3>2. CASE q2 = q
      <4>1. ASSUME NEW c \in reclaimed[q] .. t
            PROVE  Start(q, c)' + (BatchAt(q, c)').nb_rx = Start(q, c + 1)'
        <5>1. CASE c = t
          <6>1. Start(q, c)' = rxd[q] + 1 /\ (BatchAt(q, c)').nb_rx = n
                /\ Start(q, c + 1)' = rxd[q] + n + 1
            BY <2>2, <2>9, <5>1
          <6>2. (rxd[q] + 1) + n = rxd[q] + n + 1 BY <2>1
          <6> QED BY <6>1, <6>2
        <5>2. CASE c # t
          <6>1. c \in reclaimed[q] .. t - 1 /\ c + 1 \in reclaimed[q] .. t
            BY <2>1, <5>2
          <6> QED BY <2>8, <2>10, <2>11, <6>1
        <5> QED BY <5>1, <5>2
      <4>2. ASSUME NEW c \in reclaimed[q] .. t + 1, NEW d \in reclaimed[q] .. t + 1,
                   c <= d
            PROVE  Start(q, c)' <= Start(q, d)'
        <5>1. CASE d # t + 1
          <6>1. c \in reclaimed[q] .. t /\ d \in reclaimed[q] .. t
            BY <2>1, <4>2, <5>1
          <6> QED BY <2>10, <2>11, <4>2, <6>1
        <5>2. CASE d = t + 1 /\ c # t + 1
          <6>1. c \in reclaimed[q] .. t BY <2>1, <4>2, <5>2
          <6>2. Start(q, c)' \in Nat /\ Start(q, c)' <= rxd[q] + 1
            BY <2>11, <6>1
          <6> QED BY <2>1, <2>9, <5>2, <6>2
        <5>3. CASE d = t + 1 /\ c = t + 1 BY <2>1, <2>9, <5>3
        <5> QED BY <5>1, <5>2, <5>3
      <4>3. (t + 1) - 1 = t BY <2>1
      <4> QED BY <1>3, <2>9, <3>2, <4>1, <4>2, <4>3
    <3> QED BY <3>1, <3>2
  <2>13. LeftInOrder'
    <3> SUFFICES ASSUME NEW q2 \in Queues
                 PROVE
          /\ Len(out'[q2]) + 1 = Start(q2, At(q2))' + Sent(q2, At(q2))'
          /\ \A c \in At(q2)' + 1 .. Top(q2)' - 1 : (BatchAt(q2, c)').tx_sent = 0
      BY DEF LeftInOrder
    <3>1. /\ Len(out[q2]) + 1 = Start(q2, At(q2)) + Sent(q2, At(q2))
          /\ \A c \in At(q2) + 1 .. Top(q2) - 1 : BatchAt(q2, c).tx_sent = 0
          /\ At(q2) \in Nat /\ Top(q2) \in Nat
      BY Places DEF HistoryInv, LeftInOrder
    <3>2. CASE q2 # q
      <4>1. \A c \in At(q2) + 1 .. Top(q2) - 1 : c \in Nat BY <3>1
      <4>2. Top(q2)' = Top(q2) /\ At(q2)' = At(q2) BY <1>6, <3>2
      <4> QED BY <1>3, <2>7, <3>1, <3>2, <4>1, <4>2
    <3>3. CASE q2 = q
      <4>1. At(q) \in reclaimed[q] .. t BY <2>1
      <4>2. Len(out'[q]) + 1 = Start(q, At(q))' + Sent(q, At(q))'
        BY <1>3, <1>6, <2>11, <3>1, <3>3, <4>1
      <4>3. ASSUME NEW c \in At(q) + 1 .. t PROVE (BatchAt(q, c)').tx_sent = 0
        <5>1. CASE c = t BY <2>2, <2>9, <5>1
        <5>2. CASE c # t
          <6>1. c \in At(q) + 1 .. t - 1 /\ c \in reclaimed[q] .. t - 1
            BY <2>1, <5>2
          <6> QED BY <2>8, <2>9, <3>1, <3>3, <6>1
        <5> QED BY <5>1, <5>2
      <4>4. (t + 1) - 1 = t BY <2>1
      <4> QED BY <1>1, <1>6, <2>9, <3>3, <4>2, <4>3, <4>4
    <3> QED BY <3>2, <3>3
  <2>14. SwappedSoFar'
    <3>1. ASSUME NEW q2 \in Queues
          PROVE  Start(q2, Done(q2))' = Start(q2, Done(q2))
      <4>1. Done(q2) \in Nat /\ Done(q2)' = Done(q2) BY <1>6, Places
      <4>2. CASE q2 # q BY <2>7, <4>1, <4>2
      <4>3. CASE q2 = q
        <5>1. Done(q) \in reclaimed[q] .. t BY <2>1
        <5> QED BY <2>11, <4>1, <4>3, <5>1
      <4> QED BY <4>2, <4>3
    <3> QED BY <1>3, <3>1 DEF HistoryInv, SwappedSoFar
  <2>15. HeldCounted'
    <3>1. /\ stats'[q].rx = stats[q].rx + n /\ stats'[q].tx = stats[q].tx
          /\ stats'[q].dropped = stats[q].dropped
          /\ \A q2 \in Queues : q2 # q => stats'[q2] = stats[q2]
      <4> DEFINE T == [rx : Nat, tx : Nat, dropped : Nat]
                 y == [stats[q] EXCEPT !.rx = @ + n]
      <4>1. stats \in [Queues -> T] /\ stats[q] \in T BY <1>1 DEF StatsType
      <4>2. stats' = [stats EXCEPT ![q] = y] BY <1>2, <1>9
      <4>3. /\ y.rx = stats[q].rx + n /\ y.tx = stats[q].tx
            /\ y.dropped = stats[q].dropped
        BY <4>1
      <4> HIDE DEF T, y
      <4>4. stats'[q] = y /\ \A q2 \in Queues : q2 # q => stats'[q2] = stats[q2]
        BY <1>1, <4>1, <4>2
      <4> QED BY <4>3, <4>4
    <3> SUFFICES ASSUME NEW q2 \in Queues
                 PROVE  rxd'[q2] - Len(out'[q2]) =
                          stats'[q2].rx - stats'[q2].tx - stats'[q2].dropped
      BY DEF HeldCounted
    <3>2. /\ rxd[q2] - Len(out[q2]) =
               stats[q2].rx - stats[q2].tx - stats[q2].dropped
          /\ stats[q2] \in [rx : Nat, tx : Nat, dropped : Nat]
          /\ Len(out[q2]) \in Nat
      BY StartType, <2>1
         DEF HistoryInv, HeldCounted, IndInv, TypeOK, StatsType
    <3>3. CASE q2 # q BY <1>3, <2>6, <3>1, <3>2, <3>3
    <3>4. CASE q2 = q
      <4> DEFINE m == Len(out[q])   a == rxd[q]   rx == stats[q].rx
                 tx == stats[q].tx   d == stats[q].dropped
      <4>1. /\ m \in Nat /\ rx \in Nat /\ tx \in Nat /\ d \in Nat /\ a \in Nat
            /\ a - m = rx - tx - d
        BY <2>1, <3>2, <3>4
      <4> HIDE DEF m, a, rx, tx, d
      <4>2. (a + n) - m = (rx + n) - tx - d BY <2>1, <4>1, ReceivedCounted
      <4> QED BY <1>3, <2>6, <3>1, <3>4, <4>2 DEF m, a, rx, tx, d
    <3> QED BY <3>3, <3>4
  <2>16. InOrderOnce' /\ SwappedOnce'
    BY <1>3 DEF HistoryInv, InOrderOnce, SwappedOnce
  <2> QED BY <1>7, <2>12, <2>13, <2>14, <2>15, <2>16 DEF HistoryInv
<1> QED BY <1>8, <1>9

LEMMA FwdRxHist == ASSUME IndInv, IndInv', HistoryInv, FwdRx PROVE HistoryInv'
<1>1. cur["fwd"] \in Queues /\ submitted[cur["fwd"]] \in Nat
  BY DEF IndInv, TypeOK, LocalType, CursorType
<1> QED BY <1>1, FwdRxInto

\* A batch is swapped: the first batch not done is done.
LEMMA SwapHist ==
  ASSUME IndInv, IndInv', HistoryInv,
         NEW q \in Queues, NEW d \in Nat, d = completed[q], Done(q) = d,
         d < submitted[q], SwapBatch(q),
         Done(q)' = d + 1, \A q2 \in Queues : q2 # q => Done(q2)' = Done(q2),
         \A q2 \in Queues : Top(q2)' = Top(q2) /\ At(q2)' = At(q2),
         UNCHANGED <<slots, rxd, out, stats, reclaimed, submitted>>,
         pc'["main"] = pc["main"]
  PROVE  HistoryInv'
<1>1. \A q2 \in Queues : \A c \in Nat :
        Start(q2, c)' = Start(q2, c) /\ Sent(q2, c)' = Sent(q2, c)
        /\ BatchAt(q2, c)' = BatchAt(q2, c)
  BY DEF Start, Sent, BatchAt
<1>2. BatchesFollow'
  <2> SUFFICES ASSUME NEW q2 \in Queues
               PROVE
        /\ \A c \in reclaimed'[q2] .. Top(q2)' - 1 :
             Start(q2, c)' + (BatchAt(q2, c)').nb_rx = Start(q2, c + 1)'
        /\ \A c, e \in reclaimed'[q2] .. Top(q2)' :
             c <= e => Start(q2, c)' <= Start(q2, e)'
    BY DEF BatchesFollow
  <2>1. reclaimed[q2] \in Nat /\ Top(q2) \in Nat BY Places
  <2>2. \A c \in reclaimed[q2] .. Top(q2) : c \in Nat /\ c + 1 \in Nat BY <2>1
  <2>3. \A c \in reclaimed[q2] .. Top(q2) - 1 : c \in Nat /\ c + 1 \in Nat
    BY <2>1
  <2> QED BY <1>1, <2>2, <2>3 DEF HistoryInv, BatchesFollow
<1>3. LeftInOrder'
  <2> SUFFICES ASSUME NEW q2 \in Queues
               PROVE
        /\ Len(out'[q2]) + 1 = Start(q2, At(q2))' + Sent(q2, At(q2))'
        /\ \A c \in At(q2)' + 1 .. Top(q2)' - 1 : (BatchAt(q2, c)').tx_sent = 0
    BY DEF LeftInOrder
  <2>1. At(q2) \in Nat /\ Top(q2) \in Nat BY Places
  <2>2. \A c \in At(q2) + 1 .. Top(q2) - 1 : c \in Nat BY <2>1
  <2> QED BY <1>1, <2>1, <2>2 DEF HistoryInv, LeftInOrder
<1>4. SwappedSoFar'
  <2> SUFFICES ASSUME NEW q2 \in Queues, NEW i \in Pkts
               PROVE  swaps'[q2][i] = IF i < Start(q2, Done(q2))' THEN 1 ELSE 0
    BY DEF SwappedSoFar
  <2>1. swaps[q2][i] = IF i < Start(q2, Done(q2)) THEN 1 ELSE 0
    BY DEF HistoryInv, SwappedSoFar
  <2>2. swaps \in [Queues -> [Pkts -> Nat]] BY DEF IndInv, TypeOK, RxType
  <2>3. CASE q2 # q
    <3>1. swaps'[q2] = swaps[q2] BY <2>2, <2>3 DEF SwapBatch
    <3>2. Done(q2)' = Done(q2) /\ Done(q2) \in Nat BY <2>3, Places
    <3> QED BY <1>1, <2>1, <3>1, <3>2
  <2>4. CASE q2 = q
    <3> DEFINE b == BatchAt(q, d)
    <3>1. d \in reclaimed[q] .. Top(q) - 1 /\ d + 1 \in Nat
      <4>1. /\ reclaimed[q] \in Nat /\ Top(q) \in Nat /\ submitted[q] \in Nat
            /\ reclaimed[q] <= d /\ submitted[q] <= Top(q)
        <5>1. /\ reclaimed[q] \in Nat /\ Top(q) \in Nat /\ submitted[q] \in Nat
              /\ At(q) \in Nat /\ completed[q] \in Nat
              /\ reclaimed[q] <= At(q) /\ At(q) <= completed[q]
              /\ submitted[q] <= Top(q)
          BY Places
        <5> QED BY <5>1
      <4> QED BY <4>1
    <3>2. Start(q, d) + b.nb_rx = Start(q, d + 1)
      BY <3>1 DEF HistoryInv, BatchesFollow
    <3>3. Start(q, d) = b.first BY <3>1 DEF Start
    <3>4. b.first \in Nat /\ b.nb_rx \in Nat BY BatchFields
    <3>5. swaps'[q][i] = IF i \in PktsOf(b) THEN swaps[q][i] + 1 ELSE swaps[q][i]
      BY <2>2 DEF SwapBatch
    <3>6. PktsOf(b) = b.first .. b.first + b.nb_rx - 1 BY DEF PktsOf
    <3>7. Start(q, Done(q))' = b.first + b.nb_rx BY <1>1, <3>1, <3>2, <3>3
    <3> HIDE DEF b
    <3>8. swaps[q][i] = IF i < b.first THEN 1 ELSE 0 BY <2>1, <2>4, <3>3
    <3>9. i \in Nat BY PipelineAssumption
    <3> QED BY <2>4, <3>4, <3>5, <3>6, <3>7, <3>8, <3>9
  <2> QED BY <2>3, <2>4
<1>5. InOrderOnce' /\ SwappedOnce' /\ HeldCounted'
  BY DEF HistoryInv, InOrderOnce, SwappedOnce, HeldCounted
<1>6. IdleEmpty' BY DEF HistoryInv, IdleEmpty
<1> QED BY <1>2, <1>3, <1>4, <1>5, <1>6 DEF HistoryInv

LEMMA WkSwapHist ==
  ASSUME IndInv, IndInv', HistoryInv, WkSwap PROVE HistoryInv'
<1>1. /\ pc["wk"] = "swap" /\ pc' = [pc EXCEPT !["wk"] = "publish"]
      /\ SwapBatch(cur["wk"])
      /\ slots' = slots /\ rxd' = rxd /\ out' = out /\ stats' = stats
      /\ reclaimed' = reclaimed /\ submitted' = submitted
      /\ completed' = completed /\ cur' = cur /\ rec' = rec
  BY DEF WkSwap, GoTo, ring
<1>2. /\ cur["wk"] \in Queues /\ completed[cur["wk"]] \in Nat
      /\ completed[cur["wk"]] < submitted[cur["wk"]]
  BY <1>1 DEF IndInv, TypeOK, LocalType, CursorType, WkLocals
<1>3. pc'["wk"] = "publish" /\ pc'["fwd"] = pc["fwd"] /\ pc'["main"] = pc["main"]
  BY <1>1 DEF IndInv, TypeOK, PcType
<1>4. \A q \in Queues : /\ Top(q)' = Top(q) /\ At(q)' = At(q)
                        /\ q # cur["wk"] => Done(q)' = Done(q)
  BY <1>1, <1>3 DEF Top, At, Draining, Done
<1>5. PICK q \in Queues : q = cur["wk"] BY <1>2
<1>6. PICK d \in Nat : d = completed[q] BY <1>2, <1>5
<1>7. Done(q) = d /\ Done(q)' = d + 1 BY <1>1, <1>3, <1>5, <1>6 DEF Done
<1>8. SwapBatch(q) /\ d < submitted[q] BY <1>1, <1>2, <1>5, <1>6
<1> QED BY <1>1, <1>3, <1>4, <1>5, <1>6, <1>7, <1>8, SwapHist

LEMMA MProcessHist ==
  ASSUME IndInv, IndInv', HistoryInv, MProcess PROVE HistoryInv'
<1>1. /\ pc["main"] = "process" /\ pc' = pc
      /\ slots' = slots /\ rxd' = rxd /\ out' = out /\ stats' = stats
      /\ reclaimed' = reclaimed /\ submitted' = submitted
      /\ cur' = cur /\ rec' = rec
  BY DEF MProcess
<1>2. PICK k \in 0 .. NbQueues - 1 :
        LET q == (next_queue["main"] + k) % NbQueues IN
        /\ completed[q] # submitted[q] /\ SwapBatch(q)
        /\ completed' = [completed EXCEPT ![q] = @ + 1]
  BY DEF MProcess
<1>3. next_queue["main"] \in Nat BY PipelineAssumption DEF IndInv, TypeOK, ScanType
<1>4. (next_queue["main"] + k) % NbQueues \in Queues
  BY <1>3, PipelineAssumption, SMT
<1>5. PICK q \in Queues :
        /\ completed[q] # submitted[q] /\ SwapBatch(q)
        /\ completed' = [completed EXCEPT ![q] = @ + 1]
  BY <1>2, <1>4
<1>6. /\ completed \in [Queues -> Nat] /\ completed[q] \in Nat
      /\ submitted[q] \in Nat /\ completed[q] <= submitted[q]
  BY DEF IndInv, TypeOK, CursorType, CursorOrder
<1>7. pc["wk"] = "off" BY <1>1 DEF IndInv, MainLocals
<1>8. PICK d \in Nat : d = completed[q] BY <1>6
<1>9. completed'[q] = d + 1
      /\ \A q2 \in Queues : q2 # q => completed'[q2] = completed[q2]
  BY <1>5, <1>6, <1>8
<1>10. \A q2 \in Queues : Top(q2)' = Top(q2) /\ At(q2)' = At(q2)
  BY <1>1 DEF Top, At, Draining
<1>11. /\ Done(q) = d /\ Done(q)' = d + 1
       /\ \A q2 \in Queues : q2 # q => Done(q2)' = Done(q2)
  BY <1>1, <1>7, <1>8, <1>9 DEF Done
<1>12. d < submitted[q] BY <1>5, <1>6, <1>8
<1> QED BY <1>1, <1>5, <1>8, <1>10, <1>11, <1>12, SwapHist

-----------------------------------------------------------------------------
(* The steps that move no packet.                                           *)

\* An lcore moves on outside the steps at which it holds a batch.
LEMMA MoveHist ==
  ASSUME IndInv, IndInv', HistoryInv,
         UNCHANGED <<submitted, completed, reclaimed, slots, rec, history>>,
         \A p \in Procs :
           \/ pc'[p] = pc[p] /\ cur'[p] = cur[p]
           \/ /\ pc[p] \notin {"tx", "drop", "store", "publish"}
              /\ pc'[p] \notin {"tx", "drop", "store", "publish"},
         pc'["main"] = "idle" => pc["main"] = "idle"
  PROVE  HistoryInv'
<1>1. \A q \in Queues : Top(q)' = Top(q) BY DEF Top
<1>2. \A q \in Queues : Done(q)' = Done(q) BY DEF Done
<1>3. \A q \in Queues : \A p \in Drainers : Draining(p, q)' = Draining(p, q)
  BY DEF Draining
<1>4. \A q \in Queues : At(q)' = At(q)
  <2> SUFFICES ASSUME NEW q \in Queues PROVE At(q)' = At(q) OBVIOUS
  <2>1. Draining("fwd", q)' = Draining("fwd", q)
        /\ Draining("main", q)' = Draining("main", q)
    BY <1>3
  <2> QED BY <2>1 DEF At
<1>5. \A q \in Queues : reclaimed[q] <= reclaimed'[q] BY Places
<1>6. HeldCounted' BY DEF HistoryInv, HeldCounted, history
<1>7. IdleEmpty' BY DEF HistoryInv, IdleEmpty
<1>8. UNCHANGED <<slots, rxd, swaps, out>> BY DEF history
<1> QED BY <1>1, <1>2, <1>4, <1>5, <1>6, <1>7, <1>8, StillInv

\* The quiet steps of the forwarding lcore, of the helper and of the main lcore.
LEMMA QuietHist ==
  ASSUME IndInv, IndInv', HistoryInv,
         \/ FwdCheck \/ FwdWait \/ FwdArmedCheck \/ FwdWake \/ FwdDeadline
         \/ FwdWoke \/ FwdRecheck \/ FwdNext
         \/ WkPoll \/ WkIdle \/ WkScan
         \/ MBeginFails \/ MStop \/ MJoin \/ MFailJoin \/ MProcessed
  PROVE  HistoryInv'
<1> DEFINE Calm == {"check", "wait", "armed", "asleep", "woke", "drain",
                    "recheck", "rx", "next", "off", "poll", "idle", "scan", "swap",
                    "failjoin", "join", "process", "free"}
<1>0. PcType /\ LocalType BY DEF IndInv, TypeOK
<1>1. UNCHANGED <<submitted, completed, reclaimed, slots, rec, history>>
  BY DEF FwdCheck, FwdWait, FwdArmedCheck, FwdWake, FwdDeadline, FwdWoke,
         FwdRecheck, FwdNext, WkPoll, WkIdle, WkScan, MBeginFails, MStop, MJoin,
         MFailJoin, MProcessed, ring
<1>2. ASSUME NEW p \in Procs, pc[p] \notin {"tx", "drop", "store", "publish"},
             NEW l \in Calm, p # "main" \/ l # "idle",
             pc' = [pc EXCEPT ![p] = l],
             \A o \in Procs : o # p => cur'[o] = cur[o]
      PROVE  HistoryInv'
  <2>1. pc'[p] = l /\ \A o \in Procs : o # p => pc'[o] = pc[o]
    BY <1>0, <1>2 DEF PcType
  <2>2. l \notin {"tx", "drop", "store", "publish"} BY <1>2
  <2>3. pc'["main"] = "idle" => pc["main"] = "idle" BY <1>2, <2>1
  <2>4. \A o \in Procs :
          \/ pc'[o] = pc[o] /\ cur'[o] = cur[o]
          \/ /\ pc[o] \notin {"tx", "drop", "store", "publish"}
             /\ pc'[o] \notin {"tx", "drop", "store", "publish"}
    BY <1>2, <2>1, <2>2
  <2> HIDE DEF Calm
  <2> QED BY <1>1, <2>3, <2>4, MoveHist
<1>3. ASSUME NEW p \in Procs, NEW c, cur' = cur \/ cur' = [cur EXCEPT ![p] = c]
      PROVE  \A o \in Procs : o # p => cur'[o] = cur[o]
  BY <1>0, <1>3 DEF LocalType
<1>4. CASE \/ FwdCheck \/ FwdWait \/ FwdArmedCheck \/ FwdWake \/ FwdDeadline
           \/ FwdWoke \/ FwdRecheck \/ FwdNext
  <2>1. pc["fwd"] \notin {"tx", "drop", "store", "publish"}
    BY <1>4 DEF FwdCheck, FwdWait, FwdArmedCheck, FwdWake, FwdDeadline, FwdWoke,
                FwdRecheck, FwdNext
  <2>2. \E l \in Calm : pc' = [pc EXCEPT !["fwd"] = l]
    <3>1. CASE FwdCheck BY <3>1 DEF FwdCheck, GoTo
    <3>2. CASE FwdWait BY <3>2 DEF FwdWait, GoTo
    <3>3. CASE FwdArmedCheck BY <3>3 DEF FwdArmedCheck, GoTo
    <3>4. CASE FwdWake BY <3>4 DEF FwdWake, GoTo
    <3>5. CASE FwdDeadline BY <3>5 DEF FwdDeadline, GoTo
    <3>6. CASE FwdWoke BY <3>6 DEF FwdWoke, GoTo
    <3>7. CASE FwdRecheck BY <3>7 DEF FwdRecheck, GoTo
    <3>8. CASE FwdNext BY <3>8 DEF FwdNext, GoTo
    <3> QED BY <1>4, <3>1, <3>2, <3>3, <3>4, <3>5, <3>6, <3>7, <3>8
  <2>3. \E c : cur' = cur \/ cur' = [cur EXCEPT !["fwd"] = c]
    BY <1>4 DEF FwdCheck, FwdWait, FwdArmedCheck, FwdWake, FwdDeadline, FwdWoke,
                FwdRecheck, FwdNext
  <2> HIDE DEF Calm
  <2> QED BY <1>2, <1>3, <2>1, <2>2, <2>3
<1>5. CASE WkPoll \/ WkIdle \/ WkScan
  <2>1. pc["wk"] \notin {"tx", "drop", "store", "publish"}
    BY <1>5 DEF WkPoll, WkIdle, WkScan
  <2>2. \E l \in Calm : pc' = [pc EXCEPT !["wk"] = l]
    <3>1. CASE WkPoll BY <3>1 DEF WkPoll, GoTo
    <3>2. CASE WkIdle BY <3>2 DEF WkIdle, GoTo
    <3>3. CASE WkScan BY <3>3 DEF WkScan, GoTo
    <3> QED BY <1>5, <3>1, <3>2, <3>3
  <2>3. \E c : cur' = cur \/ cur' = [cur EXCEPT !["wk"] = c]
    BY <1>5 DEF WkPoll, WkIdle, WkScan
  <2> HIDE DEF Calm
  <2> QED BY <1>2, <1>3, <2>1, <2>2, <2>3
<1>6. CASE MBeginFails \/ MStop \/ MJoin \/ MFailJoin \/ MProcessed
  <2>1. pc["main"] \notin {"tx", "drop", "store", "publish"}
    BY <1>6 DEF MBeginFails, MStop, MJoin, MFailJoin, MProcessed
  <2>2. \E l \in Calm : pc' = [pc EXCEPT !["main"] = l] /\ l # "idle"
    BY <1>6 DEF MBeginFails, MStop, MJoin, MFailJoin, MProcessed, GoTo
  <2>3. \E c : cur' = cur \/ cur' = [cur EXCEPT !["main"] = c]
    BY <1>6 DEF MBeginFails, MStop, MJoin, MFailJoin, MProcessed
  <2> HIDE DEF Calm
  <2> QED BY <1>2, <1>3, <2>1, <2>2, <2>3
<1> QED BY <1>4, <1>5, <1>6

\* A drain begins at the reclaimed cursor, and ends by publishing it.
LEMMA DrainLoadHist ==
  ASSUME IndInv, IndInv', HistoryInv, NEW p \in Drainers, DrainLoad(p)
  PROVE  HistoryInv'
<1>1. /\ pc[p] = "drain"
      /\ rec' = [rec EXCEPT ![p] = reclaimed[cur[p]]]
      /\ submitted' = submitted /\ completed' = completed
      /\ reclaimed' = reclaimed /\ slots' = slots /\ cur' = cur
      /\ rxd' = rxd /\ swaps' = swaps /\ out' = out /\ stats' = stats
  BY DEF DrainLoad, ring, history
<1>2. PICK l \in {"tx", "store"} : pc' = [pc EXCEPT ![p] = l]
  BY DEF DrainLoad, GoTo
<1>3. /\ pc'[p] = l /\ \A o \in Procs : o # p => pc'[o] = pc[o]
      /\ rec'[p] = reclaimed[cur[p]]
      /\ \A o \in Drainers : o # p => rec'[o] = rec[o]
  BY <1>1, <1>2 DEF IndInv, TypeOK, PcType, LocalType
<1>4. \A q \in Queues : Top(q)' = Top(q) /\ Done(q)' = Done(q)
  BY <1>1, <1>3 DEF Top, Done
<1>5. p = "main" => pc["fwd"] = "off" BY <1>1, DrainerAlone
<1>6. p = "fwd" => pc["main"] \in {"forwarding", "join"} BY <1>1, DrainerAlone
<1>7. \A q \in Queues : At(q)' = At(q)
  BY <1>1, <1>3, <1>5, <1>6 DEF At, Draining
<1>8. \A q \in Queues : reclaimed[q] <= reclaimed'[q] BY <1>1, Places
<1>9. HeldCounted' BY <1>1 DEF HistoryInv, HeldCounted
<1>10. IdleEmpty' BY <1>1, <1>2, <1>3 DEF HistoryInv, IdleEmpty
<1> QED BY <1>1, <1>4, <1>7, <1>8, <1>9, <1>10, StillInv

LEMMA DrainStoreHist ==
  ASSUME IndInv, IndInv', HistoryInv, NEW p \in Drainers, DrainStore(p)
  PROVE  HistoryInv'
<1>1. /\ pc[p] = "store"
      /\ reclaimed' = [reclaimed EXCEPT ![cur[p]] = rec[p]]
      /\ submitted' = submitted /\ completed' = completed
      /\ slots' = slots /\ rec' = rec
      /\ rxd' = rxd /\ swaps' = swaps /\ out' = out /\ stats' = stats
  BY DEF DrainStore, history
<1>2. PICK l \in {"recheck", "next", "drain", "free"}, c \in Int :
        /\ pc' = [pc EXCEPT ![p] = l]
        /\ cur' = cur \/ cur' = [cur EXCEPT ![p] = c]
  <2>1. cur[p] + 1 \in Int BY DEF IndInv, TypeOK, LocalType
  <2>2. CASE p = "fwd" BY <2>1, <2>2 DEF DrainStore, GoTo
  <2>3. CASE p = "main" BY <2>1, <2>3 DEF DrainStore, GoTo
  <2> QED BY <2>2, <2>3
<1>3. /\ pc'[p] = l /\ \A o \in Procs : o # p => pc'[o] = pc[o]
      /\ \A o \in Procs : o # p => cur'[o] = cur[o]
  BY <1>2 DEF IndInv, TypeOK, PcType, LocalType
<1>4. /\ cur[p] \in Queues /\ rec[p] \in Nat /\ reclaimed[cur[p]] \in Nat
      /\ reclaimed[cur[p]] <= rec[p]
      /\ reclaimed \in [Queues -> Nat]
  BY <1>1 DEF IndInv, TypeOK, LocalType, CursorType, DrainLocals
<1>5. /\ reclaimed'[cur[p]] = rec[p]
      /\ \A q \in Queues : q # cur[p] => reclaimed'[q] = reclaimed[q]
  BY <1>1, <1>4
<1>6. \A q \in Queues : Top(q)' = Top(q)
  BY <1>1, <1>3 DEF Top
<1>7. \A q \in Queues : Done(q)' = Done(q)
  BY <1>1, <1>3 DEF Done
<1>8. p = "main" => pc["fwd"] = "off" BY <1>1, DrainerAlone
<1>9. p = "fwd" => pc["main"] \in {"forwarding", "join"} BY <1>1, DrainerAlone
<1>10. \A q \in Queues : At(q)' = At(q)
  <2>1. CASE p = "fwd" BY <1>1, <1>3, <1>5, <1>9, <2>1 DEF At, Draining
  <2>2. CASE p = "main" BY <1>1, <1>3, <1>5, <1>8, <2>2 DEF At, Draining
  <2> QED BY <2>1, <2>2
<1>11. \A q \in Queues : reclaimed[q] <= reclaimed'[q]
  <2>1. \A q \in Queues : reclaimed[q] \in Nat BY <1>4
  <2> QED BY <1>4, <1>5, <2>1
<1>12. HeldCounted' BY <1>1 DEF HistoryInv, HeldCounted
<1>13. IdleEmpty'
  <2>1. pc'["main"] # "idle" BY <1>1, <1>2, <1>3, <1>9
  <2> QED BY <2>1 DEF IdleEmpty
<1> QED BY <1>1, <1>6, <1>7, <1>10, <1>11, <1>12, <1>13, StillInv

\* Publishing a cursor counts what was there before.
LEMMA FwdPublishHist ==
  ASSUME IndInv, IndInv', HistoryInv, FwdPublish PROVE HistoryInv'
<1>1. /\ pc["fwd"] = "publish" /\ pc' = [pc EXCEPT !["fwd"] = "drain"]
      /\ submitted' = [submitted EXCEPT ![cur["fwd"]] = @ + 1]
      /\ reclaimed' = reclaimed /\ completed' = completed /\ slots' = slots
      /\ cur' = cur /\ rec' = rec
      /\ rxd' = rxd /\ swaps' = swaps /\ out' = out /\ stats' = stats
  BY DEF FwdPublish, GoTo, history
<1>2. pc'["fwd"] = "drain" /\ pc'["wk"] = pc["wk"] /\ pc'["main"] = pc["main"]
  BY <1>1 DEF IndInv, TypeOK, PcType
<1>3. /\ cur["fwd"] \in Queues /\ submitted'[cur["fwd"]] = submitted[cur["fwd"]] + 1
      /\ \A q \in Queues : q # cur["fwd"] => submitted'[q] = submitted[q]
  BY <1>1 DEF IndInv, TypeOK, LocalType, CursorType
<1>4. \A q \in Queues : Top(q)' = Top(q) BY <1>1, <1>2, <1>3 DEF Top
<1>5. \A q \in Queues : Done(q)' = Done(q) BY <1>1, <1>2 DEF Done
<1>6. \A q \in Queues : At(q)' = At(q) BY <1>1, <1>2 DEF At, Draining
<1>7. \A q \in Queues : reclaimed[q] <= reclaimed'[q] BY <1>1, Places
<1>8. HeldCounted' BY <1>1 DEF HistoryInv, HeldCounted
<1>9. IdleEmpty'
  <2>1. pc["main"] # "idle" BY <1>1 DEF IndInv, MainLocals
  <2> QED BY <1>2, <2>1 DEF IdleEmpty
<1> QED BY <1>1, <1>4, <1>5, <1>6, <1>7, <1>8, <1>9, StillInv

LEMMA WkPublishHist ==
  ASSUME IndInv, IndInv', HistoryInv, WkPublish PROVE HistoryInv'
<1>1. /\ pc["wk"] = "publish" /\ pc' = [pc EXCEPT !["wk"] = "poll"]
      /\ completed' = [completed EXCEPT ![cur["wk"]] = @ + 1]
      /\ reclaimed' = reclaimed /\ submitted' = submitted /\ slots' = slots
      /\ cur' = cur /\ rec' = rec
      /\ rxd' = rxd /\ swaps' = swaps /\ out' = out /\ stats' = stats
  BY DEF WkPublish, GoTo, history
<1>2. pc'["wk"] = "poll" /\ pc'["fwd"] = pc["fwd"] /\ pc'["main"] = pc["main"]
  BY <1>1 DEF IndInv, TypeOK, PcType
<1>3. /\ cur["wk"] \in Queues /\ completed'[cur["wk"]] = completed[cur["wk"]] + 1
      /\ \A q \in Queues : q # cur["wk"] => completed'[q] = completed[q]
  BY <1>1 DEF IndInv, TypeOK, LocalType, CursorType
<1>4. \A q \in Queues : Top(q)' = Top(q) BY <1>1, <1>2 DEF Top
<1>5. \A q \in Queues : Done(q)' = Done(q) BY <1>1, <1>2, <1>3 DEF Done
<1>6. \A q \in Queues : At(q)' = At(q) BY <1>1, <1>2 DEF At, Draining
<1>7. \A q \in Queues : reclaimed[q] <= reclaimed'[q] BY <1>1, Places
<1>8. HeldCounted' BY <1>1 DEF HistoryInv, HeldCounted
<1>9. IdleEmpty' BY <1>1, <1>2 DEF HistoryInv, IdleEmpty
<1> QED BY <1>1, <1>4, <1>5, <1>6, <1>7, <1>8, <1>9, StillInv

-----------------------------------------------------------------------------
(* Begin, launch and end: the rings are empty, and so is what is held.      *)

\* A stream without batches holds no packet, and all of them are swapped.
LEMMA EmptyStream ==
  ASSUME IndInv, HistoryInv, NEW q \in Queues,
         submitted[q] = reclaimed[q], pc["fwd"] # "publish"
  PROVE  /\ Len(out[q]) = rxd[q]
         /\ \A i \in Pkts : swaps[q][i] = IF i < rxd[q] + 1 THEN 1 ELSE 0
<1>1. Top(q) = submitted[q] BY DEF Top
<1>2. At(q) = Top(q) /\ Done(q) = Top(q)
  <2>1. /\ reclaimed[q] \in Nat /\ completed[q] \in Nat /\ submitted[q] \in Nat
        /\ At(q) \in Nat /\ Done(q) \in Nat
        /\ reclaimed[q] <= At(q) /\ At(q) <= completed[q]
        /\ completed[q] <= Done(q) /\ Done(q) <= submitted[q]
    BY Places
  <2> QED BY <1>1, <2>1
<1>3. Start(q, At(q)) = rxd[q] + 1 /\ Sent(q, At(q)) = 0
      /\ Start(q, Done(q)) = rxd[q] + 1
  BY <1>2 DEF Start, Sent
<1>4. Len(out[q]) + 1 = Start(q, At(q)) + Sent(q, At(q))
  BY DEF HistoryInv, LeftInOrder
<1>5. Len(out[q]) \in Nat /\ rxd[q] \in Nat
  BY StartType, BatchFields
<1>6. Len(out[q]) = rxd[q] BY <1>3, <1>4, <1>5
<1> QED BY <1>3, <1>6 DEF HistoryInv, SwappedSoFar

LEMMA MLaunchHist ==
  ASSUME IndInv, IndInv', HistoryInv, MLaunch PROVE HistoryInv'
<1>1. /\ pc["main"] = "begun"
      /\ pc' = [pc EXCEPT !["main"] = "forwarding", !["fwd"] = "check"]
      /\ stats' = [q \in Queues |-> [rx |-> 0, tx |-> 0, dropped |-> 0]]
      /\ submitted' = submitted /\ completed' = completed
      /\ reclaimed' = reclaimed /\ slots' = slots /\ cur' = cur /\ rec' = rec
      /\ rxd' = rxd /\ swaps' = swaps /\ out' = out
  BY DEF MLaunch, ring
<1>2. /\ pc'["fwd"] = "check" /\ pc'["wk"] = pc["wk"]
      /\ pc'["main"] = "forwarding"
  BY <1>1 DEF IndInv, TypeOK, PcType
<1>3. pc["fwd"] = "off" /\ \A q \in Queues : submitted[q] = reclaimed[q]
  BY <1>1 DEF IndInv, MainLocals
<1>4. \A q \in Queues : Top(q)' = Top(q) BY <1>1, <1>2, <1>3 DEF Top
<1>5. \A q \in Queues : Done(q)' = Done(q) BY <1>1, <1>2 DEF Done
<1>6. \A q \in Queues : At(q)' = At(q) BY <1>1, <1>2, <1>3 DEF At, Draining
<1>7. \A q \in Queues : reclaimed[q] <= reclaimed'[q] BY <1>1, Places
<1>8. HeldCounted'
  <2> SUFFICES ASSUME NEW q \in Queues
               PROVE  rxd'[q] - Len(out'[q]) =
                        stats'[q].rx - stats'[q].tx - stats'[q].dropped
    BY DEF HeldCounted
  <2>1. Len(out[q]) = rxd[q] /\ rxd[q] \in Nat
    BY <1>3, EmptyStream, BatchFields
  <2>2. stats'[q].rx = 0 /\ stats'[q].tx = 0 /\ stats'[q].dropped = 0
    BY <1>1
  <2> QED BY <1>1, <2>1, <2>2
<1>9. IdleEmpty' BY <1>2 DEF IdleEmpty
<1> QED BY <1>1, <1>4, <1>5, <1>6, <1>7, <1>8, <1>9, StillInv

LEMMA MBeginHist ==
  ASSUME IndInv, IndInv', HistoryInv, MBegin PROVE HistoryInv'
<1>1. /\ pc["main"] = "idle"
      /\ pc' = [pc EXCEPT !["main"] = "begun", !["wk"] = "poll"]
      /\ submitted' = [q \in Queues |-> 0] /\ completed' = [q \in Queues |-> 0]
      /\ reclaimed' = [q \in Queues |-> 0]
      /\ rxd' = rxd /\ swaps' = swaps /\ out' = out /\ stats' = stats
  BY DEF MBegin, history
<1>2. pc["fwd"] = "off" /\ pc'["fwd"] = "off" /\ pc'["wk"] = "poll"
      /\ pc'["main"] = "begun"
  BY <1>1 DEF IndInv, TypeOK, PcType, MainLocals
<1>3. \A q \in Queues : Top(q)' = 0 /\ At(q)' = 0 /\ Done(q)' = 0
                        /\ reclaimed'[q] = 0
  BY <1>1, <1>2 DEF Top, At, Done, Draining
<1>4. \A q \in Queues : Start(q, 0)' = rxd[q] + 1 /\ Sent(q, 0)' = 0
  BY <1>1, <1>3 DEF Start, Sent
<1>5. \A q \in Queues :
        /\ Len(out[q]) = rxd[q] /\ rxd[q] \in Nat
        /\ \A i \in Pkts : swaps[q][i] = IF i < rxd[q] + 1 THEN 1 ELSE 0
  <2>1. \A q \in Queues : submitted[q] = reclaimed[q]
    BY <1>1 DEF HistoryInv, IdleEmpty
  <2> QED BY <1>2, <2>1, EmptyStream, BatchFields
<1>6. BatchesFollow'
  <2> SUFFICES ASSUME NEW q \in Queues
               PROVE
        /\ \A c \in reclaimed'[q] .. Top(q)' - 1 :
             Start(q, c)' + (BatchAt(q, c)').nb_rx = Start(q, c + 1)'
        /\ \A c, d \in reclaimed'[q] .. Top(q)' :
             c <= d => Start(q, c)' <= Start(q, d)'
    BY DEF BatchesFollow
  <2>1. reclaimed'[q] = 0 /\ Top(q)' = 0 BY <1>3
  <2>2. \A c \in 0 .. 0 : c = 0 OBVIOUS
  <2>3. \A c \in 0 .. 0 - 1 : FALSE OBVIOUS
  <2>4. rxd[q] + 1 <= rxd[q] + 1 BY <1>5
  <2> QED BY <1>4, <2>1, <2>2, <2>3, <2>4
<1>7. LeftInOrder'
  <2> SUFFICES ASSUME NEW q \in Queues
               PROVE
        /\ Len(out'[q]) + 1 = Start(q, At(q))' + Sent(q, At(q))'
        /\ \A c \in At(q)' + 1 .. Top(q)' - 1 : (BatchAt(q, c)').tx_sent = 0
    BY DEF LeftInOrder
  <2>1. At(q)' = 0 /\ Top(q)' = 0 BY <1>3
  <2>2. \A c \in 0 + 1 .. 0 - 1 : FALSE OBVIOUS
  <2>3. Start(q, At(q))' = rxd[q] + 1 /\ Sent(q, At(q))' = 0 BY <1>4, <2>1
  <2> QED BY <1>1, <1>5, <2>1, <2>2, <2>3
<1>8. SwappedSoFar'
  <2>1. \A q \in Queues : Start(q, Done(q))' = rxd[q] + 1 BY <1>3, <1>4
  <2> QED BY <1>1, <1>5, <2>1 DEF SwappedSoFar
<1>9. HeldCounted' /\ InOrderOnce' /\ SwappedOnce'
  BY <1>1 DEF HistoryInv, HeldCounted, InOrderOnce, SwappedOnce
<1>10. IdleEmpty' BY <1>2 DEF IdleEmpty
<1> QED BY <1>6, <1>7, <1>8, <1>9, <1>10 DEF HistoryInv

LEMMA MFreeHist ==
  ASSUME IndInv, IndInv', HistoryInv, MFree PROVE HistoryInv'
<1>1. /\ pc["main"] = "free" /\ pc' = [pc EXCEPT !["main"] = "idle"]
      /\ out' = [q \in Queues |-> out[q] \o Unreclaimed(q)]
      /\ submitted' = submitted /\ completed' = completed
      /\ reclaimed' = reclaimed /\ slots' = slots /\ cur' = cur /\ rec' = rec
      /\ rxd' = rxd /\ swaps' = swaps /\ stats' = stats
  BY DEF MFree, GoTo
<1>2. /\ pc'["fwd"] = pc["fwd"] /\ pc'["wk"] = pc["wk"]
      /\ pc'["main"] = "idle"
  BY <1>1 DEF IndInv, TypeOK, PcType
<1>3. \A q \in Queues : reclaimed[q] = submitted[q]
  BY <1>1 DEF IndInv, MainLocals
<1>4. out' = out
  <2> DEFINE S == Seq([pkt : Nat, how : {"tx", "free"}, swaps : Nat])
  <2>1. out \in [Queues -> S] BY DEF IndInv, TypeOK, OutType
  <2>2. \A q \in Queues : Unreclaimed(q) = << >> BY <1>3 DEF Unreclaimed
  <2>3. \A q \in Queues : out[q] \o << >> = out[q]
    BY <2>1, ConcatEmptySeq
  <2> HIDE DEF S
  <2>4. \A q \in Queues : out[q] \o Unreclaimed(q) = out[q] BY <2>2, <2>3
  <2>5. out' = [q \in Queues |-> out[q]] BY <1>1, <2>4
  <2>6. out = [q \in Queues |-> out[q]] BY <2>1
  <2> QED BY <2>5, <2>6, Zenon
<1>5. \A q \in Queues : Top(q)' = Top(q) BY <1>1, <1>2 DEF Top
<1>6. \A q \in Queues : Done(q)' = Done(q) BY <1>1, <1>2 DEF Done
<1>7. \A q \in Queues : At(q)' = At(q) BY <1>1, <1>2 DEF At, Draining
<1>8. \A q \in Queues : reclaimed[q] <= reclaimed'[q] BY <1>1, Places
<1>9. HeldCounted' BY <1>1, <1>4 DEF HistoryInv, HeldCounted
<1>10. IdleEmpty' BY <1>1, <1>3 DEF IdleEmpty
<1> QED BY <1>1, <1>4, <1>5, <1>6, <1>7, <1>8, <1>9, <1>10, StillInv

-----------------------------------------------------------------------------
LEMMA InitHist == ASSUME Init PROVE HistoryInv
<1>1. /\ submitted = [q \in Queues |-> 0] /\ completed = [q \in Queues |-> 0]
      /\ reclaimed = [q \in Queues |-> 0]
      /\ rxd = [q \in Queues |-> 0] /\ out = [q \in Queues |-> << >>]
      /\ swaps = [q \in Queues |-> [i \in Pkts |-> 0]]
      /\ stats = [q \in Queues |-> [rx |-> 0, tx |-> 0, dropped |-> 0]]
      /\ pc["fwd"] = "off" /\ pc["wk"] = "off" /\ pc["main"] = "idle"
  BY DEF Init
<1>2. \A q \in Queues : /\ Top(q) = 0 /\ At(q) = 0 /\ Done(q) = 0
                        /\ reclaimed[q] = 0 /\ Len(out[q]) = 0 /\ rxd[q] = 0
  BY <1>1 DEF Top, At, Done, Draining
<1>3. \A q \in Queues : Start(q, 0) = 1 /\ Sent(q, 0) = 0
  BY <1>2 DEF Start, Sent
<1>4. BatchesFollow
  <2> SUFFICES ASSUME NEW q \in Queues
               PROVE
        /\ \A c \in reclaimed[q] .. Top(q) - 1 :
             Start(q, c) + BatchAt(q, c).nb_rx = Start(q, c + 1)
        /\ \A c, d \in reclaimed[q] .. Top(q) :
             c <= d => Start(q, c) <= Start(q, d)
    BY DEF BatchesFollow
  <2>1. reclaimed[q] = 0 /\ Top(q) = 0 BY <1>2
  <2>2. \A c \in 0 .. 0 : c = 0 OBVIOUS
  <2>3. \A c \in 0 .. 0 - 1 : FALSE OBVIOUS
  <2> QED BY <1>3, <2>1, <2>2, <2>3
<1>5. LeftInOrder
  <2>1. \A c \in 0 + 1 .. 0 - 1 : FALSE OBVIOUS
  <2> QED BY <1>2, <1>3, <2>1 DEF LeftInOrder
<1>6. SwappedSoFar
  <2> SUFFICES ASSUME NEW q \in Queues, NEW i \in Pkts
               PROVE  swaps[q][i] = IF i < Start(q, Done(q)) THEN 1 ELSE 0
    BY DEF SwappedSoFar
  <2>1. Start(q, Done(q)) = 1 /\ swaps[q][i] = 0 BY <1>1, <1>2, <1>3
  <2>2. ~(i < 1) BY PipelineAssumption
  <2> QED BY <2>1, <2>2
<1>7. HeldCounted
  <2> SUFFICES ASSUME NEW q \in Queues
               PROVE  rxd[q] - Len(out[q]) =
                        stats[q].rx - stats[q].tx - stats[q].dropped
    BY DEF HeldCounted
  <2>1. stats[q].rx = 0 /\ stats[q].tx = 0 /\ stats[q].dropped = 0 BY <1>1
  <2> QED BY <1>2, <2>1
<1>8. IdleEmpty BY <1>1 DEF IdleEmpty
<1>9. InOrderOnce /\ SwappedOnce
  <2>1. \A k \in 1 .. 0 : FALSE OBVIOUS
  <2> QED BY <1>2, <2>1 DEF InOrderOnce, SwappedOnce
<1> QED BY <1>4, <1>5, <1>6, <1>7, <1>8, <1>9 DEF HistoryInv

LEMMA NextHist ==
  ASSUME IndInv, IndInv', HistoryInv, [Next]_vars PROVE HistoryInv'
<1>1. CASE UNCHANGED vars
  <2>1. /\ UNCHANGED <<submitted, completed, reclaimed, slots, rec, history>>
        /\ pc' = pc /\ cur' = cur
    BY <1>1 DEF vars, ring, locals
  <2> QED BY <2>1, MoveHist
<1>2. CASE Fwd
  <2>1. CASE Drain("fwd")
    BY <2>1, DrainLoadHist, TxBurstHist, TxDropHist, DrainStoreHist DEF Drain
  <2>2. CASE FwdRx \/ FwdPublish BY <2>2, FwdRxHist, FwdPublishHist
  <2> QED BY <1>2, <2>1, <2>2, QuietHist DEF Fwd
<1>3. CASE Wk BY <1>3, QuietHist, WkSwapHist, WkPublishHist DEF Wk
<1>4. CASE Main
  <2>1. CASE Drain("main")
    BY <2>1, DrainLoadHist, TxBurstHist, TxDropHist, DrainStoreHist DEF Drain
  <2>2. CASE MBegin \/ MLaunch \/ MProcess \/ MFree
    BY <2>2, MBeginHist, MLaunchHist, MProcessHist, MFreeHist
  <2> QED BY <1>4, <2>1, <2>2, QuietHist DEF Main, MainSteps
<1> QED BY <1>1, <1>2, <1>3, <1>4 DEF Next

\* The full inductive invariant, history included.
THEOREM FullInductive == Spec => []FullInv
<1>1. Init => FullInv BY InitInd, InitHist DEF FullInv
<1>2. FullInv /\ [Next]_vars => FullInv'
  <2> SUFFICES ASSUME FullInv, [Next]_vars PROVE FullInv' OBVIOUS
  <2>1. IndInv /\ HistoryInv BY DEF FullInv
  <2>2. IndInv' BY <2>1, NextInd
  <2> QED BY <2>1, <2>2, NextHist DEF FullInv
<1> QED BY <1>1, <1>2, PTL DEF Spec

\* The k-th packet to leave a stream is its k-th packet: nothing that
\* macswap_transmit_batch, the drops and macswap_pipeline_free do loses,
\* repeats or reorders one.
THEOREM InOrderOnceHolds == Spec => []InOrderOnce
<1>1. FullInv => InOrderOnce BY DEF FullInv, HistoryInv
<1> QED BY <1>1, FullInductive, PTL

\* Every packet that leaves was swapped once, by the helper or by end.
THEOREM SwappedOnceHolds == Spec => []SwappedOnce
<1>1. FullInv => SwappedOnce BY DEF FullInv, HistoryInv
<1> QED BY <1>1, FullInductive, PTL

\* When end has returned every packet has left, and is in the statistics.
THEOREM StatsBalancedHolds == Spec => []StatsBalanced
<1>1. FullInv => StatsBalanced
  <2> SUFFICES ASSUME FullInv, pc["main"] = "idle", NEW q \in Queues
               PROVE  /\ Len(out[q]) = rxd[q]
                      /\ stats[q].rx = stats[q].tx + stats[q].dropped
    BY DEF StatsBalanced
  <2>1. IndInv /\ HistoryInv BY DEF FullInv
  <2>2. pc["fwd"] # "publish" BY <2>1 DEF IndInv, MainLocals
  <2>3. submitted[q] = reclaimed[q] BY <2>1 DEF HistoryInv, IdleEmpty
  <2>4. Len(out[q]) = rxd[q] /\ rxd[q] \in Nat
    BY <2>1, <2>2, <2>3, EmptyStream, BatchFields
  <2>5. stats[q] \in [rx : Nat, tx : Nat, dropped : Nat]
    BY <2>1 DEF IndInv, TypeOK, StatsType
  <2>6. rxd[q] - Len(out[q]) = stats[q].rx - stats[q].tx - stats[q].dropped
    BY <2>1 DEF HistoryInv, HeldCounted
  <2> DEFINE rx == stats[q].rx   tx == stats[q].tx   d == stats[q].dropped
             a == rxd[q]
  <2>7. rx \in Nat /\ tx \in Nat /\ d \in Nat /\ a \in Nat /\ a - a = rx - tx - d
    BY <2>4, <2>5, <2>6
  <2> HIDE DEF rx, tx, d, a
  <2>8. rx = tx + d BY <2>7
  <2> QED BY <2>4, <2>8 DEF rx, tx, d
<1> QED BY <1>1, FullInductive, PTL

-----------------------------------------------------------------------------
(* The wakeup, the batches given away, and the abstract forwarder.          *)

\* A step of the main lcore leaves a sleeping forwarding lcore asleep and its
\* ring as it is, and puts none to sleep.
LEMMA MainKeepsSleep ==
  ASSUME IndInv, Main, pc'["fwd"] = "asleep"
  PROVE  /\ pc["fwd"] = "asleep"
         /\ UNCHANGED <<submitted, completed, reclaimed, cur, woken>>
<1>1. PcType BY DEF IndInv, TypeOK
<1>2. pc["main"] \notin {"forwarding", "join"} => pc["fwd"] = "off"
  BY DEF IndInv, MainLocals
<1>3. CASE MStop
  BY <1>1, <1>3 DEF MStop, GoTo, PcType, ring
<1>4. CASE MBegin \/ MBeginFails \/ MLaunch
  <2>1. pc["fwd"] = "off" BY <1>2, <1>4 DEF MBegin, MBeginFails, MLaunch
  <2>2. pc'["fwd"] \in {"off", "check"}
    BY <1>1, <1>4, <2>1 DEF MBegin, MBeginFails, MLaunch, GoTo, PcType
  <2> QED BY <2>2
<1>5. CASE MJoin \/ MFailJoin \/ MProcess \/ MProcessed \/ MFree
  <2>1. pc["fwd"] = "off"
    BY <1>2, <1>5 DEF MJoin, MFailJoin, MProcess, MProcessed, MFree
  <2>2. pc'["fwd"] = pc["fwd"]
    BY <1>1, <1>5 DEF MJoin, MFailJoin, MProcess, MProcessed, MFree, GoTo, PcType
  <2> QED BY <2>1, <2>2
<1>6. CASE Drain("main")
  <2>1. pc["fwd"] = "off"
    BY <1>2, <1>6 DEF Drain, DrainLoad, TxBurst, TxDrop, DrainStore
  <2>2. \E l \in MainPC : pc' = [pc EXCEPT !["main"] = l] \/ pc' = pc
    BY <1>6 DEF Drain, DrainLoad, TxBurst, TxDrop, DrainStore, NextBatch, GoTo,
                MainPC
  <2>3. pc'["fwd"] = pc["fwd"] BY <1>1, <2>2 DEF PcType
  <2> QED BY <2>1, <2>3
<1> QED BY <1>3, <1>4, <1>5, <1>6 DEF Main, MainSteps

\* The forwarding lcore falls asleep at FwdArmedCheck only.
LEMMA FwdFallsAsleep ==
  ASSUME IndInv, Fwd, pc'["fwd"] = "asleep"
  PROVE  FwdArmedCheck /\ completed[cur["fwd"]] = reclaimed[cur["fwd"]]
<1>1. PcType BY DEF IndInv, TypeOK
<1>2. CASE FwdArmedCheck
  BY <1>1, <1>2 DEF FwdArmedCheck, GoTo, PcType
<1>3. CASE FwdCheck \/ FwdWait \/ FwdWake \/ FwdDeadline \/ FwdWoke \/ FwdRecheck
           \/ FwdRx \/ FwdPublish \/ FwdNext
  <2>1. \E l \in FwdPC \ {"asleep"} : pc' = [pc EXCEPT !["fwd"] = l]
    BY <1>3 DEF FwdCheck, FwdWait, FwdWake, FwdDeadline, FwdWoke, FwdRecheck,
                FwdRx, FwdPublish, FwdNext, GoTo, FwdPC
  <2> QED BY <1>1, <2>1 DEF PcType
<1>4. CASE Drain("fwd")
  <2>1. \/ \E l \in FwdPC \ {"asleep"} : pc' = [pc EXCEPT !["fwd"] = l]
        \/ pc' = pc /\ pc["fwd"] = "tx"
    BY <1>4 DEF Drain, DrainLoad, TxBurst, TxDrop, DrainStore, NextBatch, GoTo,
                FwdPC
  <2> QED BY <1>1, <2>1 DEF PcType
<1> QED BY <1>2, <1>3, <1>4 DEF Fwd

LEMMA WakeupNext ==
  ASSUME IndInv, NoMissedWakeup, [Next]_vars PROVE NoMissedWakeup'
<1> SUFFICES ASSUME pc'["fwd"] = "asleep", ~woken'
             PROVE  completed'[cur'["fwd"]] = reclaimed'[cur'["fwd"]]
  BY DEF NoMissedWakeup
<1>1. CASE Fwd
  <2>1. FwdArmedCheck /\ completed[cur["fwd"]] = reclaimed[cur["fwd"]]
    BY <1>1, FwdFallsAsleep
  <2> QED BY <2>1 DEF FwdArmedCheck, ring
<1>2. CASE Main
  <2>1. /\ pc["fwd"] = "asleep" /\ completed' = completed
        /\ reclaimed' = reclaimed /\ cur' = cur /\ woken' = woken
    BY <1>2, MainKeepsSleep
  <2> QED BY <2>1 DEF NoMissedWakeup
<1>3. CASE Wk
  <2>1. PcType /\ LocalType /\ CursorType BY DEF IndInv, TypeOK
  <2>2. CASE WkPublish
    <3>1. /\ pc["fwd"] = "asleep" /\ ~woken /\ cur["wk"] # cur["fwd"]
          /\ completed' = [completed EXCEPT ![cur["wk"]] = @ + 1]
          /\ reclaimed' = reclaimed /\ cur' = cur
      BY <2>1, <2>2 DEF WkPublish, GoTo, PcType
    <3>2. completed'[cur["fwd"]] = completed[cur["fwd"]]
      BY <2>1, <3>1 DEF CursorType, LocalType
    <3> QED BY <3>1, <3>2 DEF NoMissedWakeup
  <2>3. CASE WkPoll \/ WkIdle \/ WkScan \/ WkSwap
    <3>1. /\ completed' = completed /\ reclaimed' = reclaimed /\ woken' = woken
          /\ \E l \in WkPC : pc' = [pc EXCEPT !["wk"] = l]
          /\ cur' = cur \/ \E c : cur' = [cur EXCEPT !["wk"] = c]
      BY <2>3 DEF WkPoll, WkIdle, WkScan, WkSwap, GoTo, ring, WkPC
    <3>2. pc["fwd"] = "asleep" /\ cur'["fwd"] = cur["fwd"]
      BY <2>1, <3>1 DEF PcType, LocalType
    <3> QED BY <3>1, <3>2 DEF NoMissedWakeup
  <2> QED BY <1>3, <2>2, <2>3 DEF Wk
<1>4. CASE UNCHANGED vars
  BY <1>4 DEF vars, ring, locals, NoMissedWakeup
<1> QED BY <1>1, <1>2, <1>3, <1>4 DEF Next

\* macswap_wait_for_completion does not sleep past a completion: it reads the
\* cursor after UMONITOR, and a later store to it ends UMWAIT.
THEOREM NoMissedWakeupHolds == Spec => []NoMissedWakeup
<1>1. Init => NoMissedWakeup BY DEF Init, NoMissedWakeup
<1>2. IndInv /\ NoMissedWakeup /\ [Next]_vars => NoMissedWakeup' BY WakeupNext
<1> QED BY <1>1, <1>2, Inductive, PTL DEF Spec

\* A batch the helper was given is in another slot than the one of place d, where
\* a drain or an rx burst writes.
LEMMA OtherSlot ==
  ASSUME IndInv, NEW q \in Queues, NEW q2 \in Queues, NEW d \in Nat,
         NEW c \in completed[q] .. submitted[q] - 1,
         \/ q2 # q
         \/ reclaimed[q] <= d /\ d < completed[q]
         \/ d = submitted[q] /\ submitted[q] < reclaimed[q] + DEPTH
  PROVE  /\ Slot(c) \in 0 .. DEPTH - 1 /\ Slot(d) \in 0 .. DEPTH - 1
         /\ q2 # q \/ Slot(c) # Slot(d)
<1>1. /\ reclaimed[q] \in Nat /\ completed[q] \in Nat /\ submitted[q] \in Nat
      /\ reclaimed[q] <= completed[q] /\ submitted[q] <= reclaimed[q] + DEPTH
  BY DEF IndInv, TypeOK, CursorType, CursorOrder
<1>2. c \in Nat BY <1>1
<1>3. Slot(c) \in 0 .. DEPTH - 1 /\ Slot(d) \in 0 .. DEPTH - 1
  BY <1>2, SlotType
<1>4. CASE q2 # q BY <1>3, <1>4
<1>5. CASE reclaimed[q] <= d /\ d < completed[q]
  <2>1. d < c /\ c < d + DEPTH BY <1>1, <1>5, PipelineAssumption
  <2> QED BY <1>2, <1>3, <2>1, SlotsDiffer
<1>6. CASE d = submitted[q] /\ submitted[q] < reclaimed[q] + DEPTH
  <2>1. c < d /\ d < c + DEPTH BY <1>1, <1>6, PipelineAssumption
  <2> QED BY <1>2, <1>3, <2>1, SlotsDiffer
<1> QED BY <1>4, <1>5, <1>6

\* One slot of one ring is rewritten: the batches given to the helper are others.
LEMMA OneSlotWritten ==
  ASSUME IndInv, NEW q \in Queues, NEW d \in Nat, NEW b \in Batch,
         slots' = [slots EXCEPT ![q][Slot(d)] = b],
         \/ reclaimed[q] <= d /\ d < completed[q]
         \/ d = submitted[q] /\ submitted[q] < reclaimed[q] + DEPTH
  PROVE  \A q2 \in Queues : \A c \in completed[q2] .. submitted[q2] - 1 :
           slots'[q2][Slot(c)] = slots[q2][Slot(c)]
<1>1. SlotsType /\ Slot(d) \in 0 .. DEPTH - 1 BY SlotType DEF IndInv, TypeOK
<1>2. \A q2 \in Queues : \A s2 \in 0 .. DEPTH - 1 :
        q2 # q \/ s2 # Slot(d) => slots'[q2][s2] = slots[q2][s2]
  BY <1>1, SlotUpdate
<1>3. ASSUME NEW q2 \in Queues, NEW c \in completed[q2] .. submitted[q2] - 1
      PROVE  slots'[q2][Slot(c)] = slots[q2][Slot(c)]
  <2>1. Slot(c) \in 0 .. DEPTH - 1 /\ (q2 # q \/ Slot(c) # Slot(d))
    BY OtherSlot
  <2> QED BY <1>2, <2>1
<1> QED BY <1>3

LEMMA GivenNext ==
  ASSUME IndInv, [Next]_vars, live, live'
  PROVE  \A q \in Queues : \A c \in completed[q] .. submitted[q] - 1 :
           slots'[q][Slot(c)] = slots[q][Slot(c)]
<1>1. CASE slots' = slots BY <1>1
<1>2. ASSUME NEW p \in Drainers, TxBurst(p) \/ TxDrop(p)
      PROVE  \A q \in Queues : \A c \in completed[q] .. submitted[q] - 1 :
               slots'[q][Slot(c)] = slots[q][Slot(c)]
  <2> DEFINE b == BatchAt(cur[p], rec[p])
  <2>1. pc[p] \in {"tx", "drop"} BY <1>2 DEF TxBurst, TxDrop
  <2>2. /\ cur[p] \in Queues /\ rec[p] \in Nat /\ At(cur[p]) = rec[p]
        /\ rec[p] < completed[cur[p]]
    BY <2>1, DrainPlace
  <2>3. reclaimed[cur[p]] <= rec[p] BY <2>2, Places
  <2>4. b \in Batch /\ b.nb_rx \in Nat /\ b.tx_sent \in Nat
    BY <2>2, BatchFields
  <2>5. PICK x \in Nat :
          slots' = [slots EXCEPT ![cur[p]][Slot(rec[p])].tx_sent = x]
    <3>1. CASE TxBurst(p)
      <4>1. PICK n \in 0 .. b.nb_rx - b.tx_sent :
              slots' = [slots EXCEPT ![cur[p]][Slot(rec[p])].tx_sent = @ + n]
        BY <3>1 DEF TxBurst
      <4>2. slots' = [slots EXCEPT ![cur[p]][Slot(rec[p])].tx_sent = b.tx_sent + n]
        BY <4>1 DEF BatchAt
      <4>3. b.tx_sent + n \in Nat BY <2>4
      <4> QED BY <4>2, <4>3
    <3>2. CASE TxDrop(p) BY <2>4, <3>2 DEF TxDrop
    <3> QED BY <1>2, <3>1, <3>2
  <2>6. slots' = [slots EXCEPT ![cur[p]][Slot(rec[p])] = [b EXCEPT !.tx_sent = x]]
    BY <2>5 DEF BatchAt
  <2>7. [b EXCEPT !.tx_sent = x] \in Batch BY <2>4 DEF Batch
  <2> HIDE DEF b
  <2> QED BY <2>2, <2>3, <2>6, <2>7, OneSlotWritten
<1>3. CASE FwdRx
  <2> DEFINE q == cur["fwd"]
  <2>1. /\ pc["fwd"] = "rx" /\ q \in Queues /\ submitted[q] \in Nat
        /\ rxd[q] \in 0 .. MaxPkts
    BY <1>3 DEF FwdRx, IndInv, TypeOK, LocalType, CursorType, RxType
  <2>2. submitted[q] < reclaimed[q] + DEPTH BY <2>1 DEF IndInv, FwdLocals
  <2>3. CASE slots' = slots BY <2>3
  <2>4. CASE \E n \in Nat :
               slots' = [slots EXCEPT ![q][Slot(submitted[q])] =
                           NewBatch(@, rxd[q] + 1, n)]
    <3>1. PICK n \in Nat :
            slots' = [slots EXCEPT ![q][Slot(submitted[q])] =
                        [first |-> rxd[q] + 1, nb_rx |-> n, tx_sent |-> 0]]
      BY <2>4 DEF NewBatch
    <3>2. [first |-> rxd[q] + 1, nb_rx |-> n, tx_sent |-> 0] \in Batch
      BY <2>1, PipelineAssumption DEF Batch
    <3> HIDE DEF q
    <3> QED BY <2>1, <2>2, <3>1, <3>2, OneSlotWritten
  <2> QED BY <1>3, <2>3, <2>4, PipelineAssumption DEF FwdRx
<1>4. ~MBegin BY DEF MBegin, IndInv, MainLocals
<1>5. CASE Fwd
  BY <1>1, <1>2, <1>3, <1>5
     DEF Fwd, FwdCheck, FwdWait, FwdArmedCheck, FwdWake, FwdDeadline, FwdWoke,
         Drain, DrainLoad, DrainStore, FwdRecheck, FwdPublish, FwdNext, ring
<1>6. CASE Wk
  BY <1>1, <1>6 DEF Wk, WkPoll, WkIdle, WkScan, WkSwap, WkPublish, ring
<1>7. CASE Main
  BY <1>1, <1>2, <1>4, <1>7
     DEF Main, MainSteps, MBeginFails, MLaunch, MStop, MJoin, MFailJoin, MProcess,
         MProcessed, Drain, DrainLoad, DrainStore, MFree, ring
<1>8. CASE UNCHANGED vars BY <1>1, <1>8 DEF vars, ring
<1> QED BY <1>5, <1>6, <1>7, <1>8 DEF Next

\* Nobody but the helper touches a batch between submission and completion: the
\* transmitting and the receiving side work on other slots of the ring.
THEOREM GivenBatchesStableHolds == Spec => GivenBatchesStable
<1>1. IndInv /\ [Next]_vars =>
        [live /\ live' => \A q \in Queues :
           \A c \in completed[q] .. submitted[q] - 1 :
             slots'[q][Slot(c)] = slots[q][Slot(c)]]_vars
  BY GivenNext
<1> QED BY <1>1, Inductive, PTL DEF Spec, GivenBatchesStable

\* No more leaves a stream than it received.
Held == \A q \in Queues : Len(out[q]) \in Nat /\ Len(out[q]) <= rxd[q]

LEMMA FullHeld == ASSUME IndInv, HistoryInv PROVE Held
<1> SUFFICES ASSUME NEW q \in Queues
             PROVE  Len(out[q]) \in Nat /\ Len(out[q]) <= rxd[q]
  BY DEF Held
<1>1. /\ reclaimed[q] \in Nat /\ At(q) \in Nat /\ Top(q) \in Nat
      /\ reclaimed[q] <= At(q) /\ At(q) <= Top(q)
  <2>1. /\ reclaimed[q] \in Nat /\ completed[q] \in Nat /\ submitted[q] \in Nat
        /\ At(q) \in Nat /\ Done(q) \in Nat /\ Top(q) \in Nat
        /\ reclaimed[q] <= At(q) /\ At(q) <= completed[q]
        /\ completed[q] <= Done(q) /\ Done(q) <= submitted[q]
        /\ submitted[q] <= Top(q)
    BY Places
  <2> QED BY <2>1
<1>2. /\ Len(out[q]) \in Nat
      /\ Len(out[q]) + 1 = Start(q, At(q)) + Sent(q, At(q))
  BY StartType DEF HistoryInv, LeftInOrder
<1>3. CASE At(q) = Top(q)
  <2>1. Start(q, At(q)) = rxd[q] + 1 /\ Sent(q, At(q)) = 0
    BY <1>3 DEF Start, Sent
  <2>2. rxd[q] \in Nat BY <1>1, BatchFields
  <2> QED BY <1>2, <2>1, <2>2
<1>4. CASE At(q) # Top(q)
  <2>1. PICK c \in Nat : c = At(q) BY <1>1
  <2>2. PICK b \in Batch : b = BatchAt(q, c) BY BatchFields
  <2>3. b.first \in Nat /\ b.nb_rx \in Nat /\ b.tx_sent \in Nat
        /\ b.tx_sent <= b.nb_rx /\ rxd[q] \in Nat
    BY <2>2, BatchFields
  <2>4. Start(q, c) = b.first /\ Sent(q, c) = b.tx_sent
    BY <1>4, <2>1, <2>2 DEF Start, Sent
  <2>5. /\ c \in reclaimed[q] .. Top(q) - 1 /\ c + 1 \in reclaimed[q] .. Top(q)
        /\ Top(q) \in reclaimed[q] .. Top(q) /\ c + 1 <= Top(q)
    BY <1>1, <1>4, <2>1
  <2>6. Start(q, c) + b.nb_rx = Start(q, c + 1)
        /\ Start(q, c + 1) <= Start(q, Top(q))
    BY <2>2, <2>5 DEF HistoryInv, BatchesFollow
  <2>7. Start(q, Top(q)) = rxd[q] + 1 BY DEF Start
  <2> QED BY <1>2, <2>1, <2>3, <2>4, <2>6, <2>7
<1> QED BY <1>3, <1>4

\* Packets that leave a stream are the next ones, swapped once.
LEMMA LeavingKept ==
  ASSUME IndInv, InOrderOnce', SwappedOnce', Held, Held', NEW q \in Queues,
         NEW f \in Nat, NEW n \in Nat, NEW how \in {"tx", "free"},
         Leave(q, f, n, how) \in
           Seq([pkt : Nat, how : {"tx", "free"}, swaps : Nat]),
         out' = [out EXCEPT ![q] = @ \o Leave(q, f, n, how)], rxd' = rxd
  PROVE  Promise!Leave(q) \/ out' = out
<1> DEFINE R == [pkt : Nat, how : {"tx", "free"}, swaps : Nat]
           e == Leave(q, f, n, how)
           g == [k \in 1 .. n |-> [pkt |-> Len(out[q]) + k, how |-> how,
                                   swaps |-> 1]]
<1>1. out \in [Queues -> Seq(R)] BY DEF IndInv, TypeOK, OutType
<1>2. out[q] \in Seq(R) /\ Len(out[q]) \in Nat /\ rxd[q] \in Nat
  <2>1. out[q] \in Seq(R) BY <1>1, Zenon
  <2>2. Len(out[q]) \in Nat BY DEF Held
  <2>3. rxd[q] \in Nat BY PipelineAssumption DEF IndInv, TypeOK, RxType
  <2> QED BY <2>1, <2>2, <2>3
<1>3. out'[q] = out[q] \o e BY <1>1
<1>4. Len(e) = n BY DEF Leave
<1>5. /\ Len(out'[q]) = Len(out[q]) + n
      /\ \A k \in 1 .. n : out'[q][Len(out[q]) + k] = e[k]
  <2> DEFINE o == out[q]
  <2>1. o \in Seq(R) /\ e \in Seq(R) /\ Len(e) = n /\ Len(o) \in Nat
    BY <1>2, <1>4
  <2>2. out'[q] = o \o e BY <1>3
  <2> HIDE DEF R, o, e
  <2>3. /\ Len(o \o e) = Len(o) + Len(e)
        /\ \A i \in 1 .. Len(o) + Len(e) :
             (o \o e)[i] = IF i <= Len(o) THEN o[i] ELSE e[i - Len(o)]
    BY <2>1, ConcatProperties, Zenon
  <2>4. \A k \in 1 .. n : /\ Len(o) + k \in 1 .. Len(o) + Len(e)
                          /\ ~(Len(o) + k <= Len(o))
                          /\ (Len(o) + k) - Len(o) = k
    BY <2>1
  <2>5. \A k \in 1 .. n : out'[q][Len(o) + k] = e[k]
    BY <2>2, <2>3, <2>4, Zenon
  <2>6. Len(out'[q]) = Len(o) + n BY <2>1, <2>2, <2>3, Zenon
  <2> QED BY <2>5, <2>6 DEF o
<1>6. n <= rxd[q] - Len(out[q])
  <2>1. Len(out'[q]) <= rxd[q] BY DEF Held
  <2> QED BY <1>2, <1>5, <2>1
<1>7. e = g
  <2>1. ASSUME NEW k \in 1 .. n
        PROVE  /\ f + k - 1 = Len(out[q]) + k /\ swaps[q][f + k - 1] = 1
    <3> DEFINE m == Len(out[q])   m2 == Len(out'[q])
    <3>a. m \in Nat /\ m2 = m + n BY <1>2, <1>5
    <3>b. m + k \in 1 .. m2
      <4> HIDE DEF m, m2
      <4> QED BY <3>a
    <3>1. PICK j \in 1 .. Len(out'[q]) : j = Len(out[q]) + k BY <3>b
    <3>2. e[k].pkt = Len(out[q]) + k /\ e[k].swaps = 1
      <4>1. out'[q][j].pkt = j /\ out'[q][j].swaps = 1
        BY DEF InOrderOnce, SwappedOnce
      <4>2. out'[q][j] = e[k] BY <1>5, <3>1
      <4> HIDE DEF e
      <4> QED BY <3>1, <4>1, <4>2
    <3>3. e[k].pkt = f + k - 1 /\ e[k].swaps = swaps[q][f + k - 1]
      BY DEF Leave
    <3> QED BY <3>2, <3>3
  <2> QED BY <2>1 DEF Leave
<1> HIDE DEF e
<1>8. CASE n = 0
  <2>1. out[q] \o e = out[q]
    <3>1. e = << >> BY <1>7, <1>8
    <3> QED BY <1>2, <3>1, ConcatEmptySeq
  <2>2. out' = [out EXCEPT ![q] = out[q]] BY <2>1 DEF e
  <2> QED BY <1>1, <2>2
<1>9. CASE n > 0
  <2>1. out' = [out EXCEPT ![q] = @ \o g] BY <1>7 DEF e
  <2>2. n \in 1 .. rxd[q] - Len(out[q]) BY <1>2, <1>6, <1>9
  <2> QED BY <2>1, <2>2 DEF Promise!Leave
<1> QED BY <1>8, <1>9

LEMMA PromiseNext ==
  ASSUME IndInv, HistoryInv, HistoryInv', Held', [Next]_vars
  PROVE  Promise!Next \/ (rxd' = rxd /\ out' = out)
<1>1. Held BY FullHeld
<1>2. InOrderOnce' /\ SwappedOnce' BY DEF HistoryInv
<1>3. CASE rxd' = rxd /\ out' = out BY <1>3
<1>4. ASSUME NEW p \in Drainers, TxBurst(p) \/ TxDrop(p)
      PROVE  Promise!Next \/ (rxd' = rxd /\ out' = out)
  <2>1. PICK q \in Queues : q = cur[p] BY DEF IndInv, TypeOK, LocalType
  <2>2. pc[p] \in {"tx", "drop"} /\ rec[p] \in Nat
    BY <1>4 DEF TxBurst, TxDrop, IndInv, TypeOK, LocalType
  <2>3. PICK b \in Batch : b = BatchAt(q, rec[p]) BY <2>1, <2>2, BatchFields
  <2>4. /\ b.first \in Nat /\ b.nb_rx \in Nat /\ b.tx_sent \in Nat
        /\ b.tx_sent <= b.nb_rx
    BY <2>2, <2>3, BatchFields
  <2>5. PICK n \in 0 .. b.nb_rx - b.tx_sent, how \in {"tx", "free"} :
          out' = [out EXCEPT ![q] = @ \o Leave(q, b.first + b.tx_sent, n, how)]
    <3>1. CASE TxBurst(p) BY <2>1, <2>3, <3>1 DEF TxBurst
    <3>2. CASE TxDrop(p)
      <4>1. b.nb_rx - b.tx_sent \in 0 .. b.nb_rx - b.tx_sent BY <2>4
      <4> QED BY <2>1, <2>3, <3>2, <4>1 DEF TxDrop
    <3> QED BY <1>4, <3>1, <3>2
  <2>6. rxd' = rxd BY <1>4 DEF TxBurst, TxDrop
  <2>7. Leave(q, b.first + b.tx_sent, n, how) \in
          Seq([pkt : Nat, how : {"tx", "free"}, swaps : Nat])
    BY <2>1, <2>2, <2>3, BatchInTransmit
  <2>8. b.first + b.tx_sent \in Nat /\ n \in Nat BY <2>4
  <2>9. Promise!Leave(q) \/ out' = out
    BY <1>1, <1>2, <2>5, <2>6, <2>7, <2>8, LeavingKept
  <2> QED BY <2>6, <2>9 DEF Promise!Next
<1>5. CASE FwdRx
  <2>1. PICK q \in Queues : q = cur["fwd"] BY DEF IndInv, TypeOK, LocalType
  <2>2. rxd \in [Queues -> 0 .. MaxPkts] BY DEF IndInv, TypeOK, RxType
  <2>3. out' = out BY <1>5 DEF FwdRx
  <2>4. PICK n \in 0 .. nb_pkt_per_burst :
          /\ rxd[q] + n <= MaxPkts
          /\ n # 0 => rxd' = [rxd EXCEPT ![q] = @ + n]
          /\ n = 0 => rxd' = rxd
    BY <1>5, <2>1 DEF FwdRx
  <2>5. CASE n = 0 BY <2>3, <2>4, <2>5
  <2>6. CASE n # 0
    <3>1. n \in 1 .. MaxPkts - rxd[q]
      BY <2>2, <2>4, <2>6, PipelineAssumption
    <3>2. Promise!Receive(q) BY <2>3, <2>4, <2>6, <3>1 DEF Promise!Receive
    <3> QED BY <3>2 DEF Promise!Next
  <2> QED BY <2>5, <2>6
<1>6. CASE MFree
  <2>1. \A q \in Queues : Unreclaimed(q) = << >>
    BY <1>6 DEF MFree, Unreclaimed, IndInv, MainLocals
  <2> DEFINE S == Seq([pkt : Nat, how : {"tx", "free"}, swaps : Nat])
  <2>2. out \in [Queues -> S] BY DEF IndInv, TypeOK, OutType
  <2>3. \A q \in Queues : out[q] \o << >> = out[q] BY <2>2, ConcatEmptySeq
  <2> HIDE DEF S
  <2>4. \A q \in Queues : out[q] \o Unreclaimed(q) = out[q] BY <2>1, <2>3
  <2>5. out' = [q \in Queues |-> out[q]] /\ rxd' = rxd BY <1>6, <2>4 DEF MFree
  <2>6. out = [q \in Queues |-> out[q]] BY <2>2
  <2> QED BY <2>5, <2>6, Zenon
<1>7. CASE Fwd
  BY <1>3, <1>4, <1>5, <1>7
     DEF Fwd, FwdCheck, FwdWait, FwdArmedCheck, FwdWake, FwdDeadline, FwdWoke,
         Drain, DrainLoad, DrainStore, FwdRecheck, FwdPublish, FwdNext, history
<1>8. CASE Wk
  BY <1>3, <1>8 DEF Wk, WkPoll, WkIdle, WkScan, WkSwap, WkPublish, history
<1>9. CASE Main
  BY <1>3, <1>4, <1>6, <1>9
     DEF Main, MainSteps, MBegin, MBeginFails, MLaunch, MStop, MJoin, MFailJoin,
         MProcess, MProcessed, Drain, DrainLoad, DrainStore, history
<1>10. CASE UNCHANGED vars BY <1>3, <1>10 DEF vars, history
<1> QED BY <1>7, <1>8, <1>9, <1>10 DEF Next

\* The pipeline implements the in-order forwarder: however the two lcores
\* interleave, and however a stop ends it, each of its steps is a burst that
\* comes in, the oldest packets leaving swapped once, or nothing at all.
THEOREM PromiseKept == Spec => Promise!Spec
<1>1. Init => Promise!Init BY DEF Init, Promise!Init
<1>2. FullInv => Held BY FullHeld DEF FullInv
<1>3. FullInv /\ FullInv' /\ Held' /\ [Next]_vars => [Promise!Next]_(Promise!vars)
  <2> SUFFICES ASSUME FullInv, FullInv', Held', [Next]_vars
               PROVE  [Promise!Next]_(Promise!vars)
    OBVIOUS
  <2>1. Promise!Next \/ (rxd' = rxd /\ out' = out)
    BY PromiseNext DEF FullInv
  <2> QED BY <2>1 DEF Promise!vars
<1> QED BY <1>1, <1>2, <1>3, FullInductive, PTL DEF Spec, Promise!Spec

============================================================================
