----------------------- MODULE MacswapPipeline_proofs -----------------------
(***************************************************************************)
(* Safety of the macswap pipeline for every number of streams, ring depth, *)
(* burst size and number of packets: the inductive invariant IndInv and    *)
(* what follows from it.                                                   *)
(***************************************************************************)
EXTENDS MacswapPipeline, TLAPS, SequenceTheorems

USE DEF Queues, Pkts, Procs, Drainers

-----------------------------------------------------------------------------
\* Two cursors less than DEPTH apart are in different slots: the arithmetic
\* that lets one array of DEPTH slots serve unbounded cursors.
LEMMA SlotsDiffer ==
  ASSUME NEW a \in Nat, NEW b \in Nat, a < b, b < a + DEPTH
  PROVE  Slot(a) # Slot(b)
<1> SUFFICES ASSUME a % DEPTH = b % DEPTH PROVE FALSE BY DEF Slot
<1> USE PipelineAssumption
<1>1. a = DEPTH * (a \div DEPTH) + (a % DEPTH) BY SMT
<1>2. b = DEPTH * (b \div DEPTH) + (b % DEPTH) BY SMT
<1>3. a \div DEPTH \in Int /\ b \div DEPTH \in Int BY SMT
<1> DEFINE k == b \div DEPTH - a \div DEPTH
<1>4. k \in Int BY <1>3, SMT
<1>5. b - a = DEPTH * (b \div DEPTH) - DEPTH * (a \div DEPTH)
  BY <1>1, <1>2, SMT
<1>6. b - a = DEPTH * k BY <1>5, <1>3, SMT
<1>7. 0 < DEPTH * k /\ DEPTH * k < DEPTH BY <1>6, SMT
<1>8. CASE k <= 0
  <2>1. DEPTH * k <= 0 BY <1>8, <1>4, SMT
  <2> QED BY <2>1, <1>7, <1>4, SMT
<1>9. CASE k >= 1
  <2>1. DEPTH * k >= DEPTH BY <1>9, <1>4, SMT
  <2> QED BY <2>1, <1>7, <1>4, SMT
<1> QED BY <1>8, <1>9, <1>4, SMT

\* A cursor's slot is a slot of the ring.
LEMMA SlotType == \A c \in Nat : Slot(c) \in 0 .. DEPTH - 1
BY PipelineAssumption, SMT DEF Slot

\* What leaves a valid batch is a well-typed piece of the log.
LEMMA LeaveType ==
  ASSUME TypeOK, NEW q \in Queues, NEW f \in Nat, NEW n \in Nat,
         NEW how \in {"tx", "free"},
         n > 0 => f > 0 /\ f + n <= MaxPkts + 1
  PROVE  Leave(q, f, n, how) \in
           Seq([pkt : Nat, how : {"tx", "free"}, swaps : Nat])
<1> DEFINE R == [pkt : Nat, how : {"tx", "free"}, swaps : Nat]
           e(k) == [pkt |-> f + k - 1, how |-> how, swaps |-> swaps[q][f + k - 1]]
<1> USE PipelineAssumption
<1>1. ASSUME NEW k \in 1 .. n PROVE e(k) \in R
  <2>1. f + k - 1 \in Pkts BY SMT
  <2>2. swaps \in [Queues -> [Pkts -> Nat]] BY DEF TypeOK, RxType
  <2>3. swaps[q][f + k - 1] \in Nat BY <2>1, <2>2, SMT
  <2>4. f + k - 1 \in Nat BY <2>1, SMT
  <2> QED BY <2>3, <2>4
<1>2. [k \in 1 .. n |-> e(k)] \in [1 .. n -> R] BY <1>1
<1>3. [k \in 1 .. n |-> e(k)] \in UNION {[1 .. m -> R] : m \in Nat}
  BY <1>2, Zenon
<1>4. [k \in 1 .. n |-> e(k)] \in Seq(R) BY <1>3, SeqDef, Zenon
<1> QED BY <1>4, Zenon DEF Leave

\* A write to one slot changes that slot only.
LEMMA SlotUpdate ==
  ASSUME SlotsType, NEW q \in Queues, NEW s \in 0 .. DEPTH - 1, NEW b \in Batch,
         slots' = [slots EXCEPT ![q][s] = b]
  PROVE  /\ SlotsType'
         /\ slots'[q][s] = b
         /\ \A q2 \in Queues : \A s2 \in 0 .. DEPTH - 1 :
              q2 # q \/ s2 # s => slots'[q2][s2] = slots[q2][s2]
<1> DEFINE r == [slots[q] EXCEPT ![s] = b]
<1>1. slots \in [Queues -> [0 .. DEPTH - 1 -> Batch]] BY DEF SlotsType
<1>2. slots' = [slots EXCEPT ![q] = r] OBVIOUS
<1>3. r \in [0 .. DEPTH - 1 -> Batch] /\ r[s] = b
      /\ \A s2 \in 0 .. DEPTH - 1 : s2 # s => r[s2] = slots[q][s2]
  BY <1>1
<1> HIDE DEF r
<1>4. slots' \in [Queues -> [0 .. DEPTH - 1 -> Batch]] /\ slots'[q] = r
      /\ \A q2 \in Queues : q2 # q => slots'[q2] = slots[q2]
  BY <1>1, <1>2, <1>3
<1> QED BY <1>3, <1>4 DEF SlotsType

\* Counting n more in one field of the statistics keeps their type.
LEMMA StatsUpdate ==
  ASSUME StatsType, NEW q \in Queues, NEW n \in Nat,
         \/ stats' = [stats EXCEPT ![q].rx = @ + n]
         \/ stats' = [stats EXCEPT ![q].tx = @ + n]
         \/ stats' = [stats EXCEPT ![q].dropped = @ + n]
  PROVE  StatsType'
<1>1. stats[q] \in [rx : Nat, tx : Nat, dropped : Nat] BY DEF StatsType
<1>2. PICK r \in [rx : Nat, tx : Nat, dropped : Nat] :
        stats' = [stats EXCEPT ![q] = r]
  <2>1. CASE stats' = [stats EXCEPT ![q].rx = @ + n]
    <3> DEFINE r == [stats[q] EXCEPT !.rx = @ + n]
    <3>1. r \in [rx : Nat, tx : Nat, dropped : Nat] BY <1>1
    <3>2. stats' = [stats EXCEPT ![q] = r] BY <2>1
    <3> QED BY <3>1, <3>2
  <2>2. CASE stats' = [stats EXCEPT ![q].tx = @ + n]
    <3> DEFINE r == [stats[q] EXCEPT !.tx = @ + n]
    <3>1. r \in [rx : Nat, tx : Nat, dropped : Nat] BY <1>1
    <3>2. stats' = [stats EXCEPT ![q] = r] BY <2>2
    <3> QED BY <3>1, <3>2
  <2>3. CASE stats' = [stats EXCEPT ![q].dropped = @ + n]
    <3> DEFINE r == [stats[q] EXCEPT !.dropped = @ + n]
    <3>1. r \in [rx : Nat, tx : Nat, dropped : Nat] BY <1>1
    <3>2. stats' = [stats EXCEPT ![q] = r] BY <2>3
    <3> QED BY <3>1, <3>2
  <2> QED BY <2>1, <2>2, <2>3
<1> QED BY <1>2 DEF StatsType

-----------------------------------------------------------------------------
LEMMA InitInd == Init => IndInv
<1> USE PipelineAssumption DEF Init
<1> SUFFICES ASSUME Init PROVE IndInv OBVIOUS
<1>1. 0 \in Queues /\ 0 \in 0 .. burst_tx_retry_num /\ 0 \in 0 .. NbQueues
      /\ 0 \in 0 .. MaxPkts
  BY SMT
<1>2. CursorType /\ SlotsType
  BY DEF CursorType, SlotsType, Batch, ZeroBatch
<1>3. FlagType BY DEF FlagType
<1>4. PcType BY DEF PcType, FwdPC, WkPC, MainPC
<1>5. LocalType /\ RetryType /\ ScanType
  BY <1>1 DEF LocalType, RetryType, ScanType
<1>6. RxType /\ StatsType BY <1>1 DEF RxType, StatsType
<1>7. OutType
  <2>1. << >> \in Seq([pkt : Nat, how : {"tx", "free"}, swaps : Nat]) OBVIOUS
  <2> QED BY <2>1 DEF OutType
<1>8. BatchesValid BY DEF BatchesValid, ZeroBatch
<1>9. CursorOrder BY DEF CursorOrder
<1>10. DrainLocals /\ FwdLocals /\ WkLocals /\ MainLocals
  BY DEF DrainLocals, FwdLocals, WkLocals, MainLocals
<1> QED
  BY <1>2, <1>3, <1>4, <1>5, <1>6, <1>7, <1>8, <1>9, <1>10 DEF IndInv, TypeOK

-----------------------------------------------------------------------------
(* Quiet steps: an lcore moves on without touching a ring.                  *)

\* The forwarding lcore moves to l; what it knows there is to be shown.
LEMMA QuietFwd ==
  ASSUME IndInv,
         NEW l \in FwdPC \ {"off", "tx", "drop", "store"},
         pc["fwd"] # "off", pc' = [pc EXCEPT !["fwd"] = l],
         UNCHANGED <<ring, cur, rec, com, retry, next_queue, scanned, history>>,
         FlagType', FwdLocals'
  PROVE  IndInv'
<1>1. CursorType' /\ SlotsType'
  BY DEF IndInv, TypeOK, CursorType, SlotsType, ring
<1>2. PcType' BY DEF IndInv, TypeOK, PcType
<1>3. LocalType' /\ RetryType' /\ ScanType'
  BY DEF IndInv, TypeOK, LocalType, RetryType, ScanType
<1>4. RxType' /\ OutType' /\ StatsType'
  BY DEF IndInv, TypeOK, RxType, OutType, StatsType, history
<1>5. BatchesValid' BY DEF IndInv, BatchesValid, ring, history
<1>6. CursorOrder' BY DEF IndInv, CursorOrder, ring
<1>7. pc'["fwd"] = l /\ pc'["wk"] = pc["wk"] /\ pc'["main"] = pc["main"]
  BY DEF IndInv, TypeOK, PcType
<1>8. DrainLocals' BY <1>7 DEF IndInv, DrainLocals, ring
<1>9. WkLocals' BY <1>7 DEF IndInv, WkLocals, ring
<1>10. MainLocals' BY <1>7 DEF IndInv, MainLocals, ring
<1> QED BY <1>1, <1>2, <1>3, <1>4, <1>5, <1>6, <1>8, <1>9, <1>10
        DEF IndInv, TypeOK

\* The helper moves to l, perhaps on another stream.
LEMMA QuietWk ==
  ASSUME IndInv,
         NEW l \in WkPC, NEW q \in Queues,
         pc["wk"] # "off", pc' = [pc EXCEPT !["wk"] = l],
         cur' = [cur EXCEPT !["wk"] = q],
         UNCHANGED <<ring, stopped, abort, rec, com, retry, full, woken,
                     next_queue, rxd, out, stats>>,
         ScanType', RxType', WkLocals'
  PROVE  IndInv'
<1>1. CursorType' /\ SlotsType' /\ FlagType'
  BY DEF IndInv, TypeOK, CursorType, SlotsType, FlagType, ring
<1>2. PcType' BY DEF IndInv, TypeOK, PcType
<1>3. LocalType' /\ RetryType' BY DEF IndInv, TypeOK, LocalType, RetryType
<1>4. OutType' /\ StatsType' BY DEF IndInv, TypeOK, OutType, StatsType
<1>5. BatchesValid' BY DEF IndInv, BatchesValid, ring
<1>6. CursorOrder' BY DEF IndInv, CursorOrder, ring
<1>7. /\ pc'["fwd"] = pc["fwd"] /\ pc'["wk"] = l /\ pc'["main"] = pc["main"]
      /\ cur'["fwd"] = cur["fwd"] /\ cur'["main"] = cur["main"]
  BY DEF IndInv, TypeOK, PcType, LocalType
<1>8. DrainLocals' BY <1>7 DEF IndInv, DrainLocals, ring
<1>9. FwdLocals' BY <1>7 DEF IndInv, FwdLocals, ring
<1>10. MainLocals' BY <1>7 DEF IndInv, MainLocals, ring
<1> QED BY <1>1, <1>2, <1>3, <1>4, <1>5, <1>6, <1>8, <1>9, <1>10
        DEF IndInv, TypeOK

\* The main lcore moves to l, perhaps on another stream.
LEMMA QuietMain ==
  ASSUME IndInv,
         NEW l \in MainPC \ {"tx", "drop", "store"}, NEW q \in Queues,
         pc' = [pc EXCEPT !["main"] = l], cur' = [cur EXCEPT !["main"] = q],
         UNCHANGED <<ring, rec, com, retry, full, woken, scanned, history>>,
         FlagType', ScanType', MainLocals'
  PROVE  IndInv'
<1>1. CursorType' /\ SlotsType'
  BY DEF IndInv, TypeOK, CursorType, SlotsType, ring
<1>2. PcType' BY DEF IndInv, TypeOK, PcType
<1>3. LocalType' /\ RetryType' BY DEF IndInv, TypeOK, LocalType, RetryType
<1>4. RxType' /\ OutType' /\ StatsType'
  BY DEF IndInv, TypeOK, RxType, OutType, StatsType, history
<1>5. BatchesValid' BY DEF IndInv, BatchesValid, ring, history
<1>6. CursorOrder' BY DEF IndInv, CursorOrder, ring
<1>7. /\ pc'["fwd"] = pc["fwd"] /\ pc'["wk"] = pc["wk"] /\ pc'["main"] = l
      /\ cur'["fwd"] = cur["fwd"] /\ cur'["wk"] = cur["wk"]
  BY DEF IndInv, TypeOK, PcType, LocalType
<1>8. DrainLocals' BY <1>7 DEF IndInv, DrainLocals, ring
<1>9. FwdLocals' BY <1>7 DEF IndInv, FwdLocals, ring
<1>10. WkLocals' BY <1>7 DEF IndInv, WkLocals, ring
<1> QED BY <1>1, <1>2, <1>3, <1>4, <1>5, <1>6, <1>8, <1>9, <1>10
        DEF IndInv, TypeOK

-----------------------------------------------------------------------------
(* The forwarding lcore.                                                    *)

LEMMA FwdCheckInd == ASSUME IndInv, FwdCheck PROVE IndInv'
<1> DEFINE q == cur["fwd"]
           some == completed[q] # reclaimed[q]
           l == IF RingFull(q) THEN IF some THEN "drain" ELSE "wait" ELSE "rx"
<1>1. pc' = [pc EXCEPT !["fwd"] = l] BY DEF FwdCheck, GoTo
<1>2. pc["fwd"] = "check" /\ pc'["fwd"] = l
  BY <1>1 DEF FwdCheck, IndInv, TypeOK, PcType
<1>3. /\ q \in Queues /\ submitted[q] \in Nat /\ reclaimed[q] \in Nat
      /\ completed[q] \in Nat /\ reclaimed[q] <= completed[q]
      /\ submitted[q] <= reclaimed[q] + DEPTH
  BY DEF IndInv, TypeOK, LocalType, CursorType, CursorOrder
<1>4. full = FALSE BY <1>2 DEF IndInv, FwdLocals, TypeOK, FlagType
<1>5. l = "rx" => submitted[q] < reclaimed[q] + DEPTH
  BY <1>3, PipelineAssumption DEF RingFull
<1>6. full' = (RingFull(q) /\ some)
  BY <1>4, Zenon DEF FwdCheck
<1>7. RingFull(q) /\ some => l = "drain" /\ reclaimed[q] < completed[q]
  BY <1>3
<1> HIDE DEF l, some
<1>8. UNCHANGED <<submitted, completed, reclaimed, cur, com>>
  BY DEF FwdCheck, ring
<1>9. l \in {"wait", "drain", "rx"} BY DEF l
<1>10. FwdLocals' BY <1>2, <1>5, <1>6, <1>7, <1>8, <1>9 DEF FwdLocals
<1>11. FlagType'
  <2>1. full' \in BOOLEAN BY <1>6
  <2> QED BY <2>1 DEF FwdCheck, IndInv, TypeOK, FlagType, ring
<1>12. UNCHANGED <<ring, cur, rec, com, retry, next_queue, scanned, history>>
  BY DEF FwdCheck
<1>13. l \in FwdPC \ {"off", "tx", "drop", "store"} BY <1>9 DEF FwdPC
<1> QED BY <1>1, <1>2, <1>10, <1>11, <1>12, <1>13, QuietFwd

\* A step of the wait on a full ring, up to its end.
LEMMA WaitingInd ==
  ASSUME IndInv, NEW l \in {"armed", "asleep", "woke", "check", "next"},
         pc["fwd"] \in {"wait", "armed", "asleep", "woke"},
         pc' = [pc EXCEPT !["fwd"] = l], woken' \in BOOLEAN,
         UNCHANGED <<ring, stopped, abort, cur, rec, com, retry, full,
                     next_queue, scanned, history>>
  PROVE  IndInv'
<1>1. pc'["fwd"] = l BY DEF IndInv, TypeOK, PcType
<1>2. full = FALSE BY DEF IndInv, FwdLocals, TypeOK, FlagType
<1>3. FwdLocals' BY <1>1, <1>2 DEF FwdLocals
<1>4. FlagType' BY DEF IndInv, TypeOK, FlagType, ring
<1>5. l \in FwdPC \ {"off", "tx", "drop", "store"} BY DEF FwdPC
<1> QED BY <1>3, <1>4, <1>5, QuietFwd

LEMMA WaitInd ==
  ASSUME IndInv,
         FwdWait \/ FwdArmedCheck \/ FwdWake \/ FwdDeadline \/ FwdWoke
  PROVE  IndInv'
<1>1. woken \in BOOLEAN BY DEF IndInv, TypeOK, FlagType
<1>2. CASE FwdWait
  BY <1>1, <1>2, WaitingInd DEF FwdWait, GoTo
<1>3. CASE FwdArmedCheck
  BY <1>1, <1>3, WaitingInd DEF FwdArmedCheck, GoTo
<1>4. CASE FwdWake
  BY <1>1, <1>4, WaitingInd DEF FwdWake, GoTo
<1>5. CASE FwdDeadline
  BY <1>1, <1>5, WaitingInd DEF FwdDeadline, GoTo
<1>6. CASE FwdWoke
  BY <1>1, <1>6, WaitingInd DEF FwdWoke, GoTo
<1> QED BY <1>2, <1>3, <1>4, <1>5, <1>6

LEMMA FwdRecheckInd == ASSUME IndInv, FwdRecheck PROVE IndInv'
<1>1. PICK l \in {"next", "rx"} : pc' = [pc EXCEPT !["fwd"] = l]
  BY DEF FwdRecheck, GoTo
<1>2. pc["fwd"] = "recheck" /\ pc'["fwd"] = l
  BY <1>1 DEF FwdRecheck, IndInv, TypeOK, PcType
<1>3. FwdLocals' BY <1>2 DEF FwdRecheck, IndInv, FwdLocals, ring
<1>4. FlagType' BY DEF FwdRecheck, IndInv, TypeOK, FlagType, ring
<1>5. l \in FwdPC \ {"off", "tx", "drop", "store"} BY DEF FwdPC
<1>6. UNCHANGED <<ring, cur, rec, com, retry, next_queue, scanned, history>>
  BY DEF FwdRecheck
<1> QED BY <1>1, <1>2, <1>3, <1>4, <1>5, <1>6, QuietFwd

\* The burst lands in one slot of one ring; no cursor moves.
LEMMA FwdRxInd == ASSUME IndInv, FwdRx PROVE IndInv'
<1> DEFINE q == cur["fwd"]
           s == Slot(submitted[q])
<1>1. /\ pc["fwd"] = "rx" /\ q \in Queues /\ submitted[q] \in Nat
      /\ s \in 0 .. DEPTH - 1
  BY SlotType DEF FwdRx, IndInv, TypeOK, LocalType, CursorType
<1>2. full = FALSE BY <1>1 DEF IndInv, FwdLocals, TypeOK, FlagType
<1>3. /\ submitted' = submitted /\ completed' = completed
      /\ reclaimed' = reclaimed /\ live' = live /\ stopped' = stopped
      /\ abort' = abort /\ cur' = cur /\ rec' = rec /\ com' = com
      /\ retry' = retry /\ full' = full /\ woken' = woken
      /\ next_queue' = next_queue /\ scanned' = scanned /\ swaps' = swaps
      /\ out' = out
  BY DEF FwdRx
<1>4. PICK n \in 0 .. nb_pkt_per_burst :
        /\ rxd[q] + n <= MaxPkts
        /\ IF n = 0
           THEN GoTo("fwd", "drain") /\ UNCHANGED <<slots, rxd, stats>>
           ELSE /\ slots' = [slots EXCEPT ![q][s] = NewBatch(@, rxd[q] + 1, n)]
                /\ rxd' = [rxd EXCEPT ![q] = @ + n]
                /\ stats' = [stats EXCEPT ![q].rx = @ + n]
                /\ GoTo("fwd", "publish")
  BY DEF FwdRx
<1>5. n \in Nat /\ rxd \in [Queues -> 0 .. MaxPkts] /\ rxd[q] \in Nat
  BY <1>1, PipelineAssumption DEF IndInv, TypeOK, RxType
<1>6. PICK l \in {"drain", "publish"} : pc' = [pc EXCEPT !["fwd"] = l]
  BY <1>4 DEF GoTo
<1> DEFINE b == NewBatch(slots[q][s], rxd[q] + 1, n)
<1>a. b = [first |-> rxd[q] + 1, nb_rx |-> n, tx_sent |-> 0] BY DEF NewBatch
<1>b. b \in Batch BY <1>5, <1>a DEF Batch
<1>c. n # 0 => slots' = [slots EXCEPT ![q][s] = b] BY <1>4
<1>d. n # 0 => rxd' = [rxd EXCEPT ![q] = rxd[q] + n] BY <1>4
<1>e. n # 0 => stats' = [stats EXCEPT ![q].rx = @ + n] BY <1>4
<1>f. n = 0 => slots' = slots /\ rxd' = rxd /\ stats' = stats BY <1>4
<1>g. SlotsType /\ StatsType BY DEF IndInv, TypeOK
<1> HIDE DEF q, s, b
<1>7. /\ pc'["fwd"] = l /\ pc'["wk"] = pc["wk"] /\ pc'["main"] = pc["main"]
      /\ PcType'
  BY <1>6 DEF IndInv, TypeOK, PcType, FwdPC
<1>8. CursorType' /\ FlagType' /\ LocalType' /\ RetryType' /\ ScanType' /\ OutType'
  BY <1>3 DEF IndInv, TypeOK, CursorType, FlagType, LocalType, RetryType,
              ScanType, OutType
<1>9. SlotsType'
  BY <1>1, <1>b, <1>c, <1>f, <1>g, SlotUpdate DEF SlotsType
<1>10. RxType'
  <2>1. rxd' \in [Queues -> 0 .. MaxPkts]
    <3>1. rxd[q] + n \in 0 .. MaxPkts BY <1>4, <1>5, PipelineAssumption
    <3> QED BY <1>5, <1>d, <1>f, <3>1
  <2> QED BY <1>3, <2>1 DEF IndInv, TypeOK, RxType
<1>11. StatsType'
  BY <1>1, <1>5, <1>e, <1>f, <1>g, StatsUpdate DEF StatsType
<1>12. BatchesValid'
  <2>1. CASE n = 0 BY <1>f, <2>1 DEF IndInv, BatchesValid
  <2>2. CASE n # 0
    <3> SUFFICES ASSUME NEW q2 \in Queues, NEW s2 \in 0 .. DEPTH - 1
                 PROVE  LET t == slots'[q2][s2] IN
                        /\ t.tx_sent <= t.nb_rx
                        /\ t.nb_rx > 0 => /\ t.first > 0
                                          /\ t.first + t.nb_rx <= rxd'[q2] + 1
      BY DEF BatchesValid
    <3>1. CASE q2 = q /\ s2 = s
      <4>1. slots'[q][s] = b BY <1>1, <1>b, <1>c, <1>g, <2>2, SlotUpdate
      <4>2. rxd'[q] = rxd[q] + n BY <1>1, <1>5, <1>d, <2>2
      <4> QED BY <3>1, <4>1, <4>2, <1>5, <1>a
    <3>2. CASE ~(q2 = q /\ s2 = s)
      <4>1. slots'[q2][s2] = slots[q2][s2]
        BY <1>1, <1>b, <1>c, <1>g, <2>2, <3>2, SlotUpdate
      <4>2. rxd[q2] \in Nat /\ rxd'[q2] \in Nat /\ rxd[q2] <= rxd'[q2]
        BY <1>1, <1>5, <1>d, <2>2, PipelineAssumption
      <4>3. slots[q2][s2] \in Batch BY <1>g DEF SlotsType
      <4> QED BY <4>1, <4>2, <4>3 DEF IndInv, BatchesValid, Batch
    <3> QED BY <3>1, <3>2
  <2> QED BY <2>1, <2>2
<1>13. CursorOrder' BY <1>3 DEF IndInv, CursorOrder
<1>14. DrainLocals' BY <1>3, <1>7 DEF IndInv, DrainLocals
<1>15. FwdLocals' BY <1>1, <1>2, <1>3, <1>7 DEF IndInv, FwdLocals
<1>16. WkLocals' BY <1>3, <1>7 DEF IndInv, WkLocals
<1>17. MainLocals' BY <1>1, <1>3, <1>7 DEF IndInv, MainLocals
<1> QED BY <1>7, <1>8, <1>9, <1>10, <1>11, <1>12, <1>13, <1>14, <1>15, <1>16,
           <1>17 DEF IndInv, TypeOK

\* Publishing advances the submitted cursor into the room that was checked.
LEMMA FwdPublishInd == ASSUME IndInv, FwdPublish PROVE IndInv'
<1> DEFINE q == cur["fwd"]
<1>1. /\ pc["fwd"] = "publish" /\ q \in Queues
      /\ pc' = [pc EXCEPT !["fwd"] = "drain"]
      /\ submitted' = [submitted EXCEPT ![q] = @ + 1]
  BY DEF FwdPublish, GoTo, IndInv, TypeOK, LocalType
<1>2. full = FALSE BY <1>1 DEF IndInv, FwdLocals, TypeOK, FlagType
<1>3. /\ completed' = completed /\ reclaimed' = reclaimed /\ slots' = slots
      /\ live' = live /\ stopped' = stopped /\ abort' = abort /\ cur' = cur
      /\ rec' = rec /\ com' = com /\ retry' = retry /\ full' = full
      /\ woken' = woken /\ next_queue' = next_queue /\ scanned' = scanned
      /\ rxd' = rxd /\ swaps' = swaps /\ out' = out /\ stats' = stats
  BY DEF FwdPublish, history
<1>4. /\ pc'["fwd"] = "drain" /\ pc'["wk"] = pc["wk"]
      /\ pc'["main"] = pc["main"] /\ PcType'
  BY <1>1 DEF IndInv, TypeOK, PcType, FwdPC
<1>5. CursorType' BY <1>1, <1>3 DEF IndInv, TypeOK, CursorType
<1>6. SlotsType' /\ FlagType' /\ LocalType' /\ RetryType' /\ ScanType'
      /\ RxType' /\ OutType' /\ StatsType'
  BY <1>3 DEF IndInv, TypeOK, SlotsType, FlagType, LocalType, RetryType,
              ScanType, RxType, OutType, StatsType
<1>7. BatchesValid' BY <1>3 DEF IndInv, BatchesValid
<1>8. CursorOrder'
  <2>1. submitted[q] < reclaimed[q] + DEPTH BY <1>1 DEF IndInv, FwdLocals
  <2>2. submitted' \in [Queues -> Nat] /\ submitted'[q] = submitted[q] + 1
        /\ \A q2 \in Queues \ {q} : submitted'[q2] = submitted[q2]
    BY <1>1, <1>5 DEF IndInv, TypeOK, CursorType
  <2> HIDE DEF q
  <2>3. \A q2 \in Queues : submitted[q2] \in Nat /\ completed[q2] \in Nat
                            /\ reclaimed[q2] \in Nat
    BY DEF IndInv, TypeOK, CursorType
  <2> QED BY <1>1, <1>3, <2>1, <2>2, <2>3, PipelineAssumption, SMTT(30)
          DEF IndInv, CursorOrder
<1>9. DrainLocals' BY <1>3, <1>4 DEF IndInv, DrainLocals
<1>10. FwdLocals' BY <1>2, <1>3, <1>4 DEF FwdLocals
<1>11. WkLocals'
  BY <1>1, <1>3, <1>4 DEF IndInv, WkLocals, TypeOK, CursorType, LocalType
<1>12. MainLocals' BY <1>1, <1>3, <1>4 DEF IndInv, MainLocals
<1> QED BY <1>4, <1>5, <1>6, <1>7, <1>8, <1>9, <1>10, <1>11, <1>12
        DEF IndInv, TypeOK

LEMMA FwdNextInd == ASSUME IndInv, FwdNext PROVE IndInv'
<1>1. PICK l \in {"check", "off"} : pc' = [pc EXCEPT !["fwd"] = l]
  BY DEF FwdNext, GoTo
<1>2. PICK q \in Queues : cur' = [cur EXCEPT !["fwd"] = q]
  <2>1. cur["fwd"] \in Queues /\ 0 \in Queues
    BY PipelineAssumption DEF IndInv, TypeOK, LocalType
  <2> QED BY <2>1, PipelineAssumption DEF FwdNext
<1>3. UNCHANGED <<ring, stopped, abort, rec, com, retry, full, woken,
                  next_queue, scanned, history>>
  BY DEF FwdNext
<1>4. /\ pc["fwd"] = "next" /\ pc'["fwd"] = l /\ pc'["wk"] = pc["wk"]
      /\ pc'["main"] = pc["main"] /\ PcType'
  BY <1>1 DEF FwdNext, IndInv, TypeOK, PcType, FwdPC
<1>5. cur'["wk"] = cur["wk"] /\ cur'["main"] = cur["main"] /\ LocalType'
  BY <1>2, <1>3 DEF IndInv, TypeOK, LocalType
<1>6. full = FALSE BY <1>4 DEF IndInv, FwdLocals, TypeOK, FlagType
<1>7. CursorType' /\ SlotsType' /\ FlagType' /\ RetryType' /\ ScanType'
      /\ RxType' /\ OutType' /\ StatsType'
  BY <1>3 DEF IndInv, TypeOK, CursorType, SlotsType, FlagType, RetryType,
              ScanType, RxType, OutType, StatsType, ring, history
<1>8. BatchesValid' BY <1>3 DEF IndInv, BatchesValid, ring, history
<1>9. CursorOrder' BY <1>3 DEF IndInv, CursorOrder, ring
<1>10. DrainLocals' BY <1>3, <1>4, <1>5 DEF IndInv, DrainLocals, ring
<1>11. FwdLocals' BY <1>3, <1>4, <1>6 DEF FwdLocals
<1>12. WkLocals' BY <1>3, <1>4, <1>5 DEF IndInv, WkLocals, ring
<1>13. MainLocals' BY <1>3, <1>4, <1>5 DEF IndInv, MainLocals, ring
<1> QED BY <1>4, <1>5, <1>7, <1>8, <1>9, <1>10, <1>11, <1>12, <1>13
        DEF IndInv, TypeOK

-----------------------------------------------------------------------------
(* The drain of a ring, by the forwarding lcore or by the main lcore.       *)

\* Whoever drains, the other two are where they cannot drain the same ring.
LEMMA DrainerAlone ==
  ASSUME IndInv, NEW p \in Drainers, pc[p] \in {"drain", "tx", "drop", "store"}
  PROVE  /\ p = "main" => pc["fwd"] = "off" /\ pc["wk"] = "off"
         /\ p = "fwd" => pc["main"] \in {"forwarding", "join"}
         /\ full => p = "fwd"
         /\ cur[p] \in Queues
BY DEF IndInv, MainLocals, FwdLocals, TypeOK, FlagType, LocalType

LEMMA DrainLoadInd ==
  ASSUME IndInv, NEW p \in Drainers, DrainLoad(p) PROVE IndInv'
<1> DEFINE q == cur[p]
           l == IF reclaimed[q] # completed[q] THEN "tx" ELSE "store"
<1>1. /\ pc[p] = "drain"
      /\ pc' = [pc EXCEPT ![p] = l]
      /\ rec' = [rec EXCEPT ![p] = reclaimed[q]]
      /\ com' = [com EXCEPT ![p] = completed[q]]
      /\ retry' = [retry EXCEPT ![p] = 0]
  BY DEF DrainLoad, GoTo
<1>2. UNCHANGED <<ring, stopped, abort, cur, full, woken, next_queue, scanned,
                  history>>
  BY DEF DrainLoad
<1>3. /\ q \in Queues /\ reclaimed[q] \in Nat /\ completed[q] \in Nat
      /\ reclaimed[q] <= completed[q]
  BY DEF IndInv, TypeOK, CursorType, LocalType, CursorOrder
<1>4. /\ l \in {"tx", "store"}
      /\ l = "tx" => reclaimed[q] < completed[q]
      /\ l = "store" => reclaimed[q] = completed[q]
  BY <1>3
<1> HIDE DEF l, q
<1>5. /\ pc'[p] = l /\ \A o \in Procs : o # p => pc'[o] = pc[o]
      /\ PcType'
  BY <1>1, <1>4 DEF IndInv, TypeOK, PcType, FwdPC, MainPC
<1>6. /\ rec'[p] = reclaimed[q] /\ com'[p] = completed[q]
      /\ \A o \in Drainers : o # p => rec'[o] = rec[o] /\ com'[o] = com[o]
      /\ LocalType'
  BY <1>1, <1>2, <1>3 DEF IndInv, TypeOK, LocalType
<1>7. RetryType'
  BY <1>1, PipelineAssumption DEF IndInv, TypeOK, RetryType
<1>8. CursorType' /\ SlotsType' /\ FlagType' /\ ScanType' /\ RxType' /\ OutType'
      /\ StatsType'
  BY <1>2 DEF IndInv, TypeOK, CursorType, SlotsType, FlagType, ScanType, RxType,
              OutType, StatsType, ring, history
<1>9. BatchesValid' BY <1>2 DEF IndInv, BatchesValid, ring, history
<1>10. CursorOrder' BY <1>2 DEF IndInv, CursorOrder, ring
<1>11. DrainLocals'
  BY <1>2, <1>3, <1>4, <1>5, <1>6 DEF IndInv, DrainLocals, ring, q
<1>12. FwdLocals'
  <2>1. CASE p = "fwd"
    BY <1>1, <1>2, <1>4, <1>5, <1>6, <2>1 DEF IndInv, FwdLocals, ring, q
  <2>2. CASE p = "main"
    BY <1>1, <1>2, <1>5, <1>6, <2>2, DrainerAlone DEF IndInv, FwdLocals, ring
  <2> QED BY <2>1, <2>2
<1>13. WkLocals' BY <1>2, <1>5 DEF IndInv, WkLocals, ring
<1>14. MainLocals'
  <2>1. CASE p = "fwd"
    BY <1>1, <1>2, <1>5, <1>6, <2>1, DrainerAlone DEF IndInv, MainLocals, ring
  <2>2. CASE p = "main"
    BY <1>1, <1>2, <1>4, <1>5, <1>6, <2>2 DEF IndInv, MainLocals, ring, q
  <2> QED BY <2>1, <2>2
<1> QED BY <1>5, <1>6, <1>7, <1>8, <1>9, <1>10, <1>11, <1>12, <1>13, <1>14
        DEF IndInv, TypeOK

\* One step of macswap_transmit_batch: the batch's tx_sent grows, and the drain
\* stays on the batch or goes on to the next.
LEMMA TransmitInd ==
  ASSUME IndInv, NEW p \in Drainers, pc[p] \in {"tx", "drop"},
         NEW b \in Batch, SlotsType', slots'[cur[p]][Slot(rec[p])] = b,
         \A q2 \in Queues : \A s2 \in 0 .. DEPTH - 1 :
           q2 # cur[p] \/ s2 # Slot(rec[p]) => slots'[q2][s2] = slots[q2][s2],
         b.first = BatchAt(cur[p], rec[p]).first,
         b.nb_rx = BatchAt(cur[p], rec[p]).nb_rx, b.tx_sent <= b.nb_rx,
         UNCHANGED <<submitted, completed, reclaimed, live, stopped, abort, cur,
                     com, full, woken, next_queue, scanned, rxd, swaps>>,
         RetryType', OutType', StatsType',
         NEW l \in {"tx", "drop", "store"}, pc' = [pc EXCEPT ![p] = l],
         NEW r \in Nat, rec' = [rec EXCEPT ![p] = r],
         \/ r = rec[p] /\ l # "store"
         \/ r = rec[p] + 1 /\ l = IF r # com[p] THEN "tx" ELSE "store"
  PROVE  IndInv'
<1> DEFINE q == cur[p]
<1>1. /\ q \in Queues /\ rec[p] \in Nat /\ com[p] \in Nat
      /\ reclaimed[q] \in Nat /\ reclaimed[q] <= rec[p] /\ rec[p] < com[p]
  BY DEF IndInv, TypeOK, LocalType, CursorType, DrainLocals
<1>2. /\ l \in {"tx", "drop"} => reclaimed[q] <= r /\ r < com[p]
      /\ l = "store" => reclaimed[q] <= r /\ r = com[p]
  BY <1>1
<1> HIDE DEF q
<1>3. /\ pc'[p] = l /\ \A o \in Procs : o # p => pc'[o] = pc[o]
      /\ PcType'
  BY DEF IndInv, TypeOK, PcType, FwdPC, MainPC
<1>4. /\ rec'[p] = r /\ \A o \in Drainers : o # p => rec'[o] = rec[o]
      /\ LocalType'
  BY DEF IndInv, TypeOK, LocalType
<1>5. Slot(rec[p]) \in 0 .. DEPTH - 1 BY <1>1, SlotType
<1>6. /\ slots'[q][Slot(rec[p])] = b
      /\ \A q2 \in Queues : \A s2 \in 0 .. DEPTH - 1 :
           q2 # q \/ s2 # Slot(rec[p]) => slots'[q2][s2] = slots[q2][s2]
  BY DEF q
<1>7. CursorType' /\ FlagType' /\ ScanType' /\ RxType'
  BY DEF IndInv, TypeOK, CursorType, FlagType, ScanType, RxType
<1>8. BatchesValid'
  <2> SUFFICES ASSUME NEW q2 \in Queues, NEW s2 \in 0 .. DEPTH - 1
               PROVE  LET c == slots'[q2][s2] IN
                      /\ c.tx_sent <= c.nb_rx
                      /\ c.nb_rx > 0 => /\ c.first > 0
                                        /\ c.first + c.nb_rx <= rxd'[q2] + 1
    BY DEF BatchesValid
  <2>1. CASE q2 = q /\ s2 = Slot(rec[p])
    BY <1>1, <1>5, <1>6, <2>1 DEF IndInv, BatchesValid, BatchAt, q
  <2>2. CASE ~(q2 = q /\ s2 = Slot(rec[p]))
    <3>1. slots'[q2][s2] = slots[q2][s2] BY <1>6, <2>2
    <3> QED BY <3>1 DEF IndInv, BatchesValid
  <2> QED BY <2>1, <2>2
<1>9. CursorOrder' BY DEF IndInv, CursorOrder
<1>10. DrainLocals'
  BY <1>2, <1>3, <1>4 DEF IndInv, DrainLocals, q
<1>11. FwdLocals'
  <2>1. CASE p = "fwd"
    <3>1. reclaimed[q] < com[p] BY <1>1
    <3> QED BY <1>3, <2>1, <3>1 DEF IndInv, FwdLocals, q
  <2>2. CASE p = "main"
    BY <1>3, <2>2, DrainerAlone DEF IndInv, FwdLocals
  <2> QED BY <2>1, <2>2
<1>12. WkLocals' BY <1>3 DEF IndInv, WkLocals
<1>13. MainLocals'
  <2>1. CASE p = "fwd"
    BY <1>3, <2>1, DrainerAlone DEF IndInv, MainLocals
  <2>2. CASE p = "main"
    BY <1>3, <2>2 DEF IndInv, MainLocals
  <2> QED BY <2>1, <2>2
<1> QED BY <1>3, <1>4, <1>7, <1>8, <1>9, <1>10, <1>11, <1>12, <1>13
        DEF IndInv, TypeOK

\* The batch under transmission is valid, so is the piece of it that leaves.
LEMMA BatchInTransmit ==
  ASSUME IndInv, NEW p \in Drainers, pc[p] \in {"tx", "drop"}
  PROVE  LET b == BatchAt(cur[p], rec[p]) IN
         /\ b \in Batch /\ b.tx_sent <= b.nb_rx
         /\ \A n \in 0 .. b.nb_rx - b.tx_sent : \A how \in {"tx", "free"} :
              Leave(cur[p], b.first + b.tx_sent, n, how) \in
                Seq([pkt : Nat, how : {"tx", "free"}, swaps : Nat])
<1> DEFINE q == cur[p]
           b == BatchAt(q, rec[p])
<1>1. /\ q \in Queues /\ rec[p] \in Nat
      /\ rxd[q] \in 0 .. MaxPkts
  BY DEF IndInv, TypeOK, LocalType, RxType
<1>2. Slot(rec[p]) \in 0 .. DEPTH - 1 BY <1>1, SlotType
<1>3. b \in Batch BY <1>1, <1>2 DEF BatchAt, IndInv, TypeOK, SlotsType
<1>4. /\ b.tx_sent <= b.nb_rx
      /\ b.nb_rx > 0 => b.first > 0 /\ b.first + b.nb_rx <= rxd[q] + 1
  BY <1>1, <1>2 DEF BatchAt, IndInv, BatchesValid
<1>5. b.first \in Nat /\ b.nb_rx \in Nat /\ b.tx_sent \in Nat
  BY <1>3 DEF Batch
<1>6. TypeOK BY DEF IndInv
<1>7. ASSUME NEW n \in 0 .. b.nb_rx - b.tx_sent, NEW how \in {"tx", "free"}
      PROVE  Leave(q, b.first + b.tx_sent, n, how) \in
               Seq([pkt : Nat, how : {"tx", "free"}, swaps : Nat])
  <2> DEFINE f == b.first + b.tx_sent
  <2>1. f \in Nat /\ n \in Nat BY <1>5
  <2>2. n > 0 => f > 0 /\ f + n <= MaxPkts + 1
    BY <1>1, <1>4, <1>5, PipelineAssumption
  <2> HIDE DEF f, b, q
  <2> QED BY <1>1, <1>6, <2>1, <2>2, LeaveType DEF f
<1> QED BY <1>3, <1>4, <1>7

LEMMA AppendOut ==
  ASSUME OutType, NEW q \in Queues,
         NEW e \in Seq([pkt : Nat, how : {"tx", "free"}, swaps : Nat]),
         out' = [out EXCEPT ![q] = @ \o e]
  PROVE  OutType'
<1> DEFINE S == Seq([pkt : Nat, how : {"tx", "free"}, swaps : Nat])
<1>1. out \in [Queues -> S] BY DEF OutType
<1>2. out[q] \o e \in S BY <1>1, ConcatProperties
<1> HIDE DEF S
<1>3. out' \in [Queues -> S] BY <1>1, <1>2
<1> QED BY <1>3 DEF S, OutType

LEMMA TxBurstInd ==
  ASSUME IndInv, NEW p \in Drainers, TxBurst(p) PROVE IndInv'
<1> DEFINE q == cur[p]
           s == Slot(rec[p])
           b == BatchAt(q, rec[p])
           left == b.nb_rx - b.tx_sent
<1>1. pc[p] = "tx" BY DEF TxBurst
<1>2. PICK n \in 0 .. left :
        /\ slots' = [slots EXCEPT ![q][s].tx_sent = @ + n]
        /\ out' = [out EXCEPT ![q] =
                     @ \o Leave(q, b.first + b.tx_sent, n, "tx")]
        /\ stats' = [stats EXCEPT ![q].tx = @ + n]
        /\ IF n = left
           THEN NextBatch(p)
           ELSE /\ IF RetryEnabled /\ retry[p] < burst_tx_retry_num
                   THEN /\ retry' = [retry EXCEPT ![p] = @ + 1]
                        /\ UNCHANGED pc
                   ELSE GoTo(p, "drop") /\ UNCHANGED retry
                /\ UNCHANGED rec
  BY DEF TxBurst
<1>3. UNCHANGED <<submitted, completed, reclaimed, live, stopped, abort, cur,
                  com, full, woken, next_queue, scanned, rxd, swaps>>
  BY DEF TxBurst
<1>4. /\ b \in Batch /\ b.tx_sent <= b.nb_rx
      /\ Leave(q, b.first + b.tx_sent, n, "tx") \in
           Seq([pkt : Nat, how : {"tx", "free"}, swaps : Nat])
  BY <1>1, BatchInTransmit
<1>5. q \in Queues /\ rec[p] \in Nat /\ com[p] \in Nat
      /\ rec \in [Drainers -> Nat] /\ pc \in [Procs -> FwdPC \cup WkPC \cup MainPC]
      /\ retry \in [Drainers -> 0 .. burst_tx_retry_num]
      /\ SlotsType /\ OutType /\ StatsType
  BY DEF IndInv, TypeOK, LocalType, PcType, RetryType
<1>6. s \in 0 .. DEPTH - 1 BY <1>5, SlotType
<1> DEFINE b2 == [b EXCEPT !.tx_sent = @ + n]
<1>7. n \in Nat /\ b.tx_sent \in Nat /\ b.nb_rx \in Nat BY <1>4 DEF Batch
<1>8. /\ b2 \in Batch /\ b2.first = b.first /\ b2.nb_rx = b.nb_rx
      /\ b2.tx_sent <= b2.nb_rx
  BY <1>4, <1>7 DEF Batch
<1>9. slots' = [slots EXCEPT ![q][s] = b2]
  BY <1>2, <1>5, <1>6 DEF BatchAt, SlotsType
<1>10. OutType' BY <1>2, <1>4, <1>5, AppendOut
<1>11. StatsType' BY <1>2, <1>5, <1>7, StatsUpdate
<1> HIDE DEF q, s, b2
<1>u. /\ SlotsType' /\ slots'[q][s] = b2
       /\ \A q2 \in Queues : \A s2 \in 0 .. DEPTH - 1 :
            q2 # q \/ s2 # s => slots'[q2][s2] = slots[q2][s2]
  <2>1. q \in Queues /\ SlotsType /\ b2 \in Batch BY <1>5, <1>8
  <2> QED BY <1>6, <1>9, <2>1, SlotUpdate, ZenonT(30) DEF SlotsType
<1>12. CASE n = left
  <2>1. NextBatch(p) BY <1>2, <1>12
  <2> DEFINE l == IF rec[p] + 1 # com[p] THEN "tx" ELSE "store"
             r == rec[p] + 1
  <2>2. rec' = [rec EXCEPT ![p] = r] /\ pc' = [pc EXCEPT ![p] = l]
        /\ retry' = [retry EXCEPT ![p] = 0]
    BY <2>1 DEF NextBatch, GoTo
  <2>3. 0 \in 0 .. burst_tx_retry_num BY PipelineAssumption
  <2>4. RetryType' BY <1>5, <2>2, <2>3 DEF RetryType
  <2>5. r \in Nat /\ l \in {"tx", "drop", "store"}
        /\ l = IF r # com[p] THEN "tx" ELSE "store"
    BY <1>5
  <2> HIDE DEF l, r, b
  <2>6. r = rec[p] + 1 BY DEF r
  <2> QED BY <1>1, <1>3, <1>8, <1>u, <1>10, <1>11, <2>2, <2>4, <2>5, <2>6,
             TransmitInd DEF q, s, b
<1>13. CASE n # left
  <2>1. /\ rec' = rec
        /\ \/ /\ retry[p] < burst_tx_retry_num
              /\ retry' = [retry EXCEPT ![p] = @ + 1] /\ pc' = pc
           \/ pc' = [pc EXCEPT ![p] = "drop"] /\ retry' = retry
    BY <1>2, <1>13 DEF GoTo
  <2>2. rec' = [rec EXCEPT ![p] = rec[p]] BY <1>5, <2>1
  <2>3. PICK l \in {"tx", "drop"} : pc' = [pc EXCEPT ![p] = l]
    BY <1>1, <1>5, <2>1
  <2>4. RetryType'
    <3>1. retry[p] < burst_tx_retry_num =>
            retry[p] + 1 \in 0 .. burst_tx_retry_num
      BY <1>5, PipelineAssumption
    <3> QED BY <1>5, <2>1, <3>1 DEF RetryType
  <2> HIDE DEF b
  <2> QED BY <1>1, <1>3, <1>5, <1>8, <1>u, <1>10, <1>11, <2>2, <2>3, <2>4,
             TransmitInd DEF q, s, b
<1> QED BY <1>12, <1>13

LEMMA TxDropInd ==
  ASSUME IndInv, NEW p \in Drainers, TxDrop(p) PROVE IndInv'
<1> DEFINE q == cur[p]
           s == Slot(rec[p])
           b == BatchAt(q, rec[p])
           left == b.nb_rx - b.tx_sent
           e == Leave(q, b.first + b.tx_sent, left, "free")
           b2 == [b EXCEPT !.tx_sent = b.nb_rx]
           l == IF rec[p] + 1 # com[p] THEN "tx" ELSE "store"
           r == rec[p] + 1
<1>1. /\ pc[p] = "drop"
      /\ out' = [out EXCEPT ![q] = @ \o e]
      /\ stats' = [stats EXCEPT ![q].dropped = @ + left]
      /\ slots' = [slots EXCEPT ![q][s].tx_sent = b.nb_rx]
      /\ rec' = [rec EXCEPT ![p] = r] /\ pc' = [pc EXCEPT ![p] = l]
      /\ retry' = [retry EXCEPT ![p] = 0]
  BY DEF TxDrop, NextBatch, GoTo
<1>2. UNCHANGED <<submitted, completed, reclaimed, live, stopped, abort, cur,
                  com, full, woken, next_queue, scanned, rxd, swaps>>
  BY DEF TxDrop
<1>3. b \in Batch /\ b.tx_sent <= b.nb_rx BY <1>1, BatchInTransmit
<1>4. b.tx_sent \in Nat /\ b.nb_rx \in Nat /\ left \in 0 .. left
      /\ left \in Nat
  BY <1>3 DEF Batch
<1>5. e \in Seq([pkt : Nat, how : {"tx", "free"}, swaps : Nat])
  BY <1>1, <1>4, BatchInTransmit
<1>6. q \in Queues /\ rec[p] \in Nat /\ com[p] \in Nat
      /\ retry \in [Drainers -> 0 .. burst_tx_retry_num]
      /\ SlotsType /\ OutType /\ StatsType
  BY DEF IndInv, TypeOK, LocalType, RetryType
<1>7. s \in 0 .. DEPTH - 1 BY <1>6, SlotType
<1>8. /\ b2 \in Batch /\ b2.first = b.first /\ b2.nb_rx = b.nb_rx
      /\ b2.tx_sent <= b2.nb_rx
  BY <1>3, <1>4 DEF Batch
<1>9. slots' = [slots EXCEPT ![q][s] = b2]
  BY <1>1, <1>6, <1>7 DEF BatchAt, SlotsType
<1> HIDE DEF e, left
<1>10. OutType' BY <1>1, <1>5, <1>6, AppendOut
<1>11. StatsType' BY <1>1, <1>4, <1>6, StatsUpdate
<1>12. 0 \in 0 .. burst_tx_retry_num BY PipelineAssumption
<1>13. RetryType' BY <1>1, <1>6, <1>12 DEF RetryType
<1>14. r \in Nat /\ r = rec[p] + 1 /\ l \in {"tx", "drop", "store"}
       /\ l = IF r # com[p] THEN "tx" ELSE "store"
  BY <1>6
<1> HIDE DEF q, s, b, b2, l, r
<1>15. /\ SlotsType' /\ slots'[q][s] = b2
       /\ \A q2 \in Queues : \A s2 \in 0 .. DEPTH - 1 :
            q2 # q \/ s2 # s => slots'[q2][s2] = slots[q2][s2]
  <2>1. q \in Queues /\ SlotsType /\ b2 \in Batch BY <1>6, <1>8
  <2> QED BY <1>7, <1>9, <2>1, SlotUpdate, ZenonT(30) DEF SlotsType
<1> QED BY <1>1, <1>2, <1>8, <1>10, <1>11, <1>13, <1>14, <1>15, TransmitInd
        DEF q, s, b

\* Publishing the reclaimed cursor never takes it past the completed one.
LEMMA DrainStoreInd ==
  ASSUME IndInv, NEW p \in Drainers, DrainStore(p) PROVE IndInv'
<1> DEFINE q == cur[p]
<1>1. /\ pc[p] = "store" /\ reclaimed' = [reclaimed EXCEPT ![q] = rec[p]]
      /\ UNCHANGED <<submitted, completed, slots, live, stopped, abort, rec,
                     com, retry, full, woken, next_queue, scanned, history>>
  BY DEF DrainStore
<1>2. /\ q \in Queues /\ rec[p] \in Nat /\ reclaimed[q] \in Nat
      /\ completed[q] \in Nat /\ submitted[q] \in Nat
      /\ reclaimed[q] <= rec[p] /\ rec[p] = com[p] /\ com[p] <= completed[q]
      /\ completed[q] <= submitted[q] /\ submitted[q] <= reclaimed[q] + DEPTH
  BY <1>1 DEF IndInv, TypeOK, LocalType, CursorType, DrainLocals, CursorOrder
<1>3. /\ reclaimed' \in [Queues -> Nat] /\ reclaimed'[q] = rec[p]
      /\ \A q2 \in Queues : q2 # q => reclaimed'[q2] = reclaimed[q2]
  BY <1>1, <1>2 DEF IndInv, TypeOK, CursorType
<1>4. PICK l \in {"recheck", "next", "drain", "free"} :
        /\ pc' = [pc EXCEPT ![p] = l]
        /\ p = "fwd" => /\ l = IF full THEN "recheck" ELSE "next"
                        /\ cur' = cur
        /\ p = "main" => /\ l = IF q + 1 < NbQueues THEN "drain" ELSE "free"
                         /\ cur' = IF q + 1 < NbQueues
                                   THEN [cur EXCEPT ![p] = q + 1] ELSE cur
  <2>1. CASE p = "fwd" BY <2>1 DEF DrainStore, GoTo
  <2>2. CASE p = "main" BY <2>2 DEF DrainStore, GoTo
  <2> QED BY <2>1, <2>2
<1>5. /\ \A o \in Procs : o # p => pc'[o] = pc[o] /\ cur'[o] = cur[o]
      /\ pc'[p] = l
      /\ p = "main" => cur'[p] = IF q + 1 < NbQueues THEN q + 1 ELSE q
  BY <1>4 DEF IndInv, TypeOK, PcType, LocalType
<1>6. PcType'
  <2>1. CASE p = "fwd"
    BY <1>4, <1>5, <2>1 DEF IndInv, TypeOK, PcType, FwdPC
  <2>2. CASE p = "main"
    BY <1>4, <1>5, <2>2 DEF IndInv, TypeOK, PcType, MainPC
  <2> QED BY <2>1, <2>2
<1>7. LocalType'
  <2>1. q + 1 < NbQueues => q + 1 \in Queues BY <1>2, PipelineAssumption
  <2>2. cur \in [Procs -> Queues] BY DEF IndInv, TypeOK, LocalType
  <2>3. cur' \in [Procs -> Queues]
    <3>1. CASE p = "fwd" BY <1>4, <2>2, <3>1
    <3>2. CASE p = "main"
      <4> HIDE DEF q
      <4>1. CASE q + 1 < NbQueues BY <1>4, <2>1, <2>2, <3>2, <4>1
      <4>2. CASE ~(q + 1 < NbQueues) BY <1>4, <2>2, <3>2, <4>2
      <4> QED BY <4>1, <4>2
    <3> QED BY <3>1, <3>2
  <2> QED BY <1>1, <2>3 DEF IndInv, TypeOK, LocalType
<1>8. CursorType' BY <1>1, <1>3 DEF IndInv, TypeOK, CursorType
<1>9. SlotsType' /\ FlagType' /\ RetryType' /\ ScanType' /\ RxType' /\ OutType'
      /\ StatsType'
  BY <1>1 DEF IndInv, TypeOK, SlotsType, FlagType, RetryType, ScanType, RxType,
              OutType, StatsType, history
<1>10. BatchesValid' BY <1>1 DEF IndInv, BatchesValid, history
<1>11. CursorOrder'
  <2>1. \A q2 \in Queues : /\ submitted[q2] \in Nat /\ completed[q2] \in Nat
                           /\ reclaimed[q2] \in Nat
    BY DEF IndInv, TypeOK, CursorType
  <2> SUFFICES ASSUME NEW r \in Queues
               PROVE  /\ reclaimed'[r] <= completed[r]
                      /\ completed[r] <= submitted[r]
                      /\ submitted[r] <= reclaimed'[r] + DEPTH
    BY <1>1 DEF CursorOrder
  <2>2. /\ reclaimed[r] <= completed[r] /\ completed[r] <= submitted[r]
        /\ submitted[r] <= reclaimed[r] + DEPTH
    BY DEF IndInv, CursorOrder
  <2> HIDE DEF q
  <2>3. CASE r = q BY <1>2, <1>3, <2>3, PipelineAssumption
  <2>4. CASE r # q BY <1>3, <2>2, <2>4
  <2> QED BY <2>3, <2>4
<1>12. DrainLocals'
  <2>1. CASE p = "fwd"
    BY <1>1, <1>4, <1>5, <2>1, DrainerAlone DEF IndInv, DrainLocals
  <2>2. CASE p = "main"
    BY <1>1, <1>4, <1>5, <2>2, DrainerAlone DEF IndInv, DrainLocals
  <2> QED BY <2>1, <2>2
<1>13. FwdLocals'
  <2>1. CASE p = "fwd"
    <3>1. full => submitted[q] < rec[p] + DEPTH
      BY <1>1, <1>2, <2>1, PipelineAssumption DEF IndInv, FwdLocals
    <3> QED BY <1>1, <1>3, <1>4, <1>5, <2>1, <3>1, <1>2 DEF FwdLocals
  <2>2. CASE p = "main"
    BY <1>1, <1>5, <2>2, DrainerAlone DEF IndInv, FwdLocals
  <2> QED BY <2>1, <2>2
<1>14. WkLocals'
  BY <1>1, <1>4, <1>5 DEF IndInv, WkLocals
<1>15. MainLocals'
  <2>1. CASE p = "fwd"
    BY <1>1, <1>5, <2>1, DrainerAlone DEF IndInv, MainLocals
  <2>2. CASE p = "main"
    <3>1. /\ pc["fwd"] = "off" /\ pc["wk"] = "off" /\ live
          /\ \A q2 \in Queues : completed[q2] = submitted[q2]
          /\ com["main"] = completed[cur["main"]]
          /\ \A q2 \in 0 .. cur["main"] - 1 : reclaimed[q2] = submitted[q2]
      BY <1>1, <2>2 DEF IndInv, MainLocals
    <3>2. \A q2 \in 0 .. q : reclaimed'[q2] = submitted[q2]
      BY <1>2, <1>3, <2>2, <3>1, PipelineAssumption
    <3>3. q + 1 >= NbQueues => \A q2 \in Queues : reclaimed'[q2] = submitted[q2]
      BY <1>2, <3>2, PipelineAssumption
    <3>4. l = "drain" => \A q2 \in 0 .. cur'["main"] - 1 :
                           reclaimed'[q2] = submitted[q2]
      BY <1>2, <1>4, <1>5, <2>2, <3>2, PipelineAssumption
    <3>5. l \in {"drain", "free"} /\ (l = "free" => q + 1 >= NbQueues)
      BY <1>2, <1>4, <2>2, PipelineAssumption
    <3>6. submitted' = submitted /\ completed' = completed /\ live' = live
      BY <1>1
    <3> HIDE DEF q
    <3> QED BY <1>5, <2>2, <3>1, <3>3, <3>4, <3>5, <3>6 DEF MainLocals
  <2> QED BY <2>1, <2>2
<1> QED BY <1>6, <1>7, <1>8, <1>9, <1>10, <1>11, <1>12, <1>13, <1>14, <1>15
        DEF IndInv, TypeOK

-----------------------------------------------------------------------------
(* The helper.                                                              *)

LEMMA WkPollInd == ASSUME IndInv, WkPoll PROVE IndInv'
<1>1. /\ pc["wk"] = "poll" /\ scanned' = 0
      /\ UNCHANGED <<ring, stopped, abort, cur, rec, com, retry, full, woken,
                     next_queue, history>>
  BY DEF WkPoll
<1>2. PICK l \in {"idle", "swap", "off", "scan"} :
        /\ pc' = [pc EXCEPT !["wk"] = l]
        /\ l = "swap" => NbQueues = 1 /\ completed[0] # submitted[0]
  BY DEF WkPoll, GoTo
<1>3. pc'["wk"] = l BY <1>2 DEF IndInv, TypeOK, PcType
<1>4. cur["wk"] \in Queues /\ cur' = [cur EXCEPT !["wk"] = cur["wk"]]
  BY <1>1 DEF IndInv, TypeOK, LocalType
<1>5. ScanType' BY <1>1, PipelineAssumption DEF IndInv, TypeOK, ScanType
<1>6. RxType' BY <1>1 DEF IndInv, TypeOK, RxType, history
<1>7. WkLocals'
  <2>1. l = "swap" => completed[cur["wk"]] < submitted[cur["wk"]]
    <3> SUFFICES ASSUME l = "swap"
                 PROVE  completed[cur["wk"]] < submitted[cur["wk"]]
      OBVIOUS
    <3>1. cur["wk"] = 0 BY <1>2, <1>4
    <3>2. /\ completed[0] \in Nat /\ submitted[0] \in Nat
          /\ completed[0] <= submitted[0]
      BY <1>4, <3>1 DEF IndInv, TypeOK, CursorType, CursorOrder
    <3> QED BY <1>2, <3>1, <3>2
  <2> QED BY <1>1, <1>2, <1>3, <2>1, PipelineAssumption DEF WkLocals, ring
<1>8. l \in WkPC BY DEF WkPC
<1>9. UNCHANGED <<rxd, out, stats>> BY <1>1 DEF history
<1> QED BY <1>1, <1>2, <1>4, <1>5, <1>6, <1>7, <1>8, <1>9, QuietWk

LEMMA WkIdleInd == ASSUME IndInv, WkIdle PROVE IndInv'
<1>1. /\ pc["wk"] = "idle"
      /\ UNCHANGED <<ring, stopped, abort, cur, rec, com, retry, full, woken,
                     next_queue, scanned, history>>
  BY DEF WkIdle
<1>2. PICK l \in {"off", "poll"} : pc' = [pc EXCEPT !["wk"] = l]
  BY DEF WkIdle, GoTo
<1>3. pc'["wk"] = l BY <1>2 DEF IndInv, TypeOK, PcType
<1>4. cur["wk"] \in Queues /\ cur' = [cur EXCEPT !["wk"] = cur["wk"]]
  BY <1>1 DEF IndInv, TypeOK, LocalType
<1>5. ScanType' BY <1>1 DEF IndInv, TypeOK, ScanType
<1>6. RxType' /\ UNCHANGED <<rxd, out, stats>>
  BY <1>1 DEF IndInv, TypeOK, RxType, history
<1>7. WkLocals' BY <1>3 DEF WkLocals
<1>8. l \in WkPC BY DEF WkPC
<1> QED BY <1>1, <1>2, <1>4, <1>5, <1>6, <1>7, <1>8, QuietWk

LEMMA WkScanInd == ASSUME IndInv, WkScan PROVE IndInv'
<1> DEFINE q == (next_queue["wk"] + scanned) % NbQueues
<1>1. /\ pc["wk"] = "scan"
      /\ UNCHANGED <<ring, stopped, abort, rec, com, retry, full, woken,
                     next_queue, history>>
  BY DEF WkScan
<1>2. q \in Queues /\ scanned \in 0 .. NbQueues
      /\ next_queue \in [{"wk", "main"} -> Queues] /\ cur["wk"] \in Queues
      /\ cur \in [Procs -> Queues]
  BY PipelineAssumption, SMT DEF IndInv, TypeOK, ScanType, LocalType
<1>3. completed[q] <= submitted[q] /\ completed[q] \in Nat
      /\ submitted[q] \in Nat
  BY <1>2 DEF IndInv, TypeOK, CursorType, CursorOrder
<1>4. RxType' /\ UNCHANGED <<rxd, out, stats>>
  BY <1>1 DEF IndInv, TypeOK, RxType, history
<1>5. scanned < NbQueues BY <1>1 DEF IndInv, WkLocals
<1>6. PICK l \in {"poll", "scan", "swap"}, c \in Queues :
        /\ pc' = [pc EXCEPT !["wk"] = l] /\ cur' = [cur EXCEPT !["wk"] = c]
        /\ scanned' \in 0 .. NbQueues
        /\ l = "swap" => c = q /\ completed[q] < submitted[q]
        /\ l = "scan" => scanned' < NbQueues
  <2>1. CASE completed[q] = submitted[q]
    <3> DEFINE l == IF scanned + 1 = NbQueues THEN "poll" ELSE "scan"
    <3>1. /\ scanned' = scanned + 1 /\ cur' = cur
          /\ pc' = [pc EXCEPT !["wk"] = l]
      BY <2>1 DEF WkScan, GoTo
    <3>2. cur' = [cur EXCEPT !["wk"] = cur["wk"]] BY <1>2, <3>1
    <3>3. /\ scanned' \in 0 .. NbQueues
          /\ l \in {"poll", "scan"} /\ (l = "scan" => scanned' < NbQueues)
      BY <1>2, <1>5, <3>1, PipelineAssumption
    <3> HIDE DEF l, q
    <3> QED BY <1>2, <3>1, <3>2, <3>3
  <2>2. CASE completed[q] # submitted[q]
    <3>1. /\ scanned' = scanned /\ cur' = [cur EXCEPT !["wk"] = q]
          /\ pc' = [pc EXCEPT !["wk"] = "swap"]
      BY <2>2 DEF WkScan, GoTo
    <3>2. completed[q] < submitted[q] BY <1>3, <2>2
    <3> HIDE DEF q
    <3> QED BY <1>2, <3>1, <3>2
  <2> QED BY <2>1, <2>2
<1> HIDE DEF q
<1>7. ScanType' BY <1>1, <1>2, <1>6 DEF ScanType
<1>8. pc'["wk"] = l /\ cur'["wk"] = c
  BY <1>6 DEF IndInv, TypeOK, PcType, LocalType
<1>9. WkLocals' BY <1>1, <1>6, <1>8 DEF WkLocals, ring
<1>10. l \in WkPC BY DEF WkPC
<1> QED BY <1>1, <1>4, <1>6, <1>7, <1>9, <1>10, QuietWk

LEMMA WkSwapInd == ASSUME IndInv, WkSwap PROVE IndInv'
<1>1. /\ pc["wk"] = "swap" /\ pc' = [pc EXCEPT !["wk"] = "publish"]
      /\ UNCHANGED <<ring, stopped, abort, cur, rec, com, retry, full, woken,
                     next_queue, scanned, rxd, out, stats>>
  BY DEF WkSwap, GoTo
<1>2. pc'["wk"] = "publish" BY <1>1 DEF IndInv, TypeOK, PcType
<1>3. cur["wk"] \in Queues /\ cur' = [cur EXCEPT !["wk"] = cur["wk"]]
  BY <1>1 DEF IndInv, TypeOK, LocalType
<1>4. ScanType' BY <1>1 DEF IndInv, TypeOK, ScanType
<1>5. RxType'
  <2> DEFINE q == cur["wk"]
             f == [i \in Pkts |-> IF i \in PktsOf(BatchAt(q, completed[q]))
                                  THEN swaps[q][i] + 1 ELSE swaps[q][i]]
  <2>1. swaps' = [swaps EXCEPT ![q] = f] BY DEF WkSwap, SwapBatch
  <2>2. swaps \in [Queues -> [Pkts -> Nat]] BY DEF IndInv, TypeOK, RxType
  <2>3. \A i \in Pkts : swaps[q][i] \in Nat BY <1>3, <2>2
  <2>4. f \in [Pkts -> Nat] BY <2>3
  <2> HIDE DEF f
  <2>5. swaps' \in [Queues -> [Pkts -> Nat]] BY <2>1, <2>2, <2>4
  <2> QED BY <1>1, <2>5 DEF IndInv, TypeOK, RxType
<1>6. WkLocals' BY <1>1, <1>2 DEF IndInv, WkLocals, ring
<1>7. "publish" \in WkPC BY DEF WkPC
<1> QED BY <1>1, <1>3, <1>4, <1>5, <1>6, <1>7, QuietWk

\* Completing a batch moves the completed cursor over a submitted one.
LEMMA CompleteCursor ==
  ASSUME CursorType, CursorOrder, NEW q \in Queues, completed[q] < submitted[q],
         completed' = [completed EXCEPT ![q] = @ + 1],
         UNCHANGED <<submitted, reclaimed>>
  PROVE  /\ CursorType' /\ CursorOrder'
         /\ completed'[q] = completed[q] + 1
         /\ \A q2 \in Queues : q2 # q => completed'[q2] = completed[q2]
         /\ \A q2 \in Queues : completed[q2] <= completed'[q2]
<1>1. \A q2 \in Queues : /\ submitted[q2] \in Nat /\ completed[q2] \in Nat
                         /\ reclaimed[q2] \in Nat
  BY DEF CursorType
<1>2. /\ completed' \in [Queues -> Nat]
      /\ completed'[q] = completed[q] + 1
      /\ \A q2 \in Queues : q2 # q => completed'[q2] = completed[q2]
  BY <1>1 DEF CursorType
<1>3. CursorType' BY <1>2 DEF CursorType
<1>4. \A q2 \in Queues : completed[q2] <= completed'[q2] BY <1>1, <1>2
<1>5. CursorOrder' BY <1>1, <1>2 DEF CursorOrder
<1> QED BY <1>2, <1>3, <1>4, <1>5

LEMMA WkPublishInd == ASSUME IndInv, WkPublish PROVE IndInv'
<1> DEFINE q == cur["wk"]
<1>1. /\ pc["wk"] = "publish" /\ pc' = [pc EXCEPT !["wk"] = "poll"]
      /\ completed' = [completed EXCEPT ![q] = @ + 1]
      /\ next_queue' = [next_queue EXCEPT !["wk"] = (q + 1) % NbQueues]
      /\ UNCHANGED <<submitted, reclaimed, slots, live, stopped, abort, cur,
                     rec, com, retry, full, scanned, history>>
  BY DEF WkPublish, GoTo
<1>2. q \in Queues /\ completed[q] < submitted[q]
  BY <1>1 DEF IndInv, TypeOK, LocalType, WkLocals
<1>3. /\ pc'["wk"] = "poll" /\ pc'["fwd"] = pc["fwd"]
      /\ pc'["main"] = pc["main"] /\ PcType'
  BY <1>1 DEF IndInv, TypeOK, PcType, WkPC
<1>4. CursorType /\ CursorOrder BY DEF IndInv, TypeOK
<1>5. /\ CursorType' /\ CursorOrder'
      /\ completed'[q] = completed[q] + 1
      /\ \A q2 \in Queues : q2 # q => completed'[q2] = completed[q2]
      /\ \A q2 \in Queues : completed[q2] <= completed'[q2]
  BY <1>1, <1>2, <1>4, CompleteCursor
<1>6. ScanType'
  <2>1. (q + 1) % NbQueues \in Queues BY <1>2, PipelineAssumption, SMT
  <2> QED BY <1>1, <2>1 DEF IndInv, TypeOK, ScanType
<1>7. FlagType'
  <2>1. woken' \in BOOLEAN BY DEF WkPublish, IndInv, TypeOK, FlagType
  <2> QED BY <1>1, <2>1 DEF IndInv, TypeOK, FlagType
<1>8. SlotsType' /\ LocalType' /\ RetryType' /\ RxType' /\ OutType' /\ StatsType'
  BY <1>1 DEF IndInv, TypeOK, SlotsType, LocalType, RetryType, RxType, OutType,
              StatsType, history
<1>9. BatchesValid' BY <1>1 DEF IndInv, BatchesValid, history
<1>10. DrainLocals'
  <2>1. \A p \in Drainers :
          /\ pc'[p] = pc[p] /\ cur'[p] \in Queues /\ com[p] \in Nat
          /\ completed[cur[p]] \in Nat /\ completed'[cur[p]] \in Nat
          /\ completed[cur[p]] <= completed'[cur[p]]
    BY <1>1, <1>3, <1>5 DEF IndInv, TypeOK, LocalType, CursorType
  <2> HIDE DEF q
  <2> QED BY <1>1, <2>1 DEF IndInv, DrainLocals
<1>11. FwdLocals'
  <2>1. /\ cur["fwd"] \in Queues /\ reclaimed[cur["fwd"]] \in Nat
        /\ completed[cur["fwd"]] \in Nat /\ completed'[cur["fwd"]] \in Nat
        /\ completed[cur["fwd"]] <= completed'[cur["fwd"]]
    BY <1>1, <1>5 DEF IndInv, TypeOK, LocalType, CursorType
  <2> HIDE DEF q
  <2> QED BY <1>1, <1>3, <2>1 DEF IndInv, FwdLocals
<1>12. WkLocals' BY <1>3 DEF WkLocals
<1>13. MainLocals'
  BY <1>1, <1>3 DEF IndInv, MainLocals
<1> QED BY <1>3, <1>5, <1>6, <1>7, <1>8, <1>9, <1>10, <1>11, <1>12, <1>13
        DEF IndInv, TypeOK

-----------------------------------------------------------------------------
(* The main lcore.                                                          *)

LEMMA MBeginInd == ASSUME IndInv, MBegin PROVE IndInv'
<1>1. /\ pc["main"] = "idle"
      /\ pc' = [pc EXCEPT !["main"] = "begun", !["wk"] = "poll"]
      /\ submitted' = [q \in Queues |-> 0]
      /\ completed' = [q \in Queues |-> 0]
      /\ reclaimed' = [q \in Queues |-> 0]
      /\ slots' = [q \in Queues |-> [s \in 0 .. DEPTH - 1 |-> ZeroBatch]]
      /\ live' = TRUE /\ stopped' = FALSE /\ abort' = FALSE
      /\ next_queue' = [next_queue EXCEPT !["wk"] = 0]
      /\ UNCHANGED <<cur, rec, com, retry, full, woken, scanned, history>>
  BY DEF MBegin
<1>2. pc["fwd"] = "off" /\ full = FALSE
  BY <1>1 DEF IndInv, MainLocals, FwdLocals, TypeOK, FlagType
<1>3. /\ pc'["main"] = "begun" /\ pc'["wk"] = "poll" /\ pc'["fwd"] = "off"
      /\ PcType'
  BY <1>1, <1>2 DEF IndInv, TypeOK, PcType, WkPC, MainPC
<1>4. CursorType' /\ SlotsType'
  BY <1>1 DEF CursorType, SlotsType, ZeroBatch, Batch
<1>5. FlagType' BY <1>1 DEF IndInv, TypeOK, FlagType
<1>6. ScanType'
  <2>1. 0 \in Queues BY PipelineAssumption
  <2> QED BY <1>1, <2>1 DEF IndInv, TypeOK, ScanType
<1>7. LocalType' /\ RetryType' /\ RxType' /\ OutType' /\ StatsType'
  BY <1>1 DEF IndInv, TypeOK, LocalType, RetryType, RxType, OutType, StatsType,
              history
<1>8. BatchesValid' BY <1>1 DEF BatchesValid, ZeroBatch
<1>9. CursorOrder' BY <1>1, PipelineAssumption DEF CursorOrder
<1>10. DrainLocals' BY <1>3 DEF DrainLocals
<1>11. FwdLocals' BY <1>1, <1>2, <1>3 DEF FwdLocals
<1>12. WkLocals' BY <1>3 DEF WkLocals
<1>13. MainLocals' BY <1>1, <1>3 DEF MainLocals
<1> QED BY <1>3, <1>4, <1>5, <1>6, <1>7, <1>8, <1>9, <1>10, <1>11, <1>12, <1>13
        DEF IndInv, TypeOK

LEMMA MLaunchInd == ASSUME IndInv, MLaunch PROVE IndInv'
<1>1. /\ pc["main"] = "begun"
      /\ pc' = [pc EXCEPT !["main"] = "forwarding", !["fwd"] = "check"]
      /\ stopped' = FALSE
      /\ stats' = [q \in Queues |-> [rx |-> 0, tx |-> 0, dropped |-> 0]]
      /\ UNCHANGED <<ring, abort, cur, rec, com, retry, full, woken,
                     next_queue, scanned, rxd, swaps, out>>
  BY DEF MLaunch
<1>2. full = FALSE
  BY <1>1 DEF IndInv, MainLocals, FwdLocals, TypeOK, FlagType
<1>3. /\ pc'["main"] = "forwarding" /\ pc'["wk"] = pc["wk"]
      /\ pc'["fwd"] = "check" /\ PcType'
  BY <1>1 DEF IndInv, TypeOK, PcType, FwdPC, MainPC
<1>4. CursorType' /\ SlotsType' /\ LocalType' /\ RetryType' /\ ScanType'
      /\ RxType' /\ OutType'
  BY <1>1 DEF IndInv, TypeOK, CursorType, SlotsType, LocalType, RetryType,
              ScanType, RxType, OutType, ring
<1>5. FlagType' BY <1>1 DEF IndInv, TypeOK, FlagType, ring
<1>6. StatsType' BY <1>1 DEF StatsType
<1>7. BatchesValid' BY <1>1 DEF IndInv, BatchesValid, ring
<1>8. CursorOrder' BY <1>1 DEF IndInv, CursorOrder, ring
<1>9. DrainLocals' BY <1>3 DEF DrainLocals
<1>10. FwdLocals' BY <1>1, <1>2, <1>3 DEF FwdLocals
<1>11. WkLocals' BY <1>1, <1>3 DEF IndInv, WkLocals, ring
<1>12. MainLocals' BY <1>1, <1>3 DEF IndInv, MainLocals, ring
<1> QED BY <1>3, <1>4, <1>5, <1>6, <1>7, <1>8, <1>9, <1>10, <1>11, <1>12
        DEF IndInv, TypeOK

\* The other steps of the main lcore that leave the rings alone.
LEMMA MainMovesInd ==
  ASSUME IndInv,
         MBeginFails \/ MStop \/ MJoin \/ MFailJoin \/ MProcessed
  PROVE  IndInv'
<1>1. cur["main"] \in Queues /\ cur \in [Procs -> Queues]
      /\ next_queue \in [{"wk", "main"} -> Queues] /\ 0 \in Queues
  BY PipelineAssumption DEF IndInv, TypeOK, LocalType, ScanType
<1>2. PICK l \in {"failjoin", "join", "process", "free", "drain"},
           q \in Queues :
        /\ pc' = [pc EXCEPT !["main"] = l] /\ cur' = [cur EXCEPT !["main"] = q]
        /\ pc["main"] # "idle"
        /\ l = "failjoin" => pc["main"] = "begun"
        /\ l = "join" => pc["main"] = "forwarding"
        /\ l = "process" =>
             pc["main"] = "join" /\ pc["fwd"] = "off" /\ pc["wk"] = "off"
        /\ l = "free" => pc["main"] = "failjoin" /\ pc["wk"] = "off"
        /\ l = "drain" =>
             /\ pc["main"] = "process" /\ q = 0
             /\ \A q2 \in Queues : completed[q2] = submitted[q2]
  <2> DEFINE c == cur["main"]
  <2>1. cur = [cur EXCEPT !["main"] = c] BY <1>1
  <2> HIDE DEF c
  <2>2. c \in Queues BY <1>1 DEF c
  <2>3. CASE MBeginFails BY <2>1, <2>2, <2>3 DEF MBeginFails, GoTo
  <2>4. CASE MStop BY <2>1, <2>2, <2>4 DEF MStop, GoTo
  <2>5. CASE MJoin BY <2>1, <2>2, <2>5 DEF MJoin, GoTo
  <2>6. CASE MFailJoin BY <2>1, <2>2, <2>6 DEF MFailJoin, GoTo
  <2>7. CASE MProcessed BY <1>1, <2>7 DEF MProcessed, GoTo
  <2> QED BY <2>3, <2>4, <2>5, <2>6, <2>7
<1>3. UNCHANGED <<ring, rec, com, retry, full, woken, scanned, history>>
  BY DEF MBeginFails, MStop, MJoin, MFailJoin, MProcessed
<1>4. stopped' \in BOOLEAN /\ abort' \in BOOLEAN
  BY DEF MBeginFails, MStop, MJoin, MFailJoin, MProcessed, IndInv, TypeOK,
         FlagType
<1>5. FlagType' BY <1>3, <1>4 DEF IndInv, TypeOK, FlagType, ring
<1>6. next_queue' = next_queue \/ next_queue' = [next_queue EXCEPT !["main"] = 0]
  BY DEF MBeginFails, MStop, MJoin, MFailJoin, MProcessed
<1>7. ScanType' BY <1>1, <1>3, <1>6 DEF IndInv, TypeOK, ScanType
<1>8. /\ pc'["main"] = l /\ pc'["wk"] = pc["wk"] /\ pc'["fwd"] = pc["fwd"]
      /\ cur'["main"] = q
  BY <1>1, <1>2 DEF IndInv, TypeOK, PcType
<1>9. MainLocals'
  <2>1. live /\ live' = live /\ submitted' = submitted
        /\ completed' = completed /\ reclaimed' = reclaimed
    BY <1>2, <1>3 DEF IndInv, MainLocals, ring
  <2>2. \A q2 \in 0 .. 0 - 1 : FALSE OBVIOUS
  <2>3. CASE l = "failjoin"
    BY <1>2, <1>8, <2>1, <2>3 DEF IndInv, MainLocals
  <2>4. CASE l = "join"
    BY <1>2, <1>8, <2>1, <2>4 DEF IndInv, MainLocals
  <2>5. CASE l = "process"
    BY <1>2, <1>8, <2>1, <2>5 DEF MainLocals
  <2>6. CASE l = "free"
    BY <1>2, <1>8, <2>1, <2>6 DEF IndInv, MainLocals
  <2>7. CASE l = "drain"
    BY <1>2, <1>8, <2>1, <2>2, <2>7 DEF IndInv, MainLocals
  <2> QED BY <2>3, <2>4, <2>5, <2>6, <2>7
<1>10. l \in MainPC \ {"tx", "drop", "store"} BY DEF MainPC
<1> QED BY <1>2, <1>3, <1>5, <1>7, <1>9, <1>10, QuietMain

LEMMA MProcessInd == ASSUME IndInv, MProcess PROVE IndInv'
<1>1. PICK k \in 0 .. NbQueues - 1 :
        LET Q(j) == (next_queue["main"] + j) % NbQueues
            q == Q(k)
        IN /\ completed[q] # submitted[q]
           /\ SwapBatch(q)
           /\ completed' = [completed EXCEPT ![q] = @ + 1]
           /\ next_queue' = [next_queue EXCEPT !["main"] = (q + 1) % NbQueues]
  BY DEF MProcess
<1> DEFINE q == (next_queue["main"] + k) % NbQueues
<1>2. /\ completed[q] # submitted[q] /\ SwapBatch(q)
      /\ completed' = [completed EXCEPT ![q] = @ + 1]
      /\ next_queue' = [next_queue EXCEPT !["main"] = (q + 1) % NbQueues]
  BY <1>1
<1>3. q \in Queues /\ (q + 1) % NbQueues \in Queues
  BY PipelineAssumption, SMT DEF IndInv, TypeOK, ScanType
<1> HIDE DEF q
<1>4. /\ pc["main"] = "process"
      /\ UNCHANGED <<submitted, reclaimed, slots, live, stopped, abort, pc, cur,
                     rec, com, retry, full, woken, scanned, rxd, out, stats>>
  BY DEF MProcess
<1>5. pc["fwd"] = "off" /\ pc["wk"] = "off" /\ live /\ full = FALSE
  BY <1>4 DEF IndInv, MainLocals, FwdLocals, TypeOK, FlagType
<1>6. CursorType /\ CursorOrder /\ completed[q] < submitted[q]
  BY <1>2, <1>3 DEF IndInv, TypeOK, CursorType, CursorOrder
<1>7. CursorType' /\ CursorOrder'
  BY <1>2, <1>3, <1>4, <1>6, CompleteCursor
<1>8. RxType'
  <2> DEFINE f == [i \in Pkts |-> IF i \in PktsOf(BatchAt(q, completed[q]))
                                  THEN swaps[q][i] + 1 ELSE swaps[q][i]]
  <2>1. swaps' = [swaps EXCEPT ![q] = f] BY <1>2 DEF SwapBatch
  <2>2. swaps \in [Queues -> [Pkts -> Nat]] BY DEF IndInv, TypeOK, RxType
  <2>3. \A i \in Pkts : swaps[q][i] \in Nat BY <1>3, <2>2
  <2>4. f \in [Pkts -> Nat] BY <2>3
  <2> HIDE DEF f
  <2>5. swaps' \in [Queues -> [Pkts -> Nat]] BY <2>1, <2>2, <2>4
  <2> QED BY <1>4, <2>5 DEF IndInv, TypeOK, RxType
<1>9. ScanType' BY <1>2, <1>3, <1>4 DEF IndInv, TypeOK, ScanType
<1>10. SlotsType' /\ FlagType' /\ PcType' /\ LocalType' /\ RetryType' /\ OutType'
       /\ StatsType'
  BY <1>4 DEF IndInv, TypeOK, SlotsType, FlagType, PcType, LocalType, RetryType,
              OutType, StatsType
<1>11. BatchesValid' BY <1>4 DEF IndInv, BatchesValid
<1>12. DrainLocals' /\ FwdLocals' /\ WkLocals'
  BY <1>4, <1>5 DEF DrainLocals, FwdLocals, WkLocals
<1>13. MainLocals' BY <1>4, <1>5 DEF MainLocals
<1> QED BY <1>7, <1>8, <1>9, <1>10, <1>11, <1>12, <1>13 DEF IndInv, TypeOK

LEMMA MFreeInd == ASSUME IndInv, MFree PROVE IndInv'
<1>1. /\ pc["main"] = "free" /\ pc' = [pc EXCEPT !["main"] = "idle"]
      /\ out' = [q \in Queues |-> out[q] \o Unreclaimed(q)]
      /\ live' = FALSE
      /\ UNCHANGED <<submitted, completed, reclaimed, slots, stopped, abort,
                     cur, rec, com, retry, full, woken, next_queue, scanned,
                     rxd, swaps, stats>>
  BY DEF MFree, GoTo
<1>2. /\ pc["fwd"] = "off" /\ pc["wk"] = "off" /\ full = FALSE
      /\ \A q \in Queues : reclaimed[q] = submitted[q]
  BY <1>1 DEF IndInv, MainLocals, FwdLocals, TypeOK, FlagType
<1>3. \A q \in Queues : Unreclaimed(q) = << >> BY <1>2 DEF Unreclaimed
<1>4. OutType'
  <2> DEFINE S == Seq([pkt : Nat, how : {"tx", "free"}, swaps : Nat])
  <2>1. \A q \in Queues : out[q] \in S BY DEF IndInv, TypeOK, OutType
  <2>2. \A q \in Queues : out[q] \o << >> = out[q] BY <2>1, ConcatEmptySeq
  <2> HIDE DEF S
  <2>3. out' \in [Queues -> S] BY <1>1, <1>3, <2>1, <2>2
  <2> QED BY <2>3 DEF S, OutType
<1>5. /\ pc'["main"] = "idle" /\ pc'["fwd"] = "off" /\ pc'["wk"] = "off"
      /\ PcType'
  BY <1>1, <1>2 DEF IndInv, TypeOK, PcType, MainPC
<1>6. CursorType' /\ SlotsType' /\ LocalType' /\ RetryType' /\ ScanType'
      /\ RxType' /\ StatsType'
  BY <1>1 DEF IndInv, TypeOK, CursorType, SlotsType, LocalType, RetryType,
              ScanType, RxType, StatsType
<1>7. FlagType' BY <1>1 DEF IndInv, TypeOK, FlagType
<1>8. BatchesValid' BY <1>1 DEF IndInv, BatchesValid
<1>9. CursorOrder' BY <1>1 DEF IndInv, CursorOrder
<1>10. DrainLocals' /\ WkLocals' BY <1>5 DEF DrainLocals, WkLocals
<1>11. FwdLocals' BY <1>1, <1>2, <1>5 DEF FwdLocals
<1>12. MainLocals' BY <1>1, <1>5 DEF MainLocals
<1> QED BY <1>4, <1>5, <1>6, <1>7, <1>8, <1>9, <1>10, <1>11, <1>12
        DEF IndInv, TypeOK

-----------------------------------------------------------------------------
LEMMA StutterInd == ASSUME IndInv, UNCHANGED vars PROVE IndInv'
<1> USE DEF vars, ring, locals, history
<1>1. TypeOK'
  BY DEF IndInv, TypeOK, CursorType, SlotsType, FlagType, PcType, LocalType,
         RetryType, ScanType, RxType, OutType, StatsType
<1>2. BatchesValid' /\ CursorOrder'
  BY DEF IndInv, BatchesValid, CursorOrder
<1>3. DrainLocals' /\ FwdLocals' BY DEF IndInv, DrainLocals, FwdLocals
<1>4. WkLocals' /\ MainLocals' BY DEF IndInv, WkLocals, MainLocals
<1> QED BY <1>1, <1>2, <1>3, <1>4 DEF IndInv

LEMMA NextInd == ASSUME IndInv, [Next]_vars PROVE IndInv'
<1>1. CASE Fwd
  BY <1>1, FwdCheckInd, WaitInd, FwdRecheckInd, FwdRxInd, FwdPublishInd,
     FwdNextInd, DrainLoadInd, TxBurstInd, TxDropInd, DrainStoreInd
     DEF Fwd, Drain
<1>2. CASE Wk
  BY <1>2, WkPollInd, WkIdleInd, WkScanInd, WkSwapInd, WkPublishInd DEF Wk
<1>3. CASE Main
  BY <1>3, MBeginInd, MLaunchInd, MainMovesInd, MProcessInd, MFreeInd,
     DrainLoadInd, TxBurstInd, TxDropInd, DrainStoreInd
     DEF Main, MainSteps, Drain
<1>4. CASE UNCHANGED vars BY <1>4, StutterInd
<1> QED BY <1>1, <1>2, <1>3, <1>4 DEF Next

\* The inductive invariant holds in every reachable state.
THEOREM Inductive == Spec => []IndInv
BY InitInd, NextInd, PTL DEF Spec

\* Type correctness of every reachable state.
THEOREM TypeCorrect == Spec => []TypeOK
<1>1. IndInv => TypeOK BY DEF IndInv
<1> QED BY <1>1, Inductive, PTL

\* The three cursors stay in order and the ring never overflows, whatever the
\* interleaving of the stages, of a stop and of the shutdown.
THEOREM CursorsOrdered == Spec => []CursorOrder
<1>1. IndInv => CursorOrder BY DEF IndInv
<1> QED BY <1>1, Inductive, PTL

\* The second full test of the callback never fails.
THEOREM DrainAlwaysMakesRoom == Spec => []DrainMakesRoom
<1>1. IndInv => DrainMakesRoom
  <2> SUFFICES ASSUME IndInv, pc["fwd"] = "recheck"
               PROVE  ~RingFull(cur["fwd"])
    BY DEF DrainMakesRoom
  <2> DEFINE q == cur["fwd"]
  <2>1. /\ submitted[q] < reclaimed[q] + DEPTH
        /\ submitted[q] \in Nat /\ reclaimed[q] \in Nat
    BY DEF IndInv, FwdLocals, TypeOK, CursorType, LocalType
  <2> QED BY <2>1, PipelineAssumption DEF RingFull
<1> QED BY <1>1, Inductive, PTL

\* No lcore runs the engine's code on rings that are not allocated.
THEOREM NoUseAfterFreeHolds == Spec => []NoUseAfterFree
<1>1. IndInv => NoUseAfterFree
  <2> SUFFICES ASSUME IndInv, ~live
               PROVE  pc = [fwd |-> "off", wk |-> "off", main |-> "idle"]
    BY DEF NoUseAfterFree
  <2>1. pc["main"] = "idle" /\ pc["fwd"] = "off" /\ pc["wk"] = "off"
    BY DEF IndInv, MainLocals
  <2>2. pc \in [Procs -> FwdPC \cup WkPC \cup MainPC]
    BY DEF IndInv, TypeOK, PcType
  <2> QED BY <2>1, <2>2
<1> QED BY <1>1, Inductive, PTL

\* The slot being filled is none of those that still hold packets.
THEOREM RxIntoFreeSlotHolds == Spec => []RxIntoFreeSlot
<1>1. IndInv => RxIntoFreeSlot
  <2> DEFINE q == cur["fwd"]
  <2> SUFFICES ASSUME IndInv, pc["fwd"] \in {"rx", "publish"},
                      NEW c \in reclaimed[q] .. submitted[q] - 1
               PROVE  Slot(c) # Slot(submitted[q])
    BY DEF RxIntoFreeSlot
  <2>1. /\ submitted[q] < reclaimed[q] + DEPTH
        /\ submitted[q] \in Nat /\ reclaimed[q] \in Nat
    BY DEF IndInv, FwdLocals, TypeOK, CursorType, LocalType
  <2>2. c \in Nat /\ c < submitted[q] /\ submitted[q] < c + DEPTH
    BY <2>1, PipelineAssumption
  <2> QED BY <2>1, <2>2, SlotsDiffer
<1> QED BY <1>1, Inductive, PTL

\* A slot of one stream's ring is never in use by the helper and by the lcore
\* that fills or drains that ring.
LEMMA StagesApart ==
  ASSUME IndInv, NEW q \in Queues,
         pc["wk"] \in {"swap", "publish"}, cur["wk"] = q, cur["fwd"] = q
  PROVE  /\ pc["fwd"] \in {"tx", "drop"} =>
              Slot(rec["fwd"]) # Slot(completed[q])
         /\ pc["fwd"] \in {"rx", "publish"} =>
              Slot(submitted[q]) # Slot(completed[q])
<1>1. /\ submitted[q] \in Nat /\ completed[q] \in Nat /\ reclaimed[q] \in Nat
      /\ rec["fwd"] \in Nat /\ com["fwd"] \in Nat
      /\ reclaimed[q] <= completed[q] /\ submitted[q] <= reclaimed[q] + DEPTH
  BY DEF IndInv, TypeOK, CursorType, LocalType, CursorOrder
<1>2. completed[q] < submitted[q] BY DEF IndInv, WkLocals
<1>3. ASSUME pc["fwd"] \in {"tx", "drop"}
      PROVE  Slot(rec["fwd"]) # Slot(completed[q])
  <2>1. /\ reclaimed[q] <= rec["fwd"] /\ rec["fwd"] < com["fwd"]
        /\ com["fwd"] <= completed[q]
    BY <1>3 DEF IndInv, DrainLocals
  <2>2. rec["fwd"] < completed[q] /\ completed[q] < rec["fwd"] + DEPTH
    BY <1>1, <1>2, <2>1, PipelineAssumption
  <2> QED BY <1>1, <2>2, SlotsDiffer
<1>4. ASSUME pc["fwd"] \in {"rx", "publish"}
      PROVE  Slot(submitted[q]) # Slot(completed[q])
  <2>1. submitted[q] < reclaimed[q] + DEPTH BY <1>4 DEF IndInv, FwdLocals
  <2>2. submitted[q] < completed[q] + DEPTH
    BY <1>1, <2>1, PipelineAssumption
  <2> QED BY <1>1, <1>2, <2>2, SlotsDiffer
<1> QED BY <1>3, <1>4

\* At no time are two lcores inside the same slot: the ownership rule the
\* comment on struct macswap_batch states.
THEOREM SlotOwnershipHolds == Spec => []SlotOwnership
<1>1. IndInv => SlotOwnership
  <2> SUFFICES ASSUME IndInv PROVE SlotOwnership OBVIOUS
  <2>1. InUse("fwd") \cap InUse("wk") = {}
    <3>1. cur["fwd"] \in Queues /\ cur["wk"] \in Queues
      BY DEF IndInv, TypeOK, LocalType
    <3>2. CASE pc["wk"] \notin {"swap", "publish"} BY <3>2 DEF InUse
    <3>3. CASE pc["wk"] \in {"swap", "publish"}
      <4>1. InUse("wk") = {<<cur["wk"], Slot(completed[cur["wk"]])>>}
        BY <3>3 DEF InUse
      <4>2. CASE pc["fwd"] \in {"tx", "drop"}
        <5>1. InUse("fwd") = {<<cur["fwd"], Slot(rec["fwd"])>>}
          BY <4>2 DEF InUse
        <5> QED BY <3>1, <3>3, <4>1, <4>2, <5>1, StagesApart
      <4>3. CASE pc["fwd"] \in {"rx", "publish"}
        <5>1. InUse("fwd") = {<<cur["fwd"], Slot(submitted[cur["fwd"]])>>}
          BY <4>3 DEF InUse
        <5> QED BY <3>1, <3>3, <4>1, <4>3, <5>1, StagesApart
      <4>4. CASE pc["fwd"] \notin {"tx", "drop", "rx", "publish"}
        BY <4>4 DEF InUse
      <4> QED BY <4>2, <4>3, <4>4
    <3> QED BY <3>2, <3>3
  <2>2. InUse("main") = {} \/ (InUse("fwd") = {} /\ InUse("wk") = {})
    <3>1. CASE pc["main"] \notin {"tx", "drop"} BY <3>1 DEF InUse
    <3>2. CASE pc["main"] \in {"tx", "drop"}
      <4>1. pc["fwd"] = "off" /\ pc["wk"] = "off"
        BY <3>2 DEF IndInv, MainLocals
      <4> QED BY <4>1 DEF InUse
    <3> QED BY <3>1, <3>2
  <2> QED BY <2>1, <2>2 DEF SlotOwnership
<1> QED BY <1>1, Inductive, PTL

=============================================================================
