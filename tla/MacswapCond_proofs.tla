------------------------ MODULE MacswapCond_proofs ------------------------
(***************************************************************************)
(* Theorems about MacswapCond: with any number of ports, streams and bursts *)
(* of tx_first no post is slept through; and with one port and plain starts *)
(* there is one thread at most, and the one that a stop joins ends.         *)
(***************************************************************************)
EXTENDS MacswapCond, TLAPS

Places == {"none", "test", "lock", "process", "waiting", "exited"}
Commands == {"idle", "begin", "launch", "forwarding", "wait", "clear", "signal", "join"}

\* The types, and that there are threads for what is left of a start.
TypeOK ==
  /\ running \in BOOLEAN /\ stopped \in BOOLEAN
  /\ current_fs \in Streams \cup {"null"}
  /\ created \in 0 .. MaxThreads /\ macswap_thread \in 0 .. created
  /\ thread \in [Threads -> Places]
  /\ fs \in [Threads -> Streams \cup {"null"}]
  /\ fwd \in [Streams -> {"off", "post", "posted"}]
  /\ main \in Commands /\ port \in 1 .. NbPorts /\ bursts \in Nat

Left == NbPorts * bursts + IF main = "begin" THEN NbPorts - port + 1 ELSE 0
Room == /\ main \in {"begin", "launch"} => created + Left <= MaxThreads
        /\ main \in {"idle", "launch", "forwarding", "wait"} => port = 1

\* Somebody is there while the engine runs.
Served == running => \E t \in Threads : Alive(t)

CondInv == TypeOK /\ Room /\ Served /\ NoPostLost

-----------------------------------------------------------------------------
\* A signal leaves every thread where it is or takes one that waits to the lock.
LEMMA Signals ==
  ASSUME TypeOK, Signal
  PROVE  /\ thread' \in [Threads -> Places]
         /\ \A t \in Threads : thread'[t] = thread[t]
                            \/ (thread[t] = "waiting" /\ thread'[t] = "lock")
         /\ \/ \E t \in Threads : thread'[t] = "lock"
            \/ \A t \in Threads : thread'[t] # "waiting"
<1>1. thread \in [Threads -> Places] BY DEF TypeOK
<1>2. CASE \E t \in Threads : /\ thread[t] = "waiting"
                             /\ thread' = [thread EXCEPT ![t] = "lock"]
  <2>1. PICK t \in Threads : /\ thread[t] = "waiting"
                            /\ thread' = [thread EXCEPT ![t] = "lock"]
    BY <1>2
  <2>2. "lock" \in Places BY DEF Places
  <2> QED BY <1>1, <2>1, <2>2
<1>3. CASE (\A t \in Threads : thread[t] # "waiting") /\ UNCHANGED thread BY <1>1, <1>3
<1> QED BY <1>2, <1>3 DEF Signal

\* A thread that moves, moves alone.
LEMMA Moves ==
  ASSUME TypeOK, NEW t \in Threads, NEW to \in Places, Move(t, to)
  PROVE  /\ thread' \in [Threads -> Places] /\ thread'[t] = to
         /\ \A u \in Threads : u # t => thread'[u] = thread[u]
BY DEF TypeOK, Move

LEMMA InitHolds == CondConstants /\ Init => CondInv
<1> SUFFICES ASSUME CondConstants, Init PROVE CondInv OBVIOUS
<1>1. NbPorts \in Nat \ {0} /\ MaxThreads \in Nat BY DEF CondConstants
<1>2. TypeOK
  <2>1. "none" \in Places BY DEF Places
  <2>2. thread \in [Threads -> Places] BY <2>1 DEF Init
  <2>3. /\ fs \in [Threads -> Streams \cup {"null"}]
        /\ fwd \in [Streams -> {"off", "post", "posted"}]
    BY DEF Init
  <2>4. /\ created \in 0 .. MaxThreads /\ macswap_thread \in 0 .. created
        /\ port \in 1 .. NbPorts /\ bursts \in Nat
    BY <1>1 DEF Init
  <2> QED BY <2>2, <2>3, <2>4 DEF Init, TypeOK, Commands
<1>3. Room /\ Served /\ NoPostLost BY DEF Init, Room, Served, NoPostLost
<1> QED BY <1>2, <1>3 DEF CondInv

LEMMA TestKeeps == ASSUME CondConstants, CondInv, NEW t \in Threads, TTest(t) PROVE CondInv'
<1>1. /\ TypeOK /\ Room /\ Served /\ NoPostLost BY DEF CondInv
<1> DEFINE to == IF running THEN "lock" ELSE "exited"
<1>2. to \in Places /\ Move(t, to) /\ thread[t] = "test"
      /\ UNCHANGED <<running, current_fs, macswap_thread, created, fs, stopped, fwd>>
      /\ UNCHANGED <<main, port, bursts>>
  BY DEF TTest, Places, loops
<1>3. /\ thread' \in [Threads -> Places] /\ thread'[t] = to
      /\ \A u \in Threads : u # t => thread'[u] = thread[u]
  <2> HIDE DEF to
  <2> QED BY <1>1, <1>2, Moves
<1>4. TypeOK' BY <1>1, <1>2, <1>3 DEF TypeOK
<1>5. Room' BY <1>1, <1>2 DEF Room, Left
<1>6. Served' BY <1>1, <1>2, <1>3 DEF Served, Alive
<1>7. NoPostLost' BY <1>1, <1>2, <1>3 DEF NoPostLost
<1> QED BY <1>4, <1>5, <1>6, <1>7 DEF CondInv

LEMMA TakeKeeps == ASSUME CondConstants, CondInv, NEW t \in Threads, TTake(t) PROVE CondInv'
<1>1. /\ TypeOK /\ Room /\ Served /\ NoPostLost BY DEF CondInv
<1>2. /\ UNCHANGED <<running, macswap_thread, created, stopped, fwd>>
      /\ UNCHANGED <<main, port, bursts>>
      /\ thread[t] = "lock"
  BY DEF TTake, loops
<1>3. Room' BY <1>1, <1>2 DEF Room, Left
<1>4. CASE running /\ current_fs # "null"
  <2>1. /\ fs' = [fs EXCEPT ![t] = current_fs] /\ current_fs' = "null"
        /\ Move(t, "process")
    BY <1>4 DEF TTake
  <2>2. /\ thread' \in [Threads -> Places] /\ thread'[t] = "process"
        /\ \A u \in Threads : u # t => thread'[u] = thread[u]
    BY <1>1, <2>1, Moves DEF Places
  <2>3. TypeOK' BY <1>1, <1>2, <2>1, <2>2 DEF TypeOK
  <2>4. Served' BY <2>2 DEF Served, Alive
  <2>5. NoPostLost' BY <2>1 DEF NoPostLost
  <2> QED BY <1>3, <2>3, <2>4, <2>5 DEF CondInv
<1>5. CASE ~(running /\ current_fs # "null")
  <2> DEFINE to == IF running THEN "waiting" ELSE "exited"
  <2>1. to \in Places /\ Move(t, to) /\ UNCHANGED <<fs, current_fs>>
    BY <1>5 DEF TTake, Places
  <2>2. /\ thread' \in [Threads -> Places] /\ thread'[t] = to
        /\ \A u \in Threads : u # t => thread'[u] = thread[u]
    <3> HIDE DEF to
    <3> QED BY <1>1, <2>1, Moves
  <2>3. TypeOK' BY <1>1, <1>2, <2>1, <2>2 DEF TypeOK
  <2>4. Served' BY <1>1, <1>2, <2>2 DEF Served, Alive
  <2>5. NoPostLost' BY <1>2, <1>5, <2>1 DEF NoPostLost
  <2> QED BY <1>3, <2>3, <2>4, <2>5 DEF CondInv
<1> QED BY <1>4, <1>5

LEMMA RestKeeps ==
  ASSUME CondConstants, CondInv, NEW t \in Threads, TProcess(t) \/ SpuriousWake(t) PROVE CondInv'
<1>1. /\ TypeOK /\ Room /\ Served /\ NoPostLost BY DEF CondInv
<1>2. PICK to \in {"test", "lock"} : Move(t, to) BY DEF TProcess, SpuriousWake
<1>3. /\ UNCHANGED <<running, current_fs, macswap_thread, created, fs, stopped, fwd>>
      /\ UNCHANGED <<main, port, bursts>>
  BY DEF TProcess, SpuriousWake, loops
<1>4. /\ thread' \in [Threads -> Places] /\ thread'[t] = to
      /\ \A u \in Threads : u # t => thread'[u] = thread[u]
  BY <1>1, <1>2, Moves DEF Places
<1>5. TypeOK' BY <1>1, <1>3, <1>4 DEF TypeOK
<1>6. Room' BY <1>1, <1>3 DEF Room, Left
<1>7. Served' BY <1>4 DEF Served, Alive
<1>8. NoPostLost' BY <1>1, <1>3, <1>4 DEF NoPostLost
<1> QED BY <1>5, <1>6, <1>7, <1>8 DEF CondInv

\* The post wakes one that waits, unless another is awake, since one is there.
LEMMA PostKeeps == ASSUME CondConstants, CondInv, NEW s \in Streams, Post(s) PROVE CondInv'
<1>1. /\ TypeOK /\ Room /\ Served /\ NoPostLost BY DEF CondInv
<1>2. /\ current_fs' = s /\ Signal /\ fwd' = [fwd EXCEPT ![s] = "posted"]
      /\ UNCHANGED <<running, macswap_thread, created, fs, stopped>>
      /\ UNCHANGED <<main, port, bursts>>
  BY DEF Post, loops
<1>3. /\ thread' \in [Threads -> Places]
      /\ \A t \in Threads : thread'[t] = thread[t]
                         \/ (thread[t] = "waiting" /\ thread'[t] = "lock")
      /\ \/ \E t \in Threads : thread'[t] = "lock"
         \/ \A t \in Threads : thread'[t] # "waiting"
  BY <1>1, <1>2, Signals
<1>4. TypeOK' BY <1>1, <1>2, <1>3 DEF TypeOK
<1>5. Room' BY <1>1, <1>2 DEF Room, Left
<1>6. Served' BY <1>1, <1>2, <1>3 DEF Served, Alive
<1>7. NoPostLost'
  <2>1. CASE \E t \in Threads : thread'[t] = "lock" BY <2>1 DEF NoPostLost
  <2>2. CASE \A t \in Threads : thread'[t] # "waiting"
    <3>1. \A t \in Threads : thread'[t] \in Places BY <1>3
    <3> QED BY <1>6, <2>2, <3>1 DEF NoPostLost, Served, Alive, Places
  <2> QED BY <1>3, <2>1, <2>2
<1> QED BY <1>4, <1>5, <1>6, <1>7 DEF CondInv

LEMMA LoopKeeps == ASSUME CondConstants, CondInv, NEW s \in Streams, FTest(s) PROVE CondInv'
<1>1. /\ TypeOK /\ Room /\ Served /\ NoPostLost BY DEF CondInv
<1>2. PICK to \in {"off", "post"} : fwd' = [fwd EXCEPT ![s] = to] BY DEF FTest
<1>3. /\ UNCHANGED <<running, current_fs, macswap_thread, created, thread, fs, stopped>>
      /\ UNCHANGED <<main, port, bursts>>
  BY DEF FTest, engine, loops
<1>4. TypeOK' BY <1>1, <1>2, <1>3 DEF TypeOK
<1>5. Room' /\ Served' /\ NoPostLost'
  BY <1>1, <1>3 DEF Room, Left, Served, Alive, NoPostLost
<1> QED BY <1>4, <1>5 DEF CondInv

-----------------------------------------------------------------------------
(* The main lcore. *)

\* Bursts times ports: the only product.
LEMMA Products ==
  ASSUME NEW n \in Nat, NEW k \in Nat
  PROVE  n * k \in Nat /\ n * (k + 1) = n * k + n
OBVIOUS

LEMMA StartKeeps == ASSUME CondConstants, CondInv, MStart PROVE CondInv'
<1>1. /\ TypeOK /\ Room /\ Served /\ NoPostLost BY DEF CondInv
<1>2. /\ bursts' \in 0 .. MaxTxFirst /\ created + NbPorts * (bursts' + 1) <= MaxThreads
      /\ main' = "begin" /\ port' = 1
      /\ UNCHANGED <<running, current_fs, macswap_thread, created, thread, fs>>
      /\ UNCHANGED <<stopped, fwd>>
  BY DEF MStart, engine
<1>3. NbPorts \in Nat \ {0} /\ MaxTxFirst \in Nat /\ bursts' \in Nat
  BY <1>2 DEF CondConstants
<1>4. TypeOK' BY <1>1, <1>2, <1>3 DEF TypeOK, Commands
<1>5. Room'
  <2>1. NbPorts * bursts' \in Nat /\ NbPorts * (bursts' + 1) = NbPorts * bursts' + NbPorts
    BY <1>3, Products
  <2> DEFINE x == NbPorts * bursts'
  <2>2. Left' = x + (NbPorts - 1 + 1) BY <1>2 DEF Left
  <2>3. created + (x + NbPorts) <= MaxThreads BY <1>2, <2>1
  <2> HIDE DEF x
  <2>4. x + (NbPorts - 1 + 1) = x + NbPorts BY <1>3, <2>1 DEF x
  <2> QED BY <1>2, <2>2, <2>3, <2>4 DEF Room
<1>6. Served' /\ NoPostLost' BY <1>1, <1>2 DEF Served, Alive, NoPostLost
<1> QED BY <1>4, <1>5, <1>6 DEF CondInv

LEMMA BeginKeeps == ASSUME CondConstants, CondInv, MBegin PROVE CondInv'
<1>1. /\ TypeOK /\ Room /\ Served /\ NoPostLost BY DEF CondInv
<1>2. /\ main = "begin" /\ running' = TRUE /\ created' = created + 1
      /\ macswap_thread' = created + 1 /\ Move(created + 1, "test")
      /\ NextPort("begin", "launch")
      /\ UNCHANGED <<current_fs, fs, bursts, stopped, fwd>>
  BY DEF MBegin
<1>3. /\ NbPorts \in Nat \ {0} /\ MaxThreads \in Nat /\ bursts \in Nat
      /\ created \in Nat /\ port \in 1 .. NbPorts
  BY <1>1 DEF CondConstants, TypeOK
<1> DEFINE x == NbPorts * bursts
<1>4. x \in Nat BY <1>3, Products
<1>5. created + (x + (NbPorts - port + 1)) <= MaxThreads BY <1>1, <1>2 DEF Room, Left
<1>6. created + 1 \in Threads
  <2> HIDE DEF x
  <2> QED BY <1>3, <1>4, <1>5 DEF Threads
<1>7. /\ thread' \in [Threads -> Places] /\ thread'[created + 1] = "test"
  BY <1>1, <1>2, <1>6, Moves DEF Places
<1>8. /\ port' \in 1 .. NbPorts /\ main' \in {"begin", "launch"}
      /\ main' = "begin" => port' = port + 1 /\ port < NbPorts
      /\ main' = "launch" => port' = 1 /\ port = NbPorts
  BY <1>2, <1>3 DEF NextPort
<1>9. TypeOK'
  <2>1. created' \in 0 .. MaxThreads /\ macswap_thread' \in 0 .. created'
    BY <1>2, <1>3, <1>6 DEF Threads
  <2> QED BY <1>1, <1>2, <1>7, <1>8, <2>1 DEF TypeOK, Commands
<1>10. Room'
  <2>1. CASE main' = "begin"
    <3>1. Left' = x + (NbPorts - (port + 1) + 1) BY <1>2, <1>8, <2>1 DEF Left
    <3> HIDE DEF x
    <3>2. created + 1 + (x + (NbPorts - (port + 1) + 1)) <= MaxThreads
      BY <1>3, <1>4, <1>5
    <3> QED BY <1>2, <2>1, <3>1, <3>2 DEF Room
  <2>2. CASE main' = "launch"
    <3>1. Left' = x + 0 BY <1>2, <2>2 DEF Left
    <3> HIDE DEF x
    <3>2. created + 1 + (x + 0) <= MaxThreads BY <1>3, <1>4, <1>5
    <3> QED BY <1>2, <1>8, <2>2, <3>1, <3>2 DEF Room
  <2> QED BY <1>8, <2>1, <2>2
<1>11. Served' BY <1>6, <1>7 DEF Served, Alive
<1>12. NoPostLost' BY <1>6, <1>7 DEF NoPostLost
<1> QED BY <1>9, <1>10, <1>11, <1>12 DEF CondInv

LEMMA LaunchKeeps == ASSUME CondConstants, CondInv, MLaunch PROVE CondInv'
<1>1. /\ TypeOK /\ Room /\ Served /\ NoPostLost BY DEF CondInv
<1>2. /\ main = "launch" /\ stopped' = FALSE
      /\ UNCHANGED <<running, current_fs, macswap_thread, created, thread, fs, port>>
  BY DEF MLaunch, engine
<1>3. /\ NbPorts \in Nat \ {0} /\ MaxThreads \in Nat /\ bursts \in Nat
      /\ created \in Nat /\ port = 1
  BY <1>1, <1>2 DEF CondConstants, TypeOK, Room
<1>4. Served' /\ NoPostLost' BY <1>1, <1>2 DEF Served, Alive, NoPostLost
<1>5. CASE bursts > 0
  <2>1. bursts' = bursts - 1 /\ main' = "begin" /\ UNCHANGED fwd BY <1>5 DEF MLaunch
  <2>2. bursts' \in Nat /\ bursts = bursts' + 1 BY <1>3, <1>5, <2>1
  <2>3. TypeOK' BY <1>1, <1>2, <2>1, <2>2 DEF TypeOK, Commands
  <2> DEFINE x == NbPorts * bursts'
  <2>4. x \in Nat /\ NbPorts * bursts = x + NbPorts BY <1>3, <2>2, Products
  <2>5. created + (x + NbPorts + 0) <= MaxThreads BY <1>1, <1>2, <2>4 DEF Room, Left
  <2>6. Left' = x + (NbPorts - 1 + 1) BY <1>2, <1>3, <2>1 DEF Left
  <2>7. Room'
    <3> HIDE DEF x
    <3>1. created + (x + (NbPorts - 1 + 1)) <= MaxThreads BY <1>3, <2>4, <2>5
    <3> QED BY <1>2, <1>3, <2>1, <2>6, <3>1 DEF Room
  <2> QED BY <1>4, <2>3, <2>7 DEF CondInv
<1>6. CASE ~(bursts > 0)
  <2>1. fwd' = [s \in Streams |-> "post"] /\ main' = "forwarding" /\ UNCHANGED bursts
    BY <1>6 DEF MLaunch
  <2>2. TypeOK' BY <1>1, <1>2, <2>1 DEF TypeOK, Commands
  <2>3. Room' BY <1>2, <1>3, <2>1 DEF Room
  <2> QED BY <1>4, <2>2, <2>3 DEF CondInv
<1> QED BY <1>5, <1>6

\* The steps of a stop but for its signals; the threads do not move.
LEMMA StopKeeps == ASSUME CondConstants, CondInv, MStop \/ MWait \/ MClear \/ MJoin PROVE CondInv'
<1>1. /\ TypeOK /\ Room /\ Served /\ NoPostLost BY DEF CondInv
<1>2. /\ UNCHANGED <<current_fs, macswap_thread, created, thread, fs, fwd, bursts>>
      /\ running' \in {running, FALSE} /\ stopped' \in BOOLEAN
      /\ main' \in {"wait", "clear", "signal", "idle"}
  BY <1>1 DEF MStop, MWait, MClear, MJoin, NextPort, engine, TypeOK
<1>3. NbPorts \in Nat \ {0} /\ port \in 1 .. NbPorts BY <1>1 DEF CondConstants, TypeOK
<1>4. port' \in 1 .. NbPorts /\ (main' \in {"wait", "idle"} => port' = 1)
  <2>1. CASE MStop BY <1>1, <1>3, <2>1 DEF MStop, Room
  <2>2. CASE MWait BY <1>3, <2>2 DEF MWait
  <2>3. CASE MClear BY <1>3, <2>3 DEF MClear
  <2>4. CASE MJoin BY <1>3, <2>4 DEF MJoin, NextPort
  <2> QED BY <2>1, <2>2, <2>3, <2>4
<1>5. running' \in BOOLEAN
  <2>1. running \in BOOLEAN BY <1>1 DEF TypeOK
  <2> QED BY <1>2, <2>1
<1>6. TypeOK' BY <1>1, <1>2, <1>4, <1>5 DEF TypeOK, Commands
<1>7. Room' BY <1>2, <1>4 DEF Room
<1>8. Served' /\ NoPostLost'
  <2>1. running' => running BY <1>2, <1>5
  <2> QED BY <1>1, <1>2, <2>1 DEF Served, Alive, NoPostLost
<1> QED BY <1>6, <1>7, <1>8 DEF CondInv

LEMMA SignalKeeps == ASSUME CondConstants, CondInv, MSignal PROVE CondInv'
<1>1. /\ TypeOK /\ Room /\ Served /\ NoPostLost BY DEF CondInv
<1>2. /\ Signal /\ main' = "join"
      /\ UNCHANGED <<running, current_fs, macswap_thread, created, fs, stopped, fwd>>
      /\ UNCHANGED <<port, bursts>>
  BY DEF MSignal
<1>3. /\ thread' \in [Threads -> Places]
      /\ \A t \in Threads : thread'[t] = thread[t]
                         \/ (thread[t] = "waiting" /\ thread'[t] = "lock")
  BY <1>1, <1>2, Signals
<1>4. TypeOK' BY <1>1, <1>2, <1>3 DEF TypeOK, Commands
<1>5. Room' BY <1>2 DEF Room
<1>6. Served' BY <1>1, <1>2, <1>3 DEF Served, Alive
<1>7. NoPostLost' BY <1>1, <1>2, <1>3 DEF NoPostLost
<1> QED BY <1>4, <1>5, <1>6, <1>7 DEF CondInv

LEMMA StepKeeps == CondConstants /\ CondInv /\ [Next]_vars => CondInv'
<1> SUFFICES ASSUME CondConstants, CondInv, [Next]_vars PROVE CondInv' OBVIOUS
<1>1. CASE \E t \in Threads : Thread(t) \/ SpuriousWake(t)
  BY <1>1, TestKeeps, TakeKeeps, RestKeeps DEF Thread
<1>2. CASE \E s \in Streams : Forward(s) BY <1>2, PostKeeps, LoopKeeps DEF Forward
<1>3. CASE MStart \/ MStop \/ MainSteps
  BY <1>3, StartKeeps, BeginKeeps, LaunchKeeps, StopKeeps, SignalKeeps DEF MainSteps
<1>4. CASE UNCHANGED vars
  <2>1. /\ UNCHANGED <<running, current_fs, macswap_thread, created, thread, fs>>
        /\ UNCHANGED <<stopped, fwd, main, port, bursts>>
    BY <1>4 DEF vars, engine, loops
  <2>2. TypeOK' BY <2>1 DEF CondInv, TypeOK
  <2>3. Room' /\ Served' /\ NoPostLost'
    BY <2>1 DEF CondInv, Room, Left, Served, Alive, NoPostLost
  <2> QED BY <2>2, <2>3 DEF CondInv
<1> QED BY <1>1, <1>2, <1>3, <1>4 DEF Next

\* The engine's inductive invariant: its types, and with it what follows.
THEOREM CondInductive == CondConstants /\ Spec => [](CondConstants /\ CondInv)
<1>1. CondConstants => CondConstants' BY DEF CondConstants
<1> QED BY <1>1, InitHolds, StepKeeps, PTL DEF Spec

\* No post is slept through: while the engine runs and a stream is posted, a thread
\* is on its way to it, whatever the number of ports, threads and lcores, and
\* however often a thread wakes by itself.
THEOREM PostsAttended == CondConstants /\ Spec => []NoPostLost
<1>1. CondInv => NoPostLost BY DEF CondInv
<1> QED BY <1>1, CondInductive, PTL

-----------------------------------------------------------------------------
(* One port. *)

Engaged == main \notin {"idle", "begin"}

\* The thread created last is the only one there is, if there is one.
Alone ==
  /\ bursts = 0 /\ port = 1
  /\ Engaged => macswap_thread \in Threads
  /\ \A t \in Threads : Alive(t) => Engaged /\ t = macswap_thread
  /\ (running <=> main \in {"launch", "forwarding", "wait", "clear"})
  /\ JoinEnds

LEMMA InitAlone == OnePort /\ Init => Alone
<1> SUFFICES ASSUME Init PROVE Alone OBVIOUS
<1>1. running = FALSE /\ main = "idle" /\ bursts = 0 /\ port = 1 BY DEF Init
<1>2. \A t \in Threads : ~Alive(t) BY DEF Init, Alive
<1>3. main \notin {"launch", "forwarding", "wait", "clear"} BY <1>1
<1> QED BY <1>1, <1>2, <1>3 DEF Alone, Engaged, JoinEnds

\* A thread only goes to sleep while the engine runs; a wake-up makes none alive.
LEMMA ThreadAlone ==
  ASSUME CondConstants, CondInv, Alone, NEW t \in Threads, Thread(t) \/ SpuriousWake(t)
  PROVE  Alone'
<1>1. /\ TypeOK BY DEF CondInv
<1>2. PICK to \in Places : Move(t, to) /\ (to = "waiting" => running)
  <2>1. CASE TTest(t) BY <2>1 DEF TTest, Places
  <2>2. CASE TTake(t)
    <3>1. CASE running /\ current_fs # "null" BY <2>2, <3>1 DEF TTake, Places
    <3>2. CASE ~(running /\ current_fs # "null") BY <2>2, <3>2 DEF TTake, Places
    <3> QED BY <3>1, <3>2
  <2>3. CASE TProcess(t) BY <2>3 DEF TProcess, Places
  <2>4. CASE SpuriousWake(t) BY <2>4 DEF SpuriousWake, Places
  <2> QED BY <2>1, <2>2, <2>3, <2>4 DEF Thread
<1>3. UNCHANGED <<running, macswap_thread, main, port, bursts>> /\ Alive(t)
  BY DEF Thread, TTest, TTake, TProcess, SpuriousWake, loops, Alive
<1>4. /\ thread'[t] = to /\ \A u \in Threads : u # t => thread'[u] = thread[u]
  BY <1>1, <1>2, Moves
<1>5. \A u \in Threads : Alive(u)' => Alive(u) BY <1>3, <1>4 DEF Alive
<1>6. JoinEnds'
  <2>1. Engaged /\ t = macswap_thread BY <1>3 DEF Alone
  <2> QED BY <1>2, <1>3, <1>4, <2>1 DEF Alone, JoinEnds
<1> QED BY <1>3, <1>5, <1>6 DEF Alone, Engaged

LEMMA ForwardAlone ==
  ASSUME CondConstants, CondInv, Alone, NEW s \in Streams, Forward(s)
  PROVE  Alone'
<1>1. TypeOK BY DEF CondInv
<1>2. UNCHANGED <<running, macswap_thread, main, port, bursts>>
  BY DEF Forward, Post, FTest, engine, loops
<1>3. Signal \/ UNCHANGED thread BY DEF Forward, Post, FTest, engine
<1>4. \A t \in Threads : thread'[t] = thread[t]
                       \/ (thread[t] = "waiting" /\ thread'[t] = "lock")
  BY <1>1, <1>3, Signals
<1>5. \A t \in Threads : Alive(t)' => Alive(t) BY <1>4 DEF Alive
<1>6. JoinEnds'
  <2>1. main = "join" => macswap_thread \in Threads BY DEF Alone, Engaged
  <2>2. main = "join" => ~running /\ thread[macswap_thread] # "waiting"
    BY DEF Alone, JoinEnds
  <2> QED BY <1>2, <1>4, <2>1, <2>2 DEF JoinEnds
<1> QED BY <1>2, <1>5, <1>6 DEF Alone, Engaged

LEMMA MainAlone ==
  ASSUME OnePort, CondConstants, CondInv, Alone, MStart \/ MStop \/ MainSteps
  PROVE  Alone'
<1>1. TypeOK BY DEF CondInv
<1>2. port = 1 /\ bursts = 0 /\ NbPorts = 1 /\ MaxTxFirst = 0 BY DEF Alone, OnePort
<1>3. \A t \in Threads : Alive(t) => Engaged /\ t = macswap_thread BY DEF Alone
<1>4. (running <=> main \in {"launch", "forwarding", "wait", "clear"}) BY DEF Alone
<1>5. CASE MStart
  <2>1. main = "idle" /\ main' = "begin" /\ port' = 1 /\ bursts' = 0
        /\ UNCHANGED <<running, macswap_thread, thread>>
    BY <1>2, <1>5 DEF MStart, engine
  <2>2. \A t \in Threads : ~Alive(t)' BY <1>3, <2>1 DEF Engaged, Alive
  <2> QED BY <1>4, <2>1, <2>2 DEF Alone, Engaged, JoinEnds
<1>6. CASE MBegin
  <2>1. /\ main = "begin" /\ main' = "launch" /\ port' = 1 /\ bursts' = 0 /\ running' = TRUE
        /\ macswap_thread' = created + 1 /\ Move(created + 1, "test")
    BY <1>2, <1>6 DEF MBegin, NextPort
  <2>2. \A t \in Threads : thread'[t] = IF t = created + 1 THEN "test" ELSE thread[t]
    BY <1>1, <2>1 DEF Move, TypeOK
  <2>3. \A t \in Threads : ~Alive(t) BY <1>3, <2>1 DEF Engaged
  <2>4. \A t \in Threads : Alive(t)' => t = macswap_thread' BY <2>1, <2>2, <2>3 DEF Alive
  <2>5. macswap_thread' \in Threads
    <3>1. TypeOK' BY <1>6, BeginKeeps DEF CondInv
    <3>2. created \in 0 .. MaxThreads /\ MaxThreads \in Nat
      BY <1>1 DEF CondConstants, TypeOK
    <3>3. created' = created + 1 /\ created' \in 0 .. MaxThreads
      BY <1>6, <3>1 DEF MBegin, TypeOK
    <3> QED BY <2>1, <3>2, <3>3 DEF Threads
  <2> QED BY <2>1, <2>4, <2>5 DEF Alone, JoinEnds, Engaged
<1>7. CASE MLaunch \/ MStop \/ MWait \/ MClear
  <2>1. UNCHANGED <<macswap_thread, thread, port, bursts>>
    BY <1>2, <1>7 DEF MLaunch, MStop, MWait, MClear, engine
  <2>2. Engaged' /\ Engaged /\ main' # "join"
    BY <1>2, <1>7 DEF MLaunch, MStop, MWait, MClear, Engaged
  <2>4. (running' <=> main' \in {"launch", "forwarding", "wait", "clear"})
    <3>1. CASE MClear
      <4>1. running' = FALSE /\ main' = "signal" BY <3>1 DEF MClear
      <4> QED BY <4>1
    <3>2. CASE MLaunch \/ MStop \/ MWait
      <4>1. /\ running' = running /\ main \in {"launch", "forwarding", "wait"}
            /\ main' \in {"forwarding", "wait", "clear"}
        BY <1>2, <3>2 DEF MLaunch, MStop, MWait, engine
      <4>2. running = TRUE BY <1>4, <4>1
      <4> QED BY <4>1, <4>2
    <3> QED BY <1>7, <3>1, <3>2
  <2>3. \A t \in Threads : Alive(t)' => t = macswap_thread' BY <1>3, <2>1 DEF Alive
  <2>5. macswap_thread \in Threads BY <2>2 DEF Alone
  <2> QED BY <1>2, <2>1, <2>2, <2>3, <2>4, <2>5 DEF Alone, JoinEnds
<1>8. CASE MSignal
  <2>1. main = "signal" /\ main' = "join" /\ Signal
        /\ UNCHANGED <<running, macswap_thread, port, bursts>>
    BY <1>8 DEF MSignal
  <2>2. /\ \A t \in Threads : thread'[t] = thread[t]
                           \/ (thread[t] = "waiting" /\ thread'[t] = "lock")
        /\ \/ \E t \in Threads : thread'[t] = "lock"
           \/ \A t \in Threads : thread'[t] # "waiting"
    BY <1>1, <2>1, Signals
  <2>3. \A t \in Threads : Alive(t)' => t = macswap_thread' BY <1>3, <2>1, <2>2 DEF Alive
  <2>4. JoinEnds'
    <3>1. macswap_thread \in Threads BY <2>1 DEF Alone, Engaged
    <3>2. thread'[macswap_thread] # "waiting"
      <4>1. CASE \A t \in Threads : thread'[t] # "waiting" BY <3>1, <4>1
      <4>2. CASE \E t \in Threads : thread'[t] = "lock"
        <5>1. PICK t \in Threads : thread'[t] = "lock" BY <4>2
        <5>2. t = macswap_thread BY <2>1, <2>3, <5>1 DEF Alive
        <5> QED BY <5>1, <5>2
      <4> QED BY <2>2, <4>1, <4>2
    <3>3. ~running BY <1>4, <2>1
    <3> QED BY <2>1, <3>2, <3>3 DEF JoinEnds
  <2>5. macswap_thread \in Threads /\ ~running
    BY <1>4, <2>1 DEF Alone, Engaged
  <2> QED BY <1>2, <2>1, <2>3, <2>4, <2>5 DEF Alone, Engaged
<1>9. CASE MJoin
  <2>1. main' = "idle" /\ thread[macswap_thread] = "exited" /\ port' = 1 /\ main = "join"
        /\ UNCHANGED <<running, macswap_thread, thread, bursts>>
    BY <1>2, <1>9 DEF MJoin, NextPort, engine
  <2>2. \A t \in Threads : ~Alive(t)' BY <1>3, <2>1 DEF Alive
  <2> QED BY <1>2, <1>4, <2>1, <2>2 DEF Alone, Engaged, JoinEnds
<1> QED BY <1>5, <1>6, <1>7, <1>8, <1>9 DEF MainSteps

LEMMA StepAlone == OnePort /\ CondConstants /\ CondInv /\ Alone /\ [Next]_vars => Alone'
<1> SUFFICES ASSUME OnePort, CondConstants, CondInv, Alone, [Next]_vars PROVE Alone' OBVIOUS
<1>1. CASE UNCHANGED vars
  <2>1. UNCHANGED <<running, macswap_thread, thread, main, port, bursts>>
    BY <1>1 DEF vars, engine, loops
  <2> QED BY <2>1 DEF Alone, Alive, Engaged, JoinEnds
<1> QED BY <1>1, ThreadAlone, ForwardAlone, MainAlone DEF Next

LEMMA OneFlow == OnePort /\ CondConstants /\ Spec => [](OnePort /\ Alone)
<1>1. OnePort /\ Init => Alone BY InitAlone
<1>2. OnePort /\ CondConstants /\ CondInv /\ Alone /\ [Next]_vars => Alone' BY StepAlone
<1>3. OnePort => OnePort' BY DEF OnePort
<1> QED BY <1>1, <1>2, <1>3, CondInductive, PTL DEF Spec

\* With one port and plain starts nothing of what the run cond finds can happen: one
\* thread at most, stop joins it when it will not sleep any more, and leaves none.
THEOREM OnePortStops ==
  OnePort /\ CondConstants /\ Spec => [](OneThread /\ JoinEnds /\ NoThreadLeft)
<1>1. Alone => OneThread /\ JoinEnds /\ NoThreadLeft
  BY DEF Alone, Engaged, OneThread, NoThreadLeft
<1> QED BY <1>1, OneFlow, PTL

=============================================================================
