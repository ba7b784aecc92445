---------------------- MODULE TestpmdLifecycle_proofs ----------------------
(***************************************************************************)
(* Theorems about TestpmdLifecycle: for any number of lcores, helper slots *)
(* and ports, any helper table and any engines, as long as the operator    *)
(* does not switch engines while forwarding and starts the pipelined one   *)
(* without tx_first (the runs lifecycle_reconfig and lifecycle_tx_first    *)
(* show what happens if not).                                              *)
(***************************************************************************)
EXTENDS TestpmdLifecycle, TLAPS

\* What the operator does not do.
PlainUse == /\ ~SwitchWhileForwarding
            /\ \A e \in Engines : e.callbacks => e.tx_first = 0

\* No pipeline is there: before a begin, and after a free.
Clean == /\ ~initialized /\ launched = 0
         /\ \A i \in WorkerIds : ~queues[i] /\ ~owner[i] /\ ~abort[i]

\* A helper that has a lcore of its own, and one that runs and was told no stop.
Placed(i) == my_lcore_id[i] \in Workers /\ ~Forwarding(my_lcore_id[i])
Helping(i) == /\ my_lcore_id[i] \in Workers
              /\ job[my_lcore_id[i]] = Job("helper", i)
              /\ ~abort[i] /\ ~stopped[i]

\* Begin is at worker w: its queues, or its helper.
Building == /\ ~initialized /\ launched = 0
            /\ \A i \in WorkerIds : ~abort[i]
            /\ w <= cur_lcores /\ cur_lcores <= NUM_CORE
            /\ \A i \in 1 .. w - 1 : owner[i] /\ queues[i] /\ ~stopped[i] /\ Placed(i)
Launching == /\ ~initialized /\ launched = w - 1
             /\ w <= cur_lcores /\ cur_lcores <= NUM_CORE
             /\ \A i \in 1 .. cur_lcores : /\ owner[i] /\ queues[i] /\ Placed(i)
                                           /\ ~abort[i] /\ ~stopped[i]
             /\ \A i \in 1 .. w - 1 : Helping(i)

\* The pipeline of the current configuration, and its helpers.
Built == initialized /\ launched = cur_lcores
Running == Built /\ \A i \in 1 .. cur_lcores : Placed(i) /\ Helping(i)

\* Every forwarding lcore runs the engine and was told no stop.
Forwards ==
  \A i \in 1 .. cur_lcores :
    /\ ~stopped[i]
    /\ job[fwd_lcores_cpuids[i]] = Job(IF fwd_eng.callbacks THEN "macswap" ELSE "fwd", i)

\* What there is of the engine at each place of the main lcore.
Stages ==
  /\ pc = "prompt" /\ test_done => Clean
  /\ pc = "prompt" /\ ~test_done => Forwards
  /\ pc = "launch" \/ (pc = "prompt" /\ ~test_done) =>
       IF fwd_eng.callbacks THEN Running ELSE Clean
  /\ pc = "begin" => Clean \/ Running
  /\ pc = "build" => Building
  /\ pc = "helpers" => Launching
  /\ pc \in {"txbegin", "txfirst", "txwait"} => Clean /\ ~fwd_eng.callbacks
  /\ pc = "stopping" => IF fwd_eng.callbacks THEN Built ELSE Clean
  /\ pc = "end" => AllWaiting /\ (initialized \/ Clean)

\* A start or a forwarding goes on with the configuration it was set up with, and
\* only an engine without callbacks gets to the tx-only bursts.
Commands ==
  /\ pc # "prompt" \/ ~test_done =>
       cur_lcores = CappedLcores(nb_fwd_lcores, nb_q) /\ fwd_eng = cur_fwd_eng
  /\ pc \in {"begin", "build", "helpers"} => fwd_eng.callbacks /\ bursts = 0
  /\ pc \in {"txbegin", "txfirst"} => bursts > 0
  /\ pc \in {"begin", "build", "helpers", "fail", "failjoin", "txbegin"} => test_done

\* A helper was launched by begin, on the lcore of its index and after its queues
\* were built; a forwarding lcore runs its own index, and only while it may.
Jobs ==
  /\ \A i \in 1 .. launched : owner[i] /\ queues[i]
  /\ \A l \in Workers :
       /\ job[l].f = "helper" => job[l].arg \in 1 .. launched /\ my_lcore_id[job[l].arg] = l
       /\ job[l].f \in {"fwd", "macswap", "txonly"} =>
            /\ job[l].arg \in 1 .. cur_lcores /\ fwd_lcores_cpuids[job[l].arg] = l
            /\ pc \in {"txwait", "prompt", "stopping"} /\ (pc = "prompt" => ~test_done)
       /\ job[l].f = "macswap" => fwd_eng.callbacks
       /\ job[l].f = "txonly" => pc = "txwait"

\* The inductive invariant.
LifecycleInv == PlainUse /\ TypeOK /\ Stages /\ Commands /\ Jobs

-----------------------------------------------------------------------------
(* Types and lcores.                                                        *)

LEMMA IndexTypes ==
  /\ NUM_CORE \in Nat /\ NUM_CORE >= 1 /\ NbPorts \in Nat /\ NbPorts >= 1
  /\ \E n \in Nat : n >= 1 /\ Indices = 1 .. n
  /\ \A i \in Indices : i \in Nat /\ i >= 1 /\ fwd_lcores_cpuids[i] \in Workers
  /\ \A i, j \in Indices : fwd_lcores_cpuids[i] = fwd_lcores_cpuids[j] => i = j
<1>1. fwd_lcores_cpuids \in Seq(Workers) /\ fwd_lcores_cpuids # << >>
  BY LifecycleAssumption
<1>2. PICK n \in Nat : n = Len(fwd_lcores_cpuids) /\ n >= 1 BY <1>1
<1>3. Indices = 1 .. n BY <1>2 DEF Indices
<1>4. \A i \in Indices : fwd_lcores_cpuids[i] \in Workers BY <1>1, <1>2, <1>3
<1> QED BY <1>2, <1>3, <1>4, LifecycleAssumption

\* A capped number of lcores is still a number of lcores.
LEMMA CappedTypes ==
  ASSUME NEW n \in Indices, NEW q \in 1 .. MaxQueues
  PROVE  CappedLcores(n, q) \in Indices
<1>1. q \in Nat /\ q >= 1 /\ n \in Nat BY LifecycleAssumption, IndexTypes
<1>2. q * NbPorts \in Nat /\ q * NbPorts >= 1 BY <1>1, IndexTypes
<1> DEFINE s == q * NbPorts
<1>3. CASE s < n
  <2>1. CappedLcores(n, q) = s BY <1>3 DEF CappedLcores
  <2>2. s \in Nat /\ s >= 1 BY <1>2
  <2> HIDE DEF s
  <2>3. s \in Indices BY <1>1, <1>3, <2>2, IndexTypes
  <2> QED BY <2>1, <2>3
<1>4. CASE ~(s < n) BY <1>4 DEF CappedLcores
<1> QED BY <1>3, <1>4

LEMMA StateTypes ==
  ASSUME TypeOK
  PROVE  /\ cur_lcores \in Indices /\ nb_fwd_lcores \in Indices
         /\ cur_fwd_eng \in Engines /\ fwd_eng \in Engines
         /\ cur_lcores \in Nat /\ cur_lcores >= 1 /\ 1 .. cur_lcores \subseteq Indices
         /\ w \in Nat /\ w >= 1 /\ launched \in Nat /\ bursts \in Nat
         /\ test_done \in BOOLEAN /\ initialized \in BOOLEAN
         /\ DOMAIN job = Workers /\ stopped \in [Indices -> BOOLEAN]
         /\ owner \in [WorkerIds -> BOOLEAN] /\ abort \in [WorkerIds -> BOOLEAN]
         /\ queues \in [WorkerIds -> BOOLEAN]
<1>1. /\ cur_lcores \in Indices /\ nb_fwd_lcores \in Indices
      /\ cur_fwd_eng \in Engines /\ fwd_eng \in Engines
      /\ test_done \in BOOLEAN /\ initialized \in BOOLEAN
      /\ owner \in [WorkerIds -> BOOLEAN] /\ abort \in [WorkerIds -> BOOLEAN]
      /\ queues \in [WorkerIds -> BOOLEAN]
  BY DEF TypeOK
<1>2. w \in Nat /\ w >= 1 /\ launched \in Nat /\ bursts \in Nat
  BY IndexTypes DEF TypeOK, WorkerIds
<1>3. DOMAIN job = Workers /\ stopped \in [Indices -> BOOLEAN] BY DEF TypeOK
<1>4. cur_lcores \in Nat /\ cur_lcores >= 1 /\ 1 .. cur_lcores \subseteq Indices
  BY <1>1, IndexTypes
<1> QED BY <1>1, <1>2, <1>3, <1>4

\* An lcore is idle, a helper, or a forwarding lcore.
LEMMA JobKinds ==
  ASSUME TypeOK, NEW l \in Workers
  PROVE  /\ job[l].f \in {"none", "helper", "fwd", "macswap", "txonly"}
         /\ job[l].f = "none" <=> Waiting(l)
<1>1. job[l] \in {Idle} \cup [f : {"fwd", "macswap", "txonly"}, arg : Indices]
                        \cup [f : {"helper"}, arg : WorkerIds \cap Indices]
  BY DEF TypeOK
<1> QED BY <1>1 DEF Idle, Waiting

\* launch_packet_forwarding runs the function on the idle forwarding lcores.
LEMMA LaunchAllJobs ==
  ASSUME TypeOK, NEW f, LaunchAll(f)
  PROVE  /\ DOMAIN job' = Workers
         /\ \A l \in Workers : ~(Waiting(l) /\ Forwarding(l)) => job'[l] = job[l]
         /\ \A i \in 1 .. cur_lcores :
              Waiting(fwd_lcores_cpuids[i]) => job'[fwd_lcores_cpuids[i]] = Job(f, i)
         /\ \A i \in Indices : stopped'[i] <=> stopped[i] /\ ~InUse(i)
<1>1. ASSUME NEW i \in 1 .. cur_lcores
      PROVE  /\ fwd_lcores_cpuids[i] \in Workers /\ Forwarding(fwd_lcores_cpuids[i])
             /\ (CHOOSE j \in Indices : fwd_lcores_cpuids[j] = fwd_lcores_cpuids[i]) = i
  <2>1. i \in Indices /\ InUse(i) BY StateTypes DEF InUse
  <2>2. \A j \in Indices : fwd_lcores_cpuids[j] = fwd_lcores_cpuids[i] => j = i
    BY <2>1, IndexTypes
  <2> QED BY <2>1, <2>2, IndexTypes, Zenon DEF Forwarding
<1>2. job' = [l \in Workers |->
        IF Waiting(l) /\ Forwarding(l)
        THEN Job(f, CHOOSE i \in Indices : fwd_lcores_cpuids[i] = l)
        ELSE job[l]]
  BY DEF LaunchAll
<1>3. \A i \in Indices : stopped'[i] <=> stopped[i] /\ ~InUse(i)
  BY StateTypes DEF LaunchAll
<1>4. ASSUME NEW i \in 1 .. cur_lcores, Waiting(fwd_lcores_cpuids[i])
      PROVE  job'[fwd_lcores_cpuids[i]] = Job(f, i)
  BY <1>1, <1>2, <1>4, Zenon
<1>5. \A l \in Workers : ~(Waiting(l) /\ Forwarding(l)) => job'[l] = job[l]
  BY <1>2, Zenon
<1>6. DOMAIN job' = Workers BY <1>2, Zenon
<1> QED BY <1>3, <1>4, <1>5, <1>6

LEMMA LifecycleInit == ASSUME PlainUse, Init PROVE LifecycleInv
<1>1. TypeOK
  <2>1. /\ my_lcore_id \in Placements /\ {nb_fwd_lcores, cur_lcores} \subseteq Indices
        /\ nb_q \in 1 .. MaxQueues
    BY CappedTypes DEF Init
  <2>2. {cur_fwd_eng, fwd_eng} \subseteq Engines BY DEF Init
  <2>3. job \in [Workers -> {Idle}] /\ stopped \in [Indices -> BOOLEAN] BY DEF Init
  <2>4. {owner, abort, queues} \subseteq [WorkerIds -> BOOLEAN] BY DEF Init
  <2>5. /\ launched \in 0 .. NUM_CORE /\ {initialized, test_done} \subseteq BOOLEAN
        /\ port \in 1 .. NbPorts /\ w \in WorkerIds /\ bursts \in Nat /\ pc = "prompt"
    <3>1. /\ launched = 0 /\ initialized = FALSE /\ test_done = TRUE
          /\ port = 1 /\ w = 1 /\ bursts = 0 /\ pc = "prompt"
      BY DEF Init
    <3>2. {initialized, test_done} \subseteq BOOLEAN BY <3>1, Zenon
    <3>3. launched \in 0 .. NUM_CORE /\ port \in 1 .. NbPorts /\ w \in WorkerIds
      BY <3>1, IndexTypes DEF WorkerIds
    <3> QED BY <3>1, <3>2, <3>3
  <2> QED BY <2>1, <2>2, <2>3, <2>4, <2>5 DEF TypeOK
<1>2. Stages BY DEF Init, Stages, Clean
<1>3. Commands BY DEF Init, Commands
<1>4. Jobs BY DEF Init, Jobs, Idle
<1> QED BY <1>1, <1>2, <1>3, <1>4 DEF LifecycleInv

-----------------------------------------------------------------------------
(* One step, by where the main lcore is.                                    *)

Rest == Stages /\ Commands /\ Jobs

LEMMA Stuttering == ASSUME LifecycleInv, UNCHANGED vars PROVE Rest'
<1>1. /\ UNCHANGED <<my_lcore_id, nb_fwd_lcores, nb_q, cur_fwd_eng, cur_lcores, fwd_eng>>
      /\ UNCHANGED <<job, stopped, test_done, pc, port, w, bursts>>
      /\ UNCHANGED <<owner, abort, queues, launched, initialized>>
  BY DEF vars, config, engine, loops
<1>2. Commands' BY <1>1 DEF LifecycleInv, Commands
<1>3. Jobs' BY <1>1 DEF LifecycleInv, Jobs
<1>4. Clean' = Clean /\ Built' = Built /\ AllWaiting' = AllWaiting
  BY <1>1 DEF Clean, Built, AllWaiting, Waiting
<1>5. ASSUME NEW i PROVE Placed(i)' = Placed(i) /\ Helping(i)' = Helping(i)
  BY <1>1 DEF Placed, Helping, Forwarding, InUse
<1>6. Running' = Running BY <1>1, <1>4, <1>5 DEF Running
<1>7. Building' = Building /\ Launching' = Launching
  BY <1>1, <1>5 DEF Building, Launching
<1>8. Forwards' = Forwards BY <1>1 DEF Forwards
<1>9. Stages' BY <1>1, <1>4, <1>6, <1>7, <1>8 DEF LifecycleInv, Stages
<1> QED BY <1>2, <1>3, <1>9 DEF Rest

LEMMA PromptSteps ==
  ASSUME LifecycleInv, TypeOK', SetNbCores \/ SetQueues \/ SetFwd \/ Start \/ Stop
  PROVE  Rest'
<1> USE DEF LifecycleInv
<1>1. CASE SetNbCores
  <2>1. CASE test_done
    <3>1. Clean /\ pc = "prompt" BY <1>1, <2>1 DEF SetNbCores, Stages
    <3>2. \A l \in Workers : Waiting(l) /\ job[l].f = "none"
      BY <2>1, <3>1, JobKinds DEF Jobs, Clean
    <3> QED BY <1>1, <2>1, <3>1, <3>2
            DEF SetNbCores, ConfigSetup, engine, loops, Rest, Stages, Commands, Jobs, Clean
  <2>2. CASE ~test_done
    <3>1. UNCHANGED vars
      BY <1>1, <2>2 DEF SetNbCores, ConfigSetup, Commands, vars, config
    <3> QED BY <3>1, Stuttering
  <2> QED BY <2>1, <2>2, StateTypes
<1>5. CASE SetQueues
  <2>1. Clean /\ pc = "prompt" /\ test_done BY <1>5 DEF SetQueues, Stages
  <2>2. \A l \in Workers : Waiting(l) /\ job[l].f = "none"
    BY <2>1, JobKinds DEF Jobs, Clean
  <2> QED BY <1>5, <2>1, <2>2
          DEF SetQueues, ConfigSetup, engine, loops, Rest, Stages, Commands, Jobs, Clean
<1>2. CASE SetFwd
  BY <1>2 DEF SetFwd, PlainUse, engine, loops, Rest, Stages, Commands, Jobs, Clean
<1>3. CASE Start
  <2>1. Clean /\ pc = "prompt" /\ test_done BY <1>3 DEF Start, Stages
  <2>2. \A l \in Workers : Waiting(l) /\ job[l].f = "none"
    BY <2>1, JobKinds DEF Jobs, Clean
  <2>3. bursts' \in 0 .. cur_fwd_eng.tx_first /\ cur_fwd_eng.tx_first \in Nat
    BY <1>3, StateTypes, LifecycleAssumption DEF Start, Engine
  <2>4. cur_fwd_eng.callbacks => bursts' = 0
    BY <2>3, StateTypes DEF PlainUse
  <2>5. bursts' \in Nat BY <2>3
  <2> QED BY <1>3, <2>1, <2>2, <2>4, <2>5
          DEF Start, ConfigSetup, engine, Rest, Stages, Commands, Jobs, Clean
<1>4. CASE Stop
  BY <1>4 DEF Stop, config, engine, loops, Rest, Stages, Commands, Jobs, Clean, Running,
              Built
<1> QED BY <1>1, <1>2, <1>3, <1>4, <1>5

\* Without helpers, and where nothing forwards, every lcore is idle.
LEMMA AllIdle ==
  ASSUME LifecycleInv, launched = 0,
         pc \notin {"txwait", "stopping"} /\ (pc = "prompt" => test_done)
  PROVE  \A l \in Workers : Waiting(l)
<1> SUFFICES ASSUME NEW l \in Workers PROVE job[l].f = "none"
  BY JobKinds DEF LifecycleInv
<1>1. job[l].f \in {"none", "helper", "fwd", "macswap", "txonly"}
  BY JobKinds DEF LifecycleInv
<1> QED BY <1>1 DEF LifecycleInv, Jobs

LEMMA BeginSteps ==
  ASSUME LifecycleInv, TypeOK', BeginTooMany \/ Begin \/ HelperMissing \/ Build
  PROVE  Rest'
<1>1. CASE BeginTooMany
  <2>1. Clean /\ pc = "begin" /\ test_done
    BY <1>1 DEF BeginTooMany, LifecycleInv, Stages, Commands, Running, Built
  <2>2. \A l \in Workers : Waiting(l) /\ job[l].f = "none"
    BY <2>1, AllIdle, JobKinds DEF Clean, LifecycleInv
  <2> QED BY <1>1, <2>1, <2>2
          DEF BeginTooMany, NotReady, config, engine, loops, Rest, Stages, Commands, Jobs,
              Clean
<1>2. CASE Begin /\ initialized
  <2>1. Running /\ pc = "begin" /\ fwd_eng.callbacks /\ bursts = 0 /\ test_done
    BY <1>2 DEF Begin, LifecycleInv, Stages, Commands, Clean
  <2>2. /\ pc' \in {"begin", "launch"}
        /\ UNCHANGED <<my_lcore_id, nb_fwd_lcores, nb_q, cur_fwd_eng, cur_lcores, fwd_eng>>
        /\ UNCHANGED <<job, stopped, test_done, w, bursts>>
        /\ UNCHANGED <<owner, abort, queues, launched, initialized>>
    BY <1>2, <2>1 DEF Begin, NextPort, AfterBegin, config, engine
  <2>3. Running'
    BY <2>1, <2>2 DEF Running, Built, Placed, Helping, Forwarding, InUse
  <2>4. Stages' BY <2>1, <2>2, <2>3 DEF Stages
  <2>5. Commands' BY <2>1, <2>2 DEF LifecycleInv, Commands
  <2>6. Jobs' BY <2>1, <2>2 DEF LifecycleInv, Jobs
  <2> QED BY <2>4, <2>5, <2>6 DEF Rest
<1>3. CASE Begin /\ ~initialized
  <2>1. Clean /\ pc = "begin" /\ fwd_eng.callbacks /\ bursts = 0 /\ test_done
    BY <1>3 DEF Begin, LifecycleInv, Stages, Commands, Running, Built
  <2>2. /\ pc' = "build" /\ w' = 1 /\ cur_lcores <= NUM_CORE
        /\ UNCHANGED <<my_lcore_id, nb_fwd_lcores, nb_q, cur_fwd_eng, cur_lcores, fwd_eng>>
        /\ UNCHANGED <<job, stopped, test_done, bursts>>
        /\ UNCHANGED <<owner, abort, queues, launched, initialized>>
    BY <1>3 DEF Begin, config, engine
  <2>3. Building' BY <2>1, <2>2, StateTypes DEF LifecycleInv, Building, Clean
  <2>4. Stages' BY <2>1, <2>2, <2>3 DEF Stages
  <2>5. Commands' BY <2>1, <2>2 DEF LifecycleInv, Commands
  <2>6. Jobs' BY <2>1, <2>2 DEF LifecycleInv, Jobs
  <2> QED BY <2>4, <2>5, <2>6 DEF Rest
<1>4. CASE HelperMissing
  BY <1>4 DEF HelperMissing, config, engine, loops, LifecycleInv, Rest, Stages, Commands,
              Jobs
<1>5. CASE Build
  <2>1. Building /\ pc = "build" /\ fwd_eng.callbacks /\ bursts = 0 /\ test_done
    BY <1>5 DEF Build, LifecycleInv, Stages, Commands
  <2>2. /\ w <= cur_lcores /\ Placed(w) /\ w \in WorkerIds /\ w \in Indices
    <3>1. w <= cur_lcores /\ Placed(w) BY <1>5 DEF Build, InUse, HelperAvailable, Placed
    <3>2. w \in WorkerIds BY DEF LifecycleInv, TypeOK
    <3>3. w \in 1 .. cur_lcores BY <3>1, StateTypes DEF LifecycleInv
    <3> QED BY <3>1, <3>2, <3>3, StateTypes DEF LifecycleInv
  <2>3. /\ UNCHANGED <<my_lcore_id, nb_fwd_lcores, nb_q, cur_fwd_eng, cur_lcores, fwd_eng>>
        /\ UNCHANGED <<job, test_done, bursts, abort, launched, initialized>>
        /\ owner' = [owner EXCEPT ![w] = TRUE]
        /\ stopped' = [stopped EXCEPT ![w] = FALSE]
        /\ queues' = [queues EXCEPT ![w] = TRUE]
    BY <1>5 DEF Build, config
  <2>4. \/ pc' = "fail"
        \/ pc' = "build" /\ w' = w + 1 /\ w + 1 <= cur_lcores
        \/ pc' = "helpers" /\ w' = 1 /\ ~(w + 1 <= cur_lcores)
    BY <1>5 DEF Build, InUse
  <2>5. \A i \in 1 .. w : /\ owner'[i] /\ queues'[i] /\ ~stopped'[i] /\ Placed(i)'
    <3> SUFFICES ASSUME NEW i \in 1 .. w
                 PROVE  owner'[i] /\ queues'[i] /\ ~stopped'[i] /\ Placed(i)'
      OBVIOUS
    <3>1. i \in 1 .. w - 1 \/ i = w BY <2>2, StateTypes DEF LifecycleInv
    <3>2. i \in WorkerIds /\ i \in Indices
      BY <2>1, <2>2, StateTypes, IndexTypes DEF LifecycleInv, WorkerIds, Building
    <3>3. Placed(i) BY <2>1, <2>2, <3>1 DEF Building
    <3>4. Placed(i)' BY <2>3, <3>3 DEF Placed, Forwarding, InUse
    <3>5. owner'[i] /\ queues'[i] /\ ~stopped'[i]
      BY <2>1, <2>2, <2>3, <3>1, <3>2, StateTypes DEF LifecycleInv, Building
    <3> QED BY <3>4, <3>5
  <2>6. pc' = "build" => Building'
    BY <2>1, <2>3, <2>4, <2>5, StateTypes DEF LifecycleInv, Building
  <2>7. pc' = "helpers" => Launching'
    <3> SUFFICES ASSUME pc' = "helpers" PROVE Launching'
      OBVIOUS
    <3>1. w = cur_lcores /\ w' = 1 /\ launched' = 0
      BY <2>1, <2>2, <2>3, <2>4, StateTypes DEF LifecycleInv, Building
    <3>2. ~initialized' /\ \A i \in WorkerIds : ~abort'[i]
      BY <2>1, <2>3 DEF Building
    <3>3. cur_lcores' = w /\ 1 <= w /\ w <= NUM_CORE
      BY <2>1, <2>3, <3>1, StateTypes DEF LifecycleInv, Building
    <3>4. \A i \in 1 .. w : ~abort'[i]
      BY <3>2, <3>3, StateTypes, IndexTypes DEF LifecycleInv, WorkerIds
    <3> QED BY <3>1, <3>2, <3>3, <3>4, <2>5 DEF Launching
  <2>8. Stages' BY <2>1, <2>4, <2>6, <2>7 DEF Stages
  <2>9. Commands' BY <2>1, <2>3, <2>4 DEF LifecycleInv, Commands
  <2>10. Jobs' BY <2>1, <2>3, <2>4 DEF LifecycleInv, Jobs, Building
  <2> QED BY <2>8, <2>9, <2>10 DEF Rest
<1> QED BY <1>1, <1>2, <1>3, <1>4, <1>5 DEF Begin

LEMMA HelperSteps ==
  ASSUME LifecycleInv, TypeOK', LaunchHelper \/ Fail \/ FailJoin
  PROVE  Rest'
<1>1. CASE LaunchHelper
  <2> DEFINE l == my_lcore_id[w]
  <2>1. /\ Launching /\ pc = "helpers" /\ fwd_eng.callbacks /\ bursts = 0 /\ test_done
        /\ cur_lcores = CappedLcores(nb_fwd_lcores, nb_q) /\ fwd_eng = cur_fwd_eng
    BY <1>1 DEF LaunchHelper, LifecycleInv, Stages, Commands
  <2>2. /\ UNCHANGED <<my_lcore_id, nb_fwd_lcores, nb_q, cur_fwd_eng, cur_lcores, fwd_eng>>
        /\ UNCHANGED <<stopped, owner, abort, queues, test_done, bursts>>
    BY <1>1 DEF LaunchHelper, config
  <2>3. /\ w \in 1 .. cur_lcores /\ l \in Workers /\ launched = w - 1
        /\ cur_lcores <= NUM_CORE
    BY <2>1, StateTypes DEF LifecycleInv, Launching, Placed
  <2>4. CASE ~Waiting(l)
    <3>1. pc' = "fail" /\ UNCHANGED <<job, launched, w, port, initialized>>
      BY <1>1, <2>4 DEF LaunchHelper
    <3> QED BY <2>1, <2>2, <3>1 DEF LifecycleInv, Rest, Stages, Commands, Jobs
  <2>5. CASE Waiting(l)
    <3>1. job' = [job EXCEPT ![l] = Job("helper", w)] /\ launched' = w
      BY <1>1, <2>3, <2>5, StateTypes DEF LaunchHelper, LifecycleInv
    <3>2. \/ w + 1 <= cur_lcores /\ w' = w + 1 /\ UNCHANGED <<pc, port, initialized>>
          \/ /\ ~(w + 1 <= cur_lcores) /\ w' = w /\ initialized'
             /\ pc' \in {"begin", "launch"}
      BY <1>1, <2>1, <2>5 DEF LaunchHelper, InUse, NextPort, AfterBegin
    <3>3. job'[l] = Job("helper", w) /\ \A k \in Workers \ {l} : job'[k] = job[k]
      BY <2>3, <3>1, StateTypes DEF LifecycleInv
    <3>4. \A i \in 1 .. w : Helping(i)'
      <4> SUFFICES ASSUME NEW i \in 1 .. w PROVE Helping(i)'
        OBVIOUS
      <4>1. i \in 1 .. w - 1 \/ i = w BY <2>3, StateTypes DEF LifecycleInv
      <4>2. CASE i = w
        BY <2>1, <2>2, <2>3, <3>3, <4>2 DEF Launching, Helping
      <4>3. CASE i \in 1 .. w - 1
        <5>1. Helping(i) BY <2>1, <4>3 DEF Launching
        <5>2. my_lcore_id[i] # l BY <2>5, <5>1 DEF Helping, Waiting, Idle, Job
        <5> QED BY <2>2, <3>3, <5>1, <5>2 DEF Helping
      <4> QED BY <4>1, <4>2, <4>3
    <3>5. \A i \in 1 .. cur_lcores : Placed(i)'
      BY <2>1, <2>2 DEF Launching, Placed, Forwarding, InUse
    <3>6. ASSUME w' = w + 1 PROVE Stages'
      <4>1. w + 1 <= cur_lcores /\ pc' = "helpers" /\ ~initialized'
        BY <2>1, <2>3, <3>2, <3>6, StateTypes DEF LifecycleInv, Launching
      <4>2. \A i \in 1 .. cur_lcores : owner[i] /\ queues[i] /\ ~abort[i] /\ ~stopped[i]
        BY <2>1 DEF Launching
      <4>3. w' - 1 = w BY <2>3, <3>6, StateTypes DEF LifecycleInv
      <4>4. Launching' BY <2>2, <2>3, <3>1, <3>4, <3>5, <3>6, <4>1, <4>2, <4>3 DEF Launching
      <4> QED BY <4>1, <4>4 DEF Stages
    <3>7. ASSUME w' = w PROVE Stages'
      <4>1. ~(w + 1 <= cur_lcores) /\ initialized' /\ pc' \in {"begin", "launch"}
        BY <2>3, <3>2, <3>7, StateTypes DEF LifecycleInv
      <4>2. w = cur_lcores BY <2>3, <4>1, StateTypes DEF LifecycleInv
      <4>3. Running' BY <2>2, <3>1, <3>4, <3>5, <4>1, <4>2 DEF Running, Built
      <4> QED BY <2>1, <2>2, <4>1, <4>3 DEF Stages
    <3>8. Stages' BY <3>2, <3>6, <3>7
    <3>9. Commands' BY <2>1, <2>2, <3>2 DEF Commands
    <3>10. Jobs'
      <4>1. \A i \in 1 .. launched' : owner'[i] /\ queues'[i]
        BY <2>1, <2>2, <2>3, <3>1, StateTypes DEF LifecycleInv, Launching
      <4>2. job[l].f = "none" BY <2>3, <2>5, JobKinds DEF LifecycleInv
      <4>3. w \in 1 .. launched' /\ 1 .. launched \subseteq 1 .. launched'
        BY <2>3, <3>1, StateTypes DEF LifecycleInv
      <4>4. ASSUME NEW k \in Workers
            PROVE  /\ job'[k].f \in {"none", "helper"}
                   /\ job'[k].f = "helper" =>
                        job'[k].arg \in 1 .. launched' /\ my_lcore_id'[job'[k].arg] = k
        <5>1. CASE k = l BY <2>2, <3>3, <4>3, <5>1 DEF Job
        <5>2. CASE k # l
          <6>1. job'[k] = job[k] BY <3>3, <5>2
          <6>2. job[k].f \in {"none", "helper"} BY <2>1, JobKinds DEF LifecycleInv, Jobs
          <6> QED BY <2>2, <4>3, <6>1, <6>2 DEF LifecycleInv, Jobs
        <5> QED BY <5>1, <5>2
      <4> QED BY <4>1, <4>4 DEF Jobs
    <3> QED BY <3>8, <3>9, <3>10 DEF Rest
  <2> QED BY <2>4, <2>5
<1>2. CASE Fail
  BY <1>2 DEF Fail, config, engine, loops, LifecycleInv, Rest, Stages, Commands, Jobs
<1>3. CASE FailJoin
  <2>1. ASSUME NEW k \in Workers PROVE job[k].f = "none"
    <3>1. job[k].f \in {"none", "helper"}
      BY <1>3, JobKinds DEF FailJoin, LifecycleInv, Jobs
    <3>2. ASSUME job[k].f = "helper" PROVE FALSE
      <4>1. Waiting(k) BY <1>3, <3>2 DEF FailJoin, LifecycleInv, Jobs
      <4> QED BY <3>2, <4>1 DEF Waiting, Idle
    <3> QED BY <3>1, <3>2
  <2>2. Clean' /\ pc' = "prompt" /\ test_done' /\ launched' = 0
    BY <1>3 DEF FailJoin, Free, NotReady, Clean, LifecycleInv, Commands
  <2>3. /\ UNCHANGED <<my_lcore_id, nb_fwd_lcores, nb_q, cur_fwd_eng, cur_lcores, fwd_eng>>
        /\ UNCHANGED <<job, stopped, test_done, bursts>>
    BY <1>3 DEF FailJoin, config, loops
  <2> QED BY <2>1, <2>2, <2>3 DEF Rest, Stages, Commands, Jobs
<1> QED BY <1>1, <1>2, <1>3

LEMMA TxSteps ==
  ASSUME LifecycleInv, TypeOK', TxOnlyBegin \/ TxFirst \/ TxWait
  PROVE  Rest'
<1>1. CASE TxOnlyBegin
  <2>1. Clean /\ ~fwd_eng.callbacks /\ pc = "txbegin" /\ test_done /\ bursts > 0
    BY <1>1 DEF TxOnlyBegin, LifecycleInv, Stages, Commands
  <2>2. \A l \in Workers : job[l].f = "none"
    BY <2>1, AllIdle, JobKinds DEF Clean, LifecycleInv
  <2>3. /\ pc' \in {"prompt", "txbegin", "txfirst"}
        /\ UNCHANGED <<my_lcore_id, nb_fwd_lcores, nb_q, cur_fwd_eng, cur_lcores, fwd_eng>>
        /\ UNCHANGED <<job, stopped, test_done, bursts>>
        /\ UNCHANGED <<owner, abort, queues, launched, initialized>>
    BY <1>1 DEF TxOnlyBegin, NotReady, NextPort, config, engine
  <2> QED BY <2>1, <2>2, <2>3 DEF LifecycleInv, Rest, Stages, Commands, Jobs, Clean
<1>2. CASE TxFirst
  <2>1. Clean /\ ~fwd_eng.callbacks /\ pc = "txfirst"
    BY <1>2 DEF TxFirst, LifecycleInv, Stages
  <2>2. \A l \in Workers : Waiting(l) /\ job[l].f = "none"
    BY <2>1, AllIdle, JobKinds DEF Clean, LifecycleInv
  <2>3. /\ pc' = "txwait" /\ ~test_done' /\ LaunchAll("txonly")
        /\ UNCHANGED <<my_lcore_id, nb_fwd_lcores, nb_q, cur_fwd_eng, cur_lcores, fwd_eng>>
        /\ UNCHANGED <<owner, abort, queues, launched, initialized>>
    BY <1>2 DEF TxFirst, config, engine
  <2>4. ASSUME NEW l \in Workers
        PROVE  \/ job'[l].f = "none"
               \/ \E i \in 1 .. cur_lcores :
                    job'[l] = Job("txonly", i) /\ fwd_lcores_cpuids[i] = l
    <3>1. CASE Forwarding(l)
      <4>1. PICK i \in 1 .. cur_lcores : fwd_lcores_cpuids[i] = l
        BY <3>1, StateTypes, IndexTypes DEF LifecycleInv, Forwarding, InUse
      <4> QED BY <2>2, <2>3, <4>1, LaunchAllJobs DEF LifecycleInv
    <3>2. CASE ~Forwarding(l) BY <2>2, <2>3, <3>2, LaunchAllJobs DEF LifecycleInv
    <3> QED BY <3>1, <3>2
  <2>5. Stages' /\ Commands'
    BY <2>1, <2>3 DEF LifecycleInv, Stages, Commands, Clean
  <2>6. ASSUME NEW l \in Workers, job'[l].f # "none"
        PROVE  /\ job'[l].f = "txonly" /\ job'[l].arg \in 1 .. cur_lcores'
               /\ fwd_lcores_cpuids[job'[l].arg] = l
    <3>1. PICK i \in 1 .. cur_lcores :
            job'[l] = Job("txonly", i) /\ fwd_lcores_cpuids[i] = l
      BY <2>4, <2>6, Zenon
    <3>2. job'[l].f = "txonly" /\ job'[l].arg = i BY <3>1 DEF Job
    <3> QED BY <2>3, <3>1, <3>2
  <2>7. Jobs' BY <2>1, <2>3, <2>6, StateTypes DEF LifecycleInv, Jobs, Clean
  <2> QED BY <2>5, <2>7 DEF Rest
<1>3. CASE TxWait
  <2>1. Clean /\ ~fwd_eng.callbacks /\ pc = "txwait"
    BY <1>3 DEF TxWait, LifecycleInv, Stages
  <2>2. \A l \in Workers : job[l].f = "none"
    BY <1>3 DEF TxWait, AllWaiting, Waiting, Idle
  <2>3. /\ pc' = IF bursts > 0 THEN "txfirst" ELSE "launch"
        /\ UNCHANGED <<my_lcore_id, nb_fwd_lcores, nb_q, cur_fwd_eng, cur_lcores, fwd_eng>>
        /\ UNCHANGED <<job, stopped, test_done, bursts>>
        /\ UNCHANGED <<owner, abort, queues, launched, initialized>>
    BY <1>3 DEF TxWait, config, engine, loops
  <2> QED BY <2>1, <2>2, <2>3 DEF LifecycleInv, Rest, Stages, Commands, Jobs, Clean
<1> QED BY <1>1, <1>2, <1>3

LEMMA LaunchSteps == ASSUME LifecycleInv, TypeOK', Launch PROVE Rest'
<1> DEFINE f == IF fwd_eng.callbacks THEN "macswap" ELSE "fwd"
<1>1. pc = "launch" /\ IF fwd_eng.callbacks THEN Running ELSE Clean
  BY DEF Launch, LifecycleInv, Stages
<1>2. /\ pc' = "prompt" /\ ~test_done' /\ LaunchAll(f)
      /\ UNCHANGED <<my_lcore_id, nb_fwd_lcores, nb_q, cur_fwd_eng, cur_lcores, fwd_eng>>
      /\ UNCHANGED <<owner, abort, queues, launched, initialized>>
  BY DEF Launch, config, engine
<1>3. /\ DOMAIN job' = Workers
      /\ \A l \in Workers : ~(Waiting(l) /\ Forwarding(l)) => job'[l] = job[l]
      /\ \A i \in 1 .. cur_lcores :
           Waiting(fwd_lcores_cpuids[i]) => job'[fwd_lcores_cpuids[i]] = Job(f, i)
      /\ \A i \in Indices : stopped'[i] <=> stopped[i] /\ ~InUse(i)
  <2> HIDE DEF f
  <2> QED BY <1>2, LaunchAllJobs DEF LifecycleInv
<1>4. ASSUME NEW l \in Workers PROVE job[l].f \in {"none", "helper"}
  BY <1>1, JobKinds DEF LifecycleInv, Jobs
<1>5. ASSUME NEW l \in Workers, Forwarding(l) PROVE Waiting(l)
  <2>1. CASE job[l].f = "none" BY <2>1, JobKinds DEF LifecycleInv
  <2>2. CASE job[l].f = "helper"
    <3>1. job[l].arg \in 1 .. launched /\ my_lcore_id[job[l].arg] = l
      BY <2>2 DEF LifecycleInv, Jobs
    <3>2. Running BY <1>1, <3>1 DEF Clean
    <3> QED BY <1>5, <3>1, <3>2 DEF Running, Built, Placed
  <2> QED BY <1>4, <2>1, <2>2
<1>6. ASSUME NEW i \in 1 .. cur_lcores
      PROVE  /\ i \in Indices /\ fwd_lcores_cpuids[i] \in Workers
             /\ Forwarding(fwd_lcores_cpuids[i]) /\ ~stopped'[i]
             /\ job'[fwd_lcores_cpuids[i]] = Job(f, i)
  <2>1. i \in Indices /\ InUse(i) BY StateTypes DEF LifecycleInv, InUse
  <2>2. fwd_lcores_cpuids[i] \in Workers /\ Forwarding(fwd_lcores_cpuids[i])
    BY <2>1, IndexTypes DEF Forwarding
  <2>3. ~stopped'[i] BY <1>3, <2>1
  <2>4. job'[fwd_lcores_cpuids[i]] = Job(f, i) BY <1>3, <1>5, <2>2
  <2> QED BY <2>1, <2>2, <2>3, <2>4
<1>7. ASSUME NEW l \in Workers
      PROVE  \/ job'[l] = job[l]
             \/ \E i \in 1 .. cur_lcores :
                  job'[l] = Job(f, i) /\ fwd_lcores_cpuids[i] = l
  <2>1. CASE Forwarding(l)
    <3>1. PICK i \in 1 .. cur_lcores : fwd_lcores_cpuids[i] = l
      BY <2>1, StateTypes, IndexTypes DEF LifecycleInv, Forwarding, InUse
    <3> QED BY <1>6, <3>1
  <2>2. CASE ~Forwarding(l) BY <1>3, <2>2
  <2> QED BY <2>1, <2>2
<1>8. Forwards' BY <1>2, <1>6 DEF Forwards
<1>9. ASSUME Running PROVE Running'
  <2>1. Built' BY <1>2, <1>9 DEF Running, Built
  <2>2. ASSUME NEW i \in 1 .. cur_lcores PROVE Placed(i)' /\ Helping(i)'
    <3>1. Placed(i)' BY <1>2, <1>9 DEF Running, Placed, Forwarding, InUse
    <3>2. job'[my_lcore_id[i]] = job[my_lcore_id[i]] BY <1>3, <1>9 DEF Running, Placed
    <3>3. ~stopped'[i] BY <1>6
    <3> QED BY <1>2, <1>9, <3>1, <3>2, <3>3 DEF Running, Helping
  <2> QED BY <1>2, <2>1, <2>2 DEF Running
<1>10. Clean => Clean' BY <1>2 DEF Clean
<1>11. Stages' BY <1>1, <1>2, <1>8, <1>9, <1>10 DEF Stages
<1>12. Commands' BY <1>1, <1>2 DEF LifecycleInv, Commands
<1>13. ASSUME NEW l \in Workers, job'[l] # job[l]
       PROVE  /\ job'[l].f = f /\ job'[l].arg \in 1 .. cur_lcores'
              /\ fwd_lcores_cpuids[job'[l].arg] = l
  <2>1. PICK i \in 1 .. cur_lcores : job'[l] = Job(f, i) /\ fwd_lcores_cpuids[i] = l
    BY <1>7, <1>13, Zenon
  <2>2. job'[l].f = f /\ job'[l].arg = i BY <2>1 DEF Job
  <2> QED BY <1>2, <2>1, <2>2
<1>14. Jobs'
  <2>1. \A i \in 1 .. launched' : owner'[i] /\ queues'[i]
    BY <1>2 DEF LifecycleInv, Jobs
  <2>2. ASSUME NEW l \in Workers, job'[l] = job[l]
        PROVE  /\ job'[l].f \in {"none", "helper"}
               /\ job'[l].f = "helper" =>
                    job'[l].arg \in 1 .. launched' /\ my_lcore_id'[job'[l].arg] = l
    BY <1>2, <1>4, <2>2 DEF LifecycleInv, Jobs
  <2> QED BY <1>2, <1>13, <2>1, <2>2 DEF Jobs
<1> QED BY <1>11, <1>12, <1>14 DEF Rest

LEMMA StopSteps == ASSUME LifecycleInv, TypeOK', Join \/ End PROVE Rest'
<1>1. CASE Join
  <2>1. pc = "stopping" /\ AllWaiting /\ IF fwd_eng.callbacks THEN Built ELSE Clean
    BY <1>1 DEF Join, LifecycleInv, Stages
  <2>2. \A l \in Workers : job[l].f = "none"
    BY <2>1 DEF AllWaiting, Waiting, Idle
  <2>3. /\ pc' = IF fwd_eng.callbacks THEN "end" ELSE "prompt"
        /\ test_done' = ~fwd_eng.callbacks
        /\ UNCHANGED <<my_lcore_id, nb_fwd_lcores, nb_q, cur_fwd_eng, cur_lcores, fwd_eng>>
        /\ UNCHANGED <<job, stopped, bursts>>
        /\ UNCHANGED <<owner, abort, queues, launched, initialized>>
    BY <1>1 DEF Join, config, engine
  <2>4. AllWaiting' BY <2>1, <2>3 DEF AllWaiting, Waiting
  <2>5. Stages' BY <2>1, <2>3, <2>4 DEF Stages, Built, Clean
  <2>6. Commands' BY <2>1, <2>3 DEF LifecycleInv, Commands
  <2>7. Jobs' BY <2>2, <2>3 DEF LifecycleInv, Jobs
  <2> QED BY <2>5, <2>6, <2>7 DEF Rest
<1>2. CASE End
  <2>1. pc = "end" /\ AllWaiting /\ (initialized \/ Clean)
    BY <1>2 DEF End, LifecycleInv, Stages
  <2>2. \A l \in Workers : job[l].f = "none"
    BY <2>1 DEF AllWaiting, Waiting, Idle
  <2>3. /\ pc' = IF port < NbPorts THEN "end" ELSE "prompt"
        /\ test_done' = (port = NbPorts)
        /\ UNCHANGED <<my_lcore_id, nb_fwd_lcores, nb_q, cur_fwd_eng, cur_lcores, fwd_eng>>
        /\ UNCHANGED <<job, stopped, bursts>>
    BY <1>2 DEF End, NextPort, config
  <2>4. AllWaiting' BY <2>1, <2>3 DEF AllWaiting, Waiting
  <2>5. Clean' BY <1>2, <2>1 DEF End, Free, engine, Clean
  <2>6. (pc' = "prompt") = test_done' /\ pc' \in {"prompt", "end"}
    <3>1. port \in 1 .. NbPorts BY DEF LifecycleInv, TypeOK
    <3> QED BY <2>3, <3>1, IndexTypes
  <2>7. Stages' BY <2>4, <2>5, <2>6 DEF Stages
  <2>8. Commands' BY <2>1, <2>3, <2>6 DEF LifecycleInv, Commands
  <2>9. Jobs' BY <2>2, <2>3, <2>5 DEF Jobs, Clean
  <2> QED BY <2>7, <2>8, <2>9 DEF Rest
<1> QED BY <1>1, <1>2

\* An lcore that goes idle was told to, so no helper that must run does.
LEMMA LcoreSteps ==
  ASSUME LifecycleInv, TypeOK', NEW l \in Workers, Lcore(l)
  PROVE  Rest'
<1>1. /\ job' = [job EXCEPT ![l] = Idle]
      /\ UNCHANGED <<my_lcore_id, nb_fwd_lcores, nb_q, cur_fwd_eng, cur_lcores, fwd_eng>>
      /\ UNCHANGED <<stopped, test_done, pc, w, bursts>>
      /\ UNCHANGED <<owner, abort, queues, launched, initialized>>
  BY DEF Lcore, HelperExit, FwdExit, config, engine, loops
<1>2. job'[l] = Idle /\ \A k \in Workers \ {l} : job'[k] = job[k]
  BY <1>1, StateTypes DEF LifecycleInv
<1>3. \/ job[l].f = "helper" /\ (abort[job[l].arg] \/ stopped[job[l].arg])
      \/ job[l].f \in {"fwd", "macswap"} /\ stopped[job[l].arg]
      \/ job[l].f = "txonly"
  BY DEF Lcore, HelperExit, FwdExit
<1>4. ASSUME NEW i, Placed(i), Helping(i) PROVE Placed(i)' /\ Helping(i)'
  <2>1. my_lcore_id[i] # l BY <1>3, <1>4 DEF Helping, Job
  <2>2. Helping(i)' BY <1>1, <1>2, <1>4, <2>1 DEF Helping
  <2>3. Placed(i)' BY <1>1, <1>4 DEF Placed, Forwarding, InUse
  <2> QED BY <2>2, <2>3
<1>5. ASSUME NEW i, Placed(i) PROVE Placed(i)'
  BY <1>1, <1>5 DEF Placed, Forwarding, InUse
<1>6. ASSUME Forwards, pc = "prompt", ~test_done PROVE Forwards'
  <2> SUFFICES ASSUME NEW i \in 1 .. cur_lcores
               PROVE  fwd_lcores_cpuids[i] # l /\ fwd_lcores_cpuids[i] \in Workers
    BY <1>1, <1>2, <1>6 DEF Forwards
  <2>1. fwd_lcores_cpuids[i] \in Workers BY StateTypes, IndexTypes DEF LifecycleInv
  <2>2. ASSUME fwd_lcores_cpuids[i] = l PROVE FALSE
    <3>1. job[l] = Job(IF fwd_eng.callbacks THEN "macswap" ELSE "fwd", i) /\ ~stopped[i]
      BY <1>6, <2>2 DEF Forwards
    <3>2. job[l].f \in {"fwd", "macswap"} /\ job[l].arg = i BY <3>1 DEF Job
    <3> QED BY <1>3, <3>1, <3>2
  <2> QED BY <2>1, <2>2
<1>7. ASSUME AllWaiting PROVE FALSE
  BY <1>3, <1>7 DEF AllWaiting, Waiting, Idle
<1>8. Clean' = Clean /\ Built' = Built BY <1>1 DEF Clean, Built
<1>9. Running => Running' BY <1>1, <1>4, <1>8 DEF Running
<1>10. Building => Building' BY <1>1, <1>5 DEF Building
<1>11. Launching => Launching'
  <2> SUFFICES ASSUME Launching PROVE Launching'
    OBVIOUS
  <2>1. w \in Nat /\ 1 .. w - 1 \subseteq 1 .. cur_lcores
    BY StateTypes DEF LifecycleInv, Launching
  <2>2. \A i \in 1 .. w - 1 : Placed(i) /\ Helping(i) BY <2>1 DEF Launching
  <2>3. \A i \in 1 .. w - 1 : Helping(i)' BY <1>4, <2>2
  <2> QED BY <1>1, <1>5, <2>3 DEF Launching
<1>12. Stages'
  BY <1>1, <1>6, <1>7, <1>8, <1>9, <1>10, <1>11 DEF LifecycleInv, Stages
<1>13. Commands' BY <1>1 DEF LifecycleInv, Commands
<1>14. Jobs' BY <1>1, <1>2 DEF LifecycleInv, Jobs, Idle
<1> QED BY <1>12, <1>13, <1>14 DEF Rest

-----------------------------------------------------------------------------
(* Types, and the theorems. *)

LEMMA NextPortTypes ==
  ASSUME TypeOK, NEW l, NEW d, NextPort(l, d)
  PROVE  port' \in 1 .. NbPorts /\ pc' \in {l, d}
<1>1. port \in 1 .. NbPorts BY DEF TypeOK
<1> QED BY <1>1, IndexTypes DEF NextPort

LEMMA FreeTypes ==
  ASSUME Free
  PROVE  /\ {owner', abort', queues'} \subseteq [WorkerIds -> BOOLEAN]
         /\ launched' \in 0 .. NUM_CORE /\ initialized' \in BOOLEAN
<1>1. \A q \in {owner', abort', queues'} : q = [i \in WorkerIds |-> FALSE] BY DEF Free
<1>2. \A q \in {owner', abort', queues'} : q \in [WorkerIds -> BOOLEAN] BY <1>1
<1>3. launched' \in 0 .. NUM_CORE BY IndexTypes DEF Free
<1>4. initialized' \in BOOLEAN BY Zenon DEF Free
<1> QED BY <1>2, <1>3, <1>4

\* What launch_packet_forwarding runs.
LEMMA LaunchAllTypes ==
  ASSUME TypeOK, NEW f \in {"fwd", "macswap", "txonly"}, LaunchAll(f)
  PROVE  /\ job' \in [Workers -> {Idle} \cup [f : {"fwd", "macswap", "txonly"}, arg : Indices]
                              \cup [f : {"helper"}, arg : WorkerIds \cap Indices]]
         /\ stopped' \in [Indices -> BOOLEAN]
<1> DEFINE S == {Idle} \cup [f : {"fwd", "macswap", "txonly"}, arg : Indices]
                     \cup [f : {"helper"}, arg : WorkerIds \cap Indices]
           J(l) == IF Waiting(l) /\ Forwarding(l)
                   THEN Job(f, CHOOSE i \in Indices : fwd_lcores_cpuids[i] = l)
                   ELSE job[l]
<1>1. job' = [l \in Workers |-> J(l)] BY DEF LaunchAll
<1>2. ASSUME NEW l \in Workers PROVE J(l) \in S
  <2>1. CASE Waiting(l) /\ Forwarding(l)
    <3>1. PICK c : c = CHOOSE i \in Indices : fwd_lcores_cpuids[i] = l
      OBVIOUS
    <3>2. \E i \in Indices : fwd_lcores_cpuids[i] = l BY <2>1 DEF Forwarding
    <3>3. c \in Indices BY <3>1, <3>2, Zenon
    <3>4. J(l) = Job(f, c) BY <2>1, <3>1, Zenon
    <3>5. Job(f, c) \in S BY <3>3 DEF Job
    <3> QED BY <3>4, <3>5, Zenon
  <2>2. CASE ~(Waiting(l) /\ Forwarding(l))
    <3>1. job[l] \in S BY DEF TypeOK
    <3>2. J(l) = job[l] BY <2>2, Zenon
    <3> QED BY <3>1, <3>2, Zenon
  <2> QED BY <2>1, <2>2
<1>3. job' \in [Workers -> S]
  <2> HIDE DEF S, J
  <2> QED BY <1>1, <1>2
<1>4. stopped' \in [Indices -> BOOLEAN] BY DEF LaunchAll
<1> QED BY <1>3, <1>4

LEMMA TypeStep == ASSUME LifecycleInv, [Next]_vars PROVE TypeOK'
<1> USE DEF LifecycleInv
<1>1. CASE SetNbCores \/ SetQueues
  <2>1. nb_fwd_lcores' \in Indices /\ nb_q' \in 1 .. MaxQueues
    BY <1>1 DEF SetNbCores, SetQueues, TypeOK
  <2>2. cur_lcores' \in Indices
    BY <1>1, <2>1, CappedTypes DEF SetNbCores, SetQueues, ConfigSetup
  <2> QED BY <1>1, <2>1, <2>2 DEF SetNbCores, SetQueues, ConfigSetup, engine, loops, TypeOK
<1>2. CASE SetFwd BY <1>2 DEF SetFwd, engine, loops, TypeOK
<1>3. CASE Start
  <2>1. bursts' \in Nat
    <3>1. cur_fwd_eng.tx_first \in Nat BY StateTypes, LifecycleAssumption DEF Engine
    <3> QED BY <1>3, <3>1 DEF Start
  <2>2. cur_lcores' \in Indices
    BY <1>3, CappedTypes DEF Start, ConfigSetup, TypeOK
  <2> QED BY <1>3, <2>1, <2>2, IndexTypes DEF Start, ConfigSetup, engine, TypeOK
<1>4. CASE Stop BY <1>4, StateTypes DEF Stop, config, engine, loops, TypeOK
<1>5. CASE BeginTooMany \/ HelperMissing
  BY <1>5 DEF BeginTooMany, HelperMissing, NotReady, config, engine, loops, TypeOK
<1>6. CASE Begin
  <2>1. CASE initialized
    <3>1. port' \in 1 .. NbPorts /\ pc' \in {"begin", "txbegin", "launch"}
      BY <1>6, <2>1, NextPortTypes DEF Begin, AfterBegin
    <3> QED BY <1>6, <2>1, <3>1 DEF Begin, config, engine, TypeOK
  <2>2. CASE ~initialized
    BY <1>6, <2>2, IndexTypes DEF Begin, config, engine, TypeOK, WorkerIds
  <2> QED BY <2>1, <2>2
<1>7. CASE Build
  <2>1. w' \in WorkerIds
    <3>1. w \in WorkerIds /\ cur_lcores <= NUM_CORE
      BY <1>7 DEF Build, TypeOK, Stages, Building
    <3> QED BY <1>7, <3>1, StateTypes, IndexTypes DEF Build, InUse, WorkerIds
  <2>2. pc' \in {"fail", "build", "helpers"} BY <1>7 DEF Build
  <2> QED BY <1>7, <2>1, <2>2, StateTypes DEF Build, config, TypeOK
<1>8. CASE LaunchHelper
  <2>1. w \in WorkerIds \cap Indices /\ w <= cur_lcores /\ cur_lcores <= NUM_CORE
        /\ launched = w - 1
    <3>1. w \in 1 .. cur_lcores BY <1>8, StateTypes DEF LaunchHelper, Stages, Launching
    <3> QED BY <1>8, <3>1, StateTypes DEF LaunchHelper, Stages, Launching, TypeOK
  <2>2. job' = job \/ job' = [job EXCEPT ![my_lcore_id[w]] = Job("helper", w)]
    BY <1>8 DEF LaunchHelper
  <2>3. Job("helper", w) \in [f : {"helper"}, arg : WorkerIds \cap Indices]
    BY <2>1 DEF Job
  <2>4. launched' \in 0 .. NUM_CORE
    BY <1>8, <2>1, StateTypes, IndexTypes DEF LaunchHelper
  <2>5. w' \in WorkerIds
    BY <1>8, <2>1, StateTypes, IndexTypes DEF LaunchHelper, InUse, WorkerIds
  <2>6. initialized' \in BOOLEAN BY <1>8 DEF LaunchHelper, TypeOK
  <2>7. port' \in 1 .. NbPorts /\ pc' \in {"helpers", "fail", "begin", "txbegin", "launch"}
    <3>1. port \in 1 .. NbPorts /\ pc = "helpers" BY <1>8 DEF LaunchHelper, TypeOK
    <3> QED BY <1>8, <3>1, NextPortTypes DEF LaunchHelper, AfterBegin
  <2>8. job' \in [Workers -> {Idle} \cup [f : {"fwd", "macswap", "txonly"}, arg : Indices]
                                 \cup [f : {"helper"}, arg : WorkerIds \cap Indices]]
    BY <2>2, <2>3 DEF TypeOK
  <2> QED BY <1>8, <2>4, <2>5, <2>6, <2>7, <2>8 DEF LaunchHelper, config, TypeOK
<1>9. CASE Fail
  BY <1>9, StateTypes DEF Fail, config, loops, TypeOK
<1>10. CASE FailJoin
  BY <1>10, FreeTypes DEF FailJoin, NotReady, config, loops, TypeOK
<1>11. CASE TxOnlyBegin
  <2>1. port' \in 1 .. NbPorts /\ pc' \in {"prompt", "txbegin", "txfirst"}
    BY <1>11, NextPortTypes DEF TxOnlyBegin, NotReady, TypeOK
  <2> QED BY <1>11, <2>1 DEF TxOnlyBegin, config, engine, TypeOK
<1>12. CASE TxFirst
  <2>1. bursts' \in Nat BY <1>12, StateTypes DEF TxFirst, Commands
  <2>2. LaunchAll("txonly") BY <1>12 DEF TxFirst
  <2> QED BY <1>12, <2>1, <2>2, LaunchAllTypes DEF TxFirst, config, engine, TypeOK
<1>13. CASE TxWait BY <1>13 DEF TxWait, config, engine, loops, TypeOK
<1>14. CASE Launch
  <2>1. PICK f \in {"fwd", "macswap", "txonly"} : LaunchAll(f)
    BY <1>14 DEF Launch
  <2> QED BY <1>14, <2>1, LaunchAllTypes DEF Launch, config, engine, loops, TypeOK
<1>15. CASE Join
  BY <1>15, StateTypes, IndexTypes, LifecycleAssumption DEF Join, config, engine, TypeOK, Engine
<1>16. CASE End
  <2>1. port' \in 1 .. NbPorts /\ pc' \in {"prompt", "end"}
    BY <1>16, NextPortTypes DEF End
  <2>2. test_done' \in BOOLEAN BY <1>16 DEF End
  <2>3. CASE initialized
    BY <1>16, <2>1, <2>2, <2>3, FreeTypes DEF End, config, TypeOK
  <2>4. CASE ~initialized
    BY <1>16, <2>1, <2>2, <2>4 DEF End, config, engine, TypeOK
  <2> QED BY <2>3, <2>4
<1>17. CASE \E l \in Workers : Lcore(l)
  <2>1. PICK l \in Workers : Lcore(l) BY <1>17
  <2> QED BY <2>1 DEF Lcore, HelperExit, FwdExit, config, engine, loops, TypeOK
<1>18. CASE UNCHANGED vars
  BY <1>18 DEF vars, config, engine, loops, TypeOK
<1> QED
  BY <1>1, <1>2, <1>3, <1>4, <1>5, <1>6, <1>7, <1>8, <1>9, <1>10, <1>11, <1>12, <1>13,
     <1>14, <1>15, <1>16, <1>17, <1>18 DEF Next, Main

\* The invariant holds in every state.
THEOREM LifecycleInductive == PlainUse /\ Spec => []LifecycleInv
<1>1. PlainUse /\ Init => LifecycleInv BY LifecycleInit
<1>2. LifecycleInv /\ [Next]_vars => LifecycleInv'
  <2> SUFFICES ASSUME LifecycleInv, [Next]_vars PROVE LifecycleInv'
    OBVIOUS
  <2>1. TypeOK' BY TypeStep
  <2>2. Rest'
    BY <2>1, PromptSteps, BeginSteps, HelperSteps, TxSteps, LaunchSteps, StopSteps,
       LcoreSteps, Stuttering DEF Next, Main
  <2> QED BY <2>1, <2>2 DEF Rest, LifecycleInv, PlainUse
<1> QED BY <1>1, <1>2, PTL DEF Spec

\* Every variable keeps its type, so no lcore runs an index there is no queue for.
THEOREM LifecycleTypes == PlainUse /\ Spec => []TypeOK
<1>1. LifecycleInv => TypeOK BY DEF LifecycleInv
<1> QED BY <1>1, LifecycleInductive, PTL

\* No memory is freed that a stage still uses: a helper has an owner and queues
\* in every state, also when begin backs out or end runs for one of several ports.
THEOREM RingsOutlive == PlainUse /\ Spec => []RingsOutliveStages
<1>1. ASSUME LifecycleInv PROVE RingsOutliveStages
  <2> SUFFICES ASSUME NEW l \in Workers
               PROVE  /\ job[l].f = "helper" => owner[job[l].arg] /\ queues[job[l].arg]
                      /\ job[l].f = "macswap" => initialized /\ queues[job[l].arg]
    BY DEF RingsOutliveStages
  <2>1. ASSUME job[l].f = "helper" PROVE owner[job[l].arg] /\ queues[job[l].arg]
    BY <1>1, <2>1 DEF LifecycleInv, Jobs
  <2>2. ASSUME job[l].f = "macswap" PROVE initialized /\ queues[job[l].arg]
    <3>1. /\ fwd_eng.callbacks /\ job[l].arg \in 1 .. cur_lcores
          /\ pc \in {"txwait", "prompt", "stopping"} /\ (pc = "prompt" => ~test_done)
      BY <1>1, <2>2 DEF LifecycleInv, Jobs
    <3>2. Built BY <1>1, <3>1 DEF LifecycleInv, Stages, Running
    <3> QED BY <1>1, <3>1, <3>2 DEF Built, LifecycleInv, Jobs
  <2> QED BY <2>1, <2>2
<1> QED BY <1>1, LifecycleInductive, PTL

\* While forwarding each forwarding lcore runs the engine on its own index, and
\* under the pipelined engine the helper of that index runs on its own lcore.
THEOREM StagesRun == PlainUse /\ Spec => []BothStagesRun
<1>1. ASSUME LifecycleInv PROVE BothStagesRun
  <2> SUFFICES ASSUME pc = "prompt", ~test_done, NEW i \in 1 .. cur_lcores
               PROVE  /\ job[fwd_lcores_cpuids[i]] \in {Job("fwd", i), Job("macswap", i)}
                      /\ job[fwd_lcores_cpuids[i]].f = "macswap" =>
                           job[my_lcore_id[i]] = Job("helper", i)
    BY DEF BothStagesRun
  <2>1. job[fwd_lcores_cpuids[i]] = Job(IF fwd_eng.callbacks THEN "macswap" ELSE "fwd", i)
    BY <1>1 DEF LifecycleInv, Stages, Forwards
  <2>2. fwd_eng.callbacks => job[my_lcore_id[i]] = Job("helper", i)
    BY <1>1 DEF LifecycleInv, Stages, Running, Helping
  <2> QED BY <2>1, <2>2 DEF Job
<1> QED BY <1>1, LifecycleInductive, PTL

\* A stop, or a start that was refused half way, leaves no lcore running, no
\* helper counted and no queue allocated.
THEOREM NothingLeft == PlainUse /\ Spec => []NothingLeftBehind
<1>1. ASSUME LifecycleInv PROVE NothingLeftBehind
  <2> SUFFICES ASSUME pc = "prompt", test_done PROVE AllWaiting /\ Clean
    BY DEF NothingLeftBehind, Clean
  <2>1. Clean BY <1>1 DEF LifecycleInv, Stages
  <2>2. AllWaiting BY <1>1, <2>1, AllIdle DEF AllWaiting, Clean
  <2> QED BY <2>1, <2>2
<1> QED BY <1>1, LifecycleInductive, PTL

=============================================================================
