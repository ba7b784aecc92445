------------------------- MODULE MC_MacswapWorkers -------------------------
(* Instances of MacswapWorkers.  A stream is <<port, rx queue>>.           *)
EXTENDS MacswapWorkers

QueueOf == [q \in Queues |-> q[2]]

\* Two lcores: one serves queue 0 of two ports with worker 0, in turns, the
\* other queue 1 of a port with worker 1.
TwoPollers == {"lcore 1", "lcore 2"}
ThreeStreams == {<<0, 0>>, <<1, 0>>, <<0, 1>>}
ByQueue == [p \in TwoPollers |->
  IF p = "lcore 1" THEN <<<<0, 0>>, <<1, 0>>>> ELSE <<<<0, 1>>>>]
OtherLcores == [i \in {0, 1} |-> IF i = 0 THEN "lcore 3" ELSE "lcore 4"]

\* One port, one lcore.
OnePoller == {"lcore 1"}
OneStream == {<<0, 0>>}
OnlyStream == [p \in OnePoller |-> <<<<0, 0>>>>]
OtherLcore == [i \in {0} |-> "lcore 3"]

\* The configurations the theorems are about.
ASSUME InstanceApart == WorkersNotShared /\ LcoresApart

=============================================================================
