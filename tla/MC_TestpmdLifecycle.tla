------------------------ MODULE MC_TestpmdLifecycle ------------------------
(* Instances of TestpmdLifecycle: lcores are numbers.                       *)
EXTENDS TestpmdLifecycle

MCWorkers == 1 .. 7

\* Up to four forwarding lcores, one more than there may be helpers.
Forwarders == <<1, 2, 3, 4>>
Helpers == <<5, 6, 7>>

\* Tables that go wrong as forwarding lcores are added: the third helper
\* forwards, or is the first.
ThirdForwards == <<5, 6, 2>>
ThirdTwice == <<5, 6, 5>>

AnyTable == {Helpers, ThirdForwards, ThirdTwice}
GoodTable == {Helpers}

\* The pipelined engine, with and without start tx_first, and any other.
Pipelined(n) == [callbacks |-> TRUE, tx_first |-> n]
Other == [callbacks |-> FALSE, tx_first |-> 2]
TwoEngines == {Pipelined(0), Other}
TxFirstEngine == {Pipelined(1)}

=============================================================================
