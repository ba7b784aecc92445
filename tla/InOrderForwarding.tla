------------------------- MODULE InOrderForwarding -------------------------
(***************************************************************************)
(* What a forwarding engine with a MAC-swap stage promises of each of its  *)
(* streams: packets come in, and each leaves exactly once, in the order it *)
(* came, after exactly one swap: transmitted, or freed when the NIC has no *)
(* room.  How the work is split between lcores does not show.              *)
(***************************************************************************)
EXTENDS Integers, Sequences

CONSTANTS Streams, MaxPkts

VARIABLES
  rxd,  \* packets received by each stream
  out   \* what left each stream, in order

vars == <<rxd, out>>

Init ==
  /\ rxd = [q \in Streams |-> 0]
  /\ out = [q \in Streams |-> << >>]

\* A burst of packets comes in.
Receive(q) ==
  /\ \E n \in 1 .. MaxPkts - rxd[q] : rxd' = [rxd EXCEPT ![q] = @ + n]
  /\ UNCHANGED out

\* The oldest packets still held leave together.
Leave(q) ==
  /\ \E how \in {"tx", "free"} : \E n \in 1 .. rxd[q] - Len(out[q]) :
       out' = [out EXCEPT ![q] = @ \o
                 [k \in 1 .. n |-> [pkt |-> Len(out[q]) + k, how |-> how,
                                    swaps |-> 1]]]
  /\ UNCHANGED rxd

Next == \E q \in Streams : Receive(q) \/ Leave(q)

Spec == Init /\ [][Next]_vars

\* Nothing received is held for ever.
Fairness == \A q \in Streams : WF_vars(Leave(q))
FairSpec == Spec /\ Fairness

=============================================================================
