-------------------------- MODULE RequestResponse --------------------------
(***************************************************************************)
(* What the memcached server promises to its clients: a packet is answered *)
(* only after it was received, at most once, and in the order received.    *)
(* The answer to packet k goes to the client of k; it is the response to   *)
(* k, or it is empty.  Packets may go unanswered: what the NIC does not    *)
(* take is dropped.  Threads, buffers and bursts do not show.              *)
(***************************************************************************)
EXTENDS Integers, Sequences

CONSTANT MaxPkts

VARIABLES
  rcvd,  \* packets received
  wire   \* answers sent, in order

vars == <<rcvd, wire>>

\* The answers to packet k: its response, or a header around no data, whatever
\* the buffer of the answer was last used for.
Response(k) == [kind |-> "response", pkt |-> k, size |-> k, to |-> k]
Empty(k) == [kind : {"junk", "request", "response"}, pkt : 0 .. MaxPkts,
             size : {0}, to : {k}]

LastAnswered == IF wire = << >> THEN 0 ELSE wire[Len(wire)].to

Init == rcvd = 0 /\ wire = << >>

Receive == rcvd' \in rcvd + 1 .. MaxPkts /\ UNCHANGED wire

\* A later packet is answered; those passed over never will be.
Answer ==
  /\ \E k \in LastAnswered + 1 .. rcvd : \E r \in Empty(k) \cup {Response(k)} :
       wire' = Append(wire, r)
  /\ UNCHANGED rcvd

Next == Receive \/ Answer

Spec == Init /\ [][Next]_vars

=============================================================================
