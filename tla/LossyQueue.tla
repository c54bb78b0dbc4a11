------------------------------ MODULE LossyQueue ------------------------------
(***************************************************************************)
(* What every way through the publisher promises to those at its end: what *)
(* was sent may be lost, but what comes out comes in the order in which it *)
(* was sent, and at most once.  On each channel things are numbered.       *)
(***************************************************************************)
EXTENDS Naturals

CONSTANT Channels

VARIABLES
    sent,   \* per channel: how many things were sent
    last    \* per channel: the thing that came out last, 0 before the first

Init ==
    /\ sent = [c \in Channels |-> 0]
    /\ last = [c \in Channels |-> 0]

Send(c) ==
    /\ sent' = [sent EXCEPT ![c] = @ + 1]
    /\ UNCHANGED last

\* Everything between the last thing and this one is lost.
Deliver(c) ==
    /\ \E n \in last[c] + 1 .. sent[c] : last' = [last EXCEPT ![c] = n]
    /\ UNCHANGED sent

Next == \E c \in Channels : Send(c) \/ Deliver(c)

Spec == Init /\ [][Next]_<<sent, last>>

================================================================================
