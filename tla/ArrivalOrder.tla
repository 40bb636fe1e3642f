---------------------------- MODULE ArrivalOrder ----------------------------
(***************************************************************************)
(* What the trading engine promises its callers, and nothing about how:    *)
(* orders arrive; each is decided exactly once, in arrival order, as       *)
(* placed on the book or refused because storage did not record it; and    *)
(* each submitter is told once, of its own order, what was decided.  At    *)
(* most one order is behind with being told while others are decided, and  *)
(* those are told before it.                                               *)
(***************************************************************************)
EXTENDS Naturals, Sequences

VARIABLES
    arrived,    \* how many orders have been submitted
    verdicts,   \* verdicts[n]: whether the n-th order was placed
    told        \* which submitters were told, with what, in that order

vars == <<arrived, verdicts, told>>

Init ==
    /\ arrived = 0
    /\ verdicts = << >>
    /\ told = << >>

Told(n) == \E i \in 1 .. Len(told) : told[i].seq = n

Arrive ==
    /\ arrived' = arrived + 1
    /\ UNCHANGED <<verdicts, told>>

Decide(placed) ==
    /\ Len(verdicts) < arrived
    /\ Len(verdicts) <= Len(told) + 1
    /\ verdicts' = Append(verdicts, placed)
    /\ UNCHANGED <<arrived, told>>

\* The last order decided, of those whose submitters were not told yet.
Tell(n) ==
    /\ n \in 1 .. Len(verdicts)
    /\ ~Told(n)
    /\ \A m \in n + 1 .. Len(verdicts) : Told(m)
    /\ told' = Append(told, [seq |-> n, storage_ok |-> verdicts[n]])
    /\ UNCHANGED <<arrived, verdicts>>

Next ==
    \/ Arrive
    \/ \E placed \in BOOLEAN : Decide(placed)
    \/ \E n \in 1 .. Len(verdicts) : Tell(n)

Spec == Init /\ [][Next]_vars
=============================================================================
