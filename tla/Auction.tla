------------------------------- MODULE Auction -------------------------------
(***************************************************************************)
(* What the auction of one slot, parent and proposer promises builders and *)
(* the proposer, with every submission atomic: the best of the active bids *)
(* and the floor is served, a firm bid (one sent without cancellations)    *)
(* raises the floor for good, and a builder withdraws its bid by sending   *)
(* one below the floor.  A submission that is refused or makes no          *)
(* difference to the best value is a stuttering step.                      *)
(***************************************************************************)
EXTENDS Integers

CONSTANTS Builders,  \* builder pubkeys
          Values     \* bid values

VARIABLES active,    \* [Builders -> the value of the builder's bid, 0 if none]
          floor,     \* the value no later top bid falls below
          served     \* the value of the bid getHeader returns, 0 if none

vars == <<active, floor, served>>

\* The best of the bids a and the floor f
IsBest(v, a, f) ==
    /\ v = f \/ \E b \in Builders : v = a[b]
    /\ v >= f /\ \A b \in Builders : v >= a[b]

Init == /\ active = [b \in Builders |-> 0]
        /\ floor = 0
        /\ served = 0

\* A bid its builder may still lower or withdraw
CancellableBid(b, v) ==
    /\ v >= floor
    /\ active' = [active EXCEPT ![b] = v]
    /\ IsBest(served', active', floor)
    /\ UNCHANGED floor

\* A bid its builder cannot take back
FirmBid(b, v) ==
    /\ v > floor
    /\ active' = [active EXCEPT ![b] = v]
    /\ floor' = v
    /\ IsBest(served', active', floor')

\* The builder's bid goes.  If it was the last one it is still served: there is
\* no bid left to put in its place.
Withdraw(b) ==
    /\ floor > 0
    /\ active' = [active EXCEPT ![b] = 0]
    /\ IF \A c \in Builders : active'[c] = 0
       THEN UNCHANGED served
       ELSE IsBest(served', active', floor)
    /\ UNCHANGED floor

Next == \E b \in Builders :
            \/ Withdraw(b)
            \/ \E v \in Values : CancellableBid(b, v) \/ FirmBid(b, v)

Spec == Init /\ [][Next]_vars
=============================================================================
