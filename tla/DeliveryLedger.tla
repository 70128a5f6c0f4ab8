--------------------------- MODULE DeliveryLedger ---------------------------
(***************************************************************************)
(* What the relay promises about unblinding: at most one block is granted  *)
(* per slot, and slots are granted in increasing order.                    *)
(***************************************************************************)
EXTENDS Integers

CONSTANT Blocks  \* records with a field slot

VARIABLE granted  \* the blocks the relay has agreed to unblind

Init == granted = {}

Grant(b) ==
    /\ \A g \in granted : g.slot < b.slot
    /\ granted' = granted \cup {b}

Next == \E b \in Blocks : Grant(b)

Spec == Init /\ [][Next]_granted
=============================================================================
