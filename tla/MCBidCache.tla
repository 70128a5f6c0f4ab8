----------------------------- MODULE MCBidCache -----------------------------
(***************************************************************************)
(* Three loads: three submissions one after the other, two that overlap,   *)
(* and two that overlap while Redis fails.                                 *)
(***************************************************************************)
EXTENDS BidCache

MCLoads == {[submissions |-> 3, inFlight |-> 1, faulty |-> FALSE],
            [submissions |-> 2, inFlight |-> 2, faulty |-> FALSE],
            [submissions |-> 2, inFlight |-> 2, faulty |-> TRUE]}
=============================================================================
