----------------------------- MODULE BeaconChain -----------------------------
(***************************************************************************)
(* The slots of the beacon chain that the services follow, for the models  *)
(* of what a new head slot sets off.                                       *)
(***************************************************************************)
EXTENDS Integers

CONSTANTS SlotsPerEpoch,
          MaxSlot         \* bound: the chain is followed up to this slot

ASSUME ChainAssumption == SlotsPerEpoch \in Nat \ {0} /\ MaxSlot \in Nat

Slots == 0 .. MaxSlot
=============================================================================
