------------------------- MODULE MCPayloadDelivery -------------------------
(* Two blocks in each of two slots. *)
EXTENDS PayloadDelivery

CONSTANTS c1, c2, i1, f1, f2, noFork, noInstance

MCCalls == {c1, c2}
MCInstances == {i1}
MCForks == {f1, f2}
MCSlots == 1..2
MCVersions == {"v1", "v2"}
=============================================================================
