-------------------------- MODULE MCProposerDuties --------------------------
(***************************************************************************)
(* Three calm stretches over three epochs with up to two slots missed in a *)
(* row, and one across an epoch boundary with late goroutines and faults.  *)
(***************************************************************************)
EXTENDS ProposerDuties

MCLegs == {[from |-> s, to |-> 100, skip |-> 2, calm |-> TRUE] : s \in {1, 25, 70}}
            \cup {[from |-> 30, to |-> 34, skip |-> 0, calm |-> FALSE]}
=============================================================================
