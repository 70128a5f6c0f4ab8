------------------------- MODULE MCOptimisticRelay -------------------------
(***************************************************************************)
(* Two optimistic pubkeys, of one builder or without a builder id.  The    *)
(* deployments: one instance through two head slots, two instances of      *)
(* which either may deliver the block, two submissions in one slot, a      *)
(* builder without an id, and the three flags.                             *)
(***************************************************************************)
EXTENDS OptimisticRelay

CONSTANTS i1, i2, b1, b2, nobody, s1, s2

MCInstances == {i1, i2}
MCBuilders == {b1, b2}
MCSubmissions == {s1, s2}

Setup(last1, last2, submissions, rowChanges, builder, noDemotion, all, ignore) ==
    [last |-> [i \in MCInstances |-> IF i = i1 THEN last1 ELSE last2],
     submissions |-> submissions, changes |-> rowChanges,
     optimistic |-> [b \in MCBuilders |-> TRUE],
     id |-> [b \in MCBuilders |-> builder], collateral |-> [b \in MCBuilders |-> 1],
     disableDemotion |-> noDemotion, allSlots |-> all, ignoreErrors |-> ignore]

MCSetups ==
    {Setup(2, 0, {s1}, 1, "x", FALSE, FALSE, FALSE), Setup(1, 1, {s1}, 0, "x", FALSE, FALSE, FALSE),
     Setup(1, 0, {s1, s2}, 0, "x", FALSE, FALSE, FALSE), Setup(2, 0, {s1}, 0, "", FALSE, FALSE, FALSE),
     Setup(1, 0, {s1}, 0, "x", TRUE, FALSE, FALSE), Setup(1, 0, {s1}, 0, "x", FALSE, TRUE, FALSE),
     Setup(1, 0, {s1}, 1, "x", FALSE, FALSE, TRUE)}
=============================================================================
