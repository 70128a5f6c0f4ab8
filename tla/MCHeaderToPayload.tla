-------------------------- MODULE MCHeaderToPayload --------------------------
(***************************************************************************)
(* Instances of HeaderToPayload for TLC: one slot an epoch, and a fork at  *)
(* each of the slots 1 to 4.  The unit of time is four seconds.            *)
(***************************************************************************)
EXTENDS HeaderToPayload, TLC

MCForkEpoch == [f \in Forks |-> CASE f = "capella" -> 1
                                  [] f = "deneb"   -> 2
                                  [] f = "electra" -> 3
                                  [] f = "fulu"    -> 4]

\* Every fork, every fault, clients with deadlines, and a relay that keeps no
\* payloads in the database
MCScenarios ==
    [slot : 1..3, submissions : {1}, fault : {"none"}, deadlines : {{}}, rows : {TRUE}]
    \cup [slot : {4}, submissions : {2}, fault : {"none"}, deadlines : {{}}, rows : {TRUE}]
    \cup [slot : {4}, submissions : {1}, fault : {"redis", "database"}, deadlines : {{}},
          rows : {TRUE}]
    \cup [slot : {2}, submissions : {1}, fault : {"redis"}, deadlines : {{}}, rows : {FALSE}]
    \cup [slot : {3}, submissions : {1}, fault : {"stop"}, deadlines : {{0}}, rows : {TRUE}]

SubmissionSymmetry == Permutations(Submissions)
=============================================================================
