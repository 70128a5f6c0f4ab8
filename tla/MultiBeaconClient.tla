-------------------------- MODULE MultiBeaconClient --------------------------
(***************************************************************************)
(* The client over several beacon nodes of                                 *)
(* beaconclient/multi_beacon_client.go.  Every call reads the shared       *)
(* bestBeaconIndex once, builds from it the order in which it asks the     *)
(* nodes, and stores an index when a node answers.  Queries ask one node   *)
(* after the other; PublishBlock and BestSyncStatus ask all at once and    *)
(* take the answers as they come.  The calls come from different           *)
(* goroutines and interleave.                                              *)
(*                                                                         *)
(* Beacon nodes are 1..N, the configured order; an index is 0-based as in  *)
(* the code, so the node at index i of an order is order[i + 1].           *)
(***************************************************************************)
EXTENDS Naturals, FiniteSets, FiniteSetsExt

CONSTANTS N,               \* number of configured beacon nodes
          Calls,           \* the calls made in a behaviour
          MaxSlot,         \* bound on the head slots nodes report
          AllowSyncing     \* ffAllowSyncingBeaconNode

ASSUME NAssumption == N \in Nat \ {0}
ASSUME MaxSlotAssumption == MaxSlot \in Nat \ {0}
ASSUME AllowSyncingAssumption == AllowSyncing \in BOOLEAN

VARIABLES best,      \* bestBeaconIndex
          kind,      \* [Calls -> which method is running, "none" before]
          order,     \* [Calls -> the list of nodes the call works through]
          left,      \* [Calls -> positions of order not answered yet]
          chosen,    \* [Calls -> bestSyncStatus: a status, or NoStatus]
          outcome,   \* [Calls -> what the method returned]
          answers,   \* history: [Calls -> [node -> the code it answered]]
          reports,   \* history: [Calls -> [node -> the status it reported]]
          lastGood   \* history: the node of the last successful response
                     \* whose index was stored, 0 if none

vars == <<best, kind, order, left, chosen, outcome, answers, reports, lastGood>>

Nodes == 1 .. N
Positions == 1 .. N

\* GetProposerDuties, GetGenesis, GetForkSchedule and GetRandao are "query";
\* GetStateValidators is "validators"; the rest carry their name.
Queries == {"query", "spec", "validators", "withdrawals"}
Kinds == Queries \cup {"publish", "sync"}

Statuses == [slot : 1 .. MaxSlot, syncing : BOOLEAN]
NoStatus == [slot |-> 0, syncing |-> TRUE]

\* A query's answer is "ok", "error" or "capella" (withdrawals are not enabled
\* yet); a publication's is "ok", "error" or "202", broadcast but not imported.
Codes == {"ok", "error", "capella", "202"}

Init == /\ best = 0
        /\ kind = [c \in Calls |-> "none"]
        /\ order = [c \in Calls |-> [p \in Positions |-> p]]
        /\ left = [c \in Calls |-> {}]
        /\ chosen = [c \in Calls |-> NoStatus]
        /\ outcome = [c \in Calls |-> "none"]
        /\ answers = [c \in Calls |-> [b \in Nodes |-> "none"]]
        /\ reports = [c \in Calls |-> [b \in Nodes |-> NoStatus]]
        /\ lastGood = 0

-----------------------------------------------------------------------------
(* The two orders *)

\* Mutation of ByLastResponse: copies the node to the front without moving
\* the one it replaces.
ByLastResponseCopies(i) == [p \in Positions |-> IF p = 1 THEN i + 1 ELSE p]

\* beaconInstancesByLastResponse: the first element swapped with the indexed one
ByLastResponse(i) ==
    [p \in Positions |-> IF p = 1 THEN i + 1 ELSE IF p = i + 1 THEN 1 ELSE p]

\* beaconInstancesByLeastUsed: the same, reversed
ByLeastUsed(i) == [p \in Positions |-> ByLastResponse(i)[N + 1 - p]]

-----------------------------------------------------------------------------
(* Calls *)

Running(c) == kind[c] # "none" /\ outcome[c] = "none"

\* The method is entered and the order is fixed.  BestSyncStatus does not read
\* the index: it starts one goroutine for each configured node.
Start(c, k) ==
    /\ kind[c] = "none"
    /\ kind' = [kind EXCEPT ![c] = k]
    /\ order' = [order EXCEPT ![c] = IF k = "sync" THEN @
                                     ELSE IF k = "validators" THEN ByLeastUsed(best)
                                     ELSE ByLastResponse(best)]
    /\ left' = [left EXCEPT ![c] = Positions]
    /\ UNCHANGED <<best, chosen, outcome, answers, reports, lastGood>>

\* The position the query asks next
Asked(c) == Min(left[c])

\* c.bestBeaconIndex.Store(int64(i)), i the position in the call's own order
StorePosition(c, p) == best' = p - 1

\* A successful response: all but GetSpec store the index.
Succeed(c, p) ==
    /\ outcome' = [outcome EXCEPT ![c] = "ok"]
    /\ IF kind[c] = "spec" THEN UNCHANGED <<best, lastGood>>
                           ELSE StorePosition(c, p) /\ lastGood' = order[c][p]

\* One node of a query answers.  On an error the loop continues with the next
\* node and gives up after the last; "not enabled before capella" ends it.
AnswerQuery(c, res) ==
    /\ Running(c) /\ kind[c] \in Queries
    /\ res \in {"ok", "error"} \/ (res = "capella" /\ kind[c] = "withdrawals")
    /\ answers' = [answers EXCEPT ![c][order[c][Asked(c)]] = res]
    /\ left' = [left EXCEPT ![c] = @ \ {Asked(c)}]
    /\ \/ res = "ok" /\ Succeed(c, Asked(c))
       \/ /\ res # "ok"
          /\ outcome' = [outcome EXCEPT ![c] = IF res = "capella" THEN "beforeCapella"
                                               ELSE IF left[c] = {Asked(c)}
                                               THEN "unavailable" ELSE @]
          /\ UNCHANGED <<best, lastGood>>
    /\ UNCHANGED <<kind, order, chosen, reports>>

\* The result after the last answer of a publication none of which was a full
\* success: the last one received decides between its code and an error.
PublishResult(code) == IF code = "202" THEN "202" ELSE "error"

\* Mutation of FullSuccess: a 202 ends the loop too.
FullSuccessOrAccepted(res) == res # "error"

\* The responses that end the receive loop of PublishBlock
FullSuccess(res) == res = "ok"

\* One receive from resChans, in whatever order the nodes answer.
AnswerPublish(c, p, res) ==
    /\ Running(c) /\ kind[c] = "publish" /\ p \in left[c]
    /\ res \in {"ok", "202", "error"}
    /\ answers' = [answers EXCEPT ![c][order[c][p]] = res]
    /\ left' = [left EXCEPT ![c] = @ \ {p}]
    /\ \/ FullSuccess(res) /\ Succeed(c, p)
       \/ /\ ~FullSuccess(res)
          /\ outcome' = [outcome EXCEPT ![c] =
                            IF left[c] = {p} THEN PublishResult(res) ELSE @]
          /\ UNCHANGED <<best, lastGood>>
    /\ UNCHANGED <<kind, order, chosen, reports>>

\* Mutation of Better: the first status of any kind is kept.
BetterNever(old, new) == IF old = NoStatus THEN new ELSE old

\* bestSyncStatus after one more status, under the mutex of BestSyncStatus:
\* the first synced one stands, before it the first of any kind
Better(old, new) ==
    IF old = NoStatus \/ (old.syncing /\ ~new.syncing) THEN new ELSE old

\* What BestSyncStatus returns once every goroutine is done
SyncResult(s) == IF s.syncing /\ ~AllowSyncing THEN "syncing"
                 ELSE IF s = NoStatus THEN "unavailable" ELSE "ok"

\* One goroutine of BestSyncStatus ends: with a status, or NoStatus on an error.
AnswerSync(c, p, s) ==
    /\ Running(c) /\ kind[c] = "sync" /\ p \in left[c]
    /\ s \in Statuses \cup {NoStatus}
    /\ reports' = [reports EXCEPT ![c][order[c][p]] = s]
    /\ left' = [left EXCEPT ![c] = @ \ {p}]
    /\ chosen' = [chosen EXCEPT ![c] = Better(@, s)]
    /\ outcome' = [outcome EXCEPT ![c] =
                      IF left[c] = {p} THEN SyncResult(chosen'[c]) ELSE @]
    /\ UNCHANGED <<best, kind, order, answers, lastGood>>

Next == \E c \in Calls :
          \/ \E k \in Kinds : Start(c, k)
          \/ \E res \in Codes : AnswerQuery(c, res)
          \/ \E p \in Positions, res \in Codes : AnswerPublish(c, p, res)
          \/ \E p \in Positions, s \in Statuses \cup {NoStatus} : AnswerSync(c, p, s)

Spec == Init /\ [][Next]_vars

-----------------------------------------------------------------------------
(* Properties *)

\* The stored index is an index of the configured list, so that
\* instances[index] in beaconInstancesByLastResponse never panics, whatever
\* interleaving of calls stored it.
TypeOK == /\ best \in 0 .. N - 1
          /\ kind \in [Calls -> Kinds \cup {"none"}]
          /\ order \in [Calls -> [Positions -> Nodes]]
          /\ left \in [Calls -> SUBSET Positions]
          /\ chosen \in [Calls -> Statuses \cup {NoStatus}]
          /\ outcome \in [Calls -> {"none", "ok", "202", "error", "unavailable",
                                    "beforeCapella", "syncing"}]
          /\ answers \in [Calls -> [Nodes -> Codes \cup {"none"}]]
          /\ reports \in [Calls -> [Nodes -> Statuses \cup {NoStatus}]]
          /\ lastGood \in Nodes \cup {0}

\* A query gives up only after every configured node failed it, and a
\* publication only after every node was heard: no node is left out of the
\* order by the swap, whatever the index was when the call read it.
GivesUpAfterAll ==
    \A c \in Calls :
        /\ outcome[c] = "unavailable" /\ kind[c] \in Queries
              => \A b \in Nodes : answers[c][b] = "error"
        /\ outcome[c] \in {"error", "202"}
              => \A b \in Nodes : answers[c][b] \in {"error", "202"}

\* PublishBlock returns a full success exactly when a node imported the block,
\* and returns a broadcast-only success only if some node did broadcast it.
PublishedIsTrue ==
    \A c \in Calls : kind[c] = "publish" /\ outcome[c] # "none" =>
        /\ outcome[c] = "ok" <=> \E b \in Nodes : answers[c][b] = "ok"
        /\ outcome[c] = "202" => \E b \in Nodes : answers[c][b] = "202"

\* BestSyncStatus returns a synced node's status whenever one answered, and an
\* error only if none did (or, when syncing nodes are allowed, none answered).
SyncedIsPreferred ==
    \A c \in Calls : kind[c] = "sync" /\ outcome[c] # "none" =>
        LET synced == {b \in Nodes : ~reports[c][b].syncing}
        IN /\ synced # {} => outcome[c] = "ok" /\ ~chosen[c].syncing
           /\ outcome[c] = "ok" => \E b \in Nodes : reports[c][b] = chosen[c]
           /\ outcome[c] = "ok" /\ synced = {} => AllowSyncing

-----------------------------------------------------------------------------
\* What comments of the code say and the code does not do.  TLC finds a
\* counterexample to each when it is added to MCMultiBeaconClient.cfg.

\* What the comment on beaconInstancesByLastResponse says of its list: the node
\* with the last successful response is its first element.
FirstIsLastGood ==
    (lastGood # 0 /\ \A c \in Calls : ~Running(c))
        => ByLastResponse(best)[1] = lastGood

\* "failed to publish block on any CL node": an error of PublishBlock means
\* that no node broadcast the block.
ErrorMeansNotBroadcast ==
    \A c \in Calls : outcome[c] = "error" => \A b \in Nodes : answers[c][b] = "error"

=============================================================================
