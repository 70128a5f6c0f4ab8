---------------------- MODULE MultiBeaconClientProofs ----------------------
(***************************************************************************)
(* The safety properties of MultiBeaconClient for every number of beacon   *)
(* nodes and every set of concurrent calls.                                *)
(*                                                                         *)
(* What makes them inductive: whatever index a call read, the order it     *)
(* works through has every node exactly once (OrderOK), so the positions   *)
(* a call has left tell which nodes have not answered it (QueryOK,         *)
(* PublishOK, SyncOK).                                                     *)
(***************************************************************************)
EXTENDS MultiBeaconClient, TLAPS

\* An order of the nodes: every node at exactly one position
Permutes(o) == /\ \A b \in Nodes : \E p \in Positions : o[p] = b
               /\ \A p, q \in Positions : o[p] = o[q] => p = q

OrderOK(c) == Permutes(order[c])

\* A call that has not begun
IdleOK(c) == kind[c] = "none" =>
    /\ outcome[c] = "none" /\ chosen[c] = NoStatus
    /\ \A b \in Nodes : answers[c][b] = "none" /\ reports[c][b] = NoStatus

\* A query asks positions in turn; all before the next one answered an error.
QueryOK(c) == kind[c] \in Queries =>
    /\ outcome[c] \in {"none", "ok", "unavailable", "beforeCapella"}
    /\ outcome[c] = "none" =>
         \E q \in Positions : /\ left[c] = q .. N
                              /\ \A p \in 1 .. q - 1 : answers[c][order[c][p]] = "error"
    /\ outcome[c] = "unavailable" => \A b \in Nodes : answers[c][b] = "error"

\* A publication: no node that answered was a full success until the last step.
PublishOK(c) == kind[c] = "publish" =>
    /\ outcome[c] \in {"none", "ok", "202", "error"}
    /\ outcome[c] = "none" =>
         \A p \in Positions : IF p \in left[c] THEN answers[c][order[c][p]] = "none"
                              ELSE answers[c][order[c][p]] \in {"error", "202"}
    /\ outcome[c] = "ok" => \E b \in Nodes : answers[c][b] = "ok"
    /\ outcome[c] \in {"error", "202"} => \A b \in Nodes : answers[c][b] \in {"error", "202"}
    /\ outcome[c] = "202" => \E b \in Nodes : answers[c][b] = "202"

\* BestSyncStatus: the status kept is one that was reported, and a synced one
\* as soon as one was.
SyncOK(c) == kind[c] = "sync" =>
    /\ outcome[c] \in {"none", SyncResult(chosen[c])}
    /\ \A p \in left[c] : reports[c][order[c][p]] = NoStatus
    /\ chosen[c] # NoStatus => \E b \in Nodes : reports[c][b] = chosen[c]
    /\ (\E b \in Nodes : ~reports[c][b].syncing) => ~chosen[c].syncing

CallOK(c) == OrderOK(c) /\ IdleOK(c) /\ QueryOK(c) /\ PublishOK(c) /\ SyncOK(c)

IInv == TypeOK /\ \A c \in Calls : CallOK(c)

USE NAssumption, MaxSlotAssumption, AllowSyncingAssumption DEF Nodes, Positions

(***************************************************************************)
(* beaconInstancesByLastResponse and beaconInstancesByLeastUsed return     *)
(* every configured node once, whatever the stored index.                  *)
(***************************************************************************)
LEMMA OrdersPermute ==
    ASSUME NEW i \in 0 .. N - 1
    PROVE  /\ ByLastResponse(i) \in [Positions -> Nodes] /\ Permutes(ByLastResponse(i))
           /\ ByLeastUsed(i) \in [Positions -> Nodes] /\ Permutes(ByLeastUsed(i))
<1> DEFINE o == ByLastResponse(i)
<1> DEFINE u == ByLeastUsed(i)
<1>1. o \in [Positions -> Nodes] /\ \A p \in Positions :
         o[p] = IF p = 1 THEN i + 1 ELSE IF p = i + 1 THEN 1 ELSE p
  BY DEF ByLastResponse
<1>2. \A b \in Nodes : o[o[b]] = b
  BY <1>1
<1>3. \A p, q \in Positions : o[p] = o[q] => p = q
  BY <1>1
<1>4. Permutes(o)
  BY <1>1, <1>2, <1>3 DEF Permutes
<1>5. u \in [Positions -> Nodes] /\ \A p \in Positions : u[p] = o[N + 1 - p]
  BY <1>1 DEF ByLeastUsed
<1>6. \A b \in Nodes : o[b] \in Positions /\ N + 1 - o[b] \in Positions /\ u[N + 1 - o[b]] = b
  <2> SUFFICES ASSUME NEW b \in Nodes
               PROVE  o[b] \in Positions /\ N + 1 - o[b] \in Positions /\ u[N + 1 - o[b]] = b
    OBVIOUS
  <2>1. o[b] \in Positions /\ N + 1 - o[b] \in Positions
    BY <1>1, SMTT(30)
  <2>2. N + 1 - (N + 1 - o[b]) = o[b]
    BY <2>1
  <2> QED
    BY <2>1, <2>2, <1>2, <1>5
<1>7. \A p, q \in Positions : u[p] = u[q] => p = q
  <2> SUFFICES ASSUME NEW p \in Positions, NEW q \in Positions, u[p] = u[q]
               PROVE  p = q
    OBVIOUS
  <2>1. N + 1 - p \in Positions /\ N + 1 - q \in Positions
    OBVIOUS
  <2>2. N + 1 - p = N + 1 - q
    BY <2>1, <1>3, <1>5
  <2> QED
    BY <2>2
<1>8. Permutes(u)
  BY <1>6, <1>7 DEF Permutes
<1> QED
  BY <1>1, <1>4, <1>5, <1>8

(***************************************************************************)
(* Before the first call the invariant holds.                              *)
(***************************************************************************)
LEMMA InitInv == Init => IInv
<1> SUFFICES ASSUME Init PROVE IInv
  OBVIOUS
<1>1. TypeOK
  BY DEF Init, TypeOK, NoStatus
<1>2. \A c \in Calls : CallOK(c)
  BY DEF Init, CallOK, OrderOK, Permutes, IdleOK, QueryOK, PublishOK, SyncOK, Queries
<1> QED
  BY <1>1, <1>2 DEF IInv

(***************************************************************************)
(* A call for which nothing changes keeps its part of the invariant.       *)
(***************************************************************************)
LEMMA OtherCalls ==
    ASSUME NEW d \in Calls, CallOK(d),
           kind'[d] = kind[d], order'[d] = order[d], left'[d] = left[d], chosen'[d] = chosen[d],
           outcome'[d] = outcome[d], answers'[d] = answers[d], reports'[d] = reports[d]
    PROVE  CallOK(d)'
  BY DEF CallOK, OrderOK, Permutes, IdleOK, QueryOK, PublishOK, SyncOK, SyncResult

(***************************************************************************)
(* Entering a method fixes an order with every node in it.                 *)
(***************************************************************************)
LEMMA StartInv ==
    ASSUME IInv, NEW c \in Calls, NEW k \in Kinds, Start(c, k)
    PROVE  IInv'
<1> USE DEF IInv, Start
<1>1. /\ ByLastResponse(best) \in [Positions -> Nodes] /\ Permutes(ByLastResponse(best))
      /\ ByLeastUsed(best) \in [Positions -> Nodes] /\ Permutes(ByLeastUsed(best))
  BY OrdersPermute DEF TypeOK
<1>2. /\ order'[c] \in {ByLastResponse(best), ByLeastUsed(best), order[c]}
      /\ kind'[c] = k /\ left'[c] = Positions /\ outcome'[c] = outcome[c]
      /\ answers'[c] = answers[c] /\ reports'[c] = reports[c] /\ chosen'[c] = chosen[c]
  BY DEF TypeOK
<1>3. TypeOK'
  BY <1>1, <1>2 DEF TypeOK
<1>4. Permutes(order'[c])
  BY <1>1, <1>2 DEF CallOK, OrderOK
<1>5. /\ outcome[c] = "none" /\ chosen[c] = NoStatus
      /\ \A b \in Nodes : answers[c][b] = "none" /\ reports[c][b] = NoStatus
  BY DEF CallOK, IdleOK
<1>6. order'[c] \in [Positions -> Nodes]
  BY <1>3 DEF TypeOK
<1>7. CallOK(c)'
  <2>1. OrderOK(c)' /\ IdleOK(c)'
    BY <1>2, <1>4, <1>5 DEF OrderOK, IdleOK, Permutes, Kinds, Queries
  <2>2. QueryOK(c)'
    BY <1>2, <1>5 DEF QueryOK
  <2>3. PublishOK(c)'
    BY <1>2, <1>5, <1>6 DEF PublishOK
  <2>4. SyncOK(c)'
    BY <1>2, <1>5, <1>6 DEF SyncOK, NoStatus
  <2> QED
    BY <2>1, <2>2, <2>3, <2>4 DEF CallOK
<1>8. \A d \in Calls \ {c} : CallOK(d)'
  BY OtherCalls DEF TypeOK
<1> QED
  BY <1>3, <1>7, <1>8

(***************************************************************************)
(* The next position of a running query is the least one left.             *)
(***************************************************************************)
LEMMA AskedIsNext ==
    ASSUME NEW c \in Calls, NEW q \in Positions, left[c] = q .. N
    PROVE  Asked(c) = q
<1>1. q \in q .. N /\ \A y \in q .. N : q =< y
  OBVIOUS
<1>2. \A x \in q .. N : (\A y \in q .. N : x =< y) => x = q
  BY <1>1
<1> QED
  BY <1>1, <1>2 DEF Asked, Min

(***************************************************************************)
(* A node answers a query: an error moves on to the next position, and the *)
(* last position is the end of the list.                                   *)
(***************************************************************************)
LEMMA AnswerQueryInv ==
    ASSUME IInv, NEW c \in Calls, NEW res \in Codes, AnswerQuery(c, res)
    PROVE  IInv'
<1> USE DEF IInv
<1>1. Running(c) /\ kind[c] \in Queries /\ outcome[c] = "none"
  BY DEF AnswerQuery, Running
<1>2. PICK q \in Positions : /\ left[c] = q .. N
                             /\ \A p \in 1 .. q - 1 : answers[c][order[c][p]] = "error"
  BY <1>1 DEF CallOK, QueryOK
<1>3. Asked(c) = q /\ order[c][q] \in Nodes
  BY <1>2, AskedIsNext DEF TypeOK
<1>4. /\ answers' = [answers EXCEPT ![c][order[c][q]] = res]
      /\ left' = [left EXCEPT ![c] = @ \ {q}]
      /\ UNCHANGED <<kind, order, chosen, reports>>
      /\ \/ /\ res = "ok" /\ outcome' = [outcome EXCEPT ![c] = "ok"]
            /\ best' \in {best, q - 1} /\ lastGood' \in {lastGood, order[c][q]}
         \/ /\ res # "ok" /\ UNCHANGED <<best, lastGood>>
            /\ outcome' = [outcome EXCEPT ![c] =
                              IF res = "capella" THEN "beforeCapella"
                              ELSE IF left[c] = {q} THEN "unavailable" ELSE @]
      /\ res \in {"ok", "error", "capella"}
  BY <1>3 DEF AnswerQuery, Succeed, StorePosition
<1>5. TypeOK'
  <2>1. best' \in 0 .. N - 1 /\ lastGood' \in Nodes \cup {0}
    <3>1. best' \in {best, q - 1} /\ lastGood' \in {lastGood, order[c][q]}
      BY <1>4
    <3>2. best \in 0 .. N - 1 /\ lastGood \in Nodes \cup {0}
      BY DEF TypeOK
    <3> QED
      BY <1>3, <3>1, <3>2
  <2>2. /\ answers' \in [Calls -> [Nodes -> Codes \cup {"none"}]]
        /\ left' \in [Calls -> SUBSET Positions]
    <3>1. answers' = [answers EXCEPT ![c] = [answers[c] EXCEPT ![order[c][q]] = res]]
      BY <1>4
    <3>2. answers \in [Calls -> [Nodes -> Codes \cup {"none"}]]
      BY DEF TypeOK
    <3>3. [answers[c] EXCEPT ![order[c][q]] = res] \in [Nodes -> Codes \cup {"none"}]
      BY <1>3, <3>2
    <3>4. left' \in [Calls -> SUBSET Positions]
      BY <1>4 DEF TypeOK
    <3> QED
      BY <3>1, <3>2, <3>3, <3>4
  <2>3. outcome' \in [Calls -> {"none", "ok", "202", "error", "unavailable",
                                "beforeCapella", "syncing"}]
    BY <1>4 DEF TypeOK
  <2> QED
    BY <1>4, <2>1, <2>2, <2>3 DEF TypeOK
<1>6. /\ left'[c] = q + 1 .. N
      /\ \A b \in Nodes : answers'[c][b] = IF b = order[c][q] THEN res ELSE answers[c][b]
      /\ kind'[c] = kind[c] /\ order'[c] = order[c]
      /\ outcome'[c] = IF res = "ok" THEN "ok" ELSE IF res = "capella" THEN "beforeCapella"
                       ELSE IF q = N THEN "unavailable" ELSE "none"
  <2>1. left[c] = {q} <=> q = N
    <3>1. q = N => left[c] = {q}
      BY <1>2
    <3>2. q # N => N \in left[c] /\ N # q
      BY <1>2
    <3> QED
      BY <3>1, <3>2
  <2>2. left'[c] = q + 1 .. N
    <3>1. left'[c] = left[c] \ {q}
      BY <1>4 DEF TypeOK
    <3>2. (q .. N) \ {q} = q + 1 .. N
      OBVIOUS
    <3> QED
      BY <1>2, <3>1, <3>2
  <2>3. /\ \A b \in Nodes : answers'[c][b] = IF b = order[c][q] THEN res ELSE answers[c][b]
        /\ kind'[c] = kind[c] /\ order'[c] = order[c]
    <3>1. answers \in [Calls -> [Nodes -> Codes \cup {"none"}]]
      BY DEF TypeOK
    <3>2. answers'[c] = [answers[c] EXCEPT ![order[c][q]] = res]
      BY <1>4, <3>1
    <3> QED
      BY <1>3, <1>4, <3>1, <3>2
  <2>4. outcome'[c] = IF res = "ok" THEN "ok" ELSE IF res = "capella" THEN "beforeCapella"
                      ELSE IF q = N THEN "unavailable" ELSE "none"
    BY <1>1, <1>4, <2>1 DEF TypeOK
  <2> QED
    BY <2>2, <2>3, <2>4
<1>7. QueryOK(c)'
  <2>1. Permutes(order[c]) /\ order[c] \in [Positions -> Nodes]
    BY DEF CallOK, OrderOK, TypeOK
  <2>2. CASE res \in {"ok", "capella"}
    BY <1>1, <1>6, <2>2 DEF QueryOK
  <2>3. CASE res = "error"
    <3>1. \A p \in 1 .. q : answers'[c][order[c][p]] = "error"
      <4> SUFFICES ASSUME NEW p \in 1 .. q PROVE answers'[c][order[c][p]] = "error"
        OBVIOUS
      <4>1. p \in Positions /\ order[c][p] \in Nodes
        BY <2>1
      <4>2. answers'[c][order[c][p]] =
               IF order[c][p] = order[c][q] THEN res ELSE answers[c][order[c][p]]
        BY <1>6, <4>1
      <4>3. p = q \/ p \in 1 .. q - 1
        OBVIOUS
      <4> QED
        BY <1>2, <2>3, <4>2, <4>3
    <3>2. CASE q = N
      <4>1. \A b \in Nodes : answers'[c][b] = "error"
        BY <3>1, <3>2, <2>1 DEF Permutes
      <4> QED
        BY <1>6, <2>3, <3>2, <4>1 DEF QueryOK
    <3>3. CASE q # N
      <4>1. q + 1 \in Positions /\ \A p \in 1 .. (q + 1) - 1 : p \in 1 .. q
        BY <3>3
      <4> QED
        BY <1>6, <2>3, <3>1, <3>3, <4>1 DEF QueryOK
    <3> QED
      BY <3>2, <3>3
  <2> QED
    BY <1>4, <2>2, <2>3
<1>8. CallOK(c)'
  BY <1>1, <1>6, <1>7 DEF CallOK, OrderOK, Permutes, IdleOK, PublishOK, SyncOK, Queries
<1>9. \A d \in Calls \ {c} : CallOK(d)'
  BY <1>4, OtherCalls DEF TypeOK
<1> QED
  BY <1>5, <1>8, <1>9

(***************************************************************************)
(* A node answers a publication.                                           *)
(***************************************************************************)
LEMMA AnswerPublishInv ==
    ASSUME IInv, NEW c \in Calls, NEW p \in Positions, NEW res \in Codes,
           AnswerPublish(c, p, res)
    PROVE  IInv'
<1> USE DEF IInv
<1> DEFINE b == order[c][p]
<1>1. /\ kind[c] = "publish" /\ outcome[c] = "none" /\ p \in left[c]
      /\ res \in {"ok", "202", "error"}
  BY DEF AnswerPublish, Running
<1>2. b \in Nodes /\ order[c] \in [Positions -> Nodes] /\ Permutes(order[c])
  BY DEF TypeOK, CallOK, OrderOK
<1>3. /\ answers' = [answers EXCEPT ![c][b] = res]
      /\ left' = [left EXCEPT ![c] = @ \ {p}]
      /\ UNCHANGED <<kind, order, chosen, reports>>
      /\ \/ res = "ok" /\ outcome' = [outcome EXCEPT ![c] = "ok"]
         \/ /\ res # "ok"
            /\ outcome' = [outcome EXCEPT ![c] = IF left[c] = {p} THEN PublishResult(res) ELSE @]
  BY DEF AnswerPublish, Succeed, FullSuccess
<1>4. best' \in {best, p - 1} /\ lastGood' \in {lastGood, b}
  BY DEF AnswerPublish, Succeed, StorePosition
<1>5. TypeOK'
  <2>1. best' \in 0 .. N - 1 /\ lastGood' \in Nodes \cup {0}
    <3>1. best \in 0 .. N - 1 /\ lastGood \in Nodes \cup {0}
      BY DEF TypeOK
    <3> QED
      BY <1>2, <1>4, <3>1, SMTT(30)
  <2>2. answers' \in [Calls -> [Nodes -> Codes \cup {"none"}]]
    <3>1. answers' = [answers EXCEPT ![c] = [answers[c] EXCEPT ![b] = res]]
      BY <1>3
    <3>2. answers \in [Calls -> [Nodes -> Codes \cup {"none"}]]
      BY DEF TypeOK
    <3>3. [answers[c] EXCEPT ![b] = res] \in [Nodes -> Codes \cup {"none"}]
      BY <1>2, <3>2
    <3> QED
      BY <3>1, <3>2, <3>3
  <2>3. /\ left' \in [Calls -> SUBSET Positions]
        /\ outcome' \in [Calls -> {"none", "ok", "202", "error", "unavailable",
                                   "beforeCapella", "syncing"}]
    BY <1>3 DEF TypeOK, PublishResult
  <2> QED
    BY <1>3, <2>1, <2>2, <2>3 DEF TypeOK
<1>6. /\ left'[c] = left[c] \ {p} /\ kind'[c] = kind[c] /\ order'[c] = order[c]
      /\ outcome'[c] = IF res = "ok" THEN "ok"
                       ELSE IF left[c] = {p} THEN PublishResult(res) ELSE "none"
  BY <1>1, <1>3 DEF TypeOK
<1>7. \A n \in Nodes : answers'[c][n] = IF n = b THEN res ELSE answers[c][n]
  <2>1. answers \in [Calls -> [Nodes -> Codes \cup {"none"}]]
    BY DEF TypeOK
  <2>2. answers'[c] = [answers[c] EXCEPT ![b] = res]
    BY <1>3, <2>1
  <2> QED
    BY <1>2, <2>1, <2>2
<1>8. \A q \in Positions : answers'[c][order[c][q]] =
         IF q = p THEN res ELSE answers[c][order[c][q]]
  BY <1>2, <1>7 DEF Permutes
<1>9. \A q \in Positions : IF q \in left[c] THEN answers[c][order[c][q]] = "none"
                           ELSE answers[c][order[c][q]] \in {"error", "202"}
  BY <1>1 DEF CallOK, PublishOK
<1>10. PublishOK(c)'
  <2>1. CASE res = "ok"
    BY <1>2, <1>6, <1>7, <2>1 DEF PublishOK
  <2>2. CASE res # "ok" /\ left[c] = {p}
    <3>1. \A q \in Positions : answers'[c][order[c][q]] \in {"error", "202"}
      BY <1>1, <1>8, <1>9, <2>2
    <3>2. \A n \in Nodes : answers'[c][n] \in {"error", "202"}
      BY <1>2, <3>1 DEF Permutes
    <3>3. outcome'[c] = IF res = "202" THEN "202" ELSE "error"
      BY <1>6, <2>2 DEF PublishResult
    <3>4. res = "202" => \E n \in Nodes : answers'[c][n] = "202"
      BY <1>2, <1>7
    <3> QED
      BY <3>2, <3>3, <3>4 DEF PublishOK
  <2>3. CASE res # "ok" /\ left[c] # {p}
    <3>1. outcome'[c] = "none"
      BY <1>6, <2>3
    <3>2. \A q \in Positions : IF q \in left'[c] THEN answers'[c][order'[c][q]] = "none"
                               ELSE answers'[c][order'[c][q]] \in {"error", "202"}
      BY <1>1, <1>6, <1>8, <1>9, <2>3
    <3> QED
      BY <3>1, <3>2 DEF PublishOK
  <2> QED
    BY <2>1, <2>2, <2>3
<1>11. CallOK(c)'
  BY <1>1, <1>2, <1>6, <1>10 DEF CallOK, OrderOK, Permutes, IdleOK, QueryOK, SyncOK, Queries
<1>12. \A d \in Calls \ {c} : CallOK(d)'
  BY <1>3, OtherCalls DEF TypeOK
<1> QED
  BY <1>5, <1>11, <1>12

(***************************************************************************)
(* A node answers BestSyncStatus, or fails to (s = NoStatus).              *)
(***************************************************************************)
LEMMA AnswerSyncInv ==
    ASSUME IInv, NEW c \in Calls, NEW p \in Positions, NEW s \in Statuses \cup {NoStatus},
           AnswerSync(c, p, s)
    PROVE  IInv'
<1> USE DEF IInv
<1> DEFINE b == order[c][p]
<1>1. kind[c] = "sync" /\ outcome[c] = "none" /\ p \in left[c]
  BY DEF AnswerSync, Running
<1>2. b \in Nodes /\ order[c] \in [Positions -> Nodes] /\ Permutes(order[c])
  BY DEF TypeOK, CallOK, OrderOK
<1>3. /\ reports' = [reports EXCEPT ![c][b] = s]
      /\ left' = [left EXCEPT ![c] = @ \ {p}]
      /\ chosen' = [chosen EXCEPT ![c] = Better(@, s)]
      /\ outcome' = [outcome EXCEPT ![c] = IF left[c] = {p} THEN SyncResult(chosen'[c]) ELSE @]
      /\ UNCHANGED <<best, kind, order, answers, lastGood>>
  BY DEF AnswerSync
<1>4. /\ left'[c] = left[c] \ {p} /\ kind'[c] = kind[c] /\ order'[c] = order[c]
      /\ chosen'[c] = Better(chosen[c], s)
      /\ outcome'[c] \in {"none", SyncResult(chosen'[c])}
  BY <1>1, <1>3 DEF TypeOK
<1>5. TypeOK'
  <2>1. reports' \in [Calls -> [Nodes -> Statuses \cup {NoStatus}]]
    <3>1. reports' = [reports EXCEPT ![c] = [reports[c] EXCEPT ![b] = s]]
      BY <1>3
    <3>2. reports \in [Calls -> [Nodes -> Statuses \cup {NoStatus}]]
      BY DEF TypeOK
    <3>3. [reports[c] EXCEPT ![b] = s] \in [Nodes -> Statuses \cup {NoStatus}]
      BY <1>2, <3>2
    <3> QED
      BY <3>1, <3>2, <3>3
  <2>2. chosen' \in [Calls -> Statuses \cup {NoStatus}] /\ left' \in [Calls -> SUBSET Positions]
    BY <1>3 DEF TypeOK, Better
  <2>3. outcome' \in [Calls -> {"none", "ok", "202", "error", "unavailable",
                                "beforeCapella", "syncing"}]
    BY <1>3 DEF TypeOK, SyncResult
  <2> QED
    BY <1>3, <2>1, <2>2, <2>3 DEF TypeOK
<1>6. \A n \in Nodes : reports'[c][n] = IF n = b THEN s ELSE reports[c][n]
  <2>1. reports \in [Calls -> [Nodes -> Statuses \cup {NoStatus}]]
    BY DEF TypeOK
  <2>2. reports'[c] = [reports[c] EXCEPT ![b] = s]
    BY <1>3, <2>1
  <2> QED
    BY <1>2, <2>1, <2>2
<1>7. /\ \A q \in left[c] : reports[c][order[c][q]] = NoStatus
      /\ chosen[c] # NoStatus => \E n \in Nodes : reports[c][n] = chosen[c]
      /\ (\E n \in Nodes : ~reports[c][n].syncing) => ~chosen[c].syncing
  BY <1>1 DEF CallOK, SyncOK
<1>8. SyncOK(c)'
  <2>1. \A q \in left'[c] : reports'[c][order'[c][q]] = NoStatus
    <3> SUFFICES ASSUME NEW q \in left'[c] PROVE reports'[c][order[c][q]] = NoStatus
      BY <1>4
    <3>1. q \in left[c] /\ q # p /\ q \in Positions
      BY <1>4 DEF TypeOK
    <3>2. order[c][q] \in Nodes /\ order[c][q] # b
      BY <1>2, <3>1 DEF Permutes
    <3> QED
      BY <1>6, <1>7, <3>1, <3>2
  <2>2. chosen'[c] # NoStatus => \E n \in Nodes : reports'[c][n] = chosen'[c]
    <3>1. CASE chosen'[c] = s
      BY <1>2, <1>6, <3>1
    <3>2. CASE chosen'[c] # s /\ chosen'[c] # NoStatus
      <4>1. chosen'[c] = chosen[c]
        BY <1>4, <3>2 DEF Better
      <4>2. PICK n \in Nodes : reports[c][n] = chosen[c]
        BY <1>7, <3>2, <4>1
      <4>3. n # b
        BY <1>1, <1>7, <3>2, <4>1, <4>2
      <4> QED
        BY <1>6, <4>1, <4>2, <4>3
    <3> QED
      BY <3>1, <3>2
  <2>3. (\E n \in Nodes : ~reports'[c][n].syncing) => ~chosen'[c].syncing
    <3> SUFFICES ASSUME NEW n \in Nodes, ~reports'[c][n].syncing PROVE ~chosen'[c].syncing
      OBVIOUS
    <3>1. CASE n = b
      BY <1>4, <1>6, <3>1 DEF Better
    <3>2. CASE n # b
      <4>1. ~chosen[c].syncing
        BY <1>6, <1>7, <3>2
      <4>2. chosen[c] # NoStatus
        BY <4>1 DEF NoStatus
      <4> QED
        BY <1>4, <4>1, <4>2 DEF Better
    <3> QED
      BY <3>1, <3>2
  <2> QED
    BY <1>4, <2>1, <2>2, <2>3 DEF SyncOK, SyncResult
<1>9. CallOK(c)'
  BY <1>1, <1>2, <1>4, <1>8 DEF CallOK, OrderOK, Permutes, IdleOK, QueryOK, PublishOK, Queries
<1>10. \A d \in Calls \ {c} : CallOK(d)'
  BY <1>3, OtherCalls DEF TypeOK
<1> QED
  BY <1>5, <1>9, <1>10

(***************************************************************************)
(* Every step keeps the invariant.                                         *)
(***************************************************************************)
LEMMA NextInv == IInv /\ [Next]_vars => IInv'
<1> SUFFICES ASSUME IInv, [Next]_vars PROVE IInv'
  OBVIOUS
<1>1. CASE UNCHANGED vars
  BY <1>1, OtherCalls DEF IInv, vars, TypeOK
<1>2. ASSUME NEW c \in Calls, NEW k \in Kinds, Start(c, k) PROVE IInv'
  BY <1>2, StartInv
<1>3. ASSUME NEW c \in Calls, NEW res \in Codes, AnswerQuery(c, res) PROVE IInv'
  BY <1>3, AnswerQueryInv
<1>4. ASSUME NEW c \in Calls, NEW p \in Positions, NEW res \in Codes, AnswerPublish(c, p, res)
      PROVE IInv'
  BY <1>4, AnswerPublishInv
<1>5. ASSUME NEW c \in Calls, NEW p \in Positions, NEW s \in Statuses \cup {NoStatus},
             AnswerSync(c, p, s)
      PROVE IInv'
  BY <1>5, AnswerSyncInv
<1> QED
  BY <1>1, <1>2, <1>3, <1>4, <1>5 DEF Next

(***************************************************************************)
(* The inductive invariant is an invariant.                                *)
(***************************************************************************)
LEMMA Invariance == Spec => []IInv
  BY InitInv, NextInv, PTL DEF Spec

(***************************************************************************)
(* The stored index always points into the configured list and the calls'  *)
(* locals keep their types.                                                *)
(***************************************************************************)
THEOREM TypeCorrect == Spec => []TypeOK
<1>1. IInv => TypeOK
  BY DEF IInv
<1> QED
  BY <1>1, Invariance, PTL

(***************************************************************************)
(* No call gives up while a configured node has not failed it, for any     *)
(* number of nodes and of concurrent calls that move the shared index.     *)
(***************************************************************************)
THEOREM NoNodeLeftOut == Spec => []GivesUpAfterAll
<1>1. IInv => GivesUpAfterAll
  <2> SUFFICES ASSUME IInv, NEW c \in Calls
               PROVE  /\ outcome[c] = "unavailable" /\ kind[c] \in Queries
                            => \A b \in Nodes : answers[c][b] = "error"
                      /\ outcome[c] \in {"error", "202"}
                            => \A b \in Nodes : answers[c][b] \in {"error", "202"}
    BY DEF GivesUpAfterAll
  <2>1. IdleOK(c) /\ QueryOK(c) /\ PublishOK(c) /\ SyncOK(c)
    BY DEF IInv, CallOK
  <2>2. kind[c] = "none" \/ kind[c] \in Queries \/ kind[c] = "publish" \/ kind[c] = "sync"
    BY DEF IInv, TypeOK, Kinds
  <2>3. outcome[c] \in {"error", "202"} => kind[c] = "publish"
    BY <2>1, <2>2 DEF IdleOK, QueryOK, SyncOK, SyncResult
  <2> QED
    BY <2>1, <2>3 DEF QueryOK, PublishOK
<1> QED
  BY <1>1, Invariance, PTL

(***************************************************************************)
(* What PublishBlock reports is what the nodes answered.                   *)
(***************************************************************************)
THEOREM PublicationIsTrue == Spec => []PublishedIsTrue
<1>1. IInv => PublishedIsTrue
  BY DEF IInv, CallOK, PublishOK, PublishedIsTrue
<1> QED
  BY <1>1, Invariance, PTL

(***************************************************************************)
(* BestSyncStatus returns a synced node's status whenever there is one, in *)
(* whatever order the answers arrive.                                      *)
(***************************************************************************)
THEOREM SyncedNodeIsUsed == Spec => []SyncedIsPreferred
<1>1. IInv => SyncedIsPreferred
  <2> SUFFICES ASSUME IInv, NEW c \in Calls, kind[c] = "sync", outcome[c] # "none"
               PROVE  LET synced == {b \in Nodes : ~reports[c][b].syncing}
                      IN /\ synced # {} => outcome[c] = "ok" /\ ~chosen[c].syncing
                         /\ outcome[c] = "ok" => \E b \in Nodes : reports[c][b] = chosen[c]
                         /\ outcome[c] = "ok" /\ synced = {} => AllowSyncing
    BY DEF SyncedIsPreferred
  <2>1. /\ outcome[c] = SyncResult(chosen[c])
        /\ chosen[c] # NoStatus => \E b \in Nodes : reports[c][b] = chosen[c]
        /\ (\E b \in Nodes : ~reports[c][b].syncing) => ~chosen[c].syncing
    BY DEF IInv, CallOK, SyncOK
  <2>2. ~chosen[c].syncing => chosen[c] # NoStatus
    BY DEF NoStatus
  <2> QED
    BY <2>1, <2>2 DEF SyncResult
<1> QED
  BY <1>1, Invariance, PTL
=============================================================================
