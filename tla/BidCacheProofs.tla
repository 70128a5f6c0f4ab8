--------------------------- MODULE BidCacheProofs ---------------------------
(***************************************************************************)
(* Every header the auction can serve has its payload, no COPY misses its  *)
(* source, and nothing is stored once the slot is delivered: for every set *)
(* of builders and values, any number of concurrent submissions, and with  *)
(* failing Redis calls and crashes.  Submissions that do not overlap serve *)
(* the best bid, and implement the abstract auction.                       *)
(***************************************************************************)
EXTENDS BidCache, FiniteSetTheorems, WellFoundedInduction, TLAPS

(***************************************************************************)
(* getTopBid returns a natural number.                                     *)
(***************************************************************************)
LEMMA TopValueType ==
    ASSUME NEW bids \in [Builders -> Nat]
    PROVE  TopValue(bids) \in Nat
<1>1. CASE TopBuilders(bids) = {}
  BY <1>1 DEF TopValue
<1>2. CASE TopBuilders(bids) # {}
  <2>1. (CHOOSE b \in TopBuilders(bids) : TRUE) \in TopBuilders(bids)
    BY <1>2
  <2>2. TopBuilders(bids) \subseteq Builders
    BY DEF TopBuilders
  <2> QED
    BY <1>2, <2>1, <2>2 DEF TopValue
<1> QED
  BY <1>1, <1>2

(***************************************************************************)
(* A builder getTopBid returns has a bid.                                  *)
(***************************************************************************)
LEMMA TopBuilderBids ==
    ASSUME NEW bids, NEW b \in TopBuilders(bids)
    PROVE  b \in Builders /\ bids[b] > 0
BY DEF TopBuilders

(***************************************************************************)
(* The locals a handler returns with, and those it starts with, are typed. *)
(***************************************************************************)
LEMMA NoLocalsType == NoLocals \in LocalType /\ NoBids \in [Builders -> Nat]
BY DEF NoLocals, LocalType, NoBids, None

(***************************************************************************)
(* What Decide leaves behind: typed locals, and a source that exists if    *)
(* the snapshot it was chosen from speaks of existing headers.             *)
(***************************************************************************)
LEMMA DecideStep ==
    ASSUME TypeOK, NEW s \in Submissions, pc[s] # "new",
           NEW bids \in [Builders -> Nat], NEW floor \in Nat, Decide(s, bids, floor),
           \A b \in Builders : bids[b] > 0 => latestBid[b] # None,
           floor > 0 => floorBid # None
    PROVE  \/ /\ pc' = [pc EXCEPT ![s] = "done"]
              /\ local' = [local EXCEPT ![s] = NoLocals]
           \/ \E l \in LocalType :
                /\ local' = [local EXCEPT ![s] = l]
                /\ l.deleting = local[s].deleting /\ l.floor = floor /\ l.bids = NoBids
                /\ pc' = [pc EXCEPT ![s] = IF l.deleting THEN "execCopyTop" ELSE "execSave"]
                /\ l.source = Floor => floorBid # None
                /\ l.source # Floor =>
                     \/ ~l.deleting /\ l.source = msg[s].builder
                     \/ latestBid[l.source] # None
<1> DEFINE after == IF local[s].deleting THEN bids
                    ELSE [bids EXCEPT ![msg[s].builder] = msg[s].value]
           newTop == TopValue(after)
           drop == /\ ~local[s].deleting
                   /\ \/ ~msg[s].cancel /\ AtOrBelowFloor(msg[s].value, floor)
                      \/ newTop = Greater(TopValue(bids), floor)
<1>1. msg[s].builder \in Builders /\ msg[s].value \in Nat
      /\ local[s].deleting \in BOOLEAN
  BY ValuesAssumption, Zenon DEF TypeOK, Received, LocalType
<1>2. after \in [Builders -> Nat]
  BY <1>1
<1>3. newTop \in Nat
  BY <1>2, TopValueType, Zenon
<1>4. CASE drop /\ Return(s, "done")
  BY <1>4 DEF Return, Goto
<1>5. CASE ~(drop /\ Return(s, "done"))
  <2>1. PICK src \in IF floor > newTop THEN {Floor} ELSE TopBuilders(after) :
          local' = [local EXCEPT ![s] =
                      [deleting |-> local[s].deleting, floor |-> floor,
                       bids |-> NoBids, source |-> src,
                       top |-> Greater(newTop, floor)]]
    BY <1>5, Zenon DEF Decide, Sources
  <2>2. pc' = [pc EXCEPT ![s] = IF local[s].deleting THEN "execCopyTop" ELSE "execSave"]
    BY <1>5 DEF Decide, Goto
  <2> DEFINE l == [deleting |-> local[s].deleting, floor |-> floor, bids |-> NoBids,
                   source |-> src, top |-> Greater(newTop, floor)]
  <2>3. src \in Builders \cup {Floor}
    BY <2>1, TopBuilderBids
  <2>4. Greater(newTop, floor) \in Nat
    BY <1>3 DEF Greater
  <2>5. l \in LocalType
    BY <1>1, <2>3, <2>4, NoLocalsType DEF LocalType
  <2>6. src = Floor => floorBid # None
    <3>1. CASE floor > newTop
      BY <1>3, <3>1
    <3>2. CASE ~(floor > newTop)
      BY <2>1, <3>2, TopBuilderBids, FloorAssumption
    <3> QED
      BY <3>1, <3>2
  <2>7. src # Floor => \/ ~local[s].deleting /\ src = msg[s].builder
                       \/ latestBid[src] # None
    <3> SUFFICES ASSUME src # Floor,
                        ~(~local[s].deleting /\ src = msg[s].builder)
                 PROVE  latestBid[src] # None
      OBVIOUS
    <3>1. src \in TopBuilders(after)
      BY <2>1
    <3>2. src \in Builders /\ after[src] > 0
      BY <3>1, TopBuilderBids, Zenon
    <3>3. after[src] = bids[src]
      BY <1>1, <3>2
    <3> QED
      BY <3>2, <3>3
  <2> QED
    BY <2>1, <2>2, <2>5, <2>6, <2>7, Zenon
<1> QED
  BY <1>4, <1>5

(***************************************************************************)
(* What holds of a handler at step p with locals l, in the current Redis.  *)
(***************************************************************************)
HandlerOK(s, p, l) ==
    /\ \A b \in Builders : l.bids[b] > 0 => latestBid[b] # None
    /\ l.floor > 0 => floorBid # None
    /\ p = "new" => ~l.deleting
    /\ l.deleting => msg[s].cancel
    /\ p = "execCopyTop" => l.deleting
    /\ p = "copyFloor" \/ (p = "setTopValue" /\ ~msg[s].cancel) =>
         latestBid[msg[s].builder] # None
    /\ p = "setFloorValue" => floorBid # None
    /\ p \in {"execSave", "execCopyTop"} /\ l.source = Floor => floorBid # None
    /\ p = "execSave" /\ l.source # Floor =>
         l.source = msg[s].builder \/ latestBid[l.source] # None
    /\ p = "execCopyTop" /\ l.source # Floor => latestBid[l.source] # None

(***************************************************************************)
(* A handler that has returned holds nothing.                              *)
(***************************************************************************)
LEMMA NoLocalsOK == \A s : HandlerOK(s, "done", NoLocals)'
<1>1. /\ \A b \in Builders : ~(NoLocals.bids[b] > 0)
      /\ ~(NoLocals.floor > 0) /\ ~NoLocals.deleting
  BY DEF NoLocals, NoBids, None, Unread
<1> QED
  BY <1>1, Zenon DEF HandlerOK

(***************************************************************************)
(* HandlerOK of a submission is its part of the inductive invariant.       *)
(***************************************************************************)
LEMMA HandlerOKIff ==
    ASSUME NEW s \in Submissions
    PROVE  HandlerOK(s, pc[s], local[s]) <=> Snapshot(s) /\ Progress(s) /\ SourceExists(s)
BY DEF HandlerOK, Snapshot, Progress, SourceExists

(***************************************************************************)
(* The same one step later.                                                *)
(***************************************************************************)
LEMMA HandlerOKIffNext ==
    ASSUME NEW s \in Submissions
    PROVE  HandlerOK(s, pc[s], local[s])' <=> (Snapshot(s) /\ Progress(s) /\ SourceExists(s))'
BY DEF HandlerOK, Snapshot, Progress, SourceExists

(***************************************************************************)
(* A handler that has just returned satisfies its part.                    *)
(***************************************************************************)
LEMMA ReturnedOK ==
    ASSUME NEW s \in Submissions, NEW p \in {"done", "refused"}
    PROVE  HandlerOK(s, p, NoLocals)
BY DEF HandlerOK, NoLocals, NoBids, None, Unread

(***************************************************************************)
(* A step of s leaves every other handler alone; headers once written stay *)
(* present, so what the others rely on survives.                           *)
(***************************************************************************)
LEMMA OthersStable ==
    ASSUME IInv, NEW s \in Submissions, NEW p, NEW l,
           pc' = [pc EXCEPT ![s] = p], local' = [local EXCEPT ![s] = l],
           \A t \in Submissions \ {s} : msg'[t] = msg[t],
           \A b \in Builders : latestBid[b] # None => latestBid'[b] # None,
           floorBid # None => floorBid' # None,
           (HandlerOK(s, pc[s], local[s]))'
    PROVE  (\A t \in Submissions : Snapshot(t) /\ Progress(t) /\ SourceExists(t))'
<1> SUFFICES ASSUME NEW t \in Submissions
             PROVE  (HandlerOK(t, pc[t], local[t]))'
  BY HandlerOKIffNext
<1>1. CASE t = s
  BY <1>1
<1>2. CASE t # s
  <2>1. pc'[t] = pc[t] /\ local'[t] = local[t] /\ msg'[t] = msg[t]
    BY <1>2 DEF IInv, TypeOK
  <2>2. HandlerOK(t, pc[t], local[t])
    BY HandlerOKIff DEF IInv
  <2>3. local[t] \in LocalType
    BY DEF IInv, TypeOK
  <2>4. ~(pc[t] = "new") => msg[t].builder \in Builders
    BY DEF IInv, TypeOK, Received
  <2> QED
    BY <2>1, <2>2, <2>3, <2>4 DEF HandlerOK, LocalType
<1> QED
  BY <1>1, <1>2

(***************************************************************************)
(* A step that reads Redis and moves its own handler.                      *)
(***************************************************************************)
LEMMA ReadStep ==
    ASSUME IInv, NEW s \in Submissions, pc[s] # "new",
           NEW p \in Steps \cup {"done", "refused"}, NEW l \in LocalType,
           pc' = [pc EXCEPT ![s] = p], local' = [local EXCEPT ![s] = l],
           UNCHANGED <<redis, inputs>>, HandlerOK(s, p, l)
    PROVE  IInv'
<1> USE DEF redis, bidKeys, topKeys, floorKeys, inputs
<1>1. TypeOK'
  <2>1. pc' \in [Submissions -> Steps \cup {"new", "done", "refused"}]
    BY DEF IInv, TypeOK
  <2>2. local' \in [Submissions -> LocalType]
    BY DEF IInv, TypeOK
  <2>3. Received' = Received
    BY DEF IInv, TypeOK, Received, Steps
  <2> QED
    BY <2>1, <2>2, <2>3 DEF IInv, TypeOK
<1>2. HeaderHasPayload' /\ BidHasHeader' /\ FloorHasHeader'
  BY DEF IInv, HeaderHasPayload, BidHasHeader, FloorHasHeader
<1>3. pc'[s] = p /\ local'[s] = l
  BY DEF IInv, TypeOK
<1>4. (HandlerOK(s, pc[s], local[s]))'
  BY <1>3 DEF HandlerOK
<1>5. (\A t \in Submissions : Snapshot(t) /\ Progress(t) /\ SourceExists(t))'
  BY <1>4, OthersStable, Zenon
<1> QED
  BY <1>1, <1>2, <1>5 DEF IInv

(***************************************************************************)
(* Facts every step of a received submission starts from.                  *)
(***************************************************************************)
LEMMA Current ==
    ASSUME IInv, NEW s \in Submissions
    PROVE  /\ HandlerOK(s, pc[s], local[s])
           /\ local[s] \in LocalType
           /\ local = [local EXCEPT ![s] = local[s]]
           /\ pc[s] # "new" => msg[s].builder \in Builders /\ msg[s].value \in Values
           /\ msg[s].cancel \in BOOLEAN /\ msg[s].at \in Nat
<1>1. HandlerOK(s, pc[s], local[s])
  BY HandlerOKIff DEF IInv
<1>2. /\ local[s] \in LocalType /\ local = [local EXCEPT ![s] = local[s]]
      /\ msg[s] \in MessageType
  BY DEF IInv, TypeOK
<1>3. pc[s] # "new" => msg[s].builder \in Builders /\ msg[s].value \in Values
  BY DEF IInv, TypeOK, Received
<1>4. msg[s].cancel \in BOOLEAN /\ msg[s].at \in Nat
  BY <1>2 DEF MessageType
<1> QED
  BY <1>1, <1>2, <1>3, <1>4

(***************************************************************************)
(* Returning without a write.                                              *)
(***************************************************************************)
LEMMA ReturnStep ==
    ASSUME IInv, NEW s \in Submissions, pc[s] # "new",
           NEW outcome \in {"done", "refused"}, Return(s, outcome),
           UNCHANGED <<redis, inputs>>
    PROVE  IInv'
<1>1. HandlerOK(s, outcome, NoLocals)
  BY ReturnedOK
<1> QED
  BY <1>1, ReadStep, NoLocalsType, Zenon DEF Return, Goto

(***************************************************************************)
(* Moving on to a step that has no obligations, with the same locals.      *)
(***************************************************************************)
LEMMA MoveStep ==
    ASSUME IInv, NEW s \in Submissions, pc[s] # "new",
           NEW p \in {"checkFloor", "simulate", "checkLatest", "loadBids"},
           Goto(s, p), UNCHANGED local, UNCHANGED <<redis, inputs>>
    PROVE  IInv'
<1>1. HandlerOK(s, p, local[s])
  BY Current DEF HandlerOK
<1> QED
  BY <1>1, ReadStep, Current, Zenon DEF Goto, Steps

(***************************************************************************)
(* The empty auction satisfies the invariant.                              *)
(***************************************************************************)
LEMMA InitInv == Init => IInv
<1> SUFFICES ASSUME Init PROVE IInv
  OBVIOUS
<1>1. TypeOK
  <2>1. NoMessage \in MessageType
    BY DEF NoMessage, MessageType, None
  <2>2. Received = {}
    BY DEF Init, Received
  <2>3. NoBids \in [Builders -> Submissions \cup {None}]
    BY DEF NoBids
  <2>4. /\ bidValue \in [Builders -> Nat] /\ bidTime \in [Builders -> Nat]
        /\ latestBid \in [Builders -> Submissions \cup {None}]
    BY <2>3, NoLocalsType DEF Init
  <2>5. /\ msg \in [Submissions -> MessageType]
        /\ local \in [Submissions -> LocalType]
        /\ pc \in [Submissions -> Steps \cup {"new", "done", "refused"}]
    BY <2>1, NoLocalsType DEF Init
  <2> QED
    BY <2>2, <2>4, <2>5, Zenon DEF Init, TypeOK, None
<1>2. HeaderHasPayload /\ BidHasHeader /\ FloorHasHeader
  BY DEF Init, HeaderHasPayload, BidHasHeader, FloorHasHeader, NoBids, None
<1>3. \A s \in Submissions : Snapshot(s) /\ Progress(s) /\ SourceExists(s)
  BY DEF Init, Snapshot, Progress, SourceExists, NoLocals, NoBids, None, Unread
<1> QED
  BY <1>1, <1>2, <1>3 DEF IInv

(***************************************************************************)
(* A new submission starts with empty locals.                              *)
(***************************************************************************)
LEMMA ReceiveInv ==
    ASSUME IInv, NEW s \in Submissions, Receive(s)
    PROVE  IInv'
<1> USE DEF redis, bidKeys, topKeys, floorKeys
<1>1. PICK b \in Builders, v \in Values, c \in BOOLEAN :
        msg' = [msg EXCEPT ![s] = [builder |-> b, value |-> v, cancel |-> c,
                                   at |-> clock', late |-> delivered]]
  BY Zenon DEF Receive
<1>2. clock' \in Nat /\ delivered' = delivered
  BY DEF Receive, IInv, TypeOK
<1> DEFINE m == [builder |-> b, value |-> v, cancel |-> c, at |-> clock',
                 late |-> delivered]
<1>3. m \in MessageType
  BY <1>2 DEF MessageType, IInv, TypeOK
<1>4. msg'[s] = m /\ \A t \in Submissions \ {s} : msg'[t] = msg[t]
  BY <1>1 DEF IInv, TypeOK
<1>5. pc' = [pc EXCEPT ![s] = "checkDelivered"] /\ pc'[s] = "checkDelivered"
      /\ local' = [local EXCEPT ![s] = local[s]] /\ local'[s] = local[s]
  BY Current DEF Receive, Goto, IInv, TypeOK
<1>6. TypeOK'
  <2>1. msg' \in [Submissions -> MessageType]
    BY <1>1, <1>3 DEF IInv, TypeOK
  <2>2. pc' \in [Submissions -> Steps \cup {"new", "done", "refused"}]
    BY <1>5, SMTT(30) DEF IInv, TypeOK, Steps
  <2>3. ASSUME NEW t \in Received' PROVE msg'[t].builder \in Builders /\ msg'[t].value \in Values
    BY <1>4, <1>5, SMTT(30) DEF IInv, TypeOK, Received
  <2>4. local' \in [Submissions -> LocalType]
    BY SMTT(30) DEF Receive, IInv, TypeOK
  <2> QED
    BY <1>2, <2>1, <2>2, <2>3, <2>4 DEF Receive, IInv, TypeOK
<1>7. HeaderHasPayload' /\ BidHasHeader' /\ FloorHasHeader'
  BY DEF Receive, IInv, HeaderHasPayload, BidHasHeader, FloorHasHeader
<1>8. (HandlerOK(s, pc[s], local[s]))'
  <2>1. Snapshot(s) /\ ~local[s].deleting
    BY DEF IInv, Progress, Receive
  <2> QED
    BY <1>5, <2>1 DEF HandlerOK, Receive, Snapshot
<1>9. (\A t \in Submissions : Snapshot(t) /\ Progress(t) /\ SourceExists(t))'
  BY <1>4, <1>5, <1>8, OthersStable, Zenon DEF Receive
<1> QED
  BY <1>6, <1>7, <1>9 DEF IInv

(***************************************************************************)
(* The reads before the bid is saved.                                      *)
(***************************************************************************)
LEMMA CheckDeliveredInv ==
    ASSUME IInv, NEW s \in Submissions, CheckDelivered(s)
    PROVE  IInv'
BY ReturnStep, MoveStep DEF CheckDelivered, inputs

(***************************************************************************)
(* The floor check takes a floor whose header exists into the locals.      *)
(***************************************************************************)
LEMMA CheckFloorInv ==
    ASSUME IInv, NEW s \in Submissions, CheckFloor(s)
    PROVE  IInv'
<1>1. PICK f \in {floorBidValue} \cup (IF RedisMayFail THEN {Unread} ELSE {}) :
         \/ /\ msg[s].cancel /\ BelowFloor(msg[s].value, f)
            /\ local' = [local EXCEPT ![s].deleting = TRUE]
            /\ Goto(s, "delValue")
         \/ /\ ~msg[s].cancel /\ AtOrBelowFloor(msg[s].value, f)
            /\ Return(s, "done")
         \/ /\ local' = [local EXCEPT ![s].floor = f]
            /\ Goto(s, "simulate")
  BY DEF CheckFloor
<1>2. UNCHANGED <<redis, inputs>> /\ pc[s] = "checkFloor"
  BY DEF CheckFloor, inputs
<1>3. f \in Nat \cup {Unread} /\ (f > 0 => floorBid # None)
  BY <1>1 DEF IInv, TypeOK, FloorHasHeader, Unread
<1>4. CASE msg[s].cancel /\ local' = [local EXCEPT ![s].deleting = TRUE]
           /\ Goto(s, "delValue")
  <2> DEFINE l == [local[s] EXCEPT !.deleting = TRUE]
  <2>1. l \in LocalType /\ local' = [local EXCEPT ![s] = l]
    BY <1>4, Current, Zenon DEF LocalType
  <2>2. HandlerOK(s, "delValue", l)
    BY <1>4, Current DEF HandlerOK, LocalType
  <2> QED
    BY <1>2, <1>4, <2>1, <2>2, ReadStep, Zenon DEF Goto, Steps
<1>5. CASE Return(s, "done")
  BY <1>2, <1>5, ReturnStep
<1>6. CASE local' = [local EXCEPT ![s].floor = f] /\ Goto(s, "simulate")
  <2> DEFINE l == [local[s] EXCEPT !.floor = f]
  <2>1. l \in LocalType /\ local' = [local EXCEPT ![s] = l]
    BY <1>3, <1>6, Current DEF LocalType
  <2>2. HandlerOK(s, "simulate", l)
    BY <1>3, Current DEF HandlerOK, LocalType
  <2> QED
    BY <1>2, <1>6, <2>1, <2>2, ReadStep, Zenon DEF Goto, Steps
<1> QED
  BY <1>1, <1>4, <1>5, <1>6

(***************************************************************************)
(* Simulation and the receivedAt check only move the handler on.           *)
(***************************************************************************)
LEMMA SimulateInv ==
    ASSUME IInv, NEW s \in Submissions, Simulate(s)
    PROVE  IInv'
BY ReturnStep, MoveStep DEF Simulate, inputs

(***************************************************************************)
(* The receivedAt check.                                                   *)
(***************************************************************************)
LEMMA CheckLatestInv ==
    ASSUME IInv, NEW s \in Submissions, CheckLatest(s)
    PROVE  IInv'
BY ReturnStep, MoveStep DEF CheckLatest, inputs

(***************************************************************************)
(* A failing call or a crash.                                              *)
(***************************************************************************)
LEMMA AbortInv ==
    ASSUME IInv, NEW s \in Submissions, Abort(s)
    PROVE  IInv'
BY ReturnStep DEF Abort, inputs, Steps

(***************************************************************************)
(* Deciding what to write, from a snapshot of existing headers.            *)
(***************************************************************************)
LEMMA DecideInv ==
    ASSUME IInv, NEW s \in Submissions, pc[s] # "new",
           NEW bids \in [Builders -> Nat], NEW floor \in Nat, Decide(s, bids, floor),
           \A b \in Builders : bids[b] > 0 => latestBid[b] # None,
           floor > 0 => floorBid # None,
           UNCHANGED <<redis, inputs>>
    PROVE  IInv'
<1>1. TypeOK
  BY DEF IInv
<1>2. CASE pc' = [pc EXCEPT ![s] = "done"] /\ local' = [local EXCEPT ![s] = NoLocals]
  BY <1>2, ReturnStep, Zenon DEF Return, Goto
<1>3. CASE \E l \in LocalType :
             /\ local' = [local EXCEPT ![s] = l]
             /\ l.deleting = local[s].deleting /\ l.floor = floor /\ l.bids = NoBids
             /\ pc' = [pc EXCEPT ![s] = IF l.deleting THEN "execCopyTop" ELSE "execSave"]
             /\ l.source = Floor => floorBid # None
             /\ l.source # Floor =>
                  \/ ~l.deleting /\ l.source = msg[s].builder
                  \/ latestBid[l.source] # None
  <2>1. PICK l \in LocalType :
             /\ local' = [local EXCEPT ![s] = l]
             /\ l.deleting = local[s].deleting /\ l.floor = floor /\ l.bids = NoBids
             /\ pc' = [pc EXCEPT ![s] = IF l.deleting THEN "execCopyTop" ELSE "execSave"]
             /\ l.source = Floor => floorBid # None
             /\ l.source # Floor =>
                  \/ ~l.deleting /\ l.source = msg[s].builder
                  \/ latestBid[l.source] # None
    BY <1>3, Zenon
  <2> DEFINE p == IF l.deleting THEN "execCopyTop" ELSE "execSave"
  <2>2. p \in Steps
    BY DEF Steps
  <2>3. l.deleting => msg[s].cancel
    BY <2>1, Current, Zenon DEF HandlerOK
  <2>4. \A b \in Builders : l.bids[b] = 0
    BY <2>1 DEF NoBids, None
  <2>5. l.deleting \in BOOLEAN
    BY DEF LocalType
  <2>6. HandlerOK(s, p, l)
    BY <2>1, <2>3, <2>4, <2>5 DEF HandlerOK
  <2> QED
    BY <2>1, <2>2, <2>6, ReadStep, Zenon
<1> QED
  BY <1>1, <1>2, <1>3, DecideStep, SMTT(30)

(***************************************************************************)
(* Loading the bids: the hash speaks of existing headers only.             *)
(***************************************************************************)
LEMMA LoadBidsInv ==
    ASSUME IInv, NEW s \in Submissions, LoadBids(s)
    PROVE  IInv'
<1>1. UNCHANGED <<redis, inputs>> /\ pc[s] = "loadBids"
  BY DEF LoadBids, inputs
<1>2. bidValue \in [Builders -> Nat]
      /\ \A b \in Builders : bidValue[b] > 0 => latestBid[b] # None
  BY DEF IInv, TypeOK, BidHasHeader
<1>3. CASE Return(s, "done")
  BY <1>1, <1>3, ReturnStep, SMTT(30)
<1>4. CASE local' = [local EXCEPT ![s].bids = bidValue] /\ Goto(s, "loadFloor")
  <2> DEFINE l == [local[s] EXCEPT !.bids = bidValue]
  <2>1. l \in LocalType /\ local' = [local EXCEPT ![s] = l]
    BY <1>2, <1>4, Current, SMTT(30) DEF LocalType
  <2>2. HandlerOK(s, "loadFloor", l)
    BY <1>2, Current DEF HandlerOK, LocalType
  <2> QED
    BY <1>1, <1>4, <2>1, <2>2, ReadStep, Zenon DEF Goto, Steps
<1>5. CASE local[s].floor # Unread /\ Decide(s, bidValue, local[s].floor)
  <2>1. local[s].floor \in Nat /\ (local[s].floor > 0 => floorBid # None)
    BY <1>5, Current DEF LocalType, HandlerOK
  <2> QED
    BY <1>1, <1>2, <1>5, <2>1, DecideInv
<1> QED
  BY <1>3, <1>4, <1>5 DEF LoadBids

(***************************************************************************)
(* Loading the floor, with the bids loaded before.                         *)
(***************************************************************************)
LEMMA LoadFloorInv ==
    ASSUME IInv, NEW s \in Submissions, LoadFloor(s)
    PROVE  IInv'
<1>1. UNCHANGED <<redis, inputs>> /\ pc[s] = "loadFloor"
      /\ Decide(s, local[s].bids, floorBidValue)
  BY DEF LoadFloor, inputs
<1>2. local[s].bids \in [Builders -> Nat]
      /\ \A b \in Builders : local[s].bids[b] > 0 => latestBid[b] # None
  BY Current DEF LocalType, HandlerOK
<1>3. floorBidValue \in Nat /\ (floorBidValue > 0 => floorBid # None)
  BY DEF IInv, TypeOK, FloorHasHeader
<1> QED
  BY <1>1, <1>2, <1>3, DecideInv

(***************************************************************************)
(* A write of s that moves its handler to step p with locals l: what is    *)
(* left to show is the state of Redis and the handler itself.              *)
(***************************************************************************)
LEMMA WriteStep ==
    ASSUME IInv, NEW s \in Submissions, pc[s] # "new",
           NEW p \in Steps \cup {"done", "refused"}, NEW l \in LocalType,
           pc' = [pc EXCEPT ![s] = p], local' = [local EXCEPT ![s] = l],
           UNCHANGED inputs,
           bidValue' \in [Builders -> Nat], bidTime' \in [Builders -> Nat],
           latestBid' \in [Builders -> Submissions \cup {None}],
           payloads' \subseteq Submissions, payloads \subseteq payloads',
           topBid' \in payloads' \cup {None}, topBidValue' \in Nat,
           floorBid' \in payloads' \cup {None}, floorBidValue' \in Nat,
           \A b \in Builders : latestBid'[b] # None => latestBid'[b] \in payloads',
           \A b \in Builders : latestBid[b] # None => latestBid'[b] # None,
           \A b \in Builders : bidValue'[b] > 0 => latestBid'[b] # None,
           floorBid # None => floorBid' # None,
           floorBidValue' > 0 => floorBid' # None,
           HandlerOK(s, p, l)'
    PROVE  IInv'
<1>1. TypeOK'
  <2>1. pc' \in [Submissions -> Steps \cup {"new", "done", "refused"}]
    BY DEF IInv, TypeOK
  <2>2. local' \in [Submissions -> LocalType]
    BY DEF IInv, TypeOK
  <2>3. Received' = Received
    BY DEF IInv, TypeOK, Received, Steps
  <2>4. topBid' \in Submissions \cup {None} /\ floorBid' \in Submissions \cup {None}
    OBVIOUS
  <2> QED
    BY <2>1, <2>2, <2>3, <2>4 DEF IInv, TypeOK, inputs
<1>2. HeaderHasPayload' /\ BidHasHeader' /\ FloorHasHeader'
  BY DEF HeaderHasPayload, BidHasHeader, FloorHasHeader
<1>3. pc'[s] = p /\ local'[s] = l
  BY SMTT(30) DEF IInv, TypeOK
<1>4. (HandlerOK(s, pc[s], local[s]))'
  BY <1>3, SMTT(30) DEF HandlerOK
<1>5. (\A t \in Submissions : Snapshot(t) /\ Progress(t) /\ SourceExists(t))'
  BY <1>4, OthersStable, Zenon DEF inputs
<1> QED
  BY <1>1, <1>2, <1>5 DEF IInv

(***************************************************************************)
(* The keys a step leaves alone keep what WriteStep asks of them.          *)
(***************************************************************************)
LEMMA Keys ==
    ASSUME IInv
    PROVE  /\ bidValue \in [Builders -> Nat] /\ bidTime \in [Builders -> Nat]
           /\ latestBid \in [Builders -> Submissions \cup {None}]
           /\ payloads \subseteq Submissions
           /\ topBid \in payloads \cup {None} /\ topBidValue \in Nat
           /\ floorBid \in payloads \cup {None} /\ floorBidValue \in Nat
           /\ \A b \in Builders : latestBid[b] # None => latestBid[b] \in payloads
           /\ \A b \in Builders : bidValue[b] > 0 => latestBid[b] # None
           /\ floorBidValue > 0 => floorBid # None
BY DEF IInv, TypeOK, HeaderHasPayload, BidHasHeader, FloorHasHeader

(***************************************************************************)
(* The two HDELs only remove.                                              *)
(***************************************************************************)
LEMMA DelValueInv ==
    ASSUME IInv, NEW s \in Submissions, DelValue(s)
    PROVE  IInv'
<1> USE DEF topKeys, floorKeys, None
<1>1. bidValue' \in [Builders -> Nat] /\ \A b \in Builders : bidValue'[b] > 0 => bidValue[b] > 0
  BY Keys, Current DEF DelValue
<1>2. HandlerOK(s, "delTime", local[s])'
  BY Current DEF DelValue, HandlerOK, inputs
<1>3. pc' = [pc EXCEPT ![s] = "delTime"] /\ local' = [local EXCEPT ![s] = local[s]]
  BY Current DEF DelValue, Goto
<1>4. "delTime" \in Steps
  BY DEF Steps
<1> QED
  BY <1>1, <1>2, <1>3, <1>4, Keys, Current, WriteStep, Zenon DEF DelValue

(***************************************************************************)
(* HDEL of the time.                                                       *)
(***************************************************************************)
LEMMA DelTimeInv ==
    ASSUME IInv, NEW s \in Submissions, DelTime(s)
    PROVE  IInv'
<1> USE DEF topKeys, floorKeys, None
<1>1. bidTime' \in [Builders -> Nat]
  BY Keys, Zenon DEF DelTime
<1>2. HandlerOK(s, "loadBids", local[s])'
  BY Current DEF DelTime, HandlerOK, inputs
<1>3. pc' = [pc EXCEPT ![s] = "loadBids"] /\ local' = [local EXCEPT ![s] = local[s]]
  BY Current DEF DelTime, Goto
<1>4. "loadBids" \in Steps
  BY DEF Steps
<1> QED
  BY <1>1, <1>2, <1>3, <1>4, Keys, Current, WriteStep, Zenon DEF DelTime

(***************************************************************************)
(* The save: payload and header are written by the transaction that makes  *)
(* them servable.                                                          *)
(***************************************************************************)
LEMMA ExecSaveInv ==
    ASSUME IInv, NEW s \in Submissions, ExecSave(s)
    PROVE  IInv'
<1> DEFINE b == msg[s].builder
           bid == CopySource(s, latestBid')
<1>1. b \in Builders /\ msg[s].value \in Nat /\ msg[s].at \in Nat /\ s # None
  BY Current, ValuesAssumption DEF ExecSave, Submissions, None
<1>2. latestBid' \in [Builders -> Submissions \cup {None}]
      /\ latestBid'[b] = s /\ \A c \in Builders \ {b} : latestBid'[c] = latestBid[c]
  BY <1>1, Keys DEF ExecSave
<1>3. bidTime' \in [Builders -> Nat] /\ bidValue' \in [Builders -> Nat]
      /\ \A c \in Builders \ {b} : bidValue'[c] = bidValue[c]
  BY <1>1, Keys DEF ExecSave
<1>4. payloads' = payloads \cup {s} /\ payloads' \subseteq Submissions
  BY Keys DEF ExecSave
<1>5. UNCHANGED <<topBidValue, floorBid, floorBidValue, local>> /\ UNCHANGED inputs
  BY DEF ExecSave, floorKeys
<1>6. local[s].source \in Builders \cup {Floor}
  BY Current DEF LocalType
<1>7. bid \in payloads' /\ bid # None
  <2>1. CASE local[s].source = Floor
    BY <1>4, <2>1, Keys, Current DEF CopySource, HandlerOK, ExecSave
  <2>2. CASE local[s].source # Floor
    <3>1. bid = latestBid'[local[s].source] /\ local[s].source \in Builders
      BY <1>6, <2>2, SMTT(30) DEF CopySource
    <3>2. local[s].source = b \/ latestBid[local[s].source] # None
      BY <2>2, Current, SMTT(30) DEF HandlerOK, ExecSave
    <3> QED
      BY <1>1, <1>2, <1>4, <3>1, <3>2, Keys, SMTT(30)
  <2> QED
    BY <2>1, <2>2
<1>8. topBid' = bid /\ pc' = [pc EXCEPT ![s] = "setTopValue"]
  BY <1>7, SMTT(30) DEF ExecSave, CopyTop, Goto
<1>9. HandlerOK(s, "setTopValue", local[s])'
  BY <1>1, <1>2, <1>5, Current DEF HandlerOK, inputs, ExecSave, LocalType
<1>10. "setTopValue" \in Steps /\ local' = [local EXCEPT ![s] = local[s]]
  BY <1>5, Current DEF Steps
<1>11. pc[s] # "new"
  BY SMTT(30) DEF ExecSave
<1>12. /\ \A c \in Builders : latestBid'[c] # None => latestBid'[c] \in payloads'
       /\ \A c \in Builders : latestBid[c] # None => latestBid'[c] # None
       /\ \A c \in Builders : bidValue'[c] > 0 => latestBid'[c] # None
  BY <1>1, <1>2, <1>3, <1>4, Keys
<1>13. /\ topBid' \in payloads' \cup {None} /\ topBidValue' \in Nat
       /\ floorBid' \in payloads' \cup {None} /\ floorBidValue' \in Nat
       /\ floorBid # None => floorBid' # None
       /\ floorBidValue' > 0 => floorBid' # None
  BY <1>4, <1>5, <1>7, <1>8, Keys
<1>14. local[s] \in LocalType
  BY Current
<1> QED
  BY <1>2, <1>3, <1>4, <1>5, <1>8, <1>9, <1>10, <1>11, <1>12, <1>13, <1>14, WriteStep, Zenon

(***************************************************************************)
(* The COPY after a deletion.                                              *)
(***************************************************************************)
LEMMA ExecCopyTopInv ==
    ASSUME IInv, NEW s \in Submissions, ExecCopyTop(s)
    PROVE  IInv'
<1> DEFINE bid == CopySource(s, latestBid)
<1> USE DEF bidKeys, floorKeys
<1>1. local[s].source \in Builders \cup {Floor}
  BY Current DEF LocalType
<1>2. bid # None /\ bid \in payloads
  BY <1>1, Keys, Current DEF CopySource, HandlerOK, ExecCopyTop
<1>3. topBid' = bid /\ pc' = [pc EXCEPT ![s] = "setTopValue"]
  BY <1>2 DEF ExecCopyTop, CopyTop, Goto
<1>4. HandlerOK(s, "setTopValue", local[s])'
  BY Current DEF HandlerOK, inputs, ExecCopyTop, LocalType
<1>5. "setTopValue" \in Steps /\ local' = [local EXCEPT ![s] = local[s]]
  BY Current DEF Steps, ExecCopyTop
<1> QED
  BY <1>2, <1>3, <1>4, <1>5, Keys, Current, WriteStep, ZenonT(60) DEF ExecCopyTop

(***************************************************************************)
(* SET of the top value.                                                   *)
(***************************************************************************)
LEMMA SetTopValueInv ==
    ASSUME IInv, NEW s \in Submissions, SetTopValue(s)
    PROVE  IInv'
<1> USE DEF bidKeys, floorKeys
<1>1. topBidValue' \in Nat
  BY Current DEF SetTopValue, LocalType
<1>2. CASE SetsFloor(s) /\ Goto(s, "copyFloor") /\ UNCHANGED local
  <2>1. HandlerOK(s, "copyFloor", local[s])'
    BY <1>2, Current DEF HandlerOK, inputs, SetTopValue, SetsFloor, LocalType
  <2>2. "copyFloor" \in Steps /\ local' = [local EXCEPT ![s] = local[s]]
    BY <1>2, Current DEF Steps
  <2> QED
    BY <1>1, <1>2, <2>1, <2>2, Keys, Current, WriteStep, ZenonT(60) DEF SetTopValue, Goto
<1>3. CASE ~SetsFloor(s) /\ Return(s, "done")
  <2>1. HandlerOK(s, "done", NoLocals)'
    BY NoLocalsOK, Zenon
  <2> QED
    BY <1>1, <1>3, <2>1, Keys, NoLocalsType, WriteStep, ZenonT(60) DEF SetTopValue, Return, Goto
<1> QED
  BY <1>2, <1>3 DEF SetTopValue

(***************************************************************************)
(* COPY of the builder's current header to the floor.                      *)
(***************************************************************************)
LEMMA CopyFloorInv ==
    ASSUME IInv, NEW s \in Submissions, CopyFloor(s)
    PROVE  IInv'
<1> USE DEF bidKeys, topKeys
<1>1. floorBid' \in payloads /\ floorBid' # None
  BY Keys, Current, SMTT(30) DEF CopyFloor, HandlerOK
<1>2. HandlerOK(s, "setFloorValue", local[s])'
  BY <1>1, Current DEF HandlerOK, inputs, CopyFloor, LocalType
<1>3. "setFloorValue" \in Steps /\ local' = [local EXCEPT ![s] = local[s]]
      /\ pc' = [pc EXCEPT ![s] = "setFloorValue"]
  BY Current DEF Steps, CopyFloor, Goto
<1> QED
  BY <1>1, <1>2, <1>3, Keys, Current, WriteStep, ZenonT(60) DEF CopyFloor

(***************************************************************************)
(* SET of the floor value.                                                 *)
(***************************************************************************)
LEMMA SetFloorValueInv ==
    ASSUME IInv, NEW s \in Submissions, SetFloorValue(s)
    PROVE  IInv'
<1> USE DEF bidKeys, topKeys
<1>1. floorBidValue' \in Nat /\ floorBid' = floorBid /\ floorBid # None
  BY Current, ValuesAssumption, SMTT(30) DEF SetFloorValue, HandlerOK
<1>2. HandlerOK(s, "done", NoLocals)'
  BY NoLocalsOK, Zenon
<1> QED
  BY <1>1, <1>2, Keys, NoLocalsType, WriteStep, Zenon DEF SetFloorValue, Return, Goto

(***************************************************************************)
(* A delivery elsewhere touches nothing the invariant speaks of.           *)
(***************************************************************************)
LEMMA DeliverInv == ASSUME IInv, Deliver PROVE IInv'
BY DEF Deliver, IInv, TypeOK, Received, HeaderHasPayload, BidHasHeader, FloorHasHeader,
       Snapshot, Progress, SourceExists, redis, bidKeys, topKeys, floorKeys

(***************************************************************************)
(* Every step keeps the inductive invariant.                               *)
(***************************************************************************)
LEMMA StepInv == IInv /\ [Next]_vars => IInv'
<1> SUFFICES ASSUME IInv, [Next]_vars PROVE IInv'
  OBVIOUS
<1>1. CASE Deliver
  BY <1>1, DeliverInv
<1>2. ASSUME NEW s \in Submissions, Submission(s) PROVE IInv'
  <2>1. CASE Receive(s) \/ CheckDelivered(s) \/ CheckFloor(s) \/ Simulate(s)
             \/ CheckLatest(s) \/ Abort(s)
    BY <2>1, ReceiveInv, CheckDeliveredInv, CheckFloorInv, SimulateInv, CheckLatestInv,
       AbortInv
  <2>2. CASE DelValue(s) \/ DelTime(s) \/ LoadBids(s) \/ LoadFloor(s)
    BY <2>2, DelValueInv, DelTimeInv, LoadBidsInv, LoadFloorInv
  <2>3. CASE ExecSave(s) \/ ExecCopyTop(s) \/ SetTopValue(s) \/ CopyFloor(s)
             \/ SetFloorValue(s)
    BY <2>3, ExecSaveInv, ExecCopyTopInv, SetTopValueInv, CopyFloorInv, SetFloorValueInv, SMTT(30)
  <2> QED
    BY <1>2, <2>1, <2>2, <2>3 DEF Submission
<1>3. CASE UNCHANGED vars
  BY <1>3 DEF vars, IInv, TypeOK, Received, HeaderHasPayload, BidHasHeader, FloorHasHeader,
              Snapshot, Progress, SourceExists
<1> QED
  BY <1>1, <1>2, <1>3 DEF Next

(***************************************************************************)
(* The invariant holds in every reachable state.                           *)
(***************************************************************************)
LEMMA Invariance == Spec => []IInv
BY InitInv, StepInv, PTL DEF Spec

(***************************************************************************)
(* The auction's keys and the handlers' variables keep their types.        *)
(***************************************************************************)
THEOREM TypeCorrect == Spec => []TypeOK
<1>1. IInv => TypeOK
  BY DEF IInv
<1> QED
  BY <1>1, Invariance, PTL

(***************************************************************************)
(* Every header getHeader can serve has its execution payload in Redis.    *)
(***************************************************************************)
THEOREM ServedHeadersHavePayloads == Spec => []HeaderHasPayload
<1>1. IInv => HeaderHasPayload
  BY SMTT(30) DEF IInv
<1> QED
  BY <1>1, Invariance, PTL

(***************************************************************************)
(* The COPYs of _updateTopBid and of the floor update find their source.   *)
(***************************************************************************)
THEOREM CopiesSucceed == Spec => []CopySourceExists
<1>1. IInv => CopySourceExists
  <2> SUFFICES ASSUME IInv, NEW s \in Submissions
               PROVE  /\ pc[s] = "execSave" =>
                           CopySource(s, [latestBid EXCEPT ![msg[s].builder] = s]) # None
                      /\ pc[s] = "execCopyTop" => CopySource(s, latestBid) # None
                      /\ pc[s] = "copyFloor" => latestBid[msg[s].builder] # None
    BY SMTT(30) DEF CopySourceExists
  <2>1. ASSUME pc[s] = "execSave"
        PROVE  CopySource(s, [latestBid EXCEPT ![msg[s].builder] = s]) # None
    <3>1. s # None /\ local[s].source \in Builders \cup {Floor}
          /\ latestBid \in [Builders -> Submissions \cup {None}]
      BY Current, Keys DEF Submissions, None, LocalType
    <3>2. msg[s].builder \in Builders
      BY <2>1, Current
    <3>3. HandlerOK(s, "execSave", local[s])
      BY <2>1, Current, SMTT(30)
    <3> QED
      BY <3>1, <3>2, <3>3 DEF CopySource, HandlerOK
  <2>2. pc[s] = "execCopyTop" => CopySource(s, latestBid) # None
    BY Current, SMTT(30) DEF CopySource, HandlerOK
  <2>3. pc[s] = "copyFloor" => latestBid[msg[s].builder] # None
    BY Current DEF HandlerOK
  <2> QED
    BY <2>1, <2>2, <2>3, SMTT(30)
<1> QED
  BY <1>1, Invariance, PTL

-----------------------------------------------------------------------------
(***************************************************************************)
(* A submission that arrived after the delivery gets no further than the   *)
(* check of the delivered slot, and the slot stays delivered.              *)
(***************************************************************************)
LateInv ==
    ~RedisMayFail =>
        /\ \A s \in Submissions : msg[s].late =>
               delivered /\ pc[s] \in {"checkDelivered", "refused"}
        /\ \A s \in payloads : pc[s] # "new" /\ ~msg[s].late

(***************************************************************************)
(* Only ExecSave stores a payload, and a late submission never gets there. *)
(***************************************************************************)
LEMMA LateStep == IInv /\ LateInv /\ [Next]_vars => LateInv'
<1> SUFFICES ASSUME IInv, LateInv, [Next]_vars, ~RedisMayFail' PROVE LateInv'
  BY DEF LateInv
<1> USE DEF redis, bidKeys, topKeys, floorKeys, inputs
<1>1. load' = load
  BY DEF Next, Deliver, Submission, Receive, CheckDelivered, CheckFloor, Simulate,
         CheckLatest, DelValue, DelTime, LoadBids, LoadFloor, ExecSave, ExecCopyTop,
         SetTopValue, CopyFloor, SetFloorValue, Abort, vars
<1>2. /\ ~RedisMayFail
      /\ \A s \in Submissions : msg[s].late =>
               delivered /\ pc[s] \in {"checkDelivered", "refused"}
      /\ \A s \in payloads : pc[s] # "new" /\ ~msg[s].late
      /\ payloads \subseteq Submissions
      /\ pc \in [Submissions -> Steps \cup {"new", "done", "refused"}]
      /\ msg \in [Submissions -> MessageType]
  BY <1>1 DEF LateInv, RedisMayFail, IInv, TypeOK
<1> SUFFICES /\ \A t \in Submissions : msg'[t].late =>
                   delivered' /\ pc'[t] \in {"checkDelivered", "refused"}
             /\ \A t \in payloads' : pc'[t] # "new" /\ ~msg'[t].late
  BY DEF LateInv
<1>3. CASE Deliver
  BY <1>2, <1>3 DEF Deliver
<1>4. ASSUME NEW s \in Submissions, Receive(s)
      PROVE  /\ \A t \in Submissions : msg'[t].late =>
                   delivered' /\ pc'[t] \in {"checkDelivered", "refused"}
             /\ \A t \in payloads' : pc'[t] # "new" /\ ~msg'[t].late
  <2>1. PICK b \in Builders, v \in Values, c \in BOOLEAN :
            msg' = [msg EXCEPT ![s] = [builder |-> b, value |-> v, cancel |-> c,
                                       at |-> clock', late |-> delivered]]
    BY <1>4, Zenon DEF Receive
  <2>2. pc' = [pc EXCEPT ![s] = "checkDelivered"] /\ UNCHANGED <<payloads, delivered>>
    BY <1>4 DEF Receive, Goto
  <2>3. msg'[s].late = delivered /\ \A t \in Submissions \ {s} : msg'[t] = msg[t]
    BY <1>2, <2>1
  <2> QED
    BY <1>2, <1>4, <2>2, <2>3 DEF Receive
<1>5. ASSUME NEW s \in Submissions, Submission(s), ~Receive(s)
      PROVE  /\ \A t \in Submissions : msg'[t].late =>
                   delivered' /\ pc'[t] \in {"checkDelivered", "refused"}
             /\ \A t \in payloads' : pc'[t] # "new" /\ ~msg'[t].late
  <2>1. msg' = msg /\ delivered' = delivered
    BY <1>5 DEF Submission, CheckDelivered, CheckFloor, Simulate,
         CheckLatest, DelValue, DelTime, LoadBids, LoadFloor, ExecSave, ExecCopyTop,
         SetTopValue, CopyFloor, SetFloorValue, Abort
  <2>2. pc[s] \in Steps /\ pc'[s] # "new" /\ \A t \in Submissions \ {s} : pc'[t] = pc[t]
    BY <1>2, <1>5, Zenon DEF Submission, CheckDelivered, CheckFloor, Simulate,
         CheckLatest, DelValue, DelTime, LoadBids, LoadFloor, ExecSave, ExecCopyTop,
         SetTopValue, CopyFloor, SetFloorValue, Abort, Steps, Goto, Return, Decide, CopyTop
  <2>3. pc[s] = "checkDelivered" /\ msg[s].late => pc'[s] = "refused"
    BY <1>2, <1>5 DEF Submission, CheckDelivered, CheckFloor, Simulate,
         CheckLatest, DelValue, DelTime, LoadBids, LoadFloor, ExecSave, ExecCopyTop,
         SetTopValue, CopyFloor, SetFloorValue, Abort, Return, Goto
  <2>4. payloads' = payloads \/ (pc[s] = "execSave" /\ payloads' = payloads \cup {s})
    BY <1>5 DEF Submission, CheckDelivered, CheckFloor, Simulate,
         CheckLatest, DelValue, DelTime, LoadBids, LoadFloor, ExecSave, ExecCopyTop,
         SetTopValue, CopyFloor, SetFloorValue, Abort
  <2> QED
    BY <1>2, <1>5, <2>1, <2>2, <2>3, <2>4 DEF Steps
<1>6. CASE UNCHANGED vars
  BY <1>2, <1>6 DEF vars
<1> QED
  BY <1>3, <1>4, <1>5, <1>6 DEF Next

(***************************************************************************)
(* checkFloorBidValue keeps a submission that arrives after the delivery   *)
(* of the slot out of the auction, as long as Redis answers.               *)
(***************************************************************************)
THEOREM DeliveredSlotIsClosed == Spec => []NothingSavedAfterDelivery
<1>1. Init => LateInv
  BY DEF Init, LateInv, NoMessage
<1>2. LateInv => NothingSavedAfterDelivery
  BY DEF LateInv, NothingSavedAfterDelivery
<1> QED
  BY <1>1, <1>2, LateStep, Invariance, PTL DEF Spec

-----------------------------------------------------------------------------
(***************************************************************************)
(* A nonempty set of naturals has a least element.                         *)
(***************************************************************************)
LEMMA LeastExists ==
    ASSUME NEW T, T \subseteq Nat, T # {}
    PROVE  \E n \in T : \A m \in T : n <= m
<1> DEFINE R == OpToRel(<, Nat)
<1>1. PICK n \in T : \A m \in T : ~(<<m, n>> \in R)
  BY WFMin, NatLessThanWellFounded, Zenon
<1>2. ASSUME NEW m \in T PROVE n <= m
  <2>1. m \in Nat /\ n \in Nat
    OBVIOUS
  <2>2. <<m, n>> \in R <=> m < n
    BY <2>1 DEF OpToRel
  <2> HIDE DEF R
  <2> QED
    BY <1>1, <2>1, <2>2
<1> QED
  BY <1>1, <1>2, Zenon

(***************************************************************************)
(* If some builder has a bid, getTopBid returns a builder: the one with    *)
(* the fewest builders above it.                                           *)
(***************************************************************************)
LEMMA TopBuilderExists ==
    ASSUME NEW bids \in [Builders -> Nat], NEW b \in Builders, bids[b] > 0
    PROVE  TopBuilders(bids) # {}
<1> DEFINE above(c) == {d \in Builders : bids[d] > bids[c]}
           T == {Cardinality(above(c)) : c \in Builders}
<1>1. ASSUME NEW c \in Builders
      PROVE  IsFiniteSet(above(c)) /\ Cardinality(above(c)) \in Nat
  <2>1. above(c) \in SUBSET Builders
    OBVIOUS
  <2>2. IsFiniteSet(above(c))
    BY <2>1, BuildersAssumption, FS_Subset
  <2> QED
    BY <2>2, FS_CardinalityType
<1>2. T \subseteq Nat /\ T # {}
  BY <1>1, Zenon
<1> HIDE DEF above
<1>3. PICK n \in T : \A m \in T : n <= m
  <2> HIDE DEF T
  <2> QED
    BY <1>2, LeastExists, Zenon
<1>4. PICK c \in Builders : n = Cardinality(above(c))
  BY <1>3
<1>5. ASSUME NEW d \in Builders PROVE bids[d] <= bids[c]
  <2> SUFFICES ASSUME bids[d] > bids[c] PROVE FALSE
    OBVIOUS
  <2>1. above(d) \in SUBSET above(c) /\ d \in above(c) /\ d \notin above(d)
    BY DEF above
  <2>2. Cardinality(above(d)) <= Cardinality(above(c))
        /\ Cardinality(above(c)) # Cardinality(above(d))
    BY <1>1, <2>1, FS_Subset
  <2>3. Cardinality(above(c)) <= Cardinality(above(d))
    BY <1>3, <1>4
  <2> QED
    BY <1>1, <2>2, <2>3
<1> QED
  BY <1>5 DEF TopBuilders

(***************************************************************************)
(* getTopBid returns the value of a best bid, whichever of the tied        *)
(* builders it names.                                                      *)
(***************************************************************************)
LEMMA TopValueIsBest ==
    ASSUME NEW bids \in [Builders -> Nat]
    PROVE  /\ TopValue(bids) \in Nat
           /\ \A b \in Builders : bids[b] <= TopValue(bids)
           /\ \A b \in TopBuilders(bids) : b \in Builders /\ bids[b] = TopValue(bids)
           /\ TopValue(bids) > 0 => \E b \in Builders : bids[b] = TopValue(bids)
<1>1. TopValue(bids) \in Nat
  BY TopValueType
<1>2. CASE TopBuilders(bids) = {}
  <2>1. TopValue(bids) = 0
    BY <1>2 DEF TopValue
  <2>2. \A b \in Builders : bids[b] = 0
    BY <1>2, TopBuilderExists
  <2> QED
    BY <1>2, <2>1, <2>2
<1>3. CASE TopBuilders(bids) # {}
  <2>1. PICK t : t = CHOOSE b \in TopBuilders(bids) : TRUE
    OBVIOUS
  <2>2. t \in TopBuilders(bids)
    BY <1>3, <2>1
  <2>3. TopValue(bids) = bids[t]
    BY <1>3, <2>1 DEF TopValue
  <2> QED
    BY <1>1, <2>2, <2>3 DEF TopBuilders
<1> QED
  BY <1>2, <1>3

(***************************************************************************)
(* From here on, submissions that do not overlap.  Best is the value       *)
(* _updateTopBid computes, After the bids with the submission's own.       *)
(***************************************************************************)
Best(bids, floor) == Greater(TopValue(bids), floor)
After(s) == [bidValue EXCEPT ![msg[s].builder] = msg[s].value]

(***************************************************************************)
(* The best value with a bid at or above two floors is the same for both.  *)
(***************************************************************************)
LEMMA BestAboveFloors ==
    ASSUME NEW bids, TopValue(bids) \in Nat, NEW value \in Nat, NEW floor \in Nat,
           floor < value, value <= TopValue(bids)
    PROVE  Best(bids, floor) = Best(bids, value)
BY DEF Best, Greater

(***************************************************************************)
(* A value above the floor is not at or below it.                          *)
(***************************************************************************)
LEMMA AboveFloor ==
    ASSUME NEW value \in Nat, NEW floor \in Nat, value > floor
    PROVE  ~AtOrBelowFloor(value, floor)
BY DEF AtOrBelowFloor

(***************************************************************************)
(* A lone handler at step p with locals l knows the current floor and      *)
(* bids: nobody has changed them since it read them.                       *)
(***************************************************************************)
SerialOK(s, p, l) ==
    /\ p \in {"checkDelivered", "checkFloor", "simulate", "checkLatest", "execSave"} => ~l.deleting
    /\ p \in {"delValue", "delTime", "loadFloor", "execCopyTop"} => l.deleting
    /\ p = "delValue" => msg[s].value < floorBidValue
    /\ p \in {"simulate", "checkLatest", "loadBids", "execSave"} /\ ~l.deleting =>
         /\ l.floor = floorBidValue /\ msg[s].value >= floorBidValue
         /\ ~msg[s].cancel => msg[s].value > floorBidValue
    /\ p = "loadFloor" => l.bids = bidValue
    /\ p \in {"loadFloor", "execCopyTop"} => bidValue # NoBids
    /\ p = "execCopyTop" =>
         /\ l.source \in Sources(bidValue, floorBidValue)
         /\ l.top = Best(bidValue, floorBidValue)
    /\ p = "execSave" =>
         /\ l.source \in Sources(After(s), floorBidValue)
         /\ l.top = Best(After(s), floorBidValue)
    /\ p = "setTopValue" => l.top = ValueOf(topBid)
    /\ p \in {"copyFloor", "setFloorValue"} => ~msg[s].cancel
    /\ p \in {"setTopValue", "copyFloor", "setFloorValue"} /\ ~msg[s].cancel =>
         /\ l.floor = floorBidValue /\ msg[s].value > floorBidValue
         /\ bidValue[msg[s].builder] = msg[s].value
         /\ latestBid[msg[s].builder] = s
    /\ p = "setFloorValue" => floorBid = s

(***************************************************************************)
(* The keys, up to what the handler at step p with locals l has yet to     *)
(* write: every bid has the header of its value, keyFloorBid belongs to    *)
(* keyFloorBidValue, and the top bid is the best there is.                 *)
(***************************************************************************)
Deleting(p, l) == l.deleting /\ p \in {"delTime", "loadBids", "loadFloor", "execCopyTop"}

KeysOK(p, l) ==
    /\ \A b \in Builders : bidValue[b] > 0 => bidValue[b] = ValueOf(latestBid[b])
    /\ floorBid # None => ~msg[floorBid].cancel
    /\ p # "setFloorValue" => floorBidValue = ValueOf(floorBid)
    /\ bidValue # NoBids /\ ~Deleting(p, l) =>
         /\ ValueOf(topBid) = Best(bidValue, floorBidValue)
         /\ p # "setTopValue" => topBidValue = ValueOf(topBid)

(***************************************************************************)
(* The invariant of submissions that do not overlap.                       *)
(***************************************************************************)
SerialInv ==
    Calm =>
        /\ payloads \subseteq Received
        /\ InFlight = {} => KeysOK("done", NoLocals)
        /\ \A s \in InFlight :
             /\ InFlight = {s}
             /\ SerialOK(s, pc[s], local[s])
             /\ KeysOK(pc[s], local[s])

(***************************************************************************)
(* The load of a behaviour is chosen once.                                 *)
(***************************************************************************)
LEMMA LoadIsFixed == [Next]_vars => load' = load
BY DEF Next, Deliver, Submission, Receive, CheckDelivered, CheckFloor, Simulate,
       CheckLatest, DelValue, DelTime, LoadBids, LoadFloor, ExecSave, ExecCopyTop,
       SetTopValue, CopyFloor, SetFloorValue, Abort, vars, inputs

(***************************************************************************)
(* A step of the only handler: what is left to show is the state of Redis  *)
(* and of the handler afterwards.                                          *)
(***************************************************************************)
LEMMA SoloStep ==
    ASSUME IInv, SerialInv, Calm, NEW s \in Submissions, pc[s] \in Steps,
           NEW p \in Steps \cup {"done", "refused"}, NEW l,
           pc' = [pc EXCEPT ![s] = p], local' = [local EXCEPT ![s] = l],
           UNCHANGED <<msg, load>>, payloads' \subseteq payloads \cup {s},
           p \in Steps => SerialOK(s, p, l)',
           KeysOK(p, l)',
           p \notin Steps => l = NoLocals
    PROVE  SerialInv'
<1>1. /\ pc \in [Submissions -> Steps \cup {"new", "done", "refused"}]
      /\ local \in [Submissions -> LocalType]
      /\ payloads \subseteq Submissions
  BY DEF IInv, TypeOK
<1>2. InFlight = {s} /\ payloads \subseteq Received
  BY DEF SerialInv, InFlight
<1>3. pc'[s] = p /\ local'[s] = l /\ \A t \in Submissions \ {s} : pc'[t] = pc[t]
  BY <1>1
<1>4. payloads' \subseteq Received'
  BY <1>1, <1>2, <1>3 DEF Received, Steps
<1>5. CASE p \in Steps
  <2>1. InFlight' = {s}
    BY <1>2, <1>3, <1>5 DEF InFlight
  <2>2. SerialOK(s, pc[s], local[s])' /\ KeysOK(pc[s], local[s])'
    BY <1>3, <1>5, Zenon DEF SerialOK, KeysOK, Deleting
  <2> QED
    BY <1>4, <2>1, <2>2 DEF SerialInv
<1>6. CASE p \notin Steps
  <2>1. InFlight' = {}
    BY <1>2, <1>3, <1>6 DEF InFlight
  <2>2. KeysOK("done", NoLocals)'
    <3>1. p # "setFloorValue" /\ p # "setTopValue"
      BY <1>6 DEF Steps
    <3>2. ~Deleting(p, l)' /\ ~Deleting("done", NoLocals)'
      BY <1>6 DEF Deleting, Steps
    <3> QED
      BY <3>1, <3>2, Zenon DEF KeysOK
  <2> QED
    BY <1>4, <2>1, <2>2 DEF SerialInv
<1> QED
  BY <1>5, <1>6

(***************************************************************************)
(* What holds of the only handler before its step.                         *)
(***************************************************************************)
LEMMA SoloFacts ==
    ASSUME IInv, SerialInv, Calm, NEW s \in Submissions, pc[s] \in Steps
    PROVE  /\ SerialOK(s, pc[s], local[s]) /\ KeysOK(pc[s], local[s])
           /\ \A t \in Submissions \ {s} : pc[t] \notin Steps
BY DEF SerialInv, InFlight

(***************************************************************************)
(* A step of the only handler that reads Redis.                            *)
(***************************************************************************)
LEMMA SoloRead ==
    ASSUME IInv, SerialInv, Calm, NEW s \in Submissions, pc[s] \in Steps,
           NEW p \in (Steps \ {"setTopValue", "setFloorValue"}) \cup {"done", "refused"}, NEW l,
           pc' = [pc EXCEPT ![s] = p], local' = [local EXCEPT ![s] = l],
           UNCHANGED <<redis, inputs>>,
           pc[s] \notin {"setTopValue", "setFloorValue"},
           p \in Steps => SerialOK(s, p, l),
           p \notin Steps => l = NoLocals,
           bidValue # NoBids => (Deleting(pc[s], local[s]) <=> Deleting(p, l))
    PROVE  SerialInv'
<1> USE DEF redis, bidKeys, topKeys, floorKeys, inputs
<1>1. p \in Steps => SerialOK(s, p, l)'
  BY Zenon DEF SerialOK, Best, After, ValueOf
<1>2. KeysOK(p, l)
  <2>1. KeysOK(pc[s], local[s])
    BY SoloFacts, Zenon
  <2>2. p # "setTopValue" /\ p # "setFloorValue"
    BY DEF Steps
  <2> QED
    BY <2>1, <2>2, Zenon DEF KeysOK
<1>3. KeysOK(p, l)'
  BY <1>2 DEF KeysOK, Best, ValueOf, Deleting
<1>4. p \in Steps \cup {"done", "refused"}
  OBVIOUS
<1> QED
  BY <1>1, <1>3, <1>4, SoloStep, Zenon

(***************************************************************************)
(* The only handler returns without a write.                               *)
(***************************************************************************)
LEMMA SoloReturn ==
    ASSUME IInv, SerialInv, Calm, NEW s \in Submissions, pc[s] \in Steps,
           NEW outcome \in {"done", "refused"}, Return(s, outcome),
           UNCHANGED <<redis, inputs>>,
           pc[s] \notin {"setTopValue", "setFloorValue"},
           bidValue # NoBids => ~Deleting(pc[s], local[s])
    PROVE  SerialInv'
<1>1. outcome \notin Steps /\ ~Deleting(outcome, NoLocals)
  BY DEF Steps, Deleting
<1> QED
  BY <1>1, SoloRead, Zenon DEF Return, Goto

(***************************************************************************)
(* The load admits no failure.                                             *)
(***************************************************************************)
LEMMA CalmMeans ==
    ASSUME IInv, Calm PROVE ~RedisMayFail /\ load.inFlight = 1 /\ load.faulty = FALSE
<1>1. load \in [submissions : Nat, inFlight : Nat, faulty : BOOLEAN]
  BY LoadsAssumption DEF IInv, TypeOK
<1> QED
  BY <1>1 DEF Calm, RedisMayFail

(***************************************************************************)
(* The checks before the simulation, and the simulation.                   *)
(***************************************************************************)
LEMMA CheckDeliveredSerial ==
    ASSUME IInv, SerialInv, Calm, NEW s \in Submissions, CheckDelivered(s)
    PROVE  SerialInv'
<1>1. pc[s] = "checkDelivered" /\ pc[s] \in Steps /\ UNCHANGED <<redis, inputs>>
  BY DEF CheckDelivered, Steps, inputs
<1>2. SerialOK(s, "checkDelivered", local[s]) /\ ~Deleting("checkDelivered", local[s])
  BY <1>1, SoloFacts DEF Deleting
<1>3. CASE Return(s, "refused")
  BY <1>1, <1>2, <1>3, SoloReturn
<1>4. CASE Goto(s, "checkFloor") /\ UNCHANGED local
  <2>1. SerialOK(s, "checkFloor", local[s]) /\ ~Deleting("checkFloor", local[s])
    BY <1>2 DEF SerialOK, Deleting
  <2> QED
    BY <1>1, <1>2, <1>4, <2>1, Current, SoloRead, Zenon DEF Goto, Steps
<1> QED
  BY <1>3, <1>4 DEF CheckDelivered

(***************************************************************************)
(* The floor check reads the current floor.                                *)
(***************************************************************************)
LEMMA CheckFloorSerial ==
    ASSUME IInv, SerialInv, Calm, NEW s \in Submissions, CheckFloor(s)
    PROVE  SerialInv'
<1>1. pc[s] = "checkFloor" /\ pc[s] \in Steps /\ UNCHANGED <<redis, inputs>>
  BY DEF CheckFloor, Steps, inputs
<1>2. SerialOK(s, "checkFloor", local[s]) /\ ~Deleting("checkFloor", local[s])
      /\ ~local[s].deleting
  BY <1>1, SoloFacts, Zenon DEF Deleting, SerialOK
<1>3. \/ /\ msg[s].cancel /\ BelowFloor(msg[s].value, floorBidValue)
         /\ local' = [local EXCEPT ![s].deleting = TRUE]
         /\ Goto(s, "delValue")
      \/ Return(s, "done")
      \/ /\ ~(msg[s].cancel /\ BelowFloor(msg[s].value, floorBidValue))
         /\ ~(~msg[s].cancel /\ AtOrBelowFloor(msg[s].value, floorBidValue))
         /\ local' = [local EXCEPT ![s].floor = floorBidValue]
         /\ Goto(s, "simulate")
  BY CalmMeans, Zenon DEF CheckFloor
<1>4. floorBidValue \in Nat /\ msg[s].value \in Nat /\ local[s] \in LocalType
      /\ msg[s].cancel \in BOOLEAN
  BY <1>1, Current, Keys, ValuesAssumption
<1>5. CASE /\ msg[s].cancel /\ BelowFloor(msg[s].value, floorBidValue)
           /\ local' = [local EXCEPT ![s].deleting = TRUE]
           /\ Goto(s, "delValue")
  <2> DEFINE l == [local[s] EXCEPT !.deleting = TRUE]
  <2>1. local' = [local EXCEPT ![s] = l] /\ pc' = [pc EXCEPT ![s] = "delValue"]
    BY <1>5 DEF Goto
  <2>2. l.deleting = TRUE
    BY <1>4 DEF LocalType
  <2>3. SerialOK(s, "delValue", l) /\ ~Deleting("delValue", l)
    BY <1>4, <1>5, <2>2 DEF SerialOK, Deleting, BelowFloor
  <2> HIDE DEF l
  <2> QED
    BY <1>1, <1>2, <2>1, <2>3, SoloRead, Zenon DEF Steps
<1>6. CASE Return(s, "done")
  BY <1>1, <1>2, <1>6, SoloReturn
<1>7. CASE /\ ~(msg[s].cancel /\ BelowFloor(msg[s].value, floorBidValue))
           /\ ~(~msg[s].cancel /\ AtOrBelowFloor(msg[s].value, floorBidValue))
           /\ local' = [local EXCEPT ![s].floor = floorBidValue]
           /\ Goto(s, "simulate")
  <2> DEFINE l == [local[s] EXCEPT !.floor = floorBidValue]
  <2>1. local' = [local EXCEPT ![s] = l] /\ pc' = [pc EXCEPT ![s] = "simulate"]
    BY <1>7 DEF Goto
  <2>2. l.floor = floorBidValue /\ l.deleting = local[s].deleting
    BY <1>4 DEF LocalType
  <2>3. msg[s].value >= floorBidValue /\ (~msg[s].cancel => msg[s].value > floorBidValue)
    BY <1>4, <1>7 DEF BelowFloor, AtOrBelowFloor, Unread
  <2>4. SerialOK(s, "simulate", l) /\ ~Deleting("simulate", l)
    BY <1>2, <2>2, <2>3 DEF SerialOK, Deleting
  <2> HIDE DEF l
  <2> QED
    BY <1>1, <1>2, <2>1, <2>4, SoloRead, Zenon DEF Steps
<1> QED
  BY <1>3, <1>5, <1>6, <1>7

(***************************************************************************)
(* Simulation and the receivedAt check change nothing the auction depends  *)
(* on.                                                                     *)
(***************************************************************************)
LEMMA SimulateSerial ==
    ASSUME IInv, SerialInv, Calm, NEW s \in Submissions, Simulate(s) \/ CheckLatest(s)
    PROVE  SerialInv'
<1>1. pc[s] \in {"simulate", "checkLatest"} /\ pc[s] \in Steps /\ UNCHANGED <<redis, inputs>>
  BY DEF Simulate, CheckLatest, Steps, inputs
<1>2. SerialOK(s, pc[s], local[s]) /\ ~Deleting(pc[s], local[s]) /\ ~local[s].deleting
  BY <1>1, SoloFacts, Zenon DEF Deleting, SerialOK
<1>3. CASE Return(s, "refused")
  BY <1>1, <1>2, <1>3, SoloReturn, Zenon
<1>4. ASSUME NEW p \in {"checkLatest", "loadBids"}, Goto(s, p), UNCHANGED local
      PROVE  SerialInv'
  <2>1. SerialOK(s, p, local[s]) /\ ~Deleting(p, local[s])
    BY <1>1, <1>2, Zenon DEF SerialOK, Deleting
  <2> QED
    BY <1>1, <1>2, <1>4, <2>1, Current, SoloRead, Zenon DEF Goto, Steps
<1> QED
  BY <1>3, <1>4 DEF Simulate, CheckLatest

(***************************************************************************)
(* The decision of the only handler is based on the current bids.          *)
(***************************************************************************)
LEMMA DecideSerial ==
    ASSUME IInv, SerialInv, Calm, NEW s \in Submissions,
           pc[s] \in {"loadBids", "loadFloor"},
           local[s].deleting => bidValue # NoBids,
           ~local[s].deleting => pc[s] = "loadBids",
           Decide(s, bidValue, floorBidValue), UNCHANGED <<redis, inputs>>
    PROVE  SerialInv'
<1>1. pc[s] \in Steps /\ SerialOK(s, pc[s], local[s]) /\ local[s].deleting \in BOOLEAN
  BY SoloFacts, Current DEF Steps, LocalType
<1> DEFINE after == IF local[s].deleting THEN bidValue
                    ELSE [bidValue EXCEPT ![msg[s].builder] = msg[s].value]
<1>2. CASE ~local[s].deleting /\ Return(s, "done")
  <2>1. ~Deleting(pc[s], local[s])
    BY <1>2 DEF Deleting
  <2> QED
    BY <1>1, <1>2, <2>1, SoloReturn
<1>3. CASE ~(~local[s].deleting /\ Return(s, "done"))
  <2>1. PICK src \in Sources(after, floorBidValue) :
          local' = [local EXCEPT ![s] =
                      [deleting |-> local[s].deleting, floor |-> floorBidValue,
                       bids |-> NoBids, source |-> src,
                       top |-> Greater(TopValue(after), floorBidValue)]]
    BY <1>3, Zenon DEF Decide
  <2>2. pc' = [pc EXCEPT ![s] = IF local[s].deleting THEN "execCopyTop" ELSE "execSave"]
    BY <1>3 DEF Decide, Goto
  <2> DEFINE r == [deleting |-> local[s].deleting, floor |-> floorBidValue,
                   bids |-> NoBids, source |-> src,
                   top |-> Greater(TopValue(after), floorBidValue)]
  <2>3. PICK l : l = r
    BY Zenon
  <2>4. /\ l.deleting = local[s].deleting /\ l.floor = floorBidValue
        /\ l.source = src /\ l.top = Best(after, floorBidValue)
    BY <2>3 DEF Best
  <2>5. local' = [local EXCEPT ![s] = l]
    BY <2>1, <2>3
  <2> HIDE DEF r
  <2>6. CASE local[s].deleting
    <3>1. after = bidValue
      BY <2>6
    <3> HIDE DEF after
    <3>2. SerialOK(s, "execCopyTop", l)
      BY <2>1, <2>4, <2>6, <3>1 DEF SerialOK
    <3>3. Deleting("execCopyTop", l) /\ Deleting(pc[s], local[s])
      BY <2>4, <2>6 DEF Deleting
    <3>4. pc' = [pc EXCEPT ![s] = "execCopyTop"]
      BY <2>2, <2>6
    <3> QED
      BY <1>1, <2>5, <3>2, <3>3, <3>4, SoloRead, Zenon DEF Steps
  <2>7. CASE ~local[s].deleting
    <3>1. after = After(s)
      BY <2>7 DEF After
    <3> HIDE DEF after
    <3>2. SerialOK(s, "execSave", l)
      BY <1>1, <2>1, <2>4, <2>7, <3>1 DEF SerialOK
    <3>3. ~Deleting("execSave", l) /\ ~Deleting(pc[s], local[s])
      BY <2>4, <2>7 DEF Deleting
    <3>4. pc' = [pc EXCEPT ![s] = "execSave"]
      BY <2>2, <2>7
    <3> QED
      BY <1>1, <2>5, <3>2, <3>3, <3>4, SoloRead, Zenon DEF Steps
  <2> QED
    BY <2>6, <2>7
<1> QED
  BY <1>2, <1>3

(***************************************************************************)
(* Loading the bids, and the floor after a deletion.                       *)
(***************************************************************************)
LEMMA LoadSerial ==
    ASSUME IInv, SerialInv, Calm, NEW s \in Submissions, LoadBids(s) \/ LoadFloor(s)
    PROVE  SerialInv'
<1>1. pc[s] \in {"loadBids", "loadFloor"} /\ pc[s] \in Steps /\ UNCHANGED <<redis, inputs>>
  BY DEF LoadBids, LoadFloor, Steps, inputs
<1>2. SerialOK(s, pc[s], local[s]) /\ local[s] \in LocalType /\ local[s].deleting \in BOOLEAN
  BY <1>1, SoloFacts, Current DEF LocalType
<1>3. floorBidValue \in Nat
  BY Keys
<1>4. CASE LoadFloor(s)
  <2>1. pc[s] = "loadFloor" /\ local[s].deleting /\ local[s].bids = bidValue /\ bidValue # NoBids
    BY <1>2, <1>4 DEF LoadFloor, SerialOK
  <2>2. Decide(s, bidValue, floorBidValue)
    BY <1>4, <2>1, Zenon DEF LoadFloor
  <2> QED
    BY <1>1, <2>1, <2>2, DecideSerial, Zenon
<1>5. CASE LoadBids(s)
  <2>1. pc[s] = "loadBids"
    BY <1>5 DEF LoadBids
  <2>2. CASE local[s].deleting /\ bidValue = NoBids /\ Return(s, "done")
    BY <1>1, <2>1, <2>2, SoloReturn, Zenon
  <2>3. CASE /\ local[s].deleting /\ bidValue # NoBids
             /\ local' = [local EXCEPT ![s].bids = bidValue]
             /\ Goto(s, "loadFloor")
    <3> DEFINE l == [local[s] EXCEPT !.bids = bidValue]
    <3>1. local' = [local EXCEPT ![s] = l] /\ pc' = [pc EXCEPT ![s] = "loadFloor"]
      BY <2>3 DEF Goto
    <3>2. l.bids = bidValue /\ l.deleting = local[s].deleting
      BY <1>2 DEF LocalType
    <3>3. SerialOK(s, "loadFloor", l) /\ Deleting("loadFloor", l) /\ Deleting(pc[s], local[s])
      BY <2>1, <2>3, <3>2 DEF SerialOK, Deleting
    <3> HIDE DEF l
    <3> QED
      BY <1>1, <2>1, <3>1, <3>3, SoloRead, Zenon DEF Steps
  <2>4. CASE ~local[s].deleting /\ Decide(s, bidValue, local[s].floor)
    <3>1. local[s].floor = floorBidValue
      BY <1>2, <2>1, <2>4 DEF SerialOK
    <3> QED
      BY <1>1, <2>1, <2>4, <3>1, DecideSerial
  <2>5. ~local[s].deleting => local[s].floor # Unread
    <3>1. ~local[s].deleting => local[s].floor = floorBidValue
      BY <1>2, <2>1, Zenon DEF SerialOK
    <3>2. floorBidValue # Unread
      BY <1>3 DEF Unread
    <3> QED
      BY <3>1, <3>2, Zenon
  <2>6. \/ local[s].deleting /\ bidValue = NoBids /\ Return(s, "done")
        \/ /\ IF local[s].deleting THEN bidValue # NoBids ELSE local[s].floor = Unread
           /\ local' = [local EXCEPT ![s].bids = bidValue]
           /\ Goto(s, "loadFloor")
        \/ /\ ~local[s].deleting /\ local[s].floor # Unread
           /\ Decide(s, bidValue, local[s].floor)
    BY <1>5, Zenon DEF LoadBids
  <2> QED
    BY <1>2, <2>2, <2>3, <2>4, <2>5, <2>6
<1> QED
  BY <1>4, <1>5

(***************************************************************************)
(* The HDELs: from the first on, until the COPY, the top bid may be the    *)
(* deleted one.                                                            *)
(***************************************************************************)
LEMMA DelSerial ==
    ASSUME IInv, SerialInv, Calm, NEW s \in Submissions, DelValue(s) \/ DelTime(s)
    PROVE  SerialInv'
<1> USE DEF topKeys, floorKeys, inputs
<1>1. pc[s] \in {"delValue", "delTime"} /\ pc[s] \in Steps
  BY DEF DelValue, DelTime, Steps
<1>2. SerialOK(s, pc[s], local[s]) /\ KeysOK(pc[s], local[s]) /\ local[s].deleting
      /\ msg[s].builder \in Builders /\ local = [local EXCEPT ![s] = local[s]]
  BY <1>1, SoloFacts, Current DEF SerialOK
<1>3. /\ UNCHANGED <<msg, load, payloads, latestBid, topBid, topBidValue, floorBid,
                     floorBidValue, local>>
      /\ \A b \in Builders : bidValue'[b] = bidValue[b] \/ bidValue'[b] = 0
  <2>1. bidValue \in [Builders -> Nat]
    BY Keys
  <2> QED
    BY <1>2, <2>1 DEF DelValue, DelTime, None
<1>4. PICK p \in {"delTime", "loadBids"} : pc' = [pc EXCEPT ![s] = p]
  BY DEF DelValue, DelTime, Goto
<1>6. PICK l : l = local[s]
  OBVIOUS
<1>7. SerialOK(s, p, l)'
  BY <1>2, <1>6 DEF SerialOK
<1>8. Deleting(p, l)'
  BY <1>2, <1>6 DEF Deleting
<1>9. KeysOK(p, l)'
  <2>1. /\ \A b \in Builders : bidValue[b] > 0 => bidValue[b] = ValueOf(latestBid[b])
        /\ floorBid # None => ~msg[floorBid].cancel
        /\ floorBidValue = ValueOf(floorBid)
    BY <1>1, <1>2 DEF KeysOK
  <2>2. \A b \in Builders : bidValue'[b] > 0 => bidValue'[b] = ValueOf(latestBid[b])'
    BY <1>3, <2>1 DEF ValueOf
  <2>3. floorBid' # None => ~msg'[floorBid'].cancel
    BY <1>3, <2>1
  <2>4. floorBidValue' = ValueOf(floorBid)'
    BY <1>3, <2>1 DEF ValueOf
  <2> QED
    BY <1>8, <2>2, <2>3, <2>4 DEF KeysOK
<1>10. local' = [local EXCEPT ![s] = l]
  BY <1>2, <1>3, <1>6
<1> QED
  BY <1>1, <1>3, <1>4, <1>7, <1>9, <1>10, SoloStep, Zenon DEF Steps

(***************************************************************************)
(* The bid _updateTopBid copies has the value it computes.                 *)
(***************************************************************************)
LEMMA CopiedIsBest ==
    ASSUME NEW s \in Submissions, NEW bids \in [Builders -> Nat], floorBidValue \in Nat,
           local[s].source \in Sources(bids, floorBidValue),
           NEW latest,
           \A b \in Builders : bids[b] > 0 => bids[b] = ValueOf(latest[b]),
           floorBidValue = ValueOf(floorBid)
    PROVE  ValueOf(CopySource(s, latest)) = Best(bids, floorBidValue)
<1>1. TopValue(bids) \in Nat
  BY TopValueIsBest
<1>2. CASE floorBidValue > TopValue(bids)
  <2>1. local[s].source = Floor /\ Best(bids, floorBidValue) = floorBidValue
    BY <1>1, <1>2 DEF Sources, Best, Greater
  <2> QED
    BY <2>1, Zenon DEF CopySource
<1>3. CASE ~(floorBidValue > TopValue(bids))
  <2>1. local[s].source \in TopBuilders(bids) /\ Best(bids, floorBidValue) = TopValue(bids)
    BY <1>1, <1>3 DEF Sources, Best, Greater
  <2>2. local[s].source \in Builders /\ bids[local[s].source] = TopValue(bids)
    BY <2>1, TopValueIsBest
  <2>3. bids[local[s].source] > 0
    BY <2>1, TopBuilderBids
  <2>4. local[s].source # Floor
    BY <2>2, FloorAssumption
  <2>5. CopySource(s, latest) = latest[local[s].source]
    BY <2>4 DEF CopySource
  <2> QED
    BY <2>1, <2>2, <2>3, <2>5
<1> QED
  BY <1>2, <1>3

(***************************************************************************)
(* The save leaves the best bid on top.                                    *)
(***************************************************************************)
LEMMA ExecSaveSerial ==
    ASSUME IInv, SerialInv, Calm, NEW s \in Submissions, ExecSave(s)
    PROVE  /\ SerialInv'
           /\ ValueOf(topBid)' = Best(After(s), floorBidValue)
           /\ bidValue' = After(s) /\ pc' = [pc EXCEPT ![s] = "setTopValue"]
<1> USE DEF floorKeys, inputs
<1>1. pc[s] = "execSave" /\ pc[s] \in Steps
  BY DEF ExecSave, Steps
<1>2. /\ SerialOK(s, "execSave", local[s]) /\ KeysOK("execSave", local[s])
      /\ ~local[s].deleting
      /\ msg[s].builder \in Builders /\ msg[s].value \in Nat /\ msg[s].value > 0
      /\ local = [local EXCEPT ![s] = local[s]]
      /\ msg[s].cancel \in BOOLEAN
  <2>1. SerialOK(s, "execSave", local[s]) /\ KeysOK("execSave", local[s])
    BY <1>1, SoloFacts, Zenon
  <2>2. ~local[s].deleting
    BY <2>1, Zenon DEF SerialOK
  <2>3. /\ msg[s].builder \in Builders /\ msg[s].value \in Values
        /\ local = [local EXCEPT ![s] = local[s]] /\ msg[s].cancel \in BOOLEAN
    BY <1>1, Current, Zenon
  <2>4. msg[s].value \in Nat /\ msg[s].value > 0
    BY <2>3, ValuesAssumption
  <2> QED
    BY <2>1, <2>2, <2>3, <2>4, Zenon
<1>3. /\ UNCHANGED <<msg, load, topBidValue, floorBid, floorBidValue, local>>
      /\ payloads' = payloads \cup {s}
      /\ latestBid' = [latestBid EXCEPT ![msg[s].builder] = s]
      /\ bidValue' = After(s)
  BY Zenon DEF ExecSave, After
<1>4. /\ bidValue \in [Builders -> Nat] /\ After(s) \in [Builders -> Nat]
      /\ latestBid \in [Builders -> Submissions \cup {None}]
      /\ floorBidValue \in Nat /\ floorBid \in payloads \cup {None}
      /\ s # None
  BY <1>2, Keys DEF After, Submissions, None
<1>5. CopySource(s, latestBid') # None
  <2>1. HandlerOK(s, "execSave", local[s]) /\ local[s].source \in Builders \cup {Floor}
    BY <1>1, Current, SMTT(30) DEF LocalType
  <2> QED
    BY <1>2, <1>3, <1>4, <2>1 DEF CopySource, HandlerOK
<1>6. topBid' = CopySource(s, latestBid') /\ pc' = [pc EXCEPT ![s] = "setTopValue"]
  BY <1>5, Zenon DEF ExecSave, CopyTop, Goto
<1>7. \A b \in Builders : After(s)[b] > 0 => After(s)[b] = ValueOf(latestBid'[b])
  <2>1. \A b \in Builders : bidValue[b] > 0 => bidValue[b] = ValueOf(latestBid[b])
    BY <1>2 DEF KeysOK
  <2> QED
    BY <1>2, <1>3, <1>4, <2>1 DEF After, ValueOf
<1>8. floorBidValue = ValueOf(floorBid) /\ (floorBid # None => ~msg[floorBid].cancel)
  BY <1>2 DEF KeysOK
<1>9. local[s].source \in Sources(After(s), floorBidValue)
      /\ local[s].top = Best(After(s), floorBidValue)
  BY <1>2 DEF SerialOK
<1>10. ValueOf(topBid)' = Best(After(s), floorBidValue)
  <2>1. ValueOf(CopySource(s, latestBid')) = Best(After(s), floorBidValue)
    BY <1>4, <1>7, <1>8, <1>9, CopiedIsBest
  <2> QED
    BY <1>3, <1>6, <2>1, Zenon DEF ValueOf
<1>11. PICK l : l = local[s]
  OBVIOUS
<1>12. Best(bidValue, floorBidValue)' = Best(After(s), floorBidValue)
  BY <1>3 DEF Best, Greater, TopValue, TopBuilders
<1>13. /\ bidValue'[msg[s].builder] = msg[s].value /\ latestBid'[msg[s].builder] = s
  BY <1>2, <1>3, <1>4 DEF After
<1>14. SerialOK(s, "setTopValue", l)'
  <2>1. /\ l.top = ValueOf(topBid)'
        /\ l.floor = floorBidValue'
        /\ ~msg'[s].cancel => msg'[s].value > floorBidValue'
    BY <1>2, <1>3, <1>9, <1>10, <1>11 DEF SerialOK
  <2> QED
    BY <1>3, <1>13, <2>1 DEF SerialOK
<1>15. KeysOK("setTopValue", l)'
  <2>1. \A b \in Builders : bidValue'[b] > 0 => bidValue'[b] = ValueOf(latestBid[b])'
    BY <1>3, <1>7 DEF ValueOf
  <2>2. floorBidValue' = ValueOf(floorBid)' /\ (floorBid' # None => ~msg'[floorBid'].cancel)
    BY <1>3, <1>8 DEF ValueOf
  <2> QED
    BY <1>10, <1>12, <2>1, <2>2 DEF KeysOK
<1>16. local' = [local EXCEPT ![s] = l]
  BY <1>2, <1>3, <1>11
<1>17. SerialInv'
  BY <1>1, <1>3, <1>6, <1>14, <1>15, <1>16, SoloStep, Zenon DEF Steps
<1> QED
  BY <1>3, <1>6, <1>10, <1>17

(***************************************************************************)
(* The COPY after a deletion restores the best bid.                        *)
(***************************************************************************)
LEMMA ExecCopyTopSerial ==
    ASSUME IInv, SerialInv, Calm, NEW s \in Submissions, ExecCopyTop(s)
    PROVE  /\ SerialInv'
           /\ ValueOf(topBid)' = Best(bidValue, floorBidValue)
           /\ pc' = [pc EXCEPT ![s] = "setTopValue"]
<1> USE DEF bidKeys, floorKeys, inputs
<1>1. pc[s] = "execCopyTop" /\ pc[s] \in Steps
  BY DEF ExecCopyTop, Steps
<1>2. /\ SerialOK(s, "execCopyTop", local[s]) /\ KeysOK("execCopyTop", local[s])
      /\ HandlerOK(s, "execCopyTop", local[s])
      /\ local = [local EXCEPT ![s] = local[s]]
      /\ local[s].source \in Builders \cup {Floor}
  BY <1>1, SoloFacts, Current, SMTT(30) DEF LocalType
<1>3. UNCHANGED <<msg, load, payloads, bidValue, latestBid, topBidValue, floorBid,
                  floorBidValue, local>>
  BY DEF ExecCopyTop
<1>4. bidValue \in [Builders -> Nat] /\ floorBidValue \in Nat
  BY Keys
<1>5. CopySource(s, latestBid) # None
  BY <1>2 DEF CopySource, HandlerOK
<1>6. topBid' = CopySource(s, latestBid) /\ pc' = [pc EXCEPT ![s] = "setTopValue"]
  BY <1>5 DEF ExecCopyTop, CopyTop, Goto
<1>7. /\ \A b \in Builders : bidValue[b] > 0 => bidValue[b] = ValueOf(latestBid[b])
      /\ floorBidValue = ValueOf(floorBid) /\ (floorBid # None => ~msg[floorBid].cancel)
  BY <1>2 DEF KeysOK
<1>8. /\ local[s].source \in Sources(bidValue, floorBidValue)
      /\ local[s].top = Best(bidValue, floorBidValue) /\ local[s].deleting
  BY <1>2 DEF SerialOK
<1>9. ValueOf(topBid)' = Best(bidValue, floorBidValue)
  <2>1. ValueOf(CopySource(s, latestBid)) = Best(bidValue, floorBidValue)
    BY <1>4, <1>7, <1>8, CopiedIsBest
  <2> QED
    BY <1>3, <1>6, <2>1, Zenon DEF ValueOf
<1>10. PICK l : l = local[s]
  OBVIOUS
<1>11. Best(bidValue, floorBidValue)' = Best(bidValue, floorBidValue)
  BY <1>3 DEF Best, Greater, TopValue, TopBuilders
<1>12. msg[s].cancel
  BY <1>2, <1>8 DEF HandlerOK
<1>13. SerialOK(s, "setTopValue", l)'
  BY <1>3, <1>8, <1>9, <1>10, <1>12 DEF SerialOK
<1>14. KeysOK("setTopValue", l)'
  <2>1. \A b \in Builders : bidValue'[b] > 0 => bidValue'[b] = ValueOf(latestBid[b])'
    BY <1>3, <1>7 DEF ValueOf
  <2>2. floorBidValue' = ValueOf(floorBid)' /\ (floorBid' # None => ~msg'[floorBid'].cancel)
    BY <1>3, <1>7 DEF ValueOf
  <2> QED
    BY <1>9, <1>11, <2>1, <2>2 DEF KeysOK
<1>15. local' = [local EXCEPT ![s] = l]
  BY <1>2, <1>3, <1>10
<1>16. SerialInv'
  BY <1>1, <1>3, <1>6, <1>13, <1>14, <1>15, SoloStep, Zenon DEF Steps
<1> QED
  BY <1>6, <1>9, <1>16

(***************************************************************************)
(* SET of the top value: it is the value of the bid just copied.           *)
(***************************************************************************)
LEMMA SetTopValueSerial ==
    ASSUME IInv, SerialInv, Calm, NEW s \in Submissions, SetTopValue(s)
    PROVE  SerialInv'
<1> USE DEF bidKeys, floorKeys, inputs
<1>1. pc[s] = "setTopValue" /\ pc[s] \in Steps
  BY DEF SetTopValue, Steps
<1>2. /\ SerialOK(s, "setTopValue", local[s]) /\ KeysOK("setTopValue", local[s])
      /\ local = [local EXCEPT ![s] = local[s]]
  BY <1>1, SoloFacts, Current, Zenon
<1>3. /\ UNCHANGED <<msg, load, payloads, bidValue, latestBid, topBid, floorBid, floorBidValue>>
      /\ topBidValue' = ValueOf(topBid)
  BY <1>2 DEF SetTopValue, SerialOK
<1>4. /\ \A b \in Builders : bidValue[b] > 0 => bidValue[b] = ValueOf(latestBid[b])
      /\ floorBidValue = ValueOf(floorBid) /\ (floorBid # None => ~msg[floorBid].cancel)
      /\ bidValue # NoBids => ValueOf(topBid) = Best(bidValue, floorBidValue)
  BY <1>2 DEF KeysOK, Deleting
<1>5. Best(bidValue, floorBidValue)' = Best(bidValue, floorBidValue)
  BY <1>3 DEF Best, Greater, TopValue, TopBuilders
<1>6. ASSUME NEW p \in {"copyFloor", "done"}, NEW l PROVE KeysOK(p, l)'
  <2>1. \A b \in Builders : bidValue'[b] > 0 => bidValue'[b] = ValueOf(latestBid[b])'
    BY <1>3, <1>4 DEF ValueOf
  <2>2. floorBidValue' = ValueOf(floorBid)' /\ (floorBid' # None => ~msg'[floorBid'].cancel)
    BY <1>3, <1>4 DEF ValueOf
  <2>3. ValueOf(topBid)' = ValueOf(topBid)
    BY <1>3 DEF ValueOf
  <2> QED
    BY <1>3, <1>4, <1>5, <2>1, <2>2, <2>3 DEF KeysOK
<1>7. CASE SetsFloor(s) /\ Goto(s, "copyFloor") /\ UNCHANGED local
  <2>1. PICK l : l = local[s]
    OBVIOUS
  <2>2. SerialOK(s, "copyFloor", l)'
    BY <1>2, <1>3, <1>7, <2>1 DEF SerialOK, SetsFloor
  <2>3. local' = [local EXCEPT ![s] = l] /\ pc' = [pc EXCEPT ![s] = "copyFloor"]
    BY <1>2, <1>7, <2>1 DEF Goto
  <2> QED
    BY <1>1, <1>3, <1>6, <2>2, <2>3, SoloStep, Zenon DEF Steps
<1>8. CASE Return(s, "done")
  <2>1. "done" \notin Steps
    BY DEF Steps
  <2> QED
    BY <1>1, <1>3, <1>6, <1>8, <2>1, SoloStep, Zenon DEF Return, Goto
<1> QED
  BY <1>7, <1>8 DEF SetTopValue

(***************************************************************************)
(* The COPY to the floor takes the header of this submission.              *)
(***************************************************************************)
LEMMA CopyFloorSerial ==
    ASSUME IInv, SerialInv, Calm, NEW s \in Submissions, CopyFloor(s)
    PROVE  SerialInv'
<1> USE DEF bidKeys, topKeys, inputs
<1>1. pc[s] = "copyFloor" /\ pc[s] \in Steps
  BY DEF CopyFloor, Steps
<1>2. /\ SerialOK(s, "copyFloor", local[s]) /\ KeysOK("copyFloor", local[s])
      /\ local = [local EXCEPT ![s] = local[s]]
  BY <1>1, SoloFacts, Current, Zenon
<1>3. /\ UNCHANGED <<msg, load, payloads, bidValue, latestBid, topBid, topBidValue,
                     floorBidValue, local>>
      /\ floorBid' = s /\ pc' = [pc EXCEPT ![s] = "setFloorValue"]
      /\ ~msg[s].cancel
  BY <1>2 DEF CopyFloor, SerialOK, Goto
<1>4. PICK l : l = local[s]
  OBVIOUS
<1>5. SerialOK(s, "setFloorValue", l)'
  BY <1>2, <1>3, <1>4 DEF SerialOK
<1>6. KeysOK("setFloorValue", l)'
  <2>1. /\ \A b \in Builders : bidValue[b] > 0 => bidValue[b] = ValueOf(latestBid[b])
        /\ bidValue # NoBids => /\ ValueOf(topBid) = Best(bidValue, floorBidValue)
                                /\ topBidValue = ValueOf(topBid)
    BY <1>2 DEF KeysOK, Deleting
  <2>2. Best(bidValue, floorBidValue)' = Best(bidValue, floorBidValue)
    BY <1>3 DEF Best, Greater, TopValue, TopBuilders
  <2>3. ValueOf(topBid)' = ValueOf(topBid)
    BY <1>3 DEF ValueOf
  <2>4. \A b \in Builders : bidValue'[b] > 0 => bidValue'[b] = ValueOf(latestBid[b])'
    BY <1>3, <2>1 DEF ValueOf
  <2> QED
    BY <1>3, <2>1, <2>2, <2>3, <2>4 DEF KeysOK
<1>7. local' = [local EXCEPT ![s] = l]
  BY <1>2, <1>3, <1>4
<1> QED
  BY <1>1, <1>3, <1>5, <1>6, <1>7, SoloStep, Zenon DEF Steps

(***************************************************************************)
(* SET of the floor value: the new floor is an active bid, so the top bid  *)
(* stays the best.                                                         *)
(***************************************************************************)
LEMMA SetFloorValueSerial ==
    ASSUME IInv, SerialInv, Calm, NEW s \in Submissions, SetFloorValue(s)
    PROVE  SerialInv'
<1> USE DEF bidKeys, topKeys, inputs
<1>1. pc[s] = "setFloorValue" /\ pc[s] \in Steps
  BY DEF SetFloorValue, Steps
<1>2. /\ SerialOK(s, "setFloorValue", local[s]) /\ KeysOK("setFloorValue", local[s])
      /\ msg[s].builder \in Builders /\ msg[s].value \in Nat /\ s # None
  BY <1>1, SoloFacts, Current, ValuesAssumption DEF Submissions, None
<1>3. /\ UNCHANGED <<msg, load, payloads, bidValue, latestBid, topBid, topBidValue, floorBid>>
      /\ floorBidValue' = msg[s].value
  BY DEF SetFloorValue
<1>4. /\ floorBid = s /\ ~msg[s].cancel
      /\ bidValue[msg[s].builder] = msg[s].value /\ msg[s].value > floorBidValue
  BY <1>2 DEF SerialOK
<1>5. bidValue \in [Builders -> Nat] /\ floorBidValue \in Nat
  BY Keys
<1>6. Best(bidValue, floorBidValue)' = Best(bidValue, floorBidValue)
  <2>1. TopValue(bidValue) \in Nat /\ msg[s].value <= TopValue(bidValue)
    BY <1>2, <1>4, <1>5, TopValueIsBest
  <2>2. TopValue(bidValue)' = TopValue(bidValue)
    BY <1>3 DEF TopValue, TopBuilders
  <2>3. Greater(TopValue(bidValue), floorBidValue) = TopValue(bidValue)
    BY <1>2, <1>4, <1>5, <2>1 DEF Greater
  <2>4. Greater(TopValue(bidValue), msg[s].value) = TopValue(bidValue)
    BY <1>2, <2>1 DEF Greater
  <2>5. Greater(TopValue(bidValue), floorBidValue)' = Greater(TopValue(bidValue), msg[s].value)
    BY <1>3, <2>2 DEF Greater
  <2> QED
    BY <2>3, <2>4, <2>5, Zenon DEF Best
<1>7. KeysOK("done", NoLocals)'
  <2>1. /\ \A b \in Builders : bidValue[b] > 0 => bidValue[b] = ValueOf(latestBid[b])
        /\ bidValue # NoBids => /\ ValueOf(topBid) = Best(bidValue, floorBidValue)
                                /\ topBidValue = ValueOf(topBid)
    BY <1>2 DEF KeysOK, Deleting
  <2>2. ValueOf(topBid)' = ValueOf(topBid)
    BY <1>3 DEF ValueOf
  <2>3. \A b \in Builders : bidValue'[b] > 0 => bidValue'[b] = ValueOf(latestBid[b])'
    BY <1>3, <2>1 DEF ValueOf
  <2>4. floorBidValue' = ValueOf(floorBid)'
    BY <1>2, <1>3, <1>4 DEF ValueOf
  <2> QED
    BY <1>3, <1>4, <1>6, <2>1, <2>2, <2>3, <2>4 DEF KeysOK
<1>8. "done" \notin Steps
  BY DEF Steps
<1> QED
  BY <1>1, <1>3, <1>7, <1>8, SoloStep, Zenon DEF SetFloorValue, Return, Goto

(***************************************************************************)
(* A submission starts only when no other one is in flight.                *)
(***************************************************************************)
LEMMA ReceiveSerial ==
    ASSUME IInv, SerialInv, Calm, NEW s \in Submissions, Receive(s)
    PROVE  SerialInv'
<1> USE DEF redis, bidKeys, topKeys, floorKeys
<1>1. /\ pc \in [Submissions -> Steps \cup {"new", "done", "refused"}]
      /\ msg \in [Submissions -> MessageType] /\ payloads \subseteq Submissions
  BY DEF IInv, TypeOK
<1>2. InFlight = {}
  <2>1. Cardinality(InFlight) < 1
    BY CalmMeans DEF Receive
  <2>2. IsFiniteSet(Submissions)
    BY FS_Interval, BoundsAssumption DEF Submissions
  <2>3. IsFiniteSet(InFlight)
    BY <2>2, FS_Subset DEF InFlight
  <2>4. Cardinality(InFlight) = 0
    BY <2>1, <2>3, FS_CardinalityType
  <2> QED
    BY <2>3, <2>4, FS_EmptySet
<1>3. /\ pc[s] = "new" /\ pc' = [pc EXCEPT ![s] = "checkDelivered"]
      /\ UNCHANGED <<bidValue, latestBid, payloads, topBid, topBidValue, floorBid,
                     floorBidValue, load, local>>
  BY DEF Receive, Goto
<1>4. \A t \in Submissions \ {s} : msg'[t] = msg[t]
  BY <1>1 DEF Receive
<1>5. payloads \subseteq Received /\ KeysOK("done", NoLocals)
  BY <1>2 DEF SerialInv
<1>6. s \notin payloads
  BY <1>3, <1>5 DEF Received
<1>8. InFlight' = {s} /\ payloads' \subseteq Received'
  BY <1>1, <1>2, <1>3, <1>5 DEF InFlight, Received, Steps
<1>9. ~local[s].deleting
  BY <1>3, Current DEF HandlerOK
<1>10. SerialOK(s, "checkDelivered", local[s])'
  BY <1>3, <1>9 DEF SerialOK
<1>11. pc'[s] = "checkDelivered"
  BY <1>1, <1>3
<1>12. SerialOK(s, pc[s], local[s])'
  BY <1>10, <1>11, Zenon
<1>13. KeysOK(pc[s], local[s])'
  <2>1. /\ \A b \in Builders : bidValue[b] > 0 => bidValue[b] = ValueOf(latestBid[b])
        /\ floorBid # None => ~msg[floorBid].cancel
        /\ floorBidValue = ValueOf(floorBid)
        /\ bidValue # NoBids => /\ ValueOf(topBid) = Best(bidValue, floorBidValue)
                                /\ topBidValue = ValueOf(topBid)
    BY <1>5 DEF KeysOK, Deleting
  <2>2. /\ topBid \in payloads \cup {None} /\ floorBid \in payloads \cup {None}
        /\ \A b \in Builders : latestBid[b] # None => latestBid[b] \in payloads
    BY Keys
  <2>3. Best(bidValue, floorBidValue)' = Best(bidValue, floorBidValue)
    BY <1>3 DEF Best, Greater, TopValue, TopBuilders
  <2>4. ValueOf(topBid)' = ValueOf(topBid) /\ ValueOf(floorBid)' = ValueOf(floorBid)
    BY <1>3, <1>4, <1>6, <2>2, Keys DEF ValueOf
  <2>5. \A b \in Builders : bidValue'[b] > 0 => bidValue'[b] = ValueOf(latestBid[b])'
    BY <1>3, <1>4, <1>6, <2>1, <2>2, Keys DEF ValueOf
  <2>6. floorBid' # None => ~msg'[floorBid'].cancel
    BY <1>3, <1>4, <1>6, <2>1, <2>2, Keys
  <2>7. ~Deleting(pc[s], local[s])'
    BY <1>11 DEF Deleting
  <2> QED
    BY <1>3, <1>11, <2>1, <2>3, <2>4, <2>5, <2>6, <2>7 DEF KeysOK
<1> QED
  BY <1>8, <1>12, <1>13, Zenon DEF SerialInv

(***************************************************************************)
(* Every step keeps the invariant of submissions that do not overlap.      *)
(***************************************************************************)
LEMMA SerialStep == IInv /\ SerialInv /\ [Next]_vars => SerialInv'
<1> SUFFICES ASSUME IInv, SerialInv, [Next]_vars, Calm' PROVE SerialInv'
  BY DEF SerialInv
<1>1. Calm
  BY LoadIsFixed DEF Calm
<1>2. ASSUME NEW s \in Submissions, Submission(s) PROVE SerialInv'
  <2>1. CASE Receive(s) \/ CheckDelivered(s) \/ CheckFloor(s) \/ Simulate(s) \/ CheckLatest(s)
    BY <1>1, <2>1, ReceiveSerial, CheckDeliveredSerial, CheckFloorSerial, SimulateSerial, Zenon
  <2>2. CASE DelValue(s) \/ DelTime(s) \/ LoadBids(s) \/ LoadFloor(s)
    BY <1>1, <2>2, DelSerial, LoadSerial, Zenon
  <2>3. CASE ExecSave(s) \/ ExecCopyTop(s) \/ SetTopValue(s) \/ CopyFloor(s) \/ SetFloorValue(s)
    BY <1>1, <2>3, ExecSaveSerial, ExecCopyTopSerial, SetTopValueSerial, CopyFloorSerial,
       SetFloorValueSerial, Zenon
  <2>4. ~Abort(s)
    BY <1>1, CalmMeans, Zenon DEF Abort
  <2> QED
    BY <1>2, <2>1, <2>2, <2>3, <2>4, Zenon DEF Submission
<1>3. CASE UNCHANGED <<redis, load, pc, msg, local>>
  <2> USE DEF redis, bidKeys, topKeys, floorKeys
  <2>1. InFlight' = InFlight /\ Received' = Received /\ payloads' = payloads
    BY <1>3 DEF InFlight, Received
  <2>2. ASSUME NEW p, NEW l, KeysOK(p, l) PROVE KeysOK(p, l)'
    BY <1>3, <2>2 DEF KeysOK, Best, ValueOf, Deleting
  <2>3. ASSUME NEW s, NEW p, NEW l, SerialOK(s, p, l) PROVE SerialOK(s, p, l)'
    BY <1>3, <2>3, Zenon DEF SerialOK, Best, After, ValueOf
  <2>4. ASSUME NEW s \in InFlight PROVE SerialOK(s, pc[s], local[s])' /\ KeysOK(pc[s], local[s])'
    <3>1. SerialOK(s, pc[s], local[s]) /\ KeysOK(pc[s], local[s])
      BY <1>1 DEF SerialInv
    <3>2. PICK p, l : p = pc[s] /\ l = local[s]
      OBVIOUS
    <3>3. SerialOK(s, p, l)' /\ KeysOK(p, l)'
      BY <2>2, <2>3, <3>1, <3>2
    <3>4. p = pc'[s] /\ l = local'[s]
      BY <1>3, <3>2
    <3> QED
      BY <3>3, <3>4, Zenon
  <2> QED
    BY <1>1, <2>1, <2>2, <2>4 DEF SerialInv
<1>4. CASE Deliver
  BY <1>3, <1>4 DEF Deliver
<1>5. CASE UNCHANGED vars
  BY <1>3, <1>5 DEF vars, redis, bidKeys, topKeys, floorKeys
<1> QED
  BY <1>2, <1>4, <1>5 DEF Next

(***************************************************************************)
(* The invariant holds in every reachable state.                           *)
(***************************************************************************)
LEMMA SerialInvariance == Spec => []SerialInv
<1>1. Init => SerialInv
  <2> SUFFICES ASSUME Init PROVE SerialInv
    OBVIOUS
  <2>1. InFlight = {} /\ payloads = {}
    BY DEF Init, InFlight, Steps
  <2>2. KeysOK("done", NoLocals)
    BY DEF Init, KeysOK, NoBids, ValueOf, None
  <2> QED
    BY <2>1, <2>2 DEF SerialInv
<1> QED
  BY <1>1, SerialStep, Invariance, PTL DEF Spec

(***************************************************************************)
(* Between submissions that do not overlap, the served header is the best  *)
(* of the active bids and the floor and keyTopBidValue is its value, and   *)
(* the floor keys describe one non-cancellable bid: for any number of      *)
(* builders, values and submissions.                                       *)
(***************************************************************************)
THEOREM BestBidIsServed == Spec => []TopIsBest
<1>1. SerialInv => TopIsBest
  <2> SUFFICES ASSUME SerialInv, Calm, InFlight = {}
               PROVE  /\ bidValue # NoBids =>
                           /\ ValueOf(topBid) = Greater(TopValue(bidValue), floorBidValue)
                           /\ topBidValue = ValueOf(topBid)
                      /\ floorBidValue = ValueOf(floorBid)
                      /\ floorBid # None => ~msg[floorBid].cancel
    BY Zenon DEF TopIsBest
  <2>1. KeysOK("done", NoLocals)
    BY DEF SerialInv
  <2> QED
    BY <2>1 DEF KeysOK, Deleting, Best
<1> QED
  BY <1>1, SerialInvariance, PTL

(***************************************************************************)
(* The abstract auction's view of a state with one handler.                *)
(***************************************************************************)
LEMMA SoloView ==
    ASSUME NEW s \in Submissions, \A t \in Submissions \ {s} : pc[t] \notin Steps
    PROVE  /\ PromisedFloor = IF RaisesFloor(s) THEN msg[s].value ELSE floorBidValue
           /\ PromisedTop = IF bidValue # NoBids /\ Deleting(pc[s], local[s])
                            THEN Best(bidValue, floorBidValue) ELSE ValueOf(topBid)
<1>1. \A t \in Submissions \ {s} : ~RaisesFloor(t) /\ ~Deletes(t)
  BY DEF RaisesFloor, Deletes, Steps
<1>2. PromisedFloor = IF RaisesFloor(s) THEN msg[s].value ELSE floorBidValue
  <2>1. CASE RaisesFloor(s)
    <3>1. (CHOOSE t \in Submissions : RaisesFloor(t)) = s
      BY <1>1, <2>1
    <3> QED
      BY <2>1, <3>1, Zenon DEF PromisedFloor
  <2>2. CASE ~RaisesFloor(s)
    BY <1>1, <2>2 DEF PromisedFloor
  <2> QED
    BY <2>1, <2>2
<1>3. (\E t \in Submissions : Deletes(t)) <=> Deleting(pc[s], local[s])
  BY <1>1 DEF Deletes, Deleting
<1>4. PromisedTop = IF bidValue # NoBids /\ Deleting(pc[s], local[s])
                    THEN Best(bidValue, floorBidValue) ELSE ValueOf(topBid)
  BY <1>3, Zenon DEF PromisedTop, Best
<1> QED
  BY <1>2, <1>4

(***************************************************************************)
(* The same one step later.                                                *)
(***************************************************************************)
LEMMA SoloViewNext ==
    ASSUME NEW s \in Submissions, \A t \in Submissions \ {s} : pc'[t] \notin Steps
    PROVE  /\ PromisedFloor' = IF RaisesFloor(s)' THEN msg'[s].value ELSE floorBidValue'
           /\ PromisedTop' = IF bidValue' # NoBids /\ Deleting(pc[s], local[s])'
                             THEN Best(bidValue, floorBidValue)' ELSE ValueOf(topBid)'
<1>1. \A t \in Submissions \ {s} : ~RaisesFloor(t)' /\ ~Deletes(t)'
  BY DEF RaisesFloor, Deletes, Steps
<1>2. PromisedFloor' = IF RaisesFloor(s)' THEN msg'[s].value ELSE floorBidValue'
  <2>1. CASE RaisesFloor(s)'
    <3>1. (CHOOSE t \in Submissions : RaisesFloor(t)')= s
      BY <1>1, <2>1
    <3> QED
      BY <2>1, <3>1, Zenon DEF PromisedFloor
  <2>2. CASE ~RaisesFloor(s)'
    BY <1>1, <2>2 DEF PromisedFloor
  <2> QED
    BY <2>1, <2>2
<1>3. (\E t \in Submissions : Deletes(t)') <=> Deleting(pc[s], local[s])'
  BY <1>1 DEF Deletes, Deleting
<1>4. PromisedTop' = IF bidValue' # NoBids /\ Deleting(pc[s], local[s])'
                     THEN Best(bidValue, floorBidValue)' ELSE ValueOf(topBid)'
  BY <1>3, Zenon DEF PromisedTop, Best
<1> QED
  BY <1>2, <1>4

(***************************************************************************)
(* A step that changes neither the bids nor the promised floor and top is  *)
(* a stuttering step of the abstract auction.                              *)
(***************************************************************************)
LEMMA Stutter ==
    ASSUME Calm, Calm', bidValue' = bidValue, PromisedFloor' = PromisedFloor,
           PromisedTop' = PromisedTop
    PROVE  UNCHANGED Promise!vars
BY DEF Promise!vars

(***************************************************************************)
(* The value _updateTopBid computes is the best of the bids and the floor. *)
(***************************************************************************)
LEMMA BestIsBest ==
    ASSUME NEW bids \in [Builders -> Nat], NEW floor \in Nat
    PROVE  Promise!IsBest(Best(bids, floor), bids, floor)
<1>1. /\ TopValue(bids) \in Nat
      /\ \A b \in Builders : bids[b] <= TopValue(bids)
      /\ TopValue(bids) > 0 => \E b \in Builders : bids[b] = TopValue(bids)
  BY TopValueIsBest
<1>2. CASE TopValue(bids) > floor
  <2>1. Best(bids, floor) = TopValue(bids)
    BY <1>2 DEF Best, Greater
  <2> QED
    BY <1>1, <1>2, <2>1 DEF Promise!IsBest
<1>3. CASE ~(TopValue(bids) > floor)
  <2>1. Best(bids, floor) = floor
    BY <1>3 DEF Best, Greater
  <2> QED
    BY <1>1, <1>3, <2>1 DEF Promise!IsBest
<1> QED
  BY <1>2, <1>3

(***************************************************************************)
(* The submissions other than the only handler are not in flight, before   *)
(* and after its step.                                                     *)
(***************************************************************************)
LEMMA OthersIdle ==
    ASSUME IInv, SerialInv, Calm, NEW s \in Submissions, pc[s] \in Steps, NEW p,
           pc' = [pc EXCEPT ![s] = p]
    PROVE  /\ \A t \in Submissions \ {s} : pc[t] \notin Steps /\ pc'[t] \notin Steps
           /\ pc'[s] = p
<1>1. pc \in [Submissions -> Steps \cup {"new", "done", "refused"}]
  BY DEF IInv, TypeOK
<1>2. \A t \in Submissions \ {s} : pc[t] \notin Steps
  BY SoloFacts
<1> QED
  BY <1>1, <1>2

(***************************************************************************)
(* The steps that raise the floor.                                         *)
(***************************************************************************)
FloorSteps == {"setTopValue", "copyFloor", "setFloorValue"}

(***************************************************************************)
(* Reads of the only handler are stuttering steps.                         *)
(***************************************************************************)
LEMMA ReadStutters ==
    ASSUME IInv, SerialInv, Calm, Calm', NEW s \in Submissions, pc[s] \in Steps \ FloorSteps,
           NEW p, p \notin FloorSteps, NEW l,
           pc' = [pc EXCEPT ![s] = p], local' = [local EXCEPT ![s] = l],
           UNCHANGED <<redis, inputs>>,
           bidValue # NoBids => (Deleting(pc[s], local[s]) <=> Deleting(p, l))
    PROVE  UNCHANGED Promise!vars
<1> USE DEF redis, bidKeys, topKeys, floorKeys, inputs
<1>1. /\ \A t \in Submissions \ {s} : pc[t] \notin Steps /\ pc'[t] \notin Steps
      /\ pc'[s] = p
  BY OthersIdle, Zenon
<1>2. local'[s] = l
  BY DEF IInv, TypeOK
<1>3. ~RaisesFloor(s) /\ ~RaisesFloor(s)'
  BY <1>1 DEF RaisesFloor, FloorSteps
<1>4. Deleting(pc[s], local[s])' <=> Deleting(p, l)
  BY <1>1, <1>2 DEF Deleting
<1>5. Best(bidValue, floorBidValue)' = Best(bidValue, floorBidValue)
      /\ ValueOf(topBid)' = ValueOf(topBid)
  BY DEF Best, Greater, TopValue, TopBuilders, ValueOf
<1>6. PromisedFloor = floorBidValue /\ PromisedFloor' = floorBidValue'
  BY <1>1, <1>3, SoloView, SoloViewNext, Zenon
<1>7. /\ PromisedTop = IF bidValue # NoBids /\ Deleting(pc[s], local[s])
                       THEN Best(bidValue, floorBidValue) ELSE ValueOf(topBid)
      /\ PromisedTop' = IF bidValue' # NoBids /\ Deleting(pc[s], local[s])'
                        THEN Best(bidValue, floorBidValue)' ELSE ValueOf(topBid)'
  BY <1>1, SoloView, SoloViewNext, Zenon
<1>8. PromisedTop' = PromisedTop
  BY <1>4, <1>5, <1>7
<1> QED
  BY <1>6, <1>8, Stutter

(***************************************************************************)
(* The checks before anything is written.                                  *)
(***************************************************************************)
LEMMA ChecksStutter ==
    ASSUME IInv, SerialInv, Calm, Calm', NEW s \in Submissions,
           CheckDelivered(s) \/ CheckFloor(s) \/ Simulate(s) \/ CheckLatest(s)
    PROVE  UNCHANGED Promise!vars
<1>1. /\ pc[s] \in {"checkDelivered", "checkFloor", "simulate", "checkLatest"}
      /\ pc[s] \in Steps \ FloorSteps /\ UNCHANGED <<redis, inputs>>
  BY DEF CheckDelivered, CheckFloor, Simulate, CheckLatest, Steps, FloorSteps, inputs
<1>2. ~Deleting(pc[s], local[s]) /\ ~local[s].deleting
      /\ local = [local EXCEPT ![s] = local[s]] /\ local[s] \in LocalType
  BY <1>1, SoloFacts, Current DEF Deleting, SerialOK
<1>3. ASSUME NEW p, p \notin FloorSteps, NEW l, ~Deleting(p, l),
             pc' = [pc EXCEPT ![s] = p], local' = [local EXCEPT ![s] = l]
      PROVE  UNCHANGED Promise!vars
  BY <1>1, <1>2, <1>3, ReadStutters, Zenon
<1>4. CASE \E o \in {"done", "refused"} : Return(s, o)
  <2>1. PICK o \in {"done", "refused"} : Return(s, o)
    BY <1>4
  <2>2. o \notin FloorSteps /\ ~Deleting(o, NoLocals)
    BY DEF FloorSteps, Deleting
  <2> QED
    BY <1>3, <2>1, <2>2, Zenon DEF Return, Goto
<1>5. CASE \E p \in {"checkFloor", "checkLatest", "loadBids"} : Goto(s, p) /\ UNCHANGED local
  <2>1. PICK p \in {"checkFloor", "checkLatest", "loadBids"} : Goto(s, p) /\ UNCHANGED local
    BY <1>5
  <2>2. p \notin FloorSteps /\ ~Deleting(p, local[s])
    BY <1>2 DEF FloorSteps, Deleting
  <2>3. local' = [local EXCEPT ![s] = local[s]] /\ pc' = [pc EXCEPT ![s] = p]
    BY <1>2, <2>1 DEF Goto
  <2> QED
    BY <1>3, <2>2, <2>3, Zenon
<1>6. CASE local' = [local EXCEPT ![s].deleting = TRUE] /\ Goto(s, "delValue")
  <2>1. "delValue" \notin FloorSteps /\ ~Deleting("delValue", [local[s] EXCEPT !.deleting = TRUE])
    BY DEF FloorSteps, Deleting
  <2> QED
    BY <1>3, <1>6, <2>1, Zenon DEF Goto
<1>7. CASE (\E f : local' = [local EXCEPT ![s].floor = f]) /\ Goto(s, "simulate")
  <2>1. PICK f : local' = [local EXCEPT ![s].floor = f]
    BY <1>7, Zenon
  <2>2. "simulate" \notin FloorSteps /\ ~Deleting("simulate", [local[s] EXCEPT !.floor = f])
    BY DEF FloorSteps, Deleting
  <2> QED
    BY <1>3, <1>7, <2>1, <2>2, Zenon DEF Goto
<1>8. CASE CheckFloor(s)
  BY <1>4, <1>6, <1>7, <1>8, Zenon DEF CheckFloor
<1>9. CASE CheckDelivered(s) \/ Simulate(s) \/ CheckLatest(s)
  BY <1>4, <1>5, <1>9, Zenon DEF CheckDelivered, Simulate, CheckLatest
<1> QED
  BY <1>8, <1>9

(***************************************************************************)
(* Loading the bids and the floor.                                         *)
(***************************************************************************)
LEMMA LoadStutters ==
    ASSUME IInv, SerialInv, Calm, Calm', NEW s \in Submissions, LoadBids(s) \/ LoadFloor(s)
    PROVE  UNCHANGED Promise!vars
<1>1. /\ pc[s] \in {"loadBids", "loadFloor"}
      /\ pc[s] \in Steps \ FloorSteps /\ UNCHANGED <<redis, inputs>>
  BY DEF LoadBids, LoadFloor, Steps, FloorSteps, inputs
<1>2. /\ SerialOK(s, pc[s], local[s]) /\ local[s] \in LocalType /\ local[s].deleting \in BOOLEAN
      /\ pc[s] = "loadFloor" => local[s].deleting
      /\ Deleting(pc[s], local[s]) <=> local[s].deleting
  BY <1>1, SoloFacts, Current DEF LocalType, SerialOK, Deleting
<1>3. ASSUME NEW p, p \notin FloorSteps, NEW l,
             bidValue # NoBids => (Deleting(p, l) <=> local[s].deleting),
             pc' = [pc EXCEPT ![s] = p], local' = [local EXCEPT ![s] = l]
      PROVE  UNCHANGED Promise!vars
  BY <1>1, <1>2, <1>3, ReadStutters, Zenon
<1>4. CASE (local[s].deleting => bidValue = NoBids) /\ Return(s, "done")
  <2>1. "done" \notin FloorSteps /\ ~Deleting("done", NoLocals)
    BY DEF FloorSteps, Deleting
  <2> QED
    BY <1>2, <1>3, <1>4, <2>1, Zenon DEF Return, Goto
<1>5. CASE /\ local[s].deleting /\ local' = [local EXCEPT ![s].bids = bidValue]
           /\ Goto(s, "loadFloor")
  <2> DEFINE l == [local[s] EXCEPT !.bids = bidValue]
  <2>1. l.deleting = local[s].deleting
    BY <1>2 DEF LocalType
  <2>2. "loadFloor" \notin FloorSteps /\ Deleting("loadFloor", l)
    BY <1>5, <2>1 DEF FloorSteps, Deleting
  <2>3. local' = [local EXCEPT ![s] = l] /\ pc' = [pc EXCEPT ![s] = "loadFloor"]
    BY <1>5 DEF Goto
  <2> HIDE DEF l
  <2> QED
    BY <1>3, <1>5, <2>2, <2>3, Zenon
<1>6. ASSUME NEW bids, NEW floor, Decide(s, bids, floor) PROVE UNCHANGED Promise!vars
  <2>1. CASE ~local[s].deleting /\ Return(s, "done")
    BY <1>4, <2>1
  <2>2. CASE ~(~local[s].deleting /\ Return(s, "done"))
    <3>1. \E l : l.deleting = local[s].deleting /\ local' = [local EXCEPT ![s] = l]
      <4>1. \E src, top :
              local' = [local EXCEPT ![s] =
                          [deleting |-> local[s].deleting, floor |-> floor,
                           bids |-> NoBids, source |-> src, top |-> top]]
        BY <1>6, <2>2, Zenon DEF Decide
      <4> QED
        BY <4>1, Zenon
    <3>2. PICK l : l.deleting = local[s].deleting /\ local' = [local EXCEPT ![s] = l]
      BY <3>1, Zenon
    <3>3. PICK p : p = IF local[s].deleting THEN "execCopyTop" ELSE "execSave"
      OBVIOUS
    <3>4. pc' = [pc EXCEPT ![s] = p]
      BY <1>6, <2>2, <3>3 DEF Decide, Goto
    <3>5. p \notin FloorSteps /\ (Deleting(p, l) <=> local[s].deleting)
      BY <1>2, <3>2, <3>3 DEF FloorSteps, Deleting
    <3> QED
      BY <1>3, <3>2, <3>4, <3>5, Zenon
  <2> QED
    BY <2>1, <2>2
<1>7. CASE LoadFloor(s)
  BY <1>6, <1>7 DEF LoadFloor
<1>8. CASE LoadBids(s)
  <2>1. pc[s] = "loadBids" /\ floorBidValue \in Nat
    BY <1>8, Keys DEF LoadBids
  <2>2. ~local[s].deleting => local[s].floor # Unread
    <3>1. ~local[s].deleting => local[s].floor = floorBidValue
      BY <1>2, <2>1, Zenon DEF SerialOK
    <3>2. floorBidValue # Unread
      BY <2>1 DEF Unread
    <3> QED
      BY <3>1, <3>2, Zenon
  <2>3. \/ local[s].deleting /\ bidValue = NoBids /\ Return(s, "done")
        \/ /\ IF local[s].deleting THEN bidValue # NoBids ELSE local[s].floor = Unread
           /\ local' = [local EXCEPT ![s].bids = bidValue]
           /\ Goto(s, "loadFloor")
        \/ /\ ~local[s].deleting /\ local[s].floor # Unread
           /\ Decide(s, bidValue, local[s].floor)
    BY <1>8, Zenon DEF LoadBids
  <2> QED
    BY <1>2, <1>4, <1>5, <1>6, <2>2, <2>3
<1> QED
  BY <1>7, <1>8

(***************************************************************************)
(* HDEL of the value withdraws the builder's bid.                          *)
(***************************************************************************)
LEMMA DelValueWithdraws ==
    ASSUME IInv, SerialInv, Calm, Calm', NEW s \in Submissions, DelValue(s)
    PROVE  Promise!Next
<1> USE DEF topKeys, floorKeys, inputs
<1>1. pc[s] = "delValue" /\ pc[s] \in Steps /\ pc' = [pc EXCEPT ![s] = "delTime"]
  BY DEF DelValue, Steps, Goto
<1>2. /\ \A t \in Submissions \ {s} : pc[t] \notin Steps /\ pc'[t] \notin Steps
      /\ pc'[s] = "delTime"
  BY <1>1, OthersIdle, Zenon
<1>3. local[s].deleting /\ msg[s].value < floorBidValue
  BY <1>1, SoloFacts, Zenon DEF SerialOK
<1>4. /\ msg[s].builder \in Builders /\ msg[s].value \in Nat
      /\ bidValue \in [Builders -> Nat] /\ floorBidValue \in Nat
  BY <1>1, Current, Keys, ValuesAssumption
<1>5. /\ UNCHANGED <<msg, topBid, floorBidValue, local>>
      /\ bidValue' = [bidValue EXCEPT ![msg[s].builder] = 0]
  BY DEF DelValue, None
<1>6. /\ ~RaisesFloor(s) /\ ~RaisesFloor(s)'
      /\ ~Deleting(pc[s], local[s]) /\ Deleting(pc[s], local[s])'
  BY <1>1, <1>2, <1>3, <1>5 DEF RaisesFloor, Deleting
<1>7. PromisedFloor = floorBidValue /\ PromisedFloor' = floorBidValue
      /\ PromisedTop = ValueOf(topBid)
  BY <1>2, <1>5, <1>6, SoloView, SoloViewNext, Zenon
<1>8. PromisedTop' = IF bidValue' # NoBids THEN Best(bidValue, floorBidValue)' ELSE ValueOf(topBid)'
  BY <1>2, <1>6, SoloViewNext, Zenon
<1>9. ValueOf(topBid)' = ValueOf(topBid)
  BY <1>5 DEF ValueOf
<1>10. bidValue' \in [Builders -> Nat]
  BY <1>4, <1>5
<1>11. bidValue' = NoBids <=> \A c \in Builders : bidValue'[c] = 0
  BY <1>10 DEF NoBids, None
<1>12. bidValue' # NoBids => Promise!IsBest(PromisedTop', bidValue', floorBidValue)
  <2> SUFFICES ASSUME bidValue' # NoBids
               PROVE  Promise!IsBest(PromisedTop', bidValue', floorBidValue)
    OBVIOUS
  <2>1. PICK bids \in [Builders -> Nat] : bids = bidValue'
    BY <1>10
  <2>2. PromisedTop' = Best(bids, floorBidValue)
    <3>1. Best(bidValue, floorBidValue)' = Best(bidValue', floorBidValue')
      BY DEF Best, Greater, TopValue, TopBuilders
    <3> QED
      BY <1>5, <1>8, <2>1, <3>1, Zenon
  <2> QED
    BY <1>4, <2>1, <2>2, BestIsBest
<1>13. Promise!Withdraw(msg[s].builder)
  <2>1. floorBidValue > 0
    BY <1>3, <1>4
  <2>2. CASE \A c \in Builders : bidValue'[c] = 0
    BY <1>5, <1>7, <1>8, <1>9, <1>11, <2>1, <2>2 DEF Promise!Withdraw
  <2>3. CASE ~\A c \in Builders : bidValue'[c] = 0
    BY <1>5, <1>7, <1>11, <1>12, <2>1, <2>3 DEF Promise!Withdraw
  <2> QED
    BY <2>2, <2>3
<1> QED
  BY <1>4, <1>13 DEF Promise!Next

(***************************************************************************)
(* The rest of a deletion is not seen by the abstract auction.             *)
(***************************************************************************)
LEMMA DelTimeStutters ==
    ASSUME IInv, SerialInv, Calm, Calm', NEW s \in Submissions, DelTime(s)
    PROVE  UNCHANGED Promise!vars
<1> USE DEF topKeys, floorKeys, inputs
<1>1. pc[s] = "delTime" /\ pc[s] \in Steps /\ pc' = [pc EXCEPT ![s] = "loadBids"]
  BY DEF DelTime, Steps, Goto
<1>2. /\ \A t \in Submissions \ {s} : pc[t] \notin Steps /\ pc'[t] \notin Steps
      /\ pc'[s] = "loadBids"
  BY <1>1, OthersIdle, Zenon
<1>3. local[s].deleting
  BY <1>1, SoloFacts DEF SerialOK
<1>4. UNCHANGED <<msg, bidValue, topBid, floorBidValue, local>>
  BY DEF DelTime
<1>5. /\ ~RaisesFloor(s) /\ ~RaisesFloor(s)'
      /\ Deleting(pc[s], local[s]) /\ Deleting(pc[s], local[s])'
  BY <1>1, <1>2, <1>3, <1>4 DEF RaisesFloor, Deleting
<1>6. PromisedFloor = floorBidValue /\ PromisedFloor' = floorBidValue'
  BY <1>2, <1>5, SoloView, SoloViewNext, Zenon
<1>7. /\ PromisedTop = IF bidValue # NoBids THEN Best(bidValue, floorBidValue) ELSE ValueOf(topBid)
      /\ PromisedTop' = IF bidValue' # NoBids THEN Best(bidValue, floorBidValue)' ELSE ValueOf(topBid)'
  BY <1>2, <1>5, SoloView, SoloViewNext, Zenon
<1>8. Best(bidValue, floorBidValue)' = Best(bidValue, floorBidValue)
      /\ ValueOf(topBid)' = ValueOf(topBid)
  BY <1>4 DEF Best, Greater, TopValue, TopBuilders, ValueOf
<1> QED
  BY <1>4, <1>6, <1>7, <1>8, Stutter

(***************************************************************************)
(* The COPY after a deletion serves what was promised at the HDEL.         *)
(***************************************************************************)
LEMMA ExecCopyTopStutters ==
    ASSUME IInv, SerialInv, Calm, Calm', NEW s \in Submissions, ExecCopyTop(s)
    PROVE  UNCHANGED Promise!vars
<1> USE DEF bidKeys, floorKeys, inputs
<1>1. /\ pc[s] = "execCopyTop" /\ pc[s] \in Steps /\ pc' = [pc EXCEPT ![s] = "setTopValue"]
      /\ ValueOf(topBid)' = Best(bidValue, floorBidValue)
  BY ExecCopyTopSerial DEF ExecCopyTop, Steps
<1>2. /\ \A t \in Submissions \ {s} : pc[t] \notin Steps /\ pc'[t] \notin Steps
      /\ pc'[s] = "setTopValue"
  BY <1>1, OthersIdle, Zenon
<1>3. local[s].deleting /\ bidValue # NoBids /\ msg[s].cancel
  <2>1. local[s].deleting /\ bidValue # NoBids
    BY <1>1, SoloFacts DEF SerialOK
  <2> QED
    BY <2>1, Current DEF HandlerOK
<1>4. UNCHANGED <<msg, bidValue, floorBidValue, local>>
  BY DEF ExecCopyTop
<1>5. /\ ~RaisesFloor(s) /\ ~RaisesFloor(s)'
      /\ Deleting(pc[s], local[s]) /\ ~Deleting(pc[s], local[s])'
  BY <1>1, <1>2, <1>3, <1>4, Zenon DEF RaisesFloor, Deleting, SetsFloor
<1>6. PromisedFloor = floorBidValue /\ PromisedFloor' = floorBidValue'
  BY <1>2, <1>5, SoloView, SoloViewNext, Zenon
<1>7. PromisedTop = Best(bidValue, floorBidValue) /\ PromisedTop' = ValueOf(topBid)'
  BY <1>2, <1>3, <1>5, SoloView, SoloViewNext, Zenon
<1> QED
  BY <1>1, <1>4, <1>6, <1>7, Stutter

(***************************************************************************)
(* The transaction of a save is the bid, firm or cancellable.              *)
(***************************************************************************)
LEMMA ExecSaveBids ==
    ASSUME IInv, SerialInv, Calm, Calm', NEW s \in Submissions, ExecSave(s)
    PROVE  Promise!Next
<1> USE DEF floorKeys, inputs
<1>1. /\ pc[s] = "execSave" /\ pc[s] \in Steps /\ pc' = [pc EXCEPT ![s] = "setTopValue"]
      /\ ValueOf(topBid)' = Best(After(s), floorBidValue)
      /\ bidValue' = After(s)
  BY ExecSaveSerial, Zenon DEF ExecSave, Steps
<1>2. /\ \A t \in Submissions \ {s} : pc[t] \notin Steps /\ pc'[t] \notin Steps
      /\ pc'[s] = "setTopValue"
  BY <1>1, OthersIdle, Zenon
<1>3. /\ ~local[s].deleting /\ local[s].floor = floorBidValue
      /\ msg[s].value >= floorBidValue
      /\ ~msg[s].cancel => msg[s].value > floorBidValue
  BY <1>1, SoloFacts, Zenon DEF SerialOK
<1>4. /\ msg[s].builder \in Builders /\ msg[s].value \in Nat /\ msg[s].value \in Values
      /\ bidValue \in [Builders -> Nat] /\ floorBidValue \in Nat
      /\ msg[s].cancel \in BOOLEAN
  BY <1>1, Current, Keys, ValuesAssumption
<1>5. UNCHANGED <<msg, floorBidValue, local>>
  BY Zenon DEF ExecSave
<1>6. After(s) \in [Builders -> Nat] /\ After(s)[msg[s].builder] = msg[s].value
      /\ After(s) = [bidValue EXCEPT ![msg[s].builder] = msg[s].value]
  BY <1>4 DEF After
<1>7. /\ ~RaisesFloor(s) /\ (RaisesFloor(s)' <=> ~msg[s].cancel)
      /\ ~Deleting(pc[s], local[s]) /\ ~Deleting(pc[s], local[s])'
  <2>1. SetsFloor(s) <=> ~msg[s].cancel
    BY <1>3, <1>4, AboveFloor, Zenon DEF SetsFloor
  <2>2. SetsFloor(s)' <=> SetsFloor(s)
    BY <1>5, Zenon DEF SetsFloor
  <2>3. ~Deleting(pc[s], local[s]) /\ ~Deleting(pc[s], local[s])'
    BY <1>3, <1>5, Zenon DEF Deleting
  <2> QED
    BY <1>1, <1>2, <2>1, <2>2, <2>3, Zenon DEF RaisesFloor
<1>8. /\ PromisedFloor = floorBidValue
      /\ PromisedFloor' = IF msg[s].cancel THEN floorBidValue ELSE msg[s].value
  <2>1. PromisedFloor = IF RaisesFloor(s) THEN msg[s].value ELSE floorBidValue
    BY <1>2, SoloView, Zenon
  <2>2. PromisedFloor' = IF RaisesFloor(s)' THEN msg'[s].value ELSE floorBidValue'
    BY <1>2, SoloViewNext, Zenon
  <2> QED
    BY <1>4, <1>5, <1>7, <2>1, <2>2
<1>9. PromisedTop' = Best(After(s), floorBidValue)
  BY <1>1, <1>2, <1>7, SoloViewNext, Zenon
<1>10. PICK bids \in [Builders -> Nat] : bids = After(s)
  BY <1>6
<1>11. CASE msg[s].cancel
  <2>1. Promise!IsBest(PromisedTop', bidValue', floorBidValue)
    BY <1>1, <1>4, <1>9, <1>10, BestIsBest
  <2>2. Promise!CancellableBid(msg[s].builder, msg[s].value)
    BY <1>1, <1>3, <1>6, <1>8, <1>11, <2>1 DEF Promise!CancellableBid
  <2> QED
    BY <1>4, <2>2 DEF Promise!Next
<1>12. CASE ~msg[s].cancel
  <2>1. TopValue(bids) \in Nat /\ msg[s].value <= TopValue(bids)
    BY <1>4, <1>6, <1>10, TopValueIsBest, Zenon
  <2>2. Best(bids, floorBidValue) = Best(bids, msg[s].value)
    <3>1. msg[s].value > floorBidValue
      BY <1>3, <1>12, Zenon
    <3>2. floorBidValue < msg[s].value
      BY <1>4, <3>1
    <3> QED
      BY <1>4, <2>1, <3>2, BestAboveFloors, Zenon
  <2>3. Promise!IsBest(PromisedTop', bidValue', msg[s].value)
    BY <1>1, <1>4, <1>9, <1>10, <2>2, BestIsBest
  <2>4. Promise!FirmBid(msg[s].builder, msg[s].value)
    BY <1>1, <1>3, <1>6, <1>8, <1>12, <2>3, Zenon DEF Promise!FirmBid
  <2> QED
    BY <1>4, <2>4 DEF Promise!Next
<1> QED
  BY <1>4, <1>11, <1>12

(***************************************************************************)
(* The SETs and the COPY after the transaction are not seen: the floor was *)
(* promised at the save.                                                   *)
(***************************************************************************)
LEMMA FloorStutters ==
    ASSUME IInv, SerialInv, Calm, Calm', NEW s \in Submissions,
           SetTopValue(s) \/ CopyFloor(s) \/ SetFloorValue(s)
    PROVE  UNCHANGED Promise!vars
<1> USE DEF bidKeys, topKeys, floorKeys, inputs
<1>1. pc[s] \in FloorSteps /\ pc[s] \in Steps
  BY Zenon DEF SetTopValue, CopyFloor, SetFloorValue, Steps, FloorSteps
<1>2. UNCHANGED <<msg, bidValue, topBid>>
  BY Zenon DEF SetTopValue, CopyFloor, SetFloorValue
<1>3. PICK p \in {"copyFloor", "setFloorValue", "done"} : pc' = [pc EXCEPT ![s] = p]
  BY DEF SetTopValue, CopyFloor, SetFloorValue, Return, Goto
<1>4. /\ \A t \in Submissions \ {s} : pc[t] \notin Steps /\ pc'[t] \notin Steps
      /\ pc'[s] = p
  BY <1>1, <1>3, OthersIdle, Zenon
<1>5. ~Deleting(pc[s], local[s]) /\ ~Deleting(pc[s], local[s])'
  BY <1>1, <1>4 DEF Deleting, FloorSteps
<1>6. PromisedTop = ValueOf(topBid) /\ PromisedTop' = ValueOf(topBid)'
  BY <1>4, <1>5, SoloView, SoloViewNext, Zenon
<1>7. /\ PromisedFloor = IF RaisesFloor(s) THEN msg[s].value ELSE floorBidValue
      /\ PromisedFloor' = IF RaisesFloor(s)' THEN msg'[s].value ELSE floorBidValue'
  BY <1>4, SoloView, SoloViewNext, Zenon
<1>8. PromisedFloor' = PromisedFloor
  <2>1. SerialOK(s, pc[s], local[s]) /\ msg[s].value \in Nat /\ floorBidValue \in Nat
    BY <1>1, SoloFacts, Current, Keys, ValuesAssumption DEF FloorSteps
  <2>2. CASE SetTopValue(s)
    <3>1. pc[s] = "setTopValue" /\ floorBidValue' = floorBidValue
      BY <2>2 DEF SetTopValue
    <3>2. CASE SetsFloor(s) /\ Goto(s, "copyFloor") /\ UNCHANGED local
      <4>1. pc'[s] = "copyFloor"
        BY <3>2 DEF Goto, IInv, TypeOK
      <4>2. RaisesFloor(s) /\ RaisesFloor(s)'
        BY <1>2, <3>1, <3>2, <4>1 DEF RaisesFloor, SetsFloor
      <4> QED
        BY <1>2, <1>7, <4>2
    <3>3. CASE ~SetsFloor(s) /\ Return(s, "done")
      <4>1. pc'[s] = "done"
        BY <3>3 DEF Return, Goto, IInv, TypeOK
      <4>2. ~RaisesFloor(s) /\ ~RaisesFloor(s)'
        BY <3>3, <4>1 DEF RaisesFloor
      <4> QED
        BY <1>7, <3>1, <4>2
    <3> QED
      BY <2>2, <3>2, <3>3 DEF SetTopValue
  <2>3. CASE CopyFloor(s)
    <3>1. pc[s] = "copyFloor" /\ pc'[s] = "setFloorValue" /\ UNCHANGED <<floorBidValue, local>>
      BY <2>3 DEF CopyFloor, Goto, IInv, TypeOK
    <3>2. RaisesFloor(s) <=> RaisesFloor(s)'
      BY <1>2, <3>1, Zenon DEF RaisesFloor, SetsFloor
    <3> QED
      BY <1>2, <1>7, <3>1, <3>2
  <2>4. CASE SetFloorValue(s)
    <3>1. pc[s] = "setFloorValue" /\ pc'[s] = "done" /\ floorBidValue' = msg[s].value
      BY <2>4 DEF SetFloorValue, Return, Goto, IInv, TypeOK
    <3>2. ~msg[s].cancel /\ local[s].floor = floorBidValue /\ msg[s].value > floorBidValue
      BY <2>1, <3>1, Zenon DEF SerialOK
    <3>3. RaisesFloor(s) /\ ~RaisesFloor(s)'
      <4>1. SetsFloor(s)
        BY <2>1, <3>2, AboveFloor, Zenon DEF SetsFloor
      <4> QED
        BY <3>1, <4>1, Zenon DEF RaisesFloor
    <3> QED
      BY <1>7, <3>1, <3>3
  <2> QED
    BY <2>2, <2>3, <2>4
<1>9. ValueOf(topBid)' = ValueOf(topBid)
  BY <1>2 DEF ValueOf
<1> QED
  BY <1>2, <1>6, <1>8, <1>9, Stutter

(***************************************************************************)
(* A new submission changes nothing yet.                                   *)
(***************************************************************************)
LEMMA ReceiveStutters ==
    ASSUME IInv, SerialInv, SerialInv', Calm, Calm', NEW s \in Submissions, Receive(s)
    PROVE  UNCHANGED Promise!vars
<1> USE DEF redis, bidKeys, topKeys, floorKeys
<1>1. /\ pc \in [Submissions -> Steps \cup {"new", "done", "refused"}]
      /\ msg \in [Submissions -> MessageType] /\ payloads \subseteq Submissions
  BY DEF IInv, TypeOK
<1>2. /\ pc[s] = "new" /\ pc' = [pc EXCEPT ![s] = "checkDelivered"]
      /\ UNCHANGED <<bidValue, topBid, floorBidValue>>
  BY DEF Receive, Goto
<1>3. InFlight' = {s}
  <2>1. s \in InFlight'
    BY <1>1, <1>2 DEF InFlight, Steps
  <2> QED
    BY <2>1, Zenon DEF SerialInv
<1>4. \A t \in Submissions \ {s} : pc'[t] \notin Steps /\ pc[t] \notin Steps
  BY <1>1, <1>2, <1>3 DEF InFlight
<1>5. \A t \in Submissions \ {s} : msg'[t] = msg[t]
  BY <1>1 DEF Receive
<1>6. pc'[s] = "checkDelivered"
  BY <1>1, <1>2
<1>7. /\ ~RaisesFloor(s) /\ ~RaisesFloor(s)'
      /\ ~Deleting(pc[s], local[s]) /\ ~Deleting(pc[s], local[s])'
  BY <1>2, <1>6 DEF RaisesFloor, Deleting
<1>8. PromisedFloor = floorBidValue /\ PromisedFloor' = floorBidValue'
      /\ PromisedTop = ValueOf(topBid) /\ PromisedTop' = ValueOf(topBid)'
  BY <1>4, <1>7, SoloView, SoloViewNext, Zenon
<1>9. ValueOf(topBid)' = ValueOf(topBid)
  <2>1. topBid \in payloads \cup {None} /\ payloads \subseteq Received
    BY Keys DEF SerialInv
  <2>2. topBid # s
    BY <1>2, <2>1 DEF Received, Submissions, None
  <2> QED
    BY <1>1, <1>2, <1>5, <2>1, <2>2 DEF ValueOf
<1> QED
  BY <1>2, <1>8, <1>9, Stutter

(***************************************************************************)
(* Every step is a step of the abstract auction or a stuttering step.      *)
(***************************************************************************)
LEMMA AuctionStep ==
    IInv /\ SerialInv /\ SerialInv' /\ [Next]_vars => [Promise!Next]_(Promise!vars)
<1> SUFFICES ASSUME IInv, SerialInv, SerialInv', [Next]_vars
             PROVE  Promise!Next \/ UNCHANGED Promise!vars
  OBVIOUS
<1>1. Calm' <=> Calm
  BY LoadIsFixed DEF Calm
<1>2. CASE ~Calm
  BY <1>1, <1>2 DEF Promise!vars
<1>3. CASE Calm
  <2>1. ASSUME NEW s \in Submissions, Submission(s)
        PROVE  Promise!Next \/ UNCHANGED Promise!vars
    <3>1. CASE Receive(s)
      BY <1>1, <1>3, <3>1, ReceiveStutters, Zenon
    <3>2. CASE CheckDelivered(s) \/ CheckFloor(s) \/ Simulate(s) \/ CheckLatest(s)
      BY <1>1, <1>3, <3>2, ChecksStutter, Zenon
    <3>3. CASE DelValue(s) \/ DelTime(s)
      BY <1>1, <1>3, <3>3, DelValueWithdraws, DelTimeStutters, Zenon
    <3>4. CASE LoadBids(s) \/ LoadFloor(s)
      BY <1>1, <1>3, <3>4, LoadStutters, Zenon
    <3>5. CASE ExecSave(s) \/ ExecCopyTop(s)
      BY <1>1, <1>3, <3>5, ExecSaveBids, ExecCopyTopStutters, Zenon
    <3>6. CASE SetTopValue(s) \/ CopyFloor(s) \/ SetFloorValue(s)
      BY <1>1, <1>3, <3>6, FloorStutters, Zenon
    <3>7. ~Abort(s)
      BY <1>3, CalmMeans, Zenon DEF Abort
    <3> QED
      BY <2>1, <3>1, <3>2, <3>3, <3>4, <3>5, <3>6, <3>7, Zenon DEF Submission
  <2>2. CASE UNCHANGED <<redis, load, pc, msg, local>>
    <3> USE DEF redis, bidKeys, topKeys, floorKeys
    <3>1. PromisedFloor' = PromisedFloor
      BY <2>2 DEF PromisedFloor, RaisesFloor, SetsFloor
    <3>2. PromisedTop' = PromisedTop
      BY <2>2 DEF PromisedTop, Deletes, Greater, TopValue, TopBuilders, ValueOf
    <3> QED
      BY <1>1, <1>3, <2>2, <3>1, <3>2, Stutter
  <2>3. CASE Deliver
    BY <2>2, <2>3 DEF Deliver
  <2>4. CASE UNCHANGED vars
    BY <2>2, <2>4 DEF vars, redis, bidKeys, topKeys, floorKeys
  <2> QED
    BY <2>1, <2>3, <2>4 DEF Next
<1> QED
  BY <1>2, <1>3

(***************************************************************************)
(* Submissions that do not overlap implement the abstract auction, in      *)
(* which a submission is one step.                                         *)
(***************************************************************************)
THEOREM ImplementsAuction == Spec => AuctionSpec
<1>1. Init => Promise!Init
  <2> SUFFICES ASSUME Init PROVE Promise!Init
    OBVIOUS
  <2>1. \A s \in Submissions : ~RaisesFloor(s) /\ ~Deletes(s)
    BY DEF Init, RaisesFloor, Deletes
  <2>2. PromisedFloor = 0
    BY <2>1 DEF PromisedFloor, Init, None
  <2>3. PromisedTop = 0
    BY <2>1 DEF PromisedTop, Init, ValueOf, None
  <2>4. bidValue = NoBids /\ NoBids = [b \in Builders |-> 0]
    BY DEF Init, NoBids, None
  <2> QED
    BY <2>2, <2>3, <2>4 DEF Promise!Init
<1> QED
  BY <1>1, AuctionStep, SerialInvariance, Invariance, PTL DEF Spec, AuctionSpec, Promise!Spec

\* The two values of the auction while submissions do not overlap.
AuctionFloor == IF Calm THEN PromisedFloor ELSE 0
AuctionTop == IF Calm THEN PromisedTop ELSE 0

(***************************************************************************)
(* What a step of the abstract auction does to the floor and to the bid    *)
(* that is served.                                                         *)
(***************************************************************************)
LEMMA AuctionKeepsFloor ==
    ASSUME [Promise!Next]_(Promise!vars)
    PROVE  /\ AuctionFloor' = AuctionFloor \/ AuctionFloor' > AuctionFloor
           /\ \/ AuctionTop' >= AuctionFloor'
              \/ AuctionTop' = AuctionTop /\ AuctionFloor' = AuctionFloor
<1>1. ASSUME NEW b \in Builders, NEW v \in Values, Promise!CancellableBid(b, v)
      PROVE  AuctionFloor' = AuctionFloor /\ AuctionTop' >= AuctionFloor'
  BY <1>1, Zenon DEF Promise!CancellableBid, Promise!IsBest, AuctionFloor, AuctionTop
<1>2. ASSUME NEW b \in Builders, NEW v \in Values, Promise!FirmBid(b, v)
      PROVE  AuctionFloor' > AuctionFloor /\ AuctionTop' >= AuctionFloor'
  BY <1>2, Zenon DEF Promise!FirmBid, Promise!IsBest, AuctionFloor, AuctionTop
<1>3. ASSUME NEW b \in Builders, Promise!Withdraw(b)
      PROVE  /\ AuctionFloor' = AuctionFloor
             /\ AuctionTop' >= AuctionFloor' \/ AuctionTop' = AuctionTop
  BY <1>3, Zenon DEF Promise!Withdraw, Promise!IsBest, AuctionFloor, AuctionTop
<1>4. CASE UNCHANGED Promise!vars
  BY <1>4, Zenon DEF Promise!vars, AuctionFloor, AuctionTop
<1> QED
  BY <1>1, <1>2, <1>3, <1>4, Zenon DEF Promise!Next

(***************************************************************************)
(* The bid floor of submissions that do not overlap: the floor only rises, *)
(* and the bid that is served is never below it, also after the last       *)
(* active bid was withdrawn, when TopIsBest says nothing of the served     *)
(* one.                                                                    *)
(***************************************************************************)
THEOREM FloorHolds ==
    Spec => /\ [](AuctionTop >= AuctionFloor)
            /\ [][AuctionFloor' > AuctionFloor]_AuctionFloor
<1>1. Promise!Init => AuctionTop >= AuctionFloor
  BY DEF Promise!Init, AuctionTop, AuctionFloor
<1>2. AuctionTop >= AuctionFloor /\ [Promise!Next]_(Promise!vars)
        => (AuctionTop >= AuctionFloor)'
  BY AuctionKeepsFloor, Zenon
<1>3. [Promise!Next]_(Promise!vars) => [AuctionFloor' > AuctionFloor]_AuctionFloor
  BY AuctionKeepsFloor, Zenon
<1> QED
  BY <1>1, <1>2, <1>3, ImplementsAuction, PTL DEF AuctionSpec, Promise!Spec
=============================================================================
