------------------------------ MODULE BidCache ------------------------------
(***************************************************************************)
(* The auction of one slot+parentHash+proposerPubkey in Redis, and the     *)
(* block submissions that write it: handleSubmitNewBlock from the floor    *)
(* check on (services/api/service.go) with SaveBidAndUpdateTopBid,         *)
(* DelBuilderBid and _updateTopBid (datastore/redis.go).                   *)
(*                                                                         *)
(* A handler talks to Redis in a series of pipeline Execs.  One Exec (and  *)
(* the local computation up to the next one) is one action; handlers of    *)
(* any number of API instances interleave between Execs.  Values are       *)
(* positive (a zero-value block is refused before the floor check), so 0   *)
(* stands for an absent hash field or key, which is also what the getters  *)
(* return for redis.Nil.  The expiry of keys is in HeaderToPayload.        *)
(***************************************************************************)
EXTENDS Integers, FiniteSets

CONSTANTS
    Builders,        \* builder pubkeys
    Values,          \* bid values
    MaxSubmissions,  \* number of submissions in a behaviour
    Loads            \* the loads a slot may see: how many submissions, how many
                     \* of them at the same time, and whether Redis calls fail
                     \* and API instances crash

ASSUME BuildersAssumption == IsFiniteSet(Builders)
ASSUME ValuesAssumption == Values \subseteq Nat \ {0}
ASSUME BoundsAssumption == MaxSubmissions \in Nat
ASSUME LoadsAssumption ==
    Loads \subseteq [submissions : Nat, inFlight : Nat, faulty : BOOLEAN]

Submissions == 1..MaxSubmissions
None == 0         \* no submission, no value, no time
Unread == -1      \* floorBidValue is nil
Floor == "floor"  \* keyFloorBid as the source of a COPY

ASSUME FloorAssumption == Floor \notin Builders

VARIABLES
    bidValue,       \* hash keyBlockBuilderLatestBidsValue
    bidTime,        \* hash keyBlockBuilderLatestBidsTime
    latestBid,      \* keyLatestBidByBuilder: the submission whose header it is
    payloads,       \* the submissions whose execution payload is stored
    topBid,         \* keyCacheGetHeaderResponse: what getHeader serves
    topBidValue,    \* keyTopBidValue
    floorBid,       \* keyFloorBid
    floorBidValue,  \* keyFloorBidValue
    clock,          \* the receivedAt of the last submission, in ms
    delivered,      \* keyLastSlotDelivered has reached this slot
    load,           \* the load of this behaviour, chosen once
    pc,             \* pc[s]: the next Redis call of submission s
    msg,            \* msg[s]: what submission s carries
    local           \* local[s]: the variables of its handler

bidKeys == <<bidValue, bidTime, latestBid, payloads>>
topKeys == <<topBid, topBidValue>>
floorKeys == <<floorBid, floorBidValue>>
redis == <<bidKeys, topKeys, floorKeys>>
inputs == <<clock, delivered, load, msg>>
vars == <<bidValue, bidTime, latestBid, payloads, topBid, topBidValue,
          floorBid, floorBidValue, clock, delivered, load, pc, msg, local>>

Steps == {"checkDelivered", "checkFloor", "simulate", "checkLatest",
          "delValue", "delTime", "loadBids", "loadFloor", "execSave",
          "execCopyTop", "setTopValue", "copyFloor", "setFloorValue"}

InFlight == {s \in Submissions : pc[s] \in Steps}
Received == {s \in Submissions : pc[s] # "new"}

RedisMayFail == load.faulty
Calm == load.inFlight = 1 /\ ~load.faulty

NoBids == [b \in Builders |-> None]
NoMessage == [builder |-> None, value |-> None, cancel |-> FALSE, at |-> None,
              late |-> FALSE]
NoLocals == [deleting |-> FALSE, floor |-> Unread, bids |-> NoBids,
             source |-> Floor, top |-> None]

(***************************************************************************)
(* The builders getTopBid may return: it ranges over a Go map, so any of   *)
(* the builders tied at the highest value.                                 *)
(***************************************************************************)
TopBuilders(bids) ==
    {b \in Builders : bids[b] > 0 /\ \A c \in Builders : bids[c] <= bids[b]}

TopValue(bids) ==
    IF TopBuilders(bids) = {} THEN 0 ELSE bids[CHOOSE b \in TopBuilders(bids) : TRUE]

Greater(m, n) == IF m > n THEN m ELSE n

BelowFloor(value, floor) == floor # Unread /\ value < floor
\* Mutation of AtOrBelowFloor: the comparison with the floor is dropped.
NeverAtFloor(value, floor) == FALSE
AtOrBelowFloor(value, floor) == floor # Unread /\ value <= floor

Init ==
    /\ bidValue = NoBids
    /\ bidTime = NoBids
    /\ latestBid = NoBids
    /\ payloads = {}
    /\ topBid = None /\ topBidValue = None
    /\ floorBid = None /\ floorBidValue = None
    /\ clock = 1
    /\ delivered = FALSE
    /\ load \in Loads
    /\ pc = [s \in Submissions |-> "new"]
    /\ msg = [s \in Submissions |-> NoMessage]
    /\ local = [s \in Submissions |-> NoLocals]

Goto(s, step) == pc' = [pc EXCEPT ![s] = step]
Return(s, outcome) ==
    /\ Goto(s, outcome)
    /\ local' = [local EXCEPT ![s] = NoLocals]

(***************************************************************************)
(* A submission that passed the prechecks of handleSubmitNewBlock starts   *)
(* its Redis calls.  Submissions are numbered in the order of receivedAt,  *)
(* which has millisecond resolution.                                       *)
(***************************************************************************)
Receive(s) ==
    /\ pc[s] = "new"
    /\ \A t \in Submissions : t < s => pc[t] # "new"
    /\ s <= load.submissions /\ Cardinality(InFlight) < load.inFlight
    /\ clock' \in {clock, clock + 1}
    /\ \E b \in Builders, v \in Values, c \in BOOLEAN :
         msg' = [msg EXCEPT ![s] = [builder |-> b, value |-> v, cancel |-> c,
                                    at |-> clock', late |-> delivered]]
    /\ Goto(s, "checkDelivered")
    /\ UNCHANGED <<redis, delivered, load, local>>

(***************************************************************************)
(* checkFloorBidValue: the slot must not be delivered yet.  A failed read  *)
(* is only logged.                                                         *)
(***************************************************************************)
\* Mutation of CheckDelivered: the delivered slot is not checked.
CheckNothing(s) ==
    /\ pc[s] = "checkDelivered"
    /\ Goto(s, "checkFloor")
    /\ UNCHANGED <<redis, inputs, local>>

CheckDelivered(s) ==
    /\ pc[s] = "checkDelivered"
    /\ \/ delivered /\ Return(s, "refused")
       \/ /\ ~delivered \/ RedisMayFail
          /\ Goto(s, "checkFloor")
          /\ UNCHANGED local
    /\ UNCHANGED <<redis, inputs>>

(***************************************************************************)
(* checkFloorBidValue, continued: a cancellable bid below the floor        *)
(* deletes the builder's previous bid, a non-cancellable one at or below   *)
(* the floor is ignored.  After a failed read the floor stays nil.         *)
(***************************************************************************)
CheckFloor(s) ==
    /\ pc[s] = "checkFloor"
    /\ \E f \in {floorBidValue} \cup (IF RedisMayFail THEN {Unread} ELSE {}) :
         \/ /\ msg[s].cancel /\ BelowFloor(msg[s].value, f)
            /\ local' = [local EXCEPT ![s].deleting = TRUE]
            /\ Goto(s, "delValue")
         \/ /\ ~msg[s].cancel /\ AtOrBelowFloor(msg[s].value, f)
            /\ Return(s, "done")
         \/ /\ ~(msg[s].cancel /\ BelowFloor(msg[s].value, f))
            /\ ~(~msg[s].cancel /\ AtOrBelowFloor(msg[s].value, f))
            /\ local' = [local EXCEPT ![s].floor = f]
            /\ Goto(s, "simulate")
    /\ UNCHANGED <<redis, inputs>>

(***************************************************************************)
(* The block is simulated, or handed to the optimistic path; a failed      *)
(* validation ends the submission.                                         *)
(***************************************************************************)
Simulate(s) ==
    /\ pc[s] = "simulate"
    /\ \/ Return(s, "refused")
       \/ /\ Goto(s, IF msg[s].cancel THEN "checkLatest" ELSE "loadBids")
          /\ UNCHANGED local
    /\ UNCHANGED <<redis, inputs>>

(***************************************************************************)
(* With cancellations: is this request still the builder's latest one?  A  *)
(* failed read is only logged.                                             *)
(***************************************************************************)
CheckLatest(s) ==
    /\ pc[s] = "checkLatest"
    /\ \/ msg[s].at < bidTime[msg[s].builder] /\ Return(s, "refused")
       \/ /\ msg[s].at >= bidTime[msg[s].builder] \/ RedisMayFail
          /\ Goto(s, "loadBids")
          /\ UNCHANGED local
    /\ UNCHANGED <<redis, inputs>>

(***************************************************************************)
(* DelBuilderBid: two HDELs outside any transaction, then _updateTopBid.   *)
(* The header under keyLatestBidByBuilder stays.                           *)
(***************************************************************************)
DelValue(s) ==
    /\ pc[s] = "delValue"
    /\ bidValue' = [bidValue EXCEPT ![msg[s].builder] = None]
    /\ Goto(s, "delTime")
    /\ UNCHANGED <<bidTime, latestBid, payloads, topKeys, floorKeys, inputs, local>>

DelTime(s) ==
    /\ pc[s] = "delTime"
    /\ bidTime' = [bidTime EXCEPT ![msg[s].builder] = None]
    /\ Goto(s, "loadBids")
    /\ UNCHANGED <<bidValue, latestBid, payloads, topKeys, floorKeys, inputs, local>>

(***************************************************************************)
(* The keys _updateTopBid may copy into the top bid: the floor bid when it *)
(* is above every active bid, else the bid of a top builder.               *)
(***************************************************************************)
\* Mutation of Sources: floor and top value are compared the wrong way round.
SourcesInverted(bids, floor) == IF floor < TopValue(bids) THEN {Floor} ELSE TopBuilders(bids)

Sources(bids, floor) == IF floor > TopValue(bids) THEN {Floor} ELSE TopBuilders(bids)

(***************************************************************************)
(* Everything SaveBidAndUpdateTopBid and _updateTopBid compute once bids   *)
(* and floor are loaded: whether to write at all (a save is dropped when   *)
(* the bid does not move the top value), the key copied into the top bid   *)
(* and the new top value.                                                  *)
(***************************************************************************)
Decide(s, bids, floor) ==
    LET after == IF local[s].deleting THEN bids
                 ELSE [bids EXCEPT ![msg[s].builder] = msg[s].value]
        prevTop == Greater(TopValue(bids), floor)
        newTop == TopValue(after)
        drop == /\ ~local[s].deleting
                /\ \/ ~msg[s].cancel /\ AtOrBelowFloor(msg[s].value, floor)
                   \/ newTop = prevTop
    IN  \/ drop /\ Return(s, "done")
        \/ /\ ~drop
           /\ \E src \in Sources(after, floor) :
                local' = [local EXCEPT ![s] =
                            [deleting |-> local[s].deleting, floor |-> floor,
                             bids |-> NoBids, source |-> src,
                             top |-> Greater(newTop, floor)]]
           /\ Goto(s, IF local[s].deleting THEN "execCopyTop" ELSE "execSave")

(***************************************************************************)
(* NewBuilderBidsFromRedis.  _updateTopBid returns at once when there are  *)
(* no bids left.                                                           *)
(***************************************************************************)
LoadBids(s) ==
    /\ pc[s] = "loadBids"
    /\ \/ local[s].deleting /\ bidValue = NoBids /\ Return(s, "done")
       \/ /\ IF local[s].deleting THEN bidValue # NoBids ELSE local[s].floor = Unread
          /\ local' = [local EXCEPT ![s].bids = bidValue]
          /\ Goto(s, "loadFloor")
       \/ /\ ~local[s].deleting /\ local[s].floor # Unread
          /\ Decide(s, bidValue, local[s].floor)
    /\ UNCHANGED <<redis, inputs>>

LoadFloor(s) ==
    /\ pc[s] = "loadFloor"
    /\ Decide(s, local[s].bids, floorBidValue)
    /\ UNCHANGED <<redis, inputs>>

(***************************************************************************)
(* COPY of the winning bid to keyCacheGetHeaderResponse.  A missing source *)
(* copies nothing and is an error.                                         *)
(***************************************************************************)
\* Mutation of CopySource: the bid just saved is copied, not the best.
CopyOwnBid(s, latest) == latest[msg[s].builder]

CopySource(s, latest) ==
    IF local[s].source = Floor THEN floorBid ELSE latest[local[s].source]

CopyTop(s, bid) ==
    /\ topBid' = IF bid = None THEN topBid ELSE bid
    /\ Goto(s, IF bid = None THEN "refused" ELSE "setTopValue")

(***************************************************************************)
(* The transaction of a save: payload, latest bid, time, value and the     *)
(* COPY to the top bid, in this order.                                     *)
(***************************************************************************)
\* Mutation of ExecSave: the payload is left out of the transaction.
ExecSaveNoPayload(s) ==
    /\ pc[s] = "execSave"
    /\ latestBid' = [latestBid EXCEPT ![msg[s].builder] = s]
    /\ bidTime' = [bidTime EXCEPT ![msg[s].builder] = msg[s].at]
    /\ bidValue' = [bidValue EXCEPT ![msg[s].builder] = msg[s].value]
    /\ CopyTop(s, CopySource(s, latestBid'))
    /\ UNCHANGED <<payloads, topBidValue, floorKeys, inputs, local>>

ExecSave(s) ==
    /\ pc[s] = "execSave"
    /\ payloads' = payloads \cup {s}
    /\ latestBid' = [latestBid EXCEPT ![msg[s].builder] = s]
    /\ bidTime' = [bidTime EXCEPT ![msg[s].builder] = msg[s].at]
    /\ bidValue' = [bidValue EXCEPT ![msg[s].builder] = msg[s].value]
    /\ CopyTop(s, CopySource(s, latestBid'))
    /\ UNCHANGED <<topBidValue, floorKeys, inputs, local>>

ExecCopyTop(s) ==
    /\ pc[s] = "execCopyTop"
    /\ CopyTop(s, CopySource(s, latestBid))
    /\ UNCHANGED <<bidKeys, topBidValue, floorKeys, inputs, local>>

(***************************************************************************)
(* SET keyTopBidValue.  Only a non-cancellable bid above the floor goes on *)
(* to raise the floor.                                                     *)
(***************************************************************************)
SetsFloor(s) == ~msg[s].cancel /\ ~AtOrBelowFloor(msg[s].value, local[s].floor)

SetTopValue(s) ==
    /\ pc[s] = "setTopValue"
    /\ topBidValue' = local[s].top
    /\ \/ SetsFloor(s) /\ Goto(s, "copyFloor") /\ UNCHANGED local
       \/ ~SetsFloor(s) /\ Return(s, "done")
    /\ UNCHANGED <<bidKeys, topBid, floorKeys, inputs>>

(***************************************************************************)
(* COPY keyLatestBidByBuilder to keyFloorBid, then SET keyFloorBidValue in *)
(* an Exec of its own.  The COPY reads whatever header the builder has by  *)
(* then.                                                                   *)
(***************************************************************************)
CopyFloor(s) ==
    /\ pc[s] = "copyFloor"
    /\ floorBid' = latestBid[msg[s].builder]
    /\ Goto(s, "setFloorValue")
    /\ UNCHANGED <<bidKeys, topKeys, floorBidValue, inputs, local>>

SetFloorValue(s) ==
    /\ pc[s] = "setFloorValue"
    /\ floorBidValue' = msg[s].value
    /\ Return(s, "done")
    /\ UNCHANGED <<bidKeys, topKeys, floorBid, inputs>>

(***************************************************************************)
(* A failing Redis call or a crash of the API instance ends a handler      *)
(* between any two Execs.                                                  *)
(***************************************************************************)
Abort(s) ==
    /\ RedisMayFail
    /\ pc[s] \in Steps
    /\ Return(s, "refused")
    /\ UNCHANGED <<redis, inputs>>

(***************************************************************************)
(* getPayload records this slot, or a later one, as delivered.             *)
(***************************************************************************)
Deliver ==
    /\ ~delivered
    /\ delivered' = TRUE
    /\ UNCHANGED <<redis, clock, load, pc, msg, local>>

Submission(s) ==
    \/ Receive(s) \/ CheckDelivered(s) \/ CheckFloor(s) \/ Simulate(s)
    \/ CheckLatest(s) \/ DelValue(s) \/ DelTime(s) \/ LoadBids(s) \/ LoadFloor(s)
    \/ ExecSave(s) \/ ExecCopyTop(s) \/ SetTopValue(s) \/ CopyFloor(s)
    \/ SetFloorValue(s) \/ Abort(s)

Next == Deliver \/ \E s \in Submissions : Submission(s)

Spec == Init /\ [][Next]_vars
-----------------------------------------------------------------------------
MessageType ==
    [builder : Builders \cup {None}, value : Values \cup {None}, cancel : BOOLEAN,
     at : Nat, late : BOOLEAN]
LocalType ==
    [deleting : BOOLEAN, floor : Nat \cup {Unread}, bids : [Builders -> Nat],
     source : Builders \cup {Floor}, top : Nat]

TypeOK ==
    /\ bidValue \in [Builders -> Nat]
    /\ bidTime \in [Builders -> Nat]
    /\ latestBid \in [Builders -> Submissions \cup {None}]
    /\ payloads \subseteq Submissions
    /\ topBid \in Submissions \cup {None} /\ topBidValue \in Nat
    /\ floorBid \in Submissions \cup {None} /\ floorBidValue \in Nat
    /\ clock \in Nat
    /\ delivered \in BOOLEAN
    /\ load \in Loads
    /\ pc \in [Submissions -> Steps \cup {"new", "done", "refused"}]
    /\ msg \in [Submissions -> MessageType]
    /\ local \in [Submissions -> LocalType]
    /\ \A s \in Received : msg[s].builder \in Builders /\ msg[s].value \in Values

(***************************************************************************)
(* Every header the auction can serve (the top bid, the floor bid it falls *)
(* back to and the per-builder bids they are copied from) has its          *)
(* execution payload in Redis, so a getPayload that follows a getHeader    *)
(* finds it: whatever handlers interleave and wherever one of them dies.   *)
(***************************************************************************)
HeaderHasPayload ==
    /\ topBid # None => topBid \in payloads
    /\ floorBid # None => floorBid \in payloads
    /\ \A b \in Builders : latestBid[b] # None => latestBid[b] \in payloads

(***************************************************************************)
(* "could not copy top bid" and "could not copy floor bid" never happen:   *)
(* the key chosen from a snapshot of the bids, which other handlers have   *)
(* changed since, still exists when the COPY runs.                         *)
(***************************************************************************)
CopySourceExists ==
    \A s \in Submissions :
        /\ pc[s] = "execSave" =>
             CopySource(s, [latestBid EXCEPT ![msg[s].builder] = s]) # None
        /\ pc[s] = "execCopyTop" => CopySource(s, latestBid) # None
        /\ pc[s] = "copyFloor" => latestBid[msg[s].builder] # None

(***************************************************************************)
(* A submission that arrives after the slot's payload was delivered is     *)
(* never stored, as long as Redis answers.                                 *)
(***************************************************************************)
NothingSavedAfterDelivery ==
    ~RedisMayFail => \A s \in payloads : ~msg[s].late

ValueOf(s) == IF s = None THEN 0 ELSE msg[s].value

(***************************************************************************)
(* Between submissions that do not overlap the auction's keys are          *)
(* consistent: while any bid is active, the served header is the best of   *)
(* the active bids and the floor, and keyTopBidValue is its value;         *)
(* keyFloorBid and keyFloorBidValue describe one, non-cancellable, bid.    *)
(***************************************************************************)
TopIsBest ==
    Calm /\ InFlight = {} =>
        /\ bidValue # NoBids =>
             /\ ValueOf(topBid) = Greater(TopValue(bidValue), floorBidValue)
             /\ topBidValue = ValueOf(topBid)
        /\ floorBidValue = ValueOf(floorBid)
        /\ floorBid # None => ~msg[floorBid].cancel

(***************************************************************************)
(* The auction as its readers see it, with each submission taking effect   *)
(* at once: a save at its transaction, when the value of a firm bid counts *)
(* as the floor already, and a deletion at its first HDEL, when the next   *)
(* best bid counts as served already.                                      *)
(***************************************************************************)
RaisesFloor(s) ==
    pc[s] \in {"setTopValue", "copyFloor", "setFloorValue"} /\ SetsFloor(s)

Deletes(s) ==
    local[s].deleting /\ pc[s] \in {"delTime", "loadBids", "loadFloor", "execCopyTop"}

PromisedFloor ==
    IF \E s \in Submissions : RaisesFloor(s)
    THEN msg[CHOOSE s \in Submissions : RaisesFloor(s)].value
    ELSE floorBidValue

PromisedTop ==
    IF bidValue # NoBids /\ \E s \in Submissions : Deletes(s)
    THEN Greater(TopValue(bidValue), floorBidValue)
    ELSE ValueOf(topBid)

Promise == INSTANCE Auction WITH
    active <- IF Calm THEN bidValue ELSE NoBids,
    floor  <- IF Calm THEN PromisedFloor ELSE 0,
    served <- IF Calm THEN PromisedTop ELSE 0

(***************************************************************************)
(* Submissions that do not overlap implement the abstract auction, in      *)
(* which a submission is one step: the best bid is served, the top bid is  *)
(* never below the bid floor "going forward" (docs/docs/20230602-recent-   *)
(* performance-improvements.md) and the floor only rises, although each    *)
(* submission is up to eight Redis round trips and may be refused, dropped *)
(* or turned into a deletion half way.                                     *)
(***************************************************************************)
AuctionSpec == Promise!Spec

-----------------------------------------------------------------------------
(***************************************************************************)
(* What comments of the code say and the code does not do.  TLC finds a    *)
(* counterexample to each when it is added to MCBidCache.cfg.              *)
(***************************************************************************)

(***************************************************************************)
(* "makes the current active bid the one that arrived at the relay last":  *)
(* when all submissions of a builder are cancellable and its last one was  *)
(* accepted, no higher bid of that builder is active.                      *)
(***************************************************************************)
ActiveBidIsLatest ==
    InFlight = {} =>
        \A s \in Submissions :
            LET mine == {t \in Received : msg[t].builder = msg[s].builder}
            IN  /\ pc[s] = "done"
                /\ \A t \in mine : msg[t].cancel
                /\ \A t \in mine \ {s} : msg[t].at < msg[s].at
                => bidValue[msg[s].builder] <= msg[s].value

(***************************************************************************)
(* After a cancellation below the floor "compute current top bid": between *)
(* submissions the served header is the floor bid or an active bid.        *)
(***************************************************************************)
TopIsActive ==
    InFlight = {} /\ topBid # None =>
        \/ ValueOf(topBid) = floorBidValue
        \/ \E b \in Builders : latestBid[b] = topBid /\ bidValue[b] > 0
-----------------------------------------------------------------------------
(***************************************************************************)
(* The inductive strengthening of HeaderHasPayload and CopySourceExists:   *)
(* a value in Redis, or in a snapshot some handler holds, implies that the *)
(* header it speaks of exists.                                             *)
(***************************************************************************)
BidHasHeader == \A b \in Builders : bidValue[b] > 0 => latestBid[b] # None
FloorHasHeader == floorBidValue > 0 => floorBid # None

Snapshot(s) ==
    /\ \A b \in Builders : local[s].bids[b] > 0 => latestBid[b] # None
    /\ local[s].floor > 0 => floorBid # None

Progress(s) ==
    /\ pc[s] = "new" => ~local[s].deleting
    /\ local[s].deleting => msg[s].cancel
    /\ pc[s] = "execCopyTop" => local[s].deleting
    /\ pc[s] = "copyFloor" \/ (pc[s] = "setTopValue" /\ ~msg[s].cancel) =>
         latestBid[msg[s].builder] # None
    /\ pc[s] = "setFloorValue" => floorBid # None

SourceExists(s) ==
    /\ pc[s] \in {"execSave", "execCopyTop"} /\ local[s].source = Floor => floorBid # None
    /\ pc[s] = "execSave" /\ local[s].source # Floor =>
         local[s].source = msg[s].builder \/ latestBid[local[s].source] # None
    /\ pc[s] = "execCopyTop" /\ local[s].source # Floor =>
         latestBid[local[s].source] # None

IInv ==
    /\ TypeOK
    /\ HeaderHasPayload
    /\ BidHasHeader
    /\ FloorHasHeader
    /\ \A s \in Submissions : Snapshot(s) /\ Progress(s) /\ SourceExists(s)
=============================================================================
