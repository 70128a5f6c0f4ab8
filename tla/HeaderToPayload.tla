--------------------------- MODULE HeaderToPayload ---------------------------
(***************************************************************************)
(* A header's way from a builder's submission to the block the proposer    *)
(* gets: handleSubmitNewBlock stores bid and payload in Redis, under keys  *)
(* that expire, and the payload in memcached and in the database later on; *)
(* getHeader (module GetHeader, whose steps are steps here) serves the top *)
(* bid; getPayload loads the payload from the first store that has it and  *)
(* unblinds the proposer's block.  The values are versioned, as in module  *)
(* ForkVersions.                                                           *)
(*                                                                         *)
(* One slot is auctioned, for one parent and proposer.  Which bid is the   *)
(* best is the subject of BidCache: here a save may put any saved bid, or  *)
(* the floor bid, on top.                                                  *)
(***************************************************************************)
EXTENDS GetHeader, ForkVersions, FiniteSets

CONSTANTS Scenarios,      \* what a behaviour may be about, see Scenario
          Submissions,    \* the builders' submissions, each of its own block
          MaxOpen,        \* how many of them at the same time
          Names,          \* what builders send as Eth-Consensus-Version
          Expiry,         \* expiryBidCache, defaultMemcachedExpirySeconds
          PayloadCutoff,  \* getPayloadRequestCutoffMs, 0 for none
          Horizon         \* bound on time, from the start of the slot

\* A slot, how many submissions there are for it, what happens besides
\* (StopServer, failures of Redis, or of memcached and the database), the
\* deadlines clients may send, from the start of the slot, and whether payloads
\* are stored in the database (DISABLE_PAYLOAD_DATABASE_STORAGE is not set)
Scenario == [slot : Nat \ {0}, submissions : Nat,
             fault : {"none", "stop", "redis", "database"}, deadlines : SUBSET Nat,
             rows : BOOLEAN]

ASSUME StoreAssumption == /\ Expiry \in Nat /\ PayloadCutoff \in Nat /\ Horizon \in Nat
                          /\ MaxOpen \in Nat
                          /\ Names \subseteq STRING /\ Scenarios \subseteq Scenario

\* A key outlives a slot and the time in which payloads may be asked for, which
\* is limited (45, 12 and 4 seconds), and the slot is after Capella.
ASSUME AuctionAssumption == /\ PayloadCutoff > 0 /\ Expiry > SlotMs + PayloadCutoff
                            /\ \A x \in Scenarios : ForkFromSlot(x.slot) \in Forks

VARIABLES scenario,   \* chosen once
          sub,        \* [Submissions -> where its handler is]
          req,        \* [Submissions -> the decoded request]
          payloadKey, \* [Submissions -> its payload's key in Redis and its end]
          bidUntil,   \* [Submissions -> the end of keyLatestBidByBuilder]
          top, floor, \* keyCacheGetHeaderResponse and keyFloorBid: bid and end
          memcached,  \* [Submissions -> the payload in memcached and its end]
          row,        \* [Submissions -> the row of the execution payload]
          header,     \* [Calls -> the header getHeader answered with]
          pay,        \* [Calls -> where the getPayload call for it is]
          late,       \* [Calls -> decodeTime is after the cutoff]
          result      \* [Calls -> the loaded payload, then the block]

getHeaderVars == <<now, head, stopAt, force204, pc, slot, deadline, until, answer,
                   answeredAt>>
bidVars == <<payloadKey, bidUntil, top, floor>>
storeVars == <<memcached, row>>
payVars == <<pay, late, result>>
allVars == <<now, head, stopAt, force204, pc, slot, deadline, until, answer, answeredAt,
             scenario, sub, req, payloadKey, bidUntil, top, floor, memcached, row,
             header, pay, late, result>>

None == "none"
NoBid == [bid |-> None, until |-> 0]
NoKey == [key |-> None, until |-> 0]
NoItem == [value |-> Invalid, until |-> 0]
NoRequest == [value |-> Invalid, unchecked |-> FALSE, whole |-> FALSE]
NoHeader == [bid |-> None, value |-> Invalid]

auction == scenario.slot
fault == scenario.fault
Start == SlotStart(auction)
Alive(k) == k.until > now

HInit == /\ scenario \in Scenarios
         /\ now = Start - SlotMs /\ head = auction - 1
         /\ stopAt = Never /\ force204 = FALSE
         /\ pc = [c \in Calls |-> "idle"]
         /\ slot = [c \in Calls |-> 0]
         /\ deadline = [c \in Calls |-> NoDeadline]
         /\ until = [c \in Calls |-> 0]
         /\ answer = [c \in Calls |-> "none"]
         /\ answeredAt = [c \in Calls |-> 0]
         /\ sub = [s \in Submissions |-> "idle"]
         /\ req = [s \in Submissions |-> NoRequest]
         /\ payloadKey = [s \in Submissions |-> NoKey]
         /\ bidUntil = [s \in Submissions |-> 0]
         /\ top = NoBid /\ floor = NoBid
         /\ memcached = [s \in Submissions |-> NoItem]
         /\ row = [s \in Submissions |-> Invalid]
         /\ header = [c \in Calls |-> NoHeader]
         /\ pay = [c \in Calls |-> "idle"]
         /\ late = [c \in Calls |-> FALSE]
         /\ result = [c \in Calls |-> Invalid]

-----------------------------------------------------------------------------
(* The submission *)

Open == {s \in Submissions : sub[s] \in {"simulate", "saved", "record"}}

Goto(s, step) == sub' = [sub EXCEPT ![s] = step]

\* Decoding and the checks of slot and version.  Payload attributes, without
\* which a submission is refused, come at most a slot ahead.
Submit(s, name, unchecked, whole) ==
    LET r == DecodedRequest(name, auction)
    IN  /\ sub[s] = "idle" /\ Cardinality(Open) < MaxOpen
        /\ Cardinality({x \in Submissions : sub[x] # "idle"}) < scenario.submissions
        /\ req' = [req EXCEPT ![s] = [value |-> r, unchecked |-> unchecked,
                                      whole |-> whole]]
        /\ Goto(s, IF r # Invalid /\ HasInfo(r) /\ VersionFits(auction, r.version)
                      /\ auction > head THEN "simulate" ELSE "refused")
        /\ UNCHANGED <<getHeaderVars, scenario, bidVars, storeVars, header, payVars>>

\* A block is saved only once the simulator, which checks that blobs and
\* commitments match, accepts it; unless it is unchecked: optimistic, or refused
\* with an error the relay ignores (ENABLE_IGNORABLE_VALIDATION_ERRORS).
Accepted(s) == /\ ValidationRequest(req[s].value) # Invalid
               /\ req[s].unchecked \/ req[s].whole

\* The bid does not reach Redis: the simulation fails, a newer bid is there
\* or the top bid does not change.
Drop(s) ==
    /\ sub[s] = "simulate"
    /\ Goto(s, "record")
    /\ UNCHANGED <<getHeaderVars, scenario, req, bidVars, storeVars, header, payVars>>

\* Mutation of PayloadUntil: the payload is kept for one slot.
PayloadUntilSlot == now + SlotMs

\* The end of the payload's key
PayloadUntil == now + Expiry

\* A key as COPY makes it, with the source's end, and after EXPIRE
Copied(source, renewed) ==
    [source EXCEPT !.until = IF renewed THEN now + Expiry ELSE @]

\* updateRedisBid: payload and bid are stored, the best bid is copied to the
\* top and, for a firm bid, the own one to the floor.  Each EXPIRE follows its
\* COPY in an Exec of its own; reached is the last Exec that succeeds.
Save(s, source, firm, reached) ==
    LET ends == [bidUntil EXCEPT ![s] = now + Expiry]
        own  == [bid |-> s, until |-> ends[s]]
        best == IF source = "floor" THEN floor
                ELSE [bid |-> source, until |-> ends[source]]
    IN  /\ sub[s] = "simulate" /\ Accepted(s)
        /\ BuildGetHeaderResponse(req[s].value) # Invalid
        /\ BuildGetPayloadResponse(req[s].value) # Invalid
        /\ reached = "end" \/ fault = "redis"
        /\ payloadKey' = [payloadKey EXCEPT ![s] =
                             [key |-> PayloadKey(req[s].value.version),
                              until |-> PayloadUntil]]
        /\ bidUntil' = ends
        /\ top' = IF Alive(best) THEN Copied(best, reached # "top") ELSE top
        /\ floor' = IF Alive(best) /\ firm /\ reached \in {"floor", "end"}
                    THEN Copied(own, reached = "end") ELSE floor
        /\ Goto(s, IF Alive(best) /\ reached = "end" THEN "saved" ELSE "record")
        /\ UNCHANGED <<getHeaderVars, scenario, req, storeVars, header, payVars>>

\* The goroutine that saves a saved bid's payload in memcached, if it is
\* configured and answers: at once, on the scale of the clock
SaveMemcached(s) ==
    /\ sub[s] \in {"saved", "done"} /\ bidUntil[s] = now + Expiry
    /\ memcached[s] = NoItem /\ fault # "database"
    /\ memcached' = [memcached EXCEPT ![s] =
                        [value |-> BuildGetPayloadResponse(req[s].value),
                         until |-> now + Expiry]]
    /\ UNCHANGED <<getHeaderVars, scenario, sub, req, bidVars, row, header, payVars>>

\* The deferred function of the handler stores the payload in the database,
\* also when the bid was not saved, unless the database is not to have payloads.
SaveRow(s, ok) ==
    /\ sub[s] \in {"saved", "record"}
    /\ ok \/ fault = "database"
    /\ row' = [row EXCEPT ![s] = IF ok /\ scenario.rows
                                 THEN PayloadEntry(req[s].value) ELSE @]
    /\ Goto(s, "done")
    /\ UNCHANGED <<getHeaderVars, scenario, req, bidVars, memcached, header, payVars>>

\* Redis loses its keys, in a restart or a failover.
LoseRedis ==
    /\ fault = "redis"
    /\ payloadKey' = [s \in Submissions |-> NoKey]
    /\ bidUntil' = [s \in Submissions |-> 0]
    /\ top' = NoBid /\ floor' = NoBid
    /\ UNCHANGED <<getHeaderVars, scenario, sub, req, storeVars, header, payVars>>

-----------------------------------------------------------------------------
(* getHeader *)

others == <<scenario, sub, req, bidVars, storeVars, payVars>>

Call(c, ua, d) == Arrive(c, auction, ua, d) /\ UNCHANGED <<others, header>>

\* GetBestBid and the answer in either encoding
ReadBest(c) ==
    LET bid == BuildGetHeaderResponse(req[top.bid].value)
    IN  /\ \/ Alive(top) /\ RespondSSZ(bid) # Invalid /\ Read(c, "bid")
              /\ header' = [header EXCEPT ![c] = [bid |-> top.bid, value |-> bid]]
           \/ ~Alive(top) /\ Read(c, "204") /\ UNCHANGED header
           \/ fault = "redis" /\ Read(c, "400") /\ UNCHANGED header
        /\ UNCHANGED others

-----------------------------------------------------------------------------
(* getPayload *)

\* The proposer signs a block with the header and sends it; decoding, the
\* version checks, the proposer's index and the signature.  The index is not
\* recognised by an instance whose duty for the slot has another one or whose
\* known validators do not have it; getHeader does not look it up.
Ask(c, recognised) ==
    LET b == DecodedBlindedBlock(header[c].value.version, header[c].value)
    IN  /\ answer[c] = "bid" /\ pay[c] = "idle"
        /\ late' = [late EXCEPT ![c] = PayloadCutoff > 0 /\ now - Start > PayloadCutoff]
        /\ pay' = [pay EXCEPT ![c] =
                      CASE ~PayloadVersionFits(auction, header[c].value.version, b.version)
                             -> "refused"
                        [] PayloadVersionFits(auction, header[c].value.version, b.version)
                           /\ ~recognised -> "unrecognised"
                        [] OTHER -> IF SignatureDomain(b) THEN "load" ELSE "refused"]
        /\ UNCHANGED <<getHeaderVars, scenario, sub, req, bidVars, storeVars, header,
                       result>>

\* GetGetPayloadResponse: the first store that has the payload; an error of
\* Redis or memcached is treated like a miss.
Stored(s, failing) ==
    CASE Alive(payloadKey[s]) /\ "redis" \notin failing ->
            GetPayloadContents({payloadKey[s].key})
      [] ~(Alive(payloadKey[s]) /\ "redis" \notin failing)
            /\ Alive(memcached[s]) /\ "memcached" \notin failing ->
            memcached[s].value
      [] OTHER -> IF "database" \in failing THEN Invalid ELSE EntryPayload(row[s])

\* The stores that may fail to answer
MayFail == CASE fault = "redis"    -> {"redis", "memcached"}
             [] fault = "database" -> {"database"}
             [] OTHER              -> {}

\* A load that finds nothing is repeated once.
Load(c, failing) ==
    LET p == Stored(header[c].bid, failing)
    IN  /\ pay[c] \in {"load", "retry"}
        /\ failing \subseteq MayFail
        /\ pay' = [pay EXCEPT ![c] = IF p # Invalid THEN "loaded"
                                     ELSE IF pay[c] = "load" THEN "retry" ELSE "notfound"]
        /\ result' = [result EXCEPT ![c] = p]
        /\ UNCHANGED <<getHeaderVars, scenario, sub, req, bidVars, storeVars, header,
                       late>>

\* The rest of the call: waiting for the slot, the cutoff, the comparison with
\* the payload and the conversion into a full block.  The check for an earlier
\* delivery, which can refuse a second call, is the subject of PayloadDelivery.
Finish(c) ==
    LET b == DecodedBlindedBlock(header[c].value.version, header[c].value)
        full == Unblinded(b, result[c], req[header[c].bid].whole)
    IN  /\ pay[c] = "loaded" /\ now >= Start
        /\ pay' = [pay EXCEPT ![c] = CASE late[c]                      -> "late"
                                       [] ~late[c] /\ ~SameContents(b, result[c]) -> "mismatch"
                                       [] OTHER -> IF full = Invalid THEN "internal"
                                                   ELSE "delivered"]
        /\ result' = [result EXCEPT ![c] = full]
        /\ UNCHANGED <<getHeaderVars, scenario, sub, req, bidVars, storeVars, header,
                       late>>

-----------------------------------------------------------------------------

\* The calls keep up with the clock; simulations and background saves may not.
HTick == /\ Tick /\ now < Start + Horizon
         /\ \A c \in Calls : pay[c] \notin {"load", "retry"}
         /\ UNCHANGED <<others, header>>

Environment ==
    /\ \/ fault = "stop" /\ StopServer
       \/ NewHead(auction)
       \/ \E c \in Calls : Wake(c) \/ Leave(c)
    /\ UNCHANGED <<others, header>>

HNext ==
    \/ HTick \/ Environment \/ LoseRedis
    \/ \E s \in Submissions :
          \/ \E name \in Names, unchecked, whole \in BOOLEAN :
                Submit(s, name, unchecked, whole)
          \/ \E t \in {s, "floor"} \cup {x \in Submissions : bidUntil[x] > 0},
                firm \in BOOLEAN, reached \in {"top", "expire", "floor", "end"} :
                Save(s, t, firm, reached)
          \/ Drop(s) \/ SaveMemcached(s)
          \/ \E ok \in BOOLEAN : SaveRow(s, ok)
    \/ \E c \in Calls :
          \/ \E ua \in Agents, d \in {NoDeadline} \cup {Start + x : x \in scenario.deadlines} :
                Call(c, ua, d)
          \/ ReadBest(c) \/ Finish(c)
          \/ \E recognised \in BOOLEAN : Ask(c, recognised)
          \/ \E failing \in SUBSET {"redis", "memcached", "database"} : Load(c, failing)

HSpec == HInit /\ [][HNext]_allVars

-----------------------------------------------------------------------------
(* Properties *)

\* While every store works, also during a shutdown, a header that was served is
\* worth its name: the getPayload call for it, if it is in time and reaches an
\* instance that recognises the proposer, ends with the whole block, in the
\* version of the slot's fork, with blobs and execution requests where that fork
\* has them.  The exception is a block that was saved unchecked and whose blobs
\* do not fit its commitments.
ServedIsUnblinded ==
    \A c \in Calls : fault \in {"none", "stop"} /\ ~late[c] =>
        /\ pay[c] \notin {"refused", "notfound", "mismatch"}
        /\ pay[c] = "internal" => /\ req[header[c].bid].unchecked
                                  /\ ~req[header[c].bid].whole
        /\ pay[c] = "delivered" =>
              /\ result[c].version = ForkFromSlot(auction)
              /\ result[c].parts = BlockParts(ForkFromSlot(auction))

\* The database is to have the payloads, and works.
KeepsPayloads == scenario.rows /\ fault # "database"

\* If the keys have expired, or Redis loses them or does not answer, a served
\* header can still be unblinded once the handler of its submission has ended:
\* while the database has the payloads, that of such a submission is never
\* missing, whether memcached is used or not.
RecordedIsFound ==
    [][\A c \in Calls :
          pay'[c] = "notfound" /\ pay[c] # "notfound" /\ KeepsPayloads
          => sub[header[c].bid] # "done"]_allVars
=============================================================================
