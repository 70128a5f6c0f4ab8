--------------------------- MODULE BlockSubmission ---------------------------
(***************************************************************************)
(* One builder submission through handleSubmitNewBlock of service.go: the  *)
(* checks against head slot, fork and payload attributes, the simulation   *)
(* in the handler or in a goroutine, and the deferred database record that *)
(* waits for its result.  Payload attributes arrive concurrently in        *)
(* processPayloadAttributes, and head slots in processNewSlot.             *)
(*                                                                         *)
(* What the Redis calls do is the subject of BidCache, whether a builder   *)
(* is trusted that of OptimisticRelay, and fee recipients that of          *)
(* VouchRegistry: here these checks pass or not.                           *)
(***************************************************************************)
EXTENDS ForkVersions, FiniteSets

CONSTANTS Submissions,    \* the requests
          Parents,        \* parent block hashes
          Randaos,        \* values of prev_randao, standing for all attributes
          MaxSlot,        \* bound on slots
          IgnorableValidationErrors,  \* the flag ffIgnorableValidationErrors
          SimMayHang,     \* a simulation may take longer than 10 seconds
          DBMayFail       \* the database may fail

ASSUME SlotAssumption == MaxSlot \in Nat

VARIABLES head,      \* api.headSlot
          attrs,     \* api.payloadAttributes: [Keys -> Randaos or None]
          event,     \* the attributes event being processed, NoEvent if none
          req,       \* [Submissions -> the request]
          pc,        \* [Submissions -> where its handler is]
          seen,      \* [Submissions -> headSlot as the handler loaded it]
          sim,       \* [Submissions -> the simulation: none, running, its result]
          chan,      \* [Submissions -> the result in simResultC, Empty if none]
          saved,     \* [Submissions -> what updateRedisBid did]
          record     \* [Submissions -> its database record, NoRecord if none]

handlerVars == <<head, attrs, event, req, pc, seen, sim, chan, saved, record>>

Slots == 0 .. MaxSlot
Keys == Slots \X Parents
None == "none"
NoEvent == <<>>
Submitted == [slot : Slots, parent : Parents, randao : Randaos, version : Forks,
             optimistic : BOOLEAN]

\* What simulateBlock makes of a simulation: no error, a validation error that
\* the flag tells it to ignore, validationErr, requestErr
Results == {"ok", "ignored", "invalid", "failed"}
Passing == {"ok", "ignored"}

\* updateRedisBid: nothing is saved (a newer payload, a top bid that does not
\* change, an error); the bid is saved; or the transaction that saves it is
\* executed and a later command on the top bid or the floor fails.
Saves == {"no", "saved", "torn"}

Empty == "empty"
NoRecord == [simulated |-> FALSE, error |-> FALSE, optimistic |-> FALSE,
             eligible |-> FALSE, exists |-> FALSE]
PCs == {"idle", "attrs", "floor", "sim", "save", "defer", "done", "rejected"}

HandlerInit == /\ head = 0
               /\ attrs = [k \in Keys |-> None]
               /\ event = NoEvent
               /\ req \in [Submissions -> Submitted]
               /\ pc = [r \in Submissions |-> "idle"]
               /\ seen = [r \in Submissions |-> 0]
               /\ sim = [r \in Submissions |-> None]
               /\ chan = [r \in Submissions |-> Empty]
               /\ saved = [r \in Submissions |-> "no"]
               /\ record = [r \in Submissions |-> NoRecord]

-----------------------------------------------------------------------------
(* Head slots and payload attributes *)

\* processNewSlot
NewHead(s) ==
    /\ s > head
    /\ head' = s
    /\ UNCHANGED <<attrs, event, req, pc, seen, sim, chan, saved, record>>

\* processPayloadAttributes up to taking the lock: attributes for a past slot
\* and known ones are dropped, and so are ones that lack what the fork needs.
AttributesEvent(k, a) ==
    /\ event = NoEvent
    /\ k[1] > head
    /\ attrs[k] = None
    /\ event' = <<k, a, head>>
    /\ UNCHANGED <<head, attrs, req, pc, seen, sim, chan, saved, record>>

\* Mutation of Expired: attributes of the slots before the new one are removed.
ExpiredBeforeNew(k, e) == k[1] < e[1][1]

\* "clean up old ones": those before the head slot loaded at the start
Expired(k, e) == k[1] < e[3]

\* Under the write lock: the cleanup, then the new entry
AttributesStore ==
    /\ event # NoEvent
    /\ attrs' = [k \in Keys |-> CASE k = event[1]      -> event[2]
                                  [] Expired(k, event) -> None
                                  [] OTHER             -> attrs[k]]
    /\ event' = NoEvent
    /\ UNCHANGED <<head, req, pc, seen, sim, chan, saved, record>>

-----------------------------------------------------------------------------
(* The handler *)

Goto(r, l) == pc' = [pc EXCEPT ![r] = l]

\* The request arrives; headSlot is loaded before the body is read.
Receive(r) ==
    /\ pc[r] = "idle"
    /\ seen' = [seen EXCEPT ![r] = head]
    /\ Goto(r, "attrs")
    /\ UNCHANGED <<head, attrs, event, req, sim, chan, saved, record>>

\* checkSubmissionSlotDetails
SlotDetailsFit(r) == /\ VersionFits(req[r].slot, req[r].version)
                     /\ req[r].slot > seen[r]

\* checkSubmissionPayloadAttrs
AttributesFit(r) == attrs[<<req[r].slot, req[r].parent>>] = req[r].randao

\* The checks that read shared state, in the order of the handler; the others
\* (decoding, builder entry, fee recipient, value, sanity, signature) may
\* refuse any submission.
Check(r, others) ==
    /\ pc[r] = "attrs"
    /\ Goto(r, IF SlotDetailsFit(r) /\ AttributesFit(r) /\ others THEN "floor" ELSE "rejected")
    /\ UNCHANGED <<head, attrs, event, req, seen, sim, chan, saved, record>>

\* Mutation of CheckFloor: the handler goes on below the floor.
CheckFloorGoesOn(r, above) ==
    /\ pc[r] = "floor"
    /\ Goto(r, "sim")
    /\ IF above THEN UNCHANGED chan ELSE chan' = [chan EXCEPT ![r] = "skipped"]
    /\ UNCHANGED <<head, attrs, event, req, seen, sim, saved, record>>

\* checkFloorBidValue.  The handler returns, without the deferred record, when
\* the slot's payload was delivered, or below the floor; then the result of a
\* simulation that never ran is sent first.
CheckFloor(r, above) ==
    /\ pc[r] = "floor"
    /\ IF above
       THEN Goto(r, "sim") /\ UNCHANGED chan
       ELSE /\ Goto(r, "rejected")
            /\ chan' \in {chan, [chan EXCEPT ![r] = "skipped"]}
    /\ UNCHANGED <<head, attrs, event, req, seen, sim, saved, record>>

\* The simulation starts: in a goroutine for an optimistic submission, in the
\* handler otherwise.
StartSim(r) ==
    /\ pc[r] = "sim" /\ sim[r] = None
    /\ sim' = [sim EXCEPT ![r] = "running"]
    /\ IF req[r].optimistic THEN Goto(r, "save") ELSE UNCHANGED pc
    /\ UNCHANGED <<head, attrs, event, req, seen, chan, saved, record>>

\* Mutation of EndSim: the handler goes on after a validation error.
EndSimGoesOn(r, res) ==
    /\ sim[r] = "running"
    /\ chan[r] = Empty
    /\ res = "ignored" => IgnorableValidationErrors
    /\ sim' = [sim EXCEPT ![r] = res]
    /\ chan' = [chan EXCEPT ![r] = res]
    /\ IF req[r].optimistic THEN UNCHANGED pc
       ELSE Goto(r, IF res # "failed" THEN "save" ELSE "defer")
    /\ UNCHANGED <<head, attrs, event, req, seen, saved, record>>

\* simulateBlock returns and the result is sent; the channel holds one result.
\* The handler of a submission that is not optimistic goes on, or ends on an
\* error.
EndSim(r, res) ==
    /\ sim[r] = "running"
    /\ chan[r] = Empty
    /\ res = "ignored" => IgnorableValidationErrors
    /\ sim' = [sim EXCEPT ![r] = res]
    /\ chan' = [chan EXCEPT ![r] = res]
    /\ IF req[r].optimistic THEN UNCHANGED pc
       ELSE Goto(r, IF res \in Passing THEN "save" ELSE "defer")
    /\ UNCHANGED <<head, attrs, event, req, seen, saved, record>>

\* updateRedisBid, after the check for a newer payload.  Only a save without an
\* error sets eligibleAt.
SaveBid(r, how) ==
    /\ pc[r] = "save"
    /\ saved' = [saved EXCEPT ![r] = how]
    /\ Goto(r, "defer")
    /\ UNCHANGED <<head, attrs, event, req, seen, sim, chan, record>>

InRedis(r) == saved[r] \in {"saved", "torn"}

\* Mutation of Row: a result that did not come counts as simulated.
RowTimedOutSimulated(r, res) ==
    [simulated |-> res # "failed", error |-> res \in {"invalid", "failed"},
     optimistic |-> req[r].optimistic, eligible |-> saved[r] = "saved", exists |-> TRUE]

\* The row of SaveBuilderBlockSubmission for a result
Row(r, res) == [simulated  |-> res \in Passing \cup {"invalid"},
                error      |-> res \in {"invalid", "failed"},
                optimistic |-> res # "timeout" /\ req[r].optimistic,
                eligible   |-> saved[r] = "saved",
                exists     |-> TRUE]

\* The deferred function: the result from the channel goes into the database.
Record(r, ok) ==
    /\ pc[r] = "defer" /\ chan[r] # Empty
    /\ ok \/ DBMayFail
    /\ record' = [record EXCEPT ![r] = IF ok THEN Row(r, chan[r]) ELSE @]
    /\ chan' = [chan EXCEPT ![r] = Empty]
    /\ Goto(r, "done")
    /\ UNCHANGED <<head, attrs, event, req, seen, sim, saved>>

\* Mutation of Timeout: the deferred function waits for the result forever.
TimeoutNever(r) == FALSE /\ UNCHANGED handlerVars

\* ... or after 10 seconds an empty result does.
Timeout(r) ==
    /\ SimMayHang
    /\ pc[r] = "defer" /\ chan[r] = Empty
    /\ \E ok \in BOOLEAN :
          /\ ok \/ DBMayFail
          /\ record' = [record EXCEPT ![r] = IF ok THEN Row(r, "timeout") ELSE @]
    /\ Goto(r, "done")
    /\ UNCHANGED <<head, attrs, event, req, seen, sim, chan, saved>>

HandlerNext == \/ \E s \in Slots : NewHead(s)
               \/ \E k \in Keys, a \in Randaos : AttributesEvent(k, a)
               \/ AttributesStore
               \/ \E r \in Submissions :
                     \/ Receive(r) \/ StartSim(r) \/ Timeout(r)
                     \/ \E b \in BOOLEAN : Check(r, b) \/ CheckFloor(r, b) \/ Record(r, b)
                     \/ \E how \in Saves : SaveBid(r, how)
                     \/ \E res \in Results : EndSim(r, res)

HandlerSpec == HandlerInit /\ [][HandlerNext]_handlerVars

\* The handler runs on its own goroutine.  A simulation in the handler ends, by
\* the client's timeout at the latest; the one of an optimistic submission may
\* wait in the rate limiter for any time.
HandlerFairness ==
    \A r \in Submissions :
        /\ WF_handlerVars(StartSim(r)) /\ WF_handlerVars(Timeout(r))
        /\ WF_handlerVars(\E b \in BOOLEAN : Check(r, b) \/ CheckFloor(r, b) \/ Record(r, b))
        /\ WF_handlerVars(\E how \in Saves : SaveBid(r, how))
        /\ WF_handlerVars(~req[r].optimistic /\ \E res \in Results : EndSim(r, res))

HandlerFairSpec == HandlerSpec /\ HandlerFairness

-----------------------------------------------------------------------------
(* Properties *)

HandlerTypeOK == /\ head \in Slots
                 /\ attrs \in [Keys -> Randaos \cup {None}]
                 /\ pc \in [Submissions -> PCs]
                 /\ seen \in [Submissions -> Slots]
                 /\ sim \in [Submissions -> Results \cup {None, "running"}]
                 /\ chan \in [Submissions -> Results \cup {Empty, "skipped"}]
                 /\ saved \in [Submissions -> Saves]
                 /\ record \in [Submissions -> [DOMAIN NoRecord -> BOOLEAN]]

\* The send of a simulation's result never blocks, although the handler may
\* have returned after its ten seconds and nobody receives any more: else the
\* goroutine of an optimistic submission would hold optimisticBlocksWG, and
\* with it prepareBuildersForSlot, for ever.
SendNeverBlocks ==
    \A r \in Submissions : sim[r] = "running" => chan[r] = Empty

\* Only an optimistic submission ever gets into the auction before its
\* simulation has ended, and no other one does whose simulation found an error
\* that the operator does not ignore.
SavedIsVetted ==
    \A r \in Submissions : InRedis(r) =>
        \/ req[r].optimistic
        \/ sim[r] = "ok"
        \/ sim[r] = "ignored" /\ IgnorableValidationErrors

\* Attributes of slots after the head stay until the head passes them, and are
\* not replaced: builders' submissions for an announced slot keep passing
\* however events and heads interleave with the cleanup.
UpcomingAttributesKept ==
    [][\A k \in Keys : attrs[k] # None /\ k[1] >= head => attrs'[k] = attrs[k]]_handlerVars

\* The database record of a submission tells what happened: simulated and
\* without error only if its simulation ended well or with an error that the
\* operator ignores; with an error only if there was one; eligible only if its
\* bid is in Redis.  A bid in Redis is not eligible in its record only if Redis
\* failed after taking it, when the top bid or the floor was updated.
RecordIsTrue ==
    \A r \in Submissions : record[r].exists =>
        /\ record[r].simulated /\ ~record[r].error =>
             \/ sim[r] = "ok"
             \/ sim[r] = "ignored" /\ IgnorableValidationErrors
        /\ record[r].error => sim[r] \in {"invalid", "failed"}
        /\ record[r].eligible => InRedis(r)
        /\ InRedis(r) /\ ~record[r].eligible => saved[r] = "torn"

\* Every handler returns, even if the simulation of its optimistic submission
\* never does.
HandlersReturn ==
    \A r \in Submissions : (pc[r] # "idle") ~> (pc[r] \in {"done", "rejected"})
=============================================================================
