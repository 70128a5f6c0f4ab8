# Specifications of mev-boost-relay

TLA+ models of the relay's concurrent and stateful parts, the TLC
configurations that check them, and TLAPS proofs about every one of them. Paths are
relative to the repository (`src/`). `PROJECT.json` holds the exact line map,
the runs, the mutants, the findings and the hazards.

## The system

The relay sits between block builders and proposers.

* The **API** (`services/api`) takes block submissions, has each block simulated
  by a validation node, keeps the best bid of a slot in Redis, serves it to
  proposers (getHeader), and hands out the block once the proposer has signed
  its header (getPayload). It also takes validator registrations and serves
  data and internal endpoints.
* The **housekeeper** (`services/housekeeper`) writes proposer duties, and once
  at start the validator registrations, to Redis.
* The **datastore** (`datastore`) wraps Redis, memcached and a local cache;
  **database** is PostgreSQL; **beaconclient** talks to several beacon nodes.
* The **Vouch registry** (`services/registry`) enumerates a contract whose
  validators must use the protocol fee recipient.
* The **website** only reads; the **command line tools** export, archive and
  migrate.

Several API instances share Redis and the database. Inside an instance every
request is a goroutine, so most hazards are orders of Redis round trips,
goroutines started without being waited for, and caches that another instance
or goroutine has outdated.

## Modules

| Module | Models | State |
|---|---|---|
| `BlockSimRateLimiter` | `BlockSimulationRateLimiter.Send` | counter, the condition variable's waiters, stage of each request |
| `BidCache` | floor check, latest-bid check, `DelBuilderBid`, `SaveBidAndUpdateTopBid`, `_updateTopBid` | the Redis keys of one slot, parent and proposer; each handler's step and locals |
| `Auction` | what the auction promises when submissions are atomic: an abstract specification | active bids, floor, served value |
| `PayloadDelivery` | getPayload and `StopServer` | last delivered slot and hash, WATCH state, step of each call, publication goroutines, rows |
| `DeliveryLedger` | what the delivery check promises: an abstract specification | the last block and all blocks granted |
| `OptimisticRelay` | `prepareBuildersForSlot`, the optimistic decision, `processOptimisticBlock`, `demoteBuilder`, refund lookup, status and collateral endpoints | builder rows (status, id, collateral), cache generations, wait group, demotions, refunds |
| `ValidatorRegistration` | registerValidator, its channel and processors, the housekeeper's copy | local caches, Redis, database, channel |
| `VouchRegistry` | enumeration, the saved copies, both fee-recipient locks of one instance; the writes of other instances to the same copy | contract lists, walk positions, known set, Redis copy, the other instances' syncs |
| `MultiBeaconClient` | client order, fallback, `PublishBlock`, `BestSyncStatus` | best index, what each node answered |
| `KnownValidators` | `RefreshKnownValidators`, streaming and buffered | phase (the checks under the flag are one), collector, installed set, readiness |
| `ProposerDuties` | the update gates of housekeeper and API, the Redis key | heads, pending goroutines, gates, duties |
| `BeaconChain` | the slots that `KnownValidators` and `ProposerDuties` follow | none: constants |
| `BlockSubmission` | the order of `handleSubmitNewBlock`, payload attributes, result channel, deferred row | head, attributes, step, channel and row of each request |
| `GetHeader` | cutoff, response delay, shutdown flag | clock, head, each call |
| `ForkVersions` | the fork of a slot, and every switch over the version between a submission and a block: decoding, bids, payloads, Redis keys, rows, unblinding | none: operators |
| `HeaderToPayload` | the way of a header: submission, Redis keys that expire, memcached, database row, getHeader, getPayload | the state of `GetHeader`, the keys with their ends, the other stores, each submission and each getPayload call |

How they are composed:

* `HeaderToPayload` extends `GetHeader` and `ForkVersions`; its getHeader steps
  are those of `GetHeader`, and it is proved to implement that specification.
  From a bid's point of view it continues `BidCache`: which bid is best is left
  open there (any saved bid, or the floor, may be put on top), so that what it
  shows holds for every order of updates. The check for an earlier delivery is
  left to `PayloadDelivery`.
* `BlockSubmission` uses the fork checks of `ForkVersions`.
* `BidCache` implements `Auction`, and `PayloadDelivery` implements
  `DeliveryLedger`, both through `INSTANCE ... WITH`. The mapping of the first
  is the interesting one, because a handler writes its keys one round trip at a
  time. A save takes effect at its transaction, when the value of a firm bid
  already counts as the floor (`PromisedFloor`); a deletion at its first HDEL,
  when the next best bid already counts as served (`PromisedTop`). In a load that
  is not quiet the mapping is constant, so nothing is claimed there.

A versioned value of `ForkVersions` is a version and the set of its parts
(payload, blobs, execution requests, header). A conversion either has no case
for the version, and fails, or hands on some of the parts. What the parts
contain is left out, so the model shows that nothing is lost or refused on the
way, not that the bytes are right.

A module has one action per step that another actor can observe: a Redis round
trip, a critical section, a statement after which a goroutine may be overtaken.
Code between two such points is part of the action. Payloads, signatures and
keys are members of small sets; decoding and validation that has no effect but a
refusal is a choice to go on or to return.

The MC modules define the values TLC uses where a `.cfg` file cannot: sets of
deployments or loads, functions, symmetry sets. The other components take plain
values from their `.cfg` file.

Operators whose comment begins "Mutation of" are deliberately wrong variants of
the definition they name. Each property is shown to fail when one of them takes
that definition's place.

## Quiet and disturbed behaviours

Some promises of the code hold only while handlers do not overlap, or while
nothing fails. Two devices keep those next to the unconditional ones in one
model:

* A variable chosen once in `Init` names the regime of the whole behaviour:
  `load` (BidCache), `traffic` (ValidatorRegistration), `leg` (ProposerDuties),
  `setup` (OptimisticRelay, with the operator's flags), `setting` (VouchRegistry:
  kinds of faults, restarts, other instances), `scenario` (HeaderToPayload: the
  slot and so the fork, the number of submissions, what fails, whether the
  database keeps payloads, the deadlines of clients). `Calm` says that the
  regime is a quiet one.
* A history variable records what went wrong so far: `unchecked`
  (PayloadDelivery: calls that went on after a failed check), `faults`
  and `dropped` (VouchRegistry), `missed` and `dropped` (KnownValidators),
  `dbFailed`, `changes` and `lowered` (OptimisticRelay).
  Everything may fail at any time; a property that depends on it says until
  which fault.

| Property | Holds |
|---|---|
| `TopIsBest`, `AuctionSpec` | while submissions do not overlap and Redis answers |
| `NothingSavedAfterDelivery` | while Redis answers, with overlap |
| `OneBlockPerSlot` | but for blocks of calls whose own delivery check failed with an error |
| `DemotionIsEffective` | for builders with a builder id, until the database fails or an operator changes a row |
| `InvalidIsFunded` | unless an operator lowered the collateral meanwhile, made all slots optimistic, or ignores the block's validation error |
| `SavedIsVetted`, `RecordIsTrue` | where a validation error that the operator ignores counts as none; a bid in Redis may lack its time of eligibility when Redis failed after saving it |
| `RefundIsDue` | whether the getPayload call was then answered or refused: the deferred refund does not ask |
| `ServedIsUnblinded` | while the stores answer, for calls before the cutoff at an instance that recognises the proposer (its duty and its index); not for a block saved unchecked, optimistically or with an ignored error, whose blobs do not fit |
| `RecordedIsFound` | while the database answers and keeps payloads (`DISABLE_PAYLOAD_DATABASE_STORAGE` is not set), once the submission's handler has ended |
| `StoresAgree`, `DiscardIsRedundant` | for one instance, calls that do not overlap and carry one registration each, no failing store |
| `LockedUntilFault`, `SyncIsComplete` | until a walk fails, an answer is empty, or (the former) Redis fails; the former not for a pubkey that another instance's older sync took out of the copy, once this instance restarts on it |
| `KnownSetIsFresh` | while no refresh fails; not between two heads when the newer one's goroutine was dropped at the flag of one that returned at a check |
| `DutiesCoverNextSlot` | while each head is handled before the next and nothing fails, once the first gate after the start (eight slots, and those missed) is over |
| `EmptyIsRetried` | while every epoch has a proposer with a registration |
| `NothingLostOnShutdown` | for V1 calls that arrive before the wait is over |

All other properties hold in every behaviour of the model.

## Runs that pass

| Run | Shows | Instance |
|---|---|---|
| `ratelimiter` | at most the limit simulate at once, no wake-up is lost, every waiter is served | 5 requests, limit 2 |
| `bids` | a served header has its payload, copies have a source, nothing is saved after delivery; without overlap the best bid is served and the round trips implement `Auction` | 2 builders, 3 values; 3 submissions in turn, or 2 overlapping, with and without Redis errors and aborts |
| `delivery` | one block per slot is unblinded, the check implements `DeliveryLedger`, a stop waits for V1 calls and ends | 2 calls of either version, 2 slots, 2 blocks per slot, Redis errors, shutdown |
| `optimistic` | an invalid block in the auction is funded, a demotion reaches all keys of a builder, a refund needs a demotion and a proposer who signed, whatever waits for simulations goes on | 2 keys with one builder id or none; one instance over 2 slots, 2 instances, or 2 submissions; the three flags; blocks that are valid, invalid or have an ignorable error; database errors; a change of status, id or collateral |
| `registrations` | only verified registrations are stored; in quiet traffic the stores agree and discards are redundant | 2 instances, a channel of 1, failing stores; and quiet traffic on one instance |
| `registry` | a sync is complete, a known key stays locked until a fault | 3 nodes, 2 workers; every fault with a restart, a restart with another instance's sync, or failing walks with one |
| `beacon` | an error only after every node failed, a success is true, a synced node is preferred | 3 nodes, 2 calls |
| `known` | an installed set is one node's whole set, it is fresh, the service gets ready, and only with validators | 2 nodes that disagree or answer nothing, 2 failures, over 2 epochs, streaming or not, goroutines dropped at the flag |
| `duties` | the duty of the next slot is known, empty answers are retried | 32-slot epochs, missed slots, late goroutines, failures; started at slots 1, 25 and 70 on a Redis that is empty or holds the duties of any earlier epoch |
| `submission` | no result blocks its sender, only vetted bids are saved, the row is true, announced attributes stay, the handler returns | 1 request, 4 slots, 2 randaos, hanging simulator, ignorable errors, a Redis that fails after the save |
| `endtoend` | a served header is unblinded into the whole block of its fork; a recorded payload is found when its keys have expired or Redis is lost; the delay leaves its margin, late requests get no bid, bids end after a stop | one slot in each of four forks, up to 2 submissions, one getHeader and getPayload; keys that expire; loss of Redis, failures of memcached and database, payloads not kept in the database, or a shutdown |

`TypeOK` (`HandlerTypeOK` and so on) states the domain of the variables. It is
proved for the rate limiter, `BidCache`, `PayloadDelivery`, `OptimisticRelay`
and `MultiBeaconClient`, and for `GetHeader` as part of its invariant; in the
others it holds when added to the configuration, and the invariants of the
proofs state the types they need.

Deadlock is checked only for the rate limiter, whose requests come back; in the
other models the bounded inputs run out, so the system legitimately stops.

**Bounds.** Two actors on each shared item are what a race needs; a third is
there where the code compares with an earlier value (three bids in turn) or
where workers are fewer than jobs (three nodes, two workers). Two slots let a
goroutine of the older one finish last. Epochs keep their 32 slots because the
gates depend on positions inside the epoch. The unsigned subtraction of the duty
gates is taken modulo 2^16 instead of 2^64: slots stay far below both, so it
wraps in the same cases. In `endtoend` the unit of time is four seconds: a slot
has three, cutoffs and delays are one, so that a call can fall on either side of
each. There the delay ends before the cutoff (`Target - Safety` is below it), so
that a call sleeps past the cutoff is covered by the theorem `NoLateBid` only. A
key lives for five units instead of the eleven of `expiryBidCache`: the
least that `AuctionAssumption` allows, so that keys written early expire while
late calls still come. One open submission at a time is enough there, since a save
may put any earlier bid on top.

**Fairness.** Only steps the Go scheduler must eventually take are fair: a
running goroutine goes on, a signalled waiter runs, an HTTP client with a
timeout returns, a select with a timer fires. Arrivals, errors, crashes and
operator actions are never fair. `KnownValidators` bounds failures by
`MaxFails`, so its liveness means: once beacon nodes answer.

## Where the code and its comments disagree

`registry_partial` is the run that shows such a case: a walk that fails half way
is counted as complete and its result replaces the known set
(`services/registry/registry.go:267`), although line 152 says that the previous
set is kept on failure. A validator of the contract is then not locked to the
protocol fee recipient.

Other cases are stated at the end of the modules, under a heading that says so.
Each was refuted by TLC when added to the component's configuration; no run of
the project lists them.

| Statement | What happens |
|---|---|
| `ActiveBidIsLatest` (BidCache) | two bids of a builder pass the latest-bid check and the older saves last; or a lower bid that does not move the top value is dropped (`redis.go:703`) |
| `TopIsActive` (BidCache) | deleting the only bid leaves the served header (`redis.go:768`) |
| `RecordedIsUnblinded` (PayloadDelivery) | the deferred save records refused calls too (`service.go:1707`) |
| `RefundIsRecorded` (OptimisticRelay) | the wait group is joined inside the goroutine (`service.go:801`) |
| `SlotFollowsHead` (OptimisticRelay) | preparation goroutines finish in the wrong order (`service.go:1019`) |
| `DemotedInCache` (OptimisticRelay) | a demotion marks a replaced cache entry (`service.go:828`) |
| `RefundIsForDelivered` (OptimisticRelay) | the deferred function records a refund for a call that was refused after its payload was loaded (`service.go:1728`) |
| `DemotedIsNotOptimistic` (OptimisticRelay) | a builder without a builder id keeps its status, although the demotion is recorded (`database.go:525`) |
| `FirstIsLastGood` (MultiBeaconClient) | an index into the reordered list is used on the configured one (`multi_beacon_client.go:210`) |
| `ErrorMeansNotBroadcast` (MultiBeaconClient) | a 202 followed by an error is reported as no publication (`multi_beacon_client.go:312`) |
| `UpdateSpacing` (ProposerDuties) | the unsigned subtraction of a late goroutine wraps around and opens the gate (`service.go:966`) |
| `CoveredOnceLoaded` (ProposerDuties) | an API that starts before the housekeeper's first update takes the duties of a past epoch from Redis, where they never expire, and its gate closes on them (`redis.go:365`, `service.go:1001`) |
| `CopyIsLastKnownGood` (VouchRegistry) | a sync that began earlier on another instance overwrites the newer copy, and a restart comes up without the newer pubkeys (`registry.go:174`) |
| `NoBidAfterStop` (GetHeader) | a sleeping call returns a bid after the flag (`service.go:1413`) |

Three comments were found wrong by reading alone. `GetEnvDurationSec`
(`common/utils.go:180`) tests `err != nil` where its comment asks for the
opposite: an integer is ignored and anything else gives zero. The consensus
version of getPayload is called optional (`service.go:1545`), but a request
without it is refused. `StartServer` speaks of the best status "by head slot"
(`service.go:471`), but `BestSyncStatus` returns the first synced answer.

Conditions in the table of quiet and disturbed behaviours mark further cases:
TLC finds a counterexample to each property when its condition is dropped (for
`EmptyIsRetried`, with an epoch without registrations). A save from an old
snapshot puts the top bid below the floor; the V2 publication is not waited for
at shutdown (`service.go:1938`); processors, or the housekeeper, write the
stores in different orders; a discard relies on a cache another instance has
outdated.

## Proofs

Every safety invariant, action property and refinement that a passing run
checks is proved. The theorems hold for every value of the constants that meets
the named assumptions of the modules. A proof module may be about two models that
serve one purpose; the second one's specification then has a name of its own
(`HandlerSpec`, `DutiesSpec`, `RegistrySpec`).

`SubmissionProofs`, the rate limiter: `TypeCorrect`, `LimitHolds`,
`CounterIsExact`, `WakeupsNotLost`. The limit is not inductive by itself, because
a woken request does not look at the counter again. `IInv` adds that the notify
list holds each parked request exactly once, that the counter counts the requests
inside `Send`, and that while anyone is parked the admitted requests fill the
limit. `BlockSubmission`: `SendsDoNotBlock`, `RowsAreTrue`, `OnlyVettedIsSaved`,
`AnnouncedAttributesStay`. `HandlerInv` ties the result in the channel to the one
result of the simulation, or to the floor check of a handler that has returned,
and says that the row is written last; so the one place in the channel is free
for whoever still has to send, and a row written after the ten seconds claims
nothing about a result that has not come. `EventInv`
says that the event being processed was new and that the head it loaded is not
ahead, so the cleanup deletes only what the head has passed.

`BidCacheProofs`: `TypeCorrect`, `ServedHeadersHavePayloads`, `CopiesSucceed`,
with overlapping submissions, Redis errors and aborts. `IInv` says that every
header reachable from a key has its payload, that a value in the hash has a
header, and that what a handler remembers (bids, floor, chosen source) still has
a header. The last part is stable because no step deletes a header.
`DeliveredSlotIsClosed` follows a late submission to its floor check (`LateInv`).
`BestBidIsServed` is about submissions in turn: `SerialInv` says that at most one
handler is under way, that its snapshot is the state of the keys as far as it has
not written them, and which keys are already new at each of its steps.
`ImplementsAuction` uses it to map each round trip to a step of `Auction` or a
stutter: the transaction of a save, the first HDEL of a deletion. `FloorHolds`
follows from the refinement alone: in `Auction` the floor only rises and what is
served is not below it, so the same holds of what the Redis keys stand for. That
a top builder exists needs a finite set of builders (`BuildersAssumption`).

`PayloadDeliveryProofs`: `TypeCorrect`, `ImplementsLedger`, `NoEquivocation`,
`DeliveredSlotRises`, `ShutdownLosesNothing`. A call whose WATCH is clean has a
slot above the last delivered one, and the last block is the one granted for its
slot; so each commit is a `Grant` of `DeliveryLedger` and every other step a
stutter, lost replies included. `NoEquivocation` adds that a call past a check
that did not fail was granted its block. After an error the handler goes on
unchecked (`services/api/service.go:1848`), which is what `unchecked` records
call by call: the theorem excepts the blocks of those calls and no others. The
run has two calls, so this matters in the theorem, which has any number. For the
shutdown, `DrainInv` says that a call still in hand after the wait came after it.

`HeaderToPayloadProofs`: `ImplementsGetHeader`, and with it the timing of
getHeader (`TimingCorrect`) for the composition: `DelayEndsInTime`, `NoLateBid`,
`LastBidIsBounded`. `TimingInv` says of a sleeping call when it will wake, and of
an answered one that the answer came by the cutoff or at the end of its sleep.
That holds because the clock does not pass a timer that is due (`Tick`).

`ServedCorrect`: `HeldInv` says that every bid that is on top, is the floor or was
served has its payload in Redis up to the cutoff of getPayload, in the version of
the slot's fork, and that a call in time loads before it. A bid may outlive its
payload, since copies are renewed and payloads are not; what makes the theorem
true is `AuctionAssumption`, that a key lives longer than a slot and the cutoff
(45 seconds against 12 and 4), and that there is a cutoff. Time may run past the
expiry of every key. `ForkSwitches` is the lemma that the switches over the
version agree. That an instance does not recognise the proposer, because its
duties or validators are behind, is an outcome of its own. `RecordedPayloadsAreFound` is about the calls `ServedCorrect` does
not cover, with keys expired or Redis lost: `FoundInv` says that whatever a store
still has for a submission is its payload in the version of the fork, and that
the row is there once the handler has ended, if the database keeps payloads.

`OptimisticRelayProofs`: `TypeCorrect`, `OptimismIsCovered`,
`DemotionReachesPubkeys`, `RefundsAreDue`, for any number of instances, builders
and submissions. `FundedInv` says that no cache entry, installed or just loaded,
has more collateral than the row, unless an operator lowered it, and that a block
on its way to the auction without such cover passed its simulation. `DemotionInv` is
about the two statements of a demotion: the id that was read is still the
builder's when the rows are updated. `CachesInv` counts the caches an instance
installs, one for each head slot at most.

`RegistrationProofs`: `OnlyVerifiedStored`. The invariant follows a registration from the channel, where it is verified, through the
processors, the stores and the rows the housekeeper has read. `StoresEndUpEqual`
and `DiscardsAreRedundant` are about calls in turn: `SerialInv` says that at most
one registration is on its way and which stores already have it. `VouchRegistry`:
`SyncsAreComplete`, where `SyncInv` says of each node how far its walk
has come, and `LockHolds`, where `LockInv` says that a known key is never lost
between the contract, the copy in Redis, the set in memory and the sync in
progress, except from the copy by another instance (`dropped`); contracts only
grow, so a sync that began later finds it again.

`MultiBeaconClientProofs`: `TypeCorrect`, `NoNodeLeftOut`, `PublicationIsTrue`,
`SyncedNodeIsUsed`. Whatever index a call has read, the order it works through
has every node exactly once; so the positions a call has left tell which nodes
have not answered.

`SlotUpdateProofs`, `KnownValidators`: `NothingPartialInstalled`,
`ReadyIsJustified`. What is about to be installed is one node's whole answer,
because the collector is reset when a node's array begins. `SetStaysFresh` needs
that a refresh ends within 32 slots of its head (`LagAssumption`): the timeout of
the client is below that; a goroutine dropped at the flag while its holder is at
the checks is the exception the property names. `SetOnlyMovesOn` rests on there being one refresh at a
time: the slot it was admitted for stays ahead of the installed one.
`ProposerDuties`: `EmptyMapIsRetried`, in every regime, and `NextSlotIsCovered`,
where `CalmInv` bounds how old the duties in Redis and in the map can be, from
the first update of this housekeeper on. The
latter has a hypothesis of its own, `FewMissed`: four times the slots missed in a
row, and 18, fit in an epoch. With 32 slots that is three in a row; both gates,
of half an epoch and of eight slots, may be late by that much, one after the
other.

Only model-checked: liveness (`WaitersServed`, `StopCompletes`, `WaitsEnd`,
`EventuallyReady`, `HandlersReturn`), since fairness and ENABLED are out of the
prover's reach. The theorems say nothing of `registry_partial`, which is refuted.

## Not modelled

* Data API, website, metrics: they only read.
* Command line tools: exports read, migrations change the schema while nothing
  runs, and the archiver can delete payload rows
  (`cmd/tool/archive-execution-payloads.go:115`), which would take away what
  `RecordedIsFound` relies on if it were run on a slot still in use.
* Encodings: what SSZ and JSON do to the bytes, media type negotiation, and
  whether a signature verifies, are choices to refuse or go on. Which versions
  and parts survive each conversion is modelled.
* The start of the service: `StartServer` fetches genesis and fork schedule once
  and fails if it cannot. The comparison of the relay's public key with the one
  in Redis (`service.go:327`) is a read followed by a write that two starting
  instances can interleave; nothing modelled depends on it.
* The event subscriptions: they forward what a node sends and reconnect after a
  pause. Modules take heads and payload attributes from the environment, which
  may skip or repeat them.
* The statistics of builders and the table of too-late getPayload calls: single
  statements that nothing modelled reads back.
* The flags for high priority and blacklisting: a refusal, taken as a choice.

The models contain some behaviours that no property judges, because no line of
the code promises anything about them: a registration is dropped when the channel
is full (`service.go:1245`), the status endpoint writes back flags it read before a
demotion (`service.go:2961`), and a pipeline that fails between COPY and EXPIRE
leaves a key with the end of its source (`redis.go:803`).

## Possible continuations

* `BidCache` below `HeaderToPayload`, so that the bid on top is the best one; the
  product of both is beyond the small instances used here.
* The same for the proofs: with `ImplementsAuction` and `ServedCorrect` in one
  specification, the best bid is served and unblinded.
