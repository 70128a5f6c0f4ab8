--------------------------- MODULE ProposerDuties ---------------------------
(***************************************************************************)
(* How proposer duties reach the API: the housekeeper asks the beacon      *)
(* nodes for the duties of two epochs and writes those of registered       *)
(* validators to Redis (housekeeper.go), and every API instance copies     *)
(* Redis into its own map (service.go).  Both follow head events on their  *)
(* own and start a goroutine for each new head slot; a gate in the         *)
(* goroutine decides whether it updates.                                   *)
(*                                                                         *)
(* Duties are abstracted to the epochs they are for: an epoch is in a set  *)
(* of duties when the duties of its registered proposers are.              *)
(***************************************************************************)
EXTENDS BeaconChain, FiniteSets

CONSTANTS Registered,     \* the epochs in which some proposer is registered
          MaxPending,     \* bound: goroutines started and not yet run, per service
          Legs,           \* stretches of the chain: the head slot at which the
                          \* services start, the last slot, how many slots in a row
                          \* may be missed; calm if all goroutines end before the
                          \* next slot and neither the beacon nodes nor the
                          \* database nor Redis fail
          Width           \* bits of the slot arithmetic: 64 in the code

ASSUME WidthAssumption == Width \in Nat \ {0} /\ MaxSlot < 2 ^ Width
ASSUME LegsAssumption ==
    Legs \subseteq [from : 1 .. MaxSlot, to : 1 .. MaxSlot, skip : Nat, calm : BOOLEAN]

VARIABLES slot,        \* the newest slot of the chain
          hkHead,      \* hk.headSlot
          hkPending,   \* goroutines of the housekeeper not yet run
          hkBusy,      \* the slot being updated, 0 for none (isUpdatingProposerDuties)
          hkSlot,      \* hk.proposerDutiesSlot
          redis,       \* the epochs whose duties Redis holds
          apiHead,     \* api.headSlot
          apiPending,  \* goroutines of the API not yet run
          apiBusy,     \* the slot being updated, 0 for none
          loaded,      \* what the running update read, Unread before it did
          apiSlot,     \* api.proposerDutiesSlot
          apiMap,      \* api.proposerDutiesMap
          leg          \* the stretch of the chain this behaviour follows

hk == <<hkHead, hkPending, hkBusy, hkSlot>>
api == <<apiHead, apiPending, apiBusy, loaded, apiSlot, apiMap>>
dutiesVars == <<slot, hk, redis, api, leg>>

Calm == leg.calm
MayFail == ~Calm

Epoch(s) == s \div SlotsPerEpoch
Epochs == 0 .. Epoch(MaxSlot) + 1
Unread == {-1}

\* What a housekeeper whose last update was in epoch e has left in Redis: the
\* duties never expire, and those of the next epoch may be missing.
LeftBehind(e) == {{e} \cap Registered, {e, e + 1} \cap Registered}

\* Both services have been started at the same slot, before any update, however
\* long after the housekeeper that ran before.
DutiesInit == /\ leg \in Legs
              /\ slot = leg.from
              /\ hkHead = slot /\ hkPending = {slot} /\ hkBusy = 0 /\ hkSlot = 0
              /\ redis \in {{}} \cup UNION {LeftBehind(e) : e \in 0 .. Epoch(slot)}
              /\ apiHead = slot /\ apiPending = {slot} /\ apiBusy = 0 /\ loaded = Unread
              /\ apiSlot = 0 /\ apiMap = {}

Settled == /\ hkHead = slot /\ hkPending = {} /\ hkBusy = 0
           /\ apiHead = slot /\ apiPending = {} /\ apiBusy = 0

\* The chain has a new head, possibly after missed slots.
Advance(s) ==
    /\ s \in slot + 1 .. slot + 1 + leg.skip /\ s <= leg.to
    /\ Calm => Settled
    /\ slot' = s
    /\ UNCHANGED <<hk, redis, api>>

\* A head event for slot s is on its way: for the newest head or, where no slot
\* was missed, for an older one that some beacon node reports late.
Announced(s) == s <= slot /\ (leg.skip > 0 => s = slot)

\* slots since the last update, as unsigned subtraction computes them
SlotsSince(s, d) == (s - d) % 2 ^ Width

\* updateProposerDuties returns at the gate (period 8 in the API, half an epoch
\* in the housekeeper)
Gate(s, d, period) == d > 0 /\ s % period # 0 /\ SlotsSince(s, d) < period

-----------------------------------------------------------------------------
(* The housekeeper *)

HalfEpoch == SlotsPerEpoch \div 2

\* processNewSlot: a head event of any beacon node, newer than the last
HkNewSlot(s) ==
    /\ Announced(s) /\ s > hkHead
    /\ Cardinality(hkPending) < MaxPending
    /\ hkHead' = s
    /\ hkPending' = hkPending \cup {s}
    /\ UNCHANGED <<slot, hkBusy, hkSlot, redis, api>>

\* updateProposerDuties: dropped while another runs, or returning at the gate.
\* (One that meets the flag of a goroutine about to return at the gate ends like
\* one whose queries fail.)
HkEnter(s) ==
    /\ s \in hkPending
    /\ hkPending' = hkPending \ {s}
    /\ hkBusy' = IF hkBusy = 0 /\ ~Gate(s, hkSlot, HalfEpoch) THEN s ELSE hkBusy
    /\ UNCHANGED <<slot, hkHead, hkSlot, redis, api>>

\* The next epoch's query may fail on its own: its duties are left out.
NextEpoch(fails) == IF fails THEN {} ELSE {Epoch(hkBusy) + 1}

\* Mutation of Fetched: only the epoch of the slot is asked for.
FetchedOneEpoch(fails) == {Epoch(hkBusy)} \cap Registered

\* The duties of both epochs, restricted to proposers with a registration
Fetched(fails) == ({Epoch(hkBusy)} \cup NextEpoch(fails)) \cap Registered

\* UpdateProposerDutiesWithoutChecks: the duties replace those in Redis.
HkUpdate(nextFails) ==
    /\ hkBusy # 0
    /\ nextFails => MayFail
    /\ redis' = Fetched(nextFails)
    /\ hkSlot' = hkBusy
    /\ hkBusy' = 0
    /\ UNCHANGED <<slot, hkHead, hkPending, api>>

\* The first query, the database or the write to Redis fails.
HkFail ==
    /\ MayFail
    /\ hkBusy # 0
    /\ hkBusy' = 0
    /\ UNCHANGED <<slot, hkHead, hkPending, hkSlot, redis, api>>

-----------------------------------------------------------------------------
(* The API *)

ApiNewSlot(s) ==
    /\ Announced(s) /\ s > apiHead
    /\ Cardinality(apiPending) < MaxPending
    /\ apiHead' = s
    /\ apiPending' = apiPending \cup {s}
    /\ UNCHANGED <<slot, hk, redis, apiBusy, loaded, apiSlot, apiMap>>

\* A goroutine that finds no other update running goes on to Redis.
ApiDue(s) == ~Gate(s, apiSlot, 8)

ApiEnter(s) ==
    /\ s \in apiPending
    /\ apiPending' = apiPending \ {s}
    /\ apiBusy' = IF apiBusy = 0 /\ ApiDue(s) THEN s ELSE apiBusy
    /\ UNCHANGED <<slot, hk, redis, apiHead, loaded, apiSlot, apiMap>>

\* redis.GetProposerDuties
ApiLoad ==
    /\ apiBusy # 0 /\ loaded = Unread
    /\ loaded' = redis
    /\ UNCHANGED <<slot, hk, redis, apiHead, apiPending, apiBusy, apiSlot, apiMap>>

ApiLoadFails ==
    /\ MayFail
    /\ apiBusy # 0 /\ loaded = Unread
    /\ apiBusy' = 0
    /\ UNCHANGED <<slot, hk, redis, apiHead, apiPending, loaded, apiSlot, apiMap>>

\* Mutation of GateSlot: the gate advances whether or not there were duties.
GateSlotAlways == apiBusy

\* The gate slot advances only when there were duties.
GateSlot == IF loaded = {} THEN apiSlot ELSE apiBusy

\* The map and the response are replaced under the lock.
ApiStore ==
    /\ apiBusy # 0 /\ loaded # Unread
    /\ apiMap' = loaded
    /\ apiSlot' = GateSlot
    /\ apiBusy' = 0 /\ loaded' = Unread
    /\ UNCHANGED <<slot, hk, redis, apiHead, apiPending>>

Step == \/ \E s \in Slots : Advance(s) \/ HkNewSlot(s) \/ ApiNewSlot(s)
        \/ \E s \in hkPending : HkEnter(s)
        \/ \E f \in BOOLEAN : HkUpdate(f)
        \/ HkFail
        \/ \E s \in apiPending : ApiEnter(s)
        \/ ApiLoad \/ ApiLoadFails \/ ApiStore

DutiesNext == Step /\ UNCHANGED leg

DutiesSpec == DutiesInit /\ [][DutiesNext]_dutiesVars

-----------------------------------------------------------------------------
(* Properties *)

DutiesTypeOK == /\ slot \in Slots
                /\ hkHead \in Slots /\ hkPending \subseteq Slots
                /\ hkBusy \in Slots /\ hkSlot \in Slots
                /\ redis \subseteq Epochs
                /\ apiHead \in Slots /\ apiPending \subseteq Slots
                /\ apiBusy \in Slots /\ apiSlot \in Slots
                /\ loaded \in {Unread} \cup SUBSET Epochs
                /\ apiMap \subseteq Epochs
                /\ leg \in Legs

\* checkSubmissionFeeRecipient refuses a bid for a slot without a duty in the
\* map.  If goroutines keep up with the chain and nothing fails, the proposer
\* of the next slot is in the map of every instance that has loaded duties
\* once, across epoch boundaries and missed slots, although neither the
\* housekeeper nor the API updates in every slot.  Only an instance that has
\* just started may work with duties an earlier housekeeper left in Redis: they
\* close its gate for eight slots, and for those missed after them.
DutiesCoverNextSlot ==
    /\ Calm
    /\ apiSlot > 0 /\ apiHead > leg.from + 8 + leg.skip
    /\ Epoch(apiHead + 1) \in Registered
    => Epoch(apiHead + 1) \in apiMap

\* "Only advance the gate slot when we actually got duties; otherwise let the
\* next head event retry": as long as there are duties to be had in every epoch,
\* no goroutine of a head slot is stopped at the gate while the map is empty,
\* however late it runs and whatever failed before.
EmptyIsRetried ==
    (Epochs \subseteq Registered /\ apiMap = {} /\ apiBusy = 0)
        => \A s \in apiPending : ApiDue(s)

-----------------------------------------------------------------------------
\* What comments of the code say and the code does not do.  TLC finds a
\* counterexample to each when it is added to MCProposerDuties.cfg.

\* "Update once every 8 slots (or more, if a slot was missed)": an update that
\* is not for a multiple of 8 is at least 8 slots after the one before.
UpdateSpacing ==
    [][apiSlot' # apiSlot /\ apiSlot > 0
          => apiSlot' % 8 = 0 \/ apiSlot' - apiSlot >= 8]_dutiesVars

\* "otherwise let the next head event retry (Redis may not be populated yet by
\* the housekeeper)": duties an earlier housekeeper left count as populated.
CoveredOnceLoaded ==
    Calm /\ apiSlot > 0 /\ Epoch(apiHead + 1) \in Registered => Epoch(apiHead + 1) \in apiMap
=============================================================================
