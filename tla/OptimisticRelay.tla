-------------------------- MODULE OptimisticRelay --------------------------
(***************************************************************************)
(* Optimistic relaying (services/api/service.go): submissions of trusted   *)
(* builders become eligible before they are simulated, a goroutine         *)
(* simulates them later and demotes the builder when that fails, and       *)
(* getPayload looks for a demotion of the block it was asked for.  Each    *)
(* API instance has its own builder cache, optimistic slot and WaitGroup;  *)
(* the database is shared.                                                 *)
(*                                                                         *)
(* One action is one database call or one access to state that goroutines  *)
(* share.  A cache entry is a pointer: a submission keeps the entry of the *)
(* cache generation it looked up.                                          *)
(***************************************************************************)
EXTENDS Integers, FiniteSets

CONSTANTS
    Instances,
    Builders,
    Ids,                \* values of builder_id; "" when none was set
    Values,             \* bid values
    Amounts,            \* collaterals the operator may enter
    Submissions,
    MaxSlot,            \* the last head slot
    Setups,             \* the deployments considered
    Nobody              \* no builder, no instance

(***************************************************************************)
(* A deployment: the last head slot each instance sees, 0 for one that is  *)
(* not running; the submissions made; how often an operator changes a      *)
(* builder's row; the rows at the start: is_optimistic, builder_id and     *)
(* collateral; the flags ffDisableDemotion, ffOptimisticAllSlots and       *)
(* ffIgnorableValidationErrors.                                            *)
(***************************************************************************)
ASSUME SetupAssumption ==
    /\ MaxSlot \in Nat \ {0}
    /\ \A c \in Setups :
         /\ c.last \in [Instances -> 0..MaxSlot]
         /\ c.submissions \subseteq Submissions
         /\ c.changes \in Nat
         /\ c.optimistic \in [Builders -> BOOLEAN]
         /\ c.id \in [Builders -> Ids] /\ c.collateral \in [Builders -> Nat]
         /\ c.disableDemotion \in BOOLEAN /\ c.allSlots \in BOOLEAN
         /\ c.ignoreErrors \in BOOLEAN
ASSUME ValuesAssumption == Values \subseteq Nat /\ Amounts \subseteq Nat
ASSUME NobodyAssumption == Nobody \notin Builders \cup Instances

HeadSlots == 1..MaxSlot
Generations == 0..MaxSlot  \* every head slot installs at most one cache

VARIABLES
    setup,         \* the deployment, chosen once
    isOptimistic,  \* is_optimistic of block_builder in the database
    builderId,     \* builder_id of block_builder
    collateral,    \* collateral of block_builder
    demotions,     \* rows of builder_demotions
    refunds,       \* those rows with the signed block filled in
    headSlot, optimisticSlot,
    generation,    \* generation[i]: number of the installed builder cache
    entry,         \* entry[i][g][b]: b's entry in cache g
    prepare,       \* prepare[i][n]: the next step of prepareBuildersForSlot(n)
    loaded,        \* loaded[i][n]: what it read from the database and has yet to install
    pc, msg,       \* handleSubmitNewBlock
    sim,           \* sim[s]: processOptimisticBlock
    demoteId,      \* demoteId[s]: the builder_id its demotion has read
    eligible,      \* submissions whose bid is in Redis and can win
    delivery,      \* delivery[s]: the deferred part of getPayload for s's block
    deliverer,     \* deliverer[s]: the instance that runs it
    answer,        \* answer[s]: how that getPayload ended
    admin, changes,\* the handleInternalBuilderStatus in progress, and how many
                   \* changes of a row began
    lowered,       \* history: the builders whose collateral was lowered
    dbFailed       \* history: a database call has failed

builderRows == <<isOptimistic, builderId, collateral>>
database == <<builderRows, demotions, refunds>>
cache == <<generation, entry>>
preparing == <<prepare, loaded>>
submitting == <<pc, msg, eligible>>
simulating == <<sim, demoteId>>
delivering == <<delivery, deliverer, answer>>
operator == <<admin, changes, lowered>>
vars == <<setup, database, headSlot, optimisticSlot, cache, preparing, submitting,
          simulating, delivering, operator, dbFailed>>

Entries == [optimistic : BOOLEAN, collateral : Nat]
NoEntries == [b \in Builders |-> [optimistic |-> FALSE, collateral |-> 0]]
Unread == "unread"
Requests == [instance : Instances, builder : Builders, slot : 1..(MaxSlot + 1),
             value : Values, validation : {"valid", "ignorable", "invalid"},
             gen : Generations]
NoRequest == [builder |-> Nobody]
NoChange == [builder |-> Nobody]

Up == {i \in Instances : setup.last[i] > 0}
DisableDemotion == setup.disableDemotion
OptimisticAllSlots == setup.allSlots
IgnorableValidationErrors == setup.ignoreErrors
DatabaseFails == dbFailed' = TRUE

(* optimisticBlocksWG of instance i: the goroutines past WG.Add. *)
Running(i) ==
    {s \in Submissions : sim[s] \in {"running", "failed", "identified", "flagged"} /\ msg[s].instance = i}

(***************************************************************************)
(* StartServer runs processNewSlot for the head slot before it serves; the *)
(* first cache is empty.                                                   *)
(***************************************************************************)
Init ==
    /\ setup \in Setups
    /\ isOptimistic = setup.optimistic /\ builderId = setup.id /\ collateral = setup.collateral
    /\ demotions = {} /\ refunds = {}
    /\ headSlot = [i \in Instances |-> 1]
    /\ optimisticSlot = [i \in Instances |-> 0]
    /\ generation = [i \in Instances |-> 0]
    /\ entry = [i \in Instances |-> [g \in Generations |-> NoEntries]]
    /\ prepare = [i \in Instances |->
                    [n \in HeadSlots |-> IF n = 1 /\ i \in Up THEN "wait" ELSE "none"]]
    /\ loaded = [i \in Instances |-> [n \in HeadSlots |-> NoEntries]]
    /\ pc = [s \in Submissions |-> "new"]
    /\ msg = [s \in Submissions |-> NoRequest]
    /\ sim = [s \in Submissions |-> "none"]
    /\ demoteId = [s \in Submissions |-> Unread]
    /\ eligible = {}
    /\ delivery = [s \in Submissions |-> "none"]
    /\ deliverer = [s \in Submissions |-> Nobody]
    /\ answer = [s \in Submissions |-> "none"]
    /\ admin = NoChange /\ changes = 0 /\ lowered = {}
    /\ dbFailed = FALSE

(***************************************************************************)
(* processNewSlot: a later head slot starts prepareBuildersForSlot in a    *)
(* goroutine of its own.                                                   *)
(***************************************************************************)
NewSlot(i) ==
    /\ \E n \in HeadSlots :
         /\ n > headSlot[i] /\ n <= setup.last[i]
         /\ headSlot' = [headSlot EXCEPT ![i] = n]
         /\ prepare' = [prepare EXCEPT ![i][n] = "wait"]
    /\ UNCHANGED <<database, optimisticSlot, cache, loaded, submitting, simulating, delivering,
                   operator, dbFailed>>

(***************************************************************************)
(* prepareBuildersForSlot(n): optimisticBlocksWG.Wait(), store the slot,   *)
(* read the builders from the database, install a new cache.               *)
(***************************************************************************)
PrepareWait(i, n) ==
    /\ prepare[i][n] = "wait"
    /\ Running(i) = {}
    /\ prepare' = [prepare EXCEPT ![i][n] = "store"]
    /\ UNCHANGED <<database, headSlot, optimisticSlot, cache, loaded, submitting, simulating, delivering,
                   operator, dbFailed>>

PrepareStore(i, n) ==
    /\ prepare[i][n] = "store"
    /\ optimisticSlot' = [optimisticSlot EXCEPT ![i] = n + 1]
    /\ prepare' = [prepare EXCEPT ![i][n] = "load"]
    /\ UNCHANGED <<database, headSlot, cache, loaded, submitting, simulating, delivering, operator, dbFailed>>

\* The cache entries for the builders' rows
Cached == [b \in Builders |-> [optimistic |-> isOptimistic[b], collateral |-> collateral[b]]]

PrepareLoad(i, n) ==
    /\ prepare[i][n] = "load"
    /\ \/ /\ prepare' = [prepare EXCEPT ![i][n] = "install"]
          /\ loaded' = [loaded EXCEPT ![i][n] = Cached]
          /\ UNCHANGED dbFailed
       \/ /\ DatabaseFails
          /\ prepare' = [prepare EXCEPT ![i][n] = "done"]
          /\ UNCHANGED loaded
    /\ UNCHANGED <<database, headSlot, optimisticSlot, cache, submitting, simulating, delivering, operator>>

PrepareInstall(i, n) ==
    /\ prepare[i][n] = "install"
    /\ generation' = [generation EXCEPT ![i] = @ + 1]
    /\ entry' = [entry EXCEPT ![i][generation[i] + 1] = loaded[i][n]]
    /\ prepare' = [prepare EXCEPT ![i][n] = "done"]
    /\ loaded' = [loaded EXCEPT ![i][n] = NoEntries]
    /\ UNCHANGED <<database, headSlot, optimisticSlot, submitting, simulating, delivering, operator,
                   dbFailed>>

Prepare(i, n) ==
    PrepareWait(i, n) \/ PrepareStore(i, n) \/ PrepareLoad(i, n) \/ PrepareInstall(i, n)

(***************************************************************************)
(* handleSubmitNewBlock up to checkBuilderEntry: the slot must be after    *)
(* the head; the builder's cache entry is looked up once.  An ignorable    *)
(* validation error is one like any other unless the flag is set.          *)
(***************************************************************************)
Submit(s) ==
    /\ pc[s] = "new" /\ s \in setup.submissions
    /\ \E m \in Requests :
         /\ m.instance \in Up
         /\ m.slot > headSlot[m.instance]
         /\ m.gen = generation[m.instance]
         /\ m.validation = "ignorable" => IgnorableValidationErrors
         /\ msg' = [msg EXCEPT ![s] = m]
    /\ pc' = [pc EXCEPT ![s] = "decide"]
    /\ UNCHANGED <<database, headSlot, optimisticSlot, cache, preparing, eligible, simulating, delivering,
                   operator, dbFailed>>

(***************************************************************************)
(* The decision.  The optimistic path starts a goroutine and goes on; the  *)
(* other one simulates first and refuses what does not validate.  With     *)
(* ffIgnorableValidationErrors simulateBlock reports no error for a block  *)
(* whose error is ignorable.                                               *)
(***************************************************************************)
Accepted(s) ==
    \/ msg[s].validation = "valid"
    \/ msg[s].validation = "ignorable" /\ IgnorableValidationErrors

Entry(s) == entry[msg[s].instance][msg[s].gen][msg[s].builder]

\* Mutation of Trusted: the collateral is not compared with the value.
TrustedUnfunded(s) ==
    /\ Entry(s).optimistic
    /\ msg[s].slot = optimisticSlot[msg[s].instance]

Trusted(s) ==
    /\ Entry(s).optimistic
    /\ Entry(s).collateral >= msg[s].value
    /\ msg[s].slot = optimisticSlot[msg[s].instance]

Decide(s) ==
    /\ pc[s] = "decide"
    /\ \/ /\ OptimisticAllSlots \/ Trusted(s)
          /\ sim' = [sim EXCEPT ![s] = "spawned"]
          /\ pc' = [pc EXCEPT ![s] = "save"]
       \/ /\ ~(OptimisticAllSlots \/ Trusted(s))
          /\ \/ Accepted(s) /\ pc' = [pc EXCEPT ![s] = "save"]
             \/ pc' = [pc EXCEPT ![s] = "done"]
          /\ UNCHANGED sim
    /\ UNCHANGED <<database, headSlot, optimisticSlot, cache, preparing, msg, eligible, demoteId,
                   delivering, operator, dbFailed>>

(***************************************************************************)
(* The rest of the handler, as far as it matters here: the bid is saved,   *)
(* or not (a newer one is there, the top bid does not change, an error).   *)
(***************************************************************************)
Save(s) ==
    /\ pc[s] = "save"
    /\ eligible' \in {eligible, eligible \cup {s}}
    /\ pc' = [pc EXCEPT ![s] = "done"]
    /\ UNCHANGED <<database, headSlot, optimisticSlot, cache, preparing, msg, simulating, delivering,
                   operator, dbFailed>>

(***************************************************************************)
(* processOptimisticBlock.  The goroutine itself does WG.Add(1).           *)
(***************************************************************************)
StartSimulation(s) ==
    /\ sim[s] = "spawned"
    /\ sim' = [sim EXCEPT ![s] = "running"]
    /\ UNCHANGED <<database, headSlot, optimisticSlot, cache, preparing, submitting, demoteId,
                   delivering, operator, dbFailed>>

(***************************************************************************)
(* The simulation reports no error, fails in a way isTransientSimError     *)
(* recognises, or fails; a failed request counts as a failure, so a block  *)
(* of any kind can take either way.  A failure clears the flag of the      *)
(* entry the submission looked up.                                         *)
(***************************************************************************)
Simulate(s) ==
    /\ sim[s] = "running"
    /\ \/ sim' = [sim EXCEPT ![s] = "finished"] /\ UNCHANGED entry
       \/ /\ entry' = [entry EXCEPT ![msg[s].instance][msg[s].gen][msg[s].builder] =
                        [optimistic |-> FALSE, collateral |-> Entry(s).collateral]]
          /\ sim' = [sim EXCEPT ![s] = IF DisableDemotion THEN "finished" ELSE "failed"]
    /\ UNCHANGED <<database, headSlot, optimisticSlot, generation, preparing, submitting,
                   demoteId, delivering, operator, dbFailed>>

(***************************************************************************)
(* demoteBuilder: the builder_id is read, the status of all pubkeys with   *)
(* that id is cleared, the demotion row is written; an error is logged and *)
(* does not stop what follows.  A builder without an id keeps its status.  *)
(***************************************************************************)
DemoteRead(s) ==
    /\ sim[s] = "failed"
    /\ \/ /\ builderId[msg[s].builder] # ""
          /\ demoteId' = [demoteId EXCEPT ![s] = builderId[msg[s].builder]]
          /\ sim' = [sim EXCEPT ![s] = "identified"]
          /\ UNCHANGED dbFailed
       \/ /\ builderId[msg[s].builder] = ""
          /\ sim' = [sim EXCEPT ![s] = "flagged"]
          /\ UNCHANGED <<demoteId, dbFailed>>
       \/ /\ DatabaseFails
          /\ sim' = [sim EXCEPT ![s] = "flagged"]
          /\ UNCHANGED demoteId
    /\ UNCHANGED <<database, headSlot, optimisticSlot, cache, preparing, submitting,
                   delivering, operator>>

\* Mutation of DemoteStatus: the other pubkeys of the builder stay optimistic.
DemoteOnePubkey(s) ==
    /\ sim[s] = "identified"
    /\ isOptimistic' = [isOptimistic EXCEPT ![msg[s].builder] = FALSE]
    /\ sim' = [sim EXCEPT ![s] = "flagged"]
    /\ UNCHANGED <<builderId, collateral, demotions, refunds, headSlot, optimisticSlot, cache,
                   preparing, submitting, demoteId, delivering, operator, dbFailed>>

DemoteStatus(s) ==
    /\ sim[s] = "identified"
    /\ \/ /\ isOptimistic' = [b \in Builders |->
                               isOptimistic[b] /\ builderId[b] # demoteId[s]]
          /\ UNCHANGED dbFailed
       \/ DatabaseFails /\ UNCHANGED isOptimistic
    /\ sim' = [sim EXCEPT ![s] = "flagged"]
    /\ UNCHANGED <<builderId, collateral, demotions, refunds, headSlot, optimisticSlot, cache,
                   preparing, submitting, demoteId, delivering, operator>>

\* Mutation of DemoteRow: the WaitGroup is not released.
DemoteRowLeaksGroup(s) ==
    /\ sim[s] = "flagged"
    /\ demotions' = demotions \cup {s}
    /\ UNCHANGED <<simulating, builderRows, refunds, headSlot, optimisticSlot, cache, preparing,
                   submitting, delivering, operator, dbFailed>>

DemoteRow(s) ==
    /\ sim[s] = "flagged"
    /\ \/ demotions' = demotions \cup {s} /\ UNCHANGED dbFailed
       \/ DatabaseFails /\ UNCHANGED demotions
    /\ sim' = [sim EXCEPT ![s] = "demoted"]
    /\ UNCHANGED <<builderRows, refunds, headSlot, optimisticSlot, cache, preparing, submitting,
                   demoteId, delivering, operator>>

Simulation(s) ==
    StartSimulation(s) \/ Simulate(s) \/ DemoteRead(s) \/ DemoteStatus(s) \/ DemoteRow(s)

(***************************************************************************)
(* getPayload with a valid signature for a block whose bid trace is in     *)
(* Redis, on any instance; each block is asked for at most once.  Its      *)
(* deferred function runs however the call ends: the payload is not found, *)
(* the call is refused later (the slot or another block of it was already  *)
(* delivered, it comes too late, the contents differ, no beacon node       *)
(* accepts the block), or the block is delivered.  The function waits for  *)
(* the WaitGroup of its own instance, then looks for a demotion to         *)
(* complete, which needs the payload.                                      *)
(***************************************************************************)
Answers == {"missing", "refused", "delivered"}

GetPayload(s, i) ==
    /\ s \in eligible /\ i \in Up /\ delivery[s] = "none"
    /\ delivery' = [delivery EXCEPT ![s] = "wait"]
    /\ deliverer' = [deliverer EXCEPT ![s] = i]
    /\ \E a \in Answers : answer' = [answer EXCEPT ![s] = a]
    /\ UNCHANGED <<database, headSlot, optimisticSlot, cache, preparing, submitting, simulating,
                   operator, dbFailed>>

RefundWait(s) ==
    /\ delivery[s] = "wait"
    /\ Running(deliverer[s]) = {}
    /\ delivery' = [delivery EXCEPT ![s] = "check"]
    /\ UNCHANGED <<database, headSlot, optimisticSlot, cache, preparing, submitting, simulating, deliverer,
                   answer, operator, dbFailed>>

\* Mutation of RefundCheck: the demotion is not looked up.
RefundEveryDelivery(s) ==
    /\ delivery[s] = "check"
    /\ refunds' = refunds \cup {s}
    /\ delivery' = [delivery EXCEPT ![s] = "done"]
    /\ UNCHANGED <<builderRows, demotions, headSlot, optimisticSlot, cache, preparing, submitting,
                   simulating, deliverer, answer, operator, dbFailed>>

RefundCheck(s) ==
    /\ delivery[s] = "check"
    /\ \/ /\ answer[s] # "missing"
          /\ refunds' = refunds \cup ({s} \cap demotions)
          /\ UNCHANGED dbFailed
       \/ answer[s] = "missing" /\ UNCHANGED <<refunds, dbFailed>>
       \/ DatabaseFails /\ UNCHANGED refunds
    /\ delivery' = [delivery EXCEPT ![s] = "done"]
    /\ UNCHANGED <<builderRows, demotions, headSlot, optimisticSlot, cache, preparing, submitting,
                   simulating, deliverer, answer, operator>>

(***************************************************************************)
(* handleInternalBuilderStatus: read the builder's row, change what the    *)
(* operator asked for, write all the flags back.                           *)
(***************************************************************************)
StatusRead(b) ==
    /\ admin = NoChange /\ changes < setup.changes
    /\ changes' = changes + 1
    /\ \E o \in {isOptimistic[b], TRUE, FALSE} : admin' = [builder |-> b, optimistic |-> o]
    /\ UNCHANGED <<database, headSlot, optimisticSlot, cache, preparing, submitting, simulating,
                   delivering, lowered, dbFailed>>

StatusWrite ==
    /\ admin # NoChange
    /\ \/ /\ isOptimistic' = [isOptimistic EXCEPT ![admin.builder] = admin.optimistic]
          /\ UNCHANGED dbFailed
       \/ DatabaseFails /\ UNCHANGED isOptimistic
    /\ admin' = NoChange
    /\ UNCHANGED <<builderId, collateral, demotions, refunds, headSlot, optimisticSlot, cache,
                   preparing, submitting, simulating, delivering, changes, lowered>>

(***************************************************************************)
(* handleInternalBuilderCollateral: one UPDATE of id and collateral.       *)
(***************************************************************************)
SetCollateral(b, id, amount) ==
    /\ changes < setup.changes
    /\ changes' = changes + 1
    /\ builderId' = [builderId EXCEPT ![b] = id]
    /\ collateral' = [collateral EXCEPT ![b] = amount]
    /\ lowered' = IF amount < collateral[b] THEN lowered \cup {b} ELSE lowered
    /\ UNCHANGED <<isOptimistic, demotions, refunds, headSlot, optimisticSlot, cache, preparing,
                   submitting, simulating, delivering, admin, dbFailed>>

Step ==
    \/ \E i \in Instances : NewSlot(i) \/ \E n \in HeadSlots : Prepare(i, n)
    \/ \E s \in Submissions : Submit(s) \/ Decide(s) \/ Save(s) \/ Simulation(s)
    \/ \E s \in Submissions, i \in Instances : GetPayload(s, i)
    \/ \E s \in Submissions : RefundWait(s) \/ RefundCheck(s)
    \/ \E b \in Builders : StatusRead(b)
    \/ StatusWrite
    \/ \E b \in Builders, id \in Ids, a \in Amounts : SetCollateral(b, id, a)

Next == Step /\ UNCHANGED setup

Spec == Init /\ [][Next]_vars

(***************************************************************************)
(* Goroutines are scheduled and the simulation request has a timeout.      *)
(***************************************************************************)
FairSpec ==
    /\ Spec
    /\ \A s \in Submissions :
         /\ WF_vars(Simulation(s) /\ UNCHANGED setup)
         /\ WF_vars(RefundWait(s) /\ UNCHANGED setup)
         /\ WF_vars(RefundCheck(s) /\ UNCHANGED setup)
    /\ \A i \in Instances, n \in HeadSlots : WF_vars(Prepare(i, n) /\ UNCHANGED setup)

-----------------------------------------------------------------------------
(* The values the variables take; the cache generations do not run out. *)
TypeOK ==
    /\ setup \in Setups
    /\ isOptimistic \in [Builders -> BOOLEAN]
    /\ builderId \in [Builders -> Ids] /\ collateral \in [Builders -> Nat]
    /\ demotions \subseteq Submissions /\ refunds \subseteq Submissions
    /\ headSlot \in [Instances -> HeadSlots]
    /\ optimisticSlot \in [Instances -> 0..(MaxSlot + 1)]
    /\ generation \in [Instances -> Generations]
    /\ entry \in [Instances -> [Generations -> [Builders -> Entries]]]
    /\ prepare \in [Instances ->
         [HeadSlots -> {"none", "wait", "store", "load", "install", "done"}]]
    /\ loaded \in [Instances -> [HeadSlots -> [Builders -> Entries]]]
    /\ pc \in [Submissions -> {"new", "decide", "save", "done"}]
    /\ msg \in [Submissions -> Requests \cup {NoRequest}]
    /\ sim \in [Submissions ->
         {"none", "spawned", "running", "failed", "identified", "flagged", "demoted", "finished"}]
    /\ demoteId \in [Submissions -> Ids \cup {Unread}]
    /\ eligible \subseteq Submissions
    /\ delivery \in [Submissions -> {"none", "wait", "check", "done"}]
    /\ deliverer \in [Submissions -> Instances \cup {Nobody}]
    /\ answer \in [Submissions -> Answers \cup {"none"}]
    /\ admin \in [builder : Builders, optimistic : BOOLEAN] \cup {NoChange}
    /\ changes \in Nat /\ lowered \subseteq Builders /\ dbFailed \in BOOLEAN

(***************************************************************************)
(* A block with a validation error can only win the auction when the       *)
(* collateral on record for its builder covers its value, although the     *)
(* decision is made from a cache: an instance that has not yet seen a      *)
(* raised collateral, or a failed reload, errs on the safe side.  Only     *)
(* collateral that an operator lowered meanwhile can be missing.  The      *)
(* exceptions are the operator's flags: with ffOptimisticAllSlots no cover *)
(* is asked for, and with ffIgnorableValidationErrors none for a block     *)
(* whose error is ignorable.                                               *)
(***************************************************************************)
InvalidIsFunded ==
    ~OptimisticAllSlots =>
        \A s \in eligible :
            \/ msg[s].validation = "valid"
            \/ IgnorableValidationErrors /\ msg[s].validation = "ignorable"
            \/ msg[s].value <= collateral[msg[s].builder]
            \/ msg[s].builder \in lowered

(***************************************************************************)
(* No builder with a demotion on record and a builder id, and no pubkey    *)
(* with the same id, is still optimistic in the database, unless an        *)
(* operator changed a row or the database failed.                          *)
(***************************************************************************)
DemotionIsEffective ==
    changes = 0 /\ ~dbFailed =>
        \A s \in demotions, b \in Builders :
            builderId[msg[s].builder] # "" /\ builderId[b] = builderId[msg[s].builder]
                => ~isOptimistic[b]

(***************************************************************************)
(* Refund data is only ever recorded for a block that became eligible      *)
(* unsimulated, whose simulation then failed, and whose payload the relay  *)
(* had at hand when the proposer signed for it.                            *)
(***************************************************************************)
RefundIsDue ==
    \A s \in refunds : /\ delivery[s] = "done" /\ answer[s] # "missing"
                       /\ sim[s] = "demoted"
                       /\ s \in eligible

(***************************************************************************)
(* WG.Wait() in prepareBuildersForSlot and in getPayload returns: after    *)
(* the last slot and the last submission no goroutine is left waiting, and *)
(* each has gone on to its end.                                            *)
(***************************************************************************)
WaitsEnd ==
    <>[](/\ \A i \in Instances, n \in HeadSlots : prepare[i][n] \in {"none", "done"}
         /\ \A s \in Submissions : delivery[s] \in {"none", "done"})

-----------------------------------------------------------------------------
(***************************************************************************)
(* What comments of the code say and the code does not do.  TLC finds a    *)
(* counterexample to each when it is added to MCOptimisticRelay.cfg.       *)
(***************************************************************************)

(***************************************************************************)
(* "Save information about delivered payload": refund data is recorded for *)
(* a block that was delivered.  The deferred function also runs when the   *)
(* call is refused after the signature check.                              *)
(***************************************************************************)
RefundIsForDelivered ==
    \A s \in refunds : answer[s] = "delivered"

(***************************************************************************)
(* "Wait until optimistic blocks are complete": when everything is over, a *)
(* delivered block with a demotion has its refund data.                    *)
(***************************************************************************)
RefundIsRecorded ==
    \A s \in demotions : delivery[s] = "done" /\ answer[s] = "delivered" => s \in refunds

(***************************************************************************)
(* "update the optimistic slot": once the goroutines of all head slots are *)
(* done, the optimistic slot is the one after the head.                    *)
(***************************************************************************)
SlotFollowsHead ==
    \A i \in Instances :
        i \in Up /\ (\A n \in HeadSlots : prepare[i][n] \in {"none", "done"})
            => optimisticSlot[i] = headSlot[i] + 1

(***************************************************************************)
(* "Mark builder as non-optimistic": a builder demoted through an instance *)
(* is not optimistic in the cache that instance uses.                      *)
(***************************************************************************)
DemotedInCache ==
    \A s \in Submissions :
        sim[s] = "demoted" =>
            ~entry[msg[s].instance][generation[msg[s].instance]][msg[s].builder].optimistic

(***************************************************************************)
(* "demoting builder": a builder with a demotion on record is not          *)
(* optimistic in the database; one without a builder id stays optimistic.  *)
(***************************************************************************)
DemotedIsNotOptimistic ==
    changes = 0 /\ ~dbFailed => \A s \in demotions : ~isOptimistic[msg[s].builder]
=============================================================================
