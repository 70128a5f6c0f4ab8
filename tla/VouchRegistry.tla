---------------------------- MODULE VouchRegistry ----------------------------
(***************************************************************************)
(* The registry of Vouch validators (services/registry) and the check of   *)
(* fee recipients that rests on it.  A sync walks the pubkey lists of the  *)
(* contract's nodes with a pool of workers, replaces the set in memory and *)
(* then the copy in Redis; a restart begins with that copy.  A validator   *)
(* in the set may only register, and only gets bids for, the protocol fee  *)
(* recipient.                                                              *)
(*                                                                         *)
(* One relay instance is modelled step by step.  The other instances sync  *)
(* on their own and write the same copy: of each of their syncs the model  *)
(* has the beginning and the write, of a set that SyncIsComplete allows.   *)
(*                                                                         *)
(* The contract is external: lists of pubkeys that only grow.              *)
(***************************************************************************)
EXTENDS Integers, Sequences, FiniteSets, Functions

CONSTANTS
    Nodes, Pubkeys,
    Static,         \* pubkeys of the static file
    Workers,        \* enumerationWorkers
    BatchSize,      \* pubkeysBatchSize
    Settings,       \* what may happen in a behaviour: the kinds of faults, and as
                    \* bounds the restarts of this instance and the syncs of
                    \* other instances at the same time
    Protocol, Other, Unregistered  \* fee recipients

ASSUME WalkAssumption == Workers \in Nat \ {0} /\ BatchSize \in Nat \ {0}

(* A call of a node walk fails, the node answers as if there were no       *)
(* contract, a Redis call fails.                                           *)
FaultKinds == {"walk", "empty", "redis"}
ASSUME SettingsAssumption ==
    Settings \subseteq [faults : SUBSET FaultKinds, restarts : Nat, others : Nat]
ASSUME RecipientsAssumption ==
    Static \subseteq Pubkeys /\ Protocol # Other /\ Unregistered \notin {Protocol, Other}

VARIABLES
    lists,       \* lists[n]: pubkeysOfNode of the contract
    pubkeys,     \* the set in memory
    saved,       \* the copy in Redis, of all instances
    phase,       \* of sync: "idle", "walk", "save"; "down" before New
    todo,        \* nodes not handed to a worker yet
    next,        \* next[n]: the next index to read of a node being walked, 0 if none
    found,       \* set
    restarts,
    before,      \* history: the pubkeys on the contract when the sync began
    known,       \* history: the pubkeys this instance has saved or loaded
    syncs,       \* of other instances: the pubkeys on the contract when each began
    dropped,     \* history: the pubkeys a write of another instance took from the copy
    faults,      \* history: the kinds of faults that have happened
    registered,  \* registered[k]: fee recipient of the registration of k
    unlocked,    \* history: the known pubkeys that got a bid for another recipient
    setting      \* of this behaviour

enumeration == <<todo, next, found, before>>
others == <<syncs, dropped>>
service == <<registered, unlocked>>
registryVars ==
    <<lists, pubkeys, saved, phase, enumeration, restarts, known, others, faults, service,
      setting>>

Recipients == {Protocol, Other}
OnContract == UNION {Range(lists[n]) : n \in Nodes}
Walking == {n \in Nodes : next[n] > 0}
NoWalk == [n \in Nodes |-> 0]

Fault(kind) == kind \in setting.faults /\ faults' = faults \cup {kind}

RegistryInit ==
    /\ setting \in Settings
    /\ lists = [n \in Nodes |-> <<>>]
    /\ pubkeys = {} /\ saved = {} /\ known = {}
    /\ phase = "down"
    /\ todo = {} /\ next = NoWalk /\ found = {} /\ before = {}
    /\ restarts = 0
    /\ registered = [k \in Pubkeys |-> Unregistered]
    /\ syncs = {} /\ dropped = {}
    /\ faults = {} /\ unlocked = {}

(***************************************************************************)
(* New and Start.  The copy in Redis replaces the static file unless it is *)
(* empty or cannot be read.                                                *)
(***************************************************************************)
New ==
    /\ phase = "down"
    /\ \/ /\ pubkeys' = (IF saved # {} THEN saved ELSE Static)
          /\ known' = known \cup saved /\ UNCHANGED faults
       \/ Fault("redis") /\ pubkeys' = Static /\ UNCHANGED known
    /\ phase' = "idle"
    /\ UNCHANGED <<lists, saved, enumeration, restarts, service, others>>

Crash ==
    /\ phase # "down" /\ restarts < setting.restarts
    /\ restarts' = restarts + 1
    /\ pubkeys' = {}
    /\ phase' = "down"
    /\ todo' = {} /\ next' = NoWalk /\ found' = {} /\ before' = {}
    /\ UNCHANGED <<lists, saved, known, faults, service, others>>

(* A deposit on the contract. *)
Deposit(n, k) ==
    /\ k \notin OnContract
    /\ lists' = [lists EXCEPT ![n] = Append(@, k)]
    /\ UNCHANGED <<pubkeys, saved, phase, enumeration, restarts, known, faults, service, others>>

(***************************************************************************)
(* sync and enumerateWithClient up to the start of the workers.  An error  *)
(* of getNodesLength or getNodes ends the sync and changes nothing; an     *)
(* empty answer is an empty set.                                           *)
(***************************************************************************)
Begin ==
    /\ phase = "idle"
    /\ found' = {} /\ next' = NoWalk /\ before' = OnContract
    /\ \/ phase' = "walk" /\ todo' = Nodes /\ UNCHANGED <<pubkeys, faults>>
       \/ Fault("empty") /\ phase' = "save" /\ todo' = {} /\ pubkeys' = {}
    /\ UNCHANGED <<lists, saved, restarts, known, service, others>>

(* A worker takes a node from the jobs channel. *)
TakeJob(n) ==
    /\ phase = "walk" /\ n \in todo
    /\ Cardinality(Walking) < Workers
    /\ todo' = todo \ {n}
    /\ next' = [next EXCEPT ![n] = 1]
    /\ UNCHANGED <<lists, pubkeys, saved, phase, found, before, restarts, known, faults>>
    /\ UNCHANGED <<service, others>>

(***************************************************************************)
(* One batch of walkNodePubkeys: the calls of indexes start and up.  The   *)
(* first index out of range reverts and ends the walk.  The worker that    *)
(* called walkNodePubkeys ignores its error, and what an earlier index of  *)
(* the batch returned stays in the set.                                    *)
(***************************************************************************)
Batch(n) == (next[n]..(next[n] + BatchSize - 1)) \cap DOMAIN lists[n]

\* Mutation of Advance: a batch starts one index too far.
AdvanceSkips(n) == IF Cardinality(Batch(n)) < BatchSize THEN 0 ELSE next[n] + BatchSize + 1

Advance(n) == IF Cardinality(Batch(n)) < BatchSize THEN 0 ELSE next[n] + BatchSize

Walk(n) ==
    /\ phase = "walk" /\ n \in Walking
    /\ \/ /\ found' = found \cup {lists[n][i] : i \in Batch(n)}
          /\ next' = [next EXCEPT ![n] = Advance(n)]
          /\ UNCHANGED faults
       \/ /\ Fault("walk")
          /\ \E m \in Batch(n) \cup {next[n]} :
               found' = found \cup {lists[n][i] : i \in {j \in Batch(n) : j < m}}
          /\ next' = [next EXCEPT ![n] = 0]
    /\ UNCHANGED <<lists, pubkeys, saved, phase, todo, before, restarts, known, service, others>>

(* The deadline of the sync passes before the workers are done. *)
Expire ==
    /\ phase = "walk"
    /\ phase' = "idle"
    /\ todo' = {} /\ next' = NoWalk /\ found' = {} /\ before' = {}
    /\ UNCHANGED <<lists, pubkeys, saved, restarts, known, faults, service, others>>

(* SetPubkeys with the result. *)
Finish ==
    /\ phase = "walk" /\ todo = {} /\ Walking = {}
    /\ pubkeys' = found
    /\ phase' = "save"
    /\ UNCHANGED <<lists, saved, enumeration, restarts, known, faults, service, others>>

(* SetVouchRegistry: one transaction; an error is logged. *)
Save ==
    /\ phase = "save"
    /\ \/ saved' = pubkeys /\ known' = known \cup pubkeys /\ UNCHANGED faults
       \/ Fault("redis") /\ UNCHANGED <<saved, known>>
    /\ phase' = "idle"
    /\ todo' = {} /\ next' = NoWalk /\ found' = {} /\ before' = {}
    /\ UNCHANGED <<lists, pubkeys, restarts, service, others>>

(* The sync of another instance begins. *)
OtherBegin ==
    /\ Cardinality(syncs) < setting.others
    /\ syncs' = syncs \cup {OnContract}
    /\ UNCHANGED <<lists, pubkeys, saved, phase, enumeration, restarts, known, dropped>>
    /\ UNCHANGED <<faults, service>>

(***************************************************************************)
(* It writes set S to the shared copy, in place of whatever newer set is   *)
(* there.  Its walks and calls may fail like those of this instance.       *)
(***************************************************************************)
OtherSave(b, S) ==
    /\ b \in syncs /\ S \subseteq OnContract
    /\ \/ b \subseteq S /\ UNCHANGED faults
       \/ \E kind \in {"walk", "empty"} : Fault(kind) /\ (kind = "empty" => S = {})
    /\ saved' = S
    /\ dropped' = dropped \cup (saved \ S)
    /\ syncs' = syncs \ {b}
    /\ UNCHANGED <<lists, pubkeys, phase, enumeration, restarts, known, service>>

(***************************************************************************)
(* checkProtocolFeeRecipient, for a registration and for the slot duty of  *)
(* a block submission.  The duty carries the recipient registered when it  *)
(* was prepared; here, the latest one.                                     *)
(***************************************************************************)
Allowed(k, r) == k \in pubkeys => r = Protocol

Register(k, r) ==
    /\ phase # "down"
    /\ Allowed(k, r)
    /\ registered' = [registered EXCEPT ![k] = r]
    /\ UNCHANGED <<lists, pubkeys, saved, phase, enumeration, restarts, known, faults, unlocked, others>>

\* Mutation of AcceptBid: the recipient is not checked for the bid.
AcceptBidUnlocked(k) ==
    /\ phase # "down" /\ registered[k] # Unregistered
    /\ unlocked' = unlocked \cup {j \in {k} \cap known : registered[j] = Other}
    /\ UNCHANGED <<lists, pubkeys, saved, phase, enumeration, restarts, known, faults>>
    /\ UNCHANGED <<registered, others>>

AcceptBid(k) ==
    /\ phase # "down" /\ registered[k] # Unregistered
    /\ Allowed(k, registered[k])
    /\ unlocked' = unlocked \cup {j \in {k} \cap known : registered[j] = Other}
    /\ UNCHANGED <<lists, pubkeys, saved, phase, enumeration, restarts, known, faults>>
    /\ UNCHANGED <<registered, others>>

RegistryStep ==
    \/ New \/ Crash \/ Begin \/ Expire \/ Finish \/ Save
    \/ OtherBegin \/ \E b \in syncs, S \in SUBSET Pubkeys : OtherSave(b, S)
    \/ \E n \in Nodes : TakeJob(n) \/ Walk(n) \/ \E k \in Pubkeys : Deposit(n, k)
    \/ \E k \in Pubkeys : AcceptBid(k) \/ \E r \in Recipients : Register(k, r)

RegistryNext == RegistryStep /\ UNCHANGED setting

RegistrySpec == RegistryInit /\ [][RegistryNext]_registryVars

-----------------------------------------------------------------------------
(* The values the variables take; at most enumerationWorkers walks run. *)
RegistryTypeOK ==
    /\ lists \in [Nodes -> Seq(Pubkeys)]
    /\ pubkeys \subseteq Pubkeys /\ saved \subseteq Pubkeys /\ found \subseteq Pubkeys
    /\ before \subseteq Pubkeys /\ known \subseteq Pubkeys
    /\ syncs \subseteq SUBSET Pubkeys /\ dropped \subseteq Pubkeys
    /\ phase \in {"down", "idle", "walk", "save"}
    /\ todo \subseteq Nodes
    /\ next \in [Nodes -> Nat] /\ Cardinality(Walking) <= Workers
    /\ restarts \in 0..setting.restarts /\ setting \in Settings
    /\ registered \in [Pubkeys -> Recipients \cup {Unregistered}]
    /\ faults \subseteq setting.faults
    /\ unlocked \subseteq Pubkeys

(***************************************************************************)
(* A set that a sync installs has every pubkey that was on the contract    *)
(* when the sync began, and only pubkeys of the contract, although         *)
(* deposits go on during the walks and Redis may fail: "on success,        *)
(* replaces the in-memory set".  It needs calls that answer.               *)
(***************************************************************************)
SyncIsComplete ==
    phase = "save" /\ faults \cap {"walk", "empty"} = {} =>
        before \subseteq pubkeys /\ pubkeys \subseteq OnContract

(***************************************************************************)
(* "The lock: a Vouch validator whose registered recipient is not the      *)
(* protocol fee recipient gets no MEV service, even if its registration    *)
(* slipped through before the registry sync picked the pubkey up": once    *)
(* this instance has saved or loaded a pubkey, it accepts no bid for it    *)
(* that pays another recipient, over expired syncs and restarts ("On RPC   *)
(* failure the previous set is kept (last-known-good)").                   *)
(***************************************************************************)
LockedOnceKnown == unlocked = {}

(***************************************************************************)
(* The lock holds as long as every call answered; syncs that run out of    *)
(* time, deposits in between and restarts do not break it.  One case is    *)
(* left: another instance writes a set it began to read earlier over a     *)
(* newer copy, and this instance restarts on what is left.                 *)
(***************************************************************************)
LockedUntilFault ==
    faults = {} => unlocked \subseteq dropped /\ (restarts = 0 => LockedOnceKnown)

-----------------------------------------------------------------------------
\* What the package comment says and the code does not do.  TLC finds a
\* counterexample when it is added to MCVouchRegistry.cfg.

\* "mirrored to Redis for last-known-good recovery across restarts and relay
\* instances": without a fault, the copy recovers every pubkey known before.
CopyIsLastKnownGood == faults = {} => LockedOnceKnown
=============================================================================
