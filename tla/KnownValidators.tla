--------------------------- MODULE KnownValidators ---------------------------
(***************************************************************************)
(* The set of known validators of an API instance and its readiness:       *)
(* datastore.go (RefreshKnownValidators), known_validators_stream.go and   *)
(* beaconclient/state_validators_stream.go.  Every new head slot starts a  *)
(* goroutine that may refresh the set; the refresh streams the validators  *)
(* of one beacon node after another into a collector until one succeeds.   *)
(*                                                                         *)
(* The order in which nodes are asked is the subject of MultiBeaconClient; *)
(* here any node not asked yet may be the next.                            *)
(***************************************************************************)
EXTENDS BeaconChain, FiniteSets

CONSTANTS Nodes,          \* the beacon nodes
          Views,          \* [Nodes -> the validators a node reports, in full]
          Streamers,      \* the nodes whose client can stream
          Seeds,          \* possible --known-validators lists, {} for none
          StartSlots,     \* head slots at which the service may start
          MaxSkip,        \* bound: consecutive missed slots
          Lag,            \* bound: slots a goroutine may take, timeouts included
          MaxFails        \* bound: requests to beacon nodes that fail or return nothing

ASSUME StartAssumption == StartSlots \subseteq 1 .. MaxSlot
\* stateValidatorsClient's timeout stays "well below the refresh interval": a
\* refresh ends before the gap to its slot would force another one.
ASSUME LagAssumption == Lag \in 0 .. 32
ASSUME StreamersAssumption == Streamers \subseteq Nodes

VARIABLES head,        \* api.headSlot
          pending,     \* refresh goroutines started and not yet running
          phase,       \* of the goroutine that holds knownValidatorsIsUpdating,
                       \* "idle" while none does
          rslot,       \* its slot
          todo,        \* the nodes it has not asked yet
          collected,   \* its collector
          last,        \* knownValidatorsLastSlot
          known,       \* knownValidatorsByPubkey
          updated,     \* KnownValidatorsWasUpdated
          fails,       \* requests so far that failed or returned nothing
          missed,      \* history: the last refresh that ran failed
          dropped,     \* history: the newest head's goroutine found the flag held
                       \* by one that was still at its checks
          streaming    \* ffStreamDecodeKnownValidators of this process

vars == <<head, pending, phase, rslot, todo, collected, last, known, updated,
          fails, missed, dropped, streaming>>

Validators == UNION ({Views[b] : b \in Nodes} \cup Seeds)
Phases == {"idle", "check", "stream", "buffered", "install", "flag"}

\* StartServer: the optional seed, then one refresh of its own and the one of
\* the first processNewSlot.
Init == \E s \in StartSlots, seed \in Seeds :
          /\ head = s
          /\ pending = {<<s, "start">>, <<s, "head">>}
          /\ phase = "idle" /\ rslot = 0 /\ todo = {} /\ collected = {}
          /\ last = (IF seed = {} THEN 0 ELSE s)
          /\ known = seed
          /\ updated = (seed # {})
          /\ fails = 0 /\ missed = FALSE /\ dropped = FALSE
          /\ streaming \in BOOLEAN

\* A newer head event: processNewSlot stores it and starts a refresh.
NewHead(s) ==
    /\ s \in head + 1 .. head + 1 + MaxSkip /\ s <= MaxSlot
    /\ \A x \in pending : s <= x[1] + Lag
    /\ phase # "idle" => s <= rslot + Lag
    /\ head' = s
    /\ pending' = pending \cup {<<s, "head">>}
    /\ dropped' = FALSE
    /\ UNCHANGED <<phase, rslot, todo, collected, last, known, updated, fails, missed, streaming>>

SlotPos(s) == (s % SlotsPerEpoch) + 1

\* Mutation of Forced: the long gap does not force an update.
NeverForced(s) == FALSE

\* forceUpdate
Forced(s) == s - last > 32

\* The checks of RefreshKnownValidators that let a refresh go on
Due(s) == /\ s > last
          /\ s - last >= 6
          /\ Forced(s) \/ SlotPos(s) \in {4, 20}

\* fetchKnownValidators starts: streaming if enabled and some client can,
\* from the buffered request otherwise.
FirstPhase == IF streaming /\ Streamers # {} THEN "stream" ELSE "buffered"

\* A goroutine runs: it swaps the flag, and returns if another one holds it,
\* even if that one will itself return at a check.
Enter(x) ==
    /\ x \in pending
    /\ pending' = pending \ {x}
    /\ IF phase = "idle"
       THEN phase' = "check" /\ rslot' = x[1] /\ UNCHANGED dropped
       ELSE /\ dropped' = (dropped \/ (phase = "check" /\ x[1] = head))
            /\ UNCHANGED <<phase, rslot>>
    /\ UNCHANGED <<head, todo, collected, last, known, updated, fails, missed, streaming>>

\* Mutation of Release: the flag stays set after a failed refresh.
ReleaseOnSuccess(ok) == phase' = IF ok THEN "idle" ELSE "held"

\* The deferred knownValidatorsIsUpdating.Store(false)
Release(ok) == phase' = "idle"

\* The checks: return, or go on to the request.
Checks ==
    /\ phase = "check"
    /\ IF Due(rslot)
       THEN /\ phase' = FirstPhase
            /\ todo' = IF FirstPhase = "stream" THEN Streamers ELSE Nodes
            /\ UNCHANGED rslot
       ELSE Release(TRUE) /\ rslot' = 0 /\ UNCHANGED todo
    /\ UNCHANGED <<head, pending, collected, last, known, updated, fails, missed, dropped,
                   streaming>>

Abandon == /\ Release(FALSE) /\ missed' = TRUE
           /\ rslot' = 0 /\ collected' = {}

\* A request to node b fails.  One that fails in the stream leaves behind what
\* it added after its Reset, or what an earlier node left if it never got there.
\* After the last node the refresh is abandoned.
RequestFails(b) ==
    /\ phase \in {"stream", "buffered"} /\ b \in todo
    /\ fails < MaxFails
    /\ fails' = fails + 1
    /\ todo' = todo \ {b}
    /\ IF todo = {b}
       THEN Abandon
       ELSE /\ \/ phase = "stream" /\ \E part \in SUBSET Views[b] : collected' = part
               \/ UNCHANGED collected
            /\ UNCHANGED <<phase, rslot, missed>>
    /\ UNCHANGED <<head, pending, last, known, updated, dropped, streaming>>

\* Mutation of Decoded: without the Reset at the start of the array.
DecodedWithoutReset(b) == collected' = collected \cup Views[b]

\* decodeStateValidators reached the closing bracket, or the buffered response
\* was collected: Reset, then every entry.
Decoded(b) == collected' = Views[b]

RequestSucceeds(b) ==
    /\ phase \in {"stream", "buffered"} /\ b \in todo
    /\ Decoded(b)
    /\ phase' = "install"
    /\ todo' = {}
    /\ UNCHANGED <<head, pending, rslot, last, known, updated, fails, missed, dropped, streaming>>

\* A node answers with no validators: the decoder accepts an empty array.
RequestEmpty(b) ==
    /\ phase \in {"stream", "buffered"} /\ b \in todo
    /\ fails < MaxFails
    /\ fails' = fails + 1
    /\ collected' = {}
    /\ phase' = "install"
    /\ todo' = {}
    /\ UNCHANGED <<head, pending, rslot, last, known, updated, missed, dropped, streaming>>

\* Mutation of Refused: an empty set is installed.
RefusedNever(set) == FALSE

\* ErrNoKnownValidators
Refused(set) == set = {}

\* The slot, then both maps under the lock; an empty set is an error.
Install ==
    /\ phase = "install"
    /\ IF Refused(collected)
       THEN Abandon /\ UNCHANGED <<last, known>>
       ELSE /\ last' = rslot
            /\ known' = collected
            /\ phase' = "flag"
            /\ UNCHANGED <<rslot, collected, missed>>
    /\ UNCHANGED <<head, pending, todo, updated, fails, dropped, streaming>>

\* KnownValidatorsWasUpdated.Store(true), and the function returns.
Flag ==
    /\ phase = "flag"
    /\ updated' = TRUE
    /\ Release(TRUE)
    /\ rslot' = 0 /\ collected' = {} /\ missed' = FALSE
    /\ UNCHANGED <<head, pending, todo, last, known, fails, dropped, streaming>>

Request(b) == RequestFails(b) \/ RequestSucceeds(b) \/ RequestEmpty(b)

Next == \/ \E s \in Slots : NewHead(s)
        \/ \E x \in pending : Enter(x)
        \/ \E b \in Nodes : Request(b)
        \/ Checks \/ Install \/ Flag

Spec == Init /\ [][Next]_vars

\* The chain goes on, goroutines run, and stateValidatorsClient's timeout ends
\* every request.
Fairness == /\ WF_vars(\E s \in Slots : NewHead(s))
            /\ WF_vars(\E x \in pending : Enter(x))
            /\ WF_vars(\E b \in Nodes : Request(b))
            /\ WF_vars(Checks) /\ WF_vars(Install) /\ WF_vars(Flag)

FairSpec == Spec /\ Fairness

-----------------------------------------------------------------------------
(* Properties *)

TypeOK == /\ head \in Slots /\ rslot \in Slots /\ last \in Slots
          /\ pending \subseteq Slots \X {"start", "head"}
          /\ phase \in Phases
          /\ todo \subseteq Nodes
          /\ collected \subseteq Validators /\ known \subseteq Validators
          /\ updated \in BOOLEAN /\ missed \in BOOLEAN /\ dropped \in BOOLEAN
          /\ fails \in 0 .. MaxFails
          /\ streaming \in BOOLEAN

\* The installed set is the seed or the full answer of one beacon node: neither
\* a stream cut short nor a mixture of what two nodes sent is ever installed,
\* whatever an earlier node left in the collector.
InstalledIsComplete == known \in {{}} \cup Seeds \cup {Views[b] : b \in Nodes}

\* IsReady's promise to the proposer API: an instance that reports ready knows
\* validators, and once it does it never forgets all of them.
ReadyMeansKnown == updated => known # {}

\* When no goroutine is running or waiting and the last refresh did not fail,
\* the set is at most 32 slots behind the head, missed slots included (before the
\* first update the instance has not passed slot 32).  The one exception: the
\* goroutine of this very head was dropped because another one, at its checks,
\* held the flag, if only to return there; the next head's has to try again.
KnownSetIsFresh ==
    (phase = "idle" /\ pending = {} /\ ~missed) => head - last <= 32 \/ dropped

\* "The timeout has to stay well below the refresh interval so the next one
\* runs cleanly": an instance becomes ready once its beacon nodes answer,
\* however many requests failed before.
EventuallyReady == <>updated
=============================================================================
