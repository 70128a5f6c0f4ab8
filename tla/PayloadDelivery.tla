-------------------------- MODULE PayloadDelivery --------------------------
(***************************************************************************)
(* getPayload (innerHandleGetPayload in services/api/service.go) on        *)
(* several API instances that share Redis, with the optimistic lock of     *)
(* CheckAndSetLastSlotAndHashDelivered (datastore/redis.go) and the        *)
(* graceful shutdown of an instance (StopServer, cmd/api.go).              *)
(*                                                                         *)
(* A block stands for its execution block hash, which determines its slot. *)
(* One action is one call to Redis, the payload stores, the beacon nodes   *)
(* or the database, with the local steps up to the next call.              *)
(***************************************************************************)
EXTENDS Integers, FiniteSets

CONSTANTS
    Calls,         \* getPayload requests
    Instances,     \* API instances
    Slots,
    Forks,         \* tells apart the blocks of one slot
    NoFork,        \* the hash key of Redis before any delivery
    NoInstance,    \* the instance of a request not yet made
    Versions       \* subset of {"v1", "v2"}: the endpoints in use

ASSUME SlotsAssumption == Slots \subseteq Nat \ {0}
ASSUME VersionsAssumption == Versions \subseteq {"v1", "v2"}
ASSUME NoneAssumption == NoFork \notin Forks /\ NoInstance \notin Instances

Blocks == [slot : Slots, fork : Forks]
NoBlock == [slot |-> 0, fork |-> NoFork]

Serving == {"up", "stopping", "drained"}

Requests ==
    [instance : Instances, block : Blocks, version : Versions,
     found : Serving]
NoRequest == [instance |-> NoInstance]

VARIABLES
    last,       \* keyLastSlotDelivered and keyLastHashDelivered
    dirty,      \* dirty[c]: a key c WATCHes was written since
    pc,         \* pc[c]: the next step of call c
    msg,        \* msg[c]: what call c asks for, and the state of the instance
                \* it found
    async,      \* the calls whose block a background goroutine publishes
    published,  \* the blocks a beacon node has accepted
    rows,       \* blocks in the delivered_payload table
    server,     \* server[i]: life cycle of instance i
    granted,    \* history: the blocks CheckAndSet... let pass
    unchecked   \* history: the calls that went on after a failed check

vars == <<last, dirty, pc, msg, async, published, rows, server, granted, unchecked>>

Handling == {"validate", "load", "retry", "watch", "readHash", "exec",
             "timing", "match", "publish", "save"}

Busy(i) == {c \in Calls : msg[c].instance = i /\ pc[c] \in Handling}

Init ==
    /\ last = NoBlock
    /\ dirty = [c \in Calls |-> FALSE]
    /\ pc = [c \in Calls |-> "new"]
    /\ msg = [c \in Calls |-> NoRequest]
    /\ async = {}
    /\ published = {}
    /\ rows = {}
    /\ server = [i \in Instances |-> "up"]
    /\ granted = {}
    /\ unchecked = {}

Goto(c, step) == pc' = [pc EXCEPT ![c] = step]

(***************************************************************************)
(* getPayloadCallsInFlight.Add(1).  Nothing in the handler looks at the    *)
(* shutdown flag: only the load balancer keeps calls away.                 *)
(***************************************************************************)
Arrive(c) ==
    /\ pc[c] = "new"
    /\ \E m \in Requests :
          /\ m.found = server[m.instance]
          /\ msg' = [msg EXCEPT ![c] = m]
    /\ Goto(c, "validate")
    /\ UNCHANGED <<last, dirty, async, published, rows, server, granted, unchecked>>

(***************************************************************************)
(* Decoding, fork version, proposer duty, known validator, signature.  The *)
(* refusals up to here return before the deferred save is registered.      *)
(***************************************************************************)
Validate(c) ==
    /\ pc[c] = "validate"
    /\ \/ Goto(c, "done")
       \/ Goto(c, "load")
    /\ UNCHANGED <<last, dirty, msg, async, published, rows, server, granted, unchecked>>

(***************************************************************************)
(* GetGetPayloadResponse from Redis, memcached or the database; tried a    *)
(* second time before giving up.                                           *)
(***************************************************************************)
Load(c) ==
    /\ pc[c] = "load"
    /\ \/ Goto(c, "watch")
       \/ Goto(c, "retry")
    /\ UNCHANGED <<last, dirty, msg, async, published, rows, server, granted, unchecked>>

\* Mutation of Retry: a failed load is tried again without end.
RetryForever(c) ==
    /\ pc[c] = "retry"
    /\ \/ Goto(c, "watch")
       \/ Goto(c, "load")
    /\ UNCHANGED <<last, dirty, msg, async, published, rows, server, granted, unchecked>>

Retry(c) ==
    /\ pc[c] = "retry"
    /\ \/ Goto(c, "watch")
       \/ Goto(c, "save")
    /\ UNCHANGED <<last, dirty, msg, async, published, rows, server, granted, unchecked>>

(***************************************************************************)
(* WATCH both keys and GET the slot.  A past slot is refused; a new one    *)
(* goes to the transaction, the delivered one to the comparison of hashes. *)
(***************************************************************************)
Watch(c) ==
    /\ pc[c] = "watch"
    /\ dirty' = [dirty EXCEPT ![c] = FALSE]
    /\ \/ msg[c].block.slot < last.slot /\ Goto(c, "save")
       \/ msg[c].block.slot = last.slot /\ Goto(c, "readHash")
       \/ msg[c].block.slot > last.slot /\ Goto(c, "exec")
    /\ UNCHANGED <<last, msg, async, published, rows, server, granted, unchecked>>

(***************************************************************************)
(* GET the hash: a repeated call for the delivered block passes.           *)
(***************************************************************************)
\* Mutation of ReadHash: the hashes are not compared.
ReadHashIgnored(c) ==
    /\ pc[c] = "readHash"
    /\ Goto(c, "timing")
    /\ UNCHANGED <<last, dirty, msg, async, published, rows, server, granted, unchecked>>

ReadHash(c) ==
    /\ pc[c] = "readHash"
    /\ \/ msg[c].block # last /\ Goto(c, "save")
       \/ msg[c].block = last /\ Goto(c, "timing")
    /\ UNCHANGED <<last, dirty, msg, async, published, rows, server, granted, unchecked>>

(***************************************************************************)
(* The transaction: SET both keys, which every other WATCH notices, or     *)
(* TxFailedErr when a watched key changed.                                 *)
(***************************************************************************)
\* Mutation of Commit: the transaction does not watch its keys.
CommitUnwatched(c) ==
    /\ last' = msg[c].block
    /\ granted' = granted \cup {msg[c].block}
    /\ dirty' = [d \in Calls |-> TRUE]

Commit(c) ==
    /\ ~dirty[c]
    /\ last' = msg[c].block
    /\ granted' = granted \cup {msg[c].block}
    /\ dirty' = [d \in Calls |-> TRUE]

Exec(c) ==
    /\ pc[c] = "exec"
    /\ \/ Commit(c) /\ Goto(c, "timing")
       \/ dirty[c] /\ Goto(c, "save") /\ UNCHANGED <<last, dirty, granted>>
    /\ UNCHANGED <<msg, async, published, rows, server, unchecked>>

(***************************************************************************)
(* Any other Redis error in the check is logged and the handler goes on;   *)
(* the transaction may have been applied when its reply is lost.           *)
(***************************************************************************)
CheckFails(c) ==
    /\ \/ pc[c] \in {"watch", "readHash", "exec"} /\ UNCHANGED <<last, dirty, granted>>
       \/ pc[c] = "exec" /\ Commit(c)
    /\ unchecked' = unchecked \cup {c}
    /\ Goto(c, "timing")
    /\ UNCHANGED <<msg, async, published, rows, server>>

(***************************************************************************)
(* Early requests sleep until the slot starts; late ones are refused.      *)
(***************************************************************************)
Timing(c) ==
    /\ pc[c] = "timing"
    /\ \/ Goto(c, "save")
       \/ Goto(c, "match")
    /\ UNCHANGED <<last, dirty, msg, async, published, rows, server, granted, unchecked>>

(***************************************************************************)
(* EqBlindedBlockContentsToBlockContents and the conversion to a signed    *)
(* beacon block; a mismatch is refused.                                    *)
(***************************************************************************)
Match(c) ==
    /\ pc[c] = "match"
    /\ \/ Goto(c, "save")
       \/ Goto(c, "publish")
    /\ UNCHANGED <<last, dirty, msg, async, published, rows, server, granted, unchecked>>

(***************************************************************************)
(* V1 publishes before it answers with the payload; V2 answers 202 and     *)
(* publishes in a goroutine that getPayloadCallsInFlight does not count.   *)
(* A failed publication may still have reached a beacon node.              *)
(***************************************************************************)
PublishV1(c) ==
    /\ pc[c] = "publish" /\ msg[c].version = "v1"
    /\ published' \in {published, published \cup {msg[c].block}}
    /\ Goto(c, "save")
    /\ UNCHANGED <<last, dirty, msg, async, rows, server, granted, unchecked>>

PublishV2(c) ==
    /\ pc[c] = "publish" /\ msg[c].version = "v2"
    /\ async' = async \cup {c}
    /\ Goto(c, "save")
    /\ UNCHANGED <<last, dirty, msg, published, rows, server, granted, unchecked>>

AsyncPublish(c) ==
    /\ c \in async
    /\ async' = async \ {c}
    /\ published' \in {published, published \cup {msg[c].block}}
    /\ UNCHANGED <<last, dirty, pc, msg, rows, server, granted, unchecked>>

(***************************************************************************)
(* The deferred function, on every return after the signature check: the   *)
(* row is written when the bid trace is found.  The refund of a demoted    *)
(* builder, which follows, belongs to OptimisticRelay.                     *)
(***************************************************************************)
Save(c) ==
    /\ pc[c] = "save"
    /\ rows' \in {rows, rows \cup {msg[c].block}}
    /\ Goto(c, "done")
    /\ UNCHANGED <<last, dirty, msg, async, published, server, granted, unchecked>>

(***************************************************************************)
(* StopServer: /readyz turns negative and the instance waits to be taken   *)
(* off the load balancer.                                                  *)
(***************************************************************************)
Stop(i) ==
    /\ server[i] = "up"
    /\ server' = [server EXCEPT ![i] = "stopping"]
    /\ UNCHANGED <<last, dirty, pc, msg, async, published, rows, granted, unchecked>>

(***************************************************************************)
(* getPayloadCallsInFlight.Wait() returns once no handler runs.            *)
(***************************************************************************)
\* Mutation of Drain: the shutdown does not wait for the calls.
DrainAtOnce(i) ==
    /\ server[i] = "stopping"
    /\ server' = [server EXCEPT ![i] = "drained"]
    /\ UNCHANGED <<last, dirty, pc, msg, async, published, rows, granted, unchecked>>

Drain(i) ==
    /\ server[i] = "stopping"
    /\ Busy(i) = {}
    /\ server' = [server EXCEPT ![i] = "drained"]
    /\ UNCHANGED <<last, dirty, pc, msg, async, published, rows, granted, unchecked>>

(***************************************************************************)
(* srv.Shutdown makes ListenAndServe return, so StartServer and the        *)
(* process end: what still runs in it is lost.                             *)
(***************************************************************************)
Exit(i) ==
    /\ server[i] = "drained"
    /\ server' = [server EXCEPT ![i] = "exited"]
    /\ LET killed == {c \in async : msg[c].instance = i}
       IN  /\ pc' = [c \in Calls |-> IF c \in Busy(i) \cup killed THEN "cut" ELSE pc[c]]
           /\ async' = async \ killed
    /\ UNCHANGED <<last, dirty, msg, published, rows, granted, unchecked>>

Handle(c) ==
    \/ Validate(c) \/ Load(c) \/ Retry(c)
    \/ Watch(c) \/ ReadHash(c) \/ Exec(c) \/ CheckFails(c)
    \/ Timing(c) \/ Match(c) \/ PublishV1(c) \/ PublishV2(c) \/ Save(c)

Next ==
    \/ \E c \in Calls : Arrive(c) \/ Handle(c) \/ AsyncPublish(c)
    \/ \E i \in Instances : Stop(i) \/ Drain(i) \/ Exit(i)

Spec == Init /\ [][Next]_vars

(***************************************************************************)
(* Every blocking call of the handler has a timeout, the goroutines are    *)
(* scheduled, and once the signal arrived nothing holds StopServer back    *)
(* but the wait for the calls in flight.                                   *)
(***************************************************************************)
FairSpec ==
    /\ Spec
    /\ \A c \in Calls : WF_vars(Handle(c)) /\ WF_vars(AsyncPublish(c))
    /\ \A i \in Instances : WF_vars(Drain(i)) /\ WF_vars(Exit(i))

-----------------------------------------------------------------------------
(* The values the variables take. *)
TypeOK ==
    /\ last \in Blocks \cup {NoBlock}
    /\ dirty \in [Calls -> BOOLEAN]
    /\ pc \in [Calls -> Handling \cup {"new", "done", "cut"}]
    /\ msg \in [Calls -> Requests \cup {NoRequest}]
    /\ async \subseteq Calls
    /\ published \subseteq Blocks
    /\ rows \subseteq Blocks
    /\ server \in [Instances -> {"up", "stopping", "drained", "exited"}]
    /\ granted \subseteq Blocks
    /\ unchecked \subseteq Calls

(***************************************************************************)
(* No two different blocks of a slot are sent to the beacon nodes, however *)
(* many instances handle calls at once: the signed headers of an           *)
(* equivocating proposer never unblind two payloads.                       *)
(* CheckAndSetLastSlotAndHashDelivered is what ensures it; if it happens,  *)
(* one of the two was asked for by a call whose own check failed with an   *)
(* I/O error, which the handler ignores.  The failure of one call weakens  *)
(* the check of no other.                                                  *)
(***************************************************************************)
Unblinded == published \cup {msg[c].block : c \in async}
Excused == {msg[c].block : c \in unchecked}

OneBlockPerSlot ==
    \A a, b \in Unblinded \ Excused : a.slot = b.slot => a = b

(***************************************************************************)
(* The delivered keys in Redis implement the ledger: a transaction that    *)
(* commits always moves to a later slot than every block granted before.   *)
(* This holds whether or not Redis fails.                                  *)
(***************************************************************************)
Ledger == INSTANCE DeliveryLedger WITH Blocks <- Blocks, granted <- granted
LedgerSpec == Ledger!Spec

(***************************************************************************)
(* Shutdown loses nothing: when the process of an instance ends, no V1     *)
(* getPayload call it accepted before the wait for the calls in flight was *)
(* over is still being handled.  A V2 call's publication is not waited     *)
(* for.                                                                    *)
(***************************************************************************)
NothingLostOnShutdown ==
    \A c \in Calls : pc[c] = "cut" => msg[c].version = "v2" \/ msg[c].found = "drained"

(***************************************************************************)
(* A stopping instance exits: the wait for the calls in flight ends.       *)
(***************************************************************************)
StopCompletes == \A i \in Instances : server[i] = "stopping" ~> server[i] = "exited"

-----------------------------------------------------------------------------
(***************************************************************************)
(* What comments of the code say and the code does not do.  TLC finds a    *)
(* counterexample to each when it is added to MCPayloadDelivery.cfg.       *)
(***************************************************************************)

(***************************************************************************)
(* A block recorded in delivered_payload, which the data API serves as     *)
(* delivered to its proposer, is unblinded.                                *)
(***************************************************************************)
RecordedIsUnblinded == rows \subseteq Unblinded

-----------------------------------------------------------------------------
(***************************************************************************)
(* The inductive invariant.  The granted blocks have different slots, the  *)
(* last of them in Redis; a transaction whose WATCH is clean still aims    *)
(* past the last slot; and the block of a call past a check that did not   *)
(* fail is granted.                                                        *)
(***************************************************************************)
LedgerOK ==
    /\ \A a, b \in granted : a.slot = b.slot => a = b
    /\ \A g \in granted : g.slot <= last.slot
    /\ last # NoBlock => last \in granted

CleanWatch ==
    \A c \in Calls : pc[c] = "exec" /\ ~dirty[c] => msg[c].block.slot > last.slot

Passed == {"timing", "match", "publish"}

PassedIsGranted ==
    /\ \A c \in Calls \ unchecked :
          pc[c] \in Passed \/ c \in async => msg[c].block \in granted
    /\ published \subseteq granted \cup Excused
    /\ \A c \in unchecked : pc[c] # "new"

Requested ==
    \A c \in Calls : pc[c] # "new" => msg[c] \in Requests

AsyncStarted == \A c \in async : pc[c] \in {"save", "done"}

LedgerInv == TypeOK /\ Requested /\ AsyncStarted /\ LedgerOK /\ CleanWatch

IInv == LedgerInv /\ PassedIsGranted
=============================================================================
