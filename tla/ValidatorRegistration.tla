------------------------ MODULE ValidatorRegistration ------------------------
(***************************************************************************)
(* Validator registrations: registerValidator calls on the API instances   *)
(* compare each registration with the cached one and queue it, processors  *)
(* of the queue save it in the instance's local cache, the database and    *)
(* Redis, and a housekeeper that starts rewrites Redis from the database.  *)
(*                                                                         *)
(* The fields of a registration stand for fee recipient and gas limit.     *)
(* One action is one access to the cache, the queue, Redis or the          *)
(* database.                                                               *)
(***************************************************************************)
EXTENDS Integers, Sequences

CONSTANTS
    Instances, Validators, Fields,
    MaxCalls,       \* registerValidator requests
    MaxTimestamp,
    Processors,     \* queue processors of an instance
    QueueCap,       \* capacity of validatorRegC
    KeepGoing,      \* ffRegValContinueOnInvalidSig
    Traffic         \* what a behaviour may see: how many calls, registrations in
                    \* a call and timestamps; calm if calls carry one
                    \* registration and reach the same instance, each once the
                    \* earlier ones are saved, no store fails and no
                    \* housekeeper starts

ASSUME BoundsAssumption ==
    MaxCalls \in Nat /\ MaxTimestamp \in Nat /\ QueueCap \in Nat /\ KeepGoing \in BOOLEAN
ASSUME TrafficAssumption ==
    /\ Traffic \subseteq [calls : Nat, batch : Nat, latest : Nat, calm : BOOLEAN]
    /\ \A t \in Traffic : t.calm => t.batch = 1

Calls == 1..MaxCalls

Registrations ==
    [pubkey : Validators, fields : Fields, timestamp : 1..MaxTimestamp, signed : BOOLEAN]
None == [timestamp |-> 0]
Stored == Registrations \cup {None}

VARIABLES
    local,      \* local[i][v]: validatorRegistrations of instance i
    redis,      \* redis[v]: keyValidatorRegistrationData
    db,         \* db[v]: the row with the latest timestamp
    queue,      \* queue[i]: validatorRegC
    worker,     \* worker[i][p]: the registration processor p is saving
    step,       \* step[i][p]: where it is
    pc,         \* pc[c]: phase of call c
    at,         \* at[c]: the instance that handles it
    batch,      \* batch[c]: registrations still to check
    fresh,      \* fresh[c]: registrations that passed the checks
    discarded,  \* history: registrations dropped as unchanged
    snapshot,   \* what the housekeeper read, for the validators left to write
    traffic     \* what this behaviour sees, chosen once

stores == <<local, redis, db>>
processing == <<queue, worker, step>>
calls == <<pc, at, batch, fresh, discarded>>
vars == <<stores, processing, calls, snapshot, traffic>>

Calm == traffic.calm
StoreMayFail == ~Calm
Batches ==
    UNION {[1..n -> {r \in Registrations : r.timestamp <= traffic.latest}] :
             n \in 1..traffic.batch}

NoRows == [v \in Validators |-> None]

Init ==
    /\ local = [i \in Instances |-> NoRows]
    /\ redis = NoRows /\ db = NoRows
    /\ queue = [i \in Instances |-> <<>>]
    /\ worker = [i \in Instances |-> [p \in Processors |-> None]]
    /\ step = [i \in Instances |-> [p \in Processors |-> "idle"]]
    /\ pc = [c \in Calls |-> "new"]
    /\ \E i \in Instances : at = [c \in Calls |-> i]
    /\ batch = [c \in Calls |-> <<>>]
    /\ fresh = [c \in Calls |-> <<>>]
    /\ discarded = {}
    /\ snapshot = [v \in {} |-> None]
    /\ traffic \in Traffic

Quiet ==
    /\ \A c \in Calls : pc[c] \in {"new", "done"}
    /\ \A i \in Instances : queue[i] = <<>> /\ \A p \in Processors : step[i][p] = "idle"
    /\ DOMAIN snapshot = {}

(* Calls are numbered in the order in which they arrive. *)
Arrive(c) ==
    /\ pc[c] = "new" /\ c <= traffic.calls
    /\ \A d \in Calls : d < c => pc[d] # "new"
    /\ Calm => Quiet
    /\ \E i \in Instances, b \in Batches :
         /\ Calm => i = at[c]
         /\ at' = [at EXCEPT ![c] = i]
         /\ batch' = [batch EXCEPT ![c] = b]
    /\ pc' = [pc EXCEPT ![c] = "check"]
    /\ UNCHANGED <<stores, processing, fresh, discarded, snapshot>>

(***************************************************************************)
(* GetCachedValidatorRegistration: the local cache first; a hit in Redis   *)
(* is kept in the local cache.                                             *)
(***************************************************************************)
Cached(i, v) == IF local[i][v] # None THEN local[i][v] ELSE redis[v]

\* Mutation of Unchanged: any cached registration counts as unchanged.
AnyCached(reg, cached) == cached # None
Unchanged(reg, cached) == cached # None /\ reg.fields = cached.fields
Replayed(reg, cached) == cached # None /\ reg.timestamp <= cached.timestamp

(***************************************************************************)
(* One turn of the loop of processValidatorRegistrationJSON / ...SSZ.  A   *)
(* bad timestamp, a fee recipient that is not allowed or an unknown        *)
(* validator refuses the whole request.  When Redis fails the registration *)
(* is treated as new.                                                      *)
(***************************************************************************)
Refuse(c) ==
    /\ pc[c] = "check" /\ batch[c] # <<>>
    /\ pc' = [pc EXCEPT ![c] = "done"]
    /\ batch' = [batch EXCEPT ![c] = <<>>]
    /\ fresh' = [fresh EXCEPT ![c] = <<>>]
    /\ UNCHANGED <<stores, processing, at, discarded, snapshot>>

Check(c) ==
    LET reg == Head(batch[c])
        i == at[c]
        v == reg.pubkey
        cached == Cached(i, v)
    IN  /\ pc[c] = "check" /\ batch[c] # <<>>
        /\ batch' = [batch EXCEPT ![c] = Tail(@)]
        /\ \/ /\ local' = [local EXCEPT ![i][v] = cached]
              /\ \/ /\ Unchanged(reg, cached) \/ Replayed(reg, cached)
                    /\ discarded' = IF Unchanged(reg, cached) THEN discarded \cup {reg}
                                    ELSE discarded
                    /\ UNCHANGED fresh
                 \/ /\ ~Unchanged(reg, cached) /\ ~Replayed(reg, cached)
                    /\ fresh' = [fresh EXCEPT ![c] = Append(@, reg)]
                    /\ UNCHANGED discarded
           \/ /\ StoreMayFail /\ local[i][v] = None
              /\ fresh' = [fresh EXCEPT ![c] = Append(@, reg)]
              /\ UNCHANGED <<local, discarded>>
        /\ UNCHANGED <<redis, db, processing, pc, at, snapshot>>

Checked(c) ==
    /\ pc[c] = "check" /\ batch[c] = <<>>
    /\ pc' = [pc EXCEPT ![c] = "queue"]
    /\ UNCHANGED <<stores, processing, at, batch, fresh, discarded, snapshot>>

(***************************************************************************)
(* One turn of the loop of handleRegisterValidator: verify the signature   *)
(* and send to validatorRegC, which drops the registration when it is      *)
(* full.  A signature that is wrong ends the loop unless the call keeps    *)
(* going; one that cannot be checked always does.                          *)
(***************************************************************************)
Send(i, reg) ==
    queue' = IF Len(queue[i]) < QueueCap THEN [queue EXCEPT ![i] = Append(@, reg)] ELSE queue

\* Mutation of Enqueue: the signature is not verified.
EnqueueUnverified(c) ==
    /\ pc[c] = "queue" /\ fresh[c] # <<>>
    /\ fresh' = [fresh EXCEPT ![c] = Tail(@)]
    /\ Send(at[c], Head(fresh[c]))
    /\ UNCHANGED <<stores, worker, step, pc, at, batch, discarded, snapshot>>

Enqueue(c) ==
    LET reg == Head(fresh[c])
    IN  /\ pc[c] = "queue" /\ fresh[c] # <<>>
        /\ \/ /\ reg.signed
              /\ fresh' = [fresh EXCEPT ![c] = Tail(@)]
              /\ Send(at[c], reg)
           \/ /\ ~reg.signed
              /\ \E rest \in {<<>>} \cup (IF KeepGoing THEN {Tail(fresh[c])} ELSE {}) :
                   fresh' = [fresh EXCEPT ![c] = rest]
              /\ UNCHANGED queue
        /\ UNCHANGED <<stores, worker, step, pc, at, batch, discarded, snapshot>>

Respond(c) ==
    /\ pc[c] = "queue" /\ fresh[c] = <<>>
    /\ pc' = [pc EXCEPT ![c] = "done"]
    /\ UNCHANGED <<stores, processing, at, batch, fresh, discarded, snapshot>>

(***************************************************************************)
(* startValidatorRegistrationDBProcessor and SaveValidatorRegistration:    *)
(* local cache, database, Redis, in this order; an error ends the save.    *)
(***************************************************************************)
Take(i, p) ==
    /\ step[i][p] = "idle" /\ queue[i] # <<>>
    /\ queue' = [queue EXCEPT ![i] = Tail(@)]
    /\ worker' = [worker EXCEPT ![i][p] = Head(queue[i])]
    /\ step' = [step EXCEPT ![i][p] = "local"]
    /\ UNCHANGED <<stores, calls, snapshot>>

SaveLocal(i, p) ==
    /\ step[i][p] = "local"
    /\ local' = [local EXCEPT ![i][worker[i][p].pubkey] = worker[i][p]]
    /\ step' = [step EXCEPT ![i][p] = "db"]
    /\ UNCHANGED <<redis, db, queue, worker, calls, snapshot>>

(***************************************************************************)
(* The INSERT of SaveValidatorRegistration in the database: only a newer   *)
(* registration that changes a field becomes a row.                        *)
(***************************************************************************)
Inserts(reg) ==
    LET latest == db[reg.pubkey]
    IN  latest # None => reg.timestamp > latest.timestamp /\ reg.fields # latest.fields

SaveDatabase(i, p) ==
    LET reg == worker[i][p]
    IN  /\ step[i][p] = "db"
        /\ \/ /\ db' = IF Inserts(reg) THEN [db EXCEPT ![reg.pubkey] = reg] ELSE db
              /\ step' = [step EXCEPT ![i][p] = "redis"]
              /\ UNCHANGED worker
           \/ /\ StoreMayFail
              /\ step' = [step EXCEPT ![i][p] = "idle"]
              /\ worker' = [worker EXCEPT ![i][p] = None]
              /\ UNCHANGED db
        /\ UNCHANGED <<local, redis, queue, calls, snapshot>>

\* Mutation of SaveRedis: Redis is not written.
SaveRedisNever(i, p) ==
    /\ step[i][p] = "redis"
    /\ step' = [step EXCEPT ![i][p] = "idle"]
    /\ worker' = [worker EXCEPT ![i][p] = None]
    /\ UNCHANGED <<stores, queue, calls, snapshot>>

SaveRedis(i, p) ==
    /\ step[i][p] = "redis"
    /\ \/ redis' = [redis EXCEPT ![worker[i][p].pubkey] = worker[i][p]]
       \/ StoreMayFail /\ UNCHANGED redis
    /\ step' = [step EXCEPT ![i][p] = "idle"]
    /\ worker' = [worker EXCEPT ![i][p] = None]
    /\ UNCHANGED <<local, db, queue, calls, snapshot>>

Process(i, p) == Take(i, p) \/ SaveLocal(i, p) \/ SaveDatabase(i, p) \/ SaveRedis(i, p)

(***************************************************************************)
(* updateValidatorRegistrationsInRedis, when a housekeeper starts: read    *)
(* the latest rows, then write them one by one; a failed write is skipped. *)
(***************************************************************************)
HousekeeperRead ==
    /\ ~Calm
    /\ snapshot = [v \in {} |-> None]
    /\ snapshot' = [v \in {w \in Validators : db[w] # None} |-> db[v]]
    /\ UNCHANGED <<stores, processing, calls>>

HousekeeperWrite(v) ==
    /\ v \in DOMAIN snapshot
    /\ \/ redis' = [redis EXCEPT ![v] = snapshot[v]]
       \/ StoreMayFail /\ UNCHANGED redis
    /\ snapshot' = [w \in DOMAIN snapshot \ {v} |-> snapshot[w]]
    /\ UNCHANGED <<local, db, processing, calls>>

Step ==
    \/ \E c \in Calls :
         Arrive(c) \/ Refuse(c) \/ Check(c) \/ Checked(c) \/ Enqueue(c) \/ Respond(c)
    \/ \E i \in Instances, p \in Processors : Process(i, p)
    \/ HousekeeperRead
    \/ \E v \in Validators : HousekeeperWrite(v)

Next == Step /\ UNCHANGED traffic

Spec == Init /\ [][Next]_vars

-----------------------------------------------------------------------------
(* The values the variables take. *)
TypeOK ==
    /\ local \in [Instances -> [Validators -> Stored]]
    /\ redis \in [Validators -> Stored] /\ db \in [Validators -> Stored]
    /\ queue \in [Instances -> Seq(Registrations)]
    /\ \A i \in Instances : Len(queue[i]) <= QueueCap
    /\ worker \in [Instances -> [Processors -> Stored]]
    /\ step \in [Instances -> [Processors -> {"idle", "local", "db", "redis"}]]
    /\ \A i \in Instances, p \in Processors :
         step[i][p] # "idle" => worker[i][p] \in Registrations
    /\ pc \in [Calls -> {"new", "check", "queue", "done"}]
    /\ at \in [Calls -> Instances]
    /\ batch \in [Calls -> Seq(Registrations)]
    /\ fresh \in [Calls -> Seq(Registrations)]
    /\ discarded \subseteq Registrations
    /\ \A v \in DOMAIN snapshot : v \in Validators /\ snapshot[v] \in Registrations
    /\ traffic \in Traffic

(***************************************************************************)
(* Whatever is stored for a validator, in any of the caches or in the      *)
(* database, carries a verified signature and is stored under its own key. *)
(***************************************************************************)
Verified(v, reg) == reg # None => reg.signed /\ reg.pubkey = v

StoredIsVerified ==
    \A v \in Validators :
        /\ \A i \in Instances : Verified(v, local[i][v])
        /\ Verified(v, redis[v])
        /\ Verified(v, db[v])

(***************************************************************************)
(* "SaveValidatorRegistration saves a validator registration into local    *)
(* cache, Redis and the database": when calls reach one instance one after *)
(* the other and nothing fails, the stores agree on the fields of every    *)
(* validator whenever nothing is in progress.                              *)
(***************************************************************************)
Agree(a, b) == a = None \/ b = None \/ a.fields = b.fields

StoresAgree ==
    Calm /\ Quiet =>
        \A v \in Validators :
            /\ Agree(redis[v], db[v])
            /\ (redis[v] = None) = (db[v] = None)
            /\ \A i \in Instances : Agree(local[i][v], db[v])

(***************************************************************************)
(* "If key fields haven't changed, can just discard without signature      *)
(* validation": under the same conditions a registration that is discarded *)
(* as unchanged says what the latest registration in the database says.    *)
(***************************************************************************)
DiscardIsRedundant ==
    [][Calm => \A reg \in discarded' \ discarded : Agree(reg, db[reg.pubkey])]_vars

=============================================================================
