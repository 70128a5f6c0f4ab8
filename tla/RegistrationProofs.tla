------------------------- MODULE RegistrationProofs -------------------------
(***************************************************************************)
(* What the stores of ValidatorRegistration hold, for every set of         *)
(* instances, validators and processors, every capacity of the queue and   *)
(* any number of overlapping calls: only verified registrations, and in    *)
(* the database never an older one after a newer one.  When calls come one *)
(* after the other the stores agree, and what is discarded is redundant.   *)
(*                                                                         *)
(* A registration is verified once, before it is queued.  The invariant    *)
(* follows it from there: through the queue, the processors, the stores    *)
(* and the copy the housekeeper has read.                                  *)
(*                                                                         *)
(* The second part is about the registry that restricts what may be        *)
(* registered, VouchRegistry.                                              *)
(***************************************************************************)
EXTENDS ValidatorRegistration, VouchRegistry, SequenceTheorems, FiniteSetTheorems, TLAPS

Signed == {r \in Registrations : r.signed}

\* What may be stored for a validator
Row(v) == {None} \cup {r \in Signed : r.pubkey = v}

StoresOK ==
    /\ local \in [Instances -> [Validators -> Stored]]
    /\ redis \in [Validators -> Stored] /\ db \in [Validators -> Stored]
    /\ \A v \in Validators : /\ \A i \in Instances : local[i][v] \in Row(v)
                             /\ redis[v] \in Row(v) /\ db[v] \in Row(v)

QueuesOK ==
    /\ queue \in [Instances -> Seq(Signed)]
    /\ worker \in [Instances -> [Processors -> Stored]]
    /\ step \in [Instances -> [Processors -> {"idle", "local", "db", "redis"}]]
    /\ \A i \in Instances, p \in Processors : step[i][p] # "idle" => worker[i][p] \in Signed

CallsOK ==
    /\ at \in [Calls -> Instances]
    /\ batch \in [Calls -> Seq(Registrations)]
    /\ fresh \in [Calls -> Seq(Registrations)]

SnapshotOK ==
    /\ DOMAIN snapshot \subseteq Validators
    /\ \A v \in DOMAIN snapshot : snapshot[v] \in Row(v) \ {None}

IInv == StoresOK /\ QueuesOK /\ CallsOK /\ SnapshotOK

(***************************************************************************)
(* Where the indices of a list of length k lie: before or from n on, and   *)
(* all of them before n + b when fewer than b elements are left at n.      *)
(***************************************************************************)
LEMMA Indices ==
    ASSUME NEW k \in Nat, NEW n \in Nat, NEW b \in Nat
    PROVE  /\ \A i \in 1 .. k : i < n \/ n <= i
           /\ k < n + b - 1 => \A i \in 1 .. k : i < n + b
OBVIOUS

(***************************************************************************)
(* Writing to a cache what it holds changes nothing.                       *)
(***************************************************************************)
LEMMA WriteSame ==
    ASSUME NEW f \in [Instances -> [Validators -> Stored]],
           NEW i \in Instances, NEW v \in Validators
    PROVE  [f EXCEPT ![i][v] = f[i][v]] = f
OBVIOUS

(***************************************************************************)
(* Verified registrations are registrations.                               *)
(***************************************************************************)
LEMMA SignedSeq == \A q \in Seq(Signed) : q \in Seq(Registrations)
BY DEF Signed

(***************************************************************************)
(* The empty row is no registration.                                       *)
(***************************************************************************)
LEMMA NoneIsNoRegistration == None \notin Registrations
  BY BoundsAssumption DEF None, Registrations

(***************************************************************************)
(* The stores and queues start empty.                                      *)
(***************************************************************************)
LEMMA InitInv == Init => IInv
<1> SUFFICES ASSUME Init PROVE IInv
  OBVIOUS
<1>1. StoresOK
  BY DEF Init, NoRows, StoresOK, Stored, Row
<1>2. QueuesOK
  BY DEF Init, QueuesOK, Stored
<1>3. CallsOK
  BY DEF Init, CallsOK
<1>4. SnapshotOK
  BY DEF Init, SnapshotOK
<1> QED
  BY <1>1, <1>2, <1>3, <1>4 DEF IInv

(***************************************************************************)
(* Replacing one row by another of the same validator.                     *)
(***************************************************************************)
LEMMA RowUpdate ==
    ASSUME NEW f \in [Validators -> Stored], \A v \in Validators : f[v] \in Row(v),
           NEW w \in Validators, NEW r \in Row(w)
    PROVE  /\ [f EXCEPT ![w] = r] \in [Validators -> Stored]
           /\ \A v \in Validators : [f EXCEPT ![w] = r][v] \in Row(v)
  BY DEF Row, Signed, Stored

(***************************************************************************)
(* The same in the local cache of one instance.                            *)
(***************************************************************************)
LEMMA LocalUpdate ==
    ASSUME StoresOK, NEW i \in Instances, NEW w \in Validators, NEW r \in Row(w),
           local' = [local EXCEPT ![i][w] = r], UNCHANGED <<redis, db>>
    PROVE  StoresOK'
<1>1. /\ [local[i] EXCEPT ![w] = r] \in [Validators -> Stored]
      /\ \A v \in Validators : [local[i] EXCEPT ![w] = r][v] \in Row(v)
  BY RowUpdate DEF StoresOK
<1>2. local' = [local EXCEPT ![i] = [local[i] EXCEPT ![w] = r]]
  OBVIOUS
<1> QED
  BY <1>1, <1>2 DEF StoresOK

(***************************************************************************)
(* A request arrives; its registrations are not verified yet.              *)
(***************************************************************************)
LEMMA ArriveInv == ASSUME IInv, NEW c \in Calls, Arrive(c) PROVE IInv'
<1> USE DEF IInv
<1>1. UNCHANGED <<stores, processing, fresh, snapshot>>
  BY DEF Arrive
<1>2. CallsOK'
  <2>1. PICK i \in Instances, b \in Batches : /\ at' = [at EXCEPT ![c] = i]
                                              /\ batch' = [batch EXCEPT ![c] = b]
    BY Zenon DEF Arrive
  <2>2. b \in Seq(Registrations)
    <3>1. PICK n \in 1..traffic.batch :
             b \in [1..n -> {r \in Registrations : r.timestamp <= traffic.latest}]
      BY DEF Batches
    <3>2. n \in Nat /\ b \in [1..n -> Registrations]
      BY <3>1
    <3> QED
      BY <3>2
  <2> QED
    BY <1>1, <2>1, <2>2 DEF CallsOK
<1> QED
  BY <1>1, <1>2 DEF StoresOK, QueuesOK, SnapshotOK, stores, processing

(***************************************************************************)
(* A request is refused, checked or answered.                              *)
(***************************************************************************)
LEMMA CallEndsInv ==
    ASSUME IInv, NEW c \in Calls, Refuse(c) \/ Checked(c) \/ Respond(c)
    PROVE  IInv'
<1> USE DEF IInv
<1>1. UNCHANGED <<stores, processing, snapshot, at>>
  BY DEF Refuse, Checked, Respond
<1>2. /\ batch' = batch \/ batch' = [batch EXCEPT ![c] = <<>>]
      /\ fresh' = fresh \/ fresh' = [fresh EXCEPT ![c] = <<>>]
  BY DEF Refuse, Checked, Respond
<1>3. <<>> \in Seq(Registrations)
  BY EmptySeq
<1>4. batch' \in [Calls -> Seq(Registrations)] /\ fresh' \in [Calls -> Seq(Registrations)]
  BY <1>2, <1>3, Zenon DEF CallsOK
<1> QED
  BY <1>1, <1>4 DEF StoresOK, QueuesOK, CallsOK, SnapshotOK, stores, processing

(***************************************************************************)
(* A registration is compared with the cached one; a hit in Redis moves to *)
(* the local cache of the instance.                                        *)
(***************************************************************************)
LEMMA CheckInv == ASSUME IInv, NEW c \in Calls, Check(c) PROVE IInv'
<1> USE DEF IInv
<1> DEFINE reg == Head(batch[c])
<1> DEFINE i == at[c]
<1>1. batch[c] \in Seq(Registrations) /\ batch[c] # <<>> /\ fresh[c] \in Seq(Registrations)
  BY DEF Check, CallsOK
<1>2. reg \in Registrations /\ Tail(batch[c]) \in Seq(Registrations)
  BY <1>1, HeadTailProperties
<1>3. Append(fresh[c], reg) \in Seq(Registrations)
  BY <1>1, <1>2, AppendProperties
<1>4. reg.pubkey \in Validators /\ i \in Instances
  BY <1>2 DEF Registrations, CallsOK
<1>5. Cached(i, reg.pubkey) \in Row(reg.pubkey)
  BY <1>4 DEF Cached, StoresOK
<1>6. /\ batch' = [batch EXCEPT ![c] = Tail(@)]
      /\ fresh' = fresh \/ fresh' = [fresh EXCEPT ![c] = Append(@, reg)]
      /\ local' = local \/ local' = [local EXCEPT ![i][reg.pubkey] = Cached(i, reg.pubkey)]
      /\ UNCHANGED <<redis, db, processing, at, snapshot>>
  BY DEF Check
<1>7. CallsOK'
  BY <1>2, <1>3, <1>6, Zenon DEF CallsOK
<1>8. StoresOK'
  <2>1. CASE local' = local
    BY <1>6, <2>1 DEF StoresOK
  <2>2. CASE local' = [local EXCEPT ![i][reg.pubkey] = Cached(i, reg.pubkey)]
    BY <1>4, <1>5, <1>6, <2>2, LocalUpdate, Zenon
  <2> QED
    BY <1>6, <2>1, <2>2
<1> QED
  BY <1>6, <1>7, <1>8 DEF QueuesOK, SnapshotOK, processing

(***************************************************************************)
(* Only a registration whose signature was verified is queued.             *)
(***************************************************************************)
LEMMA EnqueueInv == ASSUME IInv, NEW c \in Calls, Enqueue(c) PROVE IInv'
<1> USE DEF IInv
<1> DEFINE reg == Head(fresh[c])
<1>1. fresh[c] \in Seq(Registrations) /\ fresh[c] # <<>>
  BY DEF Enqueue, CallsOK
<1>2. reg \in Registrations /\ Tail(fresh[c]) \in Seq(Registrations)
  BY <1>1, HeadTailProperties
<1>3. at[c] \in Instances /\ queue[at[c]] \in Seq(Signed)
  BY DEF CallsOK, QueuesOK
<1>4. UNCHANGED <<stores, worker, step, at, batch, snapshot>>
  BY DEF Enqueue
<1>5. CallsOK'
  <2>1. \E rest \in {<<>>, Tail(fresh[c])} : fresh' = [fresh EXCEPT ![c] = rest]
    BY DEF Enqueue
  <2>2. <<>> \in Seq(Registrations)
    BY EmptySeq
  <2>3. fresh' \in [Calls -> Seq(Registrations)]
    BY <1>2, <2>1, <2>2, Zenon DEF CallsOK
  <2> QED
    BY <1>4, <2>3 DEF CallsOK
<1>6. queue' \in [Instances -> Seq(Signed)]
  <2>1. CASE ~reg.signed
    BY <2>1 DEF Enqueue, QueuesOK
  <2>2. CASE reg.signed
    <3>1. reg \in Signed
      BY <1>2, <2>2 DEF Signed
    <3>2. Append(queue[at[c]], reg) \in Seq(Signed)
      BY <1>3, <3>1, AppendProperties
    <3>3. queue' = queue \/ queue' = [queue EXCEPT ![at[c]] = Append(@, reg)]
      BY <2>2 DEF Enqueue, Send
    <3> QED
      BY <1>3, <3>2, <3>3, Zenon DEF QueuesOK
  <2> QED
    BY <2>1, <2>2
<1> QED
  BY <1>4, <1>5, <1>6 DEF StoresOK, QueuesOK, SnapshotOK, stores

(***************************************************************************)
(* A processor takes a verified registration from the queue.               *)
(***************************************************************************)
LEMMA TakeInv ==
    ASSUME IInv, NEW i \in Instances, NEW p \in Processors, Take(i, p)
    PROVE  IInv'
<1> USE DEF IInv
<1>1. queue[i] \in Seq(Signed) /\ queue[i] # <<>>
  BY DEF Take, QueuesOK
<1>2. Head(queue[i]) \in Signed /\ Tail(queue[i]) \in Seq(Signed)
  BY <1>1, HeadTailProperties
<1>3. Head(queue[i]) \in Stored
  BY <1>2 DEF Signed, Stored
<1>4. QueuesOK'
  <2>1. queue' \in [Instances -> Seq(Signed)]
    BY <1>2 DEF Take, QueuesOK
  <2>2. worker' \in [Instances -> [Processors -> Stored]]
    BY <1>3 DEF Take, QueuesOK
  <2>3. step' \in [Instances -> [Processors -> {"idle", "local", "db", "redis"}]]
    BY DEF Take, QueuesOK
  <2>4. \A j \in Instances, q \in Processors : step'[j][q] # "idle" => worker'[j][q] \in Signed
    BY <1>2 DEF Take, QueuesOK
  <2> QED
    BY <2>1, <2>2, <2>3, <2>4 DEF QueuesOK
<1> QED
  BY <1>4 DEF Take, StoresOK, CallsOK, SnapshotOK, stores, calls

(***************************************************************************)
(* Moving a processor on, or ending its save, keeps what it holds.         *)
(***************************************************************************)
LEMMA WorkerSteps ==
    ASSUME QueuesOK, NEW i \in Instances, NEW p \in Processors,
           NEW to \in {"idle", "local", "db", "redis"}, step[i][p] # "idle",
           step' = [step EXCEPT ![i][p] = to],
           \/ UNCHANGED worker
           \/ to = "idle" /\ worker' = [worker EXCEPT ![i][p] = None],
           UNCHANGED queue
    PROVE  QueuesOK'
<1>1. step' \in [Instances -> [Processors -> {"idle", "local", "db", "redis"}]]
  BY DEF QueuesOK
<1>2. worker' \in [Instances -> [Processors -> Stored]]
  <2>1. CASE UNCHANGED worker
    BY <2>1 DEF QueuesOK
  <2>2. CASE worker' = [worker EXCEPT ![i][p] = None]
    <3>1. None \in Stored /\ worker[i] \in [Processors -> Stored]
      BY DEF Stored, QueuesOK
    <3>2. [worker[i] EXCEPT ![p] = None] \in [Processors -> Stored]
      BY <3>1
    <3> QED
      BY <2>2, <3>2 DEF QueuesOK
  <2> QED
    BY <2>1, <2>2
<1>3. \A j \in Instances, q \in Processors : step'[j][q] # "idle" => worker'[j][q] \in Signed
  BY DEF QueuesOK
<1> QED
  BY <1>1, <1>2, <1>3 DEF QueuesOK

(***************************************************************************)
(* A processor writes to one of the three stores, or fails to.             *)
(***************************************************************************)
LEMMA SaveInv ==
    ASSUME IInv, NEW i \in Instances, NEW p \in Processors,
           SaveLocal(i, p) \/ SaveDatabase(i, p) \/ SaveRedis(i, p)
    PROVE  IInv'
<1> USE DEF IInv
<1> DEFINE reg == worker[i][p]
<1>1. step[i][p] # "idle" /\ UNCHANGED <<queue, calls, snapshot>>
  BY DEF SaveLocal, SaveDatabase, SaveRedis
<1>2. reg \in Signed
  BY <1>1 DEF QueuesOK
<1>3. reg.pubkey \in Validators /\ reg \in Row(reg.pubkey)
  BY <1>2 DEF Signed, Registrations, Row
<1>4. QueuesOK'
  <2>1. CASE SaveLocal(i, p)
    BY <1>1, <2>1, WorkerSteps, Zenon DEF SaveLocal
  <2>2. CASE SaveDatabase(i, p)
    BY <1>1, <2>2, WorkerSteps DEF SaveDatabase
  <2>3. CASE SaveRedis(i, p)
    BY <1>1, <2>3, WorkerSteps, Zenon DEF SaveRedis
  <2> QED
    BY <2>1, <2>2, <2>3
<1>5. StoresOK'
  <2>1. CASE SaveLocal(i, p)
    BY <1>3, <2>1, LocalUpdate, Zenon DEF SaveLocal
  <2>2. CASE SaveDatabase(i, p)
    <3>1. db' \in {db, [db EXCEPT ![reg.pubkey] = reg]} /\ UNCHANGED <<local, redis>>
      BY <2>2 DEF SaveDatabase
    <3>2. /\ [db EXCEPT ![reg.pubkey] = reg] \in [Validators -> Stored]
          /\ \A v \in Validators : [db EXCEPT ![reg.pubkey] = reg][v] \in Row(v)
      BY <1>3, RowUpdate DEF StoresOK
    <3> QED
      BY <3>1, <3>2 DEF StoresOK
  <2>3. CASE SaveRedis(i, p)
    <3>1. redis' \in {redis, [redis EXCEPT ![reg.pubkey] = reg]} /\ UNCHANGED <<local, db>>
      BY <2>3 DEF SaveRedis
    <3>2. /\ [redis EXCEPT ![reg.pubkey] = reg] \in [Validators -> Stored]
          /\ \A v \in Validators : [redis EXCEPT ![reg.pubkey] = reg][v] \in Row(v)
      BY <1>3, RowUpdate DEF StoresOK
    <3> QED
      BY <3>1, <3>2 DEF StoresOK
  <2> QED
    BY <2>1, <2>2, <2>3
<1> QED
  BY <1>1, <1>4, <1>5 DEF CallsOK, SnapshotOK, calls

(***************************************************************************)
(* The housekeeper reads rows of the database and writes them to Redis.    *)
(***************************************************************************)
LEMMA HousekeeperInv ==
    ASSUME IInv, HousekeeperRead \/ \E v \in Validators : HousekeeperWrite(v)
    PROVE  IInv'
<1> USE DEF IInv
<1>1. CASE HousekeeperRead
  <2>1. SnapshotOK'
    BY <1>1 DEF HousekeeperRead, SnapshotOK, StoresOK
  <2> QED
    BY <1>1, <2>1 DEF HousekeeperRead, StoresOK, QueuesOK, CallsOK, stores, processing, calls
<1>2. ASSUME NEW v \in Validators, HousekeeperWrite(v) PROVE IInv'
  <2>1. v \in DOMAIN snapshot /\ snapshot[v] \in Row(v)
    BY <1>2 DEF HousekeeperWrite, SnapshotOK
  <2>2. redis' \in {redis, [redis EXCEPT ![v] = snapshot[v]]} /\ UNCHANGED <<local, db>>
    BY <1>2 DEF HousekeeperWrite
  <2>3. /\ [redis EXCEPT ![v] = snapshot[v]] \in [Validators -> Stored]
        /\ \A w \in Validators : [redis EXCEPT ![v] = snapshot[v]][w] \in Row(w)
    BY <2>1, RowUpdate DEF StoresOK
  <2>4. StoresOK'
    BY <2>2, <2>3 DEF StoresOK
  <2>5. SnapshotOK'
    BY <1>2 DEF HousekeeperWrite, SnapshotOK
  <2> QED
    BY <1>2, <2>4, <2>5 DEF HousekeeperWrite, QueuesOK, CallsOK, processing, calls
<1> QED
  BY <1>1, <1>2

(***************************************************************************)
(* Every step keeps the invariant.                                         *)
(***************************************************************************)
LEMMA NextInv == IInv /\ [Next]_vars => IInv'
<1> SUFFICES ASSUME IInv, [Next]_vars PROVE IInv'
  OBVIOUS
<1>1. CASE UNCHANGED vars
  BY <1>1 DEF vars, stores, processing, calls, IInv, StoresOK, QueuesOK, CallsOK, SnapshotOK
<1>2. CASE Step
  BY <1>2, ArriveInv, CallEndsInv, CheckInv, EnqueueInv, TakeInv, SaveInv, HousekeeperInv
     DEF Step, Process
<1> QED
  BY <1>1, <1>2 DEF Next

(***************************************************************************)
(* No store of any instance ever holds a registration whose signature was  *)
(* not verified, whichever path brought it there.                          *)
(***************************************************************************)
THEOREM OnlyVerifiedStored == Spec => []StoredIsVerified
<1>1. IInv => StoredIsVerified
  BY DEF IInv, StoresOK, Row, Signed, StoredIsVerified, Verified
<1> QED
  BY <1>1, InitInv, NextInv, PTL DEF Spec

-----------------------------------------------------------------------------
(***************************************************************************)
(* The stores agree when calls come one after the other, each with one     *)
(* registration.  At most one registration is then under way: in a call,   *)
(* in the queue or with one processor.  It is newer than the row of the    *)
(* database and changes it, and until the first store has it the three     *)
(* stores are equal.                                                       *)
(***************************************************************************)

NothingChecked == \A c \in Calls : batch[c] = <<>> /\ fresh[c] = <<>>

SerialCalls ==
    /\ pc \in [Calls -> {"new", "check", "queue", "done"}]
    /\ \A c, d \in Calls : c # d /\ pc[c] \notin {"new", "done"} => pc[d] \in {"new", "done"}
    /\ \A c \in Calls :
         /\ pc[c] \in {"new", "done"} => batch[c] = <<>> /\ fresh[c] = <<>>
         /\ pc[c] = "queue" => batch[c] = <<>>
         /\ batch[c] # <<>> => Len(batch[c]) = 1 /\ fresh[c] = <<>>
         /\ fresh[c] # <<>> => Len(fresh[c]) = 1 /\ Inserts(Head(fresh[c]))

SerialQueue(i) ==
    /\ queue[i] # <<>> => /\ Len(queue[i]) = 1 /\ Inserts(Head(queue[i]))
                          /\ NothingChecked
                          /\ \A p \in Processors : step[i][p] = "idle"
    /\ \A p \in Processors :
         step[i][p] # "idle" => /\ NothingChecked /\ queue[i] = <<>>
                                /\ \A q \in Processors : q # p => step[i][q] = "idle"

Saving(i, v) ==
    \E p \in Processors : step[i][p] \in {"db", "redis"} /\ worker[i][p].pubkey = v

\* What the stores hold while processor p of instance i saves reg
Saves(i, p, reg) ==
    /\ step[i][p] \in {"local", "db"} => Inserts(reg)
    /\ step[i][p] = "db" => local[i][reg.pubkey] = reg /\ redis[reg.pubkey] = db[reg.pubkey]
    /\ step[i][p] = "redis" => local[i][reg.pubkey] = reg /\ db[reg.pubkey] = reg

SerialStores(i) ==
    /\ \A v \in Validators : ~Saving(i, v) => local[i][v] = db[v] /\ redis[v] = db[v]
    /\ \A p \in Processors : Saves(i, p, worker[i][p])

Unused(j) ==
    /\ queue[j] = <<>> /\ \A p \in Processors : step[j][p] = "idle"
    /\ \A v \in Validators : local[j][v] = None

Serial(i) ==
    /\ \A c \in Calls : at[c] = i
    /\ DOMAIN snapshot = {}
    /\ \A j \in Instances : j # i => Unused(j)
    /\ SerialCalls /\ SerialQueue(i) /\ SerialStores(i)

SerialInv == traffic \in Traffic /\ (traffic.calm = TRUE => \E i \in Instances : Serial(i))

(***************************************************************************)
(* A step that leaves the stores, the queues and the processors alone      *)
(* keeps what is said of them, unless it puts registrations in a call.     *)
(***************************************************************************)
LEMMA SerialCallStep ==
    ASSUME NEW i \in Instances, Serial(i), UNCHANGED <<stores, processing, at, snapshot>>,
           SerialCalls', NothingChecked => NothingChecked' \/ Quiet
    PROVE  Serial(i)'
<1>1. UNCHANGED <<local, redis, db, queue, worker, step>>
  BY DEF stores, processing
<1>2. SerialQueue(i)'
  BY <1>1 DEF Serial, SerialQueue, Inserts, Quiet, NothingChecked
<1>3. SerialStores(i)'
  BY <1>1, Zenon DEF Serial, SerialStores, Saving, Saves, Inserts
<1> QED
  BY <1>1, <1>2, <1>3 DEF Serial, Unused

(***************************************************************************)
(* A calm call arrives when nothing is under way, with one registration.   *)
(***************************************************************************)
LEMMA SerialArrive ==
    ASSUME IInv, traffic \in Traffic, traffic.calm = TRUE, NEW i \in Instances, Serial(i),
           NEW c \in Calls, Arrive(c)
    PROVE  Serial(i)'
<1>1. traffic.batch = 1
  BY TrafficAssumption
<1>2. /\ pc[c] = "new" /\ Quiet
      /\ pc' = [pc EXCEPT ![c] = "check"]
      /\ UNCHANGED <<stores, processing, fresh, snapshot>>
  BY DEF Arrive, Calm
<1>3. PICK b \in Batches : batch' = [batch EXCEPT ![c] = b] /\ at' = [at EXCEPT ![c] = at[c]]
  BY Zenon DEF Arrive, Calm
<1>4. at' = at
  BY <1>3 DEF IInv, CallsOK
<1>5. Len(b) = 1
  <2>1. PICK n \in 1 .. traffic.batch :
           b \in [1..n -> {r \in Registrations : r.timestamp <= traffic.latest}]
    BY DEF Batches
  <2>2. n = 1
    BY <1>1, <2>1
  <2>3. b \in [1 .. 1 -> Registrations]
    BY <2>1, <2>2
  <2> QED
    BY <2>3
<1>6. SerialCalls'
  <2>1. /\ pc'[c] = "check" /\ batch'[c] = b /\ fresh' = fresh /\ fresh[c] = <<>>
        /\ \A d \in Calls : d # c => pc'[d] = pc[d] /\ batch'[d] = batch[d]
        /\ \A d \in Calls : pc[d] \in {"new", "done"}
    <3>1. /\ pc \in [Calls -> {"new", "check", "queue", "done"}]
          /\ batch \in [Calls -> Seq(Registrations)]
          /\ fresh' = fresh /\ fresh[c] = <<>>
          /\ \A d \in Calls : pc[d] \in {"new", "done"}
      BY <1>2, Zenon DEF IInv, CallsOK, Serial, SerialCalls, Quiet
    <3>2. pc'[c] = "check" /\ batch'[c] = b
      BY <1>2, <1>3, <3>1
    <3>3. \A d \in Calls : d # c => pc'[d] = pc[d] /\ batch'[d] = batch[d]
      BY <1>2, <1>3, <3>1
    <3> QED
      BY <3>1, <3>2, <3>3, Zenon
  <2>2. pc' \in [Calls -> {"new", "check", "queue", "done"}]
    BY <1>2 DEF Serial, SerialCalls
  <2>3. \A d \in Calls : fresh[d] = <<>>
    BY <2>1 DEF Serial, SerialCalls
  <2> QED
    BY <1>5, <2>1, <2>2, <2>3 DEF Serial, SerialCalls
<1> QED
  BY <1>2, <1>4, <1>6, SerialCallStep

(***************************************************************************)
(* A call is refused, checked or answered.                                 *)
(***************************************************************************)
LEMMA SerialCallEnds ==
    ASSUME IInv, NEW i \in Instances, Serial(i),
           NEW c \in Calls, Refuse(c) \/ Checked(c) \/ Respond(c)
    PROVE  Serial(i)'
<1>1. /\ UNCHANGED <<stores, processing, at, snapshot>>
      /\ pc[c] \in {"check", "queue"}
      /\ pc' \in {[pc EXCEPT ![c] = "done"], [pc EXCEPT ![c] = "queue"]}
      /\ batch' = batch \/ batch' = [batch EXCEPT ![c] = <<>>]
      /\ fresh' = fresh \/ fresh' = [fresh EXCEPT ![c] = <<>>]
  BY DEF Refuse, Checked, Respond
<1>2. /\ pc' \in [Calls -> {"new", "check", "queue", "done"}]
      /\ \A d \in Calls : d # c => pc'[d] = pc[d] /\ batch'[d] = batch[d] /\ fresh'[d] = fresh[d]
      /\ batch'[c] \in {batch[c], <<>>} /\ fresh'[c] \in {fresh[c], <<>>}
  BY <1>1, Zenon DEF IInv, CallsOK, Serial, SerialCalls
<1>3. /\ pc'[c] = "done" => batch'[c] = <<>> /\ fresh'[c] = <<>>
      /\ pc'[c] = "queue" => batch'[c] = <<>>
      /\ pc'[c] \in {"queue", "done"}
  BY DEF Refuse, Checked, Respond, IInv, CallsOK, Serial, SerialCalls
<1>4. db' = db
  BY <1>1 DEF stores
<1>5. SerialCalls'
  <2>1. SerialCalls
    BY DEF Serial
  <2>2. \A e, d \in Calls : e # d /\ pc'[e] \notin {"new", "done"} => pc'[d] \in {"new", "done"}
    BY <1>1, <1>2, <1>3, <2>1 DEF SerialCalls
  <2>3. \A reg : Inserts(reg) => Inserts(reg)'
    BY <1>4 DEF Inserts
  <2>4. ASSUME NEW d \in Calls
        PROVE  /\ pc'[d] \in {"new", "done"} => batch'[d] = <<>> /\ fresh'[d] = <<>>
               /\ pc'[d] = "queue" => batch'[d] = <<>>
               /\ batch'[d] # <<>> => Len(batch'[d]) = 1 /\ fresh'[d] = <<>>
               /\ fresh'[d] # <<>> => Len(fresh'[d]) = 1 /\ Inserts(Head(fresh'[d]))
    <3>1. CASE d # c
      BY <1>2, <2>1, <3>1 DEF SerialCalls
    <3>2. CASE d = c
      BY <1>2, <1>3, <2>1, <3>2 DEF SerialCalls
    <3> QED
      BY <3>1, <3>2
  <2> QED
    BY <1>2, <2>2, <2>3, <2>4 DEF SerialCalls
<1>6. NothingChecked => NothingChecked'
  BY <1>2 DEF NothingChecked
<1> QED
  BY <1>1, <1>5, <1>6, SerialCallStep

(***************************************************************************)
(* Nothing is left after the only registration of a call.                  *)
(***************************************************************************)
LEMMA SingleTail ==
    ASSUME NEW s \in Seq(Registrations), Len(s) = 1
    PROVE  Head(s) \in Registrations /\ Tail(s) = <<>>
<1>1. s # <<>>
  OBVIOUS
<1>2. Head(s) \in Registrations /\ Tail(s) \in Seq(Registrations) /\ Len(Tail(s)) = 0
  BY <1>1, HeadTailProperties
<1> QED
  BY <1>2, EmptySeq, Zenon

(***************************************************************************)
(* The cached registration is the row of the database, so that one found   *)
(* to be new and changed is going to be inserted.                          *)
(***************************************************************************)
LEMMA SerialCached ==
    ASSUME IInv, NEW i \in Instances, Serial(i), NEW c \in Calls, batch[c] # <<>>
    PROVE  /\ Head(batch[c]) \in Registrations /\ Head(batch[c]).pubkey \in Validators
           /\ at[c] = i /\ Tail(batch[c]) = <<>> /\ fresh[c] = <<>>
           /\ Cached(i, Head(batch[c]).pubkey) = db[Head(batch[c]).pubkey]
           /\ local[i][Head(batch[c]).pubkey] = db[Head(batch[c]).pubkey]
           /\ queue[i] = <<>> /\ \A p \in Processors : step[i][p] = "idle"
<1>1. batch[c] \in Seq(Registrations) /\ Len(batch[c]) = 1 /\ at[c] = i /\ fresh[c] = <<>>
  BY DEF IInv, CallsOK, Serial, SerialCalls
<1>2. Head(batch[c]) \in Registrations /\ Tail(batch[c]) = <<>>
  BY <1>1, SingleTail
<1>3. Head(batch[c]).pubkey \in Validators
  BY <1>2 DEF Registrations
<1>4. queue[i] = <<>> /\ \A p \in Processors : step[i][p] = "idle"
  BY DEF Serial, SerialQueue, NothingChecked
<1>5. \A v \in Validators : local[i][v] = db[v] /\ redis[v] = db[v]
  BY <1>4 DEF Serial, SerialStores, Saving
<1> QED
  BY <1>1, <1>2, <1>3, <1>4, <1>5 DEF Cached

(***************************************************************************)
(* One turn of the loop of a calm call.                                    *)
(***************************************************************************)
LEMMA SerialCheck ==
    ASSUME IInv, traffic.calm = TRUE, NEW i \in Instances, Serial(i), NEW c \in Calls, Check(c)
    PROVE  Serial(i)'
<1> DEFINE reg == Head(batch[c])
           v == reg.pubkey
<1>1. batch[c] # <<>> /\ pc[c] = "check"
  BY DEF Check
<1>2. /\ reg \in Registrations /\ v \in Validators /\ at[c] = i
      /\ Tail(batch[c]) = <<>> /\ fresh[c] = <<>>
      /\ Cached(i, v) = db[v] /\ local[i][v] = db[v]
      /\ queue[i] = <<>> /\ \A p \in Processors : step[i][p] = "idle"
  <2>1. /\ reg \in Registrations /\ v \in Validators /\ at[c] = i
        /\ Tail(batch[c]) = <<>> /\ fresh[c] = <<>>
    BY <1>1, SerialCached
  <2>2. Cached(i, v) = db[v] /\ local[i][v] = db[v]
    BY <1>1, SerialCached
  <2>3. queue[i] = <<>> /\ \A p \in Processors : step[i][p] = "idle"
    BY <1>1, SerialCached
  <2> QED
    BY <2>1, <2>2, <2>3, Zenon
<1> HIDE DEF reg, v
<1>3. /\ batch' = [batch EXCEPT ![c] = <<>>]
      /\ local' = [local EXCEPT ![i][v] = db[v]]
      /\ \/ UNCHANGED fresh
         \/ /\ ~Unchanged(reg, db[v]) /\ ~Replayed(reg, db[v])
            /\ fresh' = [fresh EXCEPT ![c] = Append(<<>>, reg)]
      /\ UNCHANGED <<redis, db, processing, pc, at, snapshot>>
  BY <1>2, Zenon DEF Check, StoreMayFail, Calm, reg, v
<1>4. local' = local
  <2>1. local \in [Instances -> [Validators -> Stored]]
    BY Zenon DEF IInv, StoresOK
  <2>2. local' = [local EXCEPT ![i][v] = local[i][v]]
    BY <1>2, <1>3, Zenon
  <2> QED
    BY <1>2, <2>1, <2>2, WriteSame, Zenon
<1>5. ~Unchanged(reg, db[v]) /\ ~Replayed(reg, db[v]) => Inserts(reg)
  <2>1. db[v] # None => reg.timestamp \in Nat /\ db[v].timestamp \in Nat
    BY <1>2, BoundsAssumption DEF IInv, StoresOK, Stored, Registrations
  <2> QED
    BY <2>1 DEF Unchanged, Replayed, Inserts, v
<1>6. /\ batch'[c] = <<>>
      /\ \/ fresh'[c] = <<>>
         \/ Inserts(reg) /\ fresh'[c] = <<reg>>
      /\ \A d \in Calls : d # c => batch'[d] = batch[d] /\ fresh'[d] = fresh[d]
  BY <1>2, <1>3, <1>5 DEF IInv, CallsOK
<1>7. SerialCalls'
  <2>1. <<reg>> # <<>> /\ Len(<<reg>>) = 1 /\ Head(<<reg>>) = reg
    OBVIOUS
  <2> QED
    <3>1. \A d \in Calls : d # c /\ fresh[d] # <<>> => Inserts(Head(fresh[d]))'
      <4>1. SerialCalls /\ \A r : Inserts(r)' <=> Inserts(r)
        BY <1>3, Zenon DEF Serial, Inserts
      <4> QED
        BY <1>6, <4>1, Zenon DEF SerialCalls
    <3>2. fresh'[c] # <<>> => Len(fresh'[c]) = 1 /\ Inserts(Head(fresh[c]))'
      BY <1>3, <1>6, <2>1, Zenon DEF Inserts
    <3> QED
      BY <1>1, <1>3, <1>6, <3>1, <3>2 DEF Serial, SerialCalls
<1>8. ~NothingChecked
  BY <1>1 DEF NothingChecked
<1> QED
  BY <1>3, <1>4, <1>7, <1>8, SerialCallStep DEF stores

(***************************************************************************)
(* A calm call sends its registration to the empty queue.                  *)
(***************************************************************************)
LEMMA SerialEnqueue ==
    ASSUME IInv, NEW i \in Instances, Serial(i), NEW c \in Calls, Enqueue(c)
    PROVE  Serial(i)'
<1> DEFINE reg == Head(fresh[c])
<1>1. /\ fresh[c] # <<>> /\ pc[c] = "queue" /\ at[c] = i
      /\ UNCHANGED <<stores, worker, step, pc, at, batch, snapshot>>
  BY Zenon DEF Enqueue, Serial
<1>2. fresh[c] \in Seq(Registrations) /\ Len(fresh[c]) = 1 /\ Inserts(reg)
  BY <1>1 DEF IInv, CallsOK, Serial, SerialCalls
<1>3. Tail(fresh[c]) = <<>>
  BY <1>2, SingleTail
<1>4. queue[i] = <<>> /\ \A p \in Processors : step[i][p] = "idle"
  BY <1>1 DEF Serial, SerialQueue, NothingChecked
<1>5. fresh' = [fresh EXCEPT ![c] = <<>>]
  BY <1>3 DEF Enqueue
<1>6. queue' = queue \/ queue' = [queue EXCEPT ![i] = Append(<<>>, reg)]
  BY <1>1, <1>4 DEF Enqueue, Send
<1>7. /\ fresh'[c] = <<>> /\ \A d \in Calls : d # c => fresh'[d] = fresh[d]
      /\ queue'[i] = <<>> \/ queue'[i] = <<reg>>
      /\ \A j \in Instances : j # i => queue'[j] = queue[j]
  BY <1>4, <1>5, <1>6 DEF IInv, CallsOK, QueuesOK
<1>8. UNCHANGED <<local, redis, db>>
  BY <1>1 DEF stores
<1>9. SerialCalls'
  <2>1. SerialCalls /\ pc' = pc /\ batch' = batch
    BY <1>1, Zenon DEF Serial
  <2>2. \A d \in Calls : fresh'[d] # <<>> => fresh'[d] = fresh[d]
    BY <1>7, Zenon
  <2>3. \A r : Inserts(r)' <=> Inserts(r)
    BY <1>8, Zenon DEF Inserts
  <2>4. \A d \in Calls : fresh'[d] # <<>> => Len(fresh'[d]) = 1 /\ Inserts(Head(fresh[d]))'
    BY <2>1, <2>2, <2>3, Zenon DEF SerialCalls
  <2>5. \A d \in Calls : fresh[d] = <<>> => fresh'[d] = <<>>
    BY <1>7, Zenon
  <2> QED
    BY <2>1, <2>4, <2>5, Zenon DEF SerialCalls
<1>10. NothingChecked'
  BY <1>1, <1>7, Zenon DEF Serial, SerialCalls, NothingChecked
<1>11. SerialQueue(i)'
  <2>1. Len(<<reg>>) = 1 /\ Head(<<reg>>) = reg
    OBVIOUS
  <2> QED
    BY <1>1, <1>2, <1>4, <1>7, <1>8, <1>10, <2>1, Zenon DEF SerialQueue, Inserts
<1>12. SerialStores(i)'
  BY <1>1, <1>8, Zenon DEF Serial, SerialStores, Saving, Saves, Inserts
<1> QED
  BY <1>1, <1>7, <1>8, <1>9, <1>11, <1>12 DEF Serial, Unused

(***************************************************************************)
(* A processor takes the only registration of the queue.                   *)
(***************************************************************************)
LEMMA SerialTake ==
    ASSUME IInv, NEW i \in Instances, Serial(i),
           NEW j \in Instances, NEW p \in Processors, Take(j, p)
    PROVE  Serial(i)'
<1> DEFINE reg == Head(queue[i])
<1>1. /\ queue[j] # <<>> /\ queue' = [queue EXCEPT ![j] = Tail(@)]
      /\ worker' = [worker EXCEPT ![j][p] = Head(queue[j])]
      /\ step' = [step EXCEPT ![j][p] = "local"]
      /\ UNCHANGED <<local, redis, db, pc, at, batch, fresh, snapshot>>
  BY DEF Take, stores, calls
<1>2. j = i
  BY <1>1 DEF Serial, Unused
<1>3. queue[i] \in Seq(Signed) /\ Len(queue[i]) = 1 /\ Inserts(reg) /\ NothingChecked
      /\ \A q \in Processors : step[i][q] = "idle"
  BY <1>1, <1>2 DEF IInv, QueuesOK, Serial, SerialQueue
<1>4. Tail(queue[i]) = <<>>
  <2>1. queue[i] \in Seq(Registrations)
    BY <1>3, SignedSeq, Zenon
  <2> QED
    BY <1>3, <2>1, SingleTail
<1>5. /\ queue'[i] = <<>> /\ step'[i][p] = "local" /\ worker'[i][p] = reg
      /\ \A q \in Processors : q # p => step'[i][q] = "idle"
      /\ \A k \in Instances : k # i => queue'[k] = queue[k] /\ step'[k] = step[k]
  BY <1>1, <1>2, <1>3, <1>4 DEF IInv, QueuesOK
<1>6. SerialCalls' /\ NothingChecked'
  BY <1>1, <1>3 DEF Serial, SerialCalls, NothingChecked, Inserts
<1>7. SerialQueue(i)'
  BY <1>5, <1>6 DEF SerialQueue
<1>8. SerialStores(i)'
  <2>1. \A v \in Validators : local[i][v] = db[v] /\ redis[v] = db[v]
    BY <1>3, Zenon DEF Serial, SerialStores, Saving
  <2>2. \A q \in Processors : Saves(i, q, worker[i][q])'
    BY <1>1, <1>3, <1>5, Zenon DEF Saves, Inserts
  <2> QED
    BY <1>1, <2>1, <2>2 DEF SerialStores
<1> QED
  BY <1>1, <1>5, <1>6, <1>7, <1>8 DEF Serial, Unused

(***************************************************************************)
(* The processor writes to the three stores one after the other; nothing   *)
(* fails and nothing else is under way.                                    *)
(***************************************************************************)
LEMMA SerialSave ==
    ASSUME IInv, traffic.calm = TRUE, NEW i \in Instances, Serial(i),
           NEW j \in Instances, NEW p \in Processors,
           SaveLocal(j, p) \/ SaveDatabase(j, p) \/ SaveRedis(j, p)
    PROVE  Serial(i)'
<1>0. PICK reg : reg = worker[i][p]
  OBVIOUS
<1> DEFINE v == reg.pubkey
<1>1. step[j][p] # "idle" /\ UNCHANGED <<queue, pc, at, batch, fresh, snapshot>>
  BY DEF SaveLocal, SaveDatabase, SaveRedis, calls
<1>2. j = i /\ ~StoreMayFail
  BY <1>1, Zenon DEF Serial, Unused, StoreMayFail, Calm
<1>3. /\ NothingChecked /\ queue[i] = <<>> /\ \A q \in Processors : q # p => step[i][q] = "idle"
      /\ Saves(i, p, reg)
  BY <1>0, <1>1, <1>2, Zenon DEF Serial, SerialQueue, SerialStores
<1>4. reg \in Registrations /\ v \in Validators
  BY <1>0, <1>1, <1>2 DEF IInv, QueuesOK, Signed, Registrations
<1>5. \A w \in Validators :
        w # v \/ step[i][p] = "local" => local[i][w] = db[w] /\ redis[w] = db[w]
  BY <1>0, <1>3, Zenon DEF Serial, SerialStores, Saving
<1>6. PICK to \in {"idle", "db", "redis"} : /\ step' = [step EXCEPT ![i][p] = to]
                                            /\ to # "idle" => worker' = worker
  BY <1>2 DEF SaveLocal, SaveDatabase, SaveRedis
<1>7. /\ step'[i][p] = to
      /\ \A q \in Processors : q # p => step'[i][q] = "idle"
      /\ \A k \in Instances : k # i => step'[k] = step[k]
  BY <1>3, <1>6 DEF IInv, QueuesOK
<1> HIDE DEF v
<1>8. SerialCalls' /\ SerialQueue(i)'
  <2>1. NothingChecked'
    BY <1>1, <1>3, Zenon DEF NothingChecked
  <2>2. SerialCalls'
    BY <1>1, <1>3, Zenon DEF Serial, SerialCalls, NothingChecked
  <2>3. queue'[i] = <<>>
    BY <1>1, <1>3, Zenon
  <2> QED
    BY <1>7, <2>1, <2>2, <2>3, Zenon DEF SerialQueue
<1>9. /\ \A k \in Instances : k # i => local'[k] = local[k]
      /\ \A w \in Validators : w # v => /\ local'[i][w] = local[i][w]
                                        /\ redis'[w] = redis[w] /\ db'[w] = db[w]
  <2>1. /\ local' \in {local, [local EXCEPT ![i][v] = reg]}
        /\ redis' \in {redis, [redis EXCEPT ![v] = reg]}
        /\ db' \in {db, [db EXCEPT ![v] = reg]}
    BY <1>0, <1>2 DEF SaveLocal, SaveDatabase, SaveRedis, v
  <2> QED
    BY <2>1 DEF IInv, StoresOK
<1>10. /\ to = "db" => Inserts(reg) /\ db' = db /\ local'[i][v] = reg /\ redis'[v] = db[v]
       /\ to = "redis" => local'[i][v] = reg /\ db'[v] = reg
       /\ to = "idle" => local'[i][v] = reg /\ db'[v] = reg /\ redis'[v] = reg
  <2>1. CASE SaveLocal(i, p)
    <3>1. /\ step[i][p] = "local" /\ local' = [local EXCEPT ![i][v] = reg]
          /\ step' = [step EXCEPT ![i][p] = "db"] /\ UNCHANGED <<redis, db>>
      BY <1>0, <2>1 DEF SaveLocal, v
    <3>2. local'[i][v] = reg
      BY <1>4, <3>1 DEF IInv, StoresOK
    <3>3. to = "db"
      BY <1>7, <3>1 DEF IInv, QueuesOK
    <3>4. Inserts(reg) /\ redis[v] = db[v]
      BY <1>3, <1>4, <1>5, <3>1 DEF Saves
    <3> QED
      BY <3>1, <3>2, <3>3, <3>4
  <2>2. CASE SaveDatabase(i, p)
    <3>1. /\ step[i][p] = "db" /\ step' = [step EXCEPT ![i][p] = "redis"]
          /\ UNCHANGED <<local, redis>>
          /\ db' = IF Inserts(reg) THEN [db EXCEPT ![v] = reg] ELSE db
      BY <1>0, <1>2, <2>2 DEF SaveDatabase, v
    <3>2. Inserts(reg) /\ local[i][v] = reg
      BY <1>3, <3>1 DEF Saves, v
    <3>3. db'[v] = reg
      BY <1>4, <3>1, <3>2 DEF IInv, StoresOK
    <3>4. to = "redis"
      BY <1>7, <3>1 DEF IInv, QueuesOK
    <3> QED
      BY <3>1, <3>2, <3>3, <3>4
  <2>3. CASE SaveRedis(i, p)
    <3>1. /\ step[i][p] = "redis" /\ step' = [step EXCEPT ![i][p] = "idle"]
          /\ UNCHANGED <<local, db>>
          /\ redis' = [redis EXCEPT ![v] = reg]
      BY <1>0, <1>2, <2>3 DEF SaveRedis, v
    <3>2. redis'[v] = reg
      BY <1>4, <3>1 DEF IInv, StoresOK
    <3>3. local[i][v] = reg /\ db[v] = reg
      BY <1>3, <3>1 DEF Saves, v
    <3>4. to = "idle"
      BY <1>7, <3>1 DEF IInv, QueuesOK
    <3> QED
      BY <3>1, <3>2, <3>3, <3>4
  <2> QED
    BY <1>2, <2>1, <2>2, <2>3, Zenon
<1>11. SerialStores(i)'
  <2>1. \A w \in Validators : w # v => local'[i][w] = db'[w] /\ redis'[w] = db'[w]
    BY <1>5, <1>9
  <2>2. to # "idle" => Saving(i, v)'
    BY <1>0, <1>6, <1>7 DEF Saving, v
  <2>3. \A w \in Validators : ~Saving(i, w)' => local'[i][w] = db'[w] /\ redis'[w] = db'[w]
    BY <1>10, <2>1, <2>2
  <2>4. Saves(i, p, worker[i][p])'
    <3>1. CASE to = "idle"
      BY <1>7, <3>1 DEF Saves
    <3>2. CASE to # "idle"
      <4>1. worker'[i][p] = reg
        BY <1>0, <1>6, <3>2
      <4>2. to = "db" => Inserts(worker[i][p])'
        BY <1>10, <4>1 DEF Inserts
      <4> QED
        BY <1>6, <1>7, <1>10, <4>1, <4>2 DEF Saves, v
    <3> QED
      BY <3>1, <3>2
  <2>5. \A q \in Processors : q # p => Saves(i, q, worker[i][q])'
    BY <1>7, Zenon DEF Saves
  <2> QED
    BY <2>3, <2>4, <2>5 DEF SerialStores
<1>12. \A k \in Instances : k # i => Unused(k)'
  <2> SUFFICES ASSUME NEW k \in Instances, k # i PROVE Unused(k)'
    OBVIOUS
  <2>1. Unused(k) /\ queue'[k] = queue[k] /\ step'[k] = step[k] /\ local'[k] = local[k]
    BY <1>1, <1>7, <1>9, Zenon DEF Serial
  <2> QED
    BY <2>1, Zenon DEF Unused
<1> QED
  BY <1>1, <1>8, <1>11, <1>12, Zenon DEF Serial

(***************************************************************************)
(* Every calm step keeps the calls in series.                              *)
(***************************************************************************)
LEMMA SerialStep == IInv /\ SerialInv /\ [Next]_vars => SerialInv'
<1> SUFFICES ASSUME IInv, SerialInv, [Next]_vars PROVE SerialInv'
  OBVIOUS
<1>1. traffic' = traffic /\ traffic \in Traffic
  BY DEF Next, vars, SerialInv
<1>2. ASSUME traffic.calm = TRUE PROVE \E i \in Instances : Serial(i)'
  <2>1. PICK i \in Instances : Serial(i)
    BY <1>2 DEF SerialInv
  <2>2. CASE UNCHANGED vars
    <3>1. UNCHANGED <<stores, processing, at, snapshot>> /\ UNCHANGED <<db, pc, batch, fresh>>
      BY <2>2 DEF vars, stores, calls
    <3>2. SerialCalls' /\ (NothingChecked => NothingChecked')
      BY <2>1, <3>1 DEF Serial, SerialCalls, Inserts, NothingChecked
    <3> QED
      BY <2>1, <3>1, <3>2, SerialCallStep
  <2>3. ASSUME NEW c \in Calls,
               Arrive(c) \/ Refuse(c) \/ Check(c) \/ Checked(c) \/ Enqueue(c) \/ Respond(c)
        PROVE  Serial(i)'
    BY <1>1, <1>2, <2>1, <2>3, SerialArrive, SerialCallEnds, SerialCheck, SerialEnqueue, Zenon
  <2>4. ASSUME NEW j \in Instances, NEW p \in Processors, Process(j, p)
        PROVE  Serial(i)'
    BY <1>2, <2>1, <2>4, SerialTake, SerialSave, Zenon DEF Process
  <2>5. ~HousekeeperRead /\ \A v \in Validators : ~HousekeeperWrite(v)
    BY <1>2, <2>1 DEF HousekeeperRead, HousekeeperWrite, Calm, Serial
  <2> QED
    BY <2>2, <2>3, <2>4, <2>5 DEF Next, Step
<1> QED
  BY <1>1, <1>2, Zenon DEF SerialInv

(***************************************************************************)
(* At the start nothing is under way and the stores are empty.             *)
(***************************************************************************)
LEMMA SerialInit == Init => SerialInv
<1> SUFFICES ASSUME Init PROVE SerialInv
  OBVIOUS
<1>1. PICK i \in Instances : at = [c \in Calls |-> i]
  BY DEF Init
<1>2. SerialCalls
  BY DEF Init, SerialCalls
<1>3. SerialQueue(i) /\ SerialStores(i)
  BY DEF Init, NoRows, SerialQueue, SerialStores, Saves
<1>4. \A j \in Instances : Unused(j)
  BY DEF Init, NoRows, Unused
<1> QED
  BY <1>1, <1>2, <1>3, <1>4 DEF Init, Serial, SerialInv

(***************************************************************************)
(* SaveValidatorRegistration: when calls come one after the other and      *)
(* nothing fails, the local cache, Redis and the database agree on every   *)
(* validator whenever nothing is under way.                                *)
(***************************************************************************)
THEOREM StoresEndUpEqual == Spec => []StoresAgree
<1>1. SerialInv => StoresAgree
  <2> SUFFICES ASSUME SerialInv, Calm, Quiet, NEW v \in Validators
               PROVE  /\ Agree(redis[v], db[v])
                      /\ (redis[v] = None) = (db[v] = None)
                      /\ \A j \in Instances : Agree(local[j][v], db[v])
    BY DEF StoresAgree
  <2>1. PICK i \in Instances : Serial(i)
    BY TrafficAssumption DEF SerialInv, Calm
  <2>2. local[i][v] = db[v] /\ redis[v] = db[v]
    BY <2>1 DEF Quiet, Serial, SerialStores, Saving
  <2>3. \A j \in Instances : j # i => local[j][v] = None
    BY <2>1 DEF Serial, Unused
  <2> QED
    BY <2>2, <2>3 DEF Agree
<1> QED
  BY <1>1, InitInv, NextInv, SerialInit, SerialStep, PTL DEF Spec

(***************************************************************************)
(* The shortcut of registerValidator: under the same conditions what is    *)
(* discarded as unchanged says what the latest row of the database says.   *)
(***************************************************************************)
THEOREM DiscardsAreRedundant == Spec => DiscardIsRedundant
<1> DEFINE Redundant ==
             Calm => \A reg \in discarded' \ discarded : Agree(reg, db[reg.pubkey])
<1>1. IInv /\ SerialInv /\ [Next]_vars => [Redundant]_vars
  <2> SUFFICES ASSUME IInv, SerialInv, Next, Calm, NEW reg \in discarded', reg \notin discarded
               PROVE  Agree(reg, db[reg.pubkey])
    OBVIOUS
  <2>1. PICK c \in Calls : Check(c)
    BY Zenon DEF Next, Step, Arrive, Refuse, Checked, Enqueue, Respond, Process, Take, SaveLocal,
         SaveDatabase, SaveRedis, HousekeeperRead, HousekeeperWrite, calls
  <2>2. PICK i \in Instances : Serial(i)
    BY TrafficAssumption DEF SerialInv, Calm
  <2>3. batch[c] # <<>>
    BY <2>1 DEF Check
  <2>4. at[c] = i /\ Cached(i, Head(batch[c]).pubkey) = db[Head(batch[c]).pubkey]
    BY <2>2, <2>3, SerialCached
  <2>5. reg = Head(batch[c]) /\ Unchanged(reg, Cached(at[c], reg.pubkey))
    BY <2>1 DEF Check
  <2> QED
    BY <2>4, <2>5 DEF Unchanged, Agree
<1> QED
  BY <1>1, InitInv, NextInv, SerialInit, SerialStep, PTL DEF Spec, DiscardIsRedundant

-----------------------------------------------------------------------------
(* The registry of Vouch validators, with variables of its own. *)

\* Every call of the walks answered.
Answered == "walk" \notin faults /\ "empty" \notin faults

WalkTypes ==
    /\ lists \in [Nodes -> Seq(Pubkeys)]
    /\ todo \subseteq Nodes /\ next \in [Nodes -> Nat]
    /\ \A n \in Nodes : next[n] <= Len(lists[n]) + 1

\* How far the walk of a node has come: everything before its next index is in
\* the set, and once it is over, everything that was there when the sync began.
WalkedInv(n) ==
    /\ n \in todo => next[n] = 0
    /\ next[n] > 0 => \A i \in 1 .. Len(lists[n]) : i < next[n] => lists[n][i] \in found
    /\ n \notin todo /\ next[n] = 0 =>
         \A i \in 1 .. Len(lists[n]) : lists[n][i] \in before => lists[n][i] \in found

SyncInv ==
    /\ WalkTypes
    /\ phase = "walk" /\ Answered =>
         /\ before \subseteq OnContract /\ found \subseteq OnContract
         /\ \A n \in Nodes : WalkedInv(n)
    /\ phase = "save" /\ Answered =>
         before \subseteq pubkeys /\ pubkeys \subseteq OnContract

\* Nothing known is lost between the contract, the set in memory and the sync in
\* progress; the copy in Redis, and a restart with it, lacks only what a write of
\* another instance dropped.
LockInv ==
    /\ known \subseteq OnContract /\ saved \subseteq OnContract
    /\ known \ dropped \subseteq saved
    /\ phase # "down" => known \ dropped \subseteq pubkeys
    /\ phase # "down" /\ restarts = 0 => known \subseteq pubkeys
    /\ phase = "down" /\ restarts = 0 => known = {}
    /\ phase = "walk" => known \subseteq before
    /\ unlocked \subseteq dropped /\ (restarts = 0 => unlocked = {})
    /\ restarts \in Nat

(***************************************************************************)
(* A pubkey is on the contract when some node's list has it.               *)
(***************************************************************************)
LEMMA OnContractIff ==
    ASSUME WalkTypes
    PROVE  \A k : k \in OnContract
                    <=> \E n \in Nodes : \E i \in 1 .. Len(lists[n]) : k = lists[n][i]
<1>1. \A n \in Nodes : DOMAIN lists[n] = 1 .. Len(lists[n])
  BY DEF WalkTypes
<1> QED
  BY <1>1 DEF OnContract, Range

(***************************************************************************)
(* walkNodePubkeys goes on exactly when the whole batch was in range.      *)
(***************************************************************************)
LEMMA BatchInRange ==
    ASSUME WalkTypes, NEW n \in Nodes, next[n] > 0
    PROVE  /\ Batch(n) = {i \in 1 .. Len(lists[n]) :
                                  next[n] <= i /\ i < next[n] + BatchSize}
           /\ Cardinality(Batch(n)) < BatchSize
                <=> Len(lists[n]) < next[n] + BatchSize - 1
<1> DEFINE a == next[n]
           l == Len(lists[n])
<1>1. a \in Nat \ {0} /\ l \in Nat /\ BatchSize \in Nat \ {0} /\ a <= l + 1
  BY WalkAssumption DEF WalkTypes
<1>2. DOMAIN lists[n] = 1 .. l
  BY DEF WalkTypes
<1>3. Batch(n) = (a .. (a + BatchSize - 1)) \cap (1 .. l)
  BY <1>2 DEF Batch
<1> HIDE DEF a, l
<1>4. Batch(n) = {i \in 1 .. l : a <= i /\ i < a + BatchSize}
  BY <1>1, <1>3
<1>5. CASE l < a + BatchSize - 1
  <2>1. Batch(n) = a .. l
    BY <1>1, <1>3, <1>5
  <2>2. Cardinality(a .. l) = IF a > l THEN 0 ELSE l - a + 1
    BY <1>1, FS_Interval
  <2>3. Cardinality(Batch(n)) < BatchSize
    BY <1>1, <1>5, <2>1, <2>2
  <2> QED
    BY <1>4, <1>5, <2>3 DEF a, l
<1>6. CASE ~(l < a + BatchSize - 1)
  <2>1. Batch(n) = a .. (a + BatchSize - 1)
    BY <1>1, <1>3, <1>6
  <2>2. Cardinality(a .. (a + BatchSize - 1)) = BatchSize
    BY <1>1, FS_Interval
  <2>3. ~(Cardinality(Batch(n)) < BatchSize)
    BY <1>1, <2>1, <2>2
  <2> QED
    BY <1>4, <1>6, <2>3 DEF a, l
<1> QED
  BY <1>5, <1>6

(***************************************************************************)
(* A deposit adds its pubkey to the contract and to the end of one list,   *)
(* and changes no other index.                                             *)
(***************************************************************************)
LEMMA DepositAppends ==
    ASSUME WalkTypes, NEW n \in Nodes, NEW k \in Pubkeys, Deposit(n, k)
    PROVE  /\ WalkTypes'
           /\ k \notin OnContract
           /\ OnContract \subseteq (OnContract)'
           /\ \A m \in Nodes : \A i \in 1 .. Len(lists'[m]) :
                \/ i \in 1 .. Len(lists[m]) /\ lists'[m][i] = lists[m][i]
                \/ i = Len(lists[m]) + 1 /\ lists'[m][i] = k
<1>1. /\ lists' = [lists EXCEPT ![n] = Append(lists[n], k)]
      /\ k \notin OnContract /\ UNCHANGED <<todo, next>>
  BY DEF Deposit, enumeration
<1>2. ASSUME NEW m \in Nodes
      PROVE  /\ lists[m] \in Seq(Pubkeys) /\ lists'[m] \in Seq(Pubkeys)
             /\ Len(lists[m]) \in Nat /\ Len(lists'[m]) \in Nat
             /\ Len(lists[m]) <= Len(lists'[m])
             /\ \A i \in 1 .. Len(lists[m]) : lists'[m][i] = lists[m][i]
             /\ \A i \in 1 .. Len(lists'[m]) :
                  \/ i \in 1 .. Len(lists[m])
                  \/ i = Len(lists[m]) + 1 /\ lists'[m][i] = k
  <2>1. lists[m] \in Seq(Pubkeys)
    BY DEF WalkTypes
  <2>2. CASE m = n
    <3>1. lists'[m] = Append(lists[m], k)
      BY <1>1, <2>2 DEF WalkTypes
    <3> QED
      BY <2>1, <3>1
  <2>3. CASE m # n
    <3>1. lists'[m] = lists[m]
      BY <1>1, <2>3 DEF WalkTypes
    <3> QED
      BY <2>1, <3>1
  <2> QED
    BY <2>2, <2>3
<1>3. WalkTypes'
  <2>1. lists' \in [Nodes -> Seq(Pubkeys)]
    BY <1>1 DEF WalkTypes
  <2>2. \A m \in Nodes : next[m] <= Len(lists'[m]) + 1
    BY <1>2 DEF WalkTypes
  <2> QED
    BY <1>1, <2>1, <2>2 DEF WalkTypes
<1>4. OnContract \subseteq (OnContract)'
  <2>1. \A x : x \in (OnContract)'
                 <=> \E m \in Nodes : \E i \in 1 .. Len(lists'[m]) : x = lists'[m][i]
    <3>1. \A m \in Nodes : DOMAIN lists'[m] = 1 .. Len(lists'[m])
      BY <1>2
    <3> QED
      BY <3>1 DEF OnContract, Range
  <2>2. ASSUME NEW x \in OnContract PROVE x \in (OnContract)'
    <3>1. PICK m \in Nodes : \E i \in 1 .. Len(lists[m]) : x = lists[m][i]
      BY OnContractIff
    <3>2. \E i \in 1 .. Len(lists'[m]) : x = lists'[m][i]
      BY <1>2, <3>1
    <3> QED
      BY <2>1, <3>2
  <2> QED
    BY <2>2
<1> QED
  BY <1>1, <1>2, <1>3, <1>4

(***************************************************************************)
(* A step of a worker's walk, without a fault, keeps what is said of every *)
(* walk.                                                                   *)
(***************************************************************************)
LEMMA WalkStep ==
    ASSUME SyncInv, NEW n \in Nodes, Walk(n)
    PROVE  SyncInv'
<1>1. /\ phase = "walk" /\ next[n] > 0
      /\ UNCHANGED <<lists, todo, before, phase, pubkeys>>
  BY DEF Walk, Walking
<1>2. WalkTypes /\ next[n] \in Nat /\ Len(lists[n]) \in Nat /\ BatchSize \in Nat \ {0}
  BY WalkAssumption DEF SyncInv, WalkTypes
<1>3. (OnContract)' = OnContract
  BY <1>1, Zenon DEF OnContract
<1>4. CASE /\ found' = found \cup {lists[n][i] : i \in Batch(n)}
           /\ next' = [next EXCEPT ![n] = Advance(n)]
           /\ UNCHANGED faults
  <2>1. /\ Advance(n) \in Nat /\ Advance(n) <= Len(lists[n]) + 1
        /\ Advance(n) > 0 => Advance(n) = next[n] + BatchSize
        /\ Advance(n) = 0 => Len(lists[n]) < next[n] + BatchSize - 1
    <3>1. Advance(n) = IF Len(lists[n]) < next[n] + BatchSize - 1 THEN 0
                             ELSE next[n] + BatchSize
      <4>1. Cardinality(Batch(n)) < BatchSize
              <=> Len(lists[n]) < next[n] + BatchSize - 1
        BY <1>1, <1>2, BatchInRange, Zenon
      <4>2. Advance(n) = IF Cardinality(Batch(n)) < BatchSize THEN 0
                               ELSE next[n] + BatchSize
        BY Zenon DEF Advance
      <4> QED
        BY <4>1, <4>2
    <3> QED
      BY <1>2, <3>1
  <2>2. WalkTypes'
    BY <1>1, <1>2, <1>4, <2>1 DEF WalkTypes
  <2>3. ASSUME Answered
        PROVE  found' \subseteq OnContract /\ \A m \in Nodes : WalkedInv(m)'
    <3>1. /\ before \subseteq OnContract /\ found \subseteq OnContract
          /\ \A m \in Nodes : WalkedInv(m)
      BY <1>1, <2>3 DEF SyncInv
    <3>2. found' \subseteq OnContract
      <4>1. \A i \in Batch(n) : lists[n][i] \in OnContract
        BY <1>1, <1>2, BatchInRange, OnContractIff
      <4> QED
        BY <1>4, <3>1, <4>1
    <3>3. ASSUME NEW m \in Nodes, m # n PROVE WalkedInv(m)'
      <4>1. next'[m] = next[m] /\ found \subseteq found' /\ WalkedInv(m)
        BY <1>2, <1>4, <3>1, <3>3 DEF WalkTypes
      <4> QED
        BY <1>1, <4>1 DEF WalkedInv
    <3>4. WalkedInv(n)'
      <4>1. next'[n] = Advance(n) /\ n \notin todo
        <5>1. next \in [Nodes -> Nat] /\ (n \in todo => next[n] = 0)
          BY <1>2, <3>1, Zenon DEF WalkTypes, WalkedInv
        <5> QED
          BY <1>1, <1>4, <5>1
      <4>2. \A i \in 1 .. Len(lists[n]) : i < next[n] => lists[n][i] \in found'
        BY <1>1, <1>4, <3>1 DEF WalkedInv
      <4>3. \A i \in 1 .. Len(lists[n]) :
              next[n] <= i /\ i < next[n] + BatchSize => lists[n][i] \in found'
        <5>1. \A i \in 1 .. Len(lists[n]) :
                next[n] <= i /\ i < next[n] + BatchSize => i \in Batch(n)
          BY <1>1, <1>2, BatchInRange
        <5> QED
          BY <1>4, <5>1
      <4>4. \A i \in 1 .. Len(lists[n]) : i < next[n] + BatchSize => lists[n][i] \in found'
        <5>1. \A i \in 1 .. Len(lists[n]) : i < next[n] \/ next[n] <= i
          BY <1>2, Indices, Zenon
        <5> QED
          BY <4>2, <4>3, <5>1, Zenon
      <4>5. Advance(n) = 0 => \A i \in 1 .. Len(lists[n]) : lists[n][i] \in found'
        <5>1. Advance(n) = 0 => \A i \in 1 .. Len(lists[n]) : i < next[n] + BatchSize
          BY <1>2, <2>1, Indices, Zenon
        <5> QED
          BY <4>4, <5>1, Zenon
      <4> QED
        BY <1>1, <2>1, <4>1, <4>4, <4>5 DEF WalkedInv
    <3> QED
      BY <3>2, <3>3, <3>4
  <2> QED
    BY <1>1, <1>3, <1>4, <2>2, <2>3 DEF SyncInv, Answered
<1>5. CASE "walk" \in faults' /\ next' = [next EXCEPT ![n] = 0]
  <2>1. WalkTypes'
    BY <1>1, <1>2, <1>5 DEF WalkTypes
  <2> QED
    BY <1>5, <2>1 DEF SyncInv, Answered
<1> QED
  BY <1>4, <1>5 DEF Walk, Fault

(***************************************************************************)
(* Every step of the registry keeps the invariant of the sync.             *)
(***************************************************************************)
LEMMA SyncStep == SyncInv /\ [RegistryNext]_registryVars => SyncInv'
<1> SUFFICES ASSUME SyncInv, [RegistryNext]_registryVars PROVE SyncInv'
  OBVIOUS
<1>0. WalkTypes
  BY DEF SyncInv
<1>1. CASE UNCHANGED <<lists, pubkeys, phase, todo, next, found, before, faults>>
  <2>1. (OnContract)' = OnContract
    BY <1>1, Zenon DEF OnContract
  <2> QED
    BY <1>1, <2>1 DEF SyncInv, WalkTypes, WalkedInv, Answered
<1>2. CASE phase' \in {"down", "idle"} /\ UNCHANGED lists /\ UNCHANGED <<todo, next>>
  BY <1>2 DEF SyncInv, WalkTypes
<1>3. CASE phase' \in {"down", "idle"} /\ UNCHANGED lists /\ todo' = {} /\ next' = NoWalk
  <2>1. next' \in [Nodes -> Nat] /\ \A n \in Nodes : next'[n] = 0
    BY <1>3 DEF NoWalk
  <2> QED
    BY <1>3, <2>1 DEF SyncInv, WalkTypes
<1>4. ASSUME NEW n \in Nodes, NEW k \in Pubkeys, Deposit(n, k) PROVE SyncInv'
  <2>1. UNCHANGED <<pubkeys, phase, todo, next, found, before, faults>>
    BY <1>4 DEF Deposit, enumeration
  <2>2. ASSUME before \subseteq OnContract, NEW m \in Nodes, WalkedInv(m)
        PROVE  WalkedInv(m)'
    <3>1. /\ \A i \in 1 .. Len(lists'[m]) :
               \/ i \in 1 .. Len(lists[m]) /\ lists'[m][i] = lists[m][i]
               \/ i = Len(lists[m]) + 1 /\ lists'[m][i] = k
          /\ k \notin before
      BY <1>0, <1>4, <2>2, DepositAppends
    <3>2. next[m] \in Nat /\ Len(lists[m]) \in Nat /\ next[m] <= Len(lists[m]) + 1
      BY <1>0 DEF WalkTypes
    <3>3. m \in todo' => next'[m] = 0
      BY <2>1, <2>2 DEF WalkedInv
    <3>4. ASSUME next[m] > 0, NEW i \in 1 .. Len(lists'[m]), i < next[m]
          PROVE  lists'[m][i] \in found
      <4>1. i # Len(lists[m]) + 1
        BY <3>2, <3>4
      <4>2. i \in 1 .. Len(lists[m]) /\ lists'[m][i] = lists[m][i]
        BY <3>1, <4>1, Zenon
      <4> QED
        BY <2>2, <3>4, <4>2, Zenon DEF WalkedInv
    <3>5. ASSUME m \notin todo, next[m] = 0, NEW i \in 1 .. Len(lists'[m]),
                 lists'[m][i] \in before
          PROVE  lists'[m][i] \in found
      BY <2>2, <3>1, <3>5 DEF WalkedInv
    <3> QED
      BY <2>1, <3>3, <3>4, <3>5 DEF WalkedInv
  <2> QED
    BY <1>0, <1>4, <2>1, <2>2, DepositAppends, Zenon DEF SyncInv, Answered
<1>5. CASE Begin
  <2>1. /\ lists' = lists /\ found' = {} /\ next' = NoWalk /\ before' = OnContract
        /\ \/ phase' = "walk" /\ todo' = Nodes
           \/ "empty" \in faults' /\ phase' = "save" /\ todo' = {}
    BY <1>5 DEF Begin, Fault
  <2>2. next' \in [Nodes -> Nat] /\ \A n \in Nodes : next'[n] = 0
    BY <2>1 DEF NoWalk
  <2>3. WalkTypes'
    BY <2>1, <2>2 DEF SyncInv, WalkTypes
  <2>4. (OnContract)' = OnContract
    BY <2>1, Zenon DEF OnContract
  <2>5. phase' = "walk" => \A n \in Nodes : WalkedInv(n)'
    BY <2>1, <2>2 DEF WalkedInv
  <2> QED
    BY <2>1, <2>3, <2>4, <2>5, Zenon DEF SyncInv, Answered
<1>6. ASSUME NEW n \in Nodes, TakeJob(n) PROVE SyncInv'
  <2>1. /\ phase = "walk" /\ n \in todo /\ todo' = todo \ {n}
        /\ next' = [next EXCEPT ![n] = 1]
        /\ UNCHANGED <<lists, pubkeys, phase, found, before, faults>>
    BY <1>6 DEF TakeJob
  <2>2. (OnContract)' = OnContract
    BY <2>1, Zenon DEF OnContract
  <2>3. WalkTypes'
    BY <1>0, <2>1 DEF WalkTypes
  <2>4. ASSUME NEW m \in Nodes, WalkedInv(m) PROVE WalkedInv(m)'
    <3>1. CASE m = n
      BY <1>0, <2>1, <3>1 DEF WalkedInv, WalkTypes
    <3>2. CASE m # n
      BY <1>0, <2>1, <2>4, <3>2 DEF WalkedInv, WalkTypes
    <3> QED
      BY <3>1, <3>2
  <2> QED
    BY <2>1, <2>2, <2>3, <2>4 DEF SyncInv, Answered
<1>7. CASE Finish
  <2>1. /\ phase = "walk" /\ todo = {} /\ Walking = {} /\ pubkeys' = found /\ phase' = "save"
        /\ UNCHANGED <<lists, todo, next, before, faults>>
    BY <1>7 DEF Finish, enumeration
  <2>2. (OnContract)' = OnContract
    BY <2>1, Zenon DEF OnContract
  <2>3. ASSUME Answered PROVE before \subseteq found
    <3>1. before \subseteq OnContract /\ \A n \in Nodes : WalkedInv(n)
      BY <2>1, <2>3 DEF SyncInv
    <3>2. \A n \in Nodes : next[n] = 0 /\ n \notin todo
      BY <1>0, <2>1 DEF Walking, WalkTypes
    <3>3. \A n \in Nodes : \A i \in 1 .. Len(lists[n]) :
            lists[n][i] \in before => lists[n][i] \in found
      BY <3>1, <3>2 DEF WalkedInv
    <3> QED
      BY <1>0, <3>1, <3>3, OnContractIff
  <2> QED
    BY <1>0, <2>1, <2>2, <2>3 DEF SyncInv, Answered, WalkTypes
<1>8. CASE New
  BY <1>2, <1>8 DEF New, enumeration
<1>9. CASE Crash \/ Expire \/ Save
  BY <1>3, <1>9 DEF Crash, Expire, Save
<1>10. ASSUME NEW k \in Pubkeys,
              AcceptBid(k) \/ \E r \in Recipients : Register(k, r)
       PROVE  SyncInv'
  BY <1>1, <1>10 DEF AcceptBid, Register, enumeration
<1>11. CASE UNCHANGED registryVars
  BY <1>1, <1>11 DEF registryVars, enumeration
<1>12. CASE OtherBegin
  BY <1>1, <1>12 DEF OtherBegin, enumeration
<1>13. ASSUME NEW b \in syncs, NEW S \in SUBSET Pubkeys, OtherSave(b, S) PROVE SyncInv'
  <2>1. /\ UNCHANGED <<lists, pubkeys, phase, todo, next, found, before>>
        /\ (Answered)' => Answered
    BY <1>13 DEF OtherSave, enumeration, Fault, Answered
  <2>2. (OnContract)' = OnContract
    BY <2>1, Zenon DEF OnContract
  <2> QED
    BY <2>1, <2>2 DEF SyncInv, WalkTypes, WalkedInv
<1> QED
  BY <1>4, <1>5, <1>6, <1>7, <1>8, <1>9, <1>10, <1>11, <1>12, <1>13, WalkStep
     DEF RegistryNext, RegistryStep

(***************************************************************************)
(* Nothing is on the contract and no sync runs at the start.               *)
(***************************************************************************)
LEMMA SyncInit == RegistryInit => SyncInv
<1> SUFFICES ASSUME RegistryInit PROVE SyncInv
  OBVIOUS
<1>1. /\ lists = [n \in Nodes |-> <<>>] /\ phase = "down" /\ todo = {} /\ next = NoWalk
  BY DEF RegistryInit
<1>2. next \in [Nodes -> Nat] /\ \A n \in Nodes : next[n] = 0
  BY <1>1 DEF NoWalk
<1>3. lists \in [Nodes -> Seq(Pubkeys)] /\ \A n \in Nodes : Len(lists[n]) = 0
  BY <1>1
<1> QED
  BY <1>1, <1>2, <1>3 DEF SyncInv, WalkTypes

(***************************************************************************)
(* enumerateWithClient and walkNodePubkeys: what a sync installs has every *)
(* pubkey that was on the contract when it began and only pubkeys of the   *)
(* contract, for any number of workers and nodes and any size of a batch.  *)
(***************************************************************************)
THEOREM SyncsAreComplete == RegistrySpec => []SyncIsComplete
<1>1. SyncInv => SyncIsComplete
  BY DEF SyncInv, Answered, SyncIsComplete
<1> QED
  BY <1>1, SyncInit, SyncStep, PTL DEF RegistrySpec

(***************************************************************************)
(* The invariant of the lock, while every call answers: it needs that of   *)
(* the sync, whose result replaces the set in memory.                      *)
(***************************************************************************)
LEMMA LockStep ==
    ASSUME SyncInv, SyncInv', faults = {} => LockInv,
           [RegistryNext]_registryVars
    PROVE  faults' = {} => LockInv'
<1> SUFFICES ASSUME faults' = {} PROVE LockInv'
  OBVIOUS
<1>0. WalkTypes
  BY DEF SyncInv
<1>1. CASE UNCHANGED registryVars
  <2>1. UNCHANGED <<lists, pubkeys, saved, phase, before, known, faults, restarts, dropped, unlocked>>
    BY <1>1, Zenon DEF registryVars, enumeration, service, others
  <2>2. (OnContract)' = OnContract
    BY <2>1, Zenon DEF OnContract
  <2> QED
    BY <2>1, <2>2, Zenon DEF LockInv
<1>2. ASSUME NEW n \in Nodes, NEW k \in Pubkeys, Deposit(n, k) PROVE LockInv'
  <2>1. UNCHANGED <<pubkeys, saved, phase, before, known, faults, restarts, dropped, unlocked>>
    BY <1>2 DEF Deposit, enumeration, service, others
  <2> QED
    BY <1>0, <1>2, <2>1, DepositAppends DEF LockInv
<1>3. CASE ~\E n \in Nodes, k \in Pubkeys : Deposit(n, k)
  <2>1. CASE RegistryNext
    <3>1. lists' = lists /\ faults = {}
      <4>1. lists' = lists
        BY <1>3, <2>1, Zenon DEF RegistryNext, RegistryStep, New, Crash, Begin, Expire,
             Finish, Save, TakeJob, Walk, AcceptBid, Register, OtherBegin, OtherSave
      <4>2. faults = {}
        BY <1>3, <2>1, Zenon DEF RegistryNext, RegistryStep, New, Crash, Begin, Expire,
             Finish, Save, TakeJob, Walk, AcceptBid, Register, OtherBegin, OtherSave, Fault
      <4> QED
        BY <4>1, <4>2
    <3>2. LockInv /\ (OnContract)' = OnContract /\ Answered
      BY <3>1 DEF OnContract, Range, Answered
    <3>3. CASE New
      <4>1. /\ phase' = "idle" /\ pubkeys' = (IF saved # {} THEN saved ELSE Static)
            /\ known' = known \cup saved /\ phase = "down"
            /\ UNCHANGED <<saved, restarts, dropped, unlocked>>
        BY <3>3 DEF New, Fault, service, others
      <4> QED
        BY <3>2, <4>1 DEF LockInv
    <3>4. CASE Crash
      <4>1. /\ phase' = "down" /\ restarts' = restarts + 1
            /\ UNCHANGED <<saved, known, dropped, unlocked>>
        BY <3>4 DEF Crash, service, others
      <4> QED
        BY <3>2, <4>1 DEF LockInv
    <3>13. CASE Expire
      <4>1. /\ phase = "walk" /\ phase' = "idle"
            /\ UNCHANGED <<pubkeys, saved, known, restarts, dropped, unlocked>>
        BY <3>13 DEF Expire, service, others
      <4> QED
        BY <3>2, <4>1 DEF LockInv
    <3>5. CASE Begin
      <4>1. /\ phase = "idle" /\ phase' = "walk" /\ before' = OnContract
            /\ UNCHANGED <<pubkeys, saved, known, restarts, dropped, unlocked>>
        BY <3>5 DEF Begin, Fault, service, others
      <4> QED
        BY <3>2, <4>1 DEF LockInv
    <3>6. CASE Finish
      <4>1. /\ phase = "walk" /\ phase' = "save" /\ pubkeys' = found
            /\ UNCHANGED <<saved, before, known, restarts, dropped, unlocked>>
        BY <3>6 DEF Finish, enumeration, service, others
      <4>2. before \subseteq found
        BY <4>1 DEF SyncInv, Answered
      <4> QED
        BY <3>2, <4>1, <4>2 DEF LockInv
    <3>7. CASE Save
      <4>1. /\ phase = "save" /\ phase' = "idle" /\ saved' = pubkeys
            /\ known' = known \cup pubkeys /\ UNCHANGED <<pubkeys, restarts, dropped, unlocked>>
        BY <3>7 DEF Save, Fault, service, others
      <4>2. pubkeys \subseteq OnContract
        BY <3>2, <4>1 DEF SyncInv
      <4> QED
        BY <3>2, <4>1, <4>2 DEF LockInv
    <3>8. ASSUME NEW n \in Nodes, TakeJob(n) \/ Walk(n) PROVE LockInv'
      <4>1. UNCHANGED <<phase, pubkeys, saved, before, known, restarts, dropped, unlocked>>
        BY <3>8 DEF TakeJob, Walk, service, others
      <4> QED
        BY <3>2, <4>1 DEF LockInv
    <3>9. ASSUME NEW k \in Pubkeys, AcceptBid(k) PROVE LockInv'
      <4>1. /\ phase # "down" /\ (k \in pubkeys => registered[k] = Protocol)
            /\ unlocked' = unlocked \cup {j \in {k} \cap known : registered[j] = Other}
            /\ UNCHANGED <<phase, pubkeys, saved, before, known, restarts, dropped>>
        BY <3>9 DEF AcceptBid, Allowed, enumeration, others
      <4>2. registered[k] = Other /\ k \in known => k \in dropped /\ restarts # 0
        BY <3>2, <4>1, RecipientsAssumption DEF LockInv
      <4> QED
        BY <3>2, <4>1, <4>2 DEF LockInv
    <3>10. ASSUME NEW k \in Pubkeys, NEW r \in Recipients, Register(k, r)
           PROVE  LockInv'
      <4>1. UNCHANGED <<phase, pubkeys, saved, before, known, restarts, dropped, unlocked>>
        BY <3>10 DEF Register, enumeration, others
      <4> QED
        BY <3>2, <4>1 DEF LockInv
    <3>11. CASE OtherBegin
      <4>1. UNCHANGED <<phase, pubkeys, saved, before, known, restarts, dropped, unlocked>>
        BY <3>11 DEF OtherBegin, enumeration, service
      <4> QED
        BY <3>2, <4>1 DEF LockInv
    <3>12. ASSUME NEW b \in syncs, NEW S \in SUBSET Pubkeys, OtherSave(b, S) PROVE LockInv'
      <4>1. /\ S \subseteq OnContract /\ saved' = S /\ dropped' = dropped \cup (saved \ S)
            /\ UNCHANGED <<phase, pubkeys, before, known, restarts, unlocked>>
        BY <3>12 DEF OtherSave, enumeration, service
      <4> QED
        BY <3>2, <4>1 DEF LockInv
    <3> QED
      BY <1>3, <2>1, <3>3, <3>4, <3>5, <3>6, <3>7, <3>8, <3>9, <3>10, <3>11, <3>12, <3>13
         DEF RegistryNext, RegistryStep
  <2> QED
    BY <1>1, <2>1
<1> QED
  BY <1>2, <1>3

(***************************************************************************)
(* "The lock": once an instance has saved or loaded a pubkey, it accepts   *)
(* no bid for it that pays another recipient than the protocol's, over     *)
(* syncs that run out of time, deposits and restarts, as long as every     *)
(* call answered; the one exception is a restart on a copy from which a    *)
(* write of another instance has dropped the pubkey.                       *)
(***************************************************************************)
THEOREM LockHolds == RegistrySpec => []LockedUntilFault
<1> DEFINE Inv == SyncInv /\ (faults = {} => LockInv)
<1>1. RegistryInit => Inv
  <2> SUFFICES ASSUME RegistryInit PROVE LockInv
    BY SyncInit
  <2>1. phase = "down" /\ known = {} /\ saved = {} /\ unlocked = {} /\ restarts = 0
    BY DEF RegistryInit
  <2> QED
    BY <2>1 DEF LockInv
<1>2. Inv /\ [RegistryNext]_registryVars => Inv'
  BY SyncStep, LockStep
<1>3. Inv => LockedUntilFault
  BY DEF LockInv, LockedUntilFault, LockedOnceKnown
<1> QED
  BY <1>1, <1>2, <1>3, PTL DEF RegistrySpec
=============================================================================
