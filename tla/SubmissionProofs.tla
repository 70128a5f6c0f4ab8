------------------------- MODULE SubmissionProofs -------------------------
(***************************************************************************)
(* The rate limiter of simulations, for every finite set of callers and    *)
(* every limit, and the handler of block submissions, for any number of    *)
(* submissions and events, simulations that hang and a database that       *)
(* fails.                                                                  *)
(***************************************************************************)
EXTENDS BlockSimRateLimiter, BlockSubmission, FiniteSetTheorems, SequenceTheorems, TLAPS

(***************************************************************************)
(* Parked and admitted requests are finite sets, so counting them is sound.*)
(***************************************************************************)
LEMMA SetsFinite ==
    /\ IsFiniteSet(Parked) /\ Cardinality(Parked) \in Nat
    /\ IsFiniteSet(Admitted) /\ Cardinality(Admitted) \in Nat
<1>1. Parked \subseteq Requests /\ Admitted \subseteq Requests
  BY DEF Parked, Admitted, In
<1>2. IsFiniteSet(Parked) /\ IsFiniteSet(Admitted)
  BY <1>1, RequestsAssumption, FS_Subset
<1> QED
  BY <1>2, FS_CardinalityType

(***************************************************************************)
(* The same fact one step later.                                           *)
(***************************************************************************)
LEMMA SetsFiniteNext ==
    /\ IsFiniteSet(Parked') /\ Cardinality(Parked') \in Nat
    /\ IsFiniteSet(Admitted') /\ Cardinality(Admitted') \in Nat
<1>1. Parked' \subseteq Requests /\ Admitted' \subseteq Requests
  BY DEF Parked, Admitted, In
<1>2. IsFiniteSet(Parked') /\ IsFiniteSet(Admitted')
  BY <1>1, RequestsAssumption, FS_Subset
<1> QED
  BY <1>2, FS_CardinalityType

(***************************************************************************)
(* Send starts with no request inside.                                     *)
(***************************************************************************)
LEMMA InitInv == Init => IInv
<1> SUFFICES ASSUME Init PROVE IInv
  OBVIOUS
<1>1. TypeOK
  BY DEF Init, TypeOK, Stages
<1>2. Parked = {} /\ Admitted = {}
  BY DEF Init, Parked, Admitted, In
<1>3. Cardinality(Parked) = 0 /\ Cardinality(Admitted) = 0
  BY <1>2, FS_EmptySet
<1>4. NotifyListOK
  BY <1>2 DEF Init, NotifyListOK
<1> QED
  BY <1>1, <1>2, <1>3, <1>4, MaxAssumption DEF IInv, Init

(***************************************************************************)
(* A caller that is let through takes a unit nobody is waiting for.        *)
(***************************************************************************)
LEMMA EnterAndRunInv ==
    ASSUME IInv, NEW r \in Requests, EnterAndRun(r)
    PROVE  IInv'
<1> USE DEF IInv
<1>1. TypeOK'
  BY DEF TypeOK, EnterAndRun, Stages
<1>2. Parked' = Parked
  BY DEF EnterAndRun, Parked, In, TypeOK
<1>3. Admitted' = Admitted \cup {r} /\ r \notin Admitted
  BY DEF EnterAndRun, Admitted, In, TypeOK
<1>4. Cardinality(Admitted') = Cardinality(Admitted) + 1
  BY <1>3, SetsFinite, FS_AddElement, Zenon
<1>5. NotifyListOK'
  BY <1>2 DEF NotifyListOK, EnterAndRun
<1>6. Parked = {}
  BY SetsFinite, MaxAssumption, FS_EmptySet DEF EnterAndRun, MustWait
<1>7. Cardinality(Parked) = 0
  BY <1>6, FS_EmptySet
<1>8. counter' = Cardinality(Parked') + Cardinality(Admitted')
  BY <1>2, <1>4, SetsFinite DEF EnterAndRun
<1>9. MaxConcurrentBlocks > 0 => Cardinality(Admitted') <= MaxConcurrentBlocks
  BY <1>4, <1>7, SetsFinite, MaxAssumption DEF EnterAndRun, MustWait
<1> QED
  BY <1>1, <1>2, <1>5, <1>6, <1>8, <1>9

(***************************************************************************)
(* A caller is parked only when the limit is used up.                      *)
(***************************************************************************)
LEMMA EnterAndWaitInv ==
    ASSUME IInv, NEW r \in Requests, EnterAndWait(r)
    PROVE  IInv'
<1> USE DEF IInv
<1>1. TypeOK'
  BY DEF TypeOK, EnterAndWait, Stages
<1>2. Parked' = Parked \cup {r} /\ r \notin Parked
  BY DEF EnterAndWait, Parked, In, TypeOK
<1>3. Admitted' = Admitted
  BY DEF EnterAndWait, Admitted, In, TypeOK
<1>4. Cardinality(Parked') = Cardinality(Parked) + 1
  BY <1>2, SetsFinite, FS_AddElement, Zenon
<1>5. NotifyListOK'
  BY <1>2 DEF NotifyListOK, EnterAndWait, TypeOK
<1>6. counter' = Cardinality(Parked') + Cardinality(Admitted')
  BY <1>3, <1>4, SetsFinite DEF EnterAndWait
<1>7. Parked = {} => Cardinality(Parked) = 0
  BY FS_EmptySet
<1>8. MaxConcurrentBlocks > 0 /\ Cardinality(Admitted') = MaxConcurrentBlocks
  BY <1>3, <1>7, SetsFinite, MaxAssumption, SMTT(30) DEF EnterAndWait, MustWait
<1> QED
  BY <1>1, <1>3, <1>5, <1>6, <1>8, MaxAssumption

(***************************************************************************)
(* Waking up moves a request inside the admitted set.                      *)
(***************************************************************************)
LEMMA ResumeInv ==
    ASSUME IInv, NEW r \in Requests, Resume(r)
    PROVE  IInv'
<1> USE DEF IInv
<1>1. TypeOK'
  BY DEF TypeOK, Resume, Stages
<1>2. Parked' = Parked /\ Admitted' = Admitted
  BY DEF Resume, Parked, Admitted, In, TypeOK
<1>3. NotifyListOK'
  BY <1>2 DEF NotifyListOK, Resume
<1> QED
  BY <1>1, <1>2, <1>3 DEF Resume

(***************************************************************************)
(* A finished request gives its unit to the oldest waiter, or back.        *)
(***************************************************************************)
LEMMA FinishInv ==
    ASSUME IInv, NEW r \in Requests, Finish(r)
    PROVE  IInv'
<1> USE DEF IInv
<1>1. r \in Admitted /\ r \notin Parked
  BY DEF Finish, Admitted, Parked, In, TypeOK
<1>2. Cardinality(Admitted \ {r}) = Cardinality(Admitted) - 1
      /\ IsFiniteSet(Admitted \ {r})
  BY <1>1, SetsFinite, FS_RemoveElement
<1>3. Cardinality(Admitted) >= 1
  BY <1>1, <1>2, SetsFinite, FS_CardinalityType
<1>4. CASE notifyList = << >>
  <2>1. stage' = [stage EXCEPT ![r] = "outside"] /\ notifyList' = notifyList
        /\ counter' = counter - 1
    BY <1>4 DEF Finish
  <2>2. TypeOK'
    BY <1>3, <2>1, SetsFinite DEF TypeOK, Stages
  <2>3. Parked = {}
    BY <1>4 DEF NotifyListOK
  <2>4. Parked' = Parked /\ Admitted' = Admitted \ {r}
    BY <1>1, <2>1 DEF Parked, Admitted, In, TypeOK
  <2>5. NotifyListOK'
    BY <2>1, <2>4 DEF NotifyListOK
  <2> QED
    BY <1>2, <2>1, <2>2, <2>3, <2>4, <2>5, SetsFinite, MaxAssumption, SMTT(30)
<1>5. CASE notifyList # << >>
  <2> DEFINE w == Head(notifyList)
  <2>1. /\ stage' = [stage EXCEPT ![r] = "outside", ![w] = "woken"]
        /\ notifyList' = Tail(notifyList)
        /\ counter' = counter - 1
    BY <1>5 DEF Finish
  <2>2. Len(notifyList) > 0 /\ w = notifyList[1]
    BY <1>5 DEF TypeOK
  <2>3. w \in Parked /\ w \in Requests /\ w # r /\ stage[w] = "waiting"
    BY <1>1, <2>2 DEF NotifyListOK, Parked, In
  <2>4. TypeOK'
    <3>1. counter' \in Nat
      BY <1>3, <2>1, SetsFinite
    <3>2. stage' \in [Requests -> Stages]
      BY <2>1, <2>3 DEF TypeOK, Stages
    <3>3. notifyList' \in Seq(Requests)
      BY <1>5, <2>1, HeadTailProperties DEF TypeOK
    <3> QED
      BY <3>1, <3>2, <3>3 DEF TypeOK
  <2>5. Parked' = Parked \ {w}
    BY <1>1, <2>1, <2>3 DEF Parked, In, TypeOK
  <2>6. Admitted' = (Admitted \ {r}) \cup {w} /\ w \notin Admitted \ {r}
    BY <1>1, <2>1, <2>3 DEF Admitted, In, TypeOK
  <2>7. Cardinality(Parked') = Cardinality(Parked) - 1
    BY <2>3, <2>5, SetsFinite, FS_RemoveElement, Zenon
  <2>8. Cardinality(Admitted') = Cardinality(Admitted)
    <3>1. Cardinality(Admitted') = Cardinality(Admitted \ {r}) + 1
      BY <1>2, <2>6, FS_AddElement
    <3> QED
      BY <1>2, <3>1, SetsFinite
  <2>9. NotifyListOK'
    <3>1. Len(notifyList') = Len(notifyList) - 1
          /\ \A i \in 1..Len(notifyList') : notifyList'[i] = notifyList[i + 1]
      BY <1>5, <2>1 DEF TypeOK
    <3>2. Len(notifyList) \in Nat
      BY DEF TypeOK
    <3>3. \A i \in 1..Len(notifyList') : notifyList'[i] \in Parked'
      BY <2>2, <2>5, <3>1, <3>2 DEF NotifyListOK
    <3>4. ASSUME NEW q \in Parked'
          PROVE  \E i \in 1..Len(notifyList') : notifyList'[i] = q
      <4>1. q \in Parked /\ q # w
        BY <2>5, <3>4
      <4>2. PICK i \in 1..Len(notifyList) : notifyList[i] = q
        BY <4>1 DEF NotifyListOK
      <4>3. i # 1
        BY <2>2, <4>1, <4>2
      <4>4. i - 1 \in 1..Len(notifyList') /\ notifyList'[i - 1] = q
        BY <3>1, <3>2, <4>2, <4>3
      <4> QED
        BY <4>4
    <3>5. \A i, j \in 1..Len(notifyList') : notifyList'[i] = notifyList'[j] => i = j
      <4> SUFFICES ASSUME NEW i \in 1..Len(notifyList'), NEW j \in 1..Len(notifyList'),
                          notifyList'[i] = notifyList'[j]
                   PROVE  i = j
        OBVIOUS
      <4>1. i + 1 \in 1..Len(notifyList) /\ j + 1 \in 1..Len(notifyList)
        BY <3>1, <3>2
      <4>2. notifyList[i + 1] = notifyList[j + 1]
        BY <3>1
      <4>3. i + 1 = j + 1
        BY <4>1, <4>2 DEF NotifyListOK
      <4> QED
        BY <4>3
    <3> QED
      BY <3>3, <3>4, <3>5 DEF NotifyListOK
  <2>10. Parked # {}
    BY <2>3
  <2> QED
    BY <2>1, <2>4, <2>7, <2>8, <2>9, <2>10, SetsFinite, MaxAssumption, SMTT(30)
<1> QED
  BY <1>4, <1>5

(***************************************************************************)
(* Every step of Send keeps the inductive invariant.                       *)
(***************************************************************************)
LEMMA StepInv == IInv /\ [Next]_vars => IInv'
<1> SUFFICES ASSUME IInv, [Next]_vars PROVE IInv'
  OBVIOUS
<1>1. CASE Next
  BY <1>1, EnterAndRunInv, EnterAndWaitInv, ResumeInv, FinishInv DEF Next
<1>2. CASE UNCHANGED vars
  BY <1>2, SMTT(30) DEF vars, IInv, TypeOK, NotifyListOK, Parked, Admitted, In
<1> QED
  BY <1>1, <1>2

(***************************************************************************)
(* The invariant holds in every reachable state.                           *)
(***************************************************************************)
LEMMA Invariance == Spec => []IInv
BY InitInv, StepInv, PTL DEF Spec

(***************************************************************************)
(* counter, the stages and the notify list of Send keep their types.       *)
(***************************************************************************)
THEOREM TypeCorrect == Spec => []TypeOK
<1>1. IInv => TypeOK
  BY DEF IInv
<1> QED
  BY <1>1, Invariance, PTL

(***************************************************************************)
(* Never more than maxConcurrentBlocks requests at the simulation node.    *)
(***************************************************************************)
THEOREM LimitHolds == Spec => []ConcurrencyLimit
<1>1. IInv => ConcurrencyLimit
  <2> SUFFICES ASSUME IInv, MaxConcurrentBlocks > 0
               PROVE  Cardinality(In({"running"})) <= MaxConcurrentBlocks
    BY DEF ConcurrencyLimit
  <2>1. In({"running"}) \subseteq Admitted
    BY DEF In, Admitted
  <2>2. Cardinality(In({"running"})) <= Cardinality(Admitted)
        /\ IsFiniteSet(In({"running"}))
    BY <2>1, SetsFinite, FS_Subset
  <2>3. Cardinality(In({"running"})) \in Nat
    BY <2>2, FS_CardinalityType
  <2> QED
    BY <2>2, <2>3, SetsFinite, MaxAssumption DEF IInv
<1> QED
  BY <1>1, Invariance, PTL

(***************************************************************************)
(* The counter is exactly the number of requests inside Send.              *)
(***************************************************************************)
THEOREM CounterIsExact == Spec => []CounterExact
<1>1. IInv => CounterExact
  <2> SUFFICES ASSUME IInv PROVE CounterExact
    OBVIOUS
  <2>1. In({"waiting", "woken", "running"}) = Parked \cup Admitted
        /\ Parked \cap Admitted = {}
    BY DEF In, Parked, Admitted
  <2>2. Cardinality(Parked \cup Admitted) = Cardinality(Parked) + Cardinality(Admitted)
    BY <2>1, SetsFinite, FS_Union, FS_EmptySet
  <2> QED
    BY <2>1, <2>2 DEF IInv, CounterExact
<1> QED
  BY <1>1, Invariance, PTL

(***************************************************************************)
(* No request is parked while a unit of the limit is free.                 *)
(***************************************************************************)
THEOREM WakeupsNotLost == Spec => []NoLostWakeup
<1>1. IInv => NoLostWakeup
  BY DEF IInv, NoLostWakeup, Parked, Admitted
<1> QED
  BY <1>1, Invariance, PTL

-----------------------------------------------------------------------------
(* The handler of a submission: BlockSubmission *)

Rows == [simulated : BOOLEAN, error : BOOLEAN, optimistic : BOOLEAN, eligible : BOOLEAN,
         exists : BOOLEAN]

HandlerTypes ==
    /\ pc \in [Submissions -> PCs]
    /\ seen = [r \in Submissions |-> seen[r]]
    /\ sim \in [Submissions -> Results \cup {"none", "running"}]
    /\ chan \in [Submissions -> Results \cup {"empty", "skipped"}]
    /\ saved \in [Submissions -> Saves]
    /\ record \in [Submissions -> Rows]

(***************************************************************************)
(* The inductive invariant, for one submission.  The result in the channel *)
(* is that of the simulation, which has one result; a simulation in the    *)
(* handler ends before the handler goes on; a row is written last.         *)
(***************************************************************************)
SubmissionInv(r) ==
    /\ pc[r] \in {"idle", "attrs", "floor"} => chan[r] = "empty" /\ sim[r] = "none"
    /\ chan[r] \in Results => sim[r] = chan[r]
    /\ chan[r] = "skipped" => pc[r] = "rejected"
    /\ sim[r] = "running" /\ ~req[r].optimistic => pc[r] = "sim"
    /\ sim[r] # "none" => pc[r] \in {"sim", "save", "defer", "done"}
    /\ sim[r] \in {"none", "running"} => chan[r] \in {"empty", "skipped"}
    /\ sim[r] = "ignored" => IgnorableValidationErrors
    /\ pc[r] = "save" \/ saved[r] # "no" => req[r].optimistic \/ sim[r] \in Passing
    /\ record[r].exists =>
         /\ pc[r] = "done"
         /\ record[r].simulated /\ ~record[r].error => sim[r] \in Passing
         /\ record[r].error => sim[r] \in {"invalid", "failed"}
         /\ record[r].eligible <=> saved[r] = "saved"

HandlerInv == HandlerTypes /\ \A r \in Submissions : SubmissionInv(r)

(***************************************************************************)
(* A row says of a result what RecordIsTrue says of it.                    *)
(***************************************************************************)
LEMMA RowOfResult ==
    ASSUME NEW r \in Submissions, NEW res \in Results \cup {"timeout"}
    PROVE  /\ Row(r, res) \in Rows
           /\ Row(r, res).simulated /\ ~Row(r, res).error => res \in Passing
           /\ Row(r, res).error => res \in {"invalid", "failed"}
           /\ Row(r, res).eligible <=> saved[r] = "saved"
<1>1. ASSUME NEW s \in BOOLEAN, NEW e \in BOOLEAN, NEW o \in BOOLEAN, NEW v \in BOOLEAN,
             NEW row, row = [simulated |-> s, error |-> e, optimistic |-> o, eligible |-> v,
                             exists |-> TRUE]
      PROVE  row \in Rows /\ row.simulated = s /\ row.error = e /\ row.eligible = v
  BY <1>1 DEF Rows
<1>2. /\ Row(r, res) \in Rows
      /\ Row(r, res).simulated = (res \in Passing \cup {"invalid"})
      /\ Row(r, res).error = (res \in {"invalid", "failed"})
      /\ Row(r, res).eligible = (saved[r] = "saved")
  <2> DEFINE s == res \in Passing \cup {"invalid"}
             e == res \in {"invalid", "failed"}
             o == res # "timeout" /\ req[r].optimistic
             v == saved[r] = "saved"
  <2>1. s \in BOOLEAN /\ e \in BOOLEAN /\ o \in BOOLEAN /\ v \in BOOLEAN
    OBVIOUS
  <2>2. Row(r, res) = [simulated |-> s, error |-> e, optimistic |-> o,
                               eligible |-> v, exists |-> TRUE]
    BY Zenon DEF Row
  <2> HIDE DEF s, e, o, v
  <2>3. /\ Row(r, res) \in Rows /\ Row(r, res).simulated = s
        /\ Row(r, res).error = e /\ Row(r, res).eligible = v
    BY <1>1, <2>1, <2>2
  <2> QED
    BY <2>3, Zenon DEF s, e, v
<1> QED
  BY <1>2, Zenon

(***************************************************************************)
(* A step of one handler leaves the others alone.                          *)
(***************************************************************************)
LEMMA OwnStep ==
    ASSUME HandlerInv, NEW r \in Submissions, req' = req,
           \A t \in Submissions \ {r} :
               /\ pc'[t] = pc[t] /\ seen'[t] = seen[t] /\ sim'[t] = sim[t] /\ chan'[t] = chan[t]
               /\ saved'[t] = saved[t] /\ record'[t] = record[t],
           HandlerTypes', SubmissionInv(r)'
    PROVE  HandlerInv'
<1>1. ASSUME NEW t \in Submissions \ {r} PROVE SubmissionInv(t)'
  BY DEF HandlerInv, SubmissionInv
<1> QED
  BY <1>1 DEF HandlerInv

(***************************************************************************)
(* Every step keeps the invariant.                                         *)
(***************************************************************************)
LEMMA HandlerStep == HandlerInv /\ [HandlerNext]_handlerVars => HandlerInv'
<1> SUFFICES ASSUME HandlerInv, [HandlerNext]_handlerVars PROVE HandlerInv'
  OBVIOUS
<1>1. HandlerTypes
  BY DEF HandlerInv
<1>2. ASSUME UNCHANGED <<req, pc, seen, sim, chan, saved, record>> PROVE HandlerInv'
  BY <1>2 DEF HandlerInv, HandlerTypes, SubmissionInv
<1>3. ASSUME NEW r \in Submissions, Receive(r) PROVE HandlerInv'
  <2>1. HandlerTypes'
    BY <1>1, <1>3 DEF HandlerTypes, Receive, Goto, PCs
  <2>2. SubmissionInv(r)'
    BY <1>1, <1>3 DEF HandlerInv, HandlerTypes, SubmissionInv, Receive, Goto
  <2> QED
    BY <1>1, <1>3, <2>1, <2>2, OwnStep DEF HandlerTypes, Receive, Goto
<1>4. ASSUME NEW r \in Submissions, NEW b \in BOOLEAN, Check(r, b) PROVE HandlerInv'
  <2>1. HandlerTypes'
    BY <1>1, <1>4 DEF HandlerTypes, Check, Goto, PCs
  <2>2. SubmissionInv(r)'
    <3>1. /\ pc[r] = "attrs" /\ pc'[r] \in {"floor", "rejected"}
          /\ UNCHANGED <<req, seen, sim, chan, saved, record>>
      BY <1>1, <1>4 DEF HandlerTypes, Check, Goto
    <3> QED
      BY <1>1, <3>1 DEF HandlerInv, HandlerTypes, SubmissionInv, Results
  <2> QED
    BY <1>1, <1>4, <2>1, <2>2, OwnStep DEF HandlerTypes, Check, Goto
<1>5. ASSUME NEW r \in Submissions, NEW b \in BOOLEAN, CheckFloor(r, b) PROVE HandlerInv'
  <2>1. HandlerTypes'
    BY <1>1, <1>5 DEF HandlerTypes, CheckFloor, Goto, PCs
  <2>2. SubmissionInv(r)'
    BY <1>1, <1>5 DEF HandlerInv, HandlerTypes, SubmissionInv, CheckFloor, Goto,
                      Results
  <2> QED
    BY <1>1, <1>5, <2>1, <2>2, OwnStep DEF HandlerTypes, CheckFloor, Goto
<1>6. ASSUME NEW r \in Submissions, StartSim(r) PROVE HandlerInv'
  <2>1. HandlerTypes'
    BY <1>1, <1>6 DEF HandlerTypes, StartSim, Goto, PCs
  <2>2. SubmissionInv(r)'
    BY <1>1, <1>6 DEF HandlerInv, HandlerTypes, SubmissionInv, StartSim, Goto,
                      Results, Passing, None
  <2> QED
    BY <1>1, <1>6, <2>1, <2>2, OwnStep DEF HandlerTypes, StartSim, Goto
<1>7. ASSUME NEW r \in Submissions, NEW res \in Results, EndSim(r, res)
      PROVE  HandlerInv'
  <2>1. HandlerTypes'
    BY <1>1, <1>7 DEF HandlerTypes, EndSim, Goto, PCs
  <2>2. SubmissionInv(r)'
    BY <1>1, <1>7 DEF HandlerInv, HandlerTypes, SubmissionInv, EndSim, Goto,
                      Results, Passing, Empty
  <2> QED
    BY <1>1, <1>7, <2>1, <2>2, OwnStep DEF HandlerTypes, EndSim, Goto
<1>8. ASSUME NEW r \in Submissions, NEW how \in Saves, SaveBid(r, how) PROVE HandlerInv'
  <2>1. HandlerTypes'
    BY <1>1, <1>8 DEF HandlerTypes, SaveBid, Goto, PCs
  <2>2. SubmissionInv(r)'
    BY <1>1, <1>8 DEF HandlerInv, HandlerTypes, SubmissionInv, SaveBid, Goto,
                      Results
  <2> QED
    BY <1>1, <1>8, <2>1, <2>2, OwnStep DEF HandlerTypes, SaveBid, Goto
<1>9. ASSUME NEW r \in Submissions, NEW res \in Results \cup {"timeout"},
             res # "timeout" => sim[r] = res,
             pc[r] = "defer", pc' = [pc EXCEPT ![r] = "done"],
             record' = record \/ record' = [record EXCEPT ![r] = Row(r, res)],
             chan' = chan \/ chan' = [chan EXCEPT ![r] = "empty"],
             UNCHANGED <<req, seen, sim, saved>>
      PROVE  HandlerInv'
  <2>1. /\ Row(r, res) \in Rows
        /\ Row(r, res).simulated /\ ~Row(r, res).error => res \in Passing
        /\ Row(r, res).error => res \in {"invalid", "failed"}
        /\ Row(r, res).eligible <=> saved[r] = "saved"
    BY RowOfResult
  <2>2. HandlerTypes'
    BY <1>1, <1>9, <2>1 DEF HandlerTypes, PCs
  <2>3. SubmissionInv(r)'
    <3>1. pc'[r] = "done" /\ (chan'[r] = chan[r] \/ chan'[r] = "empty")
          /\ (record'[r] = record[r] \/ record'[r] = Row(r, res))
      BY <1>1, <1>9 DEF HandlerTypes
    <3>2. ~record[r].exists /\ SubmissionInv(r)
      BY <1>9 DEF HandlerInv, SubmissionInv
    <3> QED
      BY <1>9, <2>1, <3>1, <3>2 DEF SubmissionInv, Results, Passing
  <2> QED
    BY <1>1, <1>9, <2>2, <2>3, OwnStep DEF HandlerTypes
<1>10. ASSUME NEW r \in Submissions, NEW b \in BOOLEAN, Record(r, b) PROVE HandlerInv'
  <2>1. chan[r] \in Results /\ sim[r] = chan[r]
    BY <1>1, <1>10 DEF HandlerInv, HandlerTypes, SubmissionInv, Record, Empty
  <2>2. record' = record \/ record' = [record EXCEPT ![r] = Row(r, chan[r])]
    BY <1>1, <1>10 DEF HandlerTypes, Record
  <2>3. /\ pc[r] = "defer" /\ pc' = [pc EXCEPT ![r] = "done"]
        /\ chan' = [chan EXCEPT ![r] = "empty"]
        /\ UNCHANGED <<req, seen, sim, saved>>
    BY <1>10 DEF Record, Goto, Empty
  <2> QED
    BY <1>9, <2>1, <2>2, <2>3
<1>11. ASSUME NEW r \in Submissions, Timeout(r) PROVE HandlerInv'
  <2>1. record' = record \/ record' = [record EXCEPT ![r] = Row(r, "timeout")]
    BY <1>1, <1>11 DEF HandlerTypes, Timeout
  <2>2. /\ pc[r] = "defer" /\ pc' = [pc EXCEPT ![r] = "done"]
        /\ UNCHANGED <<req, seen, sim, chan, saved>>
    BY <1>11 DEF Timeout, Goto
  <2> QED
    BY <1>9, <2>1, <2>2
<1>12. ASSUME NEW s \in Slots, NewHead(s) PROVE HandlerInv'
  BY <1>2, <1>12 DEF NewHead
<1>13. ASSUME NEW k \in Keys, NEW a \in Randaos, AttributesEvent(k, a)
       PROVE  HandlerInv'
  BY <1>2, <1>13 DEF AttributesEvent
<1>14. CASE AttributesStore
  BY <1>2, <1>14, Zenon DEF AttributesStore
<1>15. CASE UNCHANGED handlerVars
  BY <1>2, <1>15 DEF handlerVars
<1> QED
  BY <1>3, <1>4, <1>5, <1>6, <1>7, <1>8, <1>10, <1>11, <1>12, <1>13, <1>14, <1>15, Zenon
  DEF HandlerNext

(***************************************************************************)
(* The invariant holds in every reachable state.                           *)
(***************************************************************************)
LEMMA HandlerInvariance == HandlerSpec => []HandlerInv
<1>1. HandlerInit => HandlerInv
  <2> SUFFICES ASSUME HandlerInit PROVE HandlerInv
    OBVIOUS
  <2>1. NoRecord \in Rows /\ ~NoRecord.exists
    BY DEF NoRecord, Rows
  <2>2. HandlerTypes
    BY <2>1 DEF HandlerInit, HandlerTypes, PCs, None, Empty, Saves
  <2> QED
    BY <2>1, <2>2 DEF HandlerInit, HandlerInv, SubmissionInv, None, Empty,
                      Results
<1> QED
  BY <1>1, HandlerStep, PTL DEF HandlerSpec

(***************************************************************************)
(* processOptimisticBlock and the handler: the result of a simulation can  *)
(* always be sent, also when the handler has given up waiting for it.      *)
(***************************************************************************)
THEOREM SendsDoNotBlock == HandlerSpec => []SendNeverBlocks
<1>1. HandlerInv => SendNeverBlocks
  BY DEF HandlerInv, HandlerTypes, SubmissionInv, SendNeverBlocks, Empty
<1> QED
  BY <1>1, HandlerInvariance, PTL

(***************************************************************************)
(* The deferred SaveBuilderBlockSubmission: the row of a submission tells  *)
(* how its simulation ended and whether its bid was saved, although a late *)
(* result or none races the ten seconds it waits; only a bid whose saving  *)
(* Redis broke off can be in the auction without an eligible row.          *)
(***************************************************************************)
THEOREM RowsAreTrue == HandlerSpec => []RecordIsTrue
<1>1. HandlerInv => RecordIsTrue
  <2> SUFFICES ASSUME HandlerInv, NEW r \in Submissions, record[r].exists
               PROVE  /\ record[r].simulated /\ ~record[r].error =>
                           \/ sim[r] = "ok"
                           \/ sim[r] = "ignored" /\ IgnorableValidationErrors
                      /\ record[r].error => sim[r] \in {"invalid", "failed"}
                      /\ record[r].eligible => InRedis(r)
                      /\ InRedis(r) /\ ~record[r].eligible => saved[r] = "torn"
    BY DEF RecordIsTrue
  <2>1. SubmissionInv(r)
    BY DEF HandlerInv
  <2> QED
    BY <2>1 DEF SubmissionInv, InRedis, Passing
<1> QED
  BY <1>1, HandlerInvariance, PTL

(***************************************************************************)
(* handleSubmitNewBlock: only an optimistic submission is ever put up for  *)
(* auction before its simulation has ended without an error, or with one   *)
(* the operator ignores, however other simulations end and in whatever     *)
(* order.                                                                  *)
(***************************************************************************)
THEOREM OnlyVettedIsSaved == HandlerSpec => []SavedIsVetted
<1>1. HandlerInv => SavedIsVetted
  BY DEF HandlerInv, SubmissionInv, SavedIsVetted, InRedis, Passing
<1> QED
  BY <1>1, HandlerInvariance, PTL

(***************************************************************************)
(* The attributes event in processing was not known when it came, and the  *)
(* head it has loaded is not ahead of the head.                            *)
(***************************************************************************)
EventInv ==
    /\ head \in Slots
    /\ event # NoEvent =>
         event[3] \in Slots /\ event[3] <= head /\ attrs[event[1]] = None

(***************************************************************************)
(* Only processPayloadAttributes writes attributes, one event at a time.   *)
(***************************************************************************)
LEMMA EventStep == EventInv /\ [HandlerNext]_handlerVars => EventInv'
<1> SUFFICES ASSUME EventInv, [HandlerNext]_handlerVars PROVE EventInv'
  OBVIOUS
<1>1. Slots \subseteq Nat
  BY SlotAssumption DEF Slots
<1>2. ASSUME UNCHANGED <<head, event, attrs>> PROVE EventInv'
  BY <1>2 DEF EventInv
<1>3. ASSUME NEW s \in Slots, NewHead(s) PROVE EventInv'
  <2>1. head' = s /\ s > head /\ UNCHANGED <<event, attrs>>
    BY <1>3 DEF NewHead
  <2>2. head \in Nat /\ s \in Nat
    BY <1>1 DEF EventInv
  <2>3. event # NoEvent => event[3] \in Nat /\ event[3] <= s
    <3>1. event # NoEvent => event[3] \in Slots /\ event[3] <= head
      BY DEF EventInv
    <3>2. event # NoEvent => event[3] \in Nat
      BY <1>1, <3>1
    <3> QED
      BY <2>1, <2>2, <3>1, <3>2
  <2> QED
    BY <2>1, <2>3 DEF EventInv
<1>4. ASSUME NEW k \in Keys, NEW a \in Randaos, AttributesEvent(k, a)
      PROVE  EventInv'
  <2>1. event' = <<k, a, head>> /\ attrs[k] = None /\ UNCHANGED <<head, attrs>>
    BY <1>4 DEF AttributesEvent
  <2>2. event'[3] = head /\ event'[1] = k
    BY <2>1
  <2> QED
    BY <1>1, <2>1, <2>2 DEF EventInv
<1>5. CASE AttributesStore
  <2>1. event' = NoEvent /\ head' = head
    BY <1>5, Zenon DEF AttributesStore
  <2> QED
    BY <2>1 DEF EventInv
<1>6. ASSUME NEW r \in Submissions, Receive(r) \/ StartSim(r) \/ Timeout(r)
      PROVE  UNCHANGED <<head, event, attrs>>
  BY <1>6 DEF Receive, StartSim, Timeout
<1>7. ASSUME NEW r \in Submissions, NEW b \in BOOLEAN,
             Check(r, b) \/ CheckFloor(r, b) \/ Record(r, b)
      PROVE  UNCHANGED <<head, event, attrs>>
  BY <1>7 DEF Check, CheckFloor, Record
<1>a. ASSUME NEW r \in Submissions, NEW how \in Saves, SaveBid(r, how)
      PROVE  UNCHANGED <<head, event, attrs>>
  BY <1>a DEF SaveBid
<1>8. ASSUME NEW r \in Submissions, NEW res \in Results, EndSim(r, res)
      PROVE  UNCHANGED <<head, event, attrs>>
  BY <1>8 DEF EndSim
<1>9. CASE UNCHANGED handlerVars
  BY <1>2, <1>9 DEF handlerVars
<1> QED
  BY <1>2, <1>3, <1>4, <1>5, <1>6, <1>7, <1>8, <1>9, <1>a, Zenon DEF HandlerNext

(***************************************************************************)
(* The cleanup in processPayloadAttributes: attributes of a slot the head  *)
(* has not passed are neither removed nor replaced, however heads and      *)
(* events interleave.                                                      *)
(***************************************************************************)
THEOREM AnnouncedAttributesStay == HandlerSpec => UpcomingAttributesKept
<1>1. HandlerInit => EventInv
  BY SlotAssumption DEF HandlerInit, EventInv, Slots
<1>2. EventInv /\ [HandlerNext]_handlerVars =>
        [\A k \in Keys : attrs[k] # None /\ k[1] >= head
                                   => attrs'[k] = attrs[k]]_handlerVars
  <2> SUFFICES ASSUME EventInv, HandlerNext, NEW k \in Keys,
                      attrs[k] # None, k[1] >= head
               PROVE  attrs'[k] = attrs[k]
    BY Zenon
  <2>1. CASE AttributesStore
    <3>1. k[1] \in Nat /\ head \in Nat
      BY SlotAssumption DEF Keys, Slots, EventInv
    <3>2. event # NoEvent
      BY <2>1, Zenon DEF AttributesStore
    <3>3. k # event[1] /\ ~Expired(k, event)
      BY <3>1, <3>2, SlotAssumption DEF EventInv, Expired, Slots
    <3> QED
      BY <2>1, <3>3, Zenon DEF AttributesStore
  <2>2. CASE ~AttributesStore
    <3>1. attrs' = attrs
      BY <2>2 DEF HandlerNext, NewHead, AttributesEvent, Receive,
                  StartSim, Timeout, Check, CheckFloor,
                  SaveBid, Record, EndSim
    <3> QED
      BY <3>1
  <2> QED
    BY <2>1, <2>2
<1> QED
  BY <1>1, <1>2, EventStep, PTL DEF HandlerSpec, UpcomingAttributesKept
=============================================================================
