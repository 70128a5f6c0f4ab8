----------------------- MODULE OptimisticRelayProofs -----------------------
(***************************************************************************)
(* Optimistic relaying, for any number of instances, builders and          *)
(* submissions and every deployment: an invalid block that can win is      *)
(* covered by collateral, a demotion reaches every pubkey of the builder,  *)
(* and refund data is recorded only where it is due.                       *)
(***************************************************************************)
EXTENDS OptimisticRelay, FiniteSetTheorems, TLAPS

-----------------------------------------------------------------------------
(* The inductive invariant *)

Done(i) == {n \in HeadSlots : prepare[i][n] = "done"}

(***************************************************************************)
(* A head slot is prepared at most once, so an instance has installed at   *)
(* most as many caches as preparations have ended.                         *)
(***************************************************************************)
CachesInv ==
    \A i \in Instances :
        /\ \A n \in HeadSlots : n > headSlot[i] => prepare[i][n] = "none"
        /\ generation[i] <= Cardinality(Done(i))

(***************************************************************************)
(* Where a submission is: its handler looks a request up once, its         *)
(* goroutine starts after the decision, and only the block of a saved bid  *)
(* has a trace that getPayload finds.                                      *)
(***************************************************************************)
ProgressInv ==
    \A s \in Submissions :
        /\ pc[s] # "new" => msg[s] \in Requests
        /\ sim[s] # "none" => pc[s] \in {"save", "done"}
        /\ s \in eligible => pc[s] = "done"
        /\ delivery[s] # "none" => s \in eligible

\* What a cache entry e of builder b is trusted for is on record, or was.
OnRecord(b, e) == e.collateral <= collateral[b] \/ b \in lowered

Funded(s) ==
    \/ Accepted(s)
    \/ msg[s].value <= collateral[msg[s].builder]
    \/ msg[s].builder \in lowered

FundedInv ==
    /\ \A i \in Instances, b \in Builders :
         /\ \A g \in Generations : OnRecord(b, entry[i][g][b])
         /\ \A n \in HeadSlots : OnRecord(b, loaded[i][n][b])
    /\ ~OptimisticAllSlots =>
         \A s \in Submissions : pc[s] = "save" \/ s \in eligible => Funded(s)

(***************************************************************************)
(* While no operator interferes and the database answers, the id a         *)
(* demotion has read stays the builder's, and once its UPDATE is through   *)
(* no pubkey with that id is optimistic.                                   *)
(***************************************************************************)
DemotionInv ==
    /\ changes = 0 => admin = NoChange
    /\ changes = 0 /\ ~dbFailed =>
         \A s \in Submissions :
             LET id == builderId[msg[s].builder]
             IN  /\ sim[s] = "identified" => demoteId[s] = id
                 /\ sim[s] \in {"flagged", "demoted"} /\ id # "" =>
                      \A b \in Builders : builderId[b] = id => ~isOptimistic[b]

RowsInv ==
    /\ \A s \in demotions : sim[s] = "demoted"
    /\ \A s \in refunds : /\ s \in demotions /\ s \in eligible
                           /\ delivery[s] = "done" /\ answer[s] # "missing"

IInv == TypeOK /\ CachesInv /\ ProgressInv /\ FundedInv /\ DemotionInv /\ RowsInv

-----------------------------------------------------------------------------
(* Types *)

(***************************************************************************)
(* Writing an entry of a cache leaves every other entry alone.             *)
(***************************************************************************)
LEMMA EntryWritten ==
    ASSUME NEW f \in [Instances -> [Generations -> [Builders -> Entries]]],
           NEW i \in Instances, NEW g \in Generations, NEW b \in Builders, NEW e,
           NEW j \in Instances, NEW h \in Generations, NEW c \in Builders
    PROVE  \/ [f EXCEPT ![i][g][b] = e][j][h][c] = f[j][h][c]
           \/ c = b /\ [f EXCEPT ![i][g][b] = e][j][h][c] = e
OBVIOUS

(***************************************************************************)
(* The preparation that is about to install a cache has not ended: there   *)
(* is a generation left for it, and it will count as ended.                *)
(***************************************************************************)
LEMMA InstallCounts ==
    ASSUME TypeOK, CachesInv, NEW i \in Instances, NEW n \in HeadSlots,
           prepare[i][n] = "install"
    PROVE  /\ generation[i] + 1 \in Generations
           /\ generation[i] + 1 <= Cardinality(Done(i) \cup {n})
<1>1. MaxSlot \in Nat \ {0} /\ IsFiniteSet(HeadSlots) /\ Cardinality(HeadSlots) = MaxSlot
  BY SetupAssumption, FS_Interval DEF HeadSlots
<1>2. Done(i) \subseteq HeadSlots /\ n \notin Done(i)
  BY DEF Done
<1>3. IsFiniteSet(Done(i)) /\ Cardinality(Done(i)) \in Nat
  BY <1>1, <1>2, FS_Subset, FS_CardinalityType
<1>4. Cardinality(Done(i) \cup {n}) = Cardinality(Done(i)) + 1
  BY <1>2, <1>3, FS_AddElement, Zenon
<1>5. Cardinality(Done(i) \cup {n}) <= MaxSlot
  BY <1>1, <1>2, FS_Subset
<1>6. generation[i] \in Nat /\ generation[i] <= Cardinality(Done(i))
  BY <1>1 DEF TypeOK, CachesInv, Generations
<1> QED
  BY <1>1, <1>3, <1>4, <1>5, <1>6 DEF Generations

(***************************************************************************)
(* Preparing a slot keeps the types.                                       *)
(***************************************************************************)
LEMMA PrepareType ==
    ASSUME IInv, NEW i \in Instances, UNCHANGED setup,
           NewSlot(i) \/ \E n \in HeadSlots : Prepare(i, n)
    PROVE  TypeOK'
<1> USE DEF database, builderRows, cache, preparing, submitting, simulating, delivering,
            operator
<1>1. TypeOK
  BY DEF IInv
<1>2. CASE NewSlot(i)
  BY <1>1, <1>2 DEF TypeOK, NewSlot
<1>3. ASSUME NEW n \in HeadSlots, PrepareWait(i, n) PROVE TypeOK'
  BY <1>1, <1>3 DEF TypeOK, PrepareWait
<1>4. ASSUME NEW n \in HeadSlots, PrepareStore(i, n) PROVE TypeOK'
  <2>1. n + 1 \in 0..(MaxSlot + 1)
    BY SetupAssumption DEF HeadSlots
  <2> QED
    BY <1>1, <1>4, <2>1 DEF TypeOK, PrepareStore
<1>5. ASSUME NEW n \in HeadSlots, PrepareLoad(i, n) PROVE TypeOK'
  <2>1. Cached \in [Builders -> Entries]
    BY <1>1 DEF TypeOK, Cached, Entries
  <2>2. dbFailed' \in BOOLEAN
    BY <1>1, <1>5, Zenon DEF TypeOK, PrepareLoad, DatabaseFails
  <2>a. PICK p \in {"install", "done"} : prepare' = [prepare EXCEPT ![i][n] = p]
    BY <1>5, Zenon DEF PrepareLoad
  <2>b. loaded' = loaded \/ loaded' = [loaded EXCEPT ![i][n] = Cached]
    BY <1>5, Zenon DEF PrepareLoad
  <2>3. loaded' \in [Instances -> [HeadSlots -> [Builders -> Entries]]]
    <3>1. loaded \in [Instances -> [HeadSlots -> [Builders -> Entries]]]
      BY <1>1 DEF TypeOK
    <3>2. CASE loaded' = [loaded EXCEPT ![i][n] = Cached]
      BY <2>1, <3>1, <3>2
    <3> QED
      BY <2>b, <3>1, <3>2
  <2>4. prepare' \in [Instances ->
          [HeadSlots -> {"none", "wait", "store", "load", "install", "done"}]]
    BY <1>1, <2>a DEF TypeOK
  <2> QED
    BY <1>1, <1>5, <2>2, <2>3, <2>4 DEF TypeOK, PrepareLoad
<1>6. ASSUME NEW n \in HeadSlots, PrepareInstall(i, n) PROVE TypeOK'
  <2>1. generation[i] + 1 \in Generations
    BY <1>1, <1>6, InstallCounts, Zenon DEF PrepareInstall, IInv
  <2>2. NoEntries \in [Builders -> Entries]
    BY DEF NoEntries, Entries
  <2>3. generation' \in [Instances -> Generations]
    BY <1>1, <1>6, <2>1 DEF TypeOK, PrepareInstall
  <2>4. entry' \in [Instances -> [Generations -> [Builders -> Entries]]]
    BY <1>1, <1>6, <2>1 DEF TypeOK, PrepareInstall
  <2>5. loaded' \in [Instances -> [HeadSlots -> [Builders -> Entries]]]
    BY <1>1, <1>6, <2>2 DEF TypeOK, PrepareInstall
  <2>6. prepare' \in [Instances ->
          [HeadSlots -> {"none", "wait", "store", "load", "install", "done"}]]
    BY <1>1, <1>6 DEF TypeOK, PrepareInstall
  <2> QED
    BY <1>1, <1>6, <2>3, <2>4, <2>5, <2>6 DEF TypeOK, PrepareInstall
<1> QED
  BY <1>2, <1>3, <1>4, <1>5, <1>6 DEF Prepare

(***************************************************************************)
(* So do a submission and its simulation.                                  *)
(***************************************************************************)
LEMMA SubmissionType ==
    ASSUME IInv, NEW s \in Submissions, UNCHANGED setup,
           Submit(s) \/ Decide(s) \/ Save(s) \/ Simulation(s)
    PROVE  TypeOK'
<1> USE DEF database, builderRows, cache, preparing, submitting, simulating, delivering,
            operator
<1>1. TypeOK
  BY DEF IInv
<1>2. CASE Submit(s)
  BY <1>1, <1>2 DEF TypeOK, Submit
<1>3. CASE Decide(s)
  BY <1>1, <1>3, Zenon DEF TypeOK, Decide
<1>4. CASE Save(s)
  BY <1>1, <1>4 DEF TypeOK, Save
<1>5. CASE StartSimulation(s)
  BY <1>1, <1>5 DEF TypeOK, StartSimulation
<1>6. CASE Simulate(s)
  <2>1. msg[s] \in Requests
    BY <1>1, <1>6, Zenon DEF IInv, ProgressInv, TypeOK, Simulate
  <2>2. entry' \in [Instances -> [Generations -> [Builders -> Entries]]]
    <3>1. Entry(s) \in Entries
      BY <1>1, <2>1 DEF TypeOK, Entry, Requests
    <3>2. [optimistic |-> FALSE, collateral |-> Entry(s).collateral] \in Entries
      BY <3>1 DEF Entries
    <3>3. /\ entry \in [Instances -> [Generations -> [Builders -> Entries]]]
          /\ msg[s].instance \in Instances /\ msg[s].gen \in Generations
          /\ msg[s].builder \in Builders
      BY <1>1, <2>1 DEF TypeOK, Requests
    <3>4. CASE entry' = [entry EXCEPT ![msg[s].instance][msg[s].gen][msg[s].builder] =
                           [optimistic |-> FALSE, collateral |-> Entry(s).collateral]]
      BY <3>2, <3>3, <3>4
    <3> QED
      BY <1>6, <3>3, <3>4 DEF Simulate
  <2>3. sim' \in [Submissions ->
         {"none", "spawned", "running", "failed", "identified", "flagged", "demoted", "finished"}]
    BY <1>1, <1>6, Zenon DEF TypeOK, Simulate
  <2> QED
    BY <1>1, <1>6, <2>2, <2>3 DEF TypeOK, Simulate
<1>7. CASE DemoteRead(s)
  <2>1. msg[s] \in Requests
    BY <1>1, <1>7, Zenon DEF IInv, ProgressInv, TypeOK, DemoteRead
  <2>2. builderId[msg[s].builder] \in Ids
    BY <1>1, <2>1 DEF TypeOK, Requests
  <2>3. dbFailed' \in BOOLEAN
    BY <1>1, <1>7, Zenon DEF TypeOK, DemoteRead, DatabaseFails
  <2> QED
    BY <1>1, <1>7, <2>2, <2>3, Zenon DEF TypeOK, DemoteRead
<1>8. CASE DemoteStatus(s)
  <2>1. dbFailed' \in BOOLEAN
    BY <1>1, <1>8, Zenon DEF TypeOK, DemoteStatus, DatabaseFails
  <2>2. isOptimistic' \in [Builders -> BOOLEAN]
    BY <1>1, <1>8, Zenon DEF TypeOK, DemoteStatus
  <2> QED
    BY <1>1, <1>8, <2>1, <2>2 DEF TypeOK, DemoteStatus
<1>9. CASE DemoteRow(s)
  <2>1. dbFailed' \in BOOLEAN
    BY <1>1, <1>9, Zenon DEF TypeOK, DemoteRow, DatabaseFails
  <2> QED
    BY <1>1, <1>9, <2>1 DEF TypeOK, DemoteRow
<1> QED
  BY <1>2, <1>3, <1>4, <1>5, <1>6, <1>7, <1>8, <1>9 DEF Simulation

(***************************************************************************)
(* And a delivery and the operator's changes.                              *)
(***************************************************************************)
LEMMA DeliveryType ==
    ASSUME TypeOK, NEW s \in Submissions, UNCHANGED setup,
           (\E i \in Instances : GetPayload(s, i)) \/ RefundWait(s) \/ RefundCheck(s)
    PROVE  TypeOK'
<1> USE DEF database, builderRows, cache, preparing, submitting, simulating, delivering,
            operator
<1>1. ASSUME NEW i \in Instances, GetPayload(s, i) PROVE TypeOK'
  BY <1>1 DEF TypeOK, GetPayload, Answers
<1>2. CASE RefundWait(s)
  BY <1>2 DEF TypeOK, RefundWait
<1>3. CASE RefundCheck(s)
  <2>1. dbFailed' \in BOOLEAN
    BY <1>3, Zenon DEF TypeOK, RefundCheck, DatabaseFails
  <2> QED
    BY <1>3, <2>1 DEF TypeOK, RefundCheck
<1> QED
  BY <1>1, <1>2, <1>3

(***************************************************************************)
(* handleInternalBuilderStatus and handleInternalBuilderCollateral keep    *)
(* the types.                                                              *)
(***************************************************************************)
LEMMA OperatorType ==
    ASSUME TypeOK, UNCHANGED setup,
           \/ \E b \in Builders : StatusRead(b)
           \/ StatusWrite
           \/ \E b \in Builders, id \in Ids, a \in Amounts : SetCollateral(b, id, a)
    PROVE  TypeOK'
<1> USE DEF database, builderRows, cache, preparing, submitting, simulating, delivering,
            operator
<1>1. ASSUME NEW b \in Builders, StatusRead(b) PROVE TypeOK'
  <2>1. PICK o \in {isOptimistic[b], TRUE, FALSE} : admin' = [builder |-> b, optimistic |-> o]
    BY <1>1, Zenon DEF StatusRead
  <2>2. o \in BOOLEAN
    BY <1>1, Zenon DEF TypeOK
  <2>3. admin' \in [builder : Builders, optimistic : BOOLEAN] /\ changes' \in Nat
    BY <1>1, <2>1, <2>2 DEF StatusRead, TypeOK
  <2> QED
    BY <1>1, <2>3 DEF TypeOK, StatusRead
<1>2. CASE StatusWrite
  <2>1. dbFailed' \in BOOLEAN
    BY <1>2, Zenon DEF TypeOK, StatusWrite, DatabaseFails
  <2>2. admin \in [builder : Builders, optimistic : BOOLEAN]
    BY <1>2 DEF TypeOK, StatusWrite
  <2>3. isOptimistic' \in [Builders -> BOOLEAN]
    BY <1>2, <2>2 DEF TypeOK, StatusWrite
  <2> QED
    BY <1>2, <2>1, <2>3 DEF TypeOK, StatusWrite
<1>3. ASSUME NEW b \in Builders, NEW id \in Ids, NEW a \in Amounts, SetCollateral(b, id, a)
      PROVE  TypeOK'
  BY <1>3, ValuesAssumption DEF TypeOK, SetCollateral
<1> QED
  BY <1>1, <1>2, <1>3

(***************************************************************************)
(* The variables keep their types.                                         *)
(***************************************************************************)
LEMMA TypeStep == IInv /\ [Next]_vars => TypeOK'
<1> SUFFICES ASSUME IInv, [Next]_vars PROVE TypeOK'
  OBVIOUS
<1>1. CASE Next
  <2>1. TypeOK /\ UNCHANGED setup /\ Step
    BY <1>1 DEF IInv, Next
  <2> QED
    BY <2>1, PrepareType, SubmissionType, DeliveryType, OperatorType, Zenon DEF Step
<1>2. CASE UNCHANGED vars
  BY <1>2 DEF IInv, TypeOK, vars, database, builderRows, cache, preparing, submitting, simulating,
              delivering, operator
<1> QED
  BY <1>1, <1>2

-----------------------------------------------------------------------------
(* The parts of the invariant *)

(***************************************************************************)
(* Only processNewSlot starts a preparation, of a slot later than the      *)
(* head, and each preparation installs at most one cache.                  *)
(***************************************************************************)
LEMMA CachesStep == IInv /\ [Next]_vars => CachesInv'
<1> SUFFICES ASSUME IInv, [Next]_vars, NEW j \in Instances
             PROVE  /\ \A n \in HeadSlots : n > headSlot'[j] => prepare'[j][n] = "none"
                    /\ generation'[j] <= Cardinality(Done(j)')
  BY DEF CachesInv
<1> USE DEF database, builderRows, cache, preparing, submitting, simulating, delivering,
            operator
<1>1. /\ \A n \in HeadSlots : n > headSlot[j] => prepare[j][n] = "none"
      /\ generation[j] <= Cardinality(Done(j))
      /\ TypeOK
  BY DEF IInv, CachesInv
<1>2. HeadSlots \subseteq Nat /\ headSlot \in [Instances -> HeadSlots] /\ generation[j] \in Nat
      /\ generation \in [Instances -> Generations]
      /\ prepare \in [Instances ->
           [HeadSlots -> {"none", "wait", "store", "load", "install", "done"}]]
  <2>1. HeadSlots \subseteq Nat /\ Generations \subseteq Nat
    BY SetupAssumption DEF HeadSlots, Generations
  <2>2. /\ headSlot \in [Instances -> HeadSlots] /\ generation \in [Instances -> Generations]
        /\ prepare \in [Instances ->
             [HeadSlots -> {"none", "wait", "store", "load", "install", "done"}]]
    BY <1>1, Zenon DEF TypeOK
  <2> QED
    BY <2>1, <2>2
<1>3. /\ IsFiniteSet(Done(j)) /\ Cardinality(Done(j)) \in Nat
      /\ IsFiniteSet(Done(j)') /\ Cardinality(Done(j)') \in Nat
  <2>1. IsFiniteSet(HeadSlots) /\ Done(j) \subseteq HeadSlots /\ Done(j)' \subseteq HeadSlots
    BY SetupAssumption, FS_Interval DEF Done, HeadSlots
  <2> QED
    BY <2>1, FS_Subset, FS_CardinalityType
<1>4. ASSUME UNCHANGED <<headSlot, generation>>, NEW i \in Instances, NEW n \in HeadSlots,
             prepare[i][n] # "none", prepare[i][n] # "done",
             NEW p, prepare' = [prepare EXCEPT ![i][n] = p]
      PROVE  /\ \A m \in HeadSlots : m > headSlot'[j] => prepare'[j][m] = "none"
             /\ generation'[j] <= Cardinality(Done(j)')
  <2>1. Done(j) \subseteq Done(j)'
    BY <1>2, <1>4 DEF Done
  <2>2. Cardinality(Done(j)) <= Cardinality(Done(j)')
    BY <1>3, <2>1, FS_Subset
  <2>3. generation'[j] <= Cardinality(Done(j)')
    BY <1>1, <1>2, <1>3, <1>4, <2>2
  <2> QED
    BY <1>1, <1>2, <1>4, <2>3
<1>5. ASSUME NEW i \in Instances, NewSlot(i)
      PROVE  /\ \A m \in HeadSlots : m > headSlot'[j] => prepare'[j][m] = "none"
             /\ generation'[j] <= Cardinality(Done(j)')
  <2>1. PICK n \in HeadSlots : /\ n > headSlot[i]
                               /\ headSlot' = [headSlot EXCEPT ![i] = n]
                               /\ prepare' = [prepare EXCEPT ![i][n] = "wait"]
    BY <1>5, Zenon DEF NewSlot
  <2>2. generation' = generation
    BY <1>5 DEF NewSlot
  <2>3. prepare[i][n] = "none"
    BY <2>1, <1>5 DEF IInv, CachesInv
  <2>4. Done(j)' = Done(j)
    BY <1>2, <2>1, <2>3 DEF Done
  <2>5. \A m \in HeadSlots : m > headSlot'[j] => m > headSlot[j] /\ (j = i => m # n)
    <3>1. headSlot[j] \in Nat /\ n \in Nat
      BY <1>2, Zenon
    <3>2. CASE j = i
      <4>1. headSlot'[j] = n /\ n > headSlot[j]
        BY <1>2, <2>1, <3>2
      <4> QED
        BY <1>2, <3>1, <3>2, <4>1
    <3>3. CASE j # i
      BY <1>2, <2>1, <3>3
    <3> QED
      BY <3>2, <3>3
  <2>6. \A m \in HeadSlots : m > headSlot'[j] => prepare'[j][m] = prepare[j][m]
    BY <1>2, <2>1, <2>5
  <2>7. generation'[j] <= Cardinality(Done(j)')
    BY <1>1, <2>2, <2>4
  <2> QED
    BY <1>1, <2>5, <2>6, <2>7
<1>6. ASSUME NEW i \in Instances, NEW n \in HeadSlots, PrepareInstall(i, n)
      PROVE  /\ \A m \in HeadSlots : m > headSlot'[j] => prepare'[j][m] = "none"
             /\ generation'[j] <= Cardinality(Done(j)')
  <2>1. /\ prepare[i][n] = "install" /\ prepare' = [prepare EXCEPT ![i][n] = "done"]
        /\ generation' = [generation EXCEPT ![i] = generation[i] + 1] /\ headSlot' = headSlot
    BY <1>6 DEF PrepareInstall
  <2>2. CASE i = j
    <3>1. Done(j)' = Done(j) \cup {n}
      BY <1>2, <2>1, <2>2 DEF Done
    <3>2. generation[j] + 1 <= Cardinality(Done(j) \cup {n})
      BY <1>1, <2>1, <2>2, InstallCounts DEF IInv
    <3>3. generation'[j] = generation[j] + 1
      BY <1>2, <2>1, <2>2
    <3> QED
      BY <1>1, <1>2, <2>1, <3>1, <3>2, <3>3
  <2>3. CASE i # j
    <3>1. Done(j)' = Done(j)
      BY <1>2, <2>1, <2>3 DEF Done
    <3> QED
      BY <1>1, <1>2, <2>1, <2>3, <3>1
  <2> QED
    BY <2>2, <2>3
<1>7. ASSUME NEW i \in Instances, NEW n \in HeadSlots,
             PrepareWait(i, n) \/ PrepareStore(i, n) \/ PrepareLoad(i, n)
      PROVE  /\ \A m \in HeadSlots : m > headSlot'[j] => prepare'[j][m] = "none"
             /\ generation'[j] <= Cardinality(Done(j)')
  <2>1. UNCHANGED <<headSlot, generation>>
    BY <1>7 DEF PrepareWait, PrepareStore, PrepareLoad
  <2>2. prepare[i][n] # "none" /\ prepare[i][n] # "done"
    BY <1>7 DEF PrepareWait, PrepareStore, PrepareLoad
  <2>3. \E p : prepare' = [prepare EXCEPT ![i][n] = p]
    BY <1>7, Zenon DEF PrepareWait, PrepareStore, PrepareLoad
  <2> QED
    BY <1>4, <2>1, <2>2, <2>3, Zenon
<1>8. ASSUME UNCHANGED <<headSlot, generation, prepare>>
      PROVE  /\ \A m \in HeadSlots : m > headSlot'[j] => prepare'[j][m] = "none"
             /\ generation'[j] <= Cardinality(Done(j)')
  BY <1>1, <1>8 DEF Done
<1>9. ASSUME NEW s \in Submissions,
             Submit(s) \/ Decide(s) \/ Save(s) \/ Simulation(s)
      PROVE  UNCHANGED <<headSlot, generation, prepare>>
  BY <1>9, Zenon DEF Submit, Decide, Save, Simulation, StartSimulation, Simulate, DemoteRead,
              DemoteStatus, DemoteRow
<1>10. ASSUME NEW s \in Submissions,
              (\E i \in Instances : GetPayload(s, i)) \/ RefundWait(s) \/ RefundCheck(s)
       PROVE  UNCHANGED <<headSlot, generation, prepare>>
  BY <1>10 DEF GetPayload, RefundWait, RefundCheck
<1>11. ASSUME \/ \E b \in Builders : StatusRead(b)
              \/ StatusWrite
              \/ \E b \in Builders, id \in Ids, a \in Amounts : SetCollateral(b, id, a)
       PROVE  UNCHANGED <<headSlot, generation, prepare>>
  BY <1>11 DEF StatusRead, StatusWrite, SetCollateral
<1>12. CASE UNCHANGED vars
  BY <1>8, <1>12 DEF vars
<1> QED
  BY <1>5, <1>6, <1>7, <1>8, <1>9, <1>10, <1>11, <1>12, Zenon DEF Next, Step, Prepare

(***************************************************************************)
(* The handler of a submission, its goroutine and its delivery take their  *)
(* steps in order.                                                         *)
(***************************************************************************)
LEMMA ProgressStep == IInv /\ [Next]_vars => ProgressInv'
<1> SUFFICES ASSUME IInv, [Next]_vars PROVE ProgressInv'
  OBVIOUS
<1> USE DEF database, builderRows, cache, preparing, submitting, simulating, delivering,
            operator
<1>1. ProgressInv
      /\ pc \in [Submissions -> {"new", "decide", "save", "done"}]
      /\ msg \in [Submissions -> Requests \cup {NoRequest}]
      /\ sim \in [Submissions ->
         {"none", "spawned", "running", "failed", "identified", "flagged", "demoted", "finished"}]
      /\ delivery \in [Submissions -> {"none", "wait", "check", "done"}]
  BY DEF IInv, TypeOK
<1>2. ASSUME NEW s \in Submissions, Submit(s) PROVE ProgressInv'
  BY <1>1, <1>2, Zenon DEF Submit, ProgressInv
<1>3. ASSUME NEW s \in Submissions, Decide(s) PROVE ProgressInv'
  BY <1>1, <1>3 DEF Decide, ProgressInv
<1>4. ASSUME NEW s \in Submissions, Save(s) PROVE ProgressInv'
  BY <1>1, <1>4 DEF Save, ProgressInv
<1>5. ASSUME NEW s \in Submissions, Simulation(s) PROVE ProgressInv'
  <2>1. UNCHANGED <<pc, msg, eligible, delivery>> /\ sim[s] # "none"
    BY <1>5, Zenon DEF Simulation, StartSimulation, Simulate, DemoteRead, DemoteStatus, DemoteRow
  <2>2. \A t \in Submissions \ {s} : sim'[t] = sim[t]
    BY <1>1, <1>5, Zenon DEF Simulation, StartSimulation, Simulate, DemoteRead, DemoteStatus, DemoteRow
  <2> QED
    BY <1>1, <2>1, <2>2 DEF ProgressInv
<1>6. ASSUME NEW s \in Submissions, NEW i \in Instances, GetPayload(s, i) PROVE ProgressInv'
  BY <1>1, <1>6 DEF GetPayload, ProgressInv
<1>7. ASSUME NEW s \in Submissions, RefundWait(s) \/ RefundCheck(s) PROVE ProgressInv'
  BY <1>1, <1>7 DEF RefundWait, RefundCheck, ProgressInv
<1>8. ASSUME UNCHANGED <<pc, msg, eligible, sim, delivery>> PROVE ProgressInv'
  BY <1>1, <1>8 DEF ProgressInv
<1>9. ASSUME NEW i \in Instances, NewSlot(i) \/ \E n \in HeadSlots : Prepare(i, n)
      PROVE  UNCHANGED <<pc, msg, eligible, sim, delivery>>
  BY <1>9 DEF NewSlot, Prepare, PrepareWait, PrepareStore, PrepareLoad, PrepareInstall
<1>10. ASSUME \/ \E b \in Builders : StatusRead(b)
              \/ StatusWrite
              \/ \E b \in Builders, id \in Ids, a \in Amounts : SetCollateral(b, id, a)
       PROVE  UNCHANGED <<pc, msg, eligible, sim, delivery>>
  BY <1>10 DEF StatusRead, StatusWrite, SetCollateral
<1>11. CASE UNCHANGED vars
  BY <1>8, <1>11 DEF vars
<1> QED
  BY <1>2, <1>3, <1>4, <1>5, <1>6, <1>7, <1>8, <1>9, <1>10, <1>11, Zenon DEF Next, Step

(***************************************************************************)
(* A cache only ever holds collateral that was on record when it was read, *)
(* and the record of a builder goes down only when an operator lowers it.  *)
(***************************************************************************)
LEMMA FundedStep == IInv /\ [Next]_vars => FundedInv'
<1> SUFFICES ASSUME IInv, [Next]_vars PROVE FundedInv'
  OBVIOUS
<1> USE DEF database, builderRows, cache, preparing, submitting, simulating, delivering,
            operator
<1> DEFINE Kept == /\ \A i \in Instances, b \in Builders, g \in Generations :
                        OnRecord(b, entry[i][g][b])
                   /\ \A i \in Instances, b \in Builders, n \in HeadSlots :
                        OnRecord(b, loaded[i][n][b])
           Covered == ~OptimisticAllSlots =>
                        \A s \in Submissions : pc[s] = "save" \/ s \in eligible => Funded(s)
<1>1. /\ Kept /\ Covered /\ TypeOK /\ setup' = setup /\ ProgressInv
      /\ entry \in [Instances -> [Generations -> [Builders -> Entries]]]
      /\ loaded \in [Instances -> [HeadSlots -> [Builders -> Entries]]]
      /\ collateral \in [Builders -> Nat]
  BY DEF IInv, FundedInv, TypeOK, Next, vars
<1> SUFFICES Kept' /\ Covered'
  BY DEF FundedInv
<1> HIDE DEF Kept, Covered
<1>2. ASSUME UNCHANGED <<entry, loaded, collateral, lowered>> PROVE Kept'
  BY <1>1, <1>2 DEF Kept, OnRecord
<1>3. ASSUME UNCHANGED <<pc, msg, eligible, collateral, lowered>> PROVE Covered'
  BY <1>1, <1>3 DEF Covered, Funded, Accepted, IgnorableValidationErrors, OptimisticAllSlots
<1>4. ASSUME NEW i \in Instances, NewSlot(i) \/ \E n \in HeadSlots : Prepare(i, n)
      PROVE  UNCHANGED <<pc, msg, eligible, collateral, lowered>>
  BY <1>4 DEF NewSlot, Prepare, PrepareWait, PrepareStore, PrepareLoad, PrepareInstall
<1>5. ASSUME NEW i \in Instances, NewSlot(i)
      PROVE  UNCHANGED <<entry, loaded, collateral, lowered>>
  BY <1>5 DEF NewSlot
<1>6. ASSUME NEW i \in Instances, NEW n \in HeadSlots, Prepare(i, n) PROVE Kept'
  <2>1. CASE PrepareWait(i, n) \/ PrepareStore(i, n)
    BY <1>2, <2>1 DEF PrepareWait, PrepareStore
  <2>2. CASE PrepareLoad(i, n)
    <3>1. UNCHANGED <<entry, collateral, lowered>>
      BY <2>2 DEF PrepareLoad
    <3>2. loaded' = loaded \/ loaded' = [loaded EXCEPT ![i][n] = Cached]
      BY <2>2, Zenon DEF PrepareLoad
    <3>3. \A b \in Builders : OnRecord(b, Cached[b])
      BY <1>1 DEF OnRecord, Cached
    <3>4. CASE loaded' = [loaded EXCEPT ![i][n] = Cached]
      BY <1>1, <3>1, <3>3, <3>4 DEF Kept, OnRecord
    <3> QED
      BY <1>2, <3>1, <3>2, <3>4
  <2>3. CASE PrepareInstall(i, n)
    <3>1. UNCHANGED <<collateral, lowered>>
      BY <2>3 DEF PrepareInstall
    <3>2. /\ entry' = [entry EXCEPT ![i][generation[i] + 1] = loaded[i][n]]
          /\ loaded' = [loaded EXCEPT ![i][n] = NoEntries]
      BY <2>3 DEF PrepareInstall
    <3>3. generation[i] + 1 \in Generations
      BY <2>3, InstallCounts, Zenon DEF PrepareInstall, IInv
    <3>4. \A b \in Builders : OnRecord(b, NoEntries[b])
      BY <1>1 DEF OnRecord, NoEntries
    <3>5. \A j \in Instances, b \in Builders, g \in Generations : OnRecord(b, entry'[j][g][b])
      BY <1>1, <3>2, <3>3 DEF Kept
    <3>6. \A j \in Instances, b \in Builders, m \in HeadSlots : OnRecord(b, loaded'[j][m][b])
      BY <1>1, <3>2, <3>4 DEF Kept
    <3> QED
      BY <3>1, <3>5, <3>6 DEF Kept, OnRecord
  <2> QED
    BY <1>6, <2>1, <2>2, <2>3 DEF Prepare
<1>7. ASSUME NEW s \in Submissions, Submit(s) \/ Decide(s) \/ Save(s)
      PROVE  UNCHANGED <<entry, loaded, collateral, lowered>>
  BY <1>7, Zenon DEF Submit, Decide, Save
<1>8. pc \in [Submissions -> {"new", "decide", "save", "done"}]
      /\ msg \in [Submissions -> Requests \cup {NoRequest}]
  BY <1>1 DEF TypeOK
<1>9. ASSUME NEW s \in Submissions, Submit(s) PROVE Covered'
  <2>1. pc[s] = "new" /\ pc' = [pc EXCEPT ![s] = "decide"] /\ eligible' = eligible
        /\ \A t \in Submissions \ {s} : msg'[t] = msg[t]
    BY <1>8, <1>9 DEF Submit
  <2>2. s \notin eligible
    BY <1>1, <2>1 DEF ProgressInv
  <2> QED
    BY <1>1, <1>7, <1>8, <1>9, <2>1, <2>2 DEF Covered, Funded, Accepted, IgnorableValidationErrors, OptimisticAllSlots
<1>10. ASSUME NEW s \in Submissions, Decide(s) PROVE Covered'
  <2>1. pc[s] = "decide" /\ eligible' = eligible /\ msg' = msg
        /\ \A t \in Submissions \ {s} : pc'[t] = pc[t]
    BY <1>8, <1>10 DEF Decide
  <2>2. pc'[s] = "save" /\ ~OptimisticAllSlots => Trusted(s) \/ Accepted(s)
    BY <1>8, <1>10 DEF Decide
  <2>3. /\ msg[s].instance \in Instances /\ msg[s].gen \in Generations
        /\ msg[s].builder \in Builders /\ msg[s].value \in Nat
    BY <1>1, <2>1, ValuesAssumption, Zenon DEF ProgressInv, Requests
  <2>4. Entry(s) \in Entries /\ OnRecord(msg[s].builder, Entry(s))
    <3>1. entry[msg[s].instance][msg[s].gen][msg[s].builder] \in Entries
      BY <1>1, <2>3
    <3>2. OnRecord(msg[s].builder, entry[msg[s].instance][msg[s].gen][msg[s].builder])
      BY <1>1, <2>3, Zenon DEF Kept
    <3> QED
      BY <3>1, <3>2, Zenon DEF Entry
  <2>5. Trusted(s) => Funded(s)
    BY <1>1, <2>3, <2>4 DEF Trusted, Funded, OnRecord, Entries
  <2>6. pc'[s] = "save" /\ ~OptimisticAllSlots => Funded(s)
    BY <2>2, <2>5 DEF Funded
  <2>7. s \notin eligible
    BY <1>1, <2>1 DEF ProgressInv
  <2> QED
    BY <1>1, <1>7, <1>10, <2>1, <2>6, <2>7 DEF Covered, Funded, Accepted, IgnorableValidationErrors, OptimisticAllSlots
<1>11. ASSUME NEW s \in Submissions, Save(s) PROVE Covered'
  <2>1. /\ pc[s] = "save" /\ pc' = [pc EXCEPT ![s] = "done"]
        /\ eligible' \subseteq eligible \cup {s}
        /\ msg' = msg
    BY <1>11 DEF Save
  <2> QED
    BY <1>1, <1>7, <1>8, <1>11, <2>1 DEF Covered, Funded, Accepted, IgnorableValidationErrors, OptimisticAllSlots
<1>12. ASSUME NEW s \in Submissions, Simulation(s)
       PROVE  UNCHANGED <<pc, msg, eligible, loaded, collateral, lowered>>
  BY <1>12, Zenon DEF Simulation, StartSimulation, Simulate, DemoteRead, DemoteStatus, DemoteRow
<1>13. ASSUME NEW s \in Submissions, Simulation(s) PROVE Kept'
  <2>1. CASE StartSimulation(s) \/ DemoteRead(s) \/ DemoteStatus(s) \/ DemoteRow(s)
    BY <1>2, <1>12, <1>13, <2>1, Zenon DEF StartSimulation, DemoteRead, DemoteStatus, DemoteRow
  <2>2. CASE Simulate(s)
    <3>1. /\ msg[s].instance \in Instances /\ msg[s].gen \in Generations
          /\ msg[s].builder \in Builders
      BY <1>1, <2>2, Zenon DEF Simulate, ProgressInv, Requests
    <3>2. OnRecord(msg[s].builder, Entry(s))
      BY <1>1, <3>1 DEF Entry, Kept
    <3>3. OnRecord(msg[s].builder, [optimistic |-> FALSE, collateral |-> Entry(s).collateral])
      BY <3>2 DEF OnRecord
    <3>4. CASE entry' = [entry EXCEPT ![msg[s].instance][msg[s].gen][msg[s].builder] =
                           [optimistic |-> FALSE, collateral |-> Entry(s).collateral]]
      <4>1. \A j \in Instances, b \in Builders, g \in Generations : OnRecord(b, entry'[j][g][b])
        <5> SUFFICES ASSUME NEW j \in Instances, NEW b \in Builders, NEW g \in Generations
                     PROVE  OnRecord(b, entry'[j][g][b])
          OBVIOUS
        <5>1. OnRecord(b, entry[j][g][b])
          BY <1>1, Zenon DEF Kept
        <5>2. \/ entry'[j][g][b] = entry[j][g][b]
              \/ /\ b = msg[s].builder
                 /\ entry'[j][g][b] = [optimistic |-> FALSE, collateral |-> Entry(s).collateral]
          <6>1. PICK e : e = [optimistic |-> FALSE, collateral |-> Entry(s).collateral]
            OBVIOUS
          <6>2. /\ entry \in [Instances -> [Generations -> [Builders -> Entries]]]
                /\ entry' = [entry EXCEPT ![msg[s].instance][msg[s].gen][msg[s].builder] = e]
            BY <1>1, <3>4, <6>1, Zenon
          <6>3. entry'[j][g][b] = entry[j][g][b] \/ (b = msg[s].builder /\ entry'[j][g][b] = e)
            <7> DEFINE written == [entry EXCEPT ![msg[s].instance][msg[s].gen][msg[s].builder] = e]
            <7>1. \/ written[j][g][b] = entry[j][g][b]
                  \/ b = msg[s].builder /\ written[j][g][b] = e
              BY <3>1, <6>2, EntryWritten
            <7>2. entry' = written
              BY <6>2, Zenon
            <7> HIDE DEF written
            <7> QED
              BY <7>1, <7>2, Zenon
          <6> QED
            BY <6>1, <6>3, Zenon
        <5> QED
          BY <3>3, <5>1, <5>2, Zenon
      <4> QED
        BY <1>1, <1>12, <1>13, <4>1 DEF Kept, OnRecord
    <3> QED
      BY <1>2, <1>12, <1>13, <2>2, <3>4 DEF Simulate
  <2> QED
    BY <1>13, <2>1, <2>2 DEF Simulation
<1>14. ASSUME NEW s \in Submissions,
              (\E i \in Instances : GetPayload(s, i)) \/ RefundWait(s) \/ RefundCheck(s)
       PROVE  UNCHANGED <<pc, msg, eligible, entry, loaded, collateral, lowered>>
  BY <1>14 DEF GetPayload, RefundWait, RefundCheck
<1>15. ASSUME (\E b \in Builders : StatusRead(b)) \/ StatusWrite
       PROVE  UNCHANGED <<pc, msg, eligible, entry, loaded, collateral, lowered>>
  BY <1>15 DEF StatusRead, StatusWrite
<1>16. ASSUME NEW b \in Builders, NEW id \in Ids, NEW a \in Amounts, SetCollateral(b, id, a)
       PROVE  Kept' /\ Covered'
  <2>1. /\ collateral' = [collateral EXCEPT ![b] = a] /\ a \in Nat
        /\ lowered' = IF a < collateral[b] THEN lowered \cup {b} ELSE lowered
        /\ UNCHANGED <<pc, msg, eligible, entry, loaded>>
    BY <1>16, ValuesAssumption DEF SetCollateral
  <2>2. \A c \in Builders, v \in Nat : v <= collateral[c] \/ c \in lowered =>
                                      v <= collateral'[c] \/ c \in lowered'
    BY <1>1, <2>1
  <2>3. Kept'
    <3>1. \A i \in Instances, c \in Builders, g \in Generations : entry[i][g][c].collateral \in Nat
      BY <1>1 DEF Entries
    <3>2. \A i \in Instances, c \in Builders, n \in HeadSlots : loaded[i][n][c].collateral \in Nat
      BY <1>1 DEF Entries
    <3> QED
      BY <1>1, <2>1, <2>2, <3>1, <3>2 DEF Kept, OnRecord
  <2>4. Covered'
    <3>1. ASSUME NEW s \in Submissions, pc[s] # "new"
          PROVE  msg[s].builder \in Builders /\ msg[s].value \in Nat
      BY <1>1, <3>1, ValuesAssumption, Zenon DEF ProgressInv, Requests
    <3>2. ASSUME NEW s \in Submissions, pc[s] = "save" \/ s \in eligible, Funded(s)
          PROVE  Funded(s)'
      <4>1. pc[s] # "new"
        BY <1>1, <3>2 DEF ProgressInv
      <4> QED
        BY <1>1, <2>1, <2>2, <3>1, <3>2, <4>1 DEF Funded, Accepted, IgnorableValidationErrors
    <3> QED
      BY <1>1, <2>1, <3>2 DEF Covered, OptimisticAllSlots
  <2> QED
    BY <2>3, <2>4
<1>17. CASE UNCHANGED vars
  BY <1>2, <1>3, <1>17 DEF vars
<1>18. ASSUME NEW s \in Submissions, Submit(s) \/ Decide(s) \/ Save(s) \/ Simulation(s)
       PROVE  Kept' /\ Covered'
  BY <1>2, <1>3, <1>7, <1>9, <1>10, <1>11, <1>12, <1>13, <1>18
<1>19. ASSUME NEW i \in Instances, NewSlot(i) \/ \E n \in HeadSlots : Prepare(i, n)
       PROVE  Kept' /\ Covered'
  BY <1>2, <1>3, <1>4, <1>5, <1>6, <1>19
<1>20. ASSUME UNCHANGED <<pc, msg, eligible, entry, loaded, collateral, lowered>>
       PROVE  Kept' /\ Covered'
  BY <1>2, <1>3, <1>20
<1> QED
  BY <1>14, <1>15, <1>16, <1>17, <1>18, <1>19, <1>20, Zenon DEF Next, Step

(***************************************************************************)
(* demoteBuilder clears the flag of every pubkey of the id it has read.    *)
(***************************************************************************)
LEMMA DemotionStep == IInv /\ [Next]_vars => DemotionInv'
<1> SUFFICES ASSUME IInv, [Next]_vars PROVE DemotionInv'
  OBVIOUS
<1> USE DEF database, builderRows, cache, preparing, submitting, simulating, delivering,
            operator
<1> DEFINE Read(s) == sim[s] = "identified" => demoteId[s] = builderId[msg[s].builder]
           Cleared(s) == sim[s] \in {"flagged", "demoted"} /\ builderId[msg[s].builder] # "" =>
                           \A b \in Builders : builderId[b] = builderId[msg[s].builder] =>
                                                 ~isOptimistic[b]
           Undisturbed == changes = 0 /\ ~dbFailed
<1>1. /\ changes = 0 => admin = NoChange
      /\ Undisturbed => \A s \in Submissions : Read(s) /\ Cleared(s)
      /\ ProgressInv
      /\ TypeOK
  BY Zenon DEF IInv, DemotionInv
<1> SUFFICES /\ changes' = 0 => admin' = NoChange
             /\ Undisturbed' => \A s \in Submissions : Read(s)' /\ Cleared(s)'
  BY Zenon DEF DemotionInv
<1>2. sim \in [Submissions ->
         {"none", "spawned", "running", "failed", "identified", "flagged", "demoted", "finished"}]
      /\ demoteId \in [Submissions -> Ids \cup {Unread}] /\ changes \in Nat
      /\ dbFailed \in BOOLEAN
  BY <1>1, Zenon DEF TypeOK
<1>3. ASSUME UNCHANGED <<admin, changes, dbFailed, sim, demoteId, builderId, isOptimistic, msg>>
      PROVE  /\ changes' = 0 => admin' = NoChange
             /\ Undisturbed' => \A s \in Submissions : Read(s)' /\ Cleared(s)'
  BY <1>1, <1>3, Zenon
<1>4. ASSUME NEW i \in Instances, NewSlot(i) \/ \E n \in HeadSlots : Prepare(i, n)
      PROVE  /\ UNCHANGED <<admin, changes, sim, demoteId, builderId, isOptimistic, msg>>
             /\ dbFailed => dbFailed'
  <2>1. /\ UNCHANGED <<admin, changes, sim, demoteId, builderId, isOptimistic, msg>>
        /\ dbFailed' \in {dbFailed, TRUE}
    BY <1>4, Zenon DEF NewSlot, Prepare, PrepareWait, PrepareStore, PrepareLoad, PrepareInstall,
                DatabaseFails
  <2> QED
    BY <1>2, <2>1, Zenon
<1>5. ASSUME NEW s \in Submissions, Save(s) \/ (\E i \in Instances : GetPayload(s, i))
                                    \/ RefundWait(s) \/ RefundCheck(s)
      PROVE  /\ UNCHANGED <<admin, changes, sim, demoteId, builderId, isOptimistic, msg>>
             /\ dbFailed => dbFailed'
  <2>1. /\ UNCHANGED <<admin, changes, sim, demoteId, builderId, isOptimistic, msg>>
        /\ dbFailed' \in {dbFailed, TRUE}
    <3>1. CASE Save(s)
      BY <3>1 DEF Save
    <3>2. CASE RefundWait(s) \/ \E i \in Instances : GetPayload(s, i)
      BY <3>2, Zenon DEF GetPayload, RefundWait
    <3>3. CASE RefundCheck(s)
      BY <3>3, Zenon DEF RefundCheck, DatabaseFails
    <3> QED
      BY <1>5, <3>1, <3>2, <3>3, Zenon
  <2> QED
    BY <1>2, <2>1, Zenon
<1>6. ASSUME UNCHANGED <<admin, changes, sim, demoteId, builderId, isOptimistic, msg>>,
             dbFailed => dbFailed'
      PROVE  /\ changes' = 0 => admin' = NoChange
             /\ Undisturbed' => \A s \in Submissions : Read(s)' /\ Cleared(s)'
  BY <1>1, <1>6, Zenon
<1>7. ASSUME \/ \E b \in Builders : StatusRead(b)
             \/ StatusWrite
             \/ \E b \in Builders, id \in Ids, a \in Amounts : SetCollateral(b, id, a)
      PROVE  changes' # 0
  <2>1. \/ changes' = changes + 1
        \/ changes' = changes /\ admin # NoChange
    BY <1>7, Zenon DEF StatusRead, StatusWrite, SetCollateral
  <2>2. changes = 0 => admin = NoChange
    BY <1>1, Zenon
  <2>3. CASE changes' = changes + 1
    BY <1>2, <2>3
  <2> QED
    BY <2>1, <2>2, <2>3, Zenon
<1>8. ASSUME NEW s \in Submissions, Submit(s)
      PROVE  /\ changes' = 0 => admin' = NoChange
             /\ Undisturbed' => \A t \in Submissions : Read(t)' /\ Cleared(t)'
  <2>1. UNCHANGED <<admin, changes, dbFailed, sim, demoteId, builderId, isOptimistic>>
    BY <1>8 DEF Submit
  <2>2. sim[s] = "none"
    BY <1>1, <1>2, <1>8, Zenon DEF Submit, ProgressInv
  <2>3. \A t \in Submissions \ {s} : msg'[t] = msg[t]
    BY <1>1, <1>8, Zenon DEF Submit, TypeOK
  <2> QED
    BY <1>1, <2>1, <2>2, <2>3, Zenon
<1>9. ASSUME NEW s \in Submissions, Decide(s) \/ StartSimulation(s) \/ Simulate(s)
      PROVE  /\ changes' = 0 => admin' = NoChange
             /\ Undisturbed' => \A t \in Submissions : Read(t)' /\ Cleared(t)'
  <2>1. UNCHANGED <<admin, changes, dbFailed, demoteId, builderId, isOptimistic, msg>>
    BY <1>9 DEF Decide, StartSimulation, Simulate
  <2>2. \A t \in Submissions \ {s} : sim'[t] = sim[t]
    BY <1>2, <1>9 DEF Decide, StartSimulation, Simulate
  <2>3. sim'[s] = sim[s] \/ sim'[s] \notin {"identified", "flagged", "demoted"}
    BY <1>2, <1>9 DEF Decide, StartSimulation, Simulate
  <2> QED
    BY <1>1, <2>1, <2>2, <2>3, Zenon
<1>10. ASSUME NEW s \in Submissions, DemoteRead(s)
       PROVE  /\ changes' = 0 => admin' = NoChange
              /\ Undisturbed' => \A t \in Submissions : Read(t)' /\ Cleared(t)'
  <2>1. /\ UNCHANGED <<admin, changes, builderId, isOptimistic, msg>>
        /\ dbFailed => dbFailed'
    <3>1. UNCHANGED dbFailed \/ dbFailed'
      BY <1>10, Zenon DEF DemoteRead, DatabaseFails
    <3>2. dbFailed => dbFailed'
      BY <3>1, Zenon
    <3>3. UNCHANGED <<admin, changes, builderId, isOptimistic, msg>>
      BY <1>10, Zenon DEF DemoteRead
    <3> QED
      BY <3>2, <3>3
  <2>2. \A t \in Submissions \ {s} : sim'[t] = sim[t] /\ demoteId'[t] = demoteId[t]
    BY <1>2, <1>10, Zenon DEF DemoteRead
  <2>3. \/ dbFailed'
        \/ sim'[s] = "identified" /\ demoteId'[s] = builderId[msg[s].builder]
        \/ sim'[s] = "flagged" /\ builderId[msg[s].builder] = ""
    BY <1>2, <1>10, Zenon DEF DemoteRead, DatabaseFails
  <2>4. Undisturbed' => Read(s)' /\ Cleared(s)'
    BY <2>1, <2>3, Zenon
  <2>5. ASSUME NEW t \in Submissions \ {s} PROVE Undisturbed' => Read(t)' /\ Cleared(t)'
    BY <1>1, <2>1, <2>2, Zenon
  <2> QED
    BY <1>1, <2>1, <2>4, <2>5, Zenon
<1>11. ASSUME NEW s \in Submissions, DemoteStatus(s)
       PROVE  /\ changes' = 0 => admin' = NoChange
              /\ Undisturbed' => \A t \in Submissions : Read(t)' /\ Cleared(t)'
  <2>1. /\ UNCHANGED <<admin, changes, builderId, demoteId, msg>>
        /\ dbFailed => dbFailed'
        /\ sim[s] = "identified" /\ sim' = [sim EXCEPT ![s] = "flagged"]
    <3>1. dbFailed' \in {dbFailed, TRUE}
      BY <1>11, Zenon DEF DemoteStatus, DatabaseFails
    <3>2. dbFailed => dbFailed'
      BY <1>2, <3>1, Zenon
    <3> QED
      BY <1>11, <3>2 DEF DemoteStatus
  <2>2. \/ dbFailed'
        \/ isOptimistic' = [b \in Builders |-> isOptimistic[b] /\ builderId[b] # demoteId[s]]
    BY <1>11, Zenon DEF DemoteStatus, DatabaseFails
  <2>3. \/ dbFailed'
        \/ \A b \in Builders : isOptimistic'[b] => isOptimistic[b] /\ builderId[b] # demoteId[s]
    BY <2>2, Zenon
  <2>4. sim'[s] = "flagged" /\ \A t \in Submissions \ {s} : sim'[t] = sim[t]
    BY <1>2, <2>1
  <2>5. Undisturbed' => demoteId[s] = builderId[msg[s].builder]
    BY <1>1, <2>1, Zenon
  <2>6. Undisturbed' => Read(s)' /\ Cleared(s)'
    BY <2>1, <2>3, <2>4, <2>5, Zenon
  <2>7. ASSUME NEW t \in Submissions \ {s} PROVE Undisturbed' => Read(t)' /\ Cleared(t)'
    BY <1>1, <2>1, <2>3, <2>4, Zenon
  <2> QED
    BY <1>1, <2>1, <2>6, <2>7, Zenon
<1>12. ASSUME NEW s \in Submissions, DemoteRow(s)
       PROVE  /\ changes' = 0 => admin' = NoChange
              /\ Undisturbed' => \A t \in Submissions : Read(t)' /\ Cleared(t)'
  <2>1. /\ UNCHANGED <<admin, changes, builderId, demoteId, isOptimistic, msg>>
        /\ dbFailed => dbFailed'
        /\ sim[s] = "flagged" /\ sim' = [sim EXCEPT ![s] = "demoted"]
    <3>1. /\ UNCHANGED <<admin, changes, builderId, demoteId, isOptimistic, msg>>
          /\ dbFailed' \in {dbFailed, TRUE}
          /\ sim[s] = "flagged" /\ sim' = [sim EXCEPT ![s] = "demoted"]
      BY <1>12, Zenon DEF DemoteRow, DatabaseFails
    <3> QED
      BY <1>2, <3>1, Zenon
  <2>2. sim'[s] = "demoted" /\ \A t \in Submissions \ {s} : sim'[t] = sim[t]
    BY <1>2, <2>1
  <2> QED
    BY <1>1, <2>1, <2>2, Zenon
<1>13. CASE UNCHANGED vars
  BY <1>3, <1>13, Zenon DEF vars
<1>14. ASSUME NEW s \in Submissions, Simulation(s)
       PROVE  /\ changes' = 0 => admin' = NoChange
              /\ Undisturbed' => \A t \in Submissions : Read(t)' /\ Cleared(t)'
  BY <1>9, <1>10, <1>11, <1>12, <1>14, Zenon DEF Simulation
<1> QED
  BY <1>4, <1>5, <1>6, <1>7, <1>8, <1>9, <1>13, <1>14, Zenon DEF Next, Step

(***************************************************************************)
(* A demotion is written at the end of a failed simulation, and its refund *)
(* data at the end of a getPayload that had the payload.                   *)
(***************************************************************************)
LEMMA RowsStep == IInv /\ [Next]_vars => RowsInv'
<1> SUFFICES ASSUME IInv, [Next]_vars PROVE RowsInv'
  OBVIOUS
<1> USE DEF database, builderRows, cache, preparing, submitting, simulating, delivering,
            operator
<1>1. /\ RowsInv /\ ProgressInv
      /\ demotions \subseteq Submissions /\ refunds \subseteq Submissions
      /\ delivery \in [Submissions -> {"none", "wait", "check", "done"}]
      /\ answer \in [Submissions -> Answers \cup {"none"}]
      /\ sim \in [Submissions ->
         {"none", "spawned", "running", "failed", "identified", "flagged", "demoted", "finished"}]
  BY DEF IInv, TypeOK
<1>2. ASSUME UNCHANGED <<demotions, refunds, eligible, delivery, answer, sim>> PROVE RowsInv'
  BY <1>1, <1>2 DEF RowsInv
<1>3. ASSUME NEW i \in Instances, NewSlot(i) \/ \E n \in HeadSlots : Prepare(i, n)
      PROVE  UNCHANGED <<demotions, refunds, eligible, delivery, answer, sim>>
  BY <1>3 DEF NewSlot, Prepare, PrepareWait, PrepareStore, PrepareLoad, PrepareInstall
<1>4. ASSUME \/ \E b \in Builders : StatusRead(b)
             \/ StatusWrite
             \/ \E b \in Builders, id \in Ids, a \in Amounts : SetCollateral(b, id, a)
      PROVE  UNCHANGED <<demotions, refunds, eligible, delivery, answer, sim>>
  BY <1>4 DEF StatusRead, StatusWrite, SetCollateral
<1>5. ASSUME NEW s \in Submissions, Submit(s)
      PROVE  UNCHANGED <<demotions, refunds, eligible, delivery, answer, sim>>
  BY <1>5, Zenon DEF Submit
<1>6. ASSUME NEW s \in Submissions, Save(s) PROVE RowsInv'
  BY <1>1, <1>6 DEF Save, RowsInv
<1>7. ASSUME NEW s \in Submissions,
             Decide(s) \/ StartSimulation(s) \/ Simulate(s) \/ DemoteRead(s) \/ DemoteStatus(s)
      PROVE  RowsInv'
  <2>1. UNCHANGED <<demotions, refunds, eligible, delivery, answer>>
    BY <1>7, Zenon DEF Decide, StartSimulation, Simulate, DemoteRead, DemoteStatus
  <2>2. \A t \in Submissions \ {s} : sim'[t] = sim[t]
    BY <1>1, <1>7, Zenon DEF Decide, StartSimulation, Simulate, DemoteRead, DemoteStatus
  <2>3. sim'[s] = sim[s] \/ sim[s] # "demoted"
    BY <1>1, <1>7, Zenon DEF Decide, StartSimulation, Simulate, DemoteRead, DemoteStatus, ProgressInv
  <2> QED
    BY <1>1, <2>1, <2>2, <2>3 DEF RowsInv
<1>8. ASSUME NEW s \in Submissions, DemoteRow(s) PROVE RowsInv'
  <2>1. UNCHANGED <<refunds, eligible, delivery, answer>> /\ sim' = [sim EXCEPT ![s] = "demoted"]
        /\ (demotions' = demotions \/ demotions' = demotions \cup {s})
    BY <1>8, Zenon DEF DemoteRow
  <2> QED
    BY <1>1, <2>1 DEF RowsInv
<1>9. ASSUME NEW s \in Submissions, NEW i \in Instances, GetPayload(s, i) PROVE RowsInv'
  <2>1. UNCHANGED <<demotions, refunds, eligible, sim>> /\ delivery[s] = "none"
        /\ delivery' = [delivery EXCEPT ![s] = "wait"]
        /\ \A t \in Submissions \ {s} : answer'[t] = answer[t]
    BY <1>1, <1>9 DEF GetPayload
  <2> QED
    BY <1>1, <2>1 DEF RowsInv
<1>10. ASSUME NEW s \in Submissions, RefundWait(s) PROVE RowsInv'
  BY <1>1, <1>10 DEF RefundWait, RowsInv
<1>11. ASSUME NEW s \in Submissions, RefundCheck(s) PROVE RowsInv'
  <2>1. /\ UNCHANGED <<demotions, eligible, sim, answer>> /\ delivery[s] = "check"
        /\ delivery' = [delivery EXCEPT ![s] = "done"]
        /\ refunds' \subseteq refunds \cup ({s} \cap demotions)
        /\ refunds' = refunds \/ answer[s] # "missing"
    BY <1>11 DEF RefundCheck
  <2>2. s \in eligible
    BY <1>1, <2>1 DEF ProgressInv
  <2> QED
    BY <1>1, <2>1, <2>2 DEF RowsInv
<1>12. CASE UNCHANGED vars
  BY <1>2, <1>12 DEF vars
<1> QED
  BY <1>2, <1>3, <1>4, <1>5, <1>6, <1>7, <1>8, <1>9, <1>10, <1>11, <1>12, Zenon
  DEF Next, Step, Simulation

-----------------------------------------------------------------------------
(* The theorems *)

(***************************************************************************)
(* The state after StartServer satisfies the invariant.                    *)
(***************************************************************************)
LEMMA InitInv == Init => IInv
<1> SUFFICES ASSUME Init PROVE IInv
  OBVIOUS
<1>1. setup \in Setups /\ MaxSlot \in Nat \ {0}
  BY SetupAssumption DEF Init
<1>2. NoEntries \in [Builders -> Entries]
  BY DEF NoEntries, Entries
<1>3. 1 \in HeadSlots /\ 0 \in Generations /\ 0 \in 0..(MaxSlot + 1)
  BY <1>1 DEF HeadSlots, Generations
<1>4. TypeOK
  <2>1. isOptimistic \in [Builders -> BOOLEAN] /\ builderId \in [Builders -> Ids]
        /\ collateral \in [Builders -> Nat]
    BY <1>1, SetupAssumption, Zenon DEF Init
  <2>2. prepare \in [Instances ->
          [HeadSlots -> {"none", "wait", "store", "load", "install", "done"}]]
    BY DEF Init
  <2> QED
    BY <1>1, <1>2, <1>3, <2>1, <2>2, Zenon DEF Init, TypeOK
<1>5. CachesInv
  <2> SUFFICES ASSUME NEW i \in Instances
               PROVE  /\ \A n \in HeadSlots : n > headSlot[i] => prepare[i][n] = "none"
                      /\ generation[i] <= Cardinality(Done(i))
    BY DEF CachesInv
  <2>1. Done(i) = {}
    BY DEF Done, Init
  <2> QED
    BY <2>1, FS_EmptySet DEF Init, HeadSlots
<1>6. ProgressInv
  BY DEF Init, ProgressInv
<1>7. FundedInv
  <2>1. \A b \in Builders : OnRecord(b, NoEntries[b])
    BY <1>4 DEF TypeOK, OnRecord, NoEntries
  <2> QED
    BY <2>1 DEF Init, FundedInv
<1>8. DemotionInv /\ RowsInv
  BY DEF Init, DemotionInv, RowsInv
<1> QED
  BY <1>4, <1>5, <1>6, <1>7, <1>8 DEF IInv

(***************************************************************************)
(* The invariant holds in every reachable state.                           *)
(***************************************************************************)
LEMMA Invariance == Spec => []IInv
<1>1. IInv /\ [Next]_vars => IInv'
  BY TypeStep, CachesStep, ProgressStep, FundedStep, DemotionStep, RowsStep DEF IInv
<1> QED
  BY <1>1, InitInv, PTL DEF Spec

(***************************************************************************)
(* The rows, caches and goroutines keep their types; an instance never     *)
(* needs more caches than it sees head slots.                              *)
(***************************************************************************)
THEOREM TypeCorrect == Spec => []TypeOK
<1>1. IInv => TypeOK
  BY DEF IInv
<1> QED
  BY <1>1, Invariance, PTL

(***************************************************************************)
(* handleSubmitNewBlock, from a cache that may be stale: a block with a    *)
(* validation error that no flag tells the relay to ignore can win only    *)
(* when its builder's collateral covers it.                                *)
(***************************************************************************)
THEOREM OptimismIsCovered == Spec => []InvalidIsFunded
<1>1. IInv => InvalidIsFunded
  BY DEF IInv, FundedInv, InvalidIsFunded, Funded, Accepted, TypeOK
<1> QED
  BY <1>1, Invariance, PTL

(***************************************************************************)
(* demoteBuilder: with a demotion on record no pubkey with the builder's   *)
(* id is optimistic in the database.                                       *)
(***************************************************************************)
THEOREM DemotionReachesPubkeys == Spec => []DemotionIsEffective
<1>1. IInv => DemotionIsEffective
  <2> SUFFICES ASSUME IInv, changes = 0, ~dbFailed, NEW s \in demotions, NEW b \in Builders,
                      builderId[msg[s].builder] # "", builderId[b] = builderId[msg[s].builder]
               PROVE  ~isOptimistic[b]
    BY Zenon DEF DemotionIsEffective
  <2>1. s \in Submissions /\ sim[s] = "demoted"
    BY Zenon DEF IInv, TypeOK, RowsInv
  <2> QED
    BY <2>1, Zenon DEF IInv, DemotionInv
<1> QED
  BY <1>1, Invariance, PTL

(***************************************************************************)
(* The deferred part of getPayload records refund data only for a block    *)
(* that was eligible, whose payload it had, and that was demoted.          *)
(***************************************************************************)
THEOREM RefundsAreDue == Spec => []RefundIsDue
<1>1. IInv => RefundIsDue
  BY DEF IInv, RowsInv, RefundIsDue
<1> QED
  BY <1>1, Invariance, PTL
=============================================================================
