----------------------- MODULE PayloadDeliveryProofs -----------------------
(***************************************************************************)
(* Proofs about PayloadDelivery for any number of calls, instances, slots  *)
(* and blocks.  LedgerInv is inductive whether or not Redis fails, and     *)
(* gives the refinement of DeliveryLedger.  IInv adds that a call past a   *)
(* delivered check that did not fail has a granted block.                  *)
(* DrainInv says which calls a stopping instance still has in hand.        *)
(***************************************************************************)
EXTENDS PayloadDelivery, TLAPS

(***************************************************************************)
(* What the delivered check needs to know of the block a call asks for.    *)
(***************************************************************************)
LEMMA RequestFields ==
    ASSUME TypeOK, Requested, NEW c \in Calls, pc[c] # "new"
    PROVE  /\ msg[c] \in Requests
           /\ msg[c].block \in Blocks
           /\ msg[c].block.slot \in Nat
           /\ msg[c].block.slot > 0
           /\ msg[c].instance \in Instances
  <1>1. msg[c] \in Requests
    BY DEF Requested
  <1>2. msg[c].block \in Blocks /\ msg[c].instance \in Instances
    BY <1>1 DEF Requests
  <1>3. msg[c].block.slot \in Slots
    BY <1>2 DEF Blocks
  <1>4. \A s \in Slots : s \in Nat /\ s > 0
    BY SlotsAssumption
  <1> QED
    BY <1>1, <1>2, <1>3, <1>4

(***************************************************************************)
(* The slot key of Redis is a number, 0 before the first delivery.         *)
(***************************************************************************)
LEMMA LastSlot ==
    ASSUME TypeOK
    PROVE  last.slot \in Nat
  <1>1. CASE last \in Blocks
    <2>1. last.slot \in Slots
      BY <1>1 DEF Blocks
    <2> QED
      BY <2>1, SlotsAssumption, Zenon
  <1>2. CASE last = NoBlock
    BY <1>2 DEF NoBlock
  <1> QED
    BY <1>1, <1>2 DEF TypeOK

\* Granted blocks have natural slots.
LEMMA GrantedSlots ==
    ASSUME TypeOK
    PROVE  \A g \in granted : g \in Blocks /\ g.slot \in Nat
  BY SlotsAssumption, Zenon DEF TypeOK, Blocks

\* Nothing has been granted and no call has begun.
LEMMA InitLedger ==
    ASSUME Init
    PROVE  LedgerInv
  BY DEF Init, LedgerInv, TypeOK, Requested, AsyncStarted, LedgerOK, CleanWatch, Handling

(***************************************************************************)
(* A committed transaction moves past every granted block.                 *)
(***************************************************************************)
LEMMA CommitGrants ==
    ASSUME LedgerInv, NEW c \in Calls, pc[c] = "exec", Commit(c)
    PROVE  /\ msg[c].block \in Blocks
           /\ \A g \in granted : g.slot < msg[c].block.slot
           /\ last' = msg[c].block
           /\ granted' = granted \cup {msg[c].block}
           /\ dirty' = [d \in Calls |-> TRUE]
  <1>1. msg[c].block \in Blocks /\ msg[c].block.slot \in Nat
    BY RequestFields DEF LedgerInv
  <1>2. msg[c].block.slot > last.slot
    BY DEF LedgerInv, CleanWatch, Commit
  <1>3. \A g \in granted : g.slot <= last.slot
    BY DEF LedgerInv, LedgerOK
  <1>4. last.slot \in Nat /\ \A g \in granted : g.slot \in Nat
    BY LastSlot, GrantedSlots DEF LedgerInv
  <1> QED
    BY <1>1, <1>2, <1>3, <1>4 DEF Commit

(***************************************************************************)
(* The steps of a call that leave the delivered keys alone and do not      *)
(* enter the transaction.                                                  *)
(***************************************************************************)
LEMMA QuietStep ==
    ASSUME LedgerInv, TypeOK', Requested', AsyncStarted',
           last' = last, granted' = granted,
           \A c \in Calls : pc'[c] = "exec" => /\ pc[c] = "exec"
                                               /\ dirty'[c] = dirty[c]
                                               /\ msg'[c] = msg[c]
    PROVE  LedgerInv'
  BY DEF LedgerInv, LedgerOK, CleanWatch

(***************************************************************************)
(* A step of one call moves only its own program counter.                  *)
(***************************************************************************)
LEMMA CommitStep ==
    ASSUME LedgerInv, NEW c \in Calls, pc[c] = "exec", Commit(c), Goto(c, "timing"),
           UNCHANGED <<msg, async, published, rows, server>>,
           unchecked' \subseteq Calls
    PROVE  LedgerInv'
  <1>0. TypeOK /\ Requested /\ AsyncStarted /\ LedgerOK /\ CleanWatch
    BY DEF LedgerInv
  <1>1. msg[c].block \in Blocks /\ msg[c].block.slot \in Nat
    BY <1>0, RequestFields
  <1>2. /\ \A g \in granted : g.slot < msg[c].block.slot
        /\ last' = msg[c].block
        /\ granted' = granted \cup {msg[c].block}
        /\ dirty' = [d \in Calls |-> TRUE]
    BY CommitGrants
  <1>3. TypeOK'
    BY <1>0, <1>1, <1>2 DEF TypeOK, Goto, Handling
  <1>4. Requested' /\ AsyncStarted'
    BY <1>0 DEF TypeOK, Requested, AsyncStarted, Goto
  <1>5. \A g \in granted : g.slot \in Nat
    BY <1>0, GrantedSlots
  <1>6. LedgerOK'
    BY <1>0, <1>1, <1>2, <1>5 DEF LedgerOK
  <1>7. CleanWatch'
    BY <1>2 DEF CleanWatch
  <1> QED
    BY <1>3, <1>4, <1>6, <1>7 DEF LedgerInv

(***************************************************************************)
(* Every step preserves LedgerInv.                                         *)
(***************************************************************************)
LEMMA NextLedger ==
    ASSUME LedgerInv, [Next]_vars
    PROVE  LedgerInv'
  <1>0. TypeOK /\ Requested /\ AsyncStarted /\ LedgerOK /\ CleanWatch
    BY DEF LedgerInv
  <1>1. ASSUME NEW c \in Calls, Arrive(c)
        PROVE  LedgerInv'
    <2>1. PICK m \in Requests : msg' = [msg EXCEPT ![c] = m]
      BY <1>1, Zenon DEF Arrive
    <2>2. c \notin async
      BY <1>0, <1>1 DEF AsyncStarted, Arrive
    <2>3. TypeOK'
      BY <1>0, <1>1, <2>1 DEF TypeOK, Arrive, Goto, Handling
    <2>4. Requested' /\ AsyncStarted'
      BY <1>0, <1>1, <2>1, <2>2 DEF TypeOK, Requested, AsyncStarted, Arrive, Goto
    <2>5. \A d \in Calls : pc'[d] = "exec" =>
              pc[d] = "exec" /\ dirty'[d] = dirty[d] /\ msg'[d] = msg[d]
      BY <1>0, <1>1, <2>1 DEF TypeOK, Arrive, Goto
    <2> QED
      BY <1>1, <2>3, <2>4, <2>5, QuietStep DEF Arrive
  <1>2. ASSUME NEW c \in Calls, NEW step \in {"done", "load", "watch", "retry", "save",
                                             "readHash", "timing", "match", "publish"},
               pc[c] \in Handling, Goto(c, step), c \notin async \/ step \in {"save", "done"},
               TypeOK', async' \subseteq async \cup {c}, async' = async \/ step = "save",
               UNCHANGED <<last, dirty, msg, granted>>
        PROVE  LedgerInv'
    <2>1. Requested' /\ AsyncStarted'
      BY <1>0, <1>2 DEF TypeOK, Requested, AsyncStarted, Goto, Handling
    <2>2. \A d \in Calls : pc'[d] = "exec" =>
              pc[d] = "exec" /\ dirty'[d] = dirty[d] /\ msg'[d] = msg[d]
      BY <1>0, <1>2 DEF TypeOK, Goto
    <2> QED
      BY <1>2, <2>1, <2>2, QuietStep
  <1>3. ASSUME NEW c \in Calls, Handle(c)
        PROVE  LedgerInv'
    <2>0. pc[c] \in Handling
      BY <1>3 DEF Handle, Validate, Load, Retry, Watch, ReadHash, Exec, CheckFails,
                  Timing, Match, PublishV1, PublishV2, Save, Handling
    <2>1. pc[c] = "save" \/ c \notin async
      BY <1>0, <2>0 DEF AsyncStarted, Handling
    <2>2. msg[c].block \in Blocks
      BY <1>0, <2>0, RequestFields DEF Handling
    <2>3. CASE Validate(c)
      BY <1>0, <1>2, <2>0, <2>1, <2>3 DEF Validate, TypeOK, Goto, Handling
    <2>4. CASE Load(c)
      BY <1>0, <1>2, <2>0, <2>1, <2>4 DEF Load, TypeOK, Goto, Handling
    <2>5. CASE Retry(c)
      BY <1>0, <1>2, <2>0, <2>1, <2>5 DEF Retry, TypeOK, Goto, Handling
    <2>6. CASE Watch(c)
      <3>1. CASE msg[c].block.slot > last.slot /\ Goto(c, "exec")
        <4>1. TypeOK'
          BY <1>0, <2>6, <3>1 DEF TypeOK, Watch, Goto, Handling
        <4>2. Requested' /\ AsyncStarted'
          BY <1>0, <2>1, <2>6, <3>1 DEF TypeOK, Requested, AsyncStarted, Watch, Goto
        <4>3. LedgerOK'
          BY <1>0, <2>6 DEF LedgerOK, Watch
        <4>4. CleanWatch'
          BY <1>0, <2>6, <3>1 DEF TypeOK, CleanWatch, Watch, Goto
        <4> QED
          BY <4>1, <4>2, <4>3, <4>4 DEF LedgerInv
      <3>2. CASE Goto(c, "save") \/ Goto(c, "readHash")
        <4>1. TypeOK'
          BY <1>0, <2>6, <3>2 DEF TypeOK, Watch, Goto, Handling
        <4>2. Requested' /\ AsyncStarted'
          BY <1>0, <2>1, <2>6, <3>2 DEF TypeOK, Requested, AsyncStarted, Watch, Goto
        <4>3. \A d \in Calls : pc'[d] = "exec" =>
                  pc[d] = "exec" /\ dirty'[d] = dirty[d] /\ msg'[d] = msg[d]
          BY <1>0, <2>6, <3>2, ZenonT(60) DEF TypeOK, Watch, Goto
        <4> QED
          BY <2>6, <4>1, <4>2, <4>3, QuietStep, Zenon DEF Watch
      <3> QED
        BY <2>6, <3>1, <3>2 DEF Watch
    <2>7. CASE ReadHash(c)
      BY <1>0, <1>2, <2>0, <2>1, <2>7 DEF ReadHash, TypeOK, Goto, Handling
    <2>8. CASE Exec(c)
      <3>1. CASE Commit(c) /\ Goto(c, "timing")
        BY <1>0, <2>8, <3>1, CommitStep DEF Exec, TypeOK
      <3>2. CASE Goto(c, "save") /\ UNCHANGED <<last, dirty, granted>>
        BY <1>0, <1>2, <2>0, <2>1, <2>8, <3>2, Zenon DEF Exec, TypeOK, Goto, Handling
      <3> QED
        BY <2>8, <3>1, <3>2 DEF Exec
    <2>9. CASE CheckFails(c)
      <3>1. CASE pc[c] = "exec" /\ Commit(c)
        BY <1>0, <2>9, <3>1, CommitStep, SMTT(30) DEF CheckFails, TypeOK
      <3>2. CASE UNCHANGED <<last, dirty, granted>>
        BY <1>0, <1>2, <2>0, <2>1, <2>9, <3>2, Zenon DEF CheckFails, TypeOK, Goto, Handling
      <3> QED
        BY <2>9, <3>1, <3>2 DEF CheckFails
    <2>10. CASE Timing(c)
      BY <1>0, <1>2, <2>0, <2>1, <2>10 DEF Timing, TypeOK, Goto, Handling
    <2>11. CASE Match(c)
      BY <1>0, <1>2, <2>0, <2>1, <2>11, SMTT(30) DEF Match, TypeOK, Goto, Handling
    <2>12. CASE PublishV1(c)
      BY <1>0, <1>2, <2>0, <2>1, <2>2, <2>12, ZenonT(60) DEF PublishV1, TypeOK, Goto, Handling
    <2>13. CASE PublishV2(c)
      BY <1>0, <1>2, <2>0, <2>1, <2>13, ZenonT(60) DEF PublishV2, TypeOK, Goto, Handling
    <2>14. CASE Save(c)
      BY <1>0, <1>2, <2>0, <2>1, <2>2, <2>14, Zenon DEF Save, TypeOK, Goto, Handling
    <2> QED
      BY <1>3, <2>3, <2>4, <2>5, <2>6, <2>7, <2>8, <2>9, <2>10, <2>11, <2>12, <2>13,
         <2>14 DEF Handle
  <1>4. ASSUME NEW c \in Calls, AsyncPublish(c)
        PROVE  LedgerInv'
    <2>1. msg[c].block \in Blocks
      BY <1>0, <1>4, RequestFields DEF AsyncStarted, AsyncPublish
    <2>2. TypeOK' /\ Requested' /\ AsyncStarted'
      BY <1>0, <1>4, <2>1 DEF TypeOK, Requested, AsyncStarted, AsyncPublish
    <2> QED
      BY <1>4, <2>2, QuietStep DEF AsyncPublish
  <1>5. ASSUME NEW i \in Instances, Stop(i) \/ Drain(i)
        PROVE  LedgerInv'
    <2>1. TypeOK' /\ Requested' /\ AsyncStarted'
      BY <1>0, <1>5 DEF TypeOK, Requested, AsyncStarted, Stop, Drain
    <2> QED
      BY <1>5, <2>1, QuietStep DEF Stop, Drain
  <1>6. ASSUME NEW i \in Instances, Exit(i)
        PROVE  LedgerInv'
    <2>1. TypeOK'
      BY <1>0, <1>6 DEF TypeOK, Exit
    <2>2. Requested'
      BY <1>0, <1>6 DEF TypeOK, Requested, AsyncStarted, Exit, Busy, Handling
    <2>3. AsyncStarted'
      BY <1>0, <1>6 DEF TypeOK, AsyncStarted, Exit, Busy
    <2>4. \A d \in Calls : pc'[d] = "exec" =>
              pc[d] = "exec" /\ dirty'[d] = dirty[d] /\ msg'[d] = msg[d]
      BY <1>6, SMTT(30) DEF Exit
    <2> QED
      BY <1>6, <2>1, <2>2, <2>3, <2>4, QuietStep DEF Exit
  <1>7. CASE UNCHANGED vars
    BY <1>0, <1>7 DEF vars, LedgerInv, TypeOK, Requested, AsyncStarted, LedgerOK, CleanWatch
  <1> QED
    BY <1>1, <1>3, <1>4, <1>5, <1>6, <1>7 DEF Next

(***************************************************************************)
(* The variables of getPayload keep their types.                           *)
(***************************************************************************)
THEOREM TypeCorrect == Spec => []TypeOK
  <1>1. Init => LedgerInv
    BY InitLedger
  <1>2. LedgerInv /\ [Next]_vars => LedgerInv'
    BY NextLedger
  <1>3. LedgerInv => TypeOK
    BY DEF LedgerInv
  <1> QED
    BY <1>1, <1>2, <1>3, PTL DEF Spec

(***************************************************************************)
(* Redis, used through WATCH and MULTI/EXEC by any number of handlers on   *)
(* any number of instances, keeps the ledger of one block per slot in      *)
(* increasing order of slots, I/O errors included.                         *)
(***************************************************************************)
THEOREM ImplementsLedger == Spec => LedgerSpec
  <1>1. Init => Ledger!Init
    BY DEF Init, Ledger!Init
  <1>2. LedgerInv /\ [Next]_vars => [Ledger!Next]_granted
    <2> SUFFICES ASSUME LedgerInv, [Next]_vars, granted' # granted
                 PROVE  Ledger!Next
      BY SMTT(30)
    <2>1. PICK c \in Calls : pc[c] = "exec" /\ Commit(c)
      BY SMTT(30) DEF Next, vars, Arrive, Handle, Validate, Load, Retry, Watch, ReadHash, Exec,
             CheckFails, Timing, Match, PublishV1, PublishV2, Save, AsyncPublish, Stop,
             Drain, Exit
    <2>2. /\ msg[c].block \in Blocks
          /\ \A g \in granted : g.slot < msg[c].block.slot
          /\ granted' = granted \cup {msg[c].block}
      BY <2>1, CommitGrants
    <2> QED
      BY <2>2 DEF Ledger!Next, Ledger!Grant
  <1>3. Init => LedgerInv
    BY InitLedger
  <1>4. LedgerInv /\ [Next]_vars => LedgerInv'
    BY NextLedger
  <1> QED
    BY <1>1, <1>2, <1>3, <1>4, PTL DEF Spec, LedgerSpec, Ledger!Spec

(***************************************************************************)
(* A call that passed a check that did not fail has a granted block, and   *)
(* every published block is granted or belongs to a call whose check       *)
(* failed.                                                                 *)
(***************************************************************************)
LEMMA NextPassed ==
    ASSUME IInv, [Next]_vars
    PROVE  PassedIsGranted'
  <1>0. TypeOK /\ Requested /\ AsyncStarted /\ LedgerOK /\ PassedIsGranted
    BY DEF IInv, LedgerInv
  <1>1. ASSUME NEW c \in Calls, NEW step \in Handling \cup {"done"}, pc[c] \in Handling,
               Goto(c, step),
               c \notin unchecked' /\ step \in Passed => msg[c].block \in granted',
               async' = async
                 \/ (async' = async \cup {c} /\ (c \notin unchecked => msg[c].block \in granted)),
               granted \subseteq granted', published' \subseteq granted \cup Excused,
               msg' = msg,
               unchecked' = unchecked \/ unchecked' = unchecked \cup {c}
        PROVE  PassedIsGranted'
    <2>1. "new" \notin Handling \cup {"done"}
      BY DEF Handling
    <2>2. pc' = [pc EXCEPT ![c] = step]
      BY <1>1 DEF Goto
    <2>3. \A d \in Calls : pc'[d] = IF d = c THEN step ELSE pc[d]
      BY <1>0, <2>2 DEF TypeOK
    <2>4. unchecked \subseteq unchecked' /\ unchecked' \subseteq Calls
      BY <1>0, <1>1 DEF TypeOK
    <2>5. Excused \subseteq Excused'
      BY <1>1, <2>4 DEF Excused
    <2>6. ASSUME NEW d \in Calls \ unchecked', pc'[d] \in Passed \/ d \in async'
          PROVE  msg'[d].block \in granted'
      <3>1. CASE d # c
        BY <1>0, <1>1, <2>3, <2>4, <2>6, <3>1 DEF PassedIsGranted
      <3>2. CASE d = c
        <4>1. CASE step \in Passed
          BY <1>1, <2>6, <3>2, <4>1
        <4>2. CASE step \notin Passed
          <5>1. c \in async' /\ c \notin unchecked
            BY <2>3, <2>4, <2>6, <3>2, <4>2
          <5> QED
            BY <1>0, <1>1, <3>2, <5>1 DEF PassedIsGranted
        <4> QED
          BY <4>1, <4>2
      <3> QED
        BY <3>1, <3>2
    <2>7. \A d \in unchecked' : pc'[d] # "new"
      BY <1>0, <1>1, <2>1, <2>3, <2>4 DEF PassedIsGranted
    <2> QED
      BY <1>1, <2>5, <2>6, <2>7 DEF PassedIsGranted
  <1>2. ASSUME NEW c \in Calls, Arrive(c)
        PROVE  PassedIsGranted'
    <2>1. c \notin async /\ c \notin unchecked
      BY <1>0, <1>2 DEF AsyncStarted, PassedIsGranted, Arrive
    <2>2. \A d \in Calls : d # c => pc'[d] = pc[d] /\ msg'[d] = msg[d]
      BY <1>0, <1>2 DEF TypeOK, Arrive, Goto
    <2>3. pc'[c] = "validate" /\ UNCHANGED <<async, published, granted, unchecked>>
      BY <1>0, <1>2 DEF TypeOK, Arrive, Goto
    <2>4. Excused' = Excused
      BY <1>0, <2>1, <2>2, <2>3 DEF TypeOK, Excused
    <2>5. \A d \in Calls \ unchecked' :
             pc'[d] \in Passed \/ d \in async' => msg'[d].block \in granted'
      BY <1>0, <2>1, <2>2, <2>3 DEF PassedIsGranted, Passed
    <2>6. \A d \in unchecked' : pc'[d] # "new"
      BY <1>0, <2>1, <2>2, <2>3 DEF TypeOK, PassedIsGranted
    <2> QED
      BY <1>0, <2>3, <2>4, <2>5, <2>6 DEF PassedIsGranted
  <1>3. ASSUME NEW c \in Calls, Handle(c)
        PROVE  PassedIsGranted'
    <2>0. /\ pc[c] \in Passed /\ c \notin unchecked => msg[c].block \in granted
          /\ published \subseteq granted \cup Excused
      BY <1>0 DEF PassedIsGranted
    <2>1. CASE Validate(c)
      BY <1>1, <2>0, <2>1 DEF Validate, Passed, Handling
    <2>2. CASE Load(c)
      BY <1>1, <2>0, <2>2 DEF Load, Passed, Handling
    <2>3. CASE Retry(c)
      BY <1>1, <2>0, <2>3 DEF Retry, Passed, Handling
    <2>4. CASE Watch(c)
      BY <1>1, <2>0, <2>4 DEF Watch, Passed, Handling
    <2>5. CASE ReadHash(c)
      <3>1. msg[c].block \in Blocks /\ msg[c].block.slot > 0
        BY <1>0, <2>5, RequestFields DEF ReadHash
      <3>2. CASE msg[c].block = last /\ Goto(c, "timing")
        <4>1. last # NoBlock
          BY <3>1, <3>2 DEF NoBlock
        <4>2. msg[c].block \in granted
          BY <1>0, <3>2, <4>1 DEF LedgerOK
        <4> QED
          BY <1>1, <2>0, <2>5, <3>2, <4>2 DEF ReadHash, Passed, Handling
      <3>3. CASE Goto(c, "save")
        BY <1>1, <2>0, <2>5, <3>3 DEF ReadHash, Passed, Handling
      <3> QED
        BY <2>5, <3>2, <3>3 DEF ReadHash
    <2>6. CASE Exec(c)
      BY <1>1, <2>0, <2>6 DEF Exec, Commit, Passed, Handling
    <2>7. CASE CheckFails(c)
      <3>1. /\ pc[c] \in Handling /\ Goto(c, "timing") /\ "timing" \in Handling
            /\ unchecked' = unchecked \cup {c}
            /\ granted \subseteq granted'
            /\ UNCHANGED <<msg, async, published>>
        BY <2>7 DEF CheckFails, Commit, Handling
      <3> QED
        BY <1>1, <2>0, <3>1
    <2>8. CASE Timing(c)
      BY <1>1, <2>0, <2>8 DEF Timing, Passed, Handling
    <2>9. CASE Match(c)
      BY <1>1, <2>0, <2>9 DEF Match, Passed, Handling
    <2>10. CASE PublishV1(c)
      <3>1. msg[c].block \in granted \cup Excused
        BY <2>0, <2>10 DEF PublishV1, Passed, Excused
      <3> QED
        BY <1>1, <2>0, <2>10, <3>1 DEF PublishV1, Passed, Handling
    <2>11. CASE PublishV2(c)
      BY <1>1, <2>0, <2>11 DEF PublishV2, Passed, Handling
    <2>12. CASE Save(c)
      BY <1>1, <2>0, <2>12 DEF Save, Passed, Handling
    <2> QED
      BY <1>3, <2>1, <2>2, <2>3, <2>4, <2>5, <2>6, <2>7, <2>8, <2>9, <2>10, <2>11, <2>12
         DEF Handle
  <1>4. ASSUME NEW c \in Calls, AsyncPublish(c)
        PROVE  PassedIsGranted'
    <2>1. msg[c].block \in granted \cup Excused
      BY <1>0, <1>4 DEF AsyncPublish, PassedIsGranted, Excused
    <2>2. Excused' = Excused
      BY <1>4 DEF AsyncPublish, Excused
    <2> QED
      BY <1>0, <1>4, <2>1, <2>2 DEF AsyncPublish, PassedIsGranted
  <1>5. ASSUME NEW i \in Instances, Stop(i) \/ Drain(i) \/ Exit(i)
        PROVE  PassedIsGranted'
    <2>1. UNCHANGED <<msg, published, granted, unchecked>> /\ async' \subseteq async
      BY <1>5 DEF Stop, Drain, Exit
    <2>2. \A c \in Calls : pc'[c] = pc[c] \/ pc'[c] = "cut"
      BY <1>5 DEF Stop, Drain, Exit
    <2>3. Excused' = Excused
      BY <2>1 DEF Excused
    <2> QED
      BY <1>0, <2>1, <2>2, <2>3 DEF TypeOK, PassedIsGranted, Passed
  <1>6. CASE UNCHANGED vars
    BY <1>0, <1>6 DEF vars, PassedIsGranted, Excused
  <1> QED
    BY <1>2, <1>3, <1>4, <1>5, <1>6 DEF Next

(***************************************************************************)
(* At most one block per slot is unblinded, but for the blocks of calls    *)
(* whose own delivered check failed with an I/O error: such a failure does *)
(* not weaken the check of any other call.                                 *)
(***************************************************************************)
THEOREM NoEquivocation == Spec => []OneBlockPerSlot
  <1>1. Init => IInv
    BY InitLedger DEF IInv, PassedIsGranted, Passed, Init
  <1>2. IInv /\ [Next]_vars => IInv'
    BY NextLedger, NextPassed DEF IInv
  <1>3. IInv => OneBlockPerSlot
    <2> SUFFICES ASSUME IInv, NEW a \in Unblinded \ Excused, NEW b \in Unblinded \ Excused,
                        a.slot = b.slot
                 PROVE  a = b
      BY DEF OneBlockPerSlot
    <2>1. \A x \in Unblinded \ Excused : x \in granted
      BY DEF IInv, LedgerInv, TypeOK, PassedIsGranted, Unblinded, Excused
    <2> QED
      BY <2>1 DEF IInv, LedgerInv, LedgerOK
  <1> QED
    BY <1>1, <1>2, <1>3, PTL DEF Spec

(***************************************************************************)
(* CheckAndSetLastSlotAndHashDelivered: the delivered slot in Redis only   *)
(* rises, and the hash beside it never changes without it, whichever calls *)
(* race and whichever replies are lost.                                    *)
(***************************************************************************)
THEOREM DeliveredSlotRises == Spec => [][last'.slot > last.slot]_last
  <1>1. LedgerInv /\ [Next]_vars => [last'.slot > last.slot]_last
    <2> SUFFICES ASSUME LedgerInv, [Next]_vars, last' # last
                 PROVE  last'.slot > last.slot
      OBVIOUS
    <2>1. PICK c \in Calls : pc[c] = "exec" /\ Commit(c)
      BY SMTT(30) DEF Next, vars, Arrive, Handle, Validate, Load, Retry, Watch, ReadHash, Exec,
             CheckFails, Timing, Match, PublishV1, PublishV2, Save, AsyncPublish, Stop,
             Drain, Exit
    <2> QED
      BY <2>1 DEF LedgerInv, CleanWatch, Commit
  <1>2. Init => LedgerInv
    BY InitLedger
  <1>3. LedgerInv /\ [Next]_vars => LedgerInv'
    BY NextLedger
  <1> QED
    BY <1>1, <1>2, <1>3, PTL DEF Spec

-----------------------------------------------------------------------------
\* The wait for the calls in flight leaves only those that came after it, and
\* the background goroutines are those of V2 calls.
DrainInv ==
    /\ \A c \in Calls :
         pc[c] \in Handling /\ server[msg[c].instance] \in {"drained", "exited"}
             => msg[c].found = "drained"
    /\ \A c \in async : msg[c].version = "v2"
    /\ NothingLostOnShutdown

(***************************************************************************)
(* Every step keeps it.                                                    *)
(***************************************************************************)
LEMMA DrainStep ==
    ASSUME LedgerInv, DrainInv, [Next]_vars
    PROVE  DrainInv'
  <1>0. TypeOK /\ Requested /\ AsyncStarted
    BY DEF LedgerInv
  <1>1. ASSUME NEW c \in Calls, Arrive(c)
        PROVE  DrainInv'
    <2>1. PICK m \in Requests : m.found = server[m.instance] /\ msg' = [msg EXCEPT ![c] = m]
      BY <1>1, Zenon DEF Arrive
    <2>2. m.found \in Serving /\ m.instance \in Instances
      BY DEF Requests
    <2>3. /\ msg'[c] = m /\ pc'[c] = "validate" /\ c \notin async /\ async' = async
          /\ server' = server
          /\ \A d \in Calls : d # c => msg'[d] = msg[d] /\ pc'[d] = pc[d]
      BY <1>0, <1>1, <2>1 DEF Arrive, Goto, TypeOK, AsyncStarted
    <2>4. server[m.instance] \in {"drained", "exited"} => m.found = "drained"
      BY <2>1, <2>2 DEF Serving
    <2>5. async \subseteq Calls
      BY <1>0 DEF TypeOK
    <2> QED
      BY <2>3, <2>4, <2>5 DEF DrainInv, NothingLostOnShutdown
  <1>2. ASSUME NEW c \in Calls, Handle(c)
        PROVE  DrainInv'
    <2>1. /\ pc[c] \in Handling /\ UNCHANGED <<msg, server>>
          /\ \E step \in Handling \cup {"done"} : Goto(c, step)
      BY <1>2 DEF Handle, Validate, Load, Retry, Watch, ReadHash, Exec, CheckFails,
                  Timing, Match, PublishV1, PublishV2, Save, Handling
    <2>2. \A d \in async' : d \in async \/ msg[d].version = "v2"
      BY <1>2 DEF Handle, Validate, Load, Retry, Watch, ReadHash, Exec, CheckFails,
                  Timing, Match, PublishV1, PublishV2, Save
    <2>3. /\ pc'[c] \in Handling \cup {"done"}
          /\ \A d \in Calls : d # c => pc'[d] = pc[d]
      BY <1>0, <2>1 DEF Goto, TypeOK
    <2> QED
      BY <2>1, <2>2, <2>3 DEF DrainInv, NothingLostOnShutdown, Handling
  <1>3. ASSUME NEW c \in Calls, AsyncPublish(c)
        PROVE  DrainInv'
    <2>1. async' \subseteq async /\ UNCHANGED <<pc, msg, server>>
      BY <1>3 DEF AsyncPublish
    <2> QED
      BY <2>1 DEF DrainInv, NothingLostOnShutdown
  <1>4. ASSUME NEW i \in Instances, Stop(i) \/ Drain(i)
        PROVE  DrainInv'
    <2>1. /\ UNCHANGED <<pc, msg, async>>
          /\ \A j \in Instances : j # i => server'[j] = server[j]
          /\ \/ server'[i] = "stopping"
             \/ Busy(i) = {}
      BY <1>0, <1>4 DEF Stop, Drain, TypeOK
    <2>2. \A c \in Calls : pc[c] \in Handling => msg[c].instance \in Instances
      BY <1>0, RequestFields DEF Handling
    <2> QED
      BY <2>1, <2>2 DEF DrainInv, NothingLostOnShutdown, Busy
  <1>5. ASSUME NEW i \in Instances, Exit(i)
        PROVE  DrainInv'
    <2>1. /\ server[i] = "drained" /\ msg' = msg /\ async' \subseteq async
          /\ \A j \in Instances : j # i => server'[j] = server[j]
          /\ \A c \in Calls :
               pc'[c] = IF c \in Busy(i) \/ (c \in async /\ msg[c].instance = i)
                        THEN "cut" ELSE pc[c]
      BY <1>0, <1>5 DEF Exit, TypeOK
    <2>2. \A c \in Calls : pc[c] \in Handling => msg[c].instance \in Instances
      BY <1>0, RequestFields DEF Handling
    <2>3. NothingLostOnShutdown'
      BY <2>1 DEF DrainInv, NothingLostOnShutdown, Busy
    <2>4. ASSUME NEW c \in Calls, pc'[c] \in Handling
          PROVE  pc[c] \in Handling /\ msg[c].instance # i
      BY <2>1, <2>4 DEF Busy, Handling
    <2> QED
      BY <2>1, <2>2, <2>3, <2>4 DEF DrainInv
  <1>6. CASE UNCHANGED vars
    BY <1>6 DEF vars, DrainInv, NothingLostOnShutdown
  <1> QED
    BY <1>1, <1>2, <1>3, <1>4, <1>5, <1>6 DEF Next

(***************************************************************************)
(* StopServer: when the process of an instance ends, every V1 call that    *)
(* came before the wait for the calls in flight was over has been handled  *)
(* to its end.                                                             *)
(***************************************************************************)
THEOREM ShutdownLosesNothing == Spec => []NothingLostOnShutdown
  <1>1. Init => LedgerInv /\ DrainInv
    BY InitLedger DEF Init, DrainInv, NothingLostOnShutdown, Handling
  <1>2. LedgerInv /\ DrainInv /\ [Next]_vars => (LedgerInv /\ DrainInv)'
    BY NextLedger, DrainStep
  <1>3. DrainInv => NothingLostOnShutdown
    BY DEF DrainInv
  <1> QED
    BY <1>1, <1>2, <1>3, PTL DEF Spec
=============================================================================
