------------------------ MODULE HeaderToPayloadProofs ------------------------
(***************************************************************************)
(* The timing of getHeader, for every configuration of cutoff, target and  *)
(* safety margin, any number of calls and no bound on time.  A header that *)
(* was served can be unblinded while the stores work, and a payload that   *)
(* was recorded is found while the database does: for any number of calls  *)
(* and submissions and every fork.                                         *)
(***************************************************************************)
EXTENDS HeaderToPayload, TLAPS

-----------------------------------------------------------------------------
(* The timing of getHeader *)

Margin(c) == until[c] + Safety <= SlotStart(slot[c]) + Target

(***************************************************************************)
(* The inductive invariant, for one call.  The bounds on the time of an    *)
(* answer come from bounds on the clock while the call is about to read,   *)
(* which hold because a call that is due reads before the clock moves on.  *)
(***************************************************************************)
CallInv(c) ==
    /\ pc[c] = "sleep" => /\ Margin(c) /\ now <= until[c]
                          /\ deadline[c] # NoDeadline => until[c] + Safety <= deadline[c]
    /\ pc[c] = "read" /\ Cutoff > 0 =>
          \/ now <= SlotStart(slot[c]) + Cutoff
          \/ now <= SlotStart(slot[c]) + Target - Safety
    /\ pc[c] = "read" /\ force204 => now <= stopAt \/ (now = until[c] /\ Margin(c))
    /\ pc[c] # "done" => answer[c] = "none"
    /\ answer[c] = "bid" /\ Cutoff > 0 =>
          \/ answeredAt[c] <= SlotStart(slot[c]) + Cutoff
          \/ answeredAt[c] <= SlotStart(slot[c]) + Target - Safety
    /\ answer[c] = "bid" /\ force204 =>
          answeredAt[c] <= stopAt \/ (answeredAt[c] = until[c] /\ Margin(c))
    /\ answeredAt[c] <= now

TimingInv == /\ TypeOK
             /\ force204 => stopAt # Never
             /\ stopAt = Never \/ stopAt <= now
             /\ \A c \in Calls : CallInv(c)

\* Slots start at natural times.
LEMMA SlotStartNat == \A s \in Nat : SlotStart(s) \in Nat
BY TimeAssumption DEF SlotStart

\* The delay ends a safety margin before the target and the client's deadline.
LEMMA DelayEnds ==
    ASSUME NEW ua, NEW s \in Nat, NEW t \in Nat, NEW d \in Nat \cup {NoDeadline}
    PROVE  /\ Delay(ua, s, t, d) \in Nat
           /\ Delay(ua, s, t, d) > 0 =>
                 /\ t + Delay(ua, s, t, d) + Safety <= SlotStart(s) + Target
                 /\ d # NoDeadline => t + Delay(ua, s, t, d) + Safety <= d
<1> SlotStart(s) \in Nat
  BY SlotStartNat
<1> QED
  BY TimeAssumption DEF Delay, Cap, NoDeadline

\* No call has begun.
LEMMA TimingInit == Init => TimingInv
<1> SUFFICES ASSUME Init PROVE TimingInv
  OBVIOUS
<1>1. TypeOK
  BY Zenon DEF Init, TypeOK, Never, NoDeadline
<1>2. ASSUME NEW c \in Calls PROVE CallInv(c)
  <2> pc[c] = "idle" /\ answer[c] = "none" /\ answeredAt[c] = 0 /\ now \in Nat
    BY <1>1 DEF Init, TypeOK
  <2> QED
    BY DEF CallInv
<1> QED
  BY <1>1, <1>2 DEF Init, TimingInv, Never

\* A step that changes neither the clock and the flags nor a call keeps the
\* invariant of that call.
LEMMA CallUntouched ==
    ASSUME NEW c \in Calls, CallInv(c), UNCHANGED <<now, stopAt, force204>>,
           pc'[c] = pc[c], slot'[c] = slot[c], deadline'[c] = deadline[c],
           until'[c] = until[c], answer'[c] = answer[c], answeredAt'[c] = answeredAt[c]
    PROVE  CallInv(c)'
BY DEF CallInv, Margin

\* Every step of a call, of the clock, of the head and of StopServer keeps it.
LEMMA TimingNext == TimingInv /\ [Next]_vars => TimingInv'
<1> SUFFICES ASSUME TimingInv, [Next]_vars PROVE TimingInv'
  OBVIOUS
<1> USE TimeAssumption, SlotStartNat DEF TimingInv
<1>1. CASE Tick
  <2>1. TypeOK'
    BY <1>1 DEF Tick, TypeOK
  <2>2. ASSUME NEW c \in Calls PROVE CallInv(c)'
    BY <1>1, <2>2 DEF Tick, Due, TypeOK, CallInv, Margin
  <2> QED
    BY <1>1, <2>1, <2>2 DEF Tick, TypeOK, Never
<1>2. CASE StopServer
  <2>1. TypeOK'
    BY <1>2 DEF StopServer, TypeOK
  <2>2. ASSUME NEW c \in Calls PROVE CallInv(c)'
    BY <1>2, <2>2 DEF StopServer, TypeOK, CallInv, Margin
  <2> QED
    BY <1>2, <2>1, <2>2 DEF StopServer, TypeOK, Never
<1>3. ASSUME NEW s \in Nat, NewHead(s) PROVE TimingInv'
  <2>1. TypeOK'
    BY <1>3 DEF NewHead, TypeOK
  <2>2. ASSUME NEW c \in Calls PROVE CallInv(c)'
    BY <1>3, <2>2, CallUntouched DEF NewHead
  <2> QED
    BY <1>3, <2>1, <2>2 DEF NewHead
<1>4. ASSUME NEW c \in Calls, NEW s \in Nat, NEW ua \in Agents,
             NEW d \in Nat \cup {NoDeadline}, Arrive(c, s, ua, d)
      PROVE  TimingInv'
  <2> DEFINE delay == Delay(ua, s, now, d)
  <2>1. /\ delay \in Nat
        /\ delay > 0 => /\ now + delay + Safety <= SlotStart(s) + Target
                        /\ d # NoDeadline => now + delay + Safety <= d
    BY DelayEnds DEF TypeOK
  <2>2. /\ slot' = [slot EXCEPT ![c] = s]
        /\ deadline' = [deadline EXCEPT ![c] = d]
        /\ until' = [until EXCEPT ![c] = now + delay]
        /\ UNCHANGED <<now, head, stopAt, force204>>
    BY <1>4 DEF Arrive
  <2>3. \/ \E a \in {"400", "204"} : Answer(c, a)
        \/ /\ ~force204 /\ ~TooLate(s)
           /\ pc' = [pc EXCEPT ![c] = IF delay > 0 THEN "sleep" ELSE "read"]
           /\ UNCHANGED <<answer, answeredAt>>
    <3> DEFINE refuses == ua = "refused" \/ force204 \/ TooLate(s)
    <3>1. CASE s < head
      BY <1>4, <3>1 DEF Arrive, TypeOK
    <3>2. CASE s >= head /\ refuses
      BY <1>4, <3>2 DEF Arrive, TypeOK
    <3>3. CASE s >= head /\ ~refuses
      BY <1>4, <3>3 DEF Arrive, TypeOK
    <3> QED
      BY <3>1, <3>2, <3>3 DEF TypeOK
  <2> HIDE DEF delay
  <2>4. TypeOK'
    BY <2>1, <2>2, <2>3 DEF TypeOK, Answer
  <2>5. CallInv(c)'
    <3> /\ slot'[c] = s /\ deadline'[c] = d /\ until'[c] = now + delay
        /\ now' = now /\ stopAt' = stopAt /\ force204' = force204 /\ now \in Nat
        /\ SlotStart(s) \in Nat /\ answer[c] = "none" /\ answeredAt[c] <= now
      BY <1>4, <2>2 DEF Arrive, TypeOK, CallInv
    <3>1. CASE \E a \in {"400", "204"} : Answer(c, a)
      <4> pc'[c] = "done" /\ answer'[c] # "bid" /\ answeredAt'[c] = now
        BY <3>1 DEF Answer, TypeOK
      <4> QED
        BY DEF CallInv
    <3>2. CASE /\ ~force204 /\ ~TooLate(s)
               /\ pc' = [pc EXCEPT ![c] = IF delay > 0 THEN "sleep" ELSE "read"]
               /\ UNCHANGED <<answer, answeredAt>>
      <4>1. /\ pc'[c] = (IF delay > 0 THEN "sleep" ELSE "read")
            /\ answer'[c] = "none" /\ answeredAt'[c] = answeredAt[c]
        BY <3>2 DEF TypeOK
      <4>2. Cutoff > 0 => now <= SlotStart(s) + Cutoff
        BY <3>2 DEF TooLate
      <4>3. CASE delay > 0
        BY <2>1, <4>1, <4>3 DEF CallInv, Margin, NoDeadline
      <4>4. CASE delay = 0
        BY <3>2, <4>1, <4>2, <4>4 DEF CallInv
      <4> QED
        BY <2>1, <4>3, <4>4
    <3> QED
      BY <2>3, <3>1, <3>2
  <2>6. ASSUME NEW e \in Calls, e # c PROVE CallInv(e)'
    BY <2>2, <2>3, <2>6, CallUntouched DEF TypeOK, Answer
  <2> QED
    BY <2>2, <2>4, <2>5, <2>6
<1>5. ASSUME NEW c \in Calls, Wake(c) PROVE TimingInv'
  <2>1. TypeOK'
    BY <1>5 DEF Wake, TypeOK
  <2>2. CallInv(c)'
    BY <1>5 DEF Wake, TypeOK, CallInv, Margin
  <2>3. ASSUME NEW e \in Calls, e # c PROVE CallInv(e)'
    BY <1>5, <2>3, CallUntouched DEF Wake, TypeOK
  <2> QED
    BY <1>5, <2>1, <2>2, <2>3 DEF Wake
<1>6. ASSUME NEW c \in Calls, Leave(c) PROVE TimingInv'
  <2>1. TypeOK'
    BY <1>6 DEF Leave, Answer, TypeOK
  <2>2. CallInv(c)'
    BY <1>6 DEF Leave, Answer, TypeOK, CallInv, Margin
  <2>3. ASSUME NEW e \in Calls, e # c PROVE CallInv(e)'
    BY <1>6, <2>3, CallUntouched DEF Leave, Answer, TypeOK
  <2> QED
    BY <1>6, <2>1, <2>2, <2>3 DEF Leave
<1>7. ASSUME NEW c \in Calls, NEW a \in {"bid", "204", "400"}, Read(c, a)
      PROVE  TimingInv'
  <2>1. TypeOK'
    BY <1>7 DEF Read, Answer, TypeOK
  <2>2. CallInv(c)'
    BY <1>7 DEF Read, Answer, TypeOK, CallInv, Margin
  <2>3. ASSUME NEW e \in Calls, e # c PROVE CallInv(e)'
    BY <1>7, <2>3, CallUntouched DEF Read, Answer, TypeOK
  <2> QED
    BY <1>7, <2>1, <2>2, <2>3 DEF Read
<1>8. CASE UNCHANGED vars
  <2>1. TypeOK'
    BY <1>8 DEF vars, TypeOK
  <2>2. ASSUME NEW c \in Calls PROVE CallInv(c)'
    BY <1>8, <2>2, CallUntouched DEF vars
  <2> QED
    BY <1>8, <2>1, <2>2 DEF vars
<1> QED
  BY <1>1, <1>2, <1>3, <1>4, <1>5, <1>6, <1>7, <1>8 DEF Next

(***************************************************************************)
(* computeGetHeaderDelay never makes a call sleep into the safety margin   *)
(* before the target or the client's deadline; a bid is handed out by the  *)
(* cutoff or by the end of the longest delay; and after StopServer only    *)
(* calls that slept get one.                                               *)
(***************************************************************************)
THEOREM TimingCorrect ==
    Spec => [](DelayLeavesMargin /\ ServedInTime /\ BidsEndAfterStop)
<1>1. TimingInv => DelayLeavesMargin /\ ServedInTime /\ BidsEndAfterStop
  BY TimeAssumption, SlotStartNat
  DEF TimingInv, TypeOK, CallInv, Margin, DelayLeavesMargin, ServedInTime, BidsEndAfterStop
<1> QED
  BY <1>1, TimingInit, TimingNext, PTL DEF Spec

-----------------------------------------------------------------------------
(* The composition implements GetHeader *)

\* The auction begins one slot before its slot, at a natural time.
LEMMA StartOfAuction ==
    ASSUME NEW x \in Scenarios
    PROVE  /\ x.slot \in Nat \ {0} /\ x.slot - 1 \in Nat
           /\ SlotStart(x.slot) \in Nat
           /\ SlotStart(x.slot) - SlotMs \in Nat
           /\ SlotStart(x.slot - 1) = SlotStart(x.slot) - SlotMs
<1>1. x.slot \in Nat \ {0}
  BY StoreAssumption DEF Scenario
<1>2. PICK n \in Nat : x.slot = n + 1
  <2> x.slot - 1 \in Nat /\ x.slot = (x.slot - 1) + 1
    BY <1>1
  <2> QED
    OBVIOUS
<1>3. n * SlotMs \in Nat /\ (n + 1) * SlotMs = n * SlotMs + SlotMs
  BY TimeAssumption
<1> QED
  BY <1>1, <1>2, <1>3, TimeAssumption DEF SlotStart

\* The composition starts in a state in which GetHeader starts.
LEMMA ImplInit == HInit => Init
BY StartOfAuction DEF HInit, Init, Start, auction

Chosen == scenario \in Scenarios

\* The steps of a submission and of getPayload
SubmissionStep(s) ==
    \/ \E name \in Names, unchecked, whole \in BOOLEAN :
          Submit(s, name, unchecked, whole)
    \/ \E t \in {s, "floor"} \cup {x \in Submissions : bidUntil[x] > 0},
          firm \in BOOLEAN, reached \in {"top", "expire", "floor", "end"} :
          Save(s, t, firm, reached)
    \/ Drop(s) \/ SaveMemcached(s)
    \/ \E ok \in BOOLEAN : SaveRow(s, ok)

PayloadStep(c) ==
    \/ Finish(c)
    \/ \E recognised \in BOOLEAN : Ask(c, recognised)
    \/ \E failing \in SUBSET {"redis", "memcached", "database"} : Load(c, failing)

CallStep(c) ==
    \E ua \in Agents, d \in {NoDeadline} \cup {Start + x : x \in scenario.deadlines} :
        Call(c, ua, d)

\* A step is one of the clock and its environment, of a submission, or of a call.
LEMMA StepCases ==
    ASSUME [HNext]_allVars
    PROVE  \/ HTick \/ Environment \/ LoseRedis
           \/ \E s \in Submissions : SubmissionStep(s)
           \/ \E c \in Calls : CallStep(c) \/ ReadBest(c) \/ PayloadStep(c)
           \/ UNCHANGED allVars
BY Zenon DEF HNext, SubmissionStep, PayloadStep, CallStep

\* Submissions, getPayload and the loss of keys do not touch getHeader.
LEMMA StoreStepsUntouched ==
    /\ LoseRedis => UNCHANGED <<getHeaderVars, scenario>>
    /\ \A s : SubmissionStep(s) => UNCHANGED <<getHeaderVars, scenario>>
    /\ \A c : PayloadStep(c) => UNCHANGED <<getHeaderVars, scenario>>
<1>1. LoseRedis => UNCHANGED <<getHeaderVars, scenario>>
  BY DEF LoseRedis
<1>2. ASSUME NEW s, SubmissionStep(s) PROVE UNCHANGED <<getHeaderVars, scenario>>
  BY <1>2, Zenon DEF SubmissionStep, Submit, Save, Drop, SaveMemcached, SaveRow
<1>3. ASSUME NEW c, PayloadStep(c) PROVE UNCHANGED <<getHeaderVars, scenario>>
  BY <1>3 DEF PayloadStep, Ask, Load, Finish
<1> QED
  BY <1>1, <1>2, <1>3

\* No step changes the scenario.
LEMMA ChosenOnce == [HNext]_allVars => UNCHANGED scenario
<1> SUFFICES ASSUME [HNext]_allVars PROVE UNCHANGED scenario
  OBVIOUS
<1>1. HTick \/ Environment => UNCHANGED scenario
  BY DEF HTick, Environment, others
<1>2. ASSUME NEW c PROVE CallStep(c) \/ ReadBest(c) => UNCHANGED scenario
  BY DEF CallStep, Call, ReadBest, others
<1>3. UNCHANGED allVars => UNCHANGED scenario
  BY DEF allVars
<1> QED
  BY <1>1, <1>2, <1>3, StepCases, StoreStepsUntouched

\* Every step is a step of GetHeader or leaves its variables alone.
LEMMA ImplNext == Chosen /\ [HNext]_allVars => [Next]_vars
<1> SUFFICES ASSUME Chosen, [HNext]_allVars PROVE [Next]_vars
  OBVIOUS
<1> USE DEF Chosen
<1>1. CASE HTick
  BY <1>1 DEF HTick, Next
<1>2. CASE Environment
  <2>1. auction \in Nat
    BY StartOfAuction DEF auction
  <2> QED
    BY <1>2, <2>1 DEF Environment, Next
<1>3. ASSUME NEW c \in Calls, NEW ua \in Agents,
             NEW d \in {NoDeadline} \cup {Start + x : x \in scenario.deadlines},
             Call(c, ua, d)
      PROVE  Next
  <2>1. auction \in Nat /\ Start \in Nat
    BY StartOfAuction DEF auction, Start
  <2>2. d \in Nat \cup {NoDeadline}
    <3> scenario.deadlines \subseteq Nat
      BY StoreAssumption DEF Scenario
    <3> QED
      BY <2>1
  <2> QED
    BY <1>3, <2>1, <2>2 DEF Call, Next
<1>4. ASSUME NEW c \in Calls, ReadBest(c) PROVE Next
  BY <1>4 DEF ReadBest, Next
<1>5. CASE UNCHANGED getHeaderVars
  BY <1>5 DEF getHeaderVars, vars
<1>6. CASE UNCHANGED allVars
  BY <1>6 DEF allVars, vars
<1> QED
  BY <1>1, <1>2, <1>3, <1>4, <1>5, <1>6, StepCases, StoreStepsUntouched DEF CallStep

(***************************************************************************)
(* Every behaviour of the composition is one of getHeader as GetHeader     *)
(* describes it; the timing theorem carries over.                          *)
(***************************************************************************)
THEOREM ImplementsGetHeader == HSpec => Spec
<1>1. Chosen /\ [HNext]_allVars => Chosen'
  BY ChosenOnce DEF Chosen
<1>2. HInit => Chosen
  BY DEF HInit, Chosen
<1> QED
  BY <1>1, <1>2, ImplInit, ImplNext, PTL DEF HSpec, Spec

\* What the timing theorem says of GetHeader holds of the composition.
LEMMA CallsKeepTime ==
    HSpec => [](DelayLeavesMargin /\ ServedInTime /\ BidsEndAfterStop)
BY ImplementsGetHeader, TimingCorrect, PTL

\* computeGetHeaderDelay: no call sleeps into the safety margin before the
\* target or the client's deadline.
THEOREM DelayEndsInTime == HSpec => []DelayLeavesMargin
BY CallsKeepTime, PTL

\* handleGetHeader: no bid is handed out after both the cutoff and the end of
\* the longest delay, although the cutoff is checked before the delay.
THEOREM NoLateBid == HSpec => []ServedInTime
BY CallsKeepTime, PTL

\* StopServer with bids stopped: only calls asleep when the flag was set are
\* still answered with a bid, at the end of their sleep.
THEOREM LastBidIsBounded == HSpec => []BidsEndAfterStop
BY CallsKeepTime, PTL

-----------------------------------------------------------------------------
(* What the conversions do for a known fork *)

Contents(f) == Versioned(f, BlockParts(f))
Header(f) == Versioned(f, {"header"} \cup Blobs(f) \cup ExecRequests(f))
Payload(f) == Versioned(f, {"payload"} \cup Blobs(f))

\* The switches over the version agree with each other on every fork.
LEMMA ForkSwitches ==
    ASSUME NEW f \in Forks
    PROVE  /\ f # "unknown" /\ Contents(f).version = f /\ Header(f).version = f
           /\ Payload(f) # Invalid
           /\ BuildGetHeaderResponse(Contents(f)) = Header(f)
           /\ GetPayloadContents({PayloadKey(f)}) = Payload(f)
           /\ DecodedBlindedBlock(f, Header(f)) = Header(f)
           /\ SignatureDomain(Header(f)) /\ SameContents(Header(f), Payload(f))
<1>1. f # "unknown" /\ Contents(f).version = f /\ Header(f).version = f
  BY DEF Forks, Contents, Header, Versioned
<1>2. Payload(f) # Invalid
  BY <1>1 DEF Payload, Versioned, Invalid
<1>3. BuildGetHeaderResponse(Contents(f)) = Header(f)
  BY <1>1 DEF BuildGetHeaderResponse, SignedBuilderBid, Header
<1>4. GetPayloadContents({PayloadKey(f)}) = Payload(f)
  <2>1. \A v \in Forks : PayloadKey(v) = PayloadKey(f) <=> v = f
    BY DEF Forks, PayloadKey
  <2>2. {v \in Forks : PayloadKey(v) \in {PayloadKey(f)}} = {f}
    BY <2>1
  <2>3. f \in {"capella", "deneb", "electra", "fulu"}
    BY DEF Forks
  <2> QED
    BY <2>2, <2>3 DEF GetPayloadContents, Payload
<1>5. DecodedBlindedBlock(f, Header(f)) = Header(f)
  BY DEF DecodedBlindedBlock, Header, Versioned
<1>6. SignatureDomain(Header(f)) /\ SameContents(Header(f), Payload(f))
  BY <1>1 DEF SignatureDomain, SameContents, Payload, Versioned
<1> QED
  BY <1>1, <1>2, <1>3, <1>4, <1>5, <1>6

\* Unblinding gives the whole block, or fails if the blobs do not fit.
LEMMA UnblindsFork ==
    ASSUME NEW f \in Forks, NEW whole \in BOOLEAN
    PROVE  \/ Unblinded(Header(f), Payload(f), whole) = Contents(f) /\ Contents(f) # Invalid
           \/ Unblinded(Header(f), Payload(f), whole) = Invalid /\ ~whole
<1>1. Header(f).version = f /\ Payload(f).version = f /\ f # "unknown"
  BY DEF Header, Payload, Versioned, Forks
<1>2. Contents(f) # Invalid
  BY <1>1 DEF Contents, Versioned, Invalid
<1>3. Payload(f).parts \cup (Header(f).parts \cap {"requests"}) = BlockParts(f)
  BY DEF Header, Payload, Versioned, BlockParts, Blobs, ExecRequests
<1> QED
  BY <1>1, <1>2, <1>3 DEF Unblinded, Contents

\* A submission that passes the version check has the contents of its slot.
LEMMA AdmittedContents ==
    ASSUME NEW s, NEW name, ForkFromSlot(s) \in Forks, DecodedRequest(name, s) # Invalid,
           VersionFits(s, DecodedRequest(name, s).version)
    PROVE  DecodedRequest(name, s) = Contents(ForkFromSlot(s))
<1>1. IsFork(s, ForkFromSlot(s))
  BY DEF ForkFromSlot, Forks
<1>2. DecodedRequest(name, s).version = ForkFromSlot(s)
  BY <1>1 DEF VersionFits
<1> QED
  BY <1>2, Zenon DEF DecodedRequest, Contents, Versioned

-----------------------------------------------------------------------------
(* The inductive invariant *)

Fork == ForkFromSlot(auction)
Reliable == fault \in {"none", "stop"}

Shape == /\ DOMAIN sub = Submissions /\ DOMAIN req = Submissions
         /\ DOMAIN payloadKey = Submissions /\ bidUntil \in [Submissions -> Nat]
         /\ \A k \in {top, floor} : k = [bid |-> k.bid, until |-> k.until] /\ k.until \in Nat
         /\ DOMAIN header = Calls /\ DOMAIN pay = Calls
         /\ DOMAIN late = Calls /\ DOMAIN result = Calls

\* The payload of s is in Redis as long as it may be asked for.
Held(s) == /\ s \in Submissions /\ sub[s] # "idle"
           /\ payloadKey[s].key = PayloadKey(Fork)
           /\ payloadKey[s].until \in Nat /\ payloadKey[s].until > Start + PayloadCutoff
           /\ req[s].value = Contents(Fork)
           /\ req[s].whole \in BOOLEAN
           /\ req[s].unchecked \/ req[s].whole

SubmissionInv(s) == /\ sub[s] \notin {"idle", "refused"} =>
                          req[s].value = Contents(Fork) /\ req[s].whole \in BOOLEAN
                    /\ bidUntil[s] > 0 => Held(s)

PayloadInv(c) ==
    /\ answer[c] = "bid" => Held(header[c].bid) /\ header[c].value = Header(Fork)
    /\ pay[c] # "idle" => answer[c] = "bid"
    /\ ~late[c] =>
          /\ pay[c] \in {"idle", "unrecognised", "load", "loaded", "internal", "delivered"}
          /\ pay[c] = "load" => now <= Start + PayloadCutoff
          /\ pay[c] = "loaded" => result[c] = Payload(Fork)
          /\ pay[c] = "internal" => /\ req[header[c].bid].unchecked
                                    /\ ~req[header[c].bid].whole
          /\ pay[c] = "delivered" => result[c] = Contents(Fork)

(***************************************************************************)
(* Every bid that is or can become the top one, and every header that was  *)
(* served, has its payload in Redis up to the cutoff.  Copies of a bid are *)
(* renewed, so that a bid may live longer than its payload; but a payload  *)
(* is stored at most a slot before the start.  A call that is not late     *)
(* loads before the cutoff, so it finds the payload.                       *)
(***************************************************************************)
HeldInv == /\ Chosen /\ Shape
           /\ Start - SlotMs <= now
           /\ Reliable =>
                 /\ \A s \in Submissions : SubmissionInv(s)
                 /\ \A k \in {top, floor} : k.until > 0 => Held(k.bid)
                 /\ \A c \in Calls : PayloadInv(c)

\* A key that outlives the cutoff is there before the cutoff.
LEMMA Outlives ==
    ASSUME NEW start \in Nat, NEW cutoff \in Nat, NEW time \in Nat, NEW end \in Nat,
           end > start + cutoff, time <= start + cutoff
    PROVE  end > time
OBVIOUS

\* Nothing is stored or served yet.
LEMMA HeldInit == HInit => HeldInv
<1> SUFFICES ASSUME HInit PROVE HeldInv
  OBVIOUS
<1>1. Chosen /\ Shape
  BY DEF HInit, Chosen, Shape, NoBid
<1>2. Start \in Nat /\ now = Start - SlotMs
  BY StartOfAuction DEF HInit, Start, auction
<1>3. Start - SlotMs <= now
  BY <1>2, TimeAssumption, StoreAssumption
<1>4. ASSUME NEW s \in Submissions PROVE SubmissionInv(s)
  BY DEF HInit, SubmissionInv
<1>5. ASSUME NEW k \in {top, floor} PROVE ~(k.until > 0)
  BY DEF HInit, NoBid
<1>6. ASSUME NEW c \in Calls PROVE PayloadInv(c)
  BY DEF HInit, PayloadInv
<1> QED
  BY <1>1, <1>3, <1>4, <1>5, <1>6 DEF HeldInv

\* A step that leaves the submissions and the bids alone, and the served and
\* loaded parts of a call, keeps what is said of them.
LEMMA HeldKept ==
    ASSUME NEW s, Held(s), UNCHANGED <<scenario, payloadKey, req>>,
           sub'[s] = sub[s] \/ sub'[s] # "idle"
    PROVE  Held(s)'
BY DEF Held, Fork, Start, auction

\* A step that leaves the keys and submissions alone keeps what is held.
LEMMA BidsKept ==
    ASSUME HeldInv, Reliable, UNCHANGED <<scenario, bidVars, req, sub>>
    PROVE  /\ \A s : Held(s) => Held(s)'
           /\ \A s \in Submissions : SubmissionInv(s)'
           /\ \A k \in {top', floor'} : k.until > 0 => Held(k.bid)'
<1>1. \A s : Held(s) => Held(s)'
  BY HeldKept DEF bidVars
<1>2. ASSUME NEW s \in Submissions PROVE SubmissionInv(s)'
  BY <1>1, <1>2 DEF HeldInv, SubmissionInv, bidVars, Fork, auction
<1>3. ASSUME NEW k \in {top', floor'}, k.until > 0 PROVE Held(k.bid)'
  BY <1>1, <1>3 DEF HeldInv, bidVars
<1> QED
  BY <1>1, <1>2, <1>3

\* A step of something else keeps what is known of a call.
LEMMA CallKept ==
    ASSUME NEW c \in Calls, PayloadInv(c), \A s : Held(s) => Held(s)',
           UNCHANGED scenario, answer'[c] = answer[c], header'[c] = header[c],
           pay'[c] = pay[c], late'[c] = late[c], result'[c] = result[c],
           pay[c] = "load" => now' = now,
           answer[c] = "bid" => req'[header[c].bid] = req[header[c].bid]
    PROVE  PayloadInv(c)'
BY DEF PayloadInv, Fork, Start, auction

\* The parts of the invariant that do not depend on the stores working
LEMMA FrameNext ==
    ASSUME HeldInv, TimingInv, [HNext]_allVars
    PROVE  /\ Chosen' /\ UNCHANGED scenario /\ Start' = Start
           /\ Start \in Nat /\ Fork \in Forks /\ now \in Nat
           /\ (Start - SlotMs <= now)'
<1>1. Chosen' /\ UNCHANGED scenario /\ Start' = Start
  BY ChosenOnce DEF HeldInv, Chosen, Start, auction
<1>2. Start \in Nat /\ Fork \in Forks /\ now \in Nat
  BY StartOfAuction, AuctionAssumption
  DEF HeldInv, Chosen, Start, Fork, auction, TimingInv, TypeOK
<1>3. \/ now' = now
      \/ now' = now + 1
  <2>1. HTick => now' = now + 1
    BY DEF HTick, Tick
  <2>2. Environment => now' = now
    BY DEF Environment, StopServer, NewHead, Wake, Leave
  <2>3. \A c : CallStep(c) \/ ReadBest(c) => now' = now
    BY DEF CallStep, Call, Arrive, ReadBest, Read
  <2>4. UNCHANGED getHeaderVars \/ UNCHANGED allVars => now' = now
    BY DEF getHeaderVars, allVars
  <2> QED
    BY <2>1, <2>2, <2>3, <2>4, StepCases, StoreStepsUntouched
<1>4. (Start - SlotMs <= now)'
  BY <1>1, <1>2, <1>3, TimeAssumption, StoreAssumption DEF HeldInv
<1> QED
  BY <1>1, <1>2, <1>4

\* Which variables are functions over submissions and calls does not change.
LEMMA ShapeNext ==
    ASSUME HeldInv, TimingInv, [HNext]_allVars
    PROVE  Shape'
<1> now \in Nat
  BY FrameNext
<1> Shape
  BY DEF HeldInv
<1>1. ASSUME UNCHANGED <<sub, req, bidVars>>, UNCHANGED payVars, UNCHANGED header
      PROVE  Shape'
  BY <1>1 DEF Shape, bidVars, payVars
<1>2. HTick \/ Environment => Shape'
  BY <1>1 DEF HTick, Environment, others
<1>3. ASSUME NEW c \in Calls, CallStep(c) \/ ReadBest(c) PROVE Shape'
  BY <1>3 DEF CallStep, Call, ReadBest, others, Shape, bidVars, payVars
<1>4. LoseRedis => Shape'
  BY DEF LoseRedis, Shape, payVars, NoBid
<1>5. ASSUME NEW s \in Submissions, SubmissionStep(s) PROVE Shape'
  <2>1. ASSUME NEW t \in {s, "floor"} \cup {x \in Submissions : bidUntil[x] > 0},
               NEW firm \in BOOLEAN, NEW reached, Save(s, t, firm, reached)
        PROVE  Shape'
    <3> DEFINE ends == [bidUntil EXCEPT ![s] = now + Expiry]
               own == [bid |-> s, until |-> ends[s]]
               best == IF t = "floor" THEN floor ELSE [bid |-> t, until |-> ends[t]]
    <3>1. now + Expiry \in Nat /\ ends \in [Submissions -> Nat]
      BY StoreAssumption DEF Shape
    <3>2. \A k \in {own, best} : k = [bid |-> k.bid, until |-> k.until] /\ k.until \in Nat
      BY <3>1 DEF Shape
    <3>3. ASSUME NEW k \in {own, best}, NEW renewed \in BOOLEAN
          PROVE  /\ Copied(k, renewed) = [bid |-> k.bid, until |-> Copied(k, renewed).until]
                 /\ Copied(k, renewed).until \in Nat
                 /\ Copied(k, renewed).bid = k.bid
      <4> k = [bid |-> k.bid, until |-> k.until] /\ k.until \in Nat
        BY <3>2
      <4> QED
        BY <3>1 DEF Copied
    <3>4. top' \in {top, Copied(best, TRUE), Copied(best, FALSE)}
      BY <2>1, Zenon DEF Save
    <3>5. floor' \in {floor, Copied(own, TRUE), Copied(own, FALSE)}
      BY <2>1, Zenon DEF Save
    <3>6. bidUntil' = ends /\ DOMAIN payloadKey' = Submissions /\ DOMAIN sub' = Submissions
          /\ UNCHANGED <<req, header, payVars>>
      BY <2>1 DEF Save, Goto, Shape
    <3> HIDE DEF ends, own, best
    <3>7. \A k \in {top', floor'} : k = [bid |-> k.bid, until |-> k.until] /\ k.until \in Nat
      BY <3>3, <3>4, <3>5, Zenon DEF Shape
    <3> QED
      BY <3>1, <3>6, <3>7 DEF Shape, payVars
  <2>2. ASSUME NEW name \in Names, NEW o \in BOOLEAN, NEW w \in BOOLEAN, Submit(s, name, o, w)
        PROVE  Shape'
    BY <2>2 DEF Submit, Goto, Shape, bidVars, payVars
  <2>3. Drop(s) => Shape'
    BY DEF Drop, Goto, Shape, bidVars, payVars
  <2>4. SaveMemcached(s) => Shape'
    BY <1>1 DEF SaveMemcached
  <2>5. ASSUME NEW ok \in BOOLEAN, SaveRow(s, ok) PROVE Shape'
    BY <2>5 DEF SaveRow, Goto, Shape, bidVars, payVars
  <2> QED
    BY <1>5, <2>1, <2>2, <2>3, <2>4, <2>5 DEF SubmissionStep
<1>6. ASSUME NEW c \in Calls, PayloadStep(c) PROVE Shape'
  BY <1>6 DEF PayloadStep, Ask, Load, Finish, Shape, bidVars
<1>7. UNCHANGED allVars => Shape'
  BY <1>1 DEF allVars, bidVars, payVars
<1> QED
  BY <1>2, <1>3, <1>4, <1>5, <1>6, <1>7, StepCases

StoresInv == /\ \A s \in Submissions : SubmissionInv(s)
             /\ \A k \in {top, floor} : k.until > 0 => Held(k.bid)
             /\ \A c \in Calls : PayloadInv(c)

Steps == {"refused", "simulate", "record", "done"}

\* A step of one submission, whose request stays as it was unless it is new
LEMMA SubmissionKept ==
    ASSUME HeldInv, TimingInv, Reliable, StoresInv, NEW s \in Submissions,
           [HNext]_allVars, SubmissionStep(s), UNCHANGED <<bidVars, payVars, header>>,
           \/ /\ req' = req /\ \E step \in Steps : sub' = [sub EXCEPT ![s] = step]
              /\ sub[s] \notin {"idle", "refused"}
           \/ /\ sub[s] = "idle"
              /\ \E r : req' = [req EXCEPT ![s] = r]
              /\ \E step \in Steps : sub' = [sub EXCEPT ![s] = step]
              /\ sub'[s] # "refused" => /\ req'[s].value = Contents(Fork)
                                        /\ req'[s].whole \in BOOLEAN
    PROVE  StoresInv'
<1>1. Shape /\ UNCHANGED scenario /\ UNCHANGED getHeaderVars
  BY FrameNext, StoreStepsUntouched DEF HeldInv
<1>2. ASSUME NEW x, Held(x) PROVE Held(x)' /\ req'[x] = req[x]
  BY <1>1, <1>2 DEF Held, Shape, bidVars, Fork, Start, auction, Steps
<1>3. ASSUME NEW x \in Submissions PROVE SubmissionInv(x)'
  BY <1>1, <1>2 DEF StoresInv, SubmissionInv, Shape, bidVars, Fork, auction, Steps
<1>4. ASSUME NEW k \in {top', floor'}, k.until > 0 PROVE Held(k.bid)'
  BY <1>2, <1>4 DEF StoresInv, bidVars
<1>5. ASSUME NEW c \in Calls PROVE PayloadInv(c)'
  <2>1. answer[c] = "bid" => req'[header[c].bid] = req[header[c].bid]
    BY <1>2, Zenon DEF StoresInv, PayloadInv
  <2> QED
    BY <1>1, <1>2, <2>1, CallKept DEF StoresInv, getHeaderVars, payVars
<1> QED
  BY <1>3, <1>4, <1>5 DEF StoresInv

\* Save: payload, bid, top and floor
LEMMA SaveKeeps ==
    ASSUME HeldInv, TimingInv, Reliable, StoresInv, [HNext]_allVars,
           NEW s \in Submissions,
           NEW t \in {s, "floor"} \cup {x \in Submissions : bidUntil[x] > 0},
           NEW firm \in BOOLEAN, NEW reached, Save(s, t, firm, reached)
    PROVE  StoresInv'
<1> DEFINE ends == [bidUntil EXCEPT ![s] = now + Expiry]
           own == [bid |-> s, until |-> ends[s]]
           best == IF t = "floor" THEN floor ELSE [bid |-> t, until |-> ends[t]]
<1>1. /\ Shape /\ UNCHANGED scenario /\ UNCHANGED getHeaderVars /\ Start' = Start
      /\ Start \in Nat /\ Fork \in Forks /\ now \in Nat /\ Start - SlotMs <= now
  BY FrameNext DEF HeldInv, Save
<1>2. now + Expiry > Start + PayloadCutoff /\ now + Expiry \in Nat
  BY <1>1, TimeAssumption, StoreAssumption, AuctionAssumption
<1>3. req[s].value = Contents(Fork) /\ req[s].whole \in BOOLEAN
  BY Zenon DEF Save, StoresInv, SubmissionInv
<1>4. /\ payloadKey' = [payloadKey EXCEPT ![s] =
                           [key |-> PayloadKey(Fork), until |-> now + Expiry]]
      /\ req' = req /\ bidUntil' = ends /\ UNCHANGED <<header, payVars>>
      /\ \E step \in {"saved", "record"} : sub' = [sub EXCEPT ![s] = step]
      /\ req[s].unchecked \/ req[s].whole
  BY <1>1, <1>3, ForkSwitches, Zenon DEF Save, Goto, Accepted, PayloadUntil
<1>5. Held(s)'
  BY <1>1, <1>2, <1>3, <1>4 DEF Held, Shape, Fork, Start, auction
<1>6. ASSUME NEW x, Held(x) PROVE Held(x)'
  <2>1. CASE x = s
    BY <1>5, <2>1
  <2>2. CASE x # s
    BY <1>1, <1>4, <1>6, <2>2 DEF Held, Shape, Fork, Start, auction
  <2> QED
    BY <2>1, <2>2
<1>7. ASSUME NEW x \in Submissions PROVE SubmissionInv(x)'
  <2>1. CASE x = s
    BY <1>1, <1>3, <1>4, <1>5, <2>1 DEF SubmissionInv, Fork, auction
  <2>2. CASE x # s
    <3>1. /\ sub'[x] = sub[x] /\ req'[x] = req[x] /\ bidUntil'[x] = bidUntil[x]
          /\ Fork' = Fork
      BY <1>1, <1>4, <2>2 DEF Shape, Fork, auction
    <3> QED
      BY <1>6, <3>1, Zenon DEF StoresInv, SubmissionInv
  <2> QED
    BY <2>1, <2>2
<1>8. ASSUME NEW b, b = best.bid, best.until > now PROVE Held(b)'
  <2>1. CASE t = "floor"
    <3> floor.until > 0 /\ b = floor.bid
      BY <1>1, <1>8, <2>1 DEF Shape
    <3> QED
      BY <1>6 DEF StoresInv
  <2>2. CASE t # "floor" /\ t = s
    BY <1>5, <1>8, <2>2
  <2>3. CASE t # "floor" /\ t # s
    BY <1>6, <1>8, <2>3 DEF StoresInv, SubmissionInv
  <2> QED
    BY <2>1, <2>2, <2>3
<1>9. \/ top' = top
      \/ best.until > now /\ top'.bid = best.bid
  <2>1. Copied(best, TRUE).bid = best.bid /\ Copied(best, FALSE).bid = best.bid
    <3> best = [bid |-> best.bid, until |-> best.until]
      BY <1>1 DEF Shape
    <3> HIDE DEF best
    <3> QED
      BY DEF Copied
  <2> QED
    BY <2>1, Zenon DEF Save, Alive
<1>10. floor' = floor \/ floor'.bid = s
  BY DEF Save, Copied
<1>11. ASSUME NEW k \in {top', floor'}, k.until > 0 PROVE Held(k.bid)'
  <2>1. \/ k \in {top, floor} \/ k.bid = s
        \/ k.bid = best.bid /\ best.until > now
    BY <1>9, <1>10
  <2> HIDE DEF best, own
  <2> QED
    BY <1>5, <1>6, <1>8, <1>11, <2>1 DEF StoresInv
<1>12. ASSUME NEW c \in Calls PROVE PayloadInv(c)'
  BY <1>1, <1>4, <1>6, CallKept DEF StoresInv, getHeaderVars, payVars
<1> QED
  BY <1>7, <1>11, <1>12 DEF StoresInv

\* The steps of getPayload
LEMMA PayloadStepKeeps ==
    ASSUME HeldInv, TimingInv, Reliable, StoresInv, [HNext]_allVars,
           NEW c \in Calls, PayloadStep(c)
    PROVE  StoresInv'
<1>1. /\ Shape /\ UNCHANGED scenario /\ UNCHANGED getHeaderVars /\ Fork \in Forks
      /\ Start \in Nat /\ now \in Nat /\ Fork' = Fork /\ Start' = Start
  BY FrameNext, StoreStepsUntouched DEF HeldInv, Fork, auction
<1>2. UNCHANGED <<sub, req, bidVars, header>>
  BY DEF PayloadStep, Ask, Load, Finish
<1>3. /\ \A s : Held(s) => Held(s)'
      /\ \A s \in Submissions : SubmissionInv(s)'
      /\ \A k \in {top', floor'} : k.until > 0 => Held(k.bid)'
  BY <1>1, <1>2, BidsKept
<1>4. ASSUME NEW e \in Calls, e # c PROVE PayloadInv(e)'
  <2> pay'[e] = pay[e] /\ late'[e] = late[e] /\ result'[e] = result[e]
    BY <1>1, <1>4 DEF PayloadStep, Ask, Load, Finish, Shape
  <2> QED
    BY <1>1, <1>2, <1>3, CallKept DEF StoresInv, getHeaderVars
<1>5. PayloadInv(c)'
  <2> DEFINE h == header[c].bid
  <2>1. /\ answer[c] = "bid" => Held(h) /\ Held(h)' /\ header[c].value = Header(Fork)
        /\ answer' = answer /\ header' = header /\ req' = req
    BY <1>1, <1>2, <1>3 DEF StoresInv, PayloadInv, getHeaderVars
  <2>2. ASSUME NEW recognised \in BOOLEAN, Ask(c, recognised) PROVE PayloadInv(c)'
    <3>1. answer[c] = "bid" /\ pay'[c] \in {"load", "unrecognised"} /\ result' = result
      <4>1. PayloadVersionFits(auction, Fork, Fork)
        BY <1>1, ForkSwitches, Zenon DEF PayloadVersionFits, Fork
      <4>2. /\ header[c].value = Header(Fork) /\ Header(Fork).version = Fork
            /\ DecodedBlindedBlock(Fork, Header(Fork)) = Header(Fork)
            /\ SignatureDomain(Header(Fork)) /\ answer[c] = "bid"
        BY <1>1, <2>1, <2>2, ForkSwitches, Zenon DEF Ask
      <4> QED
        BY <1>1, <2>2, <4>1, <4>2 DEF Ask, Shape
    <3>2. ~late'[c] => now <= Start + PayloadCutoff
      <4>1. PayloadCutoff > 0 /\ now - Start > PayloadCutoff => late'[c]
        BY <1>1, <2>2, Zenon DEF Ask, Shape
      <4>2. now <= Start + PayloadCutoff \/ now - Start > PayloadCutoff
        BY <1>1, StoreAssumption
      <4> QED
        BY <4>1, <4>2, AuctionAssumption, Zenon
    <3>3. now' = now
      BY <1>1 DEF getHeaderVars
    <3> QED
      BY <1>1, <2>1, <3>1, <3>2, <3>3, Zenon DEF PayloadInv
  <2>3. ASSUME NEW failing \in SUBSET {"redis", "memcached", "database"}, Load(c, failing)
        PROVE  PayloadInv(c)'
    <3>1. /\ pay[c] \in {"load", "retry"} /\ answer[c] = "bid" /\ late' = late
          /\ ~late[c] => now <= Start + PayloadCutoff
      BY <2>3, Zenon DEF Load, StoresInv, PayloadInv
    <3> SUFFICES ASSUME ~late[c] PROVE PayloadInv(c)'
      BY <1>1, <2>1, <3>1, Zenon DEF PayloadInv
    <3>2. failing = {}
      BY <2>3 DEF Load, MayFail, Reliable
    <3>3. Alive(payloadKey[h])
      <4>1. /\ payloadKey[h].until \in Nat /\ payloadKey[h].until > Start + PayloadCutoff
            /\ now <= Start + PayloadCutoff
        BY <2>1, <3>1, Zenon DEF Held
      <4>2. Start \in Nat /\ now \in Nat /\ PayloadCutoff \in Nat
        BY <1>1, StoreAssumption, Zenon
      <4> QED
        BY <4>1, <4>2, Outlives, Zenon DEF Alive
    <3>4. Stored(h, failing) = Payload(Fork)
      BY <1>1, <2>1, <3>1, <3>2, <3>3, ForkSwitches DEF Stored, Held
    <3>5. pay'[c] = "loaded" /\ result'[c] = Payload(Fork)
      BY <1>1, <2>3, <3>4, ForkSwitches, Zenon DEF Load, Shape
    <3> QED
      BY <1>1, <2>1, <3>1, <3>5, Zenon DEF PayloadInv
  <2>4. CASE Finish(c)
    <3> DEFINE full == Unblinded(Header(Fork), Payload(Fork), req[h].whole)
    <3> /\ pay[c] = "loaded" /\ late' = late
      BY <2>4, Zenon DEF Finish
    <3> SUFFICES ASSUME ~late[c] PROVE PayloadInv(c)'
      BY <1>1, <2>1, Zenon DEF StoresInv, PayloadInv
    <3>1. answer[c] = "bid" /\ result[c] = Payload(Fork)
      BY Zenon DEF StoresInv, PayloadInv
    <3>2. /\ pay' = [pay EXCEPT ![c] = CASE late[c] -> "late"
                       [] ~late[c] /\ ~SameContents(Header(Fork), Payload(Fork)) -> "mismatch"
                       [] OTHER -> IF full = Invalid THEN "internal" ELSE "delivered"]
          /\ result' = [result EXCEPT ![c] = full]
      BY <1>1, <2>1, <2>4, <3>1, ForkSwitches, Zenon DEF Finish
    <3>3. \/ full = Contents(Fork) /\ full # Invalid
          \/ full = Invalid /\ ~req[h].whole /\ req[h].unchecked
      BY <1>1, <2>1, <3>1, UnblindsFork, Zenon DEF Held
    <3>4. pay'[c] = (IF full = Invalid THEN "internal" ELSE "delivered")
      BY <1>1, <3>2, ForkSwitches, Zenon DEF Shape
    <3>5. result'[c] = full
      BY <1>1, <3>2 DEF Shape
    <3> HIDE DEF full
    <3> QED
      BY <1>1, <2>1, <3>1, <3>2, <3>3, <3>4, <3>5 DEF PayloadInv
  <2> QED
    BY <2>2, <2>3, <2>4 DEF PayloadStep
<1> QED
  BY <1>3, <1>4, <1>5 DEF StoresInv

\* The steps of getHeader and of its environment
LEMMA CallStepKeeps ==
    ASSUME HeldInv, TimingInv, Reliable, StoresInv, [HNext]_allVars,
           \/ HTick \/ Environment
           \/ \E c \in Calls : CallStep(c) \/ ReadBest(c)
    PROVE  StoresInv'
<1>1. Shape /\ Fork \in Forks /\ now \in Nat /\ Fork' = Fork /\ TypeOK
  BY FrameNext DEF HeldInv, Fork, auction, TimingInv
<1>2. UNCHANGED <<scenario, sub, req, bidVars, payVars>>
  BY Zenon DEF HTick, Environment, CallStep, Call, ReadBest, others
<1>3. /\ \A s : Held(s) => Held(s)'
      /\ \A s \in Submissions : SubmissionInv(s)'
      /\ \A k \in {top', floor'} : k.until > 0 => Held(k.bid)'
  BY <1>2, BidsKept
<1>4. ASSUME NEW c \in Calls, answer'[c] = answer[c], header'[c] = header[c]
      PROVE  PayloadInv(c)'
  <2>1. pay[c] = "load" => now' = now
    BY DEF HTick, Environment, StopServer, NewHead, Wake, Leave, CallStep, Call, Arrive,
           ReadBest, Read
  <2> QED
    BY <1>2, <1>3, <1>4, <2>1, CallKept DEF StoresInv, payVars
<1>5. ASSUME NEW c \in Calls, answer[c] = "none",
             answer'[c] = "bid" => /\ Held(header'[c].bid)
                                   /\ header'[c].value = Header(Fork)
      PROVE  PayloadInv(c)'
  <2>1. pay'[c] = "idle"
    BY <1>2, <1>5, Zenon DEF StoresInv, PayloadInv, payVars
  <2>2. answer'[c] = "bid" => Held(header[c].bid)'
    BY <1>3, <1>5, Zenon
  <2> QED
    BY <1>1, <1>5, <2>1, <2>2 DEF PayloadInv
<1>6. ASSUME NEW c \in Calls, pc[c] # "done" PROVE answer[c] = "none"
  BY <1>6, Zenon DEF TimingInv, CallInv
<1>7. ASSUME NEW c \in Calls, CallStep(c) \/ ReadBest(c), NEW e \in Calls
      PROVE  PayloadInv(e)'
  <2>1. CASE CallStep(c)
    <3>1. header' = header /\ pc[c] = "idle"
          /\ \/ answer' = answer
             \/ \E a \in {"400", "204"} : answer' = [answer EXCEPT ![c] = a]
      BY <2>1, Zenon DEF CallStep, Call, Arrive, Answer
    <3> QED
      BY <1>1, <1>4, <1>5, <1>6, <3>1 DEF TypeOK
  <2>2. CASE ReadBest(c)
    <3>1. /\ pc[c] = "read"
          /\ \/ /\ Alive(top) /\ answer' = [answer EXCEPT ![c] = "bid"]
                /\ header' = [header EXCEPT ![c] =
                      [bid |-> top.bid, value |-> BuildGetHeaderResponse(req[top.bid].value)]]
             \/ \E a \in {"400", "204"} :
                   answer' = [answer EXCEPT ![c] = a] /\ header' = header
      BY <2>2, Zenon DEF ReadBest, Read, Answer
    <3>2. Alive(top) => Held(top.bid)
      BY <1>1 DEF Alive, StoresInv, Shape
    <3>3. Held(top.bid) => BuildGetHeaderResponse(req[top.bid].value) = Header(Fork)
      BY <1>1, ForkSwitches, Zenon DEF Held
    <3>4. /\ \/ /\ Alive(top) /\ answer'[c] = "bid" /\ header'[c].bid = top.bid
             /\ header'[c].value = BuildGetHeaderResponse(req[top.bid].value)
          \/ answer'[c] \in {"400", "204"}
      BY <1>1, <3>1 DEF TypeOK, Shape
    <3>5. e # c => answer'[e] = answer[e] /\ header'[e] = header[e]
      BY <1>1, <3>1 DEF TypeOK, Shape
    <3>6. answer'[c] = "bid" => Held(header'[c].bid) /\ header'[c].value = Header(Fork)
      BY <3>2, <3>3, <3>4, Zenon
    <3>7. answer[c] = "none"
      BY <1>6, <3>1, Zenon
    <3> QED
      BY <1>4, <1>5, <3>5, <3>6, <3>7, Zenon
  <2> QED
    BY <1>7, <2>1, <2>2
<1>8. ASSUME HTick \/ Environment, NEW e \in Calls PROVE PayloadInv(e)'
  <2>1. header' = header
        /\ \/ answer' = answer
           \/ \E c \in Calls : pc[c] = "sleep" /\ answer' = [answer EXCEPT ![c] = "gone"]
    BY <1>8, Zenon DEF HTick, Tick, Environment, StopServer, NewHead, Wake, Leave, Answer
  <2> QED
    BY <1>1, <1>4, <1>5, <1>6, <2>1 DEF TypeOK
<1> QED
  BY <1>3, <1>7, <1>8, Zenon DEF StoresInv

\* Every step keeps it.
LEMMA HeldNext == HeldInv /\ TimingInv /\ [HNext]_allVars => HeldInv'
<1> SUFFICES ASSUME HeldInv, TimingInv, [HNext]_allVars PROVE HeldInv'
  OBVIOUS
<1>1. Chosen' /\ Shape' /\ (Start - SlotMs <= now)'
      /\ UNCHANGED scenario
  BY FrameNext, ShapeNext
<1>2. ASSUME Reliable PROVE StoresInv'
  <2>1. StoresInv /\ Fork \in Forks /\ Shape
    BY <1>2, FrameNext DEF HeldInv, StoresInv
  <2>2. CASE HTick \/ Environment \/ \E c \in Calls : CallStep(c) \/ ReadBest(c)
    BY <1>2, <2>1, <2>2, CallStepKeeps
  <2>3. ~LoseRedis
    BY <1>2 DEF LoseRedis, Reliable
  <2>4. ASSUME NEW s \in Submissions, SubmissionStep(s) PROVE StoresInv'
    <3>1. ASSUME NEW t \in {s, "floor"} \cup {x \in Submissions : bidUntil[x] > 0},
                 NEW firm \in BOOLEAN, NEW reached, Save(s, t, firm, reached)
          PROVE  StoresInv'
      BY <1>2, <2>1, <3>1, SaveKeeps
    <3>2. ASSUME NEW name \in Names, NEW o \in BOOLEAN, NEW w \in BOOLEAN,
                 Submit(s, name, o, w)
          PROVE  StoresInv'
      <4> DEFINE r == [value |-> DecodedRequest(name, auction), unchecked |-> o,
                       whole |-> w]
      <4>1. /\ sub[s] = "idle" /\ req' = [req EXCEPT ![s] = r]
            /\ \E step \in Steps : sub' = [sub EXCEPT ![s] = step]
            /\ UNCHANGED <<bidVars, payVars, header>>
        BY <3>2, Zenon DEF Submit, Goto, Steps
      <4>2. sub'[s] # "refused" => r.value # Invalid /\ VersionFits(auction, r.value.version)
        BY <2>1, <3>2 DEF Submit, Goto, Shape
      <4>3. req'[s] = r
        BY <2>1, <4>1 DEF Shape
      <4>4. sub'[s] # "refused" => req'[s].value = Contents(Fork) /\ req'[s].whole \in BOOLEAN
        <5>1. r.value = DecodedRequest(name, auction) /\ r.whole = w
          OBVIOUS
        <5>2. sub'[s] # "refused" => DecodedRequest(name, auction) = Contents(Fork)
          BY <2>1, <4>2, <5>1, AdmittedContents, Zenon DEF Fork
        <5> QED
          BY <4>3, <5>1, <5>2, Zenon
      <4> HIDE DEF r
      <4> QED
        BY <1>2, <2>1, <2>4, <4>1, <4>4, SubmissionKept, Zenon
    <3>3. CASE Drop(s)
      <4>1. /\ req' = req /\ \E step \in Steps : sub' = [sub EXCEPT ![s] = step]
            /\ sub[s] \notin {"idle", "refused"} /\ UNCHANGED <<bidVars, payVars, header>>
        BY <3>3 DEF Drop, Goto, Steps
      <4> QED
        BY <1>2, <2>1, <2>4, <4>1, SubmissionKept, Zenon
    <3>4. CASE SaveMemcached(s)
      <4>1. UNCHANGED <<scenario, sub, req, bidVars, payVars, header, getHeaderVars>>
        BY <1>1, <3>4, Zenon DEF SaveMemcached
      <4>2. /\ \A x : Held(x) => Held(x)'
            /\ \A x \in Submissions : SubmissionInv(x)'
            /\ \A k \in {top', floor'} : k.until > 0 => Held(k.bid)'
        BY <1>2, <4>1, BidsKept
      <4>3. ASSUME NEW c \in Calls PROVE PayloadInv(c)'
        BY <2>1, <4>1, <4>2, CallKept DEF StoresInv, getHeaderVars, payVars
      <4> QED
        BY <4>2, <4>3 DEF StoresInv
    <3>5. ASSUME NEW ok \in BOOLEAN, SaveRow(s, ok) PROVE StoresInv'
      <4>1. /\ req' = req /\ \E step \in Steps : sub' = [sub EXCEPT ![s] = step]
            /\ sub[s] \notin {"idle", "refused"} /\ UNCHANGED <<bidVars, payVars, header>>
        BY <3>5 DEF SaveRow, Goto, Steps
      <4> QED
        BY <1>2, <2>1, <2>4, <4>1, SubmissionKept, Zenon
    <3> QED
      BY <2>4, <3>1, <3>2, <3>3, <3>4, <3>5 DEF SubmissionStep
  <2>5. ASSUME NEW c \in Calls, PayloadStep(c) PROVE StoresInv'
    BY <1>2, <2>1, <2>5, PayloadStepKeeps
  <2>6. CASE UNCHANGED allVars
    <3>1. UNCHANGED <<scenario, sub, req, bidVars, payVars, header, getHeaderVars>>
      BY <2>6 DEF allVars, bidVars, payVars, getHeaderVars
    <3>2. /\ \A x : Held(x) => Held(x)'
          /\ \A x \in Submissions : SubmissionInv(x)'
          /\ \A k \in {top', floor'} : k.until > 0 => Held(k.bid)'
      BY <1>2, <3>1, BidsKept
    <3>3. ASSUME NEW c \in Calls PROVE PayloadInv(c)'
      BY <2>1, <3>1, <3>2, CallKept DEF StoresInv, getHeaderVars, payVars
    <3> QED
      BY <3>2, <3>3 DEF StoresInv
  <2> QED
    BY <2>2, <2>3, <2>4, <2>5, <2>6, StepCases
<1>3. Reliable' => Reliable
  BY <1>1 DEF Reliable, fault
<1> QED
  BY <1>1, <1>2, <1>3 DEF HeldInv, StoresInv

(***************************************************************************)
(* While the stores work, every header getHeader served is unblinded by a  *)
(* getPayload call that is in time and whose proposer the instance         *)
(* recognises, into a block of the slot's fork with all its parts; a       *)
(* failure is an unchecked block whose blobs do not fit.  What it takes is *)
(* that a key outlives a slot and the cutoff (AuctionAssumption).          *)
(***************************************************************************)
THEOREM ServedCorrect == HSpec => []ServedIsUnblinded
<1>1. HeldInv => ServedIsUnblinded
  <2> SUFFICES ASSUME HeldInv, NEW c \in Calls, fault \in {"none", "stop"}, ~late[c]
               PROVE  /\ pay[c] \notin {"refused", "notfound", "mismatch"}
                      /\ pay[c] = "internal" => /\ req[header[c].bid].unchecked
                                                /\ ~req[header[c].bid].whole
                      /\ pay[c] = "delivered" =>
                            /\ result[c].version = ForkFromSlot(auction)
                            /\ result[c].parts = BlockParts(ForkFromSlot(auction))
    BY DEF ServedIsUnblinded
  <2>1. PayloadInv(c)
    BY DEF HeldInv, Reliable
  <2>2. /\ Contents(Fork).version = ForkFromSlot(auction)
        /\ Contents(Fork).parts = BlockParts(ForkFromSlot(auction))
    BY DEF Contents, Versioned, Fork
  <2> QED
    BY <2>1, <2>2, Zenon DEF PayloadInv
<1>2. HSpec => []TimingInv
  BY ImplementsGetHeader, TimingInit, TimingNext, PTL DEF Spec
<1> QED
  BY <1>1, <1>2, HeldInit, HeldNext, PTL DEF HSpec

-----------------------------------------------------------------------------
(* What the stores have is the payload, whether they keep it or not *)

\* What is stored for a submission is its payload, in the version of the slot's
\* fork, and the row is there once the handler has ended.
Genuine(s) ==
    /\ sub[s] \notin {"idle", "refused"} => req[s].value = Contents(Fork)
    /\ payloadKey[s] = NoKey \/ payloadKey[s].key = PayloadKey(Fork)
    /\ memcached[s] = NoItem \/ memcached[s].value = Payload(Fork)
    /\ sub[s] = "done" /\ KeepsPayloads => row[s] = Payload(Fork)

\* A call has the header of a submission.
ServedBid(c) == /\ answer[c] = "bid" => header[c].bid \in Submissions
                /\ pay[c] # "idle" => answer[c] = "bid"

FoundInv == /\ DOMAIN memcached = Submissions /\ DOMAIN row = Submissions
            /\ \A s \in Submissions : Genuine(s)
            /\ \A k \in {top, floor} : k = NoBid \/ k.bid \in Submissions
            /\ \A c \in Calls : ServedBid(c)

\* The conversions to and from the stores keep the payload of a known fork.
LEMMA StoreSwitches ==
    ASSUME NEW f \in Forks
    PROVE  /\ BuildGetPayloadResponse(Contents(f)) = Payload(f)
           /\ PayloadEntry(Contents(f)) = Payload(f)
           /\ EntryPayload(Payload(f)) = Payload(f)
           /\ GetPayloadContents({PayloadKey(f)}) = Payload(f) /\ Payload(f) # Invalid
<1>1. Contents(f).version = f /\ Payload(f).version = f
  BY DEF Contents, Payload, Versioned
<1>2. GetPayloadContents({PayloadKey(f)}) = Payload(f) /\ Payload(f) # Invalid
  BY ForkSwitches
<1> QED
  BY <1>1, <1>2 DEF BuildGetPayloadResponse, PayloadEntry, EntryPayload, Payload

\* A key that has not expired is one.
LEMMA AliveIsThere ==
    ASSUME now \in Nat, NEW k, Alive(k)
    PROVE  k # NoBid /\ k # NoKey /\ k # NoItem
<1>1. NoBid.until = 0 /\ NoKey.until = 0 /\ NoItem.until = 0
  BY DEF NoBid, NoKey, NoItem
<1>2. k.until # 0
  BY DEF Alive
<1> QED
  BY <1>1, <1>2

\* Steps that leave submissions, bids and stores alone keep what is stored.
LEMMA GenuineKept ==
    ASSUME FoundInv, UNCHANGED <<scenario, sub, req, bidVars, storeVars>>
    PROVE  /\ (DOMAIN memcached = Submissions /\ DOMAIN row = Submissions)'
           /\ \A s \in Submissions : Genuine(s)'
           /\ \A k \in {top', floor'} : k = NoBid \/ k.bid \in Submissions
BY DEF FoundInv, Genuine, bidVars, storeVars, Fork, auction, KeepsPayloads, fault

\* The steps of getHeader, of its environment and of getPayload
LEMMA FoundCalls ==
    ASSUME HeldInv, TimingInv, FoundInv,
           \/ HTick \/ Environment
           \/ \E c \in Calls : CallStep(c) \/ ReadBest(c) \/ PayloadStep(c)
    PROVE  FoundInv'
<1>1. Shape /\ TypeOK /\ now \in Nat
  BY DEF HeldInv, TimingInv, TypeOK
<1>2. UNCHANGED <<scenario, sub, req, bidVars, storeVars>>
  BY DEF HTick, Environment, CallStep, Call, ReadBest, others, PayloadStep, Ask, Load, Finish
<1>3. ASSUME NEW c \in Calls, pc[c] # "done" PROVE answer[c] = "none" /\ pay[c] = "idle"
  BY <1>3 DEF TimingInv, CallInv, FoundInv, ServedBid
<1>4. ASSUME HTick \/ Environment, NEW e \in Calls PROVE ServedBid(e)'
  <2>1. header' = header /\ pay' = pay
        /\ \/ answer' = answer
           \/ \E c \in Calls : pc[c] = "sleep" /\ answer' = [answer EXCEPT ![c] = "gone"]
    BY <1>4, Zenon DEF HTick, Tick, Environment, StopServer, NewHead, Wake, Leave, Answer, others,
                payVars
  <2> QED
    BY <1>1, <1>3, <2>1 DEF TypeOK, FoundInv, ServedBid
<1>5. ASSUME NEW c \in Calls, CallStep(c), NEW e \in Calls PROVE ServedBid(e)'
  <2>1. header' = header /\ pay' = pay /\ pc[c] = "idle"
        /\ \/ answer' = answer
           \/ \E a \in {"400", "204"} : answer' = [answer EXCEPT ![c] = a]
    BY <1>5, Zenon DEF CallStep, Call, Arrive, Answer, others, payVars
  <2> QED
    BY <1>1, <1>3, <2>1, Zenon DEF TypeOK, FoundInv, ServedBid
<1>6. ASSUME NEW c \in Calls, ReadBest(c), NEW e \in Calls PROVE ServedBid(e)'
  <2>1. /\ pc[c] = "read" /\ pay' = pay
        /\ \/ /\ Alive(top) /\ answer' = [answer EXCEPT ![c] = "bid"]
              /\ header' = [header EXCEPT ![c] =
                    [bid |-> top.bid, value |-> BuildGetHeaderResponse(req[top.bid].value)]]
           \/ \E a \in {"400", "204"} :
                 answer' = [answer EXCEPT ![c] = a] /\ header' = header
    BY <1>6, Zenon DEF ReadBest, Read, Answer, others, payVars
  <2>2. Alive(top) => top.bid \in Submissions
    BY <1>1, AliveIsThere, Zenon DEF FoundInv
  <2>3. answer'[c] = "bid" => Alive(top) /\ header'[c].bid = top.bid
    BY <1>1, <2>1 DEF TypeOK, Shape
  <2>4. e # c => answer'[e] = answer[e] /\ header'[e] = header[e]
    BY <1>1, <2>1 DEF TypeOK, Shape
  <2>5. pay'[c] = "idle" /\ pay'[e] = pay[e] /\ ServedBid(e)
    BY <1>3, <2>1, Zenon DEF FoundInv
  <2> QED
    BY <2>2, <2>3, <2>4, <2>5, Zenon DEF ServedBid
<1>7. ASSUME NEW c \in Calls, PayloadStep(c), NEW e \in Calls PROVE ServedBid(e)'
  <2>1. /\ header' = header /\ answer' = answer
        /\ pay'[e] = pay[e] \/ answer[e] = "bid"
    BY <1>1, <1>7 DEF PayloadStep, Ask, Load, Finish, Shape, getHeaderVars, FoundInv, ServedBid
  <2> QED
    BY <2>1, Zenon DEF FoundInv, ServedBid
<1>8. \A e \in Calls : ServedBid(e)'
  BY <1>4, <1>5, <1>6, <1>7
<1> QED
  BY <1>2, <1>8, GenuineKept DEF FoundInv

\* Calls are not touched by a submission or by the loss of keys.
LEMMA ServedKept ==
    ASSUME FoundInv, UNCHANGED <<answer, header, pay>>
    PROVE  \A c \in Calls : ServedBid(c)'
BY Zenon DEF FoundInv, ServedBid

\* Save writes the keys of a submission that was admitted.
LEMMA FoundSave ==
    ASSUME HeldInv, TimingInv, FoundInv, Fork \in Forks, NEW s \in Submissions,
           NEW t \in {s, "floor"} \cup {x \in Submissions : bidUntil[x] > 0},
           NEW firm \in BOOLEAN, NEW reached, Save(s, t, firm, reached)
    PROVE  FoundInv'
<1> DEFINE ends == [bidUntil EXCEPT ![s] = now + Expiry]
           own == [bid |-> s, until |-> ends[s]]
           best == IF t = "floor" THEN floor ELSE [bid |-> t, until |-> ends[t]]
<1>1. Shape /\ now \in Nat /\ sub[s] = "simulate"
  BY DEF HeldInv, TimingInv, TypeOK, Save
<1>2. req[s].value = Contents(Fork) /\ Contents(Fork).version = Fork
  BY <1>1, ForkSwitches, Zenon DEF FoundInv, Genuine
<1>3. /\ payloadKey' = [payloadKey EXCEPT ![s] =
                           [key |-> PayloadKey(Fork), until |-> PayloadUntil]]
      /\ UNCHANGED <<scenario, req, memcached, row, answer, header, pay>>
      /\ \E step \in {"saved", "record"} : sub' = [sub EXCEPT ![s] = step]
  BY <1>2, Zenon DEF Save, Goto, storeVars, payVars, getHeaderVars
<1>4. ASSUME NEW x \in Submissions PROVE Genuine(x)'
  <2>1. Genuine(x) /\ Fork' = Fork /\ (KeepsPayloads)' = KeepsPayloads
    BY <1>3 DEF FoundInv, Fork, auction, KeepsPayloads, fault
  <2>2. CASE x = s
    BY <1>1, <1>2, <1>3, <2>1, <2>2 DEF Genuine, Shape
  <2>3. CASE x # s
    <3>1. sub'[x] = sub[x] /\ payloadKey'[x] = payloadKey[x]
      BY <1>1, <1>3, <2>3 DEF Shape
    <3> QED
      BY <1>3, <2>1, <3>1, Zenon DEF Genuine
  <2> QED
    BY <2>2, <2>3
<1>5. best.until > now => best.bid \in Submissions
  <2>1. CASE t = "floor"
    <3>1. floor.until > now => floor # NoBid
      BY <1>1, AliveIsThere DEF Alive
    <3> QED
      BY <2>1, <3>1 DEF FoundInv
  <2>2. CASE t # "floor"
    BY <2>2
  <2> QED
    BY <2>1, <2>2
<1>6. \/ top' = top
      \/ best.until > now /\ top'.bid = best.bid
  <2>1. Copied(best, TRUE).bid = best.bid /\ Copied(best, FALSE).bid = best.bid
    <3> best = [bid |-> best.bid, until |-> best.until]
      BY <1>1 DEF Shape
    <3> HIDE DEF best
    <3> QED
      BY DEF Copied
  <2> QED
    BY <2>1, Zenon DEF Save, Alive
<1>7. floor' = floor \/ floor'.bid = s
  BY DEF Save, Copied
<1> HIDE DEF best, own, ends
<1>8. \A k \in {top', floor'} : k = NoBid \/ k.bid \in Submissions
  BY <1>5, <1>6, <1>7 DEF FoundInv
<1> QED
  BY <1>3, <1>4, <1>8, ServedKept DEF FoundInv

\* The other steps of a submission
LEMMA FoundSubmission ==
    ASSUME HeldInv, TimingInv, FoundInv, Fork \in Forks, NEW s \in Submissions,
           SubmissionStep(s)
    PROVE  FoundInv'
<1>1. Shape /\ Genuine(s)
  BY DEF HeldInv, FoundInv
<1>2. ASSUME UNCHANGED <<scenario, bidVars, answer, header, pay>>,
             DOMAIN memcached' = Submissions, DOMAIN row' = Submissions, Genuine(s)',
             \A x \in Submissions \ {s} : /\ sub'[x] = sub[x] /\ req'[x] = req[x]
                                          /\ memcached'[x] = memcached[x] /\ row'[x] = row[x]
      PROVE  FoundInv'
  <2>1. ASSUME NEW x \in Submissions PROVE Genuine(x)'
    <3>1. CASE x # s
      BY <1>2, <3>1, Zenon DEF FoundInv, Genuine, bidVars, Fork, auction, KeepsPayloads, fault
    <3> QED
      BY <1>2, <3>1, Zenon
  <2>2. \A k \in {top', floor'} : k = NoBid \/ k.bid \in Submissions
    BY <1>2, Zenon DEF FoundInv, bidVars
  <2> QED
    BY <1>2, <2>1, <2>2, ServedKept, Zenon DEF FoundInv
<1>3. ASSUME NEW name \in Names, NEW o \in BOOLEAN, NEW w \in BOOLEAN, Submit(s, name, o, w)
      PROVE  FoundInv'
  <2> DEFINE r == [value |-> DecodedRequest(name, auction), unchecked |-> o, whole |-> w]
  <2>1. /\ UNCHANGED <<scenario, bidVars, answer, header, pay, memcached, row>>
        /\ req' = [req EXCEPT ![s] = r]
        /\ \E step \in {"simulate", "refused"} : sub' = [sub EXCEPT ![s] = step]
    BY <1>3, Zenon DEF Submit, Goto, storeVars, payVars, getHeaderVars
  <2>2. sub'[s] # "refused" => r.value # Invalid /\ VersionFits(auction, r.value.version)
    BY <1>1, <1>3 DEF Submit, Goto, Shape
  <2>3. req'[s] = r
    BY <1>1, <2>1 DEF Shape
  <2>4. r.value = DecodedRequest(name, auction)
    OBVIOUS
  <2> HIDE DEF r
  <2>5. sub'[s] # "refused" => req'[s].value = Contents(Fork)
    BY <2>2, <2>3, <2>4, AdmittedContents, Zenon DEF Fork
  <2>6. sub'[s] # "done"
    BY <1>1, <2>1 DEF Shape
  <2>7. Genuine(s)'
    BY <1>1, <2>1, <2>5, <2>6, Zenon DEF Genuine, bidVars, Fork, auction
  <2>8. \A x \in Submissions \ {s} : sub'[x] = sub[x] /\ req'[x] = req[x]
    BY <1>1, <2>1 DEF Shape
  <2> QED
    BY <1>2, <2>1, <2>7, <2>8, Zenon DEF FoundInv
<1>4. CASE Drop(s)
  <2>1. /\ UNCHANGED <<scenario, bidVars, answer, header, pay, memcached, row, req>>
        /\ sub' = [sub EXCEPT ![s] = "record"] /\ sub[s] = "simulate"
    BY <1>4 DEF Drop, Goto, storeVars, payVars, getHeaderVars
  <2>2. Genuine(s)' /\ \A x \in Submissions \ {s} : sub'[x] = sub[x]
    BY <1>1, <2>1 DEF Genuine, Shape, bidVars, Fork, auction
  <2> QED
    BY <1>2, <2>1, <2>2 DEF FoundInv
<1>5. CASE SaveMemcached(s)
  <2>1. /\ UNCHANGED <<scenario, bidVars, answer, header, pay, row, req, sub>>
        /\ sub[s] \in {"saved", "done"}
        /\ memcached' = [memcached EXCEPT ![s] =
                           [value |-> BuildGetPayloadResponse(req[s].value),
                            until |-> now + Expiry]]
    BY <1>5, Zenon DEF SaveMemcached, payVars, getHeaderVars
  <2>2. DOMAIN memcached = Submissions /\ DOMAIN row = Submissions
    BY DEF FoundInv
  <2>3. memcached'[s].value = Payload(Fork)
    BY <1>1, <2>1, <2>2, StoreSwitches, Zenon DEF Genuine
  <2>4. Genuine(s)'
    BY <1>1, <2>1, <2>3, Zenon DEF Genuine, bidVars, Fork, auction, KeepsPayloads, fault
  <2>5. DOMAIN memcached' = Submissions
        /\ \A x \in Submissions \ {s} : memcached'[x] = memcached[x]
    BY <2>1, <2>2
  <2> QED
    BY <1>2, <2>1, <2>2, <2>4, <2>5, Zenon
<1>6. ASSUME NEW ok \in BOOLEAN, SaveRow(s, ok) PROVE FoundInv'
  <2>1. /\ UNCHANGED <<scenario, bidVars, answer, header, pay, memcached, req>>
        /\ sub' = [sub EXCEPT ![s] = "done"] /\ sub[s] \in {"saved", "record"}
        /\ row' = [row EXCEPT ![s] = IF ok /\ scenario.rows
                                     THEN PayloadEntry(req[s].value) ELSE row[s]]
        /\ ok \/ fault = "database"
    BY <1>6 DEF SaveRow, Goto, payVars, getHeaderVars
  <2>2. DOMAIN memcached = Submissions /\ DOMAIN row = Submissions
    BY Zenon DEF FoundInv
  <2>3. KeepsPayloads => row'[s] = Payload(Fork)
    BY <1>1, <2>1, <2>2, StoreSwitches, Zenon DEF Genuine, KeepsPayloads
  <2>4. Genuine(s)'
    BY <1>1, <2>1, <2>3, Zenon DEF Genuine, bidVars, Fork, auction, KeepsPayloads, fault
  <2>5. DOMAIN row' = Submissions
        /\ \A x \in Submissions \ {s} : row'[x] = row[x] /\ sub'[x] = sub[x]
    BY <1>1, <2>1, <2>2 DEF Shape
  <2> QED
    BY <1>2, <2>1, <2>2, <2>4, <2>5, Zenon
<1> QED
  BY <1>3, <1>4, <1>5, <1>6, FoundSave DEF SubmissionStep

\* Every step keeps it, the loss of all keys in Redis included.
LEMMA FoundNext == HeldInv /\ TimingInv /\ FoundInv /\ [HNext]_allVars => FoundInv'
<1> SUFFICES ASSUME HeldInv, TimingInv, FoundInv, [HNext]_allVars PROVE FoundInv'
  OBVIOUS
<1>1. Fork \in Forks
  BY FrameNext
<1>2. CASE LoseRedis
  <2>1. /\ UNCHANGED <<scenario, sub, req, memcached, row, answer, header, pay>>
        /\ payloadKey' = [s \in Submissions |-> NoKey] /\ top' = NoBid /\ floor' = NoBid
    BY <1>2 DEF LoseRedis, storeVars, payVars, getHeaderVars
  <2>2. ASSUME NEW s \in Submissions PROVE Genuine(s)'
    BY <2>1, Zenon DEF FoundInv, Genuine, Fork, auction, KeepsPayloads, fault
  <2> QED
    BY <2>1, <2>2, ServedKept, Zenon DEF FoundInv
<1>3. CASE UNCHANGED allVars
  <2>1. UNCHANGED <<scenario, sub, req, bidVars, storeVars>> /\ UNCHANGED <<answer, header, pay>>
    BY <1>3 DEF allVars, bidVars, storeVars
  <2> QED
    BY <2>1, GenuineKept, ServedKept, Zenon DEF FoundInv
<1> QED
  BY <1>1, <1>2, <1>3, FoundCalls, FoundSubmission, StepCases

\* A load that asks the database finds the payload of a handler that has ended.
LEMMA LoadFinds ==
    ASSUME HeldInv, TimingInv, FoundInv, Fork \in Forks, NEW s \in Submissions,
           sub[s] = "done", KeepsPayloads, NEW failing, failing \subseteq MayFail
    PROVE  Stored(s, failing) # Invalid
<1>1. now \in Nat /\ Genuine(s)
  BY Zenon DEF TimingInv, TypeOK, FoundInv
<1>2. "database" \notin failing
  <2>1. "database" \notin MayFail
    BY Zenon DEF MayFail, KeepsPayloads
  <2> QED
    BY <2>1
<1>3. Alive(payloadKey[s]) => GetPayloadContents({payloadKey[s].key}) # Invalid
  <2>1. Alive(payloadKey[s]) => payloadKey[s].key = PayloadKey(Fork)
    BY <1>1, AliveIsThere, Zenon DEF Genuine
  <2>2. GetPayloadContents({PayloadKey(Fork)}) # Invalid
    BY StoreSwitches
  <2> QED
    BY <2>1, <2>2, Zenon
<1>4. Alive(memcached[s]) => memcached[s].value # Invalid
  <2>1. Alive(memcached[s]) => memcached[s].value = Payload(Fork)
    BY <1>1, AliveIsThere DEF Genuine
  <2>2. Payload(Fork) # Invalid
    BY StoreSwitches, Zenon
  <2> QED
    BY <2>1, <2>2
<1>5. EntryPayload(row[s]) # Invalid
  BY <1>1, StoreSwitches, Zenon DEF Genuine
<1> QED
  BY <1>2, <1>3, <1>4, <1>5, Zenon DEF Stored

\* A getPayload call gives up only before the handler of the submission has
\* ended, or when the database fails or is not to have payloads: for every fork schedule, whatever keys
\* expired or were lost and whichever caches do not answer.
THEOREM RecordedPayloadsAreFound == HSpec => RecordedIsFound
<1> DEFINE Found == \A c \in Calls :
                       pay'[c] = "notfound" /\ pay[c] # "notfound" /\ KeepsPayloads
                       => sub[header[c].bid] # "done"
<1>1. HeldInv /\ TimingInv /\ FoundInv /\ [HNext]_allVars => [Found]_allVars
  <2> SUFFICES ASSUME HeldInv, TimingInv, FoundInv, HNext, NEW c \in Calls,
                      pay'[c] = "notfound", pay[c] # "notfound", KeepsPayloads,
                      sub[header[c].bid] = "done"
               PROVE  FALSE
    OBVIOUS
  <2>1. Shape /\ Fork \in Forks
    BY FrameNext DEF HeldInv
  <2>2. HTick \/ Environment \/ LoseRedis => pay' = pay
    BY DEF HTick, Environment, LoseRedis, others, payVars
  <2>3. \A s \in Submissions : SubmissionStep(s) => pay' = pay
    <3> SUFFICES ASSUME NEW s, SubmissionStep(s) PROVE UNCHANGED payVars
      BY DEF payVars
    <3> QED
      BY Zenon DEF SubmissionStep, Submit, Save, Drop, SaveMemcached, SaveRow
  <2>4. \A e \in Calls : CallStep(e) \/ ReadBest(e) => pay' = pay
    BY Zenon DEF CallStep, Call, ReadBest, others, payVars
  <2>5. PICK e \in Calls : PayloadStep(e)
    BY <2>2, <2>3, <2>4, StepCases DEF allVars
  <2>6. ~Finish(e) /\ \A recognised \in BOOLEAN : ~Ask(e, recognised)
    <3>1. ASSUME NEW recognised \in BOOLEAN, Ask(e, recognised)
          PROVE  pay'[c] = pay[c] \/ pay'[c] \in {"load", "refused", "unrecognised"}
      BY <2>1, <3>1 DEF Ask, Shape
    <3>2. Finish(e) => pay'[c] = pay[c] \/ pay'[c] # "notfound"
      BY <2>1 DEF Finish, Shape
    <3> QED
      BY <3>1, <3>2
  <2>7. PICK failing \in SUBSET {"redis", "memcached", "database"} : Load(e, failing)
    BY <2>5, <2>6 DEF PayloadStep
  <2>8. /\ pay[c] \in {"load", "retry"} /\ failing \subseteq MayFail
        /\ Stored(header[c].bid, failing) = Invalid
    BY <2>1, <2>7 DEF Load, Shape
  <2>9. header[c].bid \in Submissions
    BY <2>8, Zenon DEF FoundInv, ServedBid
  <2> QED
    BY <2>1, <2>8, <2>9, LoadFinds, Zenon
<1>2. HInit => FoundInv
  <2> SUFFICES ASSUME HInit PROVE FoundInv
    OBVIOUS
  <2>1. /\ DOMAIN memcached = Submissions /\ DOMAIN row = Submissions
        /\ top = NoBid /\ floor = NoBid
    BY DEF HInit
  <2>2. \A s \in Submissions : sub[s] = "idle" /\ payloadKey[s] = NoKey /\ memcached[s] = NoItem
    BY DEF HInit
  <2>3. \A c \in Calls : answer[c] = "none" /\ pay[c] = "idle"
    BY DEF HInit
  <2> QED
    BY <2>1, <2>2, <2>3, Zenon DEF FoundInv, Genuine, ServedBid
<1>3. HSpec => []TimingInv
  BY ImplementsGetHeader, TimingInit, TimingNext, PTL DEF Spec
<1>4. [][Found]_allVars <=> RecordedIsFound
  BY DEF RecordedIsFound
<1> QED
  BY <1>1, <1>2, <1>3, <1>4, HeldInit, HeldNext, FoundNext, PTL DEF HSpec

=============================================================================
