--------------------------- MODULE SlotUpdateProofs ---------------------------
(***************************************************************************)
(* What a new head slot sets off, for every set of beacon nodes and        *)
(* whatever they report.  KnownValidators: a refresh never installs part   *)
(* of an answer or a mixture of two, readiness implies a set that is not   *)
(* empty, and the set stays fresh.  ProposerDuties: an empty map is        *)
(* retried, and the next slot is covered.                                  *)
(***************************************************************************)
EXTENDS KnownValidators, ProposerDuties, TLAPS

Complete(set) == set \in {{}} \cup Seeds \cup {Views[b] : b \in Nodes}

\* What has been decoded is one node's whole answer before it is installed, and
\* the flag is set only after a set that is not empty was.
IInv == /\ phase \in Phases
        /\ Complete(known)
        /\ phase = "install" => Complete(collected)
        /\ phase = "flag" => known # {}
        /\ updated => known # {}
        /\ todo \subseteq Nodes

(***************************************************************************)
(* A seed is a complete set, and readiness starts with it.                 *)
(***************************************************************************)
LEMMA InitInv == Init => IInv
  BY DEF Init, IInv, Complete, Phases

(***************************************************************************)
(* Every step keeps the invariant.                                         *)
(***************************************************************************)
LEMMA NextInv == IInv /\ [Next]_vars => IInv'
<1> SUFFICES ASSUME IInv, [Next]_vars PROVE IInv'
  OBVIOUS
<1> USE DEF IInv, Phases
<1>1. CASE UNCHANGED vars
  BY <1>1 DEF vars, Complete
<1>2. ASSUME NEW s \in Slots, NewHead(s) PROVE IInv'
  BY <1>2 DEF NewHead, Complete
<1>3. ASSUME NEW x \in pending, Enter(x) PROVE IInv'
  BY <1>3 DEF Enter, Complete
<1>9. CASE Checks
  BY <1>9, StreamersAssumption DEF Checks, FirstPhase, Release, Complete
<1>4. ASSUME NEW b \in Nodes, RequestFails(b) PROVE IInv'
  BY <1>4 DEF RequestFails, Abandon, Release, Complete
<1>5. ASSUME NEW b \in Nodes, RequestSucceeds(b) PROVE IInv'
  BY <1>5 DEF RequestSucceeds, Decoded, Complete
<1>6. ASSUME NEW b \in Nodes, RequestEmpty(b) PROVE IInv'
  BY <1>6 DEF RequestEmpty, Complete
<1>7. CASE Install
  <2>1. CASE Refused(collected)
    BY <1>7, <2>1 DEF Install, Abandon, Release, Complete
  <2>2. CASE ~Refused(collected)
    <3>1. /\ collected # {} /\ known' = collected /\ phase' = "flag" /\ phase = "install"
          /\ UNCHANGED <<todo, updated>>
      BY <1>7, <2>2 DEF Install, Refused
    <3> QED
      BY <3>1 DEF Complete
  <2> QED
    BY <2>1, <2>2
<1>8. CASE Flag
  BY <1>8 DEF Flag, Release, Complete
<1> QED
  BY <1>1, <1>2, <1>3, <1>4, <1>5, <1>6, <1>7, <1>8, <1>9 DEF Next, Request

(***************************************************************************)
(* fetchKnownValidators and its restarts: what is installed is the seed or *)
(* the full answer of one beacon node, whatever an earlier node left in    *)
(* the collector.                                                          *)
(***************************************************************************)
THEOREM NothingPartialInstalled == Spec => []InstalledIsComplete
<1>1. IInv => InstalledIsComplete
  BY DEF IInv, Complete, InstalledIsComplete
<1> QED
  BY <1>1, InitInv, NextInv, PTL DEF Spec

(***************************************************************************)
(* IsReady: an instance of the proposer API that reports ready knows at    *)
(* least one validator, through any sequence of failed or empty answers.   *)
(***************************************************************************)
THEOREM ReadyIsJustified == Spec => []ReadyMeansKnown
<1>1. IInv => ReadyMeansKnown
  BY DEF IInv, ReadyMeansKnown
<1> QED
  BY <1>1, InitInv, NextInv, PTL DEF Spec

-----------------------------------------------------------------------------
(***************************************************************************)
(* Why the set stays fresh: the goroutine of the newest head is still to   *)
(* run or at its checks, or a refresh is running for a slot close to the   *)
(* head, or the last one failed, or that goroutine was dropped behind the  *)
(* checks of another; otherwise it found the set recent enough, or a       *)
(* refresh for a slot close to the head has just ended.                    *)
(***************************************************************************)
FreshInv ==
    /\ head \in Nat /\ last \in Nat /\ rslot \in Nat
    /\ last <= head /\ rslot <= head
    /\ \A x \in pending : x[1] \in Nat /\ x[1] <= head /\ head <= x[1] + Lag
    /\ phase # "idle" => head <= rslot + Lag
    /\ phase = "flag" => last = rslot
    /\ \/ \E x \in pending : x[1] = head
       \/ phase = "check" /\ rslot = head
       \/ phase \notin {"idle", "check"}
       \/ missed
       \/ dropped
       \/ head - last <= 32

(***************************************************************************)
(* Every step keeps it.                                                    *)
(***************************************************************************)
LEMMA FreshStep == FreshInv /\ [Next]_vars => FreshInv'
<1> SUFFICES ASSUME FreshInv, [Next]_vars PROVE FreshInv'
  OBVIOUS
<1>1. Slots \subseteq Nat /\ Lag \in Nat /\ Lag <= 32
  BY ChainAssumption, LagAssumption DEF Slots
<1>2. CASE UNCHANGED vars
  BY <1>2 DEF vars, FreshInv
<1>3. ASSUME NEW s \in Slots, NewHead(s) PROVE FreshInv'
  <2>1. /\ s \in Nat /\ s > head /\ \A x \in pending : s <= x[1] + Lag
        /\ phase # "idle" => s <= rslot + Lag
        /\ head' = s /\ pending' = pending \cup {<<s, "head">>}
        /\ UNCHANGED <<phase, rslot, last, missed>>
    BY <1>1, <1>3 DEF NewHead, FreshInv
  <2>2. \E x \in pending' : x[1] = head'
    <3>1. <<s, "head">> \in pending' /\ <<s, "head">>[1] = s
      BY <2>1
    <3> QED
      BY <2>1, <3>1
  <2>3. \A x \in pending' : x[1] \in Nat /\ x[1] <= head' /\ head' <= x[1] + Lag
    BY <1>1, <2>1 DEF FreshInv
  <2> QED
    BY <1>1, <2>1, <2>2, <2>3 DEF FreshInv
<1>4. ASSUME NEW x \in pending, Enter(x) PROVE FreshInv'
  <2>1. x[1] \in Nat /\ x[1] <= head /\ head <= x[1] + Lag
        /\ pending' = pending \ {x} /\ UNCHANGED <<head, last, missed>>
    BY <1>4 DEF Enter, FreshInv
  <2>2. x[1] # head /\ (\E y \in pending : y[1] = head) => \E y \in pending' : y[1] = head
    BY <2>1
  <2>3. CASE phase = "idle"
    <3>1. phase' = "check" /\ rslot' = x[1] /\ dropped' = dropped
      BY <1>4, <2>3 DEF Enter
    <3> QED
      BY <2>1, <2>2, <2>3, <3>1 DEF FreshInv
  <2>4. CASE phase # "idle"
    <3>1. UNCHANGED <<phase, rslot>> /\ (dropped => dropped')
          /\ (phase = "check" /\ x[1] = head => dropped')
      BY <1>4, <2>4 DEF Enter
    <3>2. CASE phase = "check"
      BY <2>1, <2>2, <3>1, <3>2 DEF FreshInv
    <3>3. CASE phase # "check"
      BY <2>1, <2>4, <3>1, <3>3 DEF FreshInv
    <3> QED
      BY <3>2, <3>3
  <2> QED
    BY <2>3, <2>4
<1>a. CASE Checks
  <2>1. phase = "check" /\ UNCHANGED <<head, pending, last, missed, dropped>>
    BY <1>a DEF Checks
  <2>2. CASE Due(rslot)
    <3>1. phase' \in {"stream", "buffered"} /\ rslot' = rslot
      BY <1>a, <2>2 DEF Checks, FirstPhase
    <3> QED
      BY <2>1, <3>1 DEF FreshInv
  <2>3. CASE ~Due(rslot)
    <3>1. phase' = "idle" /\ rslot' = 0
      BY <1>a, <2>3 DEF Checks, Release
    <3>2. rslot = head => head - last <= 32
      BY <2>3 DEF Due, Forced, FreshInv
    <3> QED
      BY <2>1, <3>1, <3>2 DEF FreshInv
  <2> QED
    BY <2>2, <2>3
<1>5. CASE Abandon /\ UNCHANGED <<head, pending, last, dropped>>
  BY <1>1, <1>5 DEF Abandon, Release, FreshInv
<1>6. ASSUME NEW b \in Nodes, RequestFails(b) PROVE FreshInv'
  <2>1. CASE todo = {b}
    BY <1>5, <1>6, <2>1 DEF RequestFails
  <2>2. CASE todo # {b}
    <3>1. UNCHANGED <<head, pending, phase, rslot, last, missed, dropped>>
      BY <1>6, <2>2 DEF RequestFails
    <3> QED
      BY <3>1 DEF FreshInv
  <2> QED
    BY <2>1, <2>2
<1>7. ASSUME NEW b \in Nodes, RequestSucceeds(b) \/ RequestEmpty(b) PROVE FreshInv'
  <2>1. /\ phase # "idle" /\ phase' = "install"
        /\ UNCHANGED <<head, pending, rslot, last, missed, dropped>>
    BY <1>7 DEF RequestSucceeds, RequestEmpty
  <2> QED
    BY <2>1 DEF FreshInv
<1>8. CASE Install
  <2>1. CASE Refused(collected)
    BY <1>5, <1>8, <2>1 DEF Install
  <2>2. CASE ~Refused(collected)
    <3>1. /\ phase = "install" /\ phase' = "flag" /\ last' = rslot
          /\ UNCHANGED <<head, pending, rslot, missed, dropped>>
      BY <1>8, <2>2 DEF Install
    <3> QED
      BY <3>1 DEF FreshInv
  <2> QED
    BY <2>1, <2>2
<1>9. CASE Flag
  <2>1. /\ phase = "flag" /\ phase' = "idle" /\ rslot' = 0
        /\ UNCHANGED <<head, pending, last>>
    BY <1>9 DEF Flag, Release
  <2>2. head - last <= 32
    BY <1>1, <2>1 DEF FreshInv
  <2> QED
    BY <2>1, <2>2 DEF FreshInv
<1> QED
  BY <1>2, <1>3, <1>4, <1>6, <1>7, <1>8, <1>9, <1>a DEF Next, Request

(***************************************************************************)
(* RefreshKnownValidators: without a failure the set is never more than 32 *)
(* slots behind the head once the goroutines are done, although refreshes  *)
(* are dropped while one runs and the slots that trigger them are missed.  *)
(* Only a goroutine of the newest head that was dropped behind the checks  *)
(* of another one leaves an older set, until a later head's comes through. *)
(***************************************************************************)
THEOREM SetStaysFresh == Spec => []KnownSetIsFresh
<1>1. Init => FreshInv
  <2> SUFFICES ASSUME Init PROVE FreshInv
    OBVIOUS
  <2>1. PICK s \in StartSlots, seed \in Seeds :
          /\ head = s
          /\ pending = {<<s, "start">>, <<s, "head">>}
          /\ phase = "idle" /\ rslot = 0
          /\ last = (IF seed = {} THEN 0 ELSE s)
    BY DEF Init
  <2>2. s \in Nat /\ Lag \in Nat
    BY ChainAssumption, StartAssumption, LagAssumption
  <2>3. last \in Nat /\ last <= head
    BY <2>1, <2>2
  <2>4. /\ \E x \in pending : x[1] = head
        /\ \A x \in pending : x[1] = head
    BY <2>1
  <2> QED
    BY <2>1, <2>2, <2>3, <2>4 DEF FreshInv
<1>2. FreshInv => KnownSetIsFresh
  BY DEF FreshInv, KnownSetIsFresh
<1> QED
  BY <1>1, <1>2, FreshStep, PTL DEF Spec

(***************************************************************************)
(* A refresh that goes on is for a later slot than the set it will         *)
(* replace, since it is the only one running until it is over.             *)
(***************************************************************************)
AheadInv == phase \in {"stream", "buffered", "install"} => rslot > last

(***************************************************************************)
(* Every step keeps it.                                                    *)
(***************************************************************************)
LEMMA AheadStep == AheadInv /\ [Next]_vars => AheadInv'
<1> SUFFICES ASSUME AheadInv, [Next]_vars PROVE AheadInv'
  OBVIOUS
<1> USE DEF AheadInv
<1>1. CASE UNCHANGED vars
  BY <1>1 DEF vars
<1>2. ASSUME NEW s \in Slots, NewHead(s) PROVE AheadInv'
  BY <1>2 DEF NewHead
<1>3. ASSUME NEW x \in pending, Enter(x) PROVE AheadInv'
  BY <1>3 DEF Enter
<1>6. CASE Checks
  BY <1>6 DEF Checks, Due, Release
<1>4. ASSUME NEW b \in Nodes, Request(b) PROVE AheadInv'
  BY <1>4 DEF Request, RequestFails, RequestSucceeds, RequestEmpty, Abandon, Release
<1>5. CASE Install \/ Flag
  BY <1>5 DEF Install, Flag, Abandon, Release
<1> QED
  BY <1>1, <1>2, <1>3, <1>4, <1>5, <1>6 DEF Next

(***************************************************************************)
(* knownValidatorsLastSlot and the set only move on, although goroutines   *)
(* of older heads run after those of newer ones: an installed set is       *)
(* replaced only by that of a refresh for a later slot, and never by none. *)
(***************************************************************************)
THEOREM SetOnlyMovesOn ==
    Spec => [][last' > last /\ known' # {}]_<<last, known>>
<1>1. AheadInv /\ [Next]_vars => [last' > last /\ known' # {}]_<<last, known>>
  <2> SUFFICES ASSUME AheadInv, [Next]_vars, <<last, known>>' # <<last, known>>
               PROVE  last' > last /\ known' # {}
    OBVIOUS
  <2>1. Install /\ ~Refused(collected)
    BY DEF Next, vars, NewHead, Enter, Request, RequestFails, RequestSucceeds,
           RequestEmpty, Checks, Install, Flag
  <2> QED
    BY <2>1 DEF Install, Refused, AheadInv
<1>2. Init => AheadInv
  BY DEF Init, AheadInv
<1> QED
  BY <1>1, <1>2, AheadStep, PTL DEF Spec

-----------------------------------------------------------------------------
(* Proposer duties: the model ProposerDuties, with variables of its own. *)

(***************************************************************************)
(* Epochs follow slots.                                                    *)
(***************************************************************************)
LEMMA EpochIsMonotonic ==
    ASSUME NEW x \in Nat, NEW y \in Nat, NEW n \in Nat \ {0}, x <= y
    PROVE  x \div n <= y \div n
  OBVIOUS

(***************************************************************************)
(* Two slots no more than an epoch apart lie in the same epoch or in       *)
(* successive ones.                                                        *)
(***************************************************************************)
LEMMA EpochOfNear ==
    ASSUME NEW x \in Nat, NEW y \in Nat, NEW n \in Nat \ {0}, x <= y + n
    PROVE  x \div n <= y \div n + 1
  OBVIOUS

\* What is written and read while every epoch has duties: once Redis has duties
\* it keeps some, and the gate slot is set only with duties in the map.
RetryInv ==
    /\ hkPending \subseteq 0 .. MaxSlot /\ hkBusy \in 0 .. MaxSlot
    /\ apiPending \subseteq Nat /\ apiBusy \in Nat /\ apiSlot \in Nat
    /\ loaded \notin {Unread, {}} => redis # {}
    /\ apiSlot > 0 => redis # {} /\ apiMap # {} /\ loaded # {}

(***************************************************************************)
(* Every step of the housekeeper and of the API keeps it, failures         *)
(* included: the duties fetched are those of an epoch that has some.       *)
(***************************************************************************)
LEMMA RetryStep ==
    ASSUME Epochs \subseteq Registered
    PROVE  RetryInv /\ [DutiesNext]_dutiesVars => RetryInv'
<1> SUFFICES ASSUME RetryInv, [DutiesNext]_dutiesVars PROVE RetryInv'
  OBVIOUS
<1> USE DEF RetryInv
<1>1. CASE UNCHANGED dutiesVars
  BY <1>1 DEF dutiesVars, hk, api, Unread
<1>2. ASSUME NEW s \in Slots,
             Advance(s) \/ HkNewSlot(s) \/ ApiNewSlot(s)
      PROVE  RetryInv'
  <2>1. s \in 0 .. MaxSlot /\ s \in Nat
    BY ChainAssumption DEF Slots
  <2>2. /\ hkPending' \in {hkPending, hkPending \cup {s}}
        /\ apiPending' \in {apiPending, apiPending \cup {s}}
        /\ UNCHANGED <<hkBusy, redis, apiBusy, loaded, apiSlot, apiMap>>
    BY <1>2 DEF Advance, HkNewSlot, ApiNewSlot, hk, api
  <2> QED
    BY <2>1, <2>2 DEF Unread
<1>3. ASSUME NEW s \in hkPending, HkEnter(s) PROVE RetryInv'
  <2>1. /\ hkPending' \subseteq hkPending /\ hkBusy' \in {s, hkBusy}
        /\ UNCHANGED <<redis, apiPending, apiBusy, loaded, apiSlot, apiMap>>
    BY <1>3 DEF HkEnter, api
  <2> QED
    BY <2>1 DEF Unread
<1>4. ASSUME NEW f \in BOOLEAN, HkUpdate(f) PROVE RetryInv'
  <2>1. /\ redis' = Fetched(f) /\ hkBusy' = 0
        /\ UNCHANGED <<hkPending, apiPending, apiBusy, loaded, apiSlot, apiMap>>
    BY <1>4 DEF HkUpdate, api
  <2>2. /\ hkBusy \div SlotsPerEpoch <= MaxSlot \div SlotsPerEpoch
        /\ hkBusy \div SlotsPerEpoch \in Nat /\ MaxSlot \div SlotsPerEpoch \in Nat
    BY EpochIsMonotonic, ChainAssumption
  <2>3. Epoch(hkBusy) \in Epochs
    BY <2>2 DEF Epochs, Epoch
  <2>4. redis' # {}
    BY <2>1, <2>3 DEF Fetched
  <2> QED
    BY <2>1, <2>4, ChainAssumption DEF Unread
<1>5. CASE HkFail
  BY <1>5, ChainAssumption DEF HkFail, api, Unread
<1>6. ASSUME NEW s \in apiPending, ApiEnter(s) PROVE RetryInv'
  <2>1. /\ apiPending' \subseteq apiPending /\ apiBusy' \in {s, apiBusy}
        /\ UNCHANGED <<hkPending, hkBusy, redis, loaded, apiSlot, apiMap>>
    BY <1>6 DEF ApiEnter, hk
  <2> QED
    BY <2>1 DEF Unread
<1>7. CASE ApiLoad \/ ApiLoadFails
  <2>1. /\ loaded' \in {loaded, redis} /\ apiBusy' \in {0, apiBusy}
        /\ UNCHANGED <<hkPending, hkBusy, redis, apiPending, apiSlot, apiMap>>
    BY <1>7 DEF ApiLoad, ApiLoadFails, hk
  <2> QED
    BY <2>1 DEF Unread
<1>8. CASE ApiStore
  <2>1. /\ loaded # Unread /\ apiMap' = loaded /\ loaded' = Unread
        /\ apiSlot' = GateSlot /\ apiBusy' = 0
        /\ UNCHANGED <<hkPending, hkBusy, redis, apiPending>>
    BY <1>8 DEF ApiStore, hk
  <2>2. CASE loaded = {}
    BY <2>1, <2>2 DEF GateSlot, Unread
  <2>3. CASE loaded # {}
    BY <2>1, <2>3 DEF GateSlot, Unread
  <2> QED
    BY <2>2, <2>3
<1> QED
  BY <1>1, <1>2, <1>3, <1>4, <1>5, <1>6, <1>7, <1>8 DEF DutiesNext, Step

(***************************************************************************)
(* updateProposerDuties of the API: as long as there are duties to be had, *)
(* an empty map is never behind a closed gate, so the next head event      *)
(* tries again, whatever failed before and however late goroutines run.    *)
(***************************************************************************)
THEOREM EmptyMapIsRetried == DutiesSpec => []EmptyIsRetried
<1>1. CASE Epochs \subseteq Registered
  <2>1. DutiesInit => RetryInv
    <3> SUFFICES ASSUME DutiesInit PROVE RetryInv
      OBVIOUS
    <3>1. /\ leg \in Legs /\ slot = leg.from /\ hkPending = {slot} /\ hkBusy = 0
          /\ apiPending = {slot} /\ apiBusy = 0 /\ loaded = Unread /\ apiSlot = 0
      BY DEF DutiesInit
    <3>2. slot \in 1 .. MaxSlot
      BY <3>1, LegsAssumption
    <3> QED
      BY <3>1, <3>2, ChainAssumption DEF RetryInv
  <2>2. RetryInv => EmptyIsRetried
    BY DEF RetryInv, EmptyIsRetried, ApiDue, Gate
  <2> QED
    BY <1>1, <2>1, <2>2, RetryStep, PTL DEF DutiesSpec
<1>2. CASE ~(Epochs \subseteq Registered)
  <2>1. EmptyIsRetried
    BY <1>2 DEF EmptyIsRetried
  <2> QED
    BY <2>1, PTL
<1> QED
  BY <1>1, <1>2

-----------------------------------------------------------------------------
(***************************************************************************)
(* The coverage of the next slot, when goroutines keep up with the chain.  *)
(***************************************************************************)

Both(d) == {Epoch(d), Epoch(d) + 1} \cap Registered

HkIdle == hkPending = {} /\ hkBusy = 0
ApiIdle == apiPending = {} /\ apiBusy = 0

\* A service works on its newest head slot only, and is done with it before
\* the chain goes on.
ServiceInv(h, pending_, busy) ==
    /\ h \in Nat /\ h <= slot /\ slot <= h + 1 + leg.skip
    /\ pending_ \subseteq {h} /\ busy \in {0, h}
    /\ h # slot => pending_ = {} /\ busy = 0

\* Redis holds the duties of a slot less than half an epoch old once the
\* housekeeper is done with the newest slot.  Before its first update, at the
\* slot of the start, it may hold anything.
RedisInv ==
    \/ hkSlot = 0 /\ ~HkIdle /\ slot = leg.from
    \/ /\ hkSlot > 0 /\ hkSlot <= hkHead
       /\ redis = Both(hkSlot)
       /\ slot <= hkSlot + HalfEpoch + leg.skip
       /\ HkIdle /\ hkHead = slot => slot < hkSlot + HalfEpoch

\* The update in progress has read what Redis held at its slot: the duties of
\* a slot less than half an epoch and the missed slots behind, except at the start.
LoadedInv ==
    loaded # Unread =>
        /\ apiBusy # 0
        /\ \/ apiBusy = leg.from
           \/ \E d \in Nat : /\ loaded = Both(d) /\ d <= apiHead
                             /\ apiHead <= d + HalfEpoch + leg.skip

\* The map still holds what the API read at the start: not for long.
AtStart == /\ apiSlot = leg.from
           /\ apiHead <= leg.from + 8 + leg.skip
           /\ ApiIdle => apiHead <= leg.from + 7

\* The map holds the duties of a slot that is not too far behind.
Recent == \E d \in Nat : /\ apiMap = Both(d) /\ d <= apiHead
                         /\ apiSlot <= d + HalfEpoch + leg.skip
                         /\ apiHead <= d + HalfEpoch + 2 * leg.skip + 8
                         /\ ApiIdle => apiHead <= d + HalfEpoch + leg.skip + 7

MapInv == apiSlot > 0 => AtStart \/ Recent

CalmInv ==
    /\ leg \in Legs /\ leg.calm = TRUE
    /\ slot \in 1 .. MaxSlot /\ leg.from \in Nat /\ leg.from <= slot
    /\ apiSlot > 0 => leg.from <= apiSlot
    /\ hkSlot \in Nat /\ apiSlot \in Nat /\ apiSlot <= apiHead
    /\ ServiceInv(hkHead, hkPending, hkBusy)
    /\ ServiceInv(apiHead, apiPending, apiBusy)
    /\ RedisInv /\ LoadedInv /\ MapInv

(***************************************************************************)
(* Within the range of the slot arithmetic the unsigned difference that    *)
(* the gates compute is the number of slots since the last update.         *)
(***************************************************************************)
LEMMA SlotsSinceIsExact ==
    ASSUME NEW s \in Nat, NEW d \in Nat, d <= s, s <= MaxSlot
    PROVE  SlotsSince(s, d) = s - d
<1>1. 2 ^ Width \in Int /\ MaxSlot < 2 ^ Width /\ Width \in Nat /\ MaxSlot \in Nat
  BY ChainAssumption, WidthAssumption
<1> DEFINE W == 2 ^ Width
<1>2. W \in Nat \ {0} /\ s - d \in Nat /\ s - d < W
  BY <1>1
<1> HIDE DEF W
<1>3. (s - d) % W = s - d
  BY <1>2
<1> QED
  BY <1>3 DEF W, SlotsSince

\* The bound under which coverage is shown: with 32 slots in an epoch, at most
\* three slots in a row are missed.
FewMissed == \A l \in Legs : l.calm = TRUE => 4 * l.skip + 18 <= SlotsPerEpoch

(***************************************************************************)
(* The facts about the constants that the steps below use.                 *)
(***************************************************************************)
LEMMA DutyConstants ==
    ASSUME FewMissed, leg \in Legs, leg.calm = TRUE
    PROVE  /\ leg.skip \in Nat /\ leg.from \in 1 .. MaxSlot
           /\ 4 * leg.skip + 18 <= SlotsPerEpoch
           /\ HalfEpoch \in Nat \ {0} /\ 2 * HalfEpoch <= SlotsPerEpoch
           /\ SlotsPerEpoch \in Nat \ {0} /\ MaxSlot \in Nat
<1>1. /\ leg.skip \in Nat /\ leg.from \in 1 .. MaxSlot
      /\ SlotsPerEpoch \in Nat \ {0} /\ MaxSlot \in Nat
  BY ChainAssumption, LegsAssumption
<1>2. 4 * leg.skip + 18 <= SlotsPerEpoch
  BY DEF FewMissed
<1> QED
  BY <1>1, <1>2 DEF HalfEpoch

(***************************************************************************)
(* Every step of a calm stretch keeps the invariant.                       *)
(***************************************************************************)
LEMMA CalmStep ==
    ASSUME FewMissed
    PROVE  CalmInv /\ [DutiesNext]_dutiesVars => CalmInv'
<1> SUFFICES ASSUME CalmInv, [DutiesNext]_dutiesVars PROVE CalmInv'
  OBVIOUS
<1> DEFINE P == HalfEpoch
           K == leg.skip
<1>0. /\ leg \in Legs /\ leg.calm = TRUE /\ K \in Nat /\ P \in Nat \ {0}
      /\ slot \in 1 .. MaxSlot /\ slot \in Nat \ {0} /\ MaxSlot \in Nat
  <2>1. leg \in Legs /\ leg.calm = TRUE /\ slot \in 1 .. MaxSlot
    BY Zenon DEF CalmInv
  <2>2. K \in Nat /\ P \in Nat \ {0} /\ MaxSlot \in Nat
    BY <2>1, DutyConstants, Zenon
  <2> QED
    BY <2>1, <2>2
<1>1. CASE UNCHANGED dutiesVars
  BY <1>1 DEF dutiesVars, hk, api, CalmInv, ServiceInv, RedisInv, LoadedInv,
       MapInv, AtStart, Recent, HkIdle, ApiIdle, Both
<1>2. ASSUME NEW s \in Slots, Advance(s), UNCHANGED leg PROVE CalmInv'
  <2>1. /\ s \in Nat /\ s > slot /\ s <= slot + 1 + K /\ s <= MaxSlot
        /\ hkHead = slot /\ HkIdle /\ apiHead = slot /\ ApiIdle
        /\ slot' = s
        /\ UNCHANGED <<leg, hkHead, hkPending, hkBusy, hkSlot, redis>>
        /\ UNCHANGED <<apiHead, apiPending, apiBusy, loaded, apiSlot, apiMap>>
    BY <1>0, <1>2 DEF Advance, Slots, Calm, Settled, hk,
         api, HkIdle, ApiIdle
  <2>2. ServiceInv(hkHead, hkPending, hkBusy)' /\ ServiceInv(apiHead, apiPending, apiBusy)'
    BY <1>0, <2>1 DEF CalmInv, ServiceInv, HkIdle, ApiIdle
  <2>3. RedisInv'
    BY <1>0, <2>1 DEF CalmInv, RedisInv, HkIdle, Both
  <2>4. LoadedInv' /\ MapInv'
    BY <2>1 DEF CalmInv, LoadedInv, MapInv, AtStart, Recent, ApiIdle, Both
  <2> QED
    BY <1>0, <2>1, <2>2, <2>3, <2>4 DEF CalmInv
<1>3. ASSUME NEW s \in Slots, HkNewSlot(s), UNCHANGED leg PROVE CalmInv'
  <2>1. /\ s \in Nat /\ s > hkHead /\ s <= slot /\ (K > 0 => s = slot)
        /\ hkHead' = s /\ hkPending' = hkPending \cup {s}
        /\ UNCHANGED <<leg, slot, hkBusy, hkSlot, redis>>
        /\ UNCHANGED <<apiHead, apiPending, apiBusy, loaded, apiSlot, apiMap>>
    BY <1>0, <1>3 DEF HkNewSlot, Announced, Slots, api
  <2>2. s = slot /\ HkIdle /\ hkHead \in Nat
    BY <1>0, <2>1 DEF CalmInv, ServiceInv, HkIdle
  <2>3. ServiceInv(hkHead, hkPending, hkBusy)'
    BY <1>0, <2>1, <2>2 DEF CalmInv, ServiceInv, HkIdle
  <2>4. RedisInv'
    BY <1>0, <2>1, <2>2 DEF CalmInv, RedisInv, HkIdle, Both
  <2>5. ServiceInv(apiHead, apiPending, apiBusy)' /\ LoadedInv' /\ MapInv'
    BY <2>1 DEF CalmInv, ServiceInv, LoadedInv, MapInv, AtStart, Recent, ApiIdle, Both
  <2> QED
    BY <1>0, <2>1, <2>3, <2>4, <2>5 DEF CalmInv
<1>4. ASSUME NEW s \in hkPending, HkEnter(s), UNCHANGED leg PROVE CalmInv'
  <2>1. /\ s = hkHead /\ hkHead = slot /\ hkPending' = {}
        /\ hkBusy' = (IF hkBusy = 0 /\ ~Gate(s, hkSlot, P) THEN s ELSE hkBusy)
        /\ UNCHANGED <<leg, slot, hkHead, hkSlot, redis>>
        /\ UNCHANGED <<apiHead, apiPending, apiBusy, loaded, apiSlot, apiMap>>
    BY <1>4 DEF HkEnter, api, CalmInv, ServiceInv
  <2>2. ServiceInv(hkHead, hkPending, hkBusy)'
    BY <1>0, <2>1 DEF CalmInv, ServiceInv
  <2>3. hkBusy' = 0 => hkSlot > 0 /\ (hkSlot <= hkHead => slot < hkSlot + P)
    <3> SUFFICES ASSUME hkBusy' = 0
                 PROVE  hkSlot > 0 /\ (hkSlot <= hkHead => slot < hkSlot + P)
      OBVIOUS
    <3>1. Gate(slot, hkSlot, P)
      BY <1>0, <2>1
    <3>2. hkSlot > 0 /\ SlotsSince(slot, hkSlot) < P
      BY <3>1 DEF Gate
    <3>3. hkSlot <= hkHead => SlotsSince(slot, hkSlot) = slot - hkSlot
      BY <1>0, <2>1, SlotsSinceIsExact DEF CalmInv
    <3> QED
      BY <1>0, <3>2, <3>3 DEF CalmInv
  <2>4. RedisInv'
    <3>1. ~HkIdle
      BY <1>4 DEF HkIdle
    <3> QED
      BY <1>0, <2>1, <2>3, <3>1 DEF CalmInv, RedisInv, HkIdle, Both
  <2>5. ServiceInv(apiHead, apiPending, apiBusy)' /\ LoadedInv' /\ MapInv'
    BY <2>1 DEF CalmInv, ServiceInv, LoadedInv, MapInv, AtStart, Recent, ApiIdle, Both
  <2> QED
    BY <1>0, <2>1, <2>2, <2>4, <2>5 DEF CalmInv
<1>5. ASSUME NEW f \in BOOLEAN, HkUpdate(f), UNCHANGED leg PROVE CalmInv'
  <2>1. f = FALSE
    BY <1>0, <1>5 DEF HkUpdate, MayFail, Calm
  <2>2. /\ hkBusy # 0 /\ redis' = Both(hkBusy) /\ hkSlot' = hkBusy /\ hkBusy' = 0
        /\ UNCHANGED <<leg, slot, hkHead, hkPending>>
        /\ UNCHANGED <<apiHead, apiPending, apiBusy, loaded, apiSlot, apiMap>>
    BY <1>5, <2>1 DEF HkUpdate, Fetched, NextEpoch, api, Both
  <2>3. hkBusy = hkHead /\ hkHead = slot
    BY <2>2 DEF CalmInv, ServiceInv
  <2>4. ServiceInv(hkHead, hkPending, hkBusy)'
    BY <1>0, <2>2, <2>3 DEF CalmInv, ServiceInv
  <2>5. RedisInv'
    BY <1>0, <2>2, <2>3 DEF CalmInv, RedisInv, HkIdle, Both
  <2>6. ServiceInv(apiHead, apiPending, apiBusy)' /\ LoadedInv' /\ MapInv'
    BY <2>2 DEF CalmInv, ServiceInv, LoadedInv, MapInv, AtStart, Recent, ApiIdle, Both
  <2> QED
    BY <1>0, <2>2, <2>3, <2>4, <2>5, <2>6 DEF CalmInv
<1>6. CASE HkFail \/ ApiLoadFails
  BY <1>0, <1>6 DEF HkFail, ApiLoadFails, MayFail, Calm
<1>7. ASSUME NEW s \in Slots, ApiNewSlot(s), UNCHANGED leg PROVE CalmInv'
  <2>1. /\ s \in Nat /\ s > apiHead /\ s <= slot /\ (K > 0 => s = slot)
        /\ apiHead' = s /\ apiPending' = apiPending \cup {s}
        /\ UNCHANGED <<leg, slot, hkHead, hkPending, hkBusy, hkSlot, redis>>
        /\ UNCHANGED <<apiBusy, loaded, apiSlot, apiMap>>
    BY <1>0, <1>7 DEF ApiNewSlot, Announced, Slots, hk
  <2>2. s = slot /\ ApiIdle /\ apiHead \in Nat /\ slot <= apiHead + 1 + K
    BY <1>0, <2>1 DEF CalmInv, ServiceInv, ApiIdle
  <2>3. ServiceInv(apiHead, apiPending, apiBusy)'
    BY <1>0, <2>1, <2>2 DEF CalmInv, ServiceInv, ApiIdle
  <2>4. LoadedInv'
    BY <2>1, <2>2 DEF CalmInv, LoadedInv, ApiIdle
  <2>5. MapInv'
    <3>1. ~ApiIdle'
      BY <2>1 DEF ApiIdle
    <3>2. ASSUME AtStart PROVE AtStart'
      BY <1>0, <2>1, <2>2, <3>1, <3>2 DEF AtStart, CalmInv
    <3>3. ASSUME Recent PROVE Recent'
      <4>1. PICK d \in Nat : /\ apiMap = Both(d) /\ d <= apiHead
                             /\ apiSlot <= d + P + K
                             /\ apiHead <= d + P + K + 7
        BY <2>2, <3>3 DEF Recent
      <4>2. d <= s /\ s <= d + P + 2 * K + 8
        BY <1>0, <2>1, <2>2, <4>1
      <4> QED
        BY <2>1, <3>1, <4>1, <4>2 DEF Recent, Both
    <3> QED
      BY <2>1, <3>2, <3>3 DEF CalmInv, MapInv
  <2>6. ServiceInv(hkHead, hkPending, hkBusy)' /\ RedisInv'
    BY <2>1 DEF CalmInv, ServiceInv, RedisInv, HkIdle, Both
  <2> QED
    BY <1>0, <2>1, <2>2, <2>3, <2>4, <2>5, <2>6 DEF CalmInv
<1>8. ASSUME NEW s \in apiPending, ApiEnter(s), UNCHANGED leg PROVE CalmInv'
  <2>1. /\ s = apiHead /\ apiHead = slot /\ apiPending' = {}
        /\ apiBusy' = (IF apiBusy = 0 /\ ~Gate(s, apiSlot, 8) THEN s ELSE apiBusy)
        /\ UNCHANGED <<leg, slot, hkHead, hkPending, hkBusy, hkSlot, redis>>
        /\ UNCHANGED <<apiHead, loaded, apiSlot, apiMap>>
    BY <1>8 DEF ApiEnter, ApiDue, hk, CalmInv, ServiceInv
  <2>2. ServiceInv(apiHead, apiPending, apiBusy)'
    BY <1>0, <2>1 DEF CalmInv, ServiceInv
  <2>3. apiBusy' = 0 => slot < apiSlot + 8
    <3> SUFFICES ASSUME apiBusy' = 0 PROVE slot < apiSlot + 8
      OBVIOUS
    <3>1. Gate(slot, apiSlot, 8)
      BY <1>0, <2>1
    <3>2. SlotsSince(slot, apiSlot) < 8
      BY <3>1 DEF Gate
    <3>3. SlotsSince(slot, apiSlot) = slot - apiSlot
      BY <1>0, <2>1, SlotsSinceIsExact DEF CalmInv
    <3> QED
      BY <1>0, <3>2, <3>3 DEF CalmInv
  <2>4. LoadedInv'
    BY <1>0, <2>1 DEF CalmInv, LoadedInv, Both
  <2>5. MapInv'
    <3>1. ApiIdle' => slot < apiSlot + 8
      BY <2>3 DEF ApiIdle
    <3>2. ASSUME AtStart PROVE AtStart'
      BY <1>0, <2>1, <3>1, <3>2 DEF AtStart, CalmInv
    <3>3. ASSUME Recent PROVE Recent'
      <4>1. PICK d \in Nat : /\ apiMap = Both(d) /\ d <= apiHead
                             /\ apiSlot <= d + P + K
                             /\ apiHead <= d + P + 2 * K + 8
        BY <3>3 DEF Recent
      <4>2. ApiIdle' => apiHead <= d + P + K + 7
        BY <1>0, <2>1, <3>1, <4>1 DEF CalmInv
      <4> QED
        BY <2>1, <4>1, <4>2 DEF Recent, Both
    <3> QED
      BY <2>1, <3>2, <3>3 DEF CalmInv, MapInv
  <2>6. ServiceInv(hkHead, hkPending, hkBusy)' /\ RedisInv'
    BY <2>1 DEF CalmInv, ServiceInv, RedisInv, HkIdle, Both
  <2> QED
    BY <1>0, <2>1, <2>2, <2>4, <2>5, <2>6 DEF CalmInv
<1>9. CASE ApiLoad /\ UNCHANGED leg
  <2>1. /\ apiBusy # 0 /\ loaded = Unread /\ loaded' = redis
        /\ UNCHANGED <<leg, slot, hkHead, hkPending, hkBusy, hkSlot, redis>>
        /\ UNCHANGED <<apiHead, apiPending, apiBusy, apiSlot, apiMap>>
    BY <1>9 DEF ApiLoad, hk
  <2>2. apiHead = slot /\ apiBusy = slot /\ hkHead \in Nat /\ hkHead <= slot
    BY <2>1 DEF CalmInv, ServiceInv
  <2>3. RedisInv'
    BY <2>1 DEF CalmInv, RedisInv, HkIdle, Both
  <2>4. LoadedInv'
    <3>1. CASE slot = leg.from
      BY <2>1, <2>2, <3>1 DEF LoadedInv
    <3>2. CASE /\ hkSlot <= hkHead /\ redis = Both(hkSlot)
               /\ slot <= hkSlot + P + K
      <4>1. hkSlot \in Nat /\ hkSlot <= apiHead
        BY <1>0, <2>2, <3>2 DEF CalmInv
      <4> QED
        BY <2>1, <2>2, <3>2, <4>1 DEF LoadedInv, Both
    <3> QED
      BY <3>1, <3>2 DEF CalmInv, RedisInv
  <2>5. /\ ServiceInv(hkHead, hkPending, hkBusy)' /\ ServiceInv(apiHead, apiPending, apiBusy)'
        /\ MapInv'
    BY <2>1 DEF CalmInv, ServiceInv, MapInv, AtStart, Recent, ApiIdle, Both
  <2> QED
    BY <1>0, <2>1, <2>3, <2>4, <2>5 DEF CalmInv
<1>10. CASE ApiStore /\ UNCHANGED leg
  <2>1. /\ apiBusy # 0 /\ loaded # Unread /\ loaded' = Unread
        /\ apiMap' = loaded /\ apiBusy' = 0
        /\ apiSlot' = (IF loaded = {} THEN apiSlot ELSE apiBusy)
        /\ UNCHANGED <<leg, slot, hkHead, hkPending, hkBusy, hkSlot, redis>>
        /\ UNCHANGED <<apiHead, apiPending>>
    BY <1>10 DEF ApiStore, GateSlot, hk
  <2>2. /\ apiHead = slot /\ apiBusy = apiHead /\ apiSlot' \in Nat /\ apiSlot' <= apiHead
        /\ apiSlot' > 0 => leg.from <= apiSlot'
    BY <1>0, <2>1 DEF CalmInv, ServiceInv
  <2>3. RedisInv'
    BY <2>1 DEF CalmInv, RedisInv, HkIdle, Both
  <2>4. LoadedInv'
    BY <2>1 DEF LoadedInv
  <2>5. MapInv'
    <3>1. CASE apiBusy = leg.from
      <4>1. leg.from \in Nat
        BY DEF CalmInv
      <4>2. apiSlot' > 0 => apiSlot' = leg.from
        BY <1>0, <2>2, <3>1, <4>1
      <4> QED
        BY <1>0, <2>1, <2>2, <3>1, <4>1, <4>2 DEF MapInv, AtStart
    <3>2. ASSUME NEW d \in Nat, loaded = Both(d), d <= apiHead, apiHead <= d + P + K
          PROVE  MapInv'
      <4>1. apiSlot' <= d + P + K /\ apiHead <= d + P + 2 * K + 8 /\ apiHead <= d + P + K + 7
        BY <1>0, <2>2, <3>2
      <4> QED
        BY <2>1, <2>2, <3>2, <4>1 DEF MapInv, Recent, Both
    <3> QED
      BY <2>1, <3>1, <3>2 DEF CalmInv, LoadedInv
  <2>6. ServiceInv(hkHead, hkPending, hkBusy)' /\ ServiceInv(apiHead, apiPending, apiBusy)'
    BY <1>0, <2>1, <2>2 DEF CalmInv, ServiceInv
  <2> QED
    BY <1>0, <2>1, <2>2, <2>3, <2>4, <2>5, <2>6 DEF CalmInv
<1> QED
  BY <1>1, <1>2, <1>3, <1>4, <1>5, <1>6, <1>7, <1>8, <1>9, <1>10 DEF DutiesNext, Step

(***************************************************************************)
(* checkSubmissionFeeRecipient: as long as goroutines keep up, nothing     *)
(* fails and few slots in a row are missed, an instance that has loaded    *)
(* duties once has those of the next slot's epoch, although both services  *)
(* skip most slots and the API may read Redis just before the housekeeper  *)
(* writes it.  Whatever Redis held at the start is forgotten after eight   *)
(* slots and those missed after them.                                      *)
(***************************************************************************)
THEOREM NextSlotIsCovered ==
    ASSUME FewMissed
    PROVE  DutiesSpec => []DutiesCoverNextSlot
<1> DEFINE Inv == leg \in Legs /\ (leg.calm = TRUE => CalmInv)
<1>1. DutiesInit => Inv
  <2> SUFFICES ASSUME DutiesInit, leg.calm = TRUE PROVE CalmInv
    BY DEF DutiesInit
  <2>1. /\ leg \in Legs /\ slot = leg.from
        /\ hkHead = slot /\ hkPending = {slot} /\ hkBusy = 0 /\ hkSlot = 0
        /\ apiHead = slot /\ apiPending = {slot} /\ apiBusy = 0 /\ loaded = Unread
        /\ apiSlot = 0
    BY DEF DutiesInit
  <2>2. leg.from \in 1 .. MaxSlot /\ MaxSlot \in Nat /\ leg.skip \in Nat
    BY <2>1, DutyConstants, Zenon
  <2> QED
    BY <2>1, <2>2 DEF CalmInv, ServiceInv, RedisInv, LoadedInv, MapInv, HkIdle
<1>2. Inv /\ [DutiesNext]_dutiesVars => Inv'
  <2> SUFFICES ASSUME Inv, [DutiesNext]_dutiesVars PROVE Inv'
    OBVIOUS
  <2>1. leg' = leg
    BY DEF DutiesNext, dutiesVars
  <2> QED
    BY <2>1, CalmStep
<1>3. Inv => DutiesCoverNextSlot
  <2> SUFFICES ASSUME Inv, Calm, apiSlot > 0,
                      apiHead > leg.from + 8 + leg.skip,
                      Epoch(apiHead + 1) \in Registered
               PROVE  Epoch(apiHead + 1) \in apiMap
    BY DEF DutiesCoverNextSlot
  <2>1. CalmInv /\ leg \in Legs /\ leg.calm = TRUE
    <3>1. leg.calm = TRUE
      BY LegsAssumption DEF Calm
    <3> QED
      BY <3>1
  <2>2. PICK d \in Nat : /\ apiMap = Both(d) /\ d <= apiHead
                         /\ apiHead <= d + HalfEpoch + 2 * leg.skip + 8
    <3>1. leg.from \in Nat /\ leg.skip \in Nat /\ apiHead \in Nat
      BY <2>1, DutyConstants DEF CalmInv, ServiceInv
    <3>2. ~AtStart
      BY <3>1 DEF AtStart
    <3> QED
      BY <2>1, <3>2 DEF CalmInv, MapInv, Recent
  <2>3. apiHead \in Nat /\ apiHead + 1 <= d + SlotsPerEpoch /\ d <= apiHead + 1
    <3>1. /\ leg.skip \in Nat /\ 4 * leg.skip + 18 <= SlotsPerEpoch
          /\ HalfEpoch \in Nat /\ 2 * HalfEpoch <= SlotsPerEpoch
          /\ SlotsPerEpoch \in Nat
      BY <2>1, DutyConstants, Zenon
    <3>2. apiHead \in Nat
      BY <2>1 DEF CalmInv, ServiceInv
    <3> QED
      BY <2>2, <3>1, <3>2
  <2>4. SlotsPerEpoch \in Nat \ {0}
    BY ChainAssumption
  <2>5. /\ Epoch(apiHead + 1) <= Epoch(d) + 1
        /\ Epoch(d) <= Epoch(apiHead + 1)
        /\ Epoch(d) \in Nat /\ Epoch(apiHead + 1) \in Nat
    BY <2>3, <2>4, EpochIsMonotonic, EpochOfNear DEF Epoch
  <2> QED
    BY <2>2, <2>5 DEF Both
<1> QED
  BY <1>1, <1>2, <1>3, PTL DEF DutiesSpec
=============================================================================
