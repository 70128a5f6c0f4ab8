------------------------------ MODULE GetHeader ------------------------------
(***************************************************************************)
(* handleGetHeader of service.go over time: the checks at the start of the *)
(* call, the optional delay of the answer (computeGetHeaderDelay of        *)
(* utils.go), and the read of the best bid after it.  Head slots change    *)
(* and the server may be told to stop meanwhile.                           *)
(*                                                                         *)
(* Time is in milliseconds since genesis, in steps of the model's choice.  *)
(* What the best bid is, is the subject of BidCache: here there is one, of *)
(* a positive value or zero, or there is none.  Time and slots have no     *)
(* bound here; HeaderToPayload, where the same calls are followed up to    *)
(* the payload, has one.                                                   *)
(***************************************************************************)
EXTENDS Integers

CONSTANTS Calls,          \* the getHeader calls
          SlotMs,         \* length of a slot
          Cutoff,         \* getHeaderRequestCutoffMs, 0 for none
          Target,         \* getHeaderResponseDelayTargetMs, 0 for no delay
          Safety,         \* getHeaderResponseDelaySafetyMs
          StopsBids,      \* ProposerAPI and API_SHUTDOWN_STOP_SENDING_BIDS
          MayLeave        \* clients may close the connection

ASSUME TimeAssumption == /\ SlotMs \in Nat \ {0}
                         /\ Cutoff \in Nat /\ Target \in Nat /\ Safety \in Nat
                         /\ StopsBids \in BOOLEAN

VARIABLES now,        \* the clock
          head,       \* api.headSlot
          stopAt,     \* when StopServer was called (srvShutdown is set), or Never
          force204,   \* ffForceGetHeader204
          pc,         \* [Calls -> where the call is]
          slot,       \* [Calls -> the slot asked for]
          deadline,   \* [Calls -> the client's deadline, NoDeadline if not sent]
          until,      \* [Calls -> the end of the delay]
          answer,     \* [Calls -> what was answered]
          answeredAt  \* history: [Calls -> when]

vars == <<now, head, stopAt, force204, pc, slot, deadline, until, answer,
          answeredAt>>

NoDeadline == -1
Never == -1
Agents == {"refused", "delayed", "plain"}

SlotStart(s) == s * SlotMs

Init == /\ now \in Nat
        /\ head \in Nat /\ SlotStart(head) <= now
        /\ stopAt = Never /\ force204 = FALSE
        /\ pc = [c \in Calls |-> "idle"]
        /\ slot = [c \in Calls |-> 0]
        /\ deadline = [c \in Calls |-> NoDeadline]
        /\ until = [c \in Calls |-> 0]
        /\ answer = [c \in Calls |-> "none"]
        /\ answeredAt = [c \in Calls |-> 0]

-----------------------------------------------------------------------------
(* The delay *)

\* capMs: the target, or the client's deadline if that is earlier
Cap(s, d) == IF d # NoDeadline /\ d < SlotStart(s) + Target
             THEN d ELSE SlotStart(s) + Target

\* Mutation of Delay: the safety margin is left out.
DelayWithoutSafety(ua, s, t, d) ==
    IF Target = 0 \/ ua # "delayed" \/ Cap(s, d) <= t THEN 0 ELSE Cap(s, d) - t

\* computeGetHeaderDelay at time t
Delay(ua, s, t, d) ==
    IF Target = 0 \/ ua # "delayed" \/ Cap(s, d) - Safety <= t
    THEN 0 ELSE Cap(s, d) - Safety - t

-----------------------------------------------------------------------------
(* The environment *)

\* A timer that is due fires before the clock moves on, and a call that does
\* not sleep is done in the same instant: the calls keep up with the clock.
Due(c) == pc[c] = "read" \/ (pc[c] = "sleep" /\ until[c] <= now)

Tick == /\ \A c \in Calls : ~Due(c)
        /\ now' = now + 1
        /\ UNCHANGED <<head, stopAt, force204, pc, slot, deadline, until,
                       answer, answeredAt>>

\* The head is at most the slot of the clock.
NewHead(s) == /\ s > head /\ SlotStart(s) <= now
              /\ head' = s
              /\ UNCHANGED <<now, stopAt, force204, pc, slot, deadline, until,
                             answer, answeredAt>>

\* StopServer; a second call returns at once.
StopServer == /\ stopAt = Never
              /\ stopAt' = now
              /\ force204' = StopsBids
              /\ UNCHANGED <<now, head, pc, slot, deadline, until, answer,
                             answeredAt>>

-----------------------------------------------------------------------------
(* The call *)

Answer(c, a) == /\ pc' = [pc EXCEPT ![c] = "done"]
                /\ answer' = [answer EXCEPT ![c] = a]
                /\ answeredAt' = [answeredAt EXCEPT ![c] = now]

\* Mutation of TooLate: the cutoff is compared with the wrong sign.
TooLateNever(s) == Cutoff > 0 /\ now < SlotStart(s) - Cutoff

\* "Only allow requests for the current slot until a certain cutoff time"
TooLate(s) == Cutoff > 0 /\ now > SlotStart(s) /\ now - SlotStart(s) > Cutoff

\* Mutation of Arrive: the flag StopServer sets is not read.
ArriveIgnoringStop(c, s, ua, d) ==
    /\ pc[c] = "idle"
    /\ slot' = [slot EXCEPT ![c] = s]
    /\ deadline' = [deadline EXCEPT ![c] = d]
    /\ until' = [until EXCEPT ![c] = now + Delay(ua, s, now, d)]
    /\ CASE s < head -> Answer(c, "400")
         [] s >= head /\ (ua = "refused" \/ TooLate(s)) -> Answer(c, "204")
         [] OTHER -> /\ pc' = [pc EXCEPT ![c] =
                                  IF Delay(ua, s, now, d) > 0 THEN "sleep" ELSE "read"]
                     /\ UNCHANGED <<answer, answeredAt>>
    /\ UNCHANGED <<now, head, stopAt, force204>>

\* The handler up to the delay
Arrive(c, s, ua, d) ==
    /\ pc[c] = "idle"
    /\ slot' = [slot EXCEPT ![c] = s]
    /\ deadline' = [deadline EXCEPT ![c] = d]
    /\ until' = [until EXCEPT ![c] = now + Delay(ua, s, now, d)]
    /\ CASE s < head -> Answer(c, "400")
         [] s >= head /\ (ua = "refused" \/ force204 \/ TooLate(s)) -> Answer(c, "204")
         [] OTHER -> /\ pc' = [pc EXCEPT ![c] =
                                  IF Delay(ua, s, now, d) > 0 THEN "sleep" ELSE "read"]
                     /\ UNCHANGED <<answer, answeredAt>>
    /\ UNCHANGED <<now, head, stopAt, force204>>

\* The timer fires.
Wake(c) ==
    /\ pc[c] = "sleep" /\ until[c] <= now
    /\ pc' = [pc EXCEPT ![c] = "read"]
    /\ UNCHANGED <<now, head, stopAt, force204, slot, deadline, until, answer,
                   answeredAt>>

\* The client closes the connection during the delay.
Leave(c) ==
    /\ MayLeave
    /\ pc[c] = "sleep"
    /\ Answer(c, "gone")
    /\ UNCHANGED <<now, head, stopAt, force204, slot, deadline, until>>

\* GetBestBid and the answer: a bid of value, or 204, or 400 on an error
Read(c, a) ==
    /\ pc[c] = "read"
    /\ a \in {"bid", "204", "400"}
    /\ Answer(c, a)
    /\ UNCHANGED <<now, head, stopAt, force204, slot, deadline, until>>

Next == \/ Tick \/ StopServer
        \/ \E s \in Nat : NewHead(s)
        \/ \E c \in Calls :
              \/ \E s \in Nat, ua \in Agents, d \in Nat \cup {NoDeadline} :
                    Arrive(c, s, ua, d)
              \/ Wake(c) \/ Leave(c)
              \/ \E a \in {"bid", "204", "400"} : Read(c, a)

Spec == Init /\ [][Next]_vars

-----------------------------------------------------------------------------
(* Properties *)

TypeOK == /\ now \in Nat /\ head \in Nat
          /\ stopAt \in Nat \cup {Never} /\ force204 \in BOOLEAN
          /\ pc \in [Calls -> {"idle", "sleep", "read", "done"}]
          /\ slot \in [Calls -> Nat]
          /\ deadline \in [Calls -> Nat \cup {NoDeadline}]
          /\ until \in [Calls -> Nat]
          /\ answer \in [Calls -> {"none", "400", "204", "bid", "gone"}]
          /\ answeredAt \in [Calls -> Nat]

\* A delayed call is still answered with the safety margin left before both the
\* target and the client's deadline: it never sleeps past either.
DelayLeavesMargin ==
    \A c \in Calls : pc[c] = "sleep" =>
        /\ until[c] + Safety <= SlotStart(slot[c]) + Target
        /\ deadline[c] # NoDeadline => until[c] + Safety <= deadline[c]

\* A bid is handed out at the latest at the cutoff or at the end of the longest
\* delay, whichever is later, although the cutoff is checked only before the
\* delay and the bid is read after it.
ServedInTime ==
    \A c \in Calls : answer[c] = "bid" /\ Cutoff > 0 =>
        \/ answeredAt[c] <= SlotStart(slot[c]) + Cutoff
        \/ answeredAt[c] <= SlotStart(slot[c]) + Target - Safety

\* With bids stopped, a call that is answered with a bid after StopServer slept
\* in its delay when the flag was set, and leaves the margin the delay leaves:
\* the answers stop after a bounded time.
BidsEndAfterStop ==
    \A c \in Calls : force204 /\ answer[c] = "bid" /\ answeredAt[c] > stopAt =>
        /\ answeredAt[c] = until[c]
        /\ answeredAt[c] + Safety <= SlotStart(slot[c]) + Target

-----------------------------------------------------------------------------
\* What comments of the code say and the code does not do.  TLC finds a
\* counterexample to each when it is added to MCHeaderToPayload.cfg.

\* "Stop returning bids", the first step of StopServer: no call is answered
\* with a bid afterwards, if the instance is configured so.
NoBidAfterStop ==
    \A c \in Calls : force204 /\ answer[c] = "bid" => answeredAt[c] <= stopAt
=============================================================================
