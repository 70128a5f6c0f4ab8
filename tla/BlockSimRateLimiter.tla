------------------------ MODULE BlockSimRateLimiter ------------------------
(***************************************************************************)
(* services/api/blocksim_ratelimiter.go: Send lets at most                 *)
(* maxConcurrentBlocks validation requests reach the block-simulation node *)
(* at a time.  It keeps one counter of all requests inside Send and parks  *)
(* the surplus on a sync.Cond.                                             *)
(*                                                                         *)
(* Every critical section of the mutex cv.L is one action.  sync.Cond      *)
(* wakes its waiters in ticket order, so the notify list is a sequence; a  *)
(* signalled goroutine still has to re-acquire the mutex, which is the     *)
(* "woken" stage.  The code tests the limit with IF, not in a loop: a      *)
(* woken request does not look at the counter again.                       *)
(***************************************************************************)
EXTENDS Integers, FiniteSets, Sequences

CONSTANTS
    Requests,            \* the concurrent callers of Send
    MaxConcurrentBlocks  \* maxConcurrentBlocks, 0 for no maximum

ASSUME RequestsAssumption == IsFiniteSet(Requests)
ASSUME MaxAssumption == MaxConcurrentBlocks \in Nat

VARIABLES
    counter,     \* b.counter
    stage,       \* stage[r]: where request r is inside Send
    notifyList   \* the requests parked in cv.Wait(), oldest first

vars == <<counter, stage, notifyList>>

Stages == {"outside", "waiting", "woken", "running"}

In(stages) == {r \in Requests : stage[r] \in stages}

Init ==
    /\ counter = 0
    /\ stage = [r \in Requests |-> "outside"]
    /\ notifyList = << >>

(***************************************************************************)
(* Lock; counter+1; cv.Wait() if that exceeds the maximum; Unlock.         *)
(***************************************************************************)
\* Mutation of MustWait: the limit is compared off by one.
OffByOneMustWait(cnt) == MaxConcurrentBlocks > 0 /\ cnt > MaxConcurrentBlocks + 1

MustWait(cnt) == MaxConcurrentBlocks > 0 /\ cnt > MaxConcurrentBlocks

EnterAndRun(r) ==
    /\ stage[r] = "outside"
    /\ ~MustWait(counter + 1)
    /\ counter' = counter + 1
    /\ stage' = [stage EXCEPT ![r] = "running"]
    /\ UNCHANGED notifyList

EnterAndWait(r) ==
    /\ stage[r] = "outside"
    /\ MustWait(counter + 1)
    /\ counter' = counter + 1
    /\ stage' = [stage EXCEPT ![r] = "waiting"]
    /\ notifyList' = Append(notifyList, r)

(***************************************************************************)
(* cv.Wait() returns: the signalled request holds the mutex again, drops   *)
(* it and sends its JSON-RPC request.                                      *)
(***************************************************************************)
Resume(r) ==
    /\ stage[r] = "woken"
    /\ stage' = [stage EXCEPT ![r] = "running"]
    /\ UNCHANGED <<counter, notifyList>>

(***************************************************************************)
(* The request ends, by an answer, a validation error, a transport error,  *)
(* the client timeout, a closed context or a missing payload; every one of *)
(* those returns runs the deferred function: counter-1 and cv.Signal().    *)
(***************************************************************************)
\* Mutation of Finish: no waiter is signalled.
FinishWithoutSignal(r) ==
    /\ stage[r] = "running"
    /\ counter' = counter - 1
    /\ stage' = [stage EXCEPT ![r] = "outside"]
    /\ UNCHANGED notifyList

\* Mutation of Finish: the newest waiter is signalled, not the oldest.
FinishWakesNewest(r) ==
    /\ stage[r] = "running"
    /\ counter' = counter - 1
    /\ \/ /\ notifyList = << >>
          /\ stage' = [stage EXCEPT ![r] = "outside"]
          /\ UNCHANGED notifyList
       \/ /\ notifyList # << >>
          /\ stage' = [stage EXCEPT ![r] = "outside",
                                    ![notifyList[Len(notifyList)]] = "woken"]
          /\ notifyList' = SubSeq(notifyList, 1, Len(notifyList) - 1)

Finish(r) ==
    /\ stage[r] = "running"
    /\ counter' = counter - 1
    /\ \/ /\ notifyList = << >>
          /\ stage' = [stage EXCEPT ![r] = "outside"]
          /\ UNCHANGED notifyList
       \/ /\ notifyList # << >>
          /\ stage' = [stage EXCEPT ![r] = "outside",
                                    ![Head(notifyList)] = "woken"]
          /\ notifyList' = Tail(notifyList)

Next == \E r \in Requests : EnterAndRun(r) \/ EnterAndWait(r) \/ Resume(r) \/ Finish(r)

(***************************************************************************)
(* Fairness: a goroutine that can take the mutex eventually does, and the  *)
(* http.Client timeout ends every request that was sent.  Nothing makes a  *)
(* caller call Send.                                                       *)
(***************************************************************************)
Fairness == \A r \in Requests : WF_vars(Resume(r)) /\ WF_vars(Finish(r))

Spec == Init /\ [][Next]_vars
FairSpec == Spec /\ Fairness
-----------------------------------------------------------------------------
TypeOK ==
    /\ counter \in Nat
    /\ stage \in [Requests -> Stages]
    /\ notifyList \in Seq(Requests)

(***************************************************************************)
(* At most maxConcurrentBlocks requests are at the simulation node ("0 for *)
(* no maximum"), although a woken request never re-checks the counter and  *)
(* new callers arrive between a Signal and the wake-up.                    *)
(***************************************************************************)
ConcurrencyLimit ==
    MaxConcurrentBlocks > 0 => Cardinality(In({"running"})) <= MaxConcurrentBlocks

(***************************************************************************)
(* CurrentCounter "returns the number of waiting and active requests": no  *)
(* path through Send leaks or double-frees a unit of the counter.          *)
(***************************************************************************)
CounterExact ==
    counter = Cardinality(In({"waiting", "woken", "running"}))

(***************************************************************************)
(* Send is work-conserving: a request is parked only while every unit of   *)
(* the limit is running or already handed to a woken request.  A wake-up   *)
(* lost between Signal and Wait would break this.                          *)
(***************************************************************************)
NoLostWakeup ==
    In({"waiting"}) # {} =>
        Cardinality(In({"woken", "running"})) = MaxConcurrentBlocks

(***************************************************************************)
(* A parked request is eventually sent, even when other callers keep       *)
(* entering Send: the notify list hands capacity over in arrival order.    *)
(***************************************************************************)
WaitersServed ==
    \A r \in Requests : stage[r] = "waiting" ~> stage[r] = "running"
-----------------------------------------------------------------------------
(***************************************************************************)
(* The inductive strengthening of the three safety properties.             *)
(***************************************************************************)
Parked == In({"waiting"})
Admitted == In({"woken", "running"})

NotifyListOK ==
    /\ \A i \in 1..Len(notifyList) : notifyList[i] \in Parked
    /\ \A r \in Parked : \E i \in 1..Len(notifyList) : notifyList[i] = r
    /\ \A i, j \in 1..Len(notifyList) : notifyList[i] = notifyList[j] => i = j

IInv ==
    /\ TypeOK
    /\ NotifyListOK
    /\ counter = Cardinality(Parked) + Cardinality(Admitted)
    /\ MaxConcurrentBlocks > 0 => Cardinality(Admitted) <= MaxConcurrentBlocks
    /\ Parked # {} => /\ MaxConcurrentBlocks > 0
                      /\ Cardinality(Admitted) = MaxConcurrentBlocks
=============================================================================
