----------------------------- MODULE WriteBudget -----------------------------
(***************************************************************************)
(* The write budget every D1 request of the importer draws on:             *)
(* D1WriteBudget and D1WriteReservation of importer/src/d1.rs.             *)
(*                                                                         *)
(* A task reserves the most rows its request can write, sends the request, *)
(* and settles the reservation with what D1 reports.  A reservation that   *)
(* does not fit waits while others are in flight, because their unused     *)
(* part comes back, and is refused when none is.  The waiting is the usual *)
(* condition-variable loop: take a Notified future, look at the state      *)
(* under the mutex, await the future.  settle() changes the state under    *)
(* the mutex and notifies after releasing it, so the two are separate      *)
(* steps here.                                                             *)
(*                                                                         *)
(* The data budget of a run and its metadata budget are two instances of   *)
(* this component.                                                         *)
(***************************************************************************)
EXTENDS Naturals, Sums

CONSTANTS
  NumTasks,     \* tasks that share the budget, named 1 .. NumTasks
  MaxWrites,    \* the argument of D1WriteBudget::new
  Requests,     \* sizes a task may ask for
  ExtraWrites,  \* how far D1's report may exceed the reservation
  MaxCalls      \* bound: reserve() calls per task

ASSUME BudgetAssumption ==
  /\ NumTasks \in Nat
  /\ MaxWrites \in Nat
  /\ Requests \subseteq Nat
  /\ ExtraWrites \in Nat
  /\ MaxCalls \in Nat

Tasks == 1..NumTasks

VARIABLES
  remaining,  \* D1WriteBudgetState.remaining
  inFlight,   \* D1WriteBudgetState.in_flight
  place,      \* where each task is in reserve() / settle()
  requested,  \* the argument of the reserve() call a task is in
  reserved,   \* the size of the live D1WriteReservation of each task, or 0
  woken,      \* whether the task's Notified future has been notified
  calls,      \* reserve() calls made so far
  spent,      \* history: rows D1 reported as written, over all tasks
  overrun,    \* history: the part of spent that exceeded its reservation
  refused     \* history: the sizes that were refused

state == <<remaining, inFlight>>
history == <<spent, overrun, refused>>
budgetVars == <<remaining, inFlight, place, requested, reserved, woken, calls,
                spent, overrun, refused>>

(* "loop"    top of the loop, before the Notified future exists
   "check"   the future exists, the mutex has not been taken
   "await"   the check failed and the mutex is released
   "parked"  suspended in notified.await
   "held"    reserve() returned a reservation: its request is in flight
   "notify"  settle() has released the mutex but not called notify_waiters *)
Place == {"idle", "loop", "check", "await", "parked", "held", "notify"}

BudgetTypeOK ==
  /\ remaining \in Nat
  /\ inFlight \in Nat
  /\ place \in [Tasks -> Place]
  /\ requested \in [Tasks -> Nat]
  /\ reserved \in [Tasks -> Nat]
  /\ woken \in [Tasks -> BOOLEAN]
  /\ calls \in [Tasks -> Nat]
  /\ spent \in Nat
  /\ overrun \in Nat
  /\ refused \subseteq Nat

BudgetInit ==
  /\ remaining = MaxWrites
  /\ inFlight = 0
  /\ place = [t \in Tasks |-> "idle"]
  /\ requested = [t \in Tasks |-> 0]
  /\ reserved = [t \in Tasks |-> 0]
  /\ woken = [t \in Tasks |-> FALSE]
  /\ calls = [t \in Tasks |-> 0]
  /\ spent = 0
  /\ overrun = 0
  /\ refused = {}

-----------------------------------------------------------------------------
(* u64::saturating_sub *)
SaturatingSub(a, b) == IF a > b THEN a - b ELSE 0

Excess(actual, size) == IF actual > size THEN actual - size ELSE 0

(* Mutations for AfterSettle: a plain subtraction; a refund of everything *)
AfterSettleUnsaturated(rem, size, actual) == (rem + size) - actual
AfterSettleRefundsAll(rem, size, actual) == rem + size

(* remaining after a reservation of the given size is settled *)
AfterSettle(rem, size, actual) ==
  IF actual > size
    THEN SaturatingSub(rem, actual - size)
    ELSE rem + (size - actual)

(* Mutation for Registered: the future is created after the check *)
RegisteredAfterCheck == {"parked"}

(* Locations at which a task owns a Notified future: notify_waiters reaches
   every future that exists, polled or not. *)
Registered == {"check", "await", "parked"}

(* Mutation for Notified: notify_one *)
NotifiedOne ==
  LET waiting == {t \in Tasks : place[t] \in Registered /\ ~woken[t]}
      one == CHOOSE t \in waiting : TRUE
  IN  [t \in Tasks |-> woken[t] \/ (waiting # {} /\ t = one)]

Notified == [t \in Tasks |-> woken[t] \/ place[t] \in Registered]

Fits(t) == requested[t] <= remaining

(* Mutation for MustRefuse: refuses without waiting for what is in flight *)
MustRefuseAtOnce(t) == ~Fits(t)

(* Nothing in flight can give capacity back. *)
MustRefuse(t) == ~Fits(t) /\ inFlight = 0

-----------------------------------------------------------------------------
CallReserve(t, n) ==
  /\ place[t] = "idle"
  /\ calls[t] < MaxCalls
  /\ place' = [place EXCEPT ![t] = "loop"]
  /\ requested' = [requested EXCEPT ![t] = n]
  /\ calls' = [calls EXCEPT ![t] = @ + 1]
  /\ UNCHANGED <<state, reserved, woken, history>>

(* self.notify.notified() and enable() *)
Enable(t) ==
  /\ place[t] = "loop"
  /\ place' = [place EXCEPT ![t] = "check"]
  /\ woken' = [woken EXCEPT ![t] = FALSE]
  /\ UNCHANGED <<state, requested, reserved, calls, history>>

(* reserve() returns: its argument and its future are dropped. *)
Return(t, location) ==
  /\ place' = [place EXCEPT ![t] = location]
  /\ requested' = [requested EXCEPT ![t] = 0]
  /\ woken' = [woken EXCEPT ![t] = FALSE]

Grant(t) ==
  /\ place[t] = "check"
  /\ Fits(t)
  /\ remaining' = remaining - requested[t]
  /\ inFlight' = inFlight + 1
  /\ reserved' = [reserved EXCEPT ![t] = requested[t]]
  /\ Return(t, "held")
  /\ UNCHANGED <<calls, history>>

(* Err(WriteBudgetExhausted) *)
Refuse(t) ==
  /\ place[t] = "check"
  /\ MustRefuse(t)
  /\ refused' = refused \cup {requested[t]}
  /\ Return(t, "idle")
  /\ UNCHANGED <<state, reserved, calls, spent, overrun>>

MustWait(t) ==
  /\ place[t] = "check"
  /\ ~Fits(t)
  /\ ~MustRefuse(t)
  /\ place' = [place EXCEPT ![t] = "await"]
  /\ UNCHANGED <<state, requested, reserved, woken, calls, history>>

(* The first poll of notified.await suspends the task, unless the future was
   notified since it was created. *)
Poll(t) ==
  /\ place[t] = "await"
  /\ place' = [place EXCEPT ![t] = IF woken[t] THEN "loop" ELSE "parked"]
  /\ UNCHANGED <<state, requested, reserved, woken, calls, history>>

Wake(t) ==
  /\ place[t] = "parked"
  /\ woken[t]
  /\ place' = [place EXCEPT ![t] = "loop"]
  /\ UNCHANGED <<state, requested, reserved, woken, calls, history>>

(* settle() up to drop(state), reached from finish(actual), and from
   consume_all() and Drop with actual = reserved. *)
Settle(t, actual) ==
  /\ place[t] = "held"
  /\ inFlight' = SaturatingSub(inFlight, 1)
  /\ remaining' = AfterSettle(remaining, reserved[t], actual)
  /\ reserved' = [reserved EXCEPT ![t] = 0]
  /\ spent' = spent + actual
  /\ overrun' = overrun + Excess(actual, reserved[t])
  /\ place' = [place EXCEPT ![t] = "notify"]
  /\ UNCHANGED <<requested, woken, calls, refused>>

(* self.notify.notify_waiters() *)
NotifyWaiters(t) ==
  /\ place[t] = "notify"
  /\ woken' = Notified
  /\ place' = [place EXCEPT ![t] = "idle"]
  /\ UNCHANGED <<state, requested, reserved, calls, history>>

(* Every task has made its last call: the importer is done with the budget. *)
Finished ==
  /\ \A t \in Tasks : place[t] = "idle" /\ calls[t] = MaxCalls
  /\ UNCHANGED budgetVars

BudgetNext ==
  \/ \E t \in Tasks :
       \/ \E n \in Requests : CallReserve(t, n)
       \/ Enable(t)
       \/ Grant(t)
       \/ Refuse(t)
       \/ MustWait(t)
       \/ Poll(t)
       \/ Wake(t)
       \/ \E actual \in 0..(reserved[t] + ExtraWrites) : Settle(t, actual)
       \/ NotifyWaiters(t)
  \/ Finished

BudgetSpec == BudgetInit /\ [][BudgetNext]_budgetVars

(* A task that can run is polled again by the Tokio scheduler, and a request
   ends: it is answered, or its 35 s timeout fires and it is settled. *)
Fairness ==
  \A t \in Tasks :
    /\ WF_budgetVars(Enable(t))
    /\ WF_budgetVars(Grant(t) \/ Refuse(t) \/ MustWait(t))
    /\ WF_budgetVars(Poll(t))
    /\ WF_budgetVars(Wake(t))
    /\ WF_budgetVars(\E actual \in 0..(reserved[t] + ExtraWrites) : Settle(t, actual))
    /\ WF_budgetVars(NotifyWaiters(t))

FairSpec == BudgetSpec /\ Fairness

-----------------------------------------------------------------------------
(* Capacity that is unspent or still reserved, and capacity that is gone.  *)
Outstanding == remaining + Total(reserved, NumTasks)

(* No interleaving of reserve() and settle() creates or loses capacity: what
   is free, reserved and spent adds up to the budget, except for writes D1
   reported beyond a reservation, which it may exceed by at most that much.
   The lower bound is what lets a run return its unused capacity. *)
Accounting ==
  /\ MaxWrites <= Outstanding + spent
  /\ Outstanding + spent <= MaxWrites + overrun

(* A refusal is final.  The importer stops a file, and then the whole run,
   on the first WriteBudgetExhausted: that is right only if no reservation
   settled later can make room for a request of the refused size. *)
RefusalIsFinal == \A n \in refused : Outstanding < n

(* No lost wakeup: a suspended task that has not been notified is waiting
   for a settlement that is still to come, or whose notify_waiters is. *)
NoLostWakeup ==
  \A t \in Tasks :
    place[t] = "parked" /\ ~woken[t] =>
      \/ ~Fits(t) /\ inFlight > 0
      \/ \E u \in Tasks : place[u] = "notify"

(* Every call of reserve() returns, granted or refused. *)
ReserveReturns ==
  \A t \in Tasks : place[t] = "loop" ~> place[t] \in {"held", "idle"}
=============================================================================
