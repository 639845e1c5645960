----------------------------- MODULE BudgetProofs -----------------------------
(***************************************************************************)
(* The two budgets of importer/src/d1.rs.                                  *)
(*                                                                         *)
(* First D1WriteBudget: its safety for every number of tasks, every budget *)
(* and every set of request sizes.                                         *)
(*                                                                         *)
(* Then the daily ledger: for any number of runs, any limit and any number *)
(* of days, it covers what is written, and DailyLedger implements          *)
(* DailyQuota.  LedgerCovers needs three facts to be inductive: nothing    *)
(* belongs to a day that has not come, a request on its way or a release   *)
(* was sent on the day of its lease, and a run that has not started claims *)
(* nothing.                                                                *)
(***************************************************************************)
EXTENDS WriteBudget, DailyLedger, SumTheorems, TLAPS

-----------------------------------------------------------------------------
(* D1WriteBudget *)

(* 1 for every task whose reservation is live *)
Live == [t \in Tasks |-> IF place[t] = "held" THEN 1 ELSE 0]

(* in_flight counts the live reservations, and only they hold capacity *)
InFlightExact ==
  /\ inFlight = Total(Live, NumTasks)
  /\ \A t \in Tasks : place[t] # "held" => reserved[t] = 0

(* NoLostWakeup is not inductive: between the failed check and the first poll
   the mutex is free, and a settlement there must already reach the task. *)
WaitersHaveReason ==
  \A t \in Tasks :
    place[t] \in {"await", "parked"} /\ ~woken[t] =>
      \/ ~Fits(t) /\ inFlight > 0
      \/ \E u \in Tasks : place[u] = "notify"

(* The claims about what is free, reserved, spent and refused *)
BudgetInv == InFlightExact /\ Accounting /\ RefusalIsFinal

BudgetIInv ==
  /\ BudgetTypeOK
  /\ BudgetInv
  /\ WaitersHaveReason

-----------------------------------------------------------------------------
(* A task that is not settling or being granted leaves the budget alone, so
   the accounting part of the invariant is preserved by its step. *)
LEMMA BudgetUntouched ==
  ASSUME BudgetTypeOK, BudgetInv,
         NEW t \in Tasks, NEW where \in Place \ {"held"},
         place[t] # "held",
         place' = [place EXCEPT ![t] = where],
         UNCHANGED <<state, reserved, spent, overrun, refused>>
  PROVE  BudgetInv'
<1>1. Live' = Live
  BY DEF Live, BudgetTypeOK
<1>2. InFlightExact'
  BY <1>1 DEF BudgetInv, InFlightExact, state, BudgetTypeOK
<1>3. Accounting' /\ RefusalIsFinal'
  BY DEF BudgetInv, Accounting, RefusalIsFinal, Outstanding, state
<1> QED BY <1>2, <1>3 DEF BudgetInv

(* Nothing is live when in_flight is zero, so nothing is reserved. *)
LEMMA NothingInFlight ==
  ASSUME BudgetTypeOK, InFlightExact, inFlight = 0
  PROVE  Total(reserved, NumTasks) = 0
<1>1. Live \in [1..NumTasks -> Nat] /\ NumTasks \in Nat
  BY BudgetAssumption DEF Live, Tasks
<1>2. \A t \in Tasks : Live[t] <= 0
  BY <1>1, TotalBounds DEF InFlightExact, Tasks
<1>3. \A t \in Tasks : place[t] # "held"
  BY <1>2 DEF Live
<1>4. reserved = [i \in 1..NumTasks |-> 0]
  BY <1>3 DEF InFlightExact, BudgetTypeOK, Tasks
<1> QED BY <1>1, <1>4, TotalZero

LEMMA BudgetTypeInit == BudgetInit => BudgetTypeOK
BY BudgetAssumption DEF BudgetInit, BudgetTypeOK, Place

LEMMA BudgetTypeStep == BudgetTypeOK /\ [BudgetNext]_budgetVars => BudgetTypeOK'
<1> SUFFICES ASSUME BudgetTypeOK, [BudgetNext]_budgetVars PROVE BudgetTypeOK'
  OBVIOUS
<1> USE DEF BudgetTypeOK, Place
<1>1. ASSUME NEW t \in Tasks, NEW n \in Requests, CallReserve(t, n) PROVE BudgetTypeOK'
  BY <1>1, BudgetAssumption DEF CallReserve, state, history
<1>2. ASSUME NEW t \in Tasks, Enable(t) PROVE BudgetTypeOK'
  BY <1>2 DEF Enable, state, history
<1>3. ASSUME NEW t \in Tasks, Grant(t) PROVE BudgetTypeOK'
  BY <1>3 DEF Grant, Return, Fits, history
<1>4. ASSUME NEW t \in Tasks, Refuse(t) PROVE BudgetTypeOK'
  BY <1>4 DEF Refuse, Return, state
<1>5. ASSUME NEW t \in Tasks, MustWait(t) PROVE BudgetTypeOK'
  BY <1>5 DEF MustWait, state, history
<1>6. ASSUME NEW t \in Tasks, Poll(t) PROVE BudgetTypeOK'
  BY <1>6 DEF Poll, state, history
<1>7. ASSUME NEW t \in Tasks, Wake(t) PROVE BudgetTypeOK'
  BY <1>7 DEF Wake, state, history
<1>8. ASSUME NEW t \in Tasks, NEW actual \in 0..(reserved[t] + ExtraWrites),
             Settle(t, actual)
      PROVE BudgetTypeOK'
  BY <1>8, BudgetAssumption DEF Settle, AfterSettle, SaturatingSub, Excess
<1>9. ASSUME NEW t \in Tasks, NotifyWaiters(t) PROVE BudgetTypeOK'
  BY <1>9 DEF NotifyWaiters, Notified, state, history
<1>10. CASE UNCHANGED budgetVars
  BY <1>10 DEF budgetVars
<1> QED BY <1>1, <1>2, <1>3, <1>4, <1>5, <1>6, <1>7, <1>8, <1>9, <1>10
        DEF BudgetNext, Finished

(* Granting moves capacity from free to reserved; settling gives back what
   was not spent.  Either way the claims about the budget survive. *)
LEMMA GrantKeepsBudget ==
  ASSUME BudgetTypeOK, BudgetInv, NEW t \in Tasks, Grant(t)
  PROVE  BudgetInv'
<1> USE DEF Tasks
<1>1. /\ NumTasks \in Nat
      /\ reserved \in [1..NumTasks -> Int] /\ reserved' \in [1..NumTasks -> Int]
      /\ Live \in [1..NumTasks -> Int] /\ Live' \in [1..NumTasks -> Int]
  BY BudgetAssumption DEF BudgetTypeOK, Live, Grant
<1>2. reserved[t] = 0 /\ Live[t] = 0
  BY DEF Grant, BudgetInv, InFlightExact, Live
<1>3. Live'[t] = 1 /\ \A u \in 1..NumTasks : u # t => Live'[u] = Live[u]
  BY DEF Grant, Return, Live, BudgetTypeOK
<1>4. Total(Live', NumTasks) = Total(Live, NumTasks) - 0 + 1
  BY <1>1, <1>2, <1>3, TotalUpdate
<1>5. Total(reserved', NumTasks) = Total(reserved, NumTasks) - 0 + requested[t]
  <2>1. reserved'[t] = requested[t]
        /\ \A u \in 1..NumTasks : u # t => reserved'[u] = reserved[u]
    BY DEF Grant, BudgetTypeOK
  <2>2. Total(reserved', NumTasks) = Total(reserved, NumTasks) - reserved[t] + reserved'[t]
    BY <1>1, <2>1, TotalUpdate
  <2> QED BY <1>2, <2>1, <2>2
<1>6. InFlightExact'
  BY <1>4 DEF Grant, Return, BudgetInv, InFlightExact, BudgetTypeOK
<1>7. Outstanding' = Outstanding
  <2>1. Total(reserved, NumTasks) \in Int
    BY <1>1, TotalInt
  <2> QED BY <1>5, <2>1 DEF Grant, Outstanding, BudgetTypeOK
<1>8. Accounting' /\ RefusalIsFinal'
  BY <1>7 DEF Grant, history, BudgetInv, Accounting, RefusalIsFinal
<1> QED BY <1>6, <1>8 DEF BudgetInv

LEMMA SettleKeepsBudget ==
  ASSUME BudgetTypeOK, BudgetInv, NEW t \in Tasks,
         NEW actual \in 0..(reserved[t] + ExtraWrites), Settle(t, actual)
  PROVE  BudgetInv'
<1> USE DEF Tasks
<1>1. /\ NumTasks \in Nat
      /\ reserved \in [1..NumTasks -> Int] /\ reserved' \in [1..NumTasks -> Int]
      /\ Live \in [1..NumTasks -> Int] /\ Live' \in [1..NumTasks -> Int]
  BY BudgetAssumption DEF BudgetTypeOK, Live, Settle
<1>2. Live[t] = 1 /\ inFlight >= 1
  <2>1. Live \in [1..NumTasks -> Nat] /\ Live[t] = 1
    BY DEF Live, Settle
  <2> QED BY <1>1, <2>1, TotalBounds DEF BudgetInv, InFlightExact
<1>3. Live'[t] = 0 /\ \A u \in 1..NumTasks : u # t => Live'[u] = Live[u]
  BY DEF Settle, Live, BudgetTypeOK
<1>4. Total(Live', NumTasks) = Total(Live, NumTasks) - 1 + 0
  <2>1. Total(Live', NumTasks) = Total(Live, NumTasks) - Live[t] + Live'[t]
    BY <1>1, <1>3, TotalUpdate
  <2> QED BY <1>2, <1>3, <2>1
<1>5. Total(reserved', NumTasks) = Total(reserved, NumTasks) - reserved[t] + 0
  <2>1. reserved'[t] = 0 /\ \A u \in 1..NumTasks : u # t => reserved'[u] = reserved[u]
    BY DEF Settle, BudgetTypeOK
  <2>2. Total(reserved', NumTasks) = Total(reserved, NumTasks) - reserved[t] + reserved'[t]
    BY <1>1, <2>1, TotalUpdate
  <2> QED BY <2>1, <2>2
<1>6. InFlightExact'
  BY <1>2, <1>4 DEF Settle, SaturatingSub, BudgetInv, InFlightExact, BudgetTypeOK
<1>7. Total(reserved, NumTasks) \in Int /\ actual \in Nat /\ reserved[t] \in Nat
  BY <1>1, TotalInt, BudgetAssumption DEF BudgetTypeOK
<1>8. Outstanding' = AfterSettle(remaining, reserved[t], actual)
                     + (Total(reserved, NumTasks) - reserved[t])
  BY <1>5, <1>7 DEF Settle, Outstanding
<1>9. /\ Outstanding' <= Outstanding
      /\ Outstanding <= Outstanding' + actual
      /\ Outstanding' + actual <= Outstanding + Excess(actual, reserved[t])
  BY <1>7, <1>8 DEF AfterSettle, SaturatingSub, Excess, Outstanding, BudgetTypeOK
<1>10. Outstanding \in Int /\ Outstanding' \in Int /\ Excess(actual, reserved[t]) \in Nat
  BY <1>7, <1>8 DEF AfterSettle, SaturatingSub, Excess, Outstanding, BudgetTypeOK
<1>11. Accounting'
  <2>1. spent' = spent + actual /\ overrun' = overrun + Excess(actual, reserved[t])
    BY DEF Settle
  <2>2. /\ MaxWrites <= Outstanding + spent
        /\ Outstanding + spent <= MaxWrites + overrun
        /\ MaxWrites \in Int /\ spent \in Int /\ overrun \in Int
    BY BudgetAssumption DEF BudgetInv, Accounting, BudgetTypeOK
  <2>3. MaxWrites <= Outstanding' + (spent + actual)
    <3>1. \A m, o, p, s, a \in Int : m <= o + s /\ o <= p + a => m <= p + (s + a)
      OBVIOUS
    <3>2. Outstanding <= Outstanding' + actual /\ actual \in Int
      BY <1>7, <1>9
    <3> HIDE DEF Tasks
    <3> QED BY <1>10, <2>2, <3>1, <3>2
  <2>4. Outstanding' + (spent + actual) <= MaxWrites + (overrun + Excess(actual, reserved[t]))
    BY <1>7, <1>9, <1>10, <2>2
  <2> QED BY <2>1, <2>3, <2>4 DEF Accounting
<1>12. RefusalIsFinal'
  BY <1>9, <1>10 DEF Settle, BudgetInv, RefusalIsFinal, BudgetTypeOK
<1> QED BY <1>6, <1>11, <1>12 DEF BudgetInv

LEMMA RefuseKeepsBudget ==
  ASSUME BudgetTypeOK, BudgetInv, NEW t \in Tasks, Refuse(t)
  PROVE  BudgetInv'
<1>1. Live' = Live
  BY DEF Refuse, Return, Live, BudgetTypeOK
<1>2. Outstanding < requested[t]
  BY NothingInFlight DEF Refuse, MustRefuse, Fits, BudgetInv, Outstanding, BudgetTypeOK
<1>3. Outstanding' = Outstanding
  BY DEF Refuse, state, Outstanding
<1>4. InFlightExact'
  BY <1>1 DEF Refuse, Return, state, BudgetInv, InFlightExact, BudgetTypeOK
<1>5. Accounting' /\ RefusalIsFinal'
  BY <1>2, <1>3 DEF Refuse, BudgetInv, Accounting, RefusalIsFinal
<1> QED BY <1>4, <1>5 DEF BudgetInv

LEMMA BudgetInvInit == BudgetInit => BudgetInv
<1> SUFFICES ASSUME BudgetInit PROVE BudgetInv
  OBVIOUS
<1>1. NumTasks \in Nat
  BY BudgetAssumption
<1>2. Live = [i \in 1..NumTasks |-> 0] /\ reserved = [i \in 1..NumTasks |-> 0]
  BY DEF BudgetInit, Live, Tasks
<1>3. Total(Live, NumTasks) = 0 /\ Total(reserved, NumTasks) = 0
  BY <1>1, <1>2, TotalZero
<1> QED BY <1>3, BudgetAssumption
        DEF BudgetInit, BudgetInv, InFlightExact, Accounting, RefusalIsFinal, Outstanding

LEMMA BudgetInvStep == BudgetTypeOK /\ BudgetInv /\ [BudgetNext]_budgetVars => BudgetInv'
<1> SUFFICES ASSUME BudgetTypeOK, BudgetInv, [BudgetNext]_budgetVars PROVE BudgetInv'
  OBVIOUS
<1> USE DEF Place, history
<1>1. ASSUME NEW t \in Tasks, NEW n \in Requests, CallReserve(t, n) PROVE BudgetInv'
  BY <1>1, BudgetUntouched DEF CallReserve
<1>2. ASSUME NEW t \in Tasks, Enable(t) PROVE BudgetInv'
  BY <1>2, BudgetUntouched DEF Enable
<1>3. ASSUME NEW t \in Tasks, MustWait(t) PROVE BudgetInv'
  BY <1>3, BudgetUntouched DEF MustWait
<1>4. ASSUME NEW t \in Tasks, Poll(t) PROVE BudgetInv'
  <2>1. CASE woken[t]
    BY <1>4, <2>1, BudgetUntouched DEF Poll
  <2>2. CASE ~woken[t]
    BY <1>4, <2>2, BudgetUntouched DEF Poll
  <2> QED BY <2>1, <2>2
<1>5. ASSUME NEW t \in Tasks, Wake(t) PROVE BudgetInv'
  BY <1>5, BudgetUntouched DEF Wake
<1>6. ASSUME NEW t \in Tasks, NotifyWaiters(t) PROVE BudgetInv'
  BY <1>6, BudgetUntouched DEF NotifyWaiters
<1>7. CASE UNCHANGED budgetVars
  BY <1>7 DEF budgetVars, BudgetInv, InFlightExact, Live, Accounting, RefusalIsFinal, Outstanding
<1> QED BY <1>1, <1>2, <1>3, <1>4, <1>5, <1>6, <1>7, GrantKeepsBudget,
           SettleKeepsBudget, RefuseKeepsBudget
        DEF BudgetNext, Finished

-----------------------------------------------------------------------------
LEMMA WakeupStep == BudgetTypeOK /\ WaitersHaveReason /\ [BudgetNext]_budgetVars => WaitersHaveReason'
<1> SUFFICES ASSUME BudgetTypeOK, WaitersHaveReason, [BudgetNext]_budgetVars PROVE WaitersHaveReason'
  OBVIOUS
<1> USE DEF WaitersHaveReason, Fits, state, history
<1>1. ASSUME NEW t \in Tasks, NEW n \in Requests, CallReserve(t, n) PROVE WaitersHaveReason'
  BY <1>1 DEF CallReserve, BudgetTypeOK
<1>2. ASSUME NEW t \in Tasks, Enable(t) PROVE WaitersHaveReason'
  BY <1>2 DEF Enable, BudgetTypeOK
<1>3. ASSUME NEW t \in Tasks, Grant(t) PROVE WaitersHaveReason'
  BY <1>3 DEF Grant, Return, BudgetTypeOK
<1>4. ASSUME NEW t \in Tasks, Refuse(t) PROVE WaitersHaveReason'
  BY <1>4 DEF Refuse, Return, BudgetTypeOK
<1>5. ASSUME NEW t \in Tasks, MustWait(t) PROVE WaitersHaveReason'
  BY <1>5 DEF MustWait, MustRefuse, BudgetTypeOK
<1>6. ASSUME NEW t \in Tasks, Poll(t) PROVE WaitersHaveReason'
  BY <1>6 DEF Poll, BudgetTypeOK
<1>7. ASSUME NEW t \in Tasks, Wake(t) PROVE WaitersHaveReason'
  BY <1>7 DEF Wake, BudgetTypeOK
(* Settling can invalidate the reason to wait, but leads to "notify". *)
<1>8. ASSUME NEW t \in Tasks, NEW actual \in 0..(reserved[t] + ExtraWrites),
             Settle(t, actual)
      PROVE WaitersHaveReason'
  <2>1. place'[t] = "notify"
    BY <1>8 DEF Settle, BudgetTypeOK
  <2> QED BY <2>1
(* Afterwards every suspended task has been notified. *)
<1>9. ASSUME NEW t \in Tasks, NotifyWaiters(t) PROVE WaitersHaveReason'
  <2>1. \A u \in Tasks : place'[u] \in {"await", "parked"} => place[u] = place'[u]
    BY <1>9 DEF NotifyWaiters, BudgetTypeOK
  <2>2. \A u \in Tasks : place[u] \in {"await", "parked"} => woken'[u]
    BY <1>9 DEF NotifyWaiters, Notified, Registered
  <2> QED BY <2>1, <2>2
<1>10. CASE UNCHANGED budgetVars
  BY <1>10 DEF budgetVars
<1> QED BY <1>1, <1>2, <1>3, <1>4, <1>5, <1>6, <1>7, <1>8, <1>9, <1>10
        DEF BudgetNext, Finished

-----------------------------------------------------------------------------
(* Type correctness of the write budget. *)
THEOREM BudgetTypeCorrect == BudgetSpec => []BudgetTypeOK
<1>1. BudgetTypeOK /\ [BudgetNext]_budgetVars => BudgetTypeOK'
  BY BudgetTypeStep
<1> QED BY <1>1, BudgetTypeInit, PTL DEF BudgetSpec

(* BudgetIInv is an inductive invariant. *)
THEOREM BudgetInvariance == BudgetSpec => []BudgetIInv
<1>1. BudgetInit => BudgetIInv
  <2>1. BudgetInit => WaitersHaveReason
    BY DEF BudgetInit, WaitersHaveReason
  <2> QED BY <2>1, BudgetTypeInit, BudgetInvInit DEF BudgetIInv
<1>2. BudgetIInv /\ [BudgetNext]_budgetVars => BudgetIInv'
  BY BudgetTypeStep, BudgetInvStep, WakeupStep DEF BudgetIInv
<1> QED BY <1>1, <1>2, PTL DEF BudgetSpec

(* For any number of concurrent requests, capacity is neither created nor
   lost by D1WriteBudget::reserve and settle. *)
THEOREM AccountingHolds == BudgetSpec => []Accounting
<1>1. BudgetIInv => Accounting
  BY DEF BudgetIInv, BudgetInv
<1> QED BY <1>1, BudgetInvariance, PTL

(* A size that was refused with WriteBudgetExhausted can never be met later. *)
THEOREM RefusalIsFinalHolds == BudgetSpec => []RefusalIsFinal
<1>1. BudgetIInv => RefusalIsFinal
  BY DEF BudgetIInv, BudgetInv
<1> QED BY <1>1, BudgetInvariance, PTL

(* No task sleeps in notified.await with nobody left to wake it. *)
THEOREM NoLostWakeupHolds == BudgetSpec => []NoLostWakeup
<1>1. BudgetIInv => NoLostWakeup
  BY DEF BudgetIInv, WaitersHaveReason, NoLostWakeup
<1> QED BY <1>1, BudgetInvariance, PTL

-----------------------------------------------------------------------------
(* The daily ledger *)

USE LedgerAssumption

DaysInOrder ==
  /\ ledger.day <= today
  /\ \A r \in Runs : leaseDay[r] <= today
  /\ \A d \in Days : d > today => written[d] = 0

OnTime ==
  /\ \A r \in Runs, b \in Budgets : stage[r][b] \in {"sent", "late"} => leaseDay[r] = today
  /\ \A r \in Runs : pc[r] = "releasing" => leaseDay[r] = today

NothingYet ==
  \A r \in Runs : pc[r] = "new" =>
    \A b \in Budgets : stage[r][b] = "none" /\ pend[r][b] = 0

Support == DaysInOrder /\ OnTime /\ NothingYet

IInv == TypeOK /\ Support /\ LedgerCovers

-----------------------------------------------------------------------------
(* Typing *)

LEMMA GrantedType ==
  ASSUME TypeOK, Granted > MetaReserve + LedgerReserve
  PROVE  /\ HandedOut \in Nat
         /\ Granted \in Nat
         /\ Granted - MetaReserve - LedgerReserve \in Nat
         /\ HandedOut + Granted <= Limit
         /\ LedgerReserve = 2
<1>1. HandedOut \in Nat
  BY DEF TypeOK, HandedOut
<1>2. Granted \in Int /\ Granted <= Limit - HandedOut
  BY <1>1 DEF Granted, Lesser
<1> QED BY <1>1, <1>2 DEF LedgerReserve

LEMMA TypeInit == Init => TypeOK
  BY DEF Init, TypeOK, Location, Stage, Days, NoDay

LEMMA ChargeType ==
  ASSUME TypeOK, NEW r \in Runs, Admits(r), ChargeLease
  PROVE  /\ ledger' \in [day : Days \cup {NoDay}, reserved : Nat]
         /\ written' \in [Days -> Nat]
<1>1. HandedOut + Granted \in Nat
  BY GrantedType DEF Admits
<1>2. written[today] + 1 \in Nat
  BY DEF TypeOK
<1> QED BY <1>1, <1>2 DEF ChargeLease, TypeOK

LEMMA TypeStep == TypeOK /\ [Next]_vars => TypeOK'
<1> SUFFICES ASSUME TypeOK, [Next]_vars PROVE TypeOK'
  OBVIOUS
<1> USE DEF clock, run, requests
<1>1. ASSUME NEW r \in Runs, StartRun(r) PROVE TypeOK'
  BY <1>1 DEF StartRun, TypeOK, Location
<1>2. ASSUME NEW r \in Runs, ApplyLease(r) PROVE TypeOK'
  <2>1. /\ ledger' \in [day : Days \cup {NoDay}, reserved : Nat]
        /\ written' \in [Days -> Nat]
    BY <1>2, ChargeType DEF ApplyLease
  <2>2. Granted - MetaReserve - LedgerReserve \in Nat
    BY <1>2, GrantedType DEF ApplyLease, Admits
  <2>3. [data |-> Granted - MetaReserve - LedgerReserve, meta |-> MetaReserve]
          \in [Budgets -> Nat]
    BY <2>2 DEF Budgets
  <2>4. left' \in [Runs -> [Budgets -> Nat]]
    BY <1>2, <2>3 DEF ApplyLease, TypeOK
  <2> QED BY <1>2, <2>1, <2>4 DEF ApplyLease, TypeOK, Location
<1>3. ASSUME NEW r \in Runs, ApplyOrphanLease(r) PROVE TypeOK'
  <2>1. /\ ledger' \in [day : Days \cup {NoDay}, reserved : Nat]
        /\ written' \in [Days -> Nat]
    BY <1>3, ChargeType DEF ApplyOrphanLease
  <2> QED BY <1>3, <2>1 DEF ApplyOrphanLease, TypeOK, Location
<1>4. ASSUME NEW r \in Runs, DenyLease(r) PROVE TypeOK'
  BY <1>4 DEF DenyLease, TypeOK, Location
<1>5. ASSUME NEW r \in Runs, ReceiveLease(r) PROVE TypeOK'
  BY <1>5 DEF ReceiveLease, TypeOK, Location
<1>6. ASSUME NEW r \in Runs, NEW b \in Budgets, NEW n \in Sizes, Reserve(r, b, n)
      PROVE TypeOK'
  <2>1. n \in Nat /\ left[r][b] - n \in Nat
    BY <1>6 DEF Reserve, Affords, TypeOK
  <2> QED BY <1>6, <2>1 DEF Reserve, TypeOK, Stage
<1>7. ASSUME NEW r \in Runs, NEW b \in Budgets, Send(r, b) PROVE TypeOK'
  BY <1>7 DEF Send, TypeOK, Stage
<1>8. ASSUME NEW r \in Runs, NEW b \in Budgets, Withhold(r, b) PROVE TypeOK'
  BY <1>8 DEF Withhold, TypeOK, Stage
<1>9. ASSUME NEW r \in Runs, NEW b \in Budgets, NEW n \in 0..pend[r][b],
             Apply(r, b, n)
      PROVE TypeOK'
  <2>1. n \in Nat /\ pend[r][b] - n \in Nat /\ written[today] + n \in Nat
    BY <1>9 DEF TypeOK
  <2> QED BY <1>9, <2>1 DEF Apply, TypeOK, Stage
<1>10. ASSUME NEW r \in Runs, NEW b \in Budgets, NEW n \in 0..pend[r][b],
              ApplyLate(r, b, n)
       PROVE TypeOK'
  <2>1. written[today] + n \in Nat
    BY <1>10 DEF TypeOK
  <2> QED BY <1>10, <2>1 DEF ApplyLate, TypeOK, Stage
<1>11. ASSUME NEW r \in Runs, NEW b \in Budgets, Answer(r, b) PROVE TypeOK'
  BY <1>11 DEF Answer, TypeOK, Stage
<1>12. ASSUME NEW r \in Runs, NEW b \in Budgets, TimeOut(r, b) PROVE TypeOK'
  BY <1>12 DEF TimeOut, TypeOK, Stage
<1>13. ASSUME NEW r \in Runs, NEW b \in Budgets, LoseAnswer(r, b) PROVE TypeOK'
  BY <1>13 DEF LoseAnswer, TypeOK, Stage
<1>14. ASSUME NEW r \in Runs, NEW b \in Budgets, Vanish(r, b) PROVE TypeOK'
  BY <1>14 DEF Vanish, TypeOK, Stage
<1>15. ASSUME NEW r \in Runs, Finish(r) PROVE TypeOK'
  BY <1>15 DEF Finish, TypeOK, Location
<1>16. ASSUME NEW r \in Runs, ApplyRelease(r) PROVE TypeOK'
  <2>1. ledger.reserved - Unused(r) \in Nat
    BY <1>16 DEF ApplyRelease, StillLeased, Unused, TypeOK, Budgets
  <2>2. written[today] + 1 \in Nat
    BY DEF TypeOK
  <2> QED BY <1>16, <2>1, <2>2 DEF ApplyRelease, TypeOK, Location
<1>17. ASSUME NEW r \in Runs, LoseRelease(r) PROVE TypeOK'
  BY <1>17 DEF LoseRelease, TypeOK, Location
<1>18. ASSUME NEW r \in Runs, Stop(r) PROVE TypeOK'
  BY <1>18 DEF Stop, TypeOK, Location, Stage
<1>19. CASE Tick
  <2>1. today' \in Days
    BY <1>19 DEF Tick, TypeOK, Days
  <2>2. phase' \in {"open", "draining", "closing"}
    BY <1>19 DEF Tick
  <2>3. UNCHANGED <<ledger, written, run, left, requests>>
    BY <1>19 DEF Tick
  <2> QED BY <2>1, <2>2, <2>3 DEF TypeOK
<1>20. CASE UNCHANGED vars
  BY <1>20 DEF vars, TypeOK
<1> QED BY <1>1, <1>2, <1>3, <1>4, <1>5, <1>6, <1>7, <1>8, <1>9, <1>10, <1>11,
           <1>12, <1>13, <1>14, <1>15, <1>16, <1>17, <1>18, <1>19, <1>20 DEF Next

-----------------------------------------------------------------------------
(* The supporting invariants *)

LEMMA ChargeDays ==
  ASSUME TypeOK, ChargeLease
  PROVE  ledger'.day = today /\ \A d \in Days : d > today => written'[d] = written[d]
<1>1. ledger'.day = today
  BY DEF ChargeLease
<1>2. ASSUME NEW d \in Days, d > today PROVE written'[d] = written[d]
  <2>1. d # today
    BY <1>2 DEF TypeOK, Days
  <2> QED BY <2>1 DEF ChargeLease, TypeOK
<1> QED BY <1>1, <1>2

LEMMA SupportStep == TypeOK /\ Support /\ [Next]_vars => Support'
<1> SUFFICES ASSUME TypeOK, Support, [Next]_vars PROVE Support'
  OBVIOUS
<1> USE DEF clock, run, requests, Support
<1>1. ASSUME NEW r \in Runs, StartRun(r) PROVE Support'
  <2>1. DaysInOrder'
    BY <1>1 DEF StartRun, TypeOK, Days, DaysInOrder
  <2>2. OnTime'
    BY <1>1 DEF StartRun, TypeOK, OnTime, NothingYet
  <2>3. NothingYet'
    BY <1>1 DEF StartRun, TypeOK, NothingYet
  <2> QED BY <2>1, <2>2, <2>3
<1>2. ASSUME NEW r \in Runs, ApplyLease(r) PROVE Support'
  <2>1. ledger'.day = today /\ \A d \in Days : d > today => written'[d] = written[d]
    BY <1>2, ChargeDays DEF ApplyLease
  <2>2. \A q \in Runs : pc'[q] \in {"new", "releasing"} => pc'[q] = pc[q]
    BY <1>2 DEF ApplyLease, TypeOK
  <2> QED BY <1>2, <2>1, <2>2 DEF ApplyLease, TypeOK, Days, DaysInOrder, OnTime, NothingYet
<1>3. ASSUME NEW r \in Runs, ApplyOrphanLease(r) PROVE Support'
  <2>1. ledger'.day = today /\ \A d \in Days : d > today => written'[d] = written[d]
    BY <1>3, ChargeDays DEF ApplyOrphanLease
  <2>2. \A q \in Runs : pc'[q] \in {"new", "releasing"} => pc'[q] = pc[q]
    BY <1>3 DEF ApplyOrphanLease, TypeOK
  <2> QED BY <1>3, <2>1, <2>2
          DEF ApplyOrphanLease, TypeOK, Days, DaysInOrder, OnTime, NothingYet
<1>4. ASSUME NEW r \in Runs, DenyLease(r) PROVE Support'
  BY <1>4 DEF DenyLease, TypeOK, DaysInOrder, OnTime, NothingYet
<1>5. ASSUME NEW r \in Runs, ReceiveLease(r) PROVE Support'
  BY <1>5 DEF ReceiveLease, TypeOK, DaysInOrder, OnTime, NothingYet
<1>6. ASSUME NEW r \in Runs, NEW b \in Budgets, NEW n \in Sizes, Reserve(r, b, n)
      PROVE Support'
  BY <1>6 DEF Reserve, TypeOK, DaysInOrder, OnTime, NothingYet
<1>7. ASSUME NEW r \in Runs, NEW b \in Budgets, Send(r, b) PROVE Support'
  BY <1>7 DEF Send, WindowOpen, TypeOK, DaysInOrder, OnTime, NothingYet
<1>8. ASSUME NEW r \in Runs, NEW b \in Budgets, Withhold(r, b) PROVE Support'
  BY <1>8 DEF Withhold, TypeOK, DaysInOrder, OnTime, NothingYet
<1>9. ASSUME NEW r \in Runs, NEW b \in Budgets, NEW n \in 0..pend[r][b],
             Apply(r, b, n)
      PROVE Support'
  <2>1. \A d \in Days : d > today => written'[d] = written[d]
    BY <1>9 DEF Apply, TypeOK, Days
  <2>2. pc[r] # "new"
    BY <1>9 DEF Apply, NothingYet
  <2> QED BY <1>9, <2>1, <2>2 DEF Apply, TypeOK, DaysInOrder, OnTime, NothingYet
<1>10. ASSUME NEW r \in Runs, NEW b \in Budgets, NEW n \in 0..pend[r][b],
              ApplyLate(r, b, n)
       PROVE Support'
  <2>1. \A d \in Days : d > today => written'[d] = written[d]
    BY <1>10 DEF ApplyLate, TypeOK, Days
  <2> QED BY <1>10, <2>1 DEF ApplyLate, TypeOK, DaysInOrder, OnTime, NothingYet
<1>11. ASSUME NEW r \in Runs, NEW b \in Budgets, Answer(r, b) PROVE Support'
  BY <1>11 DEF Answer, TypeOK, DaysInOrder, OnTime, NothingYet
<1>12. ASSUME NEW r \in Runs, NEW b \in Budgets, TimeOut(r, b) PROVE Support'
  BY <1>12 DEF TimeOut, TypeOK, DaysInOrder, OnTime, NothingYet
<1>13. ASSUME NEW r \in Runs, NEW b \in Budgets, LoseAnswer(r, b) PROVE Support'
  BY <1>13 DEF LoseAnswer, TypeOK, DaysInOrder, OnTime, NothingYet
<1>14. ASSUME NEW r \in Runs, NEW b \in Budgets, Vanish(r, b) PROVE Support'
  BY <1>14 DEF Vanish, TypeOK, DaysInOrder, OnTime, NothingYet
<1>15. ASSUME NEW r \in Runs, Finish(r) PROVE Support'
  BY <1>15 DEF Finish, WindowOpen, TypeOK, DaysInOrder, OnTime, NothingYet
<1>16. ASSUME NEW r \in Runs, ApplyRelease(r) PROVE Support'
  <2>1. \A d \in Days : d > today => written'[d] = written[d]
    BY <1>16 DEF ApplyRelease, TypeOK, Days
  <2>2. ledger'.day = ledger.day
    BY <1>16 DEF ApplyRelease, TypeOK
  <2> QED BY <1>16, <2>1, <2>2 DEF ApplyRelease, TypeOK, DaysInOrder, OnTime, NothingYet
<1>17. ASSUME NEW r \in Runs, LoseRelease(r) PROVE Support'
  BY <1>17 DEF LoseRelease, TypeOK, DaysInOrder, OnTime, NothingYet
<1>18. ASSUME NEW r \in Runs, Stop(r) PROVE Support'
  BY <1>18 DEF Stop, TypeOK, DaysInOrder, OnTime, NothingYet
<1>19. CASE Tick
  <2>1. CASE UNCHANGED today
    BY <1>19, <2>1 DEF Tick, DaysInOrder, OnTime, NothingYet
  <2>2. CASE Landed /\ today' = today + 1
    <3>1. DaysInOrder'
      <4>1. /\ ledger' = ledger /\ leaseDay' = leaseDay /\ written' = written
            /\ today \in Nat /\ ledger.day \in Nat
            /\ \A q \in Runs : leaseDay[q] \in Nat
            /\ \A d \in Days : d \in Nat
        BY <1>19 DEF Tick, TypeOK, Days, NoDay
      <4> QED BY <2>2, <4>1 DEF DaysInOrder
    <3>2. OnTime' /\ NothingYet'
      BY <1>19, <2>2 DEF Tick, Landed, OnTime, NothingYet
    <3> QED BY <3>1, <3>2
  <2> QED BY <1>19, <2>1, <2>2 DEF Tick
<1>20. CASE UNCHANGED vars
  BY <1>20 DEF vars, DaysInOrder, OnTime, NothingYet
<1> QED BY <1>1, <1>2, <1>3, <1>4, <1>5, <1>6, <1>7, <1>8, <1>9, <1>10, <1>11,
           <1>12, <1>13, <1>14, <1>15, <1>16, <1>17, <1>18, <1>19, <1>20 DEF Next

-----------------------------------------------------------------------------
(* Claims *)

LEMMA ClaimType == TypeOK => Claim \in [Runs -> Nat]
  BY DEF TypeOK, Claim, Unused, Budgets

LEMMA ClaimTypeNext == TypeOK' => Claim' \in [Runs -> Nat]
  BY DEF TypeOK, Claim, Unused, Budgets

(* Nothing that claims depend on changes, except for run r *)
OnlyRun(r) ==
  /\ today' = today
  /\ \A q \in Runs \ {r} :
       /\ leaseDay'[q] = leaseDay[q]
       /\ pc'[q] = pc[q]
       /\ left'[q] = left[q]
       /\ pend'[q] = pend[q]

LEMMA OneClaim ==
  ASSUME TypeOK, TypeOK', NEW r \in Runs, OnlyRun(r)
  PROVE  /\ Total(Claim, NumRuns) \in Nat
         /\ Total(Claim', NumRuns) \in Nat
         /\ Total(Claim', NumRuns) = Total(Claim, NumRuns) - Claim[r] + Claim'[r]
<1>1. Claim \in [Runs -> Nat] /\ Claim' \in [Runs -> Nat]
  BY ClaimType, ClaimTypeNext
<1>2. \A q \in Runs \ {r} : Claim'[q] = Claim[q]
  BY DEF OnlyRun, Claim, Unused
<1> DEFINE c == Claim
           d == Claim'
<1>3. /\ NumRuns \in Nat /\ r \in 1..NumRuns
      /\ c \in [1..NumRuns -> Nat] /\ d \in [1..NumRuns -> Nat]
      /\ c \in [1..NumRuns -> Int] /\ d \in [1..NumRuns -> Int]
      /\ \A i \in 1..NumRuns : i # r => d[i] = c[i]
  BY <1>1, <1>2 DEF Runs
<1> HIDE DEF c, d
<1>4. Total(c, NumRuns) \in Nat /\ Total(d, NumRuns) \in Nat
  BY <1>3, TotalBounds
<1>5. Total(d, NumRuns) = Total(c, NumRuns) - c[r] + d[r]
  BY <1>3, TotalUpdate
<1> QED BY <1>4, <1>5 DEF c, d

(* Most steps only turn a claim into written rows, or give it up. *)
LEMMA CoverKept ==
  ASSUME TypeOK, TypeOK', LedgerCovers, NEW r \in Runs, OnlyRun(r),
         UNCHANGED ledger,
         written'[today] + Claim'[r] <= written[today] + Claim[r]
  PROVE  LedgerCovers'
<1>1. today' = today /\ ledger' = ledger
  BY DEF OnlyRun
<1>2. written[today] \in Nat /\ written'[today] \in Nat /\ ledger.reserved \in Nat
  BY <1>1 DEF TypeOK
<1>3. Claim[r] \in Nat /\ Claim'[r] \in Nat
  BY ClaimType, ClaimTypeNext
<1>4. written'[today] + Total(Claim', NumRuns) <= written[today] + Total(Claim, NumRuns)
  BY <1>2, <1>3, OneClaim
<1>5. Total(Claim, NumRuns) \in Nat /\ Total(Claim', NumRuns) \in Nat
  BY OneClaim
<1> DEFINE t == Total(Claim, NumRuns)
           u == Total(Claim', NumRuns)
<1>6. IF ledger.day = today
    THEN written[today] + t <= ledger.reserved /\ ledger.reserved <= Limit
    ELSE written[today] + t = 0
  BY DEF LedgerCovers
<1>7. t \in Nat /\ u \in Nat /\ written'[today] + u <= written[today] + t
  BY <1>4, <1>5
<1>8. CASE ledger.day = today
  <2>1. written'[today] + u <= ledger.reserved /\ ledger.reserved <= Limit
    <3> HIDE DEF t, u
    <3> QED BY <1>2, <1>6, <1>7, <1>8
  <2> QED BY <1>1, <1>8, <2>1 DEF LedgerCovers
<1>9. CASE ledger.day # today
  <2>1. written'[today] + u = 0
    <3> DEFINE v == written[today]
               w == written'[today]
    <3>1. v + t = 0 /\ v \in Nat /\ w \in Nat /\ t \in Nat /\ u \in Nat /\ w + u <= v + t
      BY <1>2, <1>6, <1>7, <1>9
    <3> HIDE DEF t, u, v, w
    <3>2. w + u = 0
      BY <3>1
    <3> QED BY <3>2 DEF v, w
  <2> QED BY <1>1, <1>9, <2>1 DEF LedgerCovers
<1> QED BY <1>8, <1>9

-----------------------------------------------------------------------------
(* The ledger covers what was written and every live claim *)

LEMMA CoverInit == Init => LedgerCovers
<1> SUFFICES ASSUME Init PROVE LedgerCovers
  OBVIOUS
<1>1. Claim = [r \in 1..NumRuns |-> 0]
  BY DEF Init, Claim, Runs, Unused, NoDay
<1>2. Total(Claim, NumRuns) = 0
  BY <1>1, TotalZero
<1> QED BY <1>2 DEF Init, LedgerCovers, Days, NoDay

(* Charging a lease adds it to Reserved, for the row that charges it and for
   the claim it gives. *)
LEMMA CoverCharged ==
  ASSUME TypeOK, TypeOK', LedgerCovers, NEW r \in Runs, OnlyRun(r),
         Admits(r), ChargeLease, Claim'[r] + 1 <= Claim[r] + Granted
  PROVE  LedgerCovers'
<1>1. /\ today' = today /\ ledger'.day = today
      /\ ledger'.reserved = HandedOut + Granted
      /\ written'[today] = written[today] + 1
  BY DEF OnlyRun, ChargeLease, TypeOK
<1>2. HandedOut \in Nat /\ Granted \in Nat /\ HandedOut + Granted <= Limit
  BY GrantedType DEF Admits
<1>3. /\ written[today] \in Nat /\ Claim[r] \in Nat /\ Claim'[r] \in Nat
  BY ClaimType, ClaimTypeNext DEF TypeOK
<1> DEFINE t == Total(Claim, NumRuns)
           u == Total(Claim', NumRuns)
<1>4. t \in Nat /\ u \in Nat /\ u = t - Claim[r] + Claim'[r]
  BY OneClaim
<1>5. written[today] + t <= HandedOut
  BY DEF LedgerCovers, HandedOut
<1>6. written'[today] + u <= HandedOut + Granted
  <2> HIDE DEF t, u
  <2> QED BY <1>1, <1>2, <1>3, <1>4, <1>5
<1> QED BY <1>1, <1>2, <1>6 DEF LedgerCovers

LEMMA CoverStep ==
  TypeOK /\ TypeOK' /\ Support /\ LedgerCovers /\ [Next]_vars => LedgerCovers'
<1> SUFFICES ASSUME TypeOK, TypeOK', Support, LedgerCovers, [Next]_vars
             PROVE LedgerCovers'
  OBVIOUS
<1> USE DEF clock, run, requests
<1>1. ASSUME NEW r \in Runs, StartRun(r) PROVE LedgerCovers'
  <2>1. OnlyRun(r) /\ UNCHANGED ledger
    BY <1>1 DEF StartRun, OnlyRun, TypeOK
  <2>2. written'[today] + Claim'[r] <= written[today] + Claim[r]
    BY <1>1 DEF StartRun, NothingYet, Support, Budgets, Claim, Unused, TypeOK
  <2> QED BY <2>1, <2>2, CoverKept
<1>2. ASSUME NEW r \in Runs, ApplyLease(r) PROVE LedgerCovers'
  <2>1. OnlyRun(r)
    BY <1>2 DEF ApplyLease, OnlyRun, TypeOK
  <2>2. Granted \in Nat /\ ChargeLease
    BY <1>2, GrantedType DEF ApplyLease, Admits
  <2>3. Claim'[r] + 1 <= Claim[r] + Granted
    BY <1>2, <2>2 DEF ApplyLease, Claim, Unused, Admits, TypeOK, LedgerReserve, Budgets
  <2> QED BY <1>2, <2>1, <2>3, CoverCharged DEF ApplyLease
<1>3. ASSUME NEW r \in Runs, ApplyOrphanLease(r) PROVE LedgerCovers'
  <2>1. OnlyRun(r)
    BY <1>3 DEF ApplyOrphanLease, OnlyRun, TypeOK
  <2>2. Granted \in Nat /\ Granted > 0
    BY <1>3, GrantedType DEF ApplyOrphanLease, Admits
  <2>3. Claim'[r] + 1 <= Claim[r] + Granted
    BY <1>3, <2>2 DEF ApplyOrphanLease, Claim, Unused, TypeOK, Budgets
  <2> QED BY <1>3, <2>1, <2>3, CoverCharged DEF ApplyOrphanLease
<1>4. ASSUME NEW r \in Runs, DenyLease(r) PROVE LedgerCovers'
  <2>1. OnlyRun(r) /\ UNCHANGED ledger
    BY <1>4 DEF DenyLease, OnlyRun, TypeOK
  <2>2. written'[today] + Claim'[r] <= written[today] + Claim[r]
    BY <1>4 DEF DenyLease, Budgets, Claim, Unused, TypeOK
  <2> QED BY <2>1, <2>2, CoverKept
<1>5. ASSUME NEW r \in Runs, ReceiveLease(r) PROVE LedgerCovers'
  <2>1. OnlyRun(r) /\ UNCHANGED ledger
    BY <1>5 DEF ReceiveLease, OnlyRun, TypeOK
  <2>2. written'[today] + Claim'[r] <= written[today] + Claim[r]
    BY <1>5 DEF ReceiveLease, Budgets, Claim, Unused, TypeOK
  <2> QED BY <2>1, <2>2, CoverKept
<1>6. ASSUME NEW r \in Runs, NEW b \in Budgets, NEW n \in Sizes, Reserve(r, b, n) PROVE LedgerCovers'
  <2>1. OnlyRun(r) /\ UNCHANGED ledger
    BY <1>6 DEF Reserve, OnlyRun, TypeOK
  <2>2. written'[today] + Claim'[r] <= written[today] + Claim[r]
    BY <1>6 DEF Reserve, Affords, Budgets, Claim, Unused, TypeOK
  <2> QED BY <2>1, <2>2, CoverKept
<1>7. ASSUME NEW r \in Runs, NEW b \in Budgets, Send(r, b) PROVE LedgerCovers'
  <2>1. OnlyRun(r) /\ UNCHANGED ledger
    BY <1>7 DEF Send, OnlyRun, TypeOK
  <2>2. written'[today] + Claim'[r] <= written[today] + Claim[r]
    BY <1>7 DEF Send, Budgets, Claim, Unused, TypeOK
  <2> QED BY <2>1, <2>2, CoverKept
<1>8. ASSUME NEW r \in Runs, NEW b \in Budgets, Withhold(r, b) PROVE LedgerCovers'
  <2>1. OnlyRun(r) /\ UNCHANGED ledger
    BY <1>8 DEF Withhold, OnlyRun, TypeOK
  <2>2. written'[today] + Claim'[r] <= written[today] + Claim[r]
    BY <1>8 DEF Withhold, Budgets, Claim, Unused, TypeOK
  <2> QED BY <2>1, <2>2, CoverKept
<1>9. ASSUME NEW r \in Runs, NEW b \in Budgets, NEW n \in 0..pend[r][b], Apply(r, b, n) PROVE LedgerCovers'
  <2>1. OnlyRun(r) /\ UNCHANGED ledger
    BY <1>9 DEF Apply, OnlyRun, TypeOK
  <2>2. written'[today] + Claim'[r] <= written[today] + Claim[r]
    BY <1>9 DEF Apply, OnTime, Support, Budgets, Claim, Unused, TypeOK
  <2> QED BY <2>1, <2>2, CoverKept
<1>10. ASSUME NEW r \in Runs, NEW b \in Budgets, NEW n \in 0..pend[r][b], ApplyLate(r, b, n) PROVE LedgerCovers'
  <2>1. OnlyRun(r) /\ UNCHANGED ledger
    BY <1>10 DEF ApplyLate, OnlyRun, TypeOK
  <2>2. written'[today] + Claim'[r] <= written[today] + Claim[r]
    BY <1>10 DEF ApplyLate, OnTime, Support, Budgets, Claim, Unused, TypeOK
  <2> QED BY <2>1, <2>2, CoverKept
<1>11. ASSUME NEW r \in Runs, NEW b \in Budgets, Answer(r, b) PROVE LedgerCovers'
  <2>1. OnlyRun(r) /\ UNCHANGED ledger
    BY <1>11 DEF Answer, OnlyRun, TypeOK
  <2>2. written'[today] + Claim'[r] <= written[today] + Claim[r]
    BY <1>11 DEF Answer, Budgets, Claim, Unused, TypeOK
  <2> QED BY <2>1, <2>2, CoverKept
<1>12. ASSUME NEW r \in Runs, NEW b \in Budgets, TimeOut(r, b) PROVE LedgerCovers'
  <2>1. OnlyRun(r) /\ UNCHANGED ledger
    BY <1>12 DEF TimeOut, OnlyRun, TypeOK
  <2>2. written'[today] + Claim'[r] <= written[today] + Claim[r]
    BY <1>12 DEF TimeOut, Budgets, Claim, Unused, TypeOK
  <2> QED BY <2>1, <2>2, CoverKept
<1>13. ASSUME NEW r \in Runs, NEW b \in Budgets, LoseAnswer(r, b) PROVE LedgerCovers'
  <2>1. OnlyRun(r) /\ UNCHANGED ledger
    BY <1>13 DEF LoseAnswer, OnlyRun, TypeOK
  <2>2. written'[today] + Claim'[r] <= written[today] + Claim[r]
    BY <1>13 DEF LoseAnswer, Budgets, Claim, Unused, TypeOK
  <2> QED BY <2>1, <2>2, CoverKept
<1>14. ASSUME NEW r \in Runs, NEW b \in Budgets, Vanish(r, b) PROVE LedgerCovers'
  <2>1. OnlyRun(r) /\ UNCHANGED ledger
    BY <1>14 DEF Vanish, OnlyRun, TypeOK
  <2>2. written'[today] + Claim'[r] <= written[today] + Claim[r]
    BY <1>14 DEF Vanish, Budgets, Claim, Unused, TypeOK
  <2> QED BY <2>1, <2>2, CoverKept
<1>15. ASSUME NEW r \in Runs, Finish(r) PROVE LedgerCovers'
  <2>1. OnlyRun(r) /\ UNCHANGED ledger
    BY <1>15 DEF Finish, OnlyRun, TypeOK
  <2>2. written'[today] + Claim'[r] <= written[today] + Claim[r]
    BY <1>15 DEF Finish, Budgets, Claim, Unused, TypeOK
  <2> QED BY <2>1, <2>2, CoverKept
<1>16. ASSUME NEW r \in Runs, ApplyRelease(r) PROVE LedgerCovers'
  <2>1. OnlyRun(r)
    BY <1>16 DEF ApplyRelease, OnlyRun, TypeOK
  <2>2. /\ ledger.day = today /\ ledger'.day = today /\ today' = today
        /\ ledger'.reserved = ledger.reserved - Unused(r)
        /\ written'[today] = written[today] + 1
    BY <1>16 DEF ApplyRelease, StillLeased, OnTime, Support, TypeOK
  <2>3. Claim'[r] + Unused(r) + 1 = Claim[r] /\ Unused(r) \in Nat
    BY <1>16 DEF ApplyRelease, OnTime, Support, Claim, Unused, TypeOK, Budgets
  <2> DEFINE t == Total(Claim, NumRuns)
             u == Total(Claim', NumRuns)
  <2>4. t \in Nat /\ u \in Nat /\ u = t - Claim[r] + Claim'[r]
    BY <2>1, OneClaim
  <2>5. written[today] + t <= ledger.reserved /\ ledger.reserved <= Limit
    BY <2>2 DEF LedgerCovers
  <2>6. /\ written[today] \in Nat /\ ledger.reserved \in Nat
        /\ Claim[r] \in Nat /\ Claim'[r] \in Nat
    BY ClaimType, ClaimTypeNext DEF TypeOK
  <2>7. written'[today] + u <= ledger'.reserved /\ ledger'.reserved <= Limit
    <3> HIDE DEF t, u
    <3> QED BY <2>2, <2>3, <2>4, <2>5, <2>6
  <2> QED BY <2>2, <2>7 DEF LedgerCovers
<1>17. ASSUME NEW r \in Runs, LoseRelease(r) PROVE LedgerCovers'
  <2>1. OnlyRun(r) /\ UNCHANGED ledger
    BY <1>17 DEF LoseRelease, OnlyRun, TypeOK
  <2>2. written'[today] + Claim'[r] <= written[today] + Claim[r]
    BY <1>17 DEF LoseRelease, Budgets, Claim, Unused, TypeOK
  <2> QED BY <2>1, <2>2, CoverKept
<1>18. ASSUME NEW r \in Runs, Stop(r) PROVE LedgerCovers'
  <2>1. OnlyRun(r) /\ UNCHANGED ledger
    BY <1>18 DEF Stop, OnlyRun, TypeOK
  <2>2. written'[today] + Claim'[r] <= written[today] + Claim[r]
    BY <1>18 DEF Stop, Budgets, Claim, Unused, TypeOK
  <2> QED BY <2>1, <2>2, CoverKept
<1>19. CASE Tick
  <2>1. CASE UNCHANGED today
    <3>1. Claim' = Claim
      BY <1>19, <2>1 DEF Tick, Claim, Unused
    <3> QED BY <1>19, <2>1, <3>1 DEF Tick, LedgerCovers
  <2>2. CASE today' = today + 1
    <3>1. /\ UNCHANGED <<ledger, written, leaseDay>>
          /\ today \in Nat /\ today' \in Days /\ today' > today
      BY <1>19, <2>2 DEF Tick, TypeOK, Days
    <3>2. ledger'.day # today' /\ written'[today'] = 0
      BY <3>1 DEF Support, DaysInOrder, TypeOK, Days, NoDay
    <3>3. \A q \in Runs : leaseDay'[q] # today'
      BY <3>1 DEF Support, DaysInOrder, TypeOK, Days, NoDay
    <3>4. Claim' = [q \in 1..NumRuns |-> 0]
      BY <3>3 DEF Claim, Runs
    <3>5. Total(Claim', NumRuns) = 0
      BY <3>4, TotalZero
    <3> QED BY <3>2, <3>5 DEF LedgerCovers
  <2> QED BY <1>19, <2>1, <2>2 DEF Tick
<1>20. CASE UNCHANGED vars
  <2>1. Claim' = Claim
    BY <1>20 DEF vars, Claim, Unused
  <2> QED BY <1>20, <2>1 DEF vars, LedgerCovers
<1> QED BY <1>1, <1>2, <1>3, <1>4, <1>5, <1>6, <1>7, <1>8, <1>9, <1>10, <1>11,
           <1>12, <1>13, <1>14, <1>15, <1>16, <1>17, <1>18, <1>19, <1>20 DEF Next

-----------------------------------------------------------------------------
(* The theorems *)

LEMMA SupportInit == Init => Support
  BY DEF Init, Support, DaysInOrder, OnTime, NothingYet, Days, NoDay

THEOREM Invariance == Spec => []IInv
<1>1. Init => IInv
  BY TypeInit, SupportInit, CoverInit DEF IInv
<1>2. IInv /\ [Next]_vars => IInv'
  BY TypeStep, SupportStep, CoverStep DEF IInv
<1> QED BY <1>1, <1>2, PTL DEF Spec

(* Every variable keeps its type: no budget and no ledger row ever goes
   below zero, although settle, release and the ledger's UPDATEs subtract. *)
THEOREM TypeCorrect == Spec => []TypeOK
<1>1. IInv => TypeOK
  BY DEF IInv
<1> QED BY <1>1, Invariance, PTL

(* The ledger row covers today's writes and every claim that is still alive,
   for any number of overlapping runs (acquire_daily_budget,
   release_daily_budget, check_daily_window). *)
THEOREM LedgerCoversHolds == Spec => []LedgerCovers
<1>1. IInv => LedgerCovers
  BY DEF IInv
<1> QED BY <1>1, Invariance, PTL

(* What is written on the current day stays within the limit. *)
LEMMA WithinLimit == IInv' => written'[today'] <= Limit
<1> SUFFICES ASSUME IInv' PROVE written'[today'] <= Limit
  OBVIOUS
<1>1. Claim' \in [1..NumRuns -> Nat]
  BY ClaimTypeNext DEF IInv, Runs
<1> DEFINE c == Claim'
<1>2. Total(c, NumRuns) \in Nat
  <2> HIDE DEF c
  <2>1. c \in [1..NumRuns -> Nat] => Total(c, NumRuns) \in Nat
    BY TotalBounds
  <2> QED BY <1>1, <2>1 DEF c
<1> DEFINE u == Total(Claim', NumRuns)
           w == written'[today']
           v == ledger'.reserved
<1>3. u \in Nat /\ w \in Nat /\ v \in Nat
  BY <1>2 DEF IInv, TypeOK
<1>4. (w + u <= v /\ v <= Limit) \/ w + u = 0
  BY DEF IInv, LedgerCovers
<1> HIDE DEF u, w, v
<1>5. w <= Limit
  BY <1>3, <1>4
<1> QED BY <1>5 DEF w

(* Rows are only ever added to the current day. *)
LEMMA WriteShape ==
  ASSUME TypeOK, [Next]_vars
  PROVE  \/ UNCHANGED <<today, written>>
         \/ UNCHANGED written /\ today < LastDay /\ today' = today + 1
         \/ /\ UNCHANGED today
            /\ \E n \in Nat : written' = [written EXCEPT ![today] = @ + n]
<1> USE DEF clock, run, requests
<1>1. CASE \E r \in Runs : ApplyLease(r) \/ ApplyOrphanLease(r) \/ ApplyRelease(r)
  BY <1>1 DEF ApplyLease, ApplyOrphanLease, ApplyRelease, ChargeLease
<1>2. ASSUME NEW r \in Runs, NEW b \in Budgets, NEW n \in 0..pend[r][b],
             Apply(r, b, n) \/ ApplyLate(r, b, n)
      PROVE  /\ UNCHANGED today
             /\ \E m \in Nat : written' = [written EXCEPT ![today] = @ + m]
  <2>1. n \in Nat
    BY DEF TypeOK
  <2> QED BY <1>2, <2>1 DEF Apply, ApplyLate
<1>3. CASE Tick
  BY <1>3 DEF Tick
<1>4. CASE UNCHANGED vars
  BY <1>4 DEF vars
<1>5. ASSUME NEW r \in Runs,
             \/ StartRun(r) \/ DenyLease(r) \/ ReceiveLease(r) \/ Finish(r)
             \/ LoseRelease(r) \/ Stop(r)
      PROVE UNCHANGED <<today, written>>
  BY <1>5 DEF StartRun, DenyLease, ReceiveLease, Finish, LoseRelease, Stop
<1>6. ASSUME NEW r \in Runs, NEW b \in Budgets,
             \/ \E n \in Sizes : Reserve(r, b, n)
             \/ Send(r, b) \/ Withhold(r, b) \/ Answer(r, b) \/ TimeOut(r, b)
             \/ LoseAnswer(r, b) \/ Vanish(r, b)
      PROVE UNCHANGED <<today, written>>
  BY <1>6 DEF Reserve, Send, Withhold, Answer, TimeOut, LoseAnswer, Vanish
<1> QED BY <1>1, <1>2, <1>3, <1>4, <1>5, <1>6 DEF Next

LEMMA QuotaStep == IInv /\ IInv' /\ [Next]_vars => [Quota!Next]_<<today, written>>
<1> SUFFICES ASSUME IInv, IInv', [Next]_vars
             PROVE  [Quota!Next]_<<today, written>>
  OBVIOUS
<1>1. TypeOK
  BY DEF IInv
<1>2. CASE UNCHANGED <<today, written>>
  BY <1>2
<1>3. CASE UNCHANGED written /\ today < LastDay /\ today' = today + 1
  BY <1>3 DEF Quota!Next, Quota!NextDay
<1>4. ASSUME UNCHANGED today,
             NEW n \in Nat, written' = [written EXCEPT ![today] = @ + n]
      PROVE  Quota!Next
  <2>1. written[today] \in Nat /\ written'[today] = written[today] + n
    BY <1>1, <1>4 DEF TypeOK
  <2>2. written'[today] <= Limit
    BY <1>4, WithinLimit
  <2>3. written'[today] \in written[today]..Limit
    BY <2>1, <2>2
  <2>4. written' = [written EXCEPT ![today] = written'[today]]
    BY <1>4, <2>1
  <2> QED BY <1>4, <2>3, <2>4 DEF Quota!Next, Quota!Write
<1> QED BY <1>1, <1>2, <1>3, <1>4, WriteShape

(* On no UTC day do the importers together write more than the limit:
   DailyLedger implements DailyQuota. *)
THEOREM MeetsQuotaHolds == Spec => MeetsQuota
<1>1. Init => Quota!Init
  BY DEF Init, Quota!Init, Days, Quota!Days
<1>2. IInv /\ IInv' /\ [Next]_vars => [Quota!Next]_<<today, written>>
  BY QuotaStep
<1> QED BY <1>1, <1>2, Invariance, PTL DEF Spec, MeetsQuota, Quota!Spec

-----------------------------------------------------------------------------
(* Nothing wasted.  NothingWasted speaks of returned leases only; what makes
   it inductive is that the ledger is exact, not merely sufficient, for as
   long as every run of today may still give back all that it does not
   write.  A run loses that with an ambiguous request, with its end, and with
   the final minute, in which Withhold drops a reservation of data silently
   and Finish returns nothing. *)

Clean(r) ==
  \/ pc[r] \in {"releasing", "returned"}
  \/ /\ pc[r] \in {"acquiring", "granted", "running"}
     /\ ~ambiguous[r]
     /\ phase # "closing"

Settles(r) == leaseDay[r] = today => Clean(r)

Exact ==
  (ledger.day = today /\ \A r \in Runs : Settles(r))
  => ledger.reserved = written[today] + Total(Claim, NumRuns)

(* A budget without a request holds no rows; a run releases when both are
   without, and has no lease before it starts; only an ambiguous or ended run
   has a request nobody awaits. *)
Idle ==
  /\ \A r \in Runs, b \in Budgets : stage[r][b] = "none" => pend[r][b] = 0
  /\ \A r \in Runs : pc[r] \in {"releasing", "returned"} => Joined(r)
  /\ \A r \in Runs : pc[r] = "new" => leaseDay[r] = NoDay
  /\ \A r \in Runs, b \in Budgets :
       stage[r][b] = "late" => ambiguous[r] \/ pc[r] \in {"abandoned", "ended"}

LEMMA IdleStep == TypeOK /\ Support /\ Idle /\ [Next]_vars => Idle'
<1> SUFFICES ASSUME TypeOK, Support, Idle, [Next]_vars PROVE Idle'
  OBVIOUS
<1> USE DEF clock, run, requests
<1>1. ASSUME NEW r \in Runs, StartRun(r) PROVE Idle'
  BY <1>1 DEF StartRun, TypeOK, Idle, Joined, Support, NothingYet
<1>2. ASSUME NEW r \in Runs, ApplyLease(r) PROVE Idle'
  BY <1>2 DEF ApplyLease, TypeOK, Idle, Joined
<1>3. ASSUME NEW r \in Runs, ApplyOrphanLease(r) PROVE Idle'
  BY <1>3 DEF ApplyOrphanLease, TypeOK, Idle, Joined
<1>4. ASSUME NEW r \in Runs, DenyLease(r) PROVE Idle'
  BY <1>4 DEF DenyLease, TypeOK, Idle, Joined
<1>5. ASSUME NEW r \in Runs, ReceiveLease(r) PROVE Idle'
  BY <1>5 DEF ReceiveLease, TypeOK, Idle, Joined
<1>6. ASSUME NEW r \in Runs, NEW b \in Budgets, NEW n \in Sizes, Reserve(r, b, n)
      PROVE Idle'
  BY <1>6 DEF Reserve, TypeOK, Idle, Joined
<1>7. ASSUME NEW r \in Runs, NEW b \in Budgets, Send(r, b) PROVE Idle'
  BY <1>7 DEF Send, TypeOK, Idle, Joined
<1>8. ASSUME NEW r \in Runs, NEW b \in Budgets, Withhold(r, b)
      PROVE Idle'
  BY <1>8 DEF Withhold, TypeOK, Idle, Joined
<1>9. ASSUME NEW r \in Runs, NEW b \in Budgets, NEW n \in 0..pend[r][b], Apply(r, b, n)
      PROVE Idle'
  BY <1>9 DEF Apply, TypeOK, Idle, Joined
<1>10. ASSUME NEW r \in Runs, NEW b \in Budgets, NEW n \in 0..pend[r][b], ApplyLate(r, b, n)
      PROVE Idle'
  BY <1>10 DEF ApplyLate, TypeOK, Idle, Joined
<1>11. ASSUME NEW r \in Runs, NEW b \in Budgets, Answer(r, b)
      PROVE Idle'
  BY <1>11 DEF Answer, TypeOK, Idle, Joined
<1>12. ASSUME NEW r \in Runs, NEW b \in Budgets, TimeOut(r, b)
      PROVE Idle'
  BY <1>12 DEF TimeOut, TypeOK, Idle, Joined
<1>13. ASSUME NEW r \in Runs, NEW b \in Budgets, LoseAnswer(r, b)
      PROVE Idle'
  BY <1>13 DEF LoseAnswer, TypeOK, Idle, Joined
<1>14. ASSUME NEW r \in Runs, NEW b \in Budgets, Vanish(r, b)
      PROVE Idle'
  BY <1>14 DEF Vanish, TypeOK, Idle, Joined
<1>15. ASSUME NEW r \in Runs, Finish(r) PROVE Idle'
  BY <1>15 DEF Finish, TypeOK, Idle, Joined, MayRelease
<1>16. ASSUME NEW r \in Runs, ApplyRelease(r) PROVE Idle'
  BY <1>16 DEF ApplyRelease, TypeOK, Idle, Joined
<1>17. ASSUME NEW r \in Runs, LoseRelease(r) PROVE Idle'
  BY <1>17 DEF LoseRelease, TypeOK, Idle, Joined
<1>18. ASSUME NEW r \in Runs, Stop(r) PROVE Idle'
  BY <1>18 DEF Stop, TypeOK, Idle, Joined
<1>19. CASE Tick
  BY <1>19 DEF Tick, Idle, Joined
<1>20. CASE UNCHANGED vars
  BY <1>20 DEF vars, Idle, Joined
<1> QED BY <1>1, <1>2, <1>3, <1>4, <1>5, <1>6, <1>7, <1>8, <1>9, <1>10, <1>11,
           <1>12, <1>13, <1>14, <1>15, <1>16, <1>17, <1>18, <1>19, <1>20 DEF Next

(* A step of run r keeps the ledger exact when it leaves r unable to return
   its lease, or moves as many rows out of its claim as it writes. *)
LEMMA ExactKept ==
  ASSUME TypeOK, TypeOK', Exact, NEW r \in Runs, OnlyRun(r),
         UNCHANGED <<ledger, phase>>,
         \A q \in Runs \ {r} : ambiguous'[q] = ambiguous[q],
         Settles(r)' => /\ Settles(r)
                        /\ written'[today] + Claim'[r] = written[today] + Claim[r]
  PROVE  Exact'
<1> SUFFICES ASSUME ledger'.day = today', \A q \in Runs : Settles(q)'
             PROVE  ledger'.reserved = written'[today'] + Total(Claim', NumRuns)
  BY DEF Exact
<1>1. today' = today /\ ledger' = ledger
  BY DEF OnlyRun
<1>2. ASSUME NEW q \in Runs PROVE Settles(q)
  <2>1. CASE q = r
    BY <2>1
  <2>2. CASE q # r
    BY <2>2, Settles(q)' DEF OnlyRun, Settles, Clean
  <2> QED BY <2>1, <2>2
<1> DEFINE t == Total(Claim, NumRuns)
           u == Total(Claim', NumRuns)
<1>3. ledger.reserved = written[today] + t
  BY <1>1, <1>2 DEF Exact
<1>4. /\ written[today] \in Nat /\ written'[today] \in Nat
      /\ Claim[r] \in Nat /\ Claim'[r] \in Nat
  BY <1>1, ClaimType, ClaimTypeNext DEF TypeOK
<1>5. t \in Nat /\ u \in Nat /\ u = t - Claim[r] + Claim'[r]
  BY OneClaim
<1>6. written'[today] + Claim'[r] = written[today] + Claim[r]
  OBVIOUS
<1>7. ledger.reserved = written'[today] + u
  <2> HIDE DEF t, u
  <2> QED BY <1>3, <1>4, <1>5, <1>6
<1> QED BY <1>1, <1>7

(* Charging a lease keeps the ledger exact when the claim it gives, and the
   row that charges it, are all that it charges. *)
LEMMA ExactCharged ==
  ASSUME TypeOK, TypeOK', Exact, LedgerCovers, NEW r \in Runs, OnlyRun(r),
         UNCHANGED phase, Admits(r), ChargeLease,
         \A q \in Runs \ {r} : ambiguous'[q] = ambiguous[q],
         Settles(r)' => Settles(r) /\ Claim'[r] + 1 = Claim[r] + Granted
  PROVE  Exact'
<1> SUFFICES ASSUME \A q \in Runs : Settles(q)'
             PROVE  ledger'.reserved = written'[today'] + Total(Claim', NumRuns)
  BY DEF Exact
<1>1. /\ today' = today
      /\ ledger'.reserved = HandedOut + Granted
      /\ written'[today] = written[today] + 1
  BY DEF OnlyRun, ChargeLease, TypeOK
<1>2. ASSUME NEW q \in Runs PROVE Settles(q)
  <2>1. CASE q = r
    BY <2>1
  <2>2. CASE q # r
    BY <2>2, Settles(q)' DEF OnlyRun, Settles, Clean
  <2> QED BY <2>1, <2>2
<1> DEFINE t == Total(Claim, NumRuns)
           u == Total(Claim', NumRuns)
<1>3. t \in Nat /\ u \in Nat /\ u = t - Claim[r] + Claim'[r]
  BY OneClaim
<1>4. HandedOut = written[today] + t
  <2>1. CASE ledger.day = today
    BY <1>2, <2>1 DEF Exact, HandedOut
  <2>2. CASE ledger.day # today
    BY <2>2 DEF LedgerCovers, HandedOut
  <2> QED BY <2>1, <2>2
<1>5. /\ HandedOut \in Nat /\ Granted \in Nat /\ written[today] \in Nat
      /\ Claim[r] \in Nat /\ Claim'[r] \in Nat
  BY GrantedType, ClaimType, ClaimTypeNext DEF Admits, TypeOK
<1>6. Claim'[r] + 1 = Claim[r] + Granted
  OBVIOUS
<1>7. HandedOut + Granted = written'[today] + u
  <2> HIDE DEF t, u
  <2> QED BY <1>1, <1>3, <1>4, <1>5, <1>6
<1> QED BY <1>1, <1>7

LEMMA ExactStep ==
  /\ TypeOK /\ TypeOK' /\ Support /\ LedgerCovers
  /\ Idle /\ Exact /\ [Next]_vars
  => Exact'
<1> SUFFICES ASSUME TypeOK, TypeOK', Support, LedgerCovers, Idle, Exact, [Next]_vars
             PROVE Exact'
  OBVIOUS
<1> USE DEF clock, run, requests
<1>1. ASSUME NEW r \in Runs, StartRun(r) PROVE Exact'
  <2>1. /\ OnlyRun(r) /\ UNCHANGED <<ledger, phase>>
        /\ \A q \in Runs \ {r} : ambiguous'[q] = ambiguous[q]
    BY <1>1 DEF StartRun, OnlyRun, TypeOK
  <2>2. Settles(r)' => Settles(r)
    BY <1>1 DEF StartRun, Settles, Clean, TypeOK, Idle, Days, NoDay
  <2>3. Settles(r)' => written'[today] + Claim'[r] = written[today] + Claim[r]
    BY <1>1 DEF StartRun, Settles, Clean, Budgets, Claim, Unused, TypeOK, NothingYet, Support
  <2> QED BY <2>1, <2>2, <2>3, ExactKept
<1>2. ASSUME NEW r \in Runs, ApplyLease(r) PROVE Exact'
  <2>1. OnlyRun(r)
    BY <1>2 DEF ApplyLease, OnlyRun, TypeOK
  <2>2. /\ UNCHANGED phase /\ Admits(r) /\ ChargeLease
        /\ \A q \in Runs \ {r} : ambiguous'[q] = ambiguous[q]
    BY <1>2 DEF ApplyLease
  <2>3. Granted \in Nat
    BY <2>2, GrantedType DEF Admits
  <2>4. Settles(r)' => Settles(r)
    BY <1>2 DEF ApplyLease, Settles, Clean, TypeOK
  <2>5. Claim'[r] + 1 = Claim[r] + Granted
    BY <1>2, <2>3 DEF ApplyLease, Claim, Unused, Admits, TypeOK, LedgerReserve, Budgets
  <2> QED BY <2>1, <2>2, <2>4, <2>5, ExactCharged
<1>3. ASSUME NEW r \in Runs, ApplyOrphanLease(r) PROVE Exact'
  <2>1. OnlyRun(r)
    BY <1>3 DEF ApplyOrphanLease, OnlyRun, TypeOK
  <2>2. /\ UNCHANGED phase /\ Admits(r) /\ ChargeLease
        /\ \A q \in Runs \ {r} : ambiguous'[q] = ambiguous[q]
    BY <1>3 DEF ApplyOrphanLease
  <2>3. ~Settles(r)'
    BY <1>3 DEF ApplyOrphanLease, Admits, Settles, Clean, TypeOK
  <2> QED BY <2>1, <2>2, <2>3, ExactCharged
<1>4. ASSUME NEW r \in Runs, DenyLease(r) PROVE Exact'
  <2>1. /\ OnlyRun(r) /\ UNCHANGED <<ledger, phase>>
        /\ \A q \in Runs \ {r} : ambiguous'[q] = ambiguous[q]
    BY <1>4 DEF DenyLease, OnlyRun, TypeOK
  <2>2. Settles(r)' => Settles(r)
    BY <1>4 DEF DenyLease, Settles, Clean, TypeOK
  <2>3. Settles(r)' => written'[today] + Claim'[r] = written[today] + Claim[r]
    BY <1>4 DEF DenyLease, Settles, Clean, Budgets, Claim, Unused, TypeOK
  <2> QED BY <2>1, <2>2, <2>3, ExactKept
<1>5. ASSUME NEW r \in Runs, ReceiveLease(r) PROVE Exact'
  <2>1. /\ OnlyRun(r) /\ UNCHANGED <<ledger, phase>>
        /\ \A q \in Runs \ {r} : ambiguous'[q] = ambiguous[q]
    BY <1>5 DEF ReceiveLease, OnlyRun, TypeOK
  <2>2. Settles(r)' => Settles(r)
    BY <1>5 DEF ReceiveLease, Settles, Clean, TypeOK
  <2>3. Settles(r)' => written'[today] + Claim'[r] = written[today] + Claim[r]
    BY <1>5 DEF ReceiveLease, Settles, Clean, Budgets, Claim, Unused, TypeOK
  <2> QED BY <2>1, <2>2, <2>3, ExactKept
<1>6. ASSUME NEW r \in Runs, NEW b \in Budgets, NEW n \in Sizes, Reserve(r, b, n)
      PROVE Exact'
  <2>1. /\ OnlyRun(r) /\ UNCHANGED <<ledger, phase>>
        /\ \A q \in Runs \ {r} : ambiguous'[q] = ambiguous[q]
    BY <1>6 DEF Reserve, OnlyRun, TypeOK
  <2>2. Settles(r)' => Settles(r)
    BY <1>6 DEF Reserve, Settles, Clean, TypeOK
  <2>3. Settles(r)' => written'[today] + Claim'[r] = written[today] + Claim[r]
    BY <1>6 DEF Reserve, Settles, Clean, Budgets, Claim, Unused, TypeOK, Affords, Idle
  <2> QED BY <2>1, <2>2, <2>3, ExactKept
<1>7. ASSUME NEW r \in Runs, NEW b \in Budgets, Send(r, b) PROVE Exact'
  <2>1. /\ OnlyRun(r) /\ UNCHANGED <<ledger, phase>>
        /\ \A q \in Runs \ {r} : ambiguous'[q] = ambiguous[q]
    BY <1>7 DEF Send, OnlyRun, TypeOK
  <2>2. Settles(r)' => Settles(r)
    BY <1>7 DEF Send, Settles, Clean, TypeOK
  <2>3. Settles(r)' => written'[today] + Claim'[r] = written[today] + Claim[r]
    BY <1>7 DEF Send, Settles, Clean, Budgets, Claim, Unused, TypeOK
  <2> QED BY <2>1, <2>2, <2>3, ExactKept
<1>8. ASSUME NEW r \in Runs, NEW b \in Budgets, Withhold(r, b)
      PROVE Exact'
  <2>1. /\ OnlyRun(r) /\ UNCHANGED <<ledger, phase>>
        /\ \A q \in Runs \ {r} : ambiguous'[q] = ambiguous[q]
    BY <1>8 DEF Withhold, OnlyRun, TypeOK
  <2>2. Settles(r)' => Settles(r)
    BY <1>8 DEF Withhold, Settles, Clean, TypeOK
  <2>3. Settles(r)' => written'[today] + Claim'[r] = written[today] + Claim[r]
    BY <1>8 DEF Withhold, Settles, Clean, Budgets, Claim, Unused, TypeOK, WindowOpen
  <2> QED BY <2>1, <2>2, <2>3, ExactKept
<1>9. ASSUME NEW r \in Runs, NEW b \in Budgets, NEW n \in 0..pend[r][b], Apply(r, b, n)
      PROVE Exact'
  <2>1. /\ OnlyRun(r) /\ UNCHANGED <<ledger, phase>>
        /\ \A q \in Runs \ {r} : ambiguous'[q] = ambiguous[q]
    BY <1>9 DEF Apply, OnlyRun, TypeOK
  <2>2. Settles(r)' => Settles(r)
    BY <1>9 DEF Apply, Settles, Clean, TypeOK
  <2>3. Settles(r)' => written'[today] + Claim'[r] = written[today] + Claim[r]
    BY <1>9 DEF Apply, Settles, Clean, Budgets, Claim, Unused, TypeOK, OnTime, Support
  <2> QED BY <2>1, <2>2, <2>3, ExactKept
<1>10. ASSUME NEW r \in Runs, NEW b \in Budgets, NEW n \in 0..pend[r][b], ApplyLate(r, b, n)
      PROVE Exact'
  <2>1. /\ OnlyRun(r) /\ UNCHANGED <<ledger, phase>>
        /\ \A q \in Runs \ {r} : ambiguous'[q] = ambiguous[q]
    BY <1>10 DEF ApplyLate, OnlyRun, TypeOK
  <2>2. ~Settles(r)'
    BY <1>10 DEF ApplyLate, Settles, Clean, OnTime, Support, Idle, Joined
  <2> QED BY <2>1, <2>2, ExactKept
<1>11. ASSUME NEW r \in Runs, NEW b \in Budgets, Answer(r, b)
      PROVE Exact'
  <2>1. /\ OnlyRun(r) /\ UNCHANGED <<ledger, phase>>
        /\ \A q \in Runs \ {r} : ambiguous'[q] = ambiguous[q]
    BY <1>11 DEF Answer, OnlyRun, TypeOK
  <2>2. Settles(r)' => Settles(r)
    BY <1>11 DEF Answer, Settles, Clean, TypeOK
  <2>3. Settles(r)' => written'[today] + Claim'[r] = written[today] + Claim[r]
    BY <1>11 DEF Answer, Settles, Clean, Budgets, Claim, Unused, TypeOK
  <2> QED BY <2>1, <2>2, <2>3, ExactKept
<1>12. ASSUME NEW r \in Runs, NEW b \in Budgets, TimeOut(r, b)
      PROVE Exact'
  <2>1. /\ OnlyRun(r) /\ UNCHANGED <<ledger, phase>>
        /\ \A q \in Runs \ {r} : ambiguous'[q] = ambiguous[q]
    BY <1>12 DEF TimeOut, OnlyRun, TypeOK
  <2>2. Settles(r)' => Settles(r)
    BY <1>12 DEF TimeOut, Settles, Clean, TypeOK
  <2>3. Settles(r)' => written'[today] + Claim'[r] = written[today] + Claim[r]
    BY <1>12 DEF TimeOut, Settles, Clean, Budgets, Claim, Unused, TypeOK
  <2> QED BY <2>1, <2>2, <2>3, ExactKept
<1>13. ASSUME NEW r \in Runs, NEW b \in Budgets, LoseAnswer(r, b)
      PROVE Exact'
  <2>1. /\ OnlyRun(r) /\ UNCHANGED <<ledger, phase>>
        /\ \A q \in Runs \ {r} : ambiguous'[q] = ambiguous[q]
    BY <1>13 DEF LoseAnswer, OnlyRun, TypeOK
  <2>2. Settles(r)' => Settles(r)
    BY <1>13 DEF LoseAnswer, Settles, Clean, TypeOK
  <2>3. Settles(r)' => written'[today] + Claim'[r] = written[today] + Claim[r]
    BY <1>13 DEF LoseAnswer, Settles, Clean, Budgets, Claim, Unused, TypeOK
  <2> QED BY <2>1, <2>2, <2>3, ExactKept
<1>14. ASSUME NEW r \in Runs, NEW b \in Budgets, Vanish(r, b)
      PROVE Exact'
  <2>1. /\ OnlyRun(r) /\ UNCHANGED <<ledger, phase>>
        /\ \A q \in Runs \ {r} : ambiguous'[q] = ambiguous[q]
    BY <1>14 DEF Vanish, OnlyRun, TypeOK
  <2>2. ~Settles(r)'
    BY <1>14 DEF Vanish, Settles, Clean, OnTime, Support, Idle, Joined
  <2> QED BY <2>1, <2>2, ExactKept
<1>15. ASSUME NEW r \in Runs, Finish(r) PROVE Exact'
  <2>1. /\ OnlyRun(r) /\ UNCHANGED <<ledger, phase>>
        /\ \A q \in Runs \ {r} : ambiguous'[q] = ambiguous[q]
    BY <1>15 DEF Finish, OnlyRun, TypeOK
  <2>2. Settles(r)' => Settles(r)
    BY <1>15 DEF Finish, WindowOpen, MayRelease, Settles, Clean, TypeOK
  <2>3. Settles(r)' => written'[today] + Claim'[r] = written[today] + Claim[r]
    BY <1>15 DEF Finish, Settles, Clean, Budgets, Claim, Unused, TypeOK
  <2> QED BY <2>1, <2>2, <2>3, ExactKept
<1>16. ASSUME NEW r \in Runs, ApplyRelease(r) PROVE Exact'
  <2>1. OnlyRun(r)
    BY <1>16 DEF ApplyRelease, OnlyRun, TypeOK
  <2>2. /\ ledger.day = today /\ ledger'.day = today /\ today' = today
        /\ ledger'.reserved = ledger.reserved - Unused(r)
        /\ written'[today] = written[today] + 1
    BY <1>16 DEF ApplyRelease, StillLeased, OnTime, Support, TypeOK
  <2>3. Claim'[r] + Unused(r) + 1 = Claim[r] /\ Unused(r) \in Nat
    BY <1>16 DEF ApplyRelease, OnTime, Support, Claim, Unused, TypeOK, Budgets
  <2> DEFINE t == Total(Claim, NumRuns)
             u == Total(Claim', NumRuns)
  <2>4. t \in Nat /\ u \in Nat /\ u = t - Claim[r] + Claim'[r]
    BY <2>1, OneClaim
  <2>5. (\A q \in Runs : Settles(q)') => \A q \in Runs : Settles(q)
    BY <1>16 DEF ApplyRelease, Settles, Clean, TypeOK
  <2>6. (\A q \in Runs : Settles(q)) => ledger.reserved = written[today] + t
    BY <2>2 DEF Exact
  <2>7. /\ written[today] \in Nat /\ ledger.reserved \in Nat
        /\ Claim[r] \in Nat /\ Claim'[r] \in Nat
    BY ClaimType, ClaimTypeNext DEF TypeOK
  <2>8. ledger.reserved = written[today] + t => ledger'.reserved = written'[today] + u
    <3> HIDE DEF t, u
    <3> QED BY <2>2, <2>3, <2>4, <2>7
  <2> QED BY <2>2, <2>5, <2>6, <2>8 DEF Exact
<1>17. ASSUME NEW r \in Runs, LoseRelease(r) PROVE Exact'
  <2>1. /\ OnlyRun(r) /\ UNCHANGED <<ledger, phase>>
        /\ \A q \in Runs \ {r} : ambiguous'[q] = ambiguous[q]
    BY <1>17 DEF LoseRelease, OnlyRun, TypeOK
  <2>2. Settles(r)' => Settles(r)
    BY <1>17 DEF LoseRelease, Settles, Clean, TypeOK
  <2>3. Settles(r)' => written'[today] + Claim'[r] = written[today] + Claim[r]
    BY <1>17 DEF LoseRelease, Settles, Clean, Budgets, Claim, Unused, TypeOK
  <2> QED BY <2>1, <2>2, <2>3, ExactKept
<1>18. ASSUME NEW r \in Runs, Stop(r) PROVE Exact'
  <2>1. /\ OnlyRun(r) /\ UNCHANGED <<ledger, phase>>
        /\ \A q \in Runs \ {r} : ambiguous'[q] = ambiguous[q]
    BY <1>18 DEF Stop, OnlyRun, TypeOK
  <2>2. Settles(r)' => Settles(r)
    BY <1>18 DEF Stop, Settles, Clean, TypeOK
  <2>3. Settles(r)' => written'[today] + Claim'[r] = written[today] + Claim[r]
    BY <1>18 DEF Stop, Settles, Clean, Budgets, Claim, Unused, TypeOK, Location
  <2> QED BY <2>1, <2>2, <2>3, ExactKept
<1>19. CASE Tick
  <2>1. CASE UNCHANGED today
    <3>1. Claim' = Claim /\ UNCHANGED <<ledger, written>>
      BY <1>19, <2>1 DEF Tick, Claim, Unused
    <3>2. \A q \in Runs : Settles(q)' => Settles(q)
      BY <1>19, <2>1 DEF Tick, Settles, Clean, TypeOK, Days
    <3> QED BY <2>1, <3>1, <3>2 DEF Exact
  <2>2. CASE today' = today + 1
    <3>1. ledger'.day # today'
      BY <1>19, <2>2 DEF Tick, Support, DaysInOrder, TypeOK, Days, NoDay
    <3> QED BY <3>1 DEF Exact
  <2> QED BY <1>19, <2>1, <2>2 DEF Tick
<1>20. CASE UNCHANGED vars
  <2>1. Claim' = Claim
    BY <1>20 DEF vars, Claim, Unused
  <2> QED BY <1>20, <2>1 DEF vars, Exact, Settles, Clean
<1> QED BY <1>1, <1>2, <1>3, <1>4, <1>5, <1>6, <1>7, <1>8, <1>9, <1>10, <1>11,
           <1>12, <1>13, <1>14, <1>15, <1>16, <1>17, <1>18, <1>19, <1>20 DEF Next

(* When every run of today has returned its lease, no claim is left. *)
LEMMA ReturnedClaimsNothing ==
  ASSUME TypeOK, Idle, \A r \in Runs : leaseDay[r] = today => pc[r] = "returned"
  PROVE  Total(Claim, NumRuns) = 0
<1>1. Claim = [r \in 1..NumRuns |-> 0]
  BY DEF Idle, Joined, Budgets, Claim, Runs
<1> QED BY <1>1, TotalZero

(* Completed runs give back every row they did not write: once all the runs
   that leased today have returned their leases, the ledger charges what was
   written and no more (release_daily_budget, settle, AmbiguousWrites). *)
THEOREM NothingWastedHolds == Spec => []NothingWasted
<1>1. Init => Idle /\ Exact
  BY DEF Init, Idle, Exact, Days, NoDay
<1>2. /\ IInv /\ IInv' /\ Idle /\ Exact /\ [Next]_vars
      => Idle' /\ Exact'
  BY IdleStep, ExactStep DEF IInv
<1>3. IInv /\ Idle /\ Exact => NothingWasted
  <2> SUFFICES ASSUME IInv, Idle, Exact, ledger.day = today,
                      \A r \in Runs : leaseDay[r] = today => pc[r] = "returned"
               PROVE  ledger.reserved = written[today]
    BY DEF NothingWasted
  <2>1. \A r \in Runs : Settles(r)
    BY DEF Settles, Clean
  <2>2. Total(Claim, NumRuns) = 0
    BY ReturnedClaimsNothing DEF IInv
  <2>3. written[today] \in Nat
    BY DEF IInv, TypeOK
  <2> QED BY <2>1, <2>2, <2>3 DEF Exact
<1> QED BY <1>1, <1>2, <1>3, Invariance, PTL DEF Spec
=============================================================================
