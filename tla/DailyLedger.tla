----------------------------- MODULE DailyLedger -----------------------------
(***************************************************************************)
(* The daily write ledger, table daily_import_budget, and the runs of the  *)
(* importer that lease from it: acquire_daily_budget, release_daily_budget *)
(* and the time guards of importer/src/d1.rs, with the exits of main().    *)
(*                                                                         *)
(* Runs may overlap: the scheduled workflow is serialised by its           *)
(* concurrency group, an importer started by hand is not.  Every request   *)
(* to D1 is sent, applied and answered in separate steps, and may be lost  *)
(* in either direction; the importer never repeats one that writes.        *)
(*                                                                         *)
(* Each run has a data budget and a metadata budget.  WriteBudget shows    *)
(* what concurrent requests do to one budget, so here each budget has at   *)
(* most one request outstanding.                                           *)
(***************************************************************************)
EXTENDS Naturals, Sums

CONSTANTS
  NumRuns,      \* importer runs, named 1 .. NumRuns
  Limit,        \* DAILY_WRITE_LIMIT
  MetaReserve,  \* METADATA_WRITE_RESERVE
  WorkflowMax,  \* MAX_D1_ROWS_WRITTEN_PER_WORKFLOW
  Sizes,        \* reservation sizes a run asks for
  LastDay       \* bound: the last UTC day considered, counting from 1

(* One row written to acquire a lease and one to return unused capacity. *)
LedgerReserve == 2

ASSUME LedgerAssumption ==
  /\ NumRuns \in Nat
  /\ Limit \in Nat
  /\ MetaReserve \in Nat
  /\ WorkflowMax \in Nat
  /\ Sizes \subseteq Nat
  /\ LastDay \in Nat \ {0}

Runs == 1..NumRuns
Days == 1..LastDay
NoDay == 0
Budgets == {"data", "meta"}

VARIABLES
  today,      \* date('now') at D1, which the runner's clock agrees with
  phase,      \* "open"; "draining", the last two minutes; "closing", the last
  ledger,     \* the row of daily_import_budget: Day and Reserved
  written,    \* history: rows written on each day
  pc,         \* where each run is
  leaseDay,   \* DailyLease.day: the day on which the run asked for its lease
  left,       \* what remains of each budget of a run
  stage,      \* the outstanding request of each budget, if any
  pend,       \* rows that request may still write, or is still to give back
  ambiguous   \* whether a run had a failed or unanswered request

clock == <<today, phase>>
run == <<pc, leaseDay>>
requests == <<stage, pend, ambiguous>>
vars == <<today, phase, ledger, written, pc, leaseDay, left, stage, pend,
          ambiguous>>

(* "new"        not started
   "acquiring"  the lease request is on its way, "abandoned" if its run ended
   "granted"    D1 has charged the lease, the answer is on its way
   "running"    the lease is held
   "releasing"  the request that returns unused capacity is on its way
   "returned"   D1 applied that request
   "ended"      the run is over and returned nothing *)
Location == {"new", "acquiring", "abandoned", "granted", "running",
             "releasing", "returned", "ended"}

(* "reserved"  capacity taken, request not sent     "sent"  on its way to D1
   "late"      on its way, but nobody awaits it     "applied"  by D1 *)
Stage == {"none", "reserved", "sent", "late", "applied"}

TypeOK ==
  /\ today \in Days
  /\ phase \in {"open", "draining", "closing"}
  /\ ledger \in [day : Days \cup {NoDay}, reserved : Nat]
  /\ written \in [Days -> Nat]
  /\ pc \in [Runs -> Location]
  /\ leaseDay \in [Runs -> Days \cup {NoDay}]
  /\ left \in [Runs -> [Budgets -> Nat]]
  /\ stage \in [Runs -> [Budgets -> Stage]]
  /\ pend \in [Runs -> [Budgets -> Nat]]
  /\ ambiguous \in [Runs -> BOOLEAN]

Init ==
  /\ today = 1
  /\ phase = "open"
  /\ ledger = [day |-> NoDay, reserved |-> 0]
  /\ written = [d \in Days |-> 0]
  /\ pc = [r \in Runs |-> "new"]
  /\ leaseDay = [r \in Runs |-> NoDay]
  /\ left = [r \in Runs |-> [b \in Budgets |-> 0]]
  /\ stage = [r \in Runs |-> [b \in Budgets |-> "none"]]
  /\ pend = [r \in Runs |-> [b \in Budgets |-> 0]]
  /\ ambiguous = [r \in Runs |-> FALSE]

-----------------------------------------------------------------------------
(* Acquiring a lease *)

Lesser(a, b) == IF a <= b THEN a ELSE b

(* Mutation for HandedOut: every run is granted from the full limit *)
HandedOutNothing == 0

(* What the ledger has handed out today: an older row counts as nothing. *)
HandedOut == IF ledger.day = today THEN ledger.reserved ELSE 0

Granted == Lesser(WorkflowMax, Limit - HandedOut)

(* The WHERE clause: same day at both ends, and more than the reserves. *)
Admits(r) == leaseDay[r] = today /\ Granted > MetaReserve + LedgerReserve

StartRun(r) ==
  /\ pc[r] = "new"
  /\ WorkflowMax > MetaReserve + LedgerReserve
  /\ pc' = [pc EXCEPT ![r] = "acquiring"]
  /\ leaseDay' = [leaseDay EXCEPT ![r] = today]
  /\ UNCHANGED <<clock, ledger, written, left, requests>>

(* The UPDATE .. RETURNING statement, applied atomically by D1 *)
ChargeLease ==
  /\ ledger' = [day |-> today, reserved |-> HandedOut + Granted]
  /\ written' = [written EXCEPT ![today] = @ + 1]

(* The budgets are set here to what the run will read from the answer. *)
ApplyLease(r) ==
  /\ pc[r] = "acquiring"
  /\ Admits(r)
  /\ ChargeLease
  /\ pc' = [pc EXCEPT ![r] = "granted"]
  /\ left' = [left EXCEPT ![r] =
       [data |-> Granted - MetaReserve - LedgerReserve, meta |-> MetaReserve]]
  /\ UNCHANGED <<clock, leaseDay, requests>>

(* The run that asked is over: nobody will use or return the lease. *)
ApplyOrphanLease(r) ==
  /\ pc[r] = "abandoned"
  /\ Admits(r)
  /\ ChargeLease
  /\ pc' = [pc EXCEPT ![r] = "ended"]
  /\ UNCHANGED <<clock, leaseDay, left, requests>>

(* No row comes back: "deferring until the next UTC day". *)
DenyLease(r) ==
  /\ pc[r] \in {"acquiring", "abandoned"}
  /\ ~Admits(r)
  /\ pc' = [pc EXCEPT ![r] = "ended"]
  /\ UNCHANGED <<clock, ledger, written, leaseDay, left, requests>>

ReceiveLease(r) ==
  /\ pc[r] = "granted"
  /\ pc' = [pc EXCEPT ![r] = "running"]
  /\ UNCHANGED <<clock, ledger, written, leaseDay, left, requests>>

-----------------------------------------------------------------------------
(* Spending it *)

(* Mutation for WindowOpen: no such check *)
WindowIgnored(r) == TRUE

(* check_daily_window: not on another day, nor in the final minute *)
WindowOpen(r) == today = leaseDay[r] /\ phase # "closing"

(* reserve_import_writes also refuses data in the last two minutes. *)
MayReserve(b) == b = "data" => phase = "open"

(* Mutation for Affords: no limit *)
AffordsAnything(r, b, n) == TRUE

Affords(r, b, n) == n <= left[r][b]

(* The requests of a run are modelled one at a time per budget, so a request
   that does not fit has nothing to wait for. *)
Reserve(r, b, n) ==
  /\ pc[r] = "running"
  /\ stage[r][b] = "none"
  /\ MayReserve(b)
  /\ Affords(r, b, n)
  /\ left' = [left EXCEPT ![r][b] = @ - n]
  /\ stage' = [stage EXCEPT ![r][b] = "reserved"]
  /\ pend' = [pend EXCEPT ![r][b] = n]
  /\ UNCHANGED <<clock, ledger, written, run, ambiguous>>

Send(r, b) ==
  /\ pc[r] = "running"
  /\ stage[r][b] = "reserved"
  /\ WindowOpen(r)
  /\ stage' = [stage EXCEPT ![r][b] = "sent"]
  /\ UNCHANGED <<clock, ledger, written, run, left, pend, ambiguous>>

(* Refused by the window, after the wait for a request permit: the
   reservation is consumed.  For data this only stops the run; for metadata
   it is an error of the file, hence of the run. *)
Withhold(r, b) ==
  /\ pc[r] = "running"
  /\ stage[r][b] = "reserved"
  /\ ~WindowOpen(r)
  /\ stage' = [stage EXCEPT ![r][b] = "none"]
  /\ pend' = [pend EXCEPT ![r][b] = 0]
  /\ ambiguous' = [ambiguous EXCEPT ![r] = @ \/ b = "meta"]
  /\ UNCHANGED <<clock, ledger, written, run, left>>

(* D1 applies the batch: what it writes is covered by the reservation. *)
Apply(r, b, n) ==
  /\ stage[r][b] = "sent"
  /\ n <= pend[r][b]
  /\ written' = [written EXCEPT ![today] = @ + n]
  /\ stage' = [stage EXCEPT ![r][b] = "applied"]
  /\ pend' = [pend EXCEPT ![r][b] = @ - n]
  /\ UNCHANGED <<clock, ledger, run, left, ambiguous>>

ApplyLate(r, b, n) ==
  /\ stage[r][b] = "late"
  /\ n <= pend[r][b]
  /\ written' = [written EXCEPT ![today] = @ + n]
  /\ stage' = [stage EXCEPT ![r][b] = "none"]
  /\ pend' = [pend EXCEPT ![r][b] = 0]
  /\ UNCHANGED <<clock, ledger, run, left, ambiguous>>

(* Mutation for Answer: the reservation is consumed whatever was written *)
AnswerConsumes(r, b) ==
  /\ pc[r] = "running"
  /\ stage[r][b] = "applied"
  /\ stage' = [stage EXCEPT ![r][b] = "none"]
  /\ pend' = [pend EXCEPT ![r][b] = 0]
  /\ UNCHANGED <<clock, ledger, written, run, left, ambiguous>>

(* The answer arrives and the reservation is settled with rows_written. *)
Answer(r, b) ==
  /\ pc[r] = "running"
  /\ stage[r][b] = "applied"
  /\ left' = [left EXCEPT ![r][b] = @ + pend[r][b]]
  /\ stage' = [stage EXCEPT ![r][b] = "none"]
  /\ pend' = [pend EXCEPT ![r][b] = 0]
  /\ UNCHANGED <<clock, ledger, written, run, ambiguous>>

(* Timeout or transport error: the whole reservation is consumed, and the
   request may still be applied. *)
TimeOut(r, b) ==
  /\ pc[r] = "running"
  /\ stage[r][b] = "sent"
  /\ stage' = [stage EXCEPT ![r][b] = "late"]
  /\ ambiguous' = [ambiguous EXCEPT ![r] = TRUE]
  /\ UNCHANGED <<clock, ledger, written, run, left, pend>>

(* An answer that was lost or has no rows_written consumes it too. *)
LoseAnswer(r, b) ==
  /\ pc[r] = "running"
  /\ stage[r][b] = "applied"
  /\ stage' = [stage EXCEPT ![r][b] = "none"]
  /\ pend' = [pend EXCEPT ![r][b] = 0]
  /\ ambiguous' = [ambiguous EXCEPT ![r] = TRUE]
  /\ UNCHANGED <<clock, ledger, written, run, left>>

(* A request nobody awaits never reached D1. *)
Vanish(r, b) ==
  /\ stage[r][b] = "late"
  /\ stage' = [stage EXCEPT ![r][b] = "none"]
  /\ pend' = [pend EXCEPT ![r][b] = 0]
  /\ UNCHANGED <<clock, ledger, written, run, left, ambiguous>>

-----------------------------------------------------------------------------
(* Ending *)

Unused(r) == left[r]["data"] + left[r]["meta"]

Joined(r) == \A b \in Budgets : stage[r][b] = "none"

MayRelease(r) == Joined(r) /\ ~ambiguous[r]

(* End of main() without an error: release_daily_budget, itself subject to
   the window. *)
Finish(r) ==
  /\ pc[r] = "running"
  /\ MayRelease(r)
  /\ pc' = [pc EXCEPT ![r] = IF WindowOpen(r) THEN "releasing" ELSE "ended"]
  /\ UNCHANGED <<clock, ledger, written, leaseDay, left, requests>>

(* The guard of the UPDATE that returns unused capacity *)
StillLeased(r) == ledger.day = leaseDay[r] /\ ledger.reserved >= Unused(r)

ApplyRelease(r) ==
  /\ pc[r] = "releasing"
  /\ StillLeased(r)
  /\ ledger' = [ledger EXCEPT !.reserved = @ - Unused(r)]
  /\ written' = [written EXCEPT ![today] = @ + 1]
  /\ pc' = [pc EXCEPT ![r] = "returned"]
  /\ UNCHANGED <<clock, leaseDay, left, requests>>

(* The request never reaches D1, or matches no row. *)
LoseRelease(r) ==
  /\ pc[r] = "releasing"
  /\ pc' = [pc EXCEPT ![r] = "ended"]
  /\ UNCHANGED <<clock, ledger, written, leaseDay, left, requests>>

(* The process ends without releasing: an error in any provider, the job's
   10-minute timeout, a crash. *)
Stop(r) ==
  /\ pc[r] \in {"acquiring", "granted", "running"}
  /\ pc' = [pc EXCEPT ![r] = IF pc[r] = "acquiring" THEN "abandoned" ELSE "ended"]
  /\ stage' = [stage EXCEPT ![r] =
       [b \in Budgets |-> IF stage[r][b] \in {"sent", "late"} THEN "late" ELSE "none"]]
  /\ pend' = [pend EXCEPT ![r] =
       [b \in Budgets |-> IF stage[r][b] \in {"sent", "late"} THEN pend[r][b] ELSE 0]]
  /\ UNCHANGED <<clock, ledger, written, leaseDay, left, ambiguous>>

-----------------------------------------------------------------------------
(* Time *)

(* A request sent before the final minute, with its 35 s timeout, has landed
   by midnight.  A lease request is not held to that. *)
Landed ==
  /\ \A r \in Runs, b \in Budgets : stage[r][b] \notin {"sent", "late"}
  /\ \A r \in Runs : pc[r] # "releasing"

Tick ==
  /\ \/ phase = "open" /\ phase' = "draining" /\ UNCHANGED today
     \/ phase = "draining" /\ phase' = "closing" /\ UNCHANGED today
     \/ /\ phase = "closing" /\ today < LastDay /\ Landed
        /\ today' = today + 1
        /\ phase' = "open"
  /\ UNCHANGED <<ledger, written, run, left, requests>>

Next ==
  \/ \E r \in Runs :
       \/ StartRun(r)
       \/ ApplyLease(r)
       \/ ApplyOrphanLease(r)
       \/ DenyLease(r)
       \/ ReceiveLease(r)
       \/ \E b \in Budgets :
            \/ \E n \in Sizes : Reserve(r, b, n)
            \/ Send(r, b)
            \/ Withhold(r, b)
            \/ \E n \in 0..pend[r][b] : Apply(r, b, n) \/ ApplyLate(r, b, n)
            \/ Answer(r, b)
            \/ TimeOut(r, b)
            \/ LoseAnswer(r, b)
            \/ Vanish(r, b)
       \/ Finish(r)
       \/ ApplyRelease(r)
       \/ LoseRelease(r)
       \/ Stop(r)
  \/ Tick

Spec == Init /\ [][Next]_vars

-----------------------------------------------------------------------------
(* The capacity leased today that run r has not yet used up: what it may still
   write, including its remaining ledger row. *)
Claim == [r \in Runs |->
  IF leaseDay[r] # today THEN 0
  ELSE (IF pc[r] \in {"granted", "running", "releasing"} THEN Unused(r) + 1 ELSE 0)
       + pend[r]["data"] + pend[r]["meta"]]

(* The ledger row covers everything: what was written today plus every claim
   on today that is still alive - of running, abandoned and crashed runs, and
   of requests nobody awaits any more - fits in Reserved, which fits in the
   limit.  So a released or expired lease is never spent twice. *)
LedgerCovers ==
  IF ledger.day = today
    THEN /\ written[today] + Total(Claim, NumRuns) <= ledger.reserved
         /\ ledger.reserved <= Limit
    ELSE written[today] + Total(Claim, NumRuns) = 0

(* Completed runs give back everything they did not write: when every run
   that was granted a lease today has returned it with no ambiguous request,
   the ledger charges exactly the rows written. *)
NothingWasted ==
  (/\ ledger.day = today
   /\ \A r \in Runs : leaseDay[r] = today => pc[r] = "returned")
  => ledger.reserved = written[today]

(* On no day is the account's allowance exceeded, whatever is lost, delayed,
   or interrupted. *)
Quota == INSTANCE DailyQuota
MeetsQuota == Quota!Spec
=============================================================================
