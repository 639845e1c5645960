------------------------------ MODULE DailyQuota ------------------------------
(***************************************************************************)
(* What the daily write ledger promises the Cloudflare account: on no UTC  *)
(* day do the importers together write more rows than DAILY_WRITE_LIMIT.   *)
(* DailyLedger implements this specification.                              *)
(***************************************************************************)
EXTENDS Naturals

CONSTANTS
  Limit,   \* DAILY_WRITE_LIMIT
  LastDay  \* bound: the last UTC day considered, counting from 1

VARIABLES
  today,   \* the UTC day at D1
  written  \* rows written on each day

Days == 1..LastDay

Init == today = 1 /\ written = [d \in Days |-> 0]

(* Requests are applied only on the current day, and only within its limit. *)
Write ==
  /\ written' = [written EXCEPT ![today] = written'[today]]
  /\ written'[today] \in written[today]..Limit
  /\ UNCHANGED today

NextDay == today < LastDay /\ today' = today + 1 /\ UNCHANGED written

Next == Write \/ NextDay

Spec == Init /\ [][Next]_<<today, written>>
=============================================================================
