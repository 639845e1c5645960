-------------------------------- MODULE Sums --------------------------------
(***************************************************************************)
(* Totals of numbers held by processes 1 .. n.  The budget and ledger      *)
(* modules state their accounting invariants with Total; SumTheorems       *)
(* proves what those invariants need to know about it.                     *)
(***************************************************************************)
LOCAL INSTANCE Integers

(* f[1] + ... + f[n] *)
Total(f, n) ==
  LET partial[i \in 0..n] == IF i = 0 THEN 0 ELSE partial[i - 1] + f[i]
  IN  partial[n]
=============================================================================
