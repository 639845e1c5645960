------------------------------ MODULE MCRotation ------------------------------
(***************************************************************************)
(* Instances of Rotation: three providers, the first of which has the      *)
(* ledger, in an account for as many or a few more databases.              *)
(***************************************************************************)
EXTENDS Rotation

FirstDatabases == [p \in Providers |-> p]
=============================================================================
