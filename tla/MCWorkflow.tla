------------------------------ MODULE MCWorkflow ------------------------------
(***************************************************************************)
(* Instances of Workflow: provider 1 has two files, the others one, and a  *)
(* third provider competes for storage and rows.                           *)
(***************************************************************************)
EXTENDS Workflow, TLC

CONSTANTS stops, trips, routes, shapes

FileProvider == stops :> 1 @@ trips :> 1 @@ routes :> 2 @@ shapes :> 3
FileRows == stops :> 2 @@ trips :> 1 @@ routes :> 1 @@ shapes :> 3
=============================================================================
