--------------------------- MODULE MCDepartureCache ---------------------------
(***************************************************************************)
(* The symmetry of DepartureCache: neither the requests nor the contents   *)
(* of files are ordered, and no CHOOSE picks one.                          *)
(***************************************************************************)
EXTENDS DepartureCache, TLC

Symmetry == Permutations(Requests) \cup Permutations(Crcs)
=============================================================================
