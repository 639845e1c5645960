---------------------------- MODULE ResumableFile ----------------------------
(***************************************************************************)
(* What importing one file of a feed promises, over any number of runs of  *)
(* the importer: rows only ever arrive, the saved mark only moves forward, *)
(* it never passes a row that is missing, and the file is declared         *)
(* complete only when no row is that the database keeps.  A file that an   *)
(* earlier version of the importer has begun is continued.  FileImport     *)
(* implements this.                                                        *)
(***************************************************************************)
EXTENDS Naturals

CONSTANT NumRows  \* data rows of the file, named 0 .. NumRows - 1

VARIABLES
  wanted,   \* rows that the database has columns for
  rows,     \* rows present in the database
  mark,     \* rows before this one are never read again
  complete  \* the file is skipped by every later run

Rows == 0..NumRows - 1

Init ==
  /\ wanted \in {{}, Rows}
  /\ rows \in SUBSET wanted
  /\ mark \in {n \in 0..NumRows : 0..n - 1 \subseteq rows}
  /\ complete = FALSE

Upload ==
  /\ rows' \in SUBSET Rows
  /\ rows \subseteq rows'
  /\ UNCHANGED <<wanted, mark, complete>>

(* The mark is moved by a statement of its own, after the rows are there. *)
Save ==
  /\ mark' \in mark..NumRows
  /\ complete' \in {complete, TRUE}
  /\ 0..mark' - 1 \subseteq rows
  /\ complete' => wanted \subseteq rows
  /\ UNCHANGED <<wanted, rows>>

Next == Upload \/ Save

Spec == Init /\ [][Next]_<<wanted, rows, mark, complete>>
=============================================================================
