--------------------------- MODULE MCStudentsDemo ---------------------------
(***************************************************************************)
(* Three runs: a table may be dropped, made again and shared.              *)
(***************************************************************************)
EXTENDS StudentsDemo, TLC

CONSTANTS r1, r2, r3

ThreeRuns == {r1, r2, r3}

(* The runs are interchangeable. *)
Symmetry == Permutations(ThreeRuns)
=============================================================================
