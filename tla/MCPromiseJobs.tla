--------------------------- MODULE MCPromiseJobs ---------------------------
(* Model values and symmetry for the model checking of PromiseJobs. *)
EXTENDS PromiseJobs

CONSTANTS p1, p2, p3, p4

MCPromises2 == {p1, p2}
MCPromises3 == {p1, p2, p3}
MCPromises4 == {p1, p2, p3, p4}
Symmetry3 == Permutations(MCPromises3)
Symmetry4 == Permutations(MCPromises4)
=============================================================================
