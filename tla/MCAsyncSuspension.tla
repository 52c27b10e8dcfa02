------------------------ MODULE MCAsyncSuspension ------------------------
(* Model values and symmetry for the model checking of AsyncSuspension. *)
EXTENDS AsyncSuspension, TLC

CONSTANTS a1, a2, a3, e1, e2

MCActs == {a1, a2}
MCActs3 == {a1, a2, a3}
MCExt == {e1, e2}
MCExt1 == {e1}
Symmetry3 == Permutations(MCActs3)

\* Unless the process exits first, an async call returns to its caller and an await of a
\* settled promise resumes: no hand-over of control is lost between them.
CallsProgress == CallsReturn /\ SettledAwaitsResume
=============================================================================
