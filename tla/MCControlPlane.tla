--------------------------- MODULE MCControlPlane ---------------------------
(***************************************************************************)
(* ControlPlane with the two messages of a pause, the first maybe a mark,  *)
(* from threads that are interchangeable.                                  *)
(***************************************************************************)
EXTENDS ControlPlane, TLC

MCScript == <<{"stop", "mark"}, {"start"}>>
Symmetry == Permutations(Threads)
=============================================================================
