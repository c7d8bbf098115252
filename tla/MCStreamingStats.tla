-------------------------- MODULE MCStreamingStats --------------------------
(* StreamingStats on processes and interpreters that permutations leave alike. *)
EXTENDS StreamingStats, TLC

Symmetry == Permutations(Processes) \cup Permutations(Iids)
=============================================================================
