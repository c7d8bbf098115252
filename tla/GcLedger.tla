------------------------------ MODULE GcLedger ------------------------------
(***************************************************************************)
(* What the loss reconstruction promises about one ring of CPython GC      *)
(* records, with nothing said about how it is done: every GC run between   *)
(* the first and the last one gcmon read is either sampled or lost, never  *)
(* both and never neither, and what it was counted as stays.               *)
(***************************************************************************)
EXTENDS Integers

VARIABLES
  finished,   (* GC runs the target has finished; run k is the k-th of them *)
  sampled,    (* the runs gcmon read                                        *)
  lost,       (* the runs gcmon reports it could not read                   *)
  frontier    (* the newest run gcmon read, 0 before the first              *)

ledgerVars == <<finished, sampled, lost, frontier>>

Init ==
  /\ finished = 0
  /\ sampled = {}
  /\ lost = {}
  /\ frontier = 0

(* The target finishes a GC run. *)
Finish ==
  /\ finished' = finished + 1
  /\ UNCHANGED <<sampled, lost, frontier>>

(***************************************************************************)
(* A poll settles every run up to the newest one it read. The runs it read *)
(* are consecutive; what they leave open behind the frontier is lost.      *)
(* What ran before the first record ever read is outside the account.      *)
(***************************************************************************)
Settle ==
  \E from, to \in 1..finished :
    /\ frontier < from
    /\ from <= to
    /\ sampled' = sampled \cup (from..to)
    /\ lost' = IF frontier = 0 THEN lost ELSE lost \cup ((frontier + 1)..(from - 1))
    /\ frontier' = to
    /\ UNCHANGED finished

Next == Finish \/ Settle

Spec == Init /\ [][Next]_ledgerVars
=============================================================================
