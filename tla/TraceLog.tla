------------------------------ MODULE TraceLog ------------------------------
(***************************************************************************)
(* What an exporter promises: each event handed to it before it is closed  *)
(* is in the trace when it has closed, once, and nothing is written later. *)
(***************************************************************************)
EXTENDS Naturals

CONSTANT Events

VARIABLES
  added,     (* events handed to the exporter   *)
  written,   (* events in the trace             *)
  closed     (* the exporter has been closed    *)

logVars == <<added, written, closed>>

Init ==
  /\ added = {}
  /\ written = {}
  /\ closed = FALSE

Add ==
  /\ ~closed
  /\ \E event \in Events \ added : added' = added \cup {event}
  /\ UNCHANGED <<written, closed>>

(* Some of what is waiting goes out, in no order that is promised. *)
Write ==
  /\ ~closed
  /\ written \subseteq written'
  /\ written' \subseteq added
  /\ UNCHANGED <<added, closed>>

Close ==
  /\ ~closed
  /\ written' = added
  /\ closed' = TRUE
  /\ UNCHANGED added

Next == Add \/ Write \/ Close

Spec == Init /\ [][Next]_logVars
=============================================================================
