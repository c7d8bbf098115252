--------------------------- MODULE MCEventsMonitor --------------------------
(* EventsMonitor on a target "r" and one pid "c" for its children. *)
EXTENDS EventsMonitor

MCNoneCollects == [pid \in Pids |-> 0]
MCChildCollects == [pid \in Pids |-> IF pid = Root THEN 0 ELSE 2]
MCTargetCollects == [pid \in Pids |-> IF pid = Root THEN 3 ELSE 0]
=============================================================================
