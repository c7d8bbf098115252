-------------------------- MODULE PerfettoExporter --------------------------
(***************************************************************************)
(* The Perfetto exporter and its encoder (perfetto_exporter.py,            *)
(* encoder.py) between the two threads that use them: the monitor's, which *)
(* creates and retires processes, adds what it read and closes the         *)
(* exporter, and the control server's reader, which adds instants.         *)
(*                                                                         *)
(* _lock guards the buffer and _io_lock the encoder.  Nothing blocks while *)
(* it holds either, so a critical section is one step; a batch is taken    *)
(* under the one and written under the other, in two.                      *)
(***************************************************************************)
EXTENDS Naturals, FiniteSets

CONSTANTS
  Processes,   (* processes of the run                                     *)
  Threshold,   (* flush_threshold                                          *)
  MaxAdds,     (* bound: events each thread adds                           *)
  Late         (* TRUE: the join of the reader thread may time out         *)

ASSUME ThresholdAssumption == Threshold \in Nat \ {0}
ASSUME MaxAddsAssumption == MaxAdds \in Nat
ASSUME LateAssumption == Late \in BOOLEAN

Threads == {"monitor", "control"}
Events == [by : Threads, process : Processes, n : 1..MaxAdds]

VARIABLES
  pc,        (* where each thread is                                       *)
  subject,   (* the process a creation or an instant is about, as a set    *)
  known,     (* registry: processes created                                *)
  gone,      (* registry: processes retired                                *)
  locked,    (* registry: its lock is held, by a creation that publishes   *)
  added,     (* every event handed to the exporter, a history variable     *)
  buffer,    (* _buffer                                                    *)
  taken,     (* per thread, the batch it took and has yet to write         *)
  cmdlines,  (* encoder: processes whose command line it has               *)
  observed,  (* encoder: processes reported live                           *)
  folded,    (* encoder: events in the span accumulator and the totals     *)
  leaving,   (* encoder: _retired, processes whose row is due              *)
  rows,      (* encoder: per process whose row is drawn, what it covers    *)
  copies,    (* how many times each event is in the file                   *)
  finished   (* the Processes track has gone out                           *)

registry == <<known, gone, locked>>
queue == <<added, buffer, taken>>
encoder == <<cmdlines, observed, folded, leaving, rows, copies, finished>>
vars == <<pc, subject, registry, queue, encoder>>

Init ==
  /\ pc = [t \in Threads |-> "idle"]
  /\ subject = [t \in Threads |-> {}]
  /\ known = {} /\ gone = {} /\ locked = FALSE
  /\ added = {} /\ buffer = {} /\ taken = [t \in Threads |-> {}]
  /\ cmdlines = {} /\ observed = {} /\ folded = {} /\ leaving = {}
  /\ rows = <<>> /\ copies = [event \in Events |-> 0] /\ finished = FALSE

At(t, place) == pc[t] = place
Goto(t, place) == pc' = [pc EXCEPT ![t] = place]

AddedBy(t) == {event \in added : event.by = t}
NextEvent(t, process) == [by |-> t, process |-> process, n |-> Cardinality(AddedBy(t)) + 1]

-----------------------------------------------------------------------------
(* The buffer. *)

(* A mutant of Enqueue. *)
EnqueueAgain(t, event) ==
  LET filled == buffer \cup {event}
      full == Cardinality(filled) = Threshold
  IN  /\ buffer' = filled
      /\ taken' = IF full THEN [taken EXCEPT ![t] = filled] ELSE taken
      /\ Goto(t, IF full THEN "flushing" ELSE "idle")
      /\ added' = added \cup {event}

(* _enqueue under _lock: a full buffer is taken as the batch to write. *)
Enqueue(t, event) ==
  LET filled == buffer \cup {event}
      full == Cardinality(filled) >= Threshold
  IN  /\ buffer' = IF full THEN {} ELSE filled
      /\ taken' = IF full THEN [taken EXCEPT ![t] = filled] ELSE taken
      /\ Goto(t, IF full THEN "flushing" ELSE "idle")
      /\ added' = added \cup {event}

-----------------------------------------------------------------------------
(* The encoder, under _io_lock. *)

(* The processes the span accumulator has an instant of. *)
Observed(events) == observed \cup {event.process : event \in events}

(* A mutant of Draw. *)
DrawEveryone(processes, events) ==
  LET due == Observed(events) \ DOMAIN rows
  IN  [p \in DOMAIN rows \cup due |->
         IF p \in due THEN {event \in events : event.process = p} ELSE rows[p]]

(* The rows of processes that were observed and have none, over events. *)
Draw(processes, events) ==
  LET due == (processes \cap Observed(events)) \ DOMAIN rows
  IN  [p \in DOMAIN rows \cup due |->
         IF p \in due THEN {event \in events : event.process = p} ELSE rows[p]]

WriteBatch(batch) ==
  /\ folded' = folded \cup batch
  /\ copies' = [event \in Events |-> copies[event] + (IF event \in batch THEN 1 ELSE 0)]
  /\ leaving' = IF batch = {} THEN leaving ELSE {}

(* write_events: the batch is folded in, then the rows that are due go out. *)
Flush(t) ==
  /\ At(t, "flushing")
  /\ WriteBatch(taken[t])
  /\ rows' = Draw(IF finished THEN {} ELSE leaving, folded')
  /\ taken' = [taken EXCEPT ![t] = {}]
  /\ Goto(t, "idle")
  /\ UNCHANGED <<subject, registry, added, buffer, cmdlines, observed, finished>>

-----------------------------------------------------------------------------
(* The monitor's thread. *)

(* ProcessRegistry.create names the process, and holds its lock to publish. *)
BeginCreate(p) ==
  /\ At("monitor", "idle")
  /\ p \notin known
  /\ known' = known \cup {p}
  /\ locked' = TRUE
  /\ subject' = [subject EXCEPT !["monitor"] = {p}]
  /\ Goto("monitor", "publishing")
  /\ UNCHANGED <<gone, queue, encoder>>

Publish ==
  /\ At("monitor", "publishing")
  /\ cmdlines' = cmdlines \cup subject["monitor"]
  /\ locked' = FALSE
  /\ subject' = [subject EXCEPT !["monitor"] = {}]
  /\ Goto("monitor", "idle")
  /\ UNCHANGED <<known, gone, queue, observed, folded, leaving, rows, copies, finished>>

Live == known \ gone

(* add_event, add_loss_event and add_rss_sample. *)
AddEvent(p) ==
  /\ At("monitor", "idle")
  /\ p \in Live
  /\ Cardinality(AddedBy("monitor")) < MaxAdds
  /\ Enqueue("monitor", NextEvent("monitor", p))
  /\ UNCHANGED <<subject, registry, encoder>>

ReportLiveness(live) ==
  /\ At("monitor", "idle")
  /\ live # {} /\ live \subseteq Live
  /\ observed' = observed \cup live
  /\ UNCHANGED <<pc, subject, registry, queue, cmdlines, folded, leaving, rows, copies, finished>>

(* The registry lets go of the process and the encoder is told. *)
Retire(p) ==
  /\ At("monitor", "idle")
  /\ p \in Live
  /\ gone' = gone \cup {p}
  /\ leaving' = leaving \cup {p}
  /\ UNCHANGED <<pc, subject, known, locked, queue, cmdlines, observed, folded, rows, copies,
                 finished>>

(* The loop is over: the control server is closed before the monitor is. *)
StopServer ==
  /\ At("monitor", "idle")
  /\ Goto("monitor", "joining")
  /\ UNCHANGED <<subject, registry, queue, encoder>>

(* A mutant of BeginClose. *)
BeginCloseEmpty ==
  /\ At("monitor", "joining")
  /\ Late \/ At("control", "ended")
  /\ buffer' = {}
  /\ Goto("monitor", "closing")
  /\ UNCHANGED <<subject, registry, added, taken, encoder>>

(* The reader has been joined; close takes what is left under _lock. *)
BeginClose ==
  /\ At("monitor", "joining")
  /\ Late \/ At("control", "ended")
  /\ taken' = [taken EXCEPT !["monitor"] = buffer]
  /\ buffer' = {}
  /\ Goto("monitor", "closing")
  /\ UNCHANGED <<subject, registry, added, encoder>>

(* The rest of close: the last batch, then every row and the Processes track. *)
FinishClose ==
  /\ At("monitor", "closing")
  /\ WriteBatch(taken["monitor"])
  /\ rows' = Draw(Observed(folded'), folded')
  /\ finished' = (Observed(folded') # {})
  /\ taken' = [taken EXCEPT !["monitor"] = {}]
  /\ Goto("monitor", "closed")
  /\ UNCHANGED <<subject, registry, added, buffer, cmdlines, observed>>

-----------------------------------------------------------------------------
(* The reader thread of the control server. *)

(* A mutant of Resolve. *)
ResolveUnlocked(p) ==
  /\ At("control", "idle")
  /\ p \in known
  /\ Cardinality(AddedBy("control")) < MaxAdds
  /\ subject' = [subject EXCEPT !["control"] = {p}]
  /\ Goto("control", "resolved")
  /\ UNCHANGED <<registry, queue, encoder>>

(* A message arrived; the registry names its process, live or gone. *)
Resolve(p) ==
  /\ At("control", "idle")
  /\ ~locked
  /\ p \in known
  /\ Cardinality(AddedBy("control")) < MaxAdds
  /\ subject' = [subject EXCEPT !["control"] = {p}]
  /\ Goto("control", "resolved")
  /\ UNCHANGED <<registry, queue, encoder>>

AddInstant ==
  /\ At("control", "resolved")
  /\ \E p \in subject["control"] : Enqueue("control", NextEvent("control", p))
  /\ subject' = [subject EXCEPT !["control"] = {}]
  /\ UNCHANGED <<registry, encoder>>

(* A mutant of EndReader. *)
EndReaderLast ==
  /\ At("control", "idle")
  /\ At("monitor", "closed")
  /\ Goto("control", "ended")
  /\ UNCHANGED <<subject, registry, queue, encoder>>

(* The stop event is set and what had arrived is drained: the thread ends. *)
EndReader ==
  /\ At("control", "idle")
  /\ pc["monitor"] \in {"joining", "closing", "closed"}
  /\ Goto("control", "ended")
  /\ UNCHANGED <<subject, registry, queue, encoder>>

Monitor ==
  \/ \E p \in Processes : BeginCreate(p) \/ AddEvent(p) \/ Retire(p)
  \/ \E live \in SUBSET Processes : ReportLiveness(live)
  \/ Publish
  \/ Flush("monitor")
  \/ StopServer
  \/ BeginClose
  \/ FinishClose

Control ==
  \/ \E p \in Processes : Resolve(p)
  \/ AddInstant
  \/ Flush("control")
  \/ EndReader

Next == Monitor \/ Control

Spec == Init /\ [][Next]_vars

(***************************************************************************)
(* A thread inside a call goes on, and once the run is over both threads   *)
(* come to their end.  How long the run lasts is not said.                 *)
(***************************************************************************)
FairSpec ==
  /\ Spec
  /\ WF_vars(Publish) /\ WF_vars(AddInstant) /\ WF_vars(EndReader)
  /\ \A t \in Threads : WF_vars(Flush(t))
  /\ WF_vars(BeginClose) /\ WF_vars(FinishClose)

-----------------------------------------------------------------------------
(* Properties. *)

TypeOK ==
  /\ pc \in [Threads -> {"idle", "publishing", "resolved", "flushing",
                         "joining", "closing", "closed", "ended"}]
  /\ subject \in [Threads -> SUBSET Processes]
  /\ gone \subseteq known /\ known \subseteq Processes
  /\ locked = At("monitor", "publishing")
  /\ buffer \subseteq added /\ added \subseteq Events
  /\ Cardinality(buffer) < Threshold
  /\ taken \in [Threads -> SUBSET added]
  /\ folded \subseteq added
  /\ cmdlines \subseteq known /\ observed \subseteq known /\ leaving \subseteq gone
  /\ DOMAIN rows \subseteq known /\ \A p \in DOMAIN rows : rows[p] \subseteq folded
  /\ copies \in [Events -> Nat]
  /\ finished \in BOOLEAN

(* In how many places an event is: the buffer, a thread's batch, the file. *)
Places(event) ==
  copies[event] + (IF event \in buffer THEN 1 ELSE 0)
    + (IF event \in taken["monitor"] THEN 1 ELSE 0)
    + (IF event \in taken["control"] THEN 1 ELSE 0)

(***************************************************************************)
(* Whatever the two threads interleave, an event that was added is in one  *)
(* place: not lost between the locks, not in two batches, not in the file  *)
(* twice.                                                                  *)
(***************************************************************************)
NothingLostOrDoubled ==
  \A event \in Events : Places(event) = IF event \in added THEN 1 ELSE 0

(***************************************************************************)
(* A row goes out early only for a process that has left, and at the close *)
(* every process there is any evidence of has one.                         *)
(***************************************************************************)
RowsFollowLives ==
  IF finished THEN DOMAIN rows = Observed(folded) ELSE DOMAIN rows \subseteq gone

(***************************************************************************)
(* A process's descriptor is written once, with whatever command line is   *)
(* known then: no event or row of a process precedes its command line.     *)
(***************************************************************************)
CmdlineFirst == DOMAIN rows \cup {event.process : event \in folded} \subseteq cmdlines

(* A closed trace is left alone. *)
ClosedIsFinal == [][At("monitor", "closed") => UNCHANGED encoder]_vars

(* The exporter keeps the promise of a trace log. *)
Log == INSTANCE TraceLog
  WITH written <- {event \in Events : copies[event] > 0}, closed <- At("monitor", "closed")
LogSpec == Log!Spec

(* A run that is over is written out, whatever the clients still send. *)
RunIsWritten == At("monitor", "joining") ~> At("monitor", "closed")
=============================================================================
