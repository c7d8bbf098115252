----------------------- MODULE PerfettoExporterProofs -----------------------
(***************************************************************************)
(* The buffer and the encoder under any number of processes and events and *)
(* any threshold: what holds even if the join of the reader times out, and *)
(* what the join buys.                                                     *)
(***************************************************************************)
EXTENDS PerfettoExporter, FiniteSetTheorems, TLAPS

-----------------------------------------------------------------------------
(* The inductive invariant. *)

(* Only a thread inside a flush or a close holds a batch. *)
PlaceInv ==
  /\ pc["monitor"] \in {"idle", "publishing", "flushing", "joining", "closing", "closed"}
  /\ pc["control"] \in {"idle", "resolved", "flushing", "ended"}
  /\ \A t \in Threads : taken[t] # {} => pc[t] \in {"flushing", "closing"}

(* The events of a thread are numbered, so the next one is a new one. *)
FreshInv ==
  /\ IsFiniteSet(added)
  /\ \A event \in added : event.n <= Cardinality(AddedBy(event.by))
  /\ At("control", "resolved") => Cardinality(AddedBy("control")) < MaxAdds

(* A name that can be resolved has a command line, or is locked away. *)
NamesInv ==
  /\ known \subseteq cmdlines \cup (IF locked THEN subject["monitor"] ELSE {})
  /\ subject["monitor"] \subseteq known
  /\ subject["control"] \subseteq cmdlines
  /\ observed \cup DOMAIN rows \cup {event.process : event \in added} \subseteq cmdlines

IInv == TypeOK /\ PlaceInv /\ FreshInv /\ NamesInv /\ NothingLostOrDoubled

(* What the join buys: the reader is gone before the buffer is drained. *)
JoinInv ==
  /\ At("monitor", "closing") \/ At("monitor", "closed") => At("control", "ended") /\ buffer = {}
  /\ finished => At("monitor", "closed")
  /\ DOMAIN rows \subseteq Observed(folded)

-----------------------------------------------------------------------------
(* Helpers. *)

(* The next event of a thread has not been added, and keeps the numbering. *)
LEMMA NextIsFresh ==
  ASSUME IInv, NEW t \in Threads, NEW p \in Processes,
         Cardinality(AddedBy(t)) < MaxAdds, added' = added \cup {NextEvent(t, p)}
  PROVE  /\ NextEvent(t, p) \in Events \ added
         /\ IsFiniteSet(added')
         /\ \A event \in added' : event.n <= Cardinality(AddedBy(event.by)')
         /\ \A u \in Threads \ {t} : AddedBy(u)' = AddedBy(u)
<1> DEFINE next == NextEvent(t, p)
<1>1. IsFiniteSet(AddedBy(t)) /\ Cardinality(AddedBy(t)) \in Nat
  <2>1. AddedBy(t) \in SUBSET added /\ IsFiniteSet(added)
    BY DEF IInv, FreshInv, AddedBy
  <2> QED
    BY <2>1, FS_Subset, FS_CardinalityType
<1>2. /\ next.by = t /\ next.process = p
      /\ next.n = Cardinality(AddedBy(t)) + 1
  BY DEF NextEvent
<1>3. next \in Events
  BY <1>1, MaxAddsAssumption DEF NextEvent, Events
<1>4. next \notin added
  <2>1. SUFFICES ASSUME next \in added PROVE FALSE
    OBVIOUS
  <2>2. next.n <= Cardinality(AddedBy(t))
    BY <2>1, <1>2 DEF IInv, FreshInv
  <2> QED
    BY <2>2, <1>1, <1>2
<1>5. IsFiniteSet(added')
  BY FS_AddElement DEF IInv, FreshInv
<1>6. AddedBy(t)' = AddedBy(t) \cup {next}
  BY <1>2 DEF AddedBy
<1>7. \A u \in Threads \ {t} : AddedBy(u)' = AddedBy(u)
  BY <1>2 DEF AddedBy
<1>8. Cardinality(AddedBy(t)') = Cardinality(AddedBy(t)) + 1
  <2>1. next \notin AddedBy(t)
    BY <1>4 DEF AddedBy
  <2> QED
    BY <2>1, <1>1, <1>6, FS_AddElement
<1>9. ASSUME NEW event \in added'
      PROVE  event.n <= Cardinality(AddedBy(event.by)')
  <2>1. CASE event = next
    BY <2>1, <1>1, <1>2, <1>8
  <2>2. CASE event \in added
    <3>1. event.n <= Cardinality(AddedBy(event.by)) /\ event.by \in Threads /\ event.n \in Nat
      BY <2>2 DEF IInv, FreshInv, TypeOK, Events
    <3>2. CASE event.by = t
      BY <3>1, <3>2, <1>1, <1>8
    <3>3. CASE event.by # t
      BY <3>1, <3>3, <1>7
    <3> QED
      BY <3>2, <3>3
  <2> QED
    BY <1>9, <2>1, <2>2
<1> QED
  BY <1>3, <1>4, <1>5, <1>7, <1>9

(* Queueing an event, whether or not it fills the buffer, keeps the invariant. *)
LEMMA EnqueueKeeps ==
  ASSUME IInv, NEW t \in Threads, NEW p \in known \cap cmdlines,
         pc[t] \in {"idle", "resolved"},
         Cardinality(AddedBy(t)) < MaxAdds,
         Enqueue(t, NextEvent(t, p)),
         subject'["monitor"] = subject["monitor"],
         subject'["control"] \subseteq subject["control"],
         subject' \in [Threads -> SUBSET Processes],
         UNCHANGED <<registry, encoder>>
  PROVE  IInv'
<1> DEFINE next == NextEvent(t, p)
           filled == buffer \cup {next}
<1> USE DEF IInv, registry, encoder, At, Goto
<1>1. /\ next \in Events \ added
      /\ IsFiniteSet(added')
      /\ \A event \in added' : event.n <= Cardinality(AddedBy(event.by)')
      /\ \A u \in Threads \ {t} : AddedBy(u)' = AddedBy(u)
  BY NextIsFresh DEF Enqueue, TypeOK
<1>2. added' = added \cup {next} /\ next.process = p
  BY DEF Enqueue, NextEvent
<1>3. PICK full \in BOOLEAN :
        /\ full <=> Cardinality(filled) >= Threshold
        /\ buffer' = IF full THEN {} ELSE filled
        /\ taken' = IF full THEN [taken EXCEPT ![t] = filled] ELSE taken
        /\ pc' = [pc EXCEPT ![t] = IF full THEN "flushing" ELSE "idle"]
  BY DEF Enqueue
<1>4. taken[t] = {}
  BY DEF PlaceInv
<1>5. TypeOK'
  <2>1. pc' \in [Threads -> {"idle", "publishing", "resolved", "flushing",
                             "joining", "closing", "closed", "ended"}]
    BY <1>3 DEF TypeOK
  <2>2. locked' = (pc'["monitor"] = "publishing")
    BY <1>3 DEF TypeOK, Threads
  <2>3. Cardinality(buffer') < Threshold
    <3>1. CASE full
      BY <3>1, <1>3, FS_EmptySet, ThresholdAssumption
    <3>2. CASE ~full
      <4>1. IsFiniteSet(filled)
        <5>1. filled \in SUBSET added'
          BY <1>2 DEF TypeOK
        <5> QED
          BY <5>1, <1>1, FS_Subset
      <4>2. Cardinality(filled) \in Nat
        BY <4>1, FS_CardinalityType
      <4> QED
        BY <3>2, <4>2, <1>3, ThresholdAssumption
    <3> QED
      BY <3>1, <3>2
  <2>4. buffer' \subseteq added' /\ added' \subseteq Events
    BY <1>1, <1>2, <1>3 DEF TypeOK
  <2>5. taken' \in [Threads -> SUBSET added']
    BY <1>2, <1>3 DEF TypeOK
  <2>6. folded' \subseteq added'
    BY <1>2 DEF TypeOK
  <2>7. \A q \in DOMAIN rows' : rows'[q] \subseteq folded'
    BY DEF TypeOK
  <2> QED
    BY <2>1, <2>2, <2>3, <2>4, <2>5, <2>6, <2>7 DEF TypeOK
<1>6. PlaceInv'
  BY <1>3, <1>4 DEF PlaceInv, TypeOK, Threads
<1>7. FreshInv'
  <2>1. pc'["control"] = "resolved" => t # "control" /\ pc["control"] = "resolved"
    BY <1>3 DEF TypeOK, Threads
  <2>2. pc'["control"] = "resolved" => Cardinality(AddedBy("control")') < MaxAdds
    BY <1>1, <2>1 DEF FreshInv, Threads
  <2> QED
    BY <1>1, <2>2 DEF FreshInv
<1>8. NamesInv'
  BY <1>2 DEF NamesInv
<1>9. NothingLostOrDoubled'
  <2> SUFFICES ASSUME NEW event \in Events
               PROVE  Places(event)' = IF event \in added' THEN 1 ELSE 0
    BY DEF NothingLostOrDoubled
  <2>1. Places(event) = IF event \in added THEN 1 ELSE 0
    BY DEF NothingLostOrDoubled
  <2>2. copies'[event] = copies[event] /\ copies[event] \in Nat
    BY DEF TypeOK
  <2>3. next \notin buffer /\ \A u \in Threads : next \notin taken[u]
    BY <1>1 DEF TypeOK
  <2>4. CASE t = "monitor"
    BY <2>1, <2>2, <2>3, <2>4, <1>1, <1>2, <1>3, <1>4 DEF Places, TypeOK, Threads
  <2>5. CASE t = "control"
    BY <2>1, <2>2, <2>3, <2>5, <1>1, <1>2, <1>3, <1>4 DEF Places, TypeOK, Threads
  <2> QED
    BY <2>4, <2>5 DEF Threads
<1> QED
  BY <1>5, <1>6, <1>7, <1>8, <1>9

(* Rows are drawn of processes that were observed, over what was folded in. *)
LEMMA DrawnRows ==
  ASSUME NEW processes, NEW events,
         \A p \in DOMAIN rows : rows[p] \subseteq events
  PROVE  /\ DOMAIN Draw(processes, events)
              = DOMAIN rows \cup (processes \cap Observed(events))
         /\ \A p \in DOMAIN Draw(processes, events) : Draw(processes, events)[p] \subseteq events
<1> DEFINE due == (processes \cap Observed(events)) \ DOMAIN rows
           drawn == [p \in DOMAIN rows \cup due |->
                       IF p \in due THEN {event \in events : event.process = p} ELSE rows[p]]
<1>1. Draw(processes, events) = drawn
  BY DEF Draw
<1>2. DOMAIN drawn = DOMAIN rows \cup due
  OBVIOUS
<1>3. \A p \in DOMAIN rows \cup due : drawn[p] \subseteq events
  OBVIOUS
<1> QED
  BY <1>1, <1>2, <1>3

(* Writing the batch a thread holds, whatever rows go with it. *)
LEMMA WriteKeeps ==
  ASSUME IInv, NEW t \in Threads, pc[t] \in {"flushing", "closing"},
         NEW processes,
         WriteBatch(taken[t]),
         rows' = Draw(processes, folded'),
         taken' = [taken EXCEPT ![t] = {}],
         pc' = [pc EXCEPT ![t] = IF @ = "flushing" THEN "idle" ELSE "closed"],
         t = "control" => pc[t] = "flushing",
         finished' \in BOOLEAN,
         UNCHANGED <<subject, registry, added, buffer, cmdlines, observed>>
  PROVE  IInv'
<1> USE DEF IInv, registry, At
<1>1. /\ folded' = folded \cup taken[t]
      /\ copies' = [event \in Events |-> copies[event] + (IF event \in taken[t] THEN 1 ELSE 0)]
      /\ leaving' \in {leaving, {}}
  BY DEF WriteBatch
<1>2. taken[t] \subseteq added
  BY DEF TypeOK
<1>3. \A p \in DOMAIN rows : rows[p] \subseteq folded'
  BY <1>1 DEF TypeOK
<1>4. /\ DOMAIN rows' = DOMAIN rows \cup (processes \cap Observed(folded'))
      /\ \A p \in DOMAIN rows' : rows'[p] \subseteq folded'
  BY <1>3, DrawnRows, Zenon
<1>5. Observed(folded') \subseteq cmdlines
  <2>1. folded' \subseteq added
    BY <1>1, <1>2 DEF TypeOK
  <2>2. {event.process : event \in folded'} \subseteq {event.process : event \in added}
    BY <2>1
  <2> QED
    BY <2>2 DEF Observed, NamesInv
<1>6. TypeOK'
  <2>1. pc' \in [Threads -> {"idle", "publishing", "resolved", "flushing",
                             "joining", "closing", "closed", "ended"}]
    BY DEF TypeOK
  <2>2. locked' = (pc'["monitor"] = "publishing")
    BY DEF TypeOK, Threads
  <2>3. taken' \in [Threads -> SUBSET added'] /\ folded' \subseteq added'
    BY <1>1, <1>2 DEF TypeOK
  <2>4. copies' \in [Events -> Nat]
    BY <1>1 DEF TypeOK
  <2>5. DOMAIN rows' \subseteq known' /\ leaving' \subseteq gone'
    BY <1>1, <1>4, <1>5 DEF TypeOK
  <2> QED
    BY <2>1, <2>2, <2>3, <2>4, <2>5, <1>4 DEF TypeOK
<1>7. PlaceInv'
  BY DEF PlaceInv, TypeOK, Threads
<1>8. FreshInv'
  <2>1. \A u : AddedBy(u)' = AddedBy(u)
    BY DEF AddedBy
  <2>2. pc'["control"] = "resolved" => pc["control"] = "resolved"
    BY DEF TypeOK, Threads, PlaceInv
  <2> QED
    BY <2>1, <2>2 DEF FreshInv
<1>9. NamesInv'
  BY <1>4, <1>5 DEF NamesInv
<1>10. NothingLostOrDoubled'
  <2> SUFFICES ASSUME NEW event \in Events
               PROVE  Places(event)' = IF event \in added' THEN 1 ELSE 0
    BY DEF NothingLostOrDoubled
  <2>1. Places(event) = IF event \in added THEN 1 ELSE 0
    BY DEF NothingLostOrDoubled
  <2>2. /\ copies[event] \in Nat
        /\ copies'[event] = copies[event] + (IF event \in taken[t] THEN 1 ELSE 0)
    BY <1>1 DEF TypeOK
  <2>3. CASE t = "monitor"
    BY <2>1, <2>2, <2>3 DEF Places, TypeOK, Threads
  <2>4. CASE t = "control"
    BY <2>1, <2>2, <2>4 DEF Places, TypeOK, Threads
  <2> QED
    BY <2>3, <2>4 DEF Threads
<1> QED
  BY <1>6, <1>7, <1>8, <1>9, <1>10

-----------------------------------------------------------------------------
(* The invariant is kept. *)

(* The initial state satisfies it. *)
LEMMA IInvInit == Init => IInv
<1> SUFFICES ASSUME Init PROVE IInv
  OBVIOUS
<1>1. TypeOK
  <2>1. DOMAIN rows = {}
    BY DEF Init
  <2>2. Cardinality(buffer) < Threshold
    BY FS_EmptySet, ThresholdAssumption DEF Init
  <2>3. pc \in [Threads -> {"idle", "publishing", "resolved", "flushing",
                            "joining", "closing", "closed", "ended"}]
    BY DEF Init
  <2>4. locked = At("monitor", "publishing")
    BY DEF Init, At, Threads
  <2> QED
    BY <2>1, <2>2, <2>3, <2>4 DEF Init, TypeOK
<1>2. PlaceInv
  BY DEF Init, PlaceInv, Threads
<1>3. FreshInv
  BY FS_EmptySet DEF Init, FreshInv, At, Threads
<1>4. NamesInv
  BY DEF Init, NamesInv, Threads
<1>5. NothingLostOrDoubled
  BY DEF Init, NothingLostOrDoubled, Places, Threads
<1> QED
  BY <1>1, <1>2, <1>3, <1>4, <1>5 DEF IInv

(* A step that leaves the events where they are keeps what is said of them. *)
LEMMA EventsStand ==
  ASSUME NothingLostOrDoubled, UNCHANGED <<queue, copies>>
  PROVE  NothingLostOrDoubled'
BY DEF NothingLostOrDoubled, Places, queue

(* Steps that touch neither the buffer nor the batches. *)
LEMMA QuietSteps ==
  ASSUME IInv,
         \/ \E p \in Processes : BeginCreate(p) \/ Retire(p) \/ Resolve(p)
         \/ Publish \/ StopServer \/ EndReader
         \/ \E live \in SUBSET Processes : ReportLiveness(live)
  PROVE  IInv'
<1> USE DEF IInv, registry, queue, encoder, At, Goto, Live
<1>1. UNCHANGED <<queue, copies, folded, rows, finished>>
  BY DEF BeginCreate, Retire, Resolve, Publish, StopServer, EndReader, ReportLiveness
<1>2. NothingLostOrDoubled'
  BY <1>1, EventsStand
<1>3. \A u : AddedBy(u)' = AddedBy(u)
  BY <1>1 DEF AddedBy
<1>4. ASSUME NEW p \in Processes, BeginCreate(p) PROVE IInv'
  <2>1. TypeOK'
    BY <1>4 DEF BeginCreate, TypeOK, Threads
  <2>2. PlaceInv' /\ FreshInv'
    BY <1>3, <1>4 DEF BeginCreate, TypeOK, Threads, PlaceInv, FreshInv
  <2>3. NamesInv'
    BY <1>4 DEF BeginCreate, TypeOK, Threads, NamesInv
  <2> QED
    BY <1>2, <2>1, <2>2, <2>3
<1>5. ASSUME NEW p \in Processes, Retire(p) PROVE IInv'
  <2>1. TypeOK'
    BY <1>5 DEF Retire, TypeOK, Threads
  <2>2. PlaceInv' /\ FreshInv'
    BY <1>3, <1>5 DEF Retire, TypeOK, Threads, PlaceInv, FreshInv
  <2>3. NamesInv'
    BY <1>5 DEF Retire, NamesInv
  <2> QED
    BY <1>2, <2>1, <2>2, <2>3
<1>6. ASSUME NEW p \in Processes, Resolve(p) PROVE IInv'
  <2>1. TypeOK'
    BY <1>6 DEF Resolve, TypeOK, Threads
  <2>2. PlaceInv' /\ FreshInv'
    BY <1>3, <1>6 DEF Resolve, TypeOK, Threads, PlaceInv, FreshInv
  <2>3. NamesInv'
    BY <1>6 DEF Resolve, TypeOK, Threads, NamesInv
  <2> QED
    BY <1>2, <2>1, <2>2, <2>3
<1>7. CASE Publish
  <2>1. TypeOK'
    BY <1>7 DEF Publish, TypeOK, Threads, NamesInv
  <2>2. PlaceInv' /\ FreshInv'
    BY <1>3, <1>7 DEF Publish, TypeOK, Threads, PlaceInv, FreshInv
  <2>3. NamesInv'
    BY <1>7 DEF Publish, TypeOK, Threads, NamesInv
  <2> QED
    BY <1>2, <2>1, <2>2, <2>3
<1>8. CASE StopServer \/ EndReader
  <2>1. TypeOK'
    BY <1>8 DEF StopServer, EndReader, TypeOK, Threads
  <2>2. PlaceInv' /\ FreshInv'
    BY <1>3, <1>8 DEF StopServer, EndReader, TypeOK, Threads, PlaceInv, FreshInv
  <2>3. NamesInv'
    BY <1>8 DEF StopServer, EndReader, NamesInv
  <2> QED
    BY <1>2, <2>1, <2>2, <2>3
<1>9. CASE \E live \in SUBSET Processes : ReportLiveness(live)
  <2>1. PICK live \in SUBSET Processes : ReportLiveness(live)
    BY <1>9
  <2>2. TypeOK'
    BY <2>1 DEF ReportLiveness, TypeOK, Threads
  <2>3. PlaceInv' /\ FreshInv'
    BY <1>3, <2>1 DEF ReportLiveness, TypeOK, Threads, PlaceInv, FreshInv
  <2>4. live \subseteq cmdlines
    BY <2>1 DEF ReportLiveness, NamesInv, TypeOK
  <2>5. NamesInv'
    BY <2>1, <2>4 DEF ReportLiveness, NamesInv
  <2> QED
    BY <1>2, <2>2, <2>3, <2>5
<1> QED
  BY <1>4, <1>5, <1>6, <1>7, <1>8, <1>9

(* Steps that hand an event to the exporter. *)
LEMMA AddSteps ==
  ASSUME IInv, (\E p \in Processes : AddEvent(p)) \/ AddInstant
  PROVE  IInv'
<1> USE DEF IInv, At
<1>1. ASSUME NEW p \in Processes, AddEvent(p) PROVE IInv'
  <2>1. p \in known \cap cmdlines
    BY <1>1 DEF AddEvent, Live, NamesInv, TypeOK
  <2>2. /\ pc["monitor"] = "idle" /\ Cardinality(AddedBy("monitor")) < MaxAdds
        /\ Enqueue("monitor", NextEvent("monitor", p))
        /\ UNCHANGED <<subject, registry, encoder>>
    BY <1>1 DEF AddEvent
  <2>3. subject' \in [Threads -> SUBSET Processes] /\ subject' = subject
    BY <2>2 DEF TypeOK
  <2> QED
    BY <2>1, <2>2, <2>3, EnqueueKeeps DEF Threads
<1>2. CASE AddInstant
  <2>1. PICK q \in subject["control"] : Enqueue("control", NextEvent("control", q))
    BY <1>2 DEF AddInstant
  <2>2. /\ pc["control"] = "resolved" /\ Cardinality(AddedBy("control")) < MaxAdds
        /\ subject' = [subject EXCEPT !["control"] = {}]
        /\ UNCHANGED <<registry, encoder>>
    BY <1>2 DEF AddInstant, FreshInv
  <2>3. q \in known \cap cmdlines
    BY DEF NamesInv, TypeOK
  <2>4. /\ subject' \in [Threads -> SUBSET Processes]
        /\ subject'["monitor"] = subject["monitor"]
        /\ subject'["control"] \subseteq subject["control"]
    BY <2>2 DEF TypeOK, Threads
  <2> QED
    BY <2>1, <2>2, <2>3, <2>4, EnqueueKeeps DEF Threads
<1> QED
  BY <1>1, <1>2

(* Steps that take a batch or write one. *)
LEMMA WriteSteps ==
  ASSUME IInv, BeginClose \/ FinishClose \/ \E t \in Threads : Flush(t)
  PROVE  IInv'
<1> USE DEF IInv, At, Goto
<1>1. CASE BeginClose
  <2> USE <1>1 DEF BeginClose
  <2>1. taken["monitor"] = {}
    BY DEF PlaceInv, Threads
  <2>2. TypeOK'
    <3>1. Cardinality(buffer') < Threshold
      BY FS_EmptySet, ThresholdAssumption
    <3> QED
      BY <3>1 DEF TypeOK, Threads, registry, encoder
  <2>3. PlaceInv'
    BY DEF PlaceInv, TypeOK, Threads
  <2>4. FreshInv'
    <3>1. \A u : AddedBy(u)' = AddedBy(u)
      BY DEF AddedBy
    <3> QED
      BY <3>1 DEF FreshInv, TypeOK, Threads
  <2>5. NamesInv'
    BY DEF NamesInv, registry, encoder
  <2>6. NothingLostOrDoubled'
    BY <2>1 DEF NothingLostOrDoubled, Places, TypeOK, Threads, encoder
  <2> QED
    BY <2>2, <2>3, <2>4, <2>5, <2>6
<1>2. CASE FinishClose
  <2>1. /\ pc["monitor"] = "closing"
        /\ pc' = [pc EXCEPT !["monitor"] = "closed"]
        /\ WriteBatch(taken["monitor"])
        /\ rows' = Draw(Observed(folded'), folded')
        /\ taken' = [taken EXCEPT !["monitor"] = {}]
        /\ finished' \in BOOLEAN
        /\ UNCHANGED <<subject, registry, added, buffer, cmdlines, observed>>
    BY <1>2 DEF FinishClose
  <2>2. pc' = [pc EXCEPT !["monitor"] = IF @ = "flushing" THEN "idle" ELSE "closed"]
    BY <2>1 DEF TypeOK, Threads
  <2> QED
    BY <2>1, <2>2, WriteKeeps DEF Threads
<1>3. CASE \E t \in Threads : Flush(t)
  <2>1. PICK t \in Threads : Flush(t)
    BY <1>3
  <2>2. /\ pc[t] = "flushing"
        /\ pc' = [pc EXCEPT ![t] = "idle"]
        /\ WriteBatch(taken[t])
        /\ rows' = Draw(IF finished THEN {} ELSE leaving, folded')
        /\ taken' = [taken EXCEPT ![t] = {}]
        /\ finished' \in BOOLEAN
        /\ UNCHANGED <<subject, registry, added, buffer, cmdlines, observed>>
    BY <2>1 DEF Flush, TypeOK
  <2>3. pc' = [pc EXCEPT ![t] = IF @ = "flushing" THEN "idle" ELSE "closed"]
    BY <2>2 DEF TypeOK
  <2> QED
    BY <2>2, <2>3, WriteKeeps
<1> QED
  BY <1>1, <1>2, <1>3

(* A step that changes nothing keeps everything. *)
LEMMA Stutter == IInv /\ UNCHANGED vars => IInv'
BY DEF IInv, TypeOK, At, PlaceInv, FreshInv, AddedBy, NamesInv, NothingLostOrDoubled, Places,
       vars, registry, queue, encoder

(* Every step keeps it. *)
LEMMA IInvStep == IInv /\ [Next]_vars => IInv'
<1> SUFFICES ASSUME IInv, [Next]_vars PROVE IInv'
  OBVIOUS
<1>1. CASE UNCHANGED vars
  BY <1>1, Stutter
<1>2. CASE Monitor
  <2>1. ASSUME NEW p \in Processes, BeginCreate(p) \/ Retire(p) PROVE IInv'
    BY <2>1, QuietSteps
  <2>2. ASSUME NEW p \in Processes, AddEvent(p) PROVE IInv'
    BY <2>2, AddSteps
  <2>3. CASE Publish \/ StopServer \/ \E live \in SUBSET Processes : ReportLiveness(live)
    BY <2>3, QuietSteps
  <2>4. CASE Flush("monitor") \/ BeginClose \/ FinishClose
    BY <2>4, WriteSteps DEF Threads
  <2> QED
    BY <1>2, <2>1, <2>2, <2>3, <2>4, Zenon DEF Monitor
<1>3. CASE Control
  <2>1. CASE (\E p \in Processes : Resolve(p)) \/ EndReader
    BY <2>1, QuietSteps
  <2>2. CASE AddInstant
    BY <2>2, AddSteps
  <2>3. CASE Flush("control")
    BY <2>3, WriteSteps DEF Threads
  <2> QED
    BY <1>3, <2>1, <2>2, <2>3 DEF Control
<1> QED
  BY <1>1, <1>2, <1>3 DEF Next

-----------------------------------------------------------------------------
(* The theorems: with or without a join that times out. *)

(* The invariant holds throughout. *)
LEMMA IInvHolds == Spec => []IInv
<1> QED
  BY IInvInit, IInvStep, PTL DEF Spec

(* Every value of the exporter has its type, and the buffer stays below its threshold. *)
THEOREM TypeCorrect == Spec => []TypeOK
<1>1. IInv => TypeOK
  BY DEF IInv
<1> QED
  BY <1>1, IInvHolds, PTL

(* An event that was added is in the buffer, in one batch or in the file, and once. *)
THEOREM EachEventOnce == Spec => []NothingLostOrDoubled
<1>1. IInv => NothingLostOrDoubled
  BY DEF IInv
<1> QED
  BY <1>1, IInvHolds, PTL

(* No event or row of a process precedes the process's command line. *)
THEOREM CmdlinesComeFirst == Spec => []CmdlineFirst
<1>1. IInv => CmdlineFirst
  BY DEF IInv, NamesInv, TypeOK, CmdlineFirst
<1> QED
  BY <1>1, IInvHolds, PTL

-----------------------------------------------------------------------------
(* The theorems: when the reader is joined. *)

(* The join puts the end of the reader before the close. *)
LEMMA JoinStep == ~Late /\ IInv /\ JoinInv /\ [Next]_vars => JoinInv'
<1> SUFFICES ASSUME ~Late, IInv, JoinInv, [Next]_vars PROVE JoinInv'
  OBVIOUS
<1> USE DEF JoinInv, At, Goto
<1>0. pc = [t \in Threads |-> pc[t]] /\ {"monitor", "control"} = Threads
  BY DEF IInv, TypeOK, Threads
<1>1. CASE UNCHANGED vars
  BY <1>1 DEF vars, queue, encoder, Observed
<1>2. ASSUME NEW t \in Threads, NEW event, Enqueue(t, event), UNCHANGED encoder,
             t = "monitor" => At(t, "idle"), t = "control" => At(t, "resolved")
      PROVE  JoinInv'
  BY <1>0, <1>2 DEF Enqueue, encoder, Observed, Threads
<1>3. ASSUME NEW t \in Threads, Flush(t)
      PROVE  JoinInv'
  <2>1. folded \subseteq folded' /\ observed' = observed /\ finished' = finished
    BY <1>3 DEF Flush, WriteBatch
  <2>2. DOMAIN rows' \subseteq DOMAIN rows \cup Observed(folded')
    BY <1>3 DEF Flush, Draw
  <2>3. Observed(folded)  \subseteq Observed(folded') /\ Observed(folded)' = Observed(folded')
    BY <2>1 DEF Observed
  <2>4. pc' = [pc EXCEPT ![t] = "idle"] /\ pc[t] = "flushing" /\ buffer' = buffer
    BY <1>3 DEF Flush
  <2> QED
    BY <1>0, <2>1, <2>2, <2>3, <2>4
<1>4. CASE FinishClose
  <2>1. folded \subseteq folded' /\ observed' = observed
    BY <1>4 DEF FinishClose, WriteBatch
  <2>2. DOMAIN rows' \subseteq DOMAIN rows \cup Observed(folded')
    BY <1>4 DEF FinishClose, Draw
  <2>3. Observed(folded) \subseteq Observed(folded') /\ Observed(folded)' = Observed(folded')
    BY <2>1 DEF Observed
  <2>4. pc' = [pc EXCEPT !["monitor"] = "closed"] /\ pc["monitor"] = "closing" /\ buffer' = buffer
    BY <1>4 DEF FinishClose
  <2> QED
    BY <1>0, <2>2, <2>3, <2>4
<1>5. CASE BeginClose
  BY <1>0, <1>5 DEF BeginClose, encoder, Observed
<1>6. CASE StopServer \/ EndReader \/ Publish
  BY <1>0, <1>6 DEF StopServer, EndReader, Publish, queue, encoder, Observed
<1>7. ASSUME NEW p \in Processes, BeginCreate(p) \/ Retire(p) \/ Resolve(p)
      PROVE  JoinInv'
  BY <1>0, <1>7 DEF BeginCreate, Retire, Resolve, queue, encoder, Observed
<1>8. ASSUME NEW live \in SUBSET Processes, ReportLiveness(live)
      PROVE  JoinInv'
  BY <1>8 DEF ReportLiveness, queue, Observed
<1>9. ASSUME NEW p \in Processes, AddEvent(p)
      PROVE  JoinInv'
  BY <1>0, <1>2, <1>9 DEF AddEvent
<1>10. CASE AddInstant
  <2>1. PICK p \in subject["control"] : Enqueue("control", NextEvent("control", p))
    BY <1>10 DEF AddInstant
  <2>2. UNCHANGED encoder /\ At("control", "resolved")
    BY <1>10 DEF AddInstant
  <2> QED
    BY <1>0, <1>2, <2>1, <2>2
<1>11. CASE Monitor
  BY <1>0, <1>3, <1>4, <1>5, <1>6, <1>7, <1>8, <1>9, <1>11 DEF Monitor
<1>12. CASE Control
  BY <1>0, <1>3, <1>6, <1>7, <1>10, <1>12 DEF Control
<1> QED
  BY <1>1, <1>11, <1>12 DEF Next

(* With the invariant, whenever the join does not time out. *)
LEMMA JoinHolds == ~Late => (Spec => [](IInv /\ JoinInv))
<1>1. SUFFICES ASSUME ~Late PROVE Spec => [](IInv /\ JoinInv)
  OBVIOUS
<1>2. Init => IInv /\ JoinInv
  BY IInvInit DEF Init, JoinInv, At, Threads
<1>3. (IInv /\ JoinInv) /\ [Next]_vars => (IInv /\ JoinInv)'
  BY <1>1, IInvStep, JoinStep
<1> QED
  BY <1>2, <1>3, PTL DEF Spec

(* What no step of either thread does once the exporter is closed. *)
LEMMA NothingAfterClose ==
  ~Late /\ IInv /\ JoinInv /\ [Next]_vars /\ At("monitor", "closed")
    => UNCHANGED <<added, buffer, taken, encoder>>
<1> SUFFICES ASSUME ~Late, IInv, JoinInv, [Next]_vars, At("monitor", "closed")
             PROVE  UNCHANGED <<added, buffer, taken, encoder>>
  OBVIOUS
<1>1. pc["monitor"] = "closed" /\ pc["control"] = "ended"
  BY DEF JoinInv, At
<1>2. CASE UNCHANGED vars
  BY <1>2 DEF vars, queue
<1>3. ~Monitor
  BY <1>1 DEF Monitor, BeginCreate, AddEvent, Retire, ReportLiveness, Publish, Flush, StopServer,
              BeginClose, FinishClose, At
<1>4. ~Control
  BY <1>1 DEF Control, Resolve, AddInstant, Flush, EndReader, At
<1> QED
  BY <1>2, <1>3, <1>4 DEF Next

(* A closed trace is left alone when the reader has been joined. *)
THEOREM ClosedStaysClosed == ~Late => (Spec => ClosedIsFinal)
<1>1. SUFFICES ASSUME ~Late PROVE Spec => ClosedIsFinal
  OBVIOUS
<1>2. (IInv /\ JoinInv) /\ [Next]_vars => [At("monitor", "closed") => UNCHANGED encoder]_vars
  BY <1>1, NothingAfterClose
<1>3. Spec => [](IInv /\ JoinInv)
  BY <1>1, JoinHolds
<1> QED
  BY <1>2, <1>3, PTL DEF Spec, ClosedIsFinal

(* The rows follow the lives, step by step. *)
LEMMA RowsStep ==
  ~Late /\ IInv /\ JoinInv /\ RowsFollowLives /\ [Next]_vars => RowsFollowLives'
<1> SUFFICES ASSUME ~Late, IInv, JoinInv, RowsFollowLives, [Next]_vars
             PROVE  RowsFollowLives'
  OBVIOUS
<1>1. CASE finished
  <2>1. UNCHANGED encoder
    BY <1>1, NothingAfterClose DEF JoinInv
  <2> QED
    BY <1>1, <2>1 DEF encoder, RowsFollowLives, Observed
<1>2. CASE ~finished
  <2>1. DOMAIN rows \subseteq gone
    BY <1>2 DEF RowsFollowLives
  <2>2. ASSUME UNCHANGED <<rows, finished>>, gone \subseteq gone' PROVE RowsFollowLives'
    BY <1>2, <2>1, <2>2 DEF RowsFollowLives
  <2>3. ASSUME NEW t \in Threads, Flush(t) PROVE RowsFollowLives'
    <3>1. /\ leaving \subseteq gone /\ gone' = gone /\ finished' = finished
          /\ rows' = Draw(leaving, folded')
      BY <1>2, <2>3 DEF Flush, registry, IInv, TypeOK
    <3>2. DOMAIN rows' \subseteq DOMAIN rows \cup leaving
      BY <3>1 DEF Draw
    <3> QED
      BY <1>2, <2>1, <3>1, <3>2 DEF RowsFollowLives
  <2>4. CASE FinishClose
    <3>1. /\ folded' = folded \cup taken["monitor"]
          /\ rows' = Draw(Observed(folded'), folded')
          /\ finished' = (Observed(folded') # {})
          /\ gone' = gone
          /\ observed' = observed
      BY <2>4 DEF FinishClose, WriteBatch, registry
    <3>2. DOMAIN rows \subseteq Observed(folded') /\ Observed(folded)' = Observed(folded')
      BY <3>1 DEF JoinInv, Observed
    <3>3. DOMAIN rows' = Observed(folded')
      BY <3>1, <3>2 DEF Draw
    <3> QED
      BY <3>1, <3>2, <3>3 DEF RowsFollowLives
  <2>5. CASE StopServer \/ EndReader \/ Publish \/ BeginClose \/ AddInstant \/ UNCHANGED vars
    BY <2>2, <2>5 DEF StopServer, EndReader, Publish, BeginClose, AddInstant, vars, registry, encoder
  <2>6. ASSUME NEW p \in Processes, BeginCreate(p) \/ AddEvent(p) \/ Retire(p) \/ Resolve(p)
        PROVE  RowsFollowLives'
    BY <2>2, <2>6 DEF BeginCreate, AddEvent, Retire, Resolve, registry, encoder
  <2>7. ASSUME NEW live \in SUBSET Processes, ReportLiveness(live) PROVE RowsFollowLives'
    BY <2>2, <2>7 DEF ReportLiveness, registry
  <2>8. CASE Monitor
    BY <2>3, <2>4, <2>5, <2>6, <2>7, <2>8 DEF Monitor, Threads
  <2>9. CASE Control
    BY <2>3, <2>5, <2>6, <2>9 DEF Control, Threads
  <2> QED
    BY <2>5, <2>8, <2>9 DEF Next
<1> QED
  BY <1>1, <1>2

(* A row goes out early only for who has left, and at the close for everybody. *)
THEOREM RowsAreDue == ~Late => (Spec => []RowsFollowLives)
<1>1. SUFFICES ASSUME ~Late PROVE Spec => []RowsFollowLives
  OBVIOUS
<1>2. Init => RowsFollowLives
  BY DEF Init, RowsFollowLives
<1>3. (IInv /\ JoinInv) /\ RowsFollowLives /\ [Next]_vars => RowsFollowLives'
  BY <1>1, RowsStep
<1>4. Spec => [](IInv /\ JoinInv)
  BY <1>1, JoinHolds
<1> QED
  BY <1>2, <1>3, <1>4, PTL DEF Spec

(* What is written, and when the log is closed, as the abstract log has it. *)
Written == {event \in Events : copies[event] > 0}
Closed == At("monitor", "closed")

(* Every step of the exporter is a step of the log or leaves it alone. *)
LEMMA LogStep ==
  ~Late /\ IInv /\ JoinInv /\ [Next]_vars => [Log!Next]_(Log!logVars)
<1> SUFFICES ASSUME ~Late, IInv, JoinInv, [Next]_vars
             PROVE  [Log!Next]_(Log!logVars)
  OBVIOUS
<1> USE DEF At, Goto
<1>0. /\ pc = [t \in Threads |-> pc[t]] /\ {"monitor", "control"} = Threads
      /\ \A event \in Events : copies[event] \in Nat
      /\ Written \subseteq added /\ added \subseteq Events
  BY DEF IInv, TypeOK, Threads, NothingLostOrDoubled, Places, Written
<1>1. ASSUME UNCHANGED <<added, copies>>, Closed' = Closed
      PROVE  [Log!Next]_(Log!logVars)
  BY <1>1 DEF Log!logVars, Closed
<1>2. ASSUME NEW t \in Threads, NEW event, ~Closed, At(t, "idle") \/ At(t, "resolved"),
             event \in Events \ added, Enqueue(t, event), UNCHANGED encoder
      PROVE  [Log!Next]_(Log!logVars)
  <2>1. added' = added \cup {event} /\ copies' = copies /\ ~Closed'
    BY <1>0, <1>2 DEF Enqueue, encoder, Closed
  <2> QED
    BY <1>2, <2>1 DEF Log!Next, Log!Add, Closed
<1>3. ASSUME NEW t \in Threads, Flush(t)
      PROVE  [Log!Next]_(Log!logVars)
  <2>1. ~Closed /\ ~Closed'
    BY <1>0, <1>3 DEF Flush, Closed, JoinInv
  <2>2. taken[t] \subseteq added /\ added' = added
    BY <1>3 DEF Flush, IInv, TypeOK
  <2>3. copies' = [event \in Events |-> copies[event] + (IF event \in taken[t] THEN 1 ELSE 0)]
    BY <1>3 DEF Flush, WriteBatch
  <2>4. Written \subseteq Written' /\ Written' \subseteq added
    BY <1>0, <2>2, <2>3 DEF Written
  <2> QED
    BY <2>1, <2>2, <2>4 DEF Log!Next, Log!Write, Closed, Written
<1>4. CASE FinishClose
  <2>1. ~Closed /\ Closed' /\ added' = added
    BY <1>0, <1>4 DEF FinishClose, Closed
  <2>2. copies' = [event \in Events |->
                    copies[event] + (IF event \in taken["monitor"] THEN 1 ELSE 0)]
    BY <1>4 DEF FinishClose, WriteBatch
  <2>3. buffer = {} /\ taken["control"] = {} /\ taken["monitor"] \subseteq added
    BY <1>0, <1>4 DEF FinishClose, JoinInv, IInv, PlaceInv, TypeOK
  <2>4. \A event \in added : copies[event] > 0 \/ event \in taken["monitor"]
    BY <1>0, <2>3 DEF IInv, NothingLostOrDoubled, Places
  <2>5. Written' = added
    BY <1>0, <2>2, <2>3, <2>4 DEF Written
  <2> QED
    BY <2>1, <2>5 DEF Log!Next, Log!Close, Closed, Written
<1>5. CASE BeginClose
  BY <1>0, <1>1, <1>5 DEF BeginClose, encoder, Closed
<1>6. CASE StopServer \/ EndReader \/ Publish
  BY <1>0, <1>1, <1>6 DEF StopServer, EndReader, Publish, queue, encoder, Closed
<1>7. ASSUME NEW p \in Processes, BeginCreate(p) \/ Retire(p) \/ Resolve(p)
      PROVE  [Log!Next]_(Log!logVars)
  BY <1>0, <1>1, <1>7 DEF BeginCreate, Retire, Resolve, queue, encoder, Closed
<1>8. ASSUME NEW live \in SUBSET Processes, ReportLiveness(live)
      PROVE  [Log!Next]_(Log!logVars)
  BY <1>0, <1>1, <1>8 DEF ReportLiveness, queue, Closed
<1>9. ASSUME NEW p \in Processes, AddEvent(p)
      PROVE  [Log!Next]_(Log!logVars)
  <2>1. /\ At("monitor", "idle") /\ Cardinality(AddedBy("monitor")) < MaxAdds
        /\ Enqueue("monitor", NextEvent("monitor", p)) /\ UNCHANGED encoder
    BY <1>9 DEF AddEvent
  <2>2. added' = added \cup {NextEvent("monitor", p)}
    BY <2>1 DEF Enqueue
  <2>3. NextEvent("monitor", p) \in Events \ added
    BY <1>0, <2>1, <2>2, NextIsFresh
  <2> QED
    BY <1>0, <1>2, <2>1, <2>3 DEF Closed
<1>10. CASE AddInstant
  <2>1. PICK p \in subject["control"] : Enqueue("control", NextEvent("control", p))
    BY <1>10 DEF AddInstant
  <2>2. /\ At("control", "resolved") /\ UNCHANGED encoder
        /\ Cardinality(AddedBy("control")) < MaxAdds
    BY <1>10 DEF AddInstant, IInv, FreshInv
  <2>3. added' = added \cup {NextEvent("control", p)}
    BY <2>1 DEF Enqueue
  <2>4. NextEvent("control", p) \in Events \ added
    <3>1. p \in Processes
      BY <1>0 DEF IInv, TypeOK
    <3> QED
      BY <1>0, <2>2, <2>3, <3>1, NextIsFresh
  <2>5. ~Closed
    BY <2>2 DEF Closed, JoinInv
  <2> QED
    BY <1>0, <1>2, <2>1, <2>2, <2>4, <2>5
<1>11. CASE Monitor
  BY <1>0, <1>3, <1>4, <1>5, <1>6, <1>7, <1>8, <1>9, <1>11 DEF Monitor
<1>12. CASE Control
  BY <1>0, <1>3, <1>6, <1>7, <1>10, <1>12 DEF Control
<1>13. CASE UNCHANGED vars
  BY <1>1, <1>13 DEF vars, queue, encoder, Closed
<1> QED
  BY <1>11, <1>12, <1>13 DEF Next

(* The exporter implements the log: all that was added is written, once, by the close. *)
THEOREM Implementation == ~Late => (Spec => LogSpec)
<1>1. SUFFICES ASSUME ~Late PROVE Spec => LogSpec
  OBVIOUS
<1>2. Init => Log!Init
  BY DEF Init, Log!Init, At, Threads
<1>3. (IInv /\ JoinInv) /\ [Next]_vars => [Log!Next]_(Log!logVars)
  BY <1>1, LogStep
<1>4. Spec => [](IInv /\ JoinInv)
  BY <1>1, JoinHolds
<1> QED
  BY <1>2, <1>3, <1>4, PTL DEF Spec, LogSpec, Log!Spec
=============================================================================
