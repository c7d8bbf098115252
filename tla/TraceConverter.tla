--------------------------- MODULE TraceConverter ---------------------------
(***************************************************************************)
(* From what gcmon read to trace events (trace_converter.py), and the same *)
(* for a capture read back (jsonl_io.py, combine.py).                      *)
(*                                                                         *)
(* An item is a collection, a loss interval or an instant.  A collection   *)
(* carries the marks its interpreter's version has: `from` and `upto` map  *)
(* a phase to the instants it starts and stops at.  Every timestamp is     *)
(* kept; of the metrics, "collected" stands for all that are drawn inside  *)
(* GC Metrics.  A row of the trace is named by a tuple, for which the      *)
(* encoder's uuids stand, and a counter's display name by its metric and   *)
(* what qualifies it.                                                      *)
(***************************************************************************)
EXTENDS Integers, Sequences, FiniteSets, SequencesExt, Sorting

ProcessRow(process) == <<"process", process>>
ThreadRow(process, iid) == <<"thread", process, iid>>
LossRow(process, iid) == <<"loss", process, iid>>

Slice(row, name, ts, stop, lost, pause) ==
  [type |-> "slice", row |-> row, name |-> name, ts |-> ts, stop |-> stop,
   lost |-> lost, pause |-> pause]
Instant(process, ts) == [type |-> "instant", row |-> ProcessRow(process), ts |-> ts]
Counter(row, display, ts) == [type |-> "counter", row |-> row, display |-> display, ts |-> ts]

-----------------------------------------------------------------------------
(* One item. *)

PhaseOrder == <<"mark_alive", "fill_increment", "deduce", "weakrefs", "finalize", "resurrect",
                "clear_weakrefs", "delete">>

(* Three phases carry no start of their own: each starts where the one before it stopped. *)
PhaseStart(item, phase) ==
  CASE phase = "finalize" -> item.upto["weakrefs"]
    [] phase = "resurrect" -> item.upto["finalize"]
    [] phase = "clear_weakrefs" -> item.upto["resurrect"]
    [] OTHER -> item.from[phase]

(* A phase the interpreter's version has and that took any time. *)
Ran(item, phase) == phase \in DOMAIN item.upto /\ item.upto[phase] - PhaseStart(item, phase) > 0

PauseSlice(process, item) ==
  Slice(ThreadRow(process, item.iid), "GC Pause", item.ts, item.stop, 0, 0)

PhaseSlices(process, item) ==
  LET ran == At(PhaseOrder, {i \in DOMAIN PhaseOrder : Ran(item, PhaseOrder[i])})
  IN  [i \in DOMAIN ran |-> Slice(ThreadRow(process, item.iid), ran[i],
                                  PhaseStart(item, ran[i]), item.upto[ran[i]], 0, 0)]

Counters(process, item) ==
  LET row == ThreadRow(process, item.iid)
  IN  << Counter(row, <<"collected", item.gen>>, item.ts),
         Counter(row, <<"heap_size", item.iid>>, item.ts) >>

(* convert_item_to_trace_format: the pause goes ahead of the phases inside it. *)
ConvertItem(process, item) ==
  <<PauseSlice(process, item)>> \o PhaseSlices(process, item) \o Counters(process, item)

SumOf(numbers) ==
  LET upto[n \in 0..Len(numbers)] == IF n = 0 THEN 0 ELSE upto[n - 1] + numbers[n]
  IN  upto[Len(numbers)]

Total(item, measure) == SumOf([i \in DOMAIN item.gens |-> item.gens[i][measure]])

(* convert_loss_to_trace_format: one slice, with the totals of its generations. *)
ConvertLoss(process, item) ==
  << Slice(LossRow(process, item.iid), "GC Loss", item.ts, item.stop,
           Total(item, "lost"), Total(item, "pause")) >>

Convert(process, item) ==
  CASE item.kind = "gc" -> ConvertItem(process, item)
    [] item.kind = "loss" -> ConvertLoss(process, item)
    [] item.kind = "instant" -> <<Instant(process, item.ts)>>

-----------------------------------------------------------------------------
(* A capture: the lines of a JSONL file, each [pid |-> , item |-> ]. *)

PidsOf(lines) == {lines[i].pid : i \in DOMAIN lines}

(* Every element at its first place. *)
Distinct(seq) == At(seq, Firsts(seq))

(* The pids in the order of their first line, and the items of each. *)
PidOrder(lines) == Distinct([i \in DOMAIN lines |-> lines[i].pid])
ItemsOf(lines, pid) ==
  LET own == At(lines, {i \in DOMAIN lines : lines[i].pid = pid})
  IN  [i \in DOMAIN own |-> own[i].item]

(* A mutant of LossInTimeOrder. *)
LossAsFound(items) == items

(* _loss_in_time_order: the loss records sorted by start among their own places. *)
LossInTimeOrder(items) ==
  LET places == {i \in DOMAIN items : items[i].kind = "loss"}
      Earlier(i, j) == items[i].ts < items[j].ts \/ (items[i].ts = items[j].ts /\ i < j)
      sorted == SortedBy(places, Earlier)
      Rank(i) == Cardinality({j \in places : j <= i})
  IN  [i \in DOMAIN items |-> IF i \in places THEN items[sorted[Rank(i)]] ELSE items[i]]

(* convert_to_trace_format: a pid reads as one process, on its first epoch. *)
ConvertCapture(lines) ==
  LET OfPid(pid) == LET items == LossInTimeOrder(ItemsOf(lines, pid))
                    IN  FlattenSeq([i \in DOMAIN items |-> Convert(pid, items[i])])
      pids == PidOrder(lines)
  IN  FlattenSeq([i \in DOMAIN pids |-> OfPid(pids[i])])

-----------------------------------------------------------------------------
(* --normalize.  Every instant a pid carries moves by its earliest start. *)

Earliest(instants) == CHOOSE t \in instants : \A u \in instants : t <= u

ShiftEvent(event, by) ==
  IF event.type = "slice" THEN [event EXCEPT !.ts = @ - by, !.stop = @ - by]
  ELSE [event EXCEPT !.ts = @ - by]

(* _normalize_trace_timestamps, over the events of one file. *)
NormalizeEvents(events) ==
  LET Own(process) == {i \in DOMAIN events : events[i].row[2] = process}
  IN  [i \in DOMAIN events |->
         ShiftEvent(events[i], Earliest({events[j].ts : j \in Own(events[i].row[2])}))]

(* A mutant of ShiftItem. *)
ShiftItemEnds(item, by) ==
  CASE item.kind = "instant" -> [item EXCEPT !.ts = @ - by]
    [] OTHER -> [item EXCEPT !.ts = @ - by, !.stop = @ - by]

ShiftItem(item, by) ==
  LET Shifted(marks) == [phase \in DOMAIN marks |-> marks[phase] - by]
  IN  CASE item.kind = "instant" -> [item EXCEPT !.ts = @ - by]
        [] item.kind = "loss" -> [item EXCEPT !.ts = @ - by, !.stop = @ - by]
        [] item.kind = "gc" -> [item EXCEPT !.ts = @ - by, !.stop = @ - by,
                                            !.from = Shifted(@), !.upto = Shifted(@)]

(* normalize_jsonl_timestamps, over the lines of a whole merge. *)
NormalizeLines(lines) ==
  [i \in DOMAIN lines |->
     [lines[i] EXCEPT !.item =
        ShiftItem(@, Earliest({lines[j].item.ts : j \in {k \in DOMAIN lines :
                                                           lines[k].pid = lines[i].pid}}))]]

(* read_jsonl, the merge and write_jsonl: the lines of each pid, file by file. *)
MergeLines(files) ==
  LET all == FlattenSeq(files)
      pids == PidOrder(all)
  IN  FlattenSeq([i \in DOMAIN pids |-> At(all, {j \in DOMAIN all : all[j].pid = pids[i]})])

(* combine_files to a capture. *)
CombineToJsonl(files, normalize) ==
  IF normalize THEN NormalizeLines(MergeLines(files)) ELSE MergeLines(files)

(* combine_files to a trace: the events of every file, for one batch. *)
CombineToEvents(files, normalize) ==
  FlattenSeq([i \in DOMAIN files |->
                IF normalize THEN NormalizeEvents(ConvertCapture(files[i]))
                ELSE ConvertCapture(files[i])])
=============================================================================
