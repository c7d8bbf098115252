---------------------------- MODULE TraceEncoder ----------------------------
(***************************************************************************)
(* The Perfetto encoder and what it knows of the trace it writes           *)
(* (encoder.py, perfetto_format.py, perfetto_track_state.py,               *)
(* perfetto_process_lifetime.py), packet by packet.                        *)
(*                                                                         *)
(* A row is named by the key its uuid is allocated for.  `buffer` is the   *)
(* exporter's: a flush may come after any call, as flush_threshold may be  *)
(* any number.  A run may be killed at any time, and leaves the file as it *)
(* is.  A process is a number, ordered as (pid, pid_epoch) is.  Command    *)
(* lines are PerfettoExporter's.                                           *)
(***************************************************************************)
EXTENDS TraceConverter, TraceProcessor

CONSTANTS
  Processes,     (* processes, numbers                                      *)
  Monitored,     (* those a live run reads; a capture may name any          *)
  Collections,   (* the collections a read may find                         *)
  Losses,        (* the intervals a read may have missed                    *)
  Captured,      (* the items the lines of a JSONL file may carry           *)
  Captures,      (* what combine may be given: sequences of such files      *)
  MaxTime,       (* bound: the clock                                        *)
  MaxCalls       (* bound: items and samples handed to the exporter         *)

(* What an interval missed of one generation. *)
GenLoss == [lost : Int, pause : Int]

ASSUME ProcessesAssumption ==
  /\ IsFiniteSet(Processes) /\ Processes \subseteq Nat \ {0}
  /\ Monitored \subseteq Processes
ASSUME ItemsAssumption ==
  /\ \A item \in Collections : item.kind = "gc"
  /\ \A item \in Losses : item.kind = "loss"
  /\ \A item \in Captured : item.kind \in {"gc", "loss", "instant"}
  /\ \A item \in Collections \cup Losses \cup Captured :
       /\ item.ts \in Int
       /\ item.kind # "instant" => item.stop \in Int /\ item.ts <= item.stop
       /\ item.kind = "gc" => \A phase \in DOMAIN item.upto :
            /\ PhaseStart(item, phase) \in Int /\ item.upto[phase] \in Int
            /\ item.ts <= PhaseStart(item, phase) /\ item.upto[phase] <= item.stop
       /\ item.kind = "gc" => \A i, j \in DOMAIN PhaseOrder :
            i < j /\ Ran(item, PhaseOrder[i]) /\ Ran(item, PhaseOrder[j]) =>
              item.upto[PhaseOrder[i]] <= PhaseStart(item, PhaseOrder[j])
       /\ item.kind = "loss" => item.gens \in Seq(GenLoss)

(* The fields a line of a capture has, by what it is of. *)
Fields(kind) ==
  CASE kind = "gc" -> {"kind", "iid", "gen", "ts", "stop", "from", "upto"}
    [] kind = "loss" -> {"kind", "iid", "ts", "stop", "gens"}
    [] OTHER -> {"kind", "ts"}

(* A phase that stops has its start among the marks, its own or the stop before it. *)
StartMarked(item, phase) ==
  CASE phase = "finalize" -> "weakrefs" \in DOMAIN item.upto
    [] phase = "resurrect" -> "finalize" \in DOMAIN item.upto
    [] phase = "clear_weakrefs" -> "resurrect" \in DOMAIN item.upto
    [] OTHER -> phase \in DOMAIN item.from

ASSUME FieldsAssumption ==
  \A item \in Captured :
    /\ DOMAIN item = Fields(item.kind)
    /\ item.kind = "gc" => \A phase \in DOMAIN item.upto : StartMarked(item, phase)
ASSUME CapturesAssumption ==
  \A files \in Captures : files \in Seq(Seq([pid : Processes, item : Captured]))

VARIABLES
  described,   (* rows whose descriptor has gone out                        *)
  row_pids,    (* _row_pids                                                 *)
  spans,       (* _process_lifetime_start and _end                          *)
  totals,      (* _sampled_counts, _lost_counts and _lost_pause_ns          *)
  ranks,       (* _process_ranks                                            *)
  drawn,       (* _process_rows_drawn                                       *)
  emitted,     (* _process_lifetime_emitted                                 *)
  retired,     (* _retired                                                  *)
  file,        (* the packets on disk                                       *)
  buffer,      (* the exporter: events not handed to the encoder yet        *)
  gone,        (* the caller: processes it has let go of                    *)
  read_to,     (* the caller: per row, where the last slice it read stopped *)
  clock,       (* the caller: the instant of this tick                      *)
  calls,       (* the caller: items and samples handed over                 *)
  capture      (* the caller: what combine was given                        *)

state == <<described, row_pids, spans, totals, ranks, drawn, emitted>>
caller == <<gone, read_to, clock, calls, capture>>
vars == <<state, retired, file, buffer, caller>>

NoTotals == [sampled |-> 0, lost |-> 0, pause |-> 0]
NoCapture == [files |-> <<>>, normalize |-> FALSE]

Init ==
  /\ described = {} /\ row_pids = <<>> /\ spans = <<>> /\ ranks = <<>> /\ drawn = {}
  /\ totals = [p \in Processes |-> NoTotals]
  /\ emitted = FALSE /\ retired = <<>> /\ file = <<>> /\ buffer = <<>>
  /\ gone = {} /\ read_to = <<>> /\ clock = 0 /\ calls = 0 /\ capture = NoCapture

-----------------------------------------------------------------------------
(* Rows.  "root" is uuid 0, "Processes" the shared track of every process. *)

RootRow == <<"root">>
LifetimesRow == <<"Processes">>
GroupRow(row) == <<"group", row>>
CounterRow(row, display) == <<"counter", row, display>>

ProcessOf(row) == IF row[1] \in {"group", "counter"} THEN row[2][2] ELSE row[2]
Owner(event) == event.row[2]

(* A counter the process owns, or whose metric is drawn a level up. *)
TopLevel(row, display) == row[1] = "process" \/ display[1] = "heap_size"

(* A mutant of CounterRows. *)
CounterRowsUngrouped(event) == <<CounterRow(event.row, event.display)>>

CounterRows(event) ==
  IF TopLevel(event.row, event.display) THEN <<CounterRow(event.row, event.display)>>
  ELSE <<GroupRow(event.row), CounterRow(event.row, event.display)>>

(* The rows an event needs, parent first. *)
RowsOf(event) ==
  <<ProcessRow(Owner(event))>>
    \o (IF event.row[1] = "process" THEN <<>> ELSE <<event.row>>)
    \o (IF event.type = "counter" THEN CounterRows(event) ELSE <<>>)

Parent(row) ==
  CASE row[1] \in {"root", "process", "Processes"} -> {}
    [] row[1] = "counter" -> IF TopLevel(row[2], row[3]) THEN {ProcessRow(ProcessOf(row))}
                             ELSE {GroupRow(row[2])}
    [] OTHER -> {ProcessRow(ProcessOf(row))}

-----------------------------------------------------------------------------
(* The span accumulator, the totals and the ranks. *)

Latest(instants) == CHOOSE t \in instants : \A u \in instants : t >= u

Ends(span) == {span.start, span.stop}

(* update_process_lifetime: a plain minimum and maximum over all that is seen of a process. *)
Widen(old, seen) ==
  [p \in DOMAIN old \cup {q \in DOMAIN seen : seen[q] # {}} |->
     LET instants == (IF p \in DOMAIN old THEN Ends(old[p]) ELSE {})
                       \cup (IF p \in DOMAIN seen THEN seen[p] ELSE {})
     IN  [start |-> Earliest(instants), stop |-> Latest(instants)]]

(* _record_process_lifetime: a slice is evidence at both its ends. *)
Evidence(events) ==
  [p \in Processes |->
     LET own == {i \in DOMAIN events : Owner(events[i]) = p}
         slices == {i \in own : events[i].type = "slice"}
     IN  {events[i].ts : i \in own} \cup {events[i].stop : i \in slices}]

IsLoss(event) == event.type = "slice" /\ event.row[1] = "loss"

(* A mutant of IsPause. *)
IsPauseOrPhase(event) == event.type = "slice" /\ event.row[1] = "thread"

IsPause(event) == event.type = "slice" /\ event.row[1] = "thread" /\ event.name = "GC Pause"

(* What the loss slices among some events of a batch carry. *)
InLosses(events, own, measure) ==
  SumOf([i \in DOMAIN events |->
           IF i \in own /\ IsLoss(events[i]) THEN events[i][measure] ELSE 0])

(* _record_capture_totals, on each event: a pause is one record, a loss slice one interval. *)
Counted(sums, events) ==
  [p \in Processes |->
     LET own == {i \in DOMAIN events : Owner(events[i]) = p}
     IN  [sampled |-> sums[p].sampled + Cardinality({i \in own : IsPause(events[i])}),
          lost |-> sums[p].lost + InLosses(events, own, "lost"),
          pause |-> sums[p].pause + InLosses(events, own, "pause")]]

(* rank_processes: the fresh ones draw the next ranks, sorted by (start, process). *)
Ranked(old, processes, known) ==
  LET fresh == {p \in processes \cap DOMAIN known : p \notin DOMAIN old}
      Before(p, q) == \/ known[p].start < known[q].start
                      \/ known[p].start = known[q].start /\ p < q
  IN  [p \in DOMAIN old \cup fresh |->
         IF p \in DOMAIN old THEN old[p]
         ELSE Cardinality(DOMAIN old) + Cardinality({q \in fresh : Before(q, p)})]

(* What has no number yet takes the next one, counted from `first`, each in its turn. *)
InTurn(given, seq, first) ==
  LET fresh == {i \in DOMAIN seq : seq[i] \notin DOMAIN given}
      Turn(e) == CHOOSE i \in fresh : seq[i] = e
  IN  [e \in DOMAIN given \cup {seq[i] : i \in fresh} |->
         IF e \in DOMAIN given THEN given[e]
         ELSE first + Cardinality(DOMAIN given) + Cardinality({i \in fresh : i < Turn(e)})]

(* The retired, who are known, are ranked one by one. *)
RankedInTurn(old, processes) == InTurn(old, processes, 0)

-----------------------------------------------------------------------------
(* Packets. *)

(* The rows of a sequence that are not described yet, each once. *)
Fresh(rows, done) == At(rows, {i \in Firsts(rows) : rows[i] \notin done})

(* get_row_pid: counted from 1, in the order the process rows are described. *)
Numbered(pids, rows) ==
  LET own == At(rows, {i \in DOMAIN rows : rows[i][1] = "process"})
  IN  InTurn(pids, [i \in DOMAIN own |-> own[i][2]], 1)

(* Interpreter 0 takes the row's pid as its tid. *)
Tid(row, pids) == IF row[3] = 0 THEN pids[row[2]] ELSE row[3]

Descriptor(row, pids, given, known) ==
  [type |-> "descriptor", row |-> row, parent |-> Parent(row),
   pid |-> IF row[1] \in {"process", "thread"} THEN pids[row[2]] ELSE 0,
   tid |-> IF row[1] = "thread" THEN Tid(row, pids) ELSE 0,
   rank |-> IF row[1] = "process" THEN given[row[2]] ELSE 0,
   start |-> IF row[1] = "process" THEN known[row[2]].start ELSE 0]

Descriptors(rows, pids, given, known) ==
  [i \in DOMAIN rows |-> Descriptor(rows[i], pids, given, known)]

(* A slice goes out as an adjacent pair, BEGIN first. *)
Pair(row, name, endName, ts, stop, args) ==
  << [type |-> "begin", row |-> row, name |-> name, ts |-> ts, stop |-> stop, args |-> args],
     [type |-> "end", row |-> row, name |-> endName, ts |-> stop] >>

PacketsOf(event) ==
  CASE event.type = "slice" ->
         Pair(event.row, event.name, {}, event.ts, event.stop,
              [lost |-> event.lost, pause |-> event.pause])
    [] event.type = "instant" -> <<event>>
    [] event.type = "counter" ->
         <<[type |-> "value", row |-> CounterRow(event.row, event.display), ts |-> event.ts]>>

(* _emit_process_row_lifetime_slice, with what is known of the process when it is drawn. *)
Bar(p, known, sums, done) ==
  Pair(ProcessRow(p), "Lifetime", {}, known[p].start, known[p].stop,
       [interpreters |-> Cardinality({row \in done : row[1] = "thread" /\ row[2] = p}),
        totals |-> sums[p]])

(* _emit_process_lifetime_slice; the END repeats the name. *)
LifetimeSlice(p, span, stop) ==
  Pair(LifetimesRow, p, {p}, span.start, stop,
       [real_start |-> span.start, real_stop |-> span.stop, clipped |-> stop # span.stop])

-----------------------------------------------------------------------------
(* The encoder's calls. *)

(* _emit_root_descriptor: once, ahead of everything. *)
WithRoot(rows, done) == IF RootRow \in done THEN rows ELSE <<RootRow>> \o rows

(* A mutant of Due. *)
DueBefore(known) ==
  At(retired, {i \in Firsts(retired) : retired[i] \in DOMAIN spans \ drawn /\ ~emitted})

(* emit_retired_process_row: nothing for what was never observed, is drawn or comes too late. *)
Due(known) ==
  At(retired, {i \in Firsts(retired) : retired[i] \in DOMAIN known \ drawn /\ ~emitted})

(***************************************************************************)
(* write_events on a batch that is not empty: the pre-pass, the rows and   *)
(* packets of the events, then the rows of the processes retired since.    *)
(***************************************************************************)
WriteEvents(events) ==
  LET known == Widen(spans, Evidence(events))
      sums == Counted(totals, events)
      given == Ranked(ranks, {Owner(events[i]) : i \in DOMAIN events}, known)
      needed == FlattenSeq([i \in DOMAIN events |-> RowsOf(events[i])])
      rows == Fresh(WithRoot(needed, described), described)
      due == Due(known)
      leaving == Fresh([i \in DOMAIN due |-> ProcessRow(due[i])], described \cup ToSet(rows))
      pids == Numbered(row_pids, rows \o leaving)
      after == RankedInTurn(given, due)
      done == described \cup ToSet(rows) \cup ToSet(leaving)
      Row(p) == (IF ProcessRow(p) \in ToSet(leaving)
                 THEN Descriptors(<<ProcessRow(p)>>, pids, after, known) ELSE <<>>)
                  \o Bar(p, known, sums, done)
  IN  [described |-> done, row_pids |-> pids, spans |-> known, totals |-> sums, ranks |-> after,
       drawn |-> drawn \cup ToSet(due),
       packets |-> Descriptors(rows, pids, given, known)
                     \o FlattenSeq([i \in DOMAIN events |-> PacketsOf(events[i])])
                     \o FlattenSeq([i \in DOMAIN due |-> Row(due[i])])]

(* The spans as the sweep takes them: by start, the longer first, then by process. *)
SweepOrder(known) ==
  LET Before(p, q) ==
        \/ known[p].start < known[q].start
        \/ known[p].start = known[q].start /\ known[p].stop > known[q].stop
        \/ known[p] = known[q] /\ p < q
  IN  SortedBy(DOMAIN known, Before)

(* A mutant of ClipAt. *)
ClipAtStart(span) == span.start

(* A crossed span ends just before the one that crosses it. *)
ClipAt(span) == span.start - 1

(***************************************************************************)
(* One span of the sweep: it walks out through the spans still open, as    *)
(* far as the last one that contains it.  Of those it passes it clips the  *)
(* ones it crosses; the rest had ended.                                    *)
(***************************************************************************)
WalkOut(sweep, span) ==
  LET within == SelectLastInSeq(sweep.open, LAMBDA outer : sweep.ends[outer] >= span.stop)
      passed == {sweep.open[d] : d \in (within + 1)..Len(sweep.open)}
  IN  [open |-> SubSeq(sweep.open, 1, within),
       ends |-> [p \in DOMAIN sweep.ends |->
                   IF p \in passed /\ sweep.ends[p] >= span.start THEN ClipAt(span)
                   ELSE sweep.ends[p]]]

(* Then it is open itself, and ends where it was seen to. *)
Swept(sweep, p, span) ==
  LET walked == WalkOut(sweep, span)
  IN  [open |-> Append(walked.open, p),
       ends |-> [q \in DOMAIN walked.ends \cup {p} |->
                   IF q = p THEN span.stop ELSE walked.ends[q]]]

(* _clip_spans_to_laminar: where each span is drawn to end. *)
Clipped(known) ==
  LET order == SweepOrder(known)
      sweep[n \in 0..Len(order)] ==
        IF n = 0 THEN [open |-> <<>>, ends |-> <<>>]
        ELSE Swept(sweep[n - 1], order[n], known[order[n]])
  IN  sweep[Len(order)].ends

(* The span of a process, and its bar where that has not gone out. *)
Owed(p, s, ends, done) ==
  LifetimeSlice(p, s.spans[p], ends[p])
    \o (IF p \in s.drawn THEN <<>> ELSE Bar(p, s.spans, s.totals, done))

(***************************************************************************)
(* finalize_perfetto_packets on the state `s` that a last batch left: all  *)
(* that is still owed, for every process there is a span of.               *)
(***************************************************************************)
Finalize(s) ==
  LET order == SweepOrder(s.spans)
      ends == Clipped(s.spans)
      given == Ranked(s.ranks, DOMAIN s.spans, s.spans)
      rows == Fresh(WithRoot([i \in DOMAIN order |-> ProcessRow(order[i])], s.described),
                    s.described)
      pids == Numbered(s.row_pids, rows)
      done == s.described \cup ToSet(rows) \cup {LifetimesRow}
  IN  [described |-> done, row_pids |-> pids, spans |-> s.spans, totals |-> s.totals,
       ranks |-> given, drawn |-> DOMAIN s.spans,
       packets |-> s.packets \o Descriptors(rows, pids, given, s.spans)
                     \o Descriptors(<<LifetimesRow>>, pids, given, s.spans)
                     \o FlattenSeq([i \in DOMAIN order |-> Owed(order[i], s, ends, done)])]

Become(s) ==
  /\ described' = s.described /\ row_pids' = s.row_pids /\ spans' = s.spans
  /\ totals' = s.totals /\ ranks' = s.ranks /\ drawn' = s.drawn
  /\ file' = file \o s.packets

(* What close finds when nothing is left in the buffer. *)
Unwritten ==
  [described |-> described, row_pids |-> row_pids, spans |-> spans, totals |-> totals,
   ranks |-> ranks, drawn |-> drawn, packets |-> <<>>]

(* write_events, the exporter handing its buffer over. *)
Flush ==
  /\ ~emitted
  /\ buffer # <<>>
  /\ Become(WriteEvents(buffer))
  /\ retired' = <<>>
  /\ buffer' = <<>>
  /\ UNCHANGED <<emitted, caller>>

(* close: the last batch, then the closeout, when there is a span to draw. *)
Close ==
  /\ ~emitted
  /\ LET s == IF buffer = <<>> THEN Unwritten ELSE WriteEvents(buffer)
     IN  /\ DOMAIN s.spans # {}
         /\ Become(Finalize(s))
  /\ emitted' = TRUE
  /\ retired' = IF buffer = <<>> THEN retired ELSE <<>>
  /\ buffer' = <<>>
  /\ UNCHANGED caller

-----------------------------------------------------------------------------
(* The run that feeds it. *)

Live == ~emitted /\ capture = NoCapture
Calling == Live /\ calls < MaxCalls

(* Time passes between two ticks. *)
Tick ==
  /\ Live
  /\ clock < MaxTime
  /\ clock' = clock + 1
  /\ UNCHANGED <<state, retired, file, buffer, gone, read_to, calls, capture>>

Hand(events) ==
  /\ buffer' = buffer \o events
  /\ calls' = calls + 1
  /\ UNCHANGED <<state, retired, file, gone, clock, capture>>

(* add_event and add_loss_event: a row's slices come in order, and from the past. *)
AddItem(p, item) ==
  LET row == IF item.kind = "gc" THEN ThreadRow(p, item.iid) ELSE LossRow(p, item.iid)
  IN  /\ Calling
      /\ p \notin gone
      /\ item.stop <= clock
      /\ row \in DOMAIN read_to => read_to[row] <= item.ts
      /\ read_to' = [r \in DOMAIN read_to \cup {row} |->
                       IF r = row THEN item.stop ELSE read_to[r]]
      /\ Hand(Convert(p, item))

(* add_rss_sample, at the tick. *)
AddRss(p) ==
  /\ Calling
  /\ p \notin gone
  /\ Hand(<<Counter(ProcessRow(p), <<"rss">>, clock)>>)
  /\ UNCHANGED read_to

(* add_instant_event: of a process that was seen, though it may have left since. *)
AddInstant(p, ts) ==
  /\ Calling
  /\ ts <= clock
  /\ \E i \in DOMAIN buffer : Owner(buffer[i]) = p
     \/ p \in DOMAIN spans
  /\ Hand(<<Instant(p, ts)>>)
  /\ UNCHANGED read_to

(* record_process_liveness, with the processes read at this tick. *)
ReportLiveness(live) ==
  /\ Live
  /\ live \cap gone = {}
  /\ spans' = Widen(spans, [p \in live |-> {clock}])
  /\ UNCHANGED <<described, row_pids, totals, ranks, drawn, emitted, retired, file, buffer, caller>>

(* record_process_retired. *)
Retire(p) ==
  /\ Live
  /\ p \notin gone
  /\ gone' = gone \cup {p}
  /\ retired' = Append(retired, p)
  /\ UNCHANGED <<state, file, buffer, read_to, clock, calls, capture>>

(* combine_files to a trace: one batch, and only the close to come. *)
Combine(files, normalize) ==
  /\ Live
  /\ clock = 0 /\ calls = 0 /\ spans = <<>> /\ gone = {}
  /\ capture' = [files |-> files, normalize |-> normalize]
  /\ buffer' = CombineToEvents(files, normalize)
  /\ UNCHANGED <<state, retired, file, gone, read_to, clock, calls>>

Next ==
  \/ \E p \in Monitored : \E item \in Collections \cup Losses : AddItem(p, item)
  \/ \E p \in Monitored : AddRss(p) \/ Retire(p)
  \/ \E p \in Monitored, ts \in 0..MaxTime : AddInstant(p, ts)
  \/ \E live \in SUBSET Monitored : ReportLiveness(live)
  \/ \E files \in Captures, normalize \in BOOLEAN : Combine(files, normalize)
  \/ Tick
  \/ Flush
  \/ Close

Spec == Init /\ [][Next]_vars

-----------------------------------------------------------------------------
(* Properties. *)

Packets(type) == {i \in DOMAIN file : file[i].type = type}
DescriptorsOf(kind) == {i \in Packets("descriptor") : file[i].row[1] = kind}
Begins(row) == {i \in Packets("begin") : file[i].row = row}

(***************************************************************************)
(* "A track's descriptor goes out because an event named that track, ahead *)
(* of the packet that named it": wherever the file is cut, no packet names *)
(* a row, and no row a parent, that is not described before it.  However   *)
(* the batches fall a row is described once, and no two processes have a   *)
(* row's pid or a rank in common ("gave two processes the same number").   *)
(***************************************************************************)
DescribedFirst ==
  /\ \A i \in DOMAIN file :
       LET before == {file[j].row : j \in {k \in Packets("descriptor") : k < i}}
       IN  IF file[i].type = "descriptor"
           THEN /\ file[i].parent \subseteq before
                /\ file[i].row = RootRow \/ RootRow \in before
                /\ file[i].row \notin before
           ELSE file[i].row \in before
  /\ \A i, j \in DescriptorsOf("process") :
       i # j => file[i].pid # file[j].pid /\ file[i].rank # file[j].rank

(***************************************************************************)
(* A Lifetime bar may go out long before the run ends.  Whatever the file  *)
(* holds of its process's reads, then or later, the bar has counted and    *)
(* covers, and there is one.                                               *)
(***************************************************************************)
ReadsOf(p) == {i \in Packets("begin") : file[i].row[1] \in {"thread", "loss"} /\ file[i].row[2] = p}
Carried(places, measure) ==
  SumOf([i \in DOMAIN file |-> IF i \in places THEN file[i].args[measure] ELSE 0])

BarIsWhole ==
  \A b \in Packets("begin") : file[b].row[1] = "process" =>
    LET p == file[b].row[2]
        bar == file[b].args
    IN  /\ Cardinality(Begins(ProcessRow(p))) = 1
        /\ bar.totals.sampled = Cardinality({i \in ReadsOf(p) : file[i].name = "GC Pause"})
        /\ bar.totals.lost = Carried(ReadsOf(p), "lost")
        /\ bar.totals.pause = Carried(ReadsOf(p), "pause")
        /\ bar.interpreters = Cardinality({i \in DescriptorsOf("thread") : file[i].row[2] = p})
        /\ \A i \in ReadsOf(p) : file[b].ts <= file[i].ts /\ file[i].stop <= file[b].stop

(***************************************************************************)
(* Captures as gcmon writes them: no two files share a pid, the            *)
(* collections of an interpreter are in the order they ran, and no two     *)
(* intervals it missed overlap.                                            *)
(***************************************************************************)
PidsApart(files) ==
  \A i, j \in DOMAIN files : i # j => PidsOf(files[i]) \cap PidsOf(files[j]) = {}

InOwnTime(lines) ==
  \A i, j \in DOMAIN lines :
    LET one == lines[i].item
        two == lines[j].item
    IN  i < j /\ lines[i].pid = lines[j].pid /\ one.kind = two.kind /\ one.kind # "instant"
          /\ one.iid = two.iid =>
          one.stop <= two.ts \/ (one.kind = "loss" /\ two.stop <= one.ts)

CapturesInOrder ==
  \A files \in Captures : PidsApart(files) /\ \A i \in DOMAIN files : InOwnTime(files[i])

(***************************************************************************)
(* A trace processor reads back every slice as it was: phases inside their *)
(* pause, loss intervals that touch, spans of one shared row.              *)
(***************************************************************************)
SlicesReadBack ==
  \A row \in {file[i].row : i \in Packets("begin")} :
    LET events == At(file, {i \in DOMAIN file : file[i].type \in {"begin", "end"} /\ file[i].row = row})
        stops == Stops(events)
    IN  \A i \in {j \in DOMAIN events : events[j].type = "begin"} :
          i \in DOMAIN stops /\ stops[i] = events[i].stop

(***************************************************************************)
(* On the shared row any two spans are disjoint or nested.  A span keeps   *)
(* its start, is never widened, and is cut short only by one that crosses  *)
(* it.                                                                     *)
(***************************************************************************)
Spans == {file[i] : i \in Begins(LifetimesRow)}

SpansAreLaminar ==
  \A a \in Spans :
    /\ a.ts = a.args.real_start /\ a.ts <= a.stop /\ a.stop <= a.args.real_stop
    /\ a.args.clipped => \E b \in Spans : /\ b.ts = a.stop + 1
                                          /\ b.ts <= a.args.real_stop
                                          /\ a.args.real_stop < b.args.real_stop
    /\ \A b \in Spans : \/ a.stop < b.ts \/ b.stop < a.ts
                        \/ a.ts <= b.ts /\ b.stop <= a.stop
                        \/ b.ts <= a.ts /\ a.stop <= b.stop

(***************************************************************************)
(* "What a run killed mid-flight loses shrinks to the processes still      *)
(* running": a process that was let go of, and has reads in the file, has  *)
(* its bar there too, unless it left after the last batch.  And a closed   *)
(* trace has, for every process there is any evidence of, its row with its *)
(* bar and its span, once.                                                 *)
(***************************************************************************)
RowsAreOut ==
  /\ \A p \in gone \ ToSet(retired) : ReadsOf(p) # {} => Begins(ProcessRow(p)) # {}
  /\ emitted => \A p \in DOMAIN spans :
                  /\ ProcessRow(p) \in described
                  /\ Cardinality(Begins(ProcessRow(p))) = 1
                  /\ Cardinality({i \in Begins(LifetimesRow) : file[i].name = p}) = 1

(***************************************************************************)
(* Normalising captures and drawing them, or drawing them and normalising  *)
(* that, comes to the same where no two files share a pid: every timestamp *)
(* of an item is moved, and none twice.                                    *)
(***************************************************************************)
CombinePathsAgree ==
  LET files == capture.files
  IN  PidsApart(files) =>
        \A normalize \in BOOLEAN :
          ConvertCapture(CombineToJsonl(files, normalize)) = CombineToEvents(files, normalize)

(***************************************************************************)
(* "a `tid` equal to the pid is what marks a main thread": a process has   *)
(* one.                                                                    *)
(***************************************************************************)
OneMainThread ==
  \A i, j \in DescriptorsOf("thread") :
    file[i].pid = file[j].pid /\ file[i].tid = file[i].pid /\ file[j].tid = file[j].pid => i = j
=============================================================================
