# gc-monitor: specifications, model checks and proofs

TLA+ models of gcmon, the out-of-process monitor of CPython's garbage collector: what it
reads, how it accounts for what it could not read, whom it files it under, what it writes,
and how a run ends. Every definition that models code names its source in `PROJECT.json`
(`map`).

Source paths below are relative to `src/gcmon/` in the repository.

## 1. The system

gcmon attaches to a Python process (the target) and, on a fixed grid of ticks, copies out of
it the small rings in which CPython keeps one record per finished GC run. It does so for the
target and all its descendants, and writes traces (Perfetto, JSONL, stdout) and statistics.

| Component | Source | State it keeps | Operations |
|---|---|---|---|
| Loss reconstruction | `model/loss.py`, `model/data.py` | one `RingAccumulator` per (interpreter, generation): first and last record, sums | `unseen`, `ingest`, `_gen_loss`, `exact_count`, `exact_pause_ns` |
| Process registry | `monitoring/process_registry.py` | who holds each pid, who left and when; one lock | `create`, `retire`, `retain`, `live`, `current`, `at` |
| Events monitor | `monitoring/monitor.py`, `events_reader.py`, `wait_policy.py` | per pid: cursors, policy, attachment; the tick's last read instant | `tick`, `_poll`, `_ingest`, `_forget`, `_retain`, `stop` |
| Monitor loop | `monitoring/monitor_loop.py`, `run_policy.py`, `rss_sampler.py`, `model/schedule.py` | stop event, start instant, last RSS round | `run`, `close`, the sampler's `tick` |
| Control server, client | `control/` | connections, suppressed pids; an accept and a reader thread; a client's connection under its lock | `start`, `stop`, `instant` messages, reconnect, drain, `close` |
| Perfetto exporter | `exporters/perfetto_exporter.py`, `encoder.py` | a buffer under `_lock`, an encoder under `_io_lock` | `add_*`, flush, `close` |
| Perfetto wire format | `exporters/perfetto_format.py`, `perfetto_builders.py`, `perfetto_track_state.py` | described rows, row pids | descriptors, slices, counters |
| Process lifetimes | `exporters/perfetto_process_lifetime.py` | first and last instant of each process, totals, ranks | record, draw, clip, close out |
| Trace conversion | `exporters/trace_converter.py` | none | items to trace events |
| Streaming statistics | `stats/streaming_stats.py` | running and settled rings, admission slots | `update`, `record_loss`, `materialize`, `retain`, totals |
| JSONL capture, combine | `exporters/jsonl_*.py`, `combine.py` | a buffer, a file | `add_*`, flush, merge, normalise |
| Child runner, terminator | `monitoring/child_process_runner.py`, `support/process_terminator.py` | the subprocess | start, wait, escalate, reap |
| Command line, pyperf hook | `cli/`, `pyperf/hook.py` | what a run has entered | enter, loop, unwind |
| Statistics output | `stats/stats_output.py` | none | tables |

**How they interact.** The main thread runs `MonitorLoop`, which calls `EventsMonitor.tick`
once per position of its grid. The tick lists the process tree, prunes what belongs to pids
that left, and reads each pid: a read that returns creates the pid's process in the registry
(which publishes it to the exporter under the registry's lock), folds each ring, emits loss
spans and records to exporter and statistics, and a failed one retires the process unless a
wait policy still waits. The control server's reader thread asks the registry `at(pid, ts)`
and adds instants to the same exporter, and flips the enabled flags that the tick reads. The
exporter converts and encodes batches, the encoder draws a row per process. A signal handler
sets the stop event, and `run_monitoring_loop` unwinds what it entered in reverse.

**What is hard.** The target runs on while it is copied. Pids are reused. Reads and listings
fail on living processes. Evidence arrives after the process it describes has left. Two
threads share the exporter under two locks, threads of the target share a client that may
reconnect under them, and a run is unwound while all of them are alive, from wherever it
failed. A trace is read back from whatever was written when gcmon was killed. Time is
compared across processes, and a float of seconds with integers of nanoseconds.
`PROJECT.json` lists each hazard at its line with the properties that cover it.

**What makes each part correct.**

- Loss: each GC run between the first and last record read is counted exactly once, as
  sampled or lost, in no interval that begins after it ended, and pause totals equal the
  target's own up to the rounding of its floats.
- Registry: a (pid, epoch) names one process; what `at` says about the past stays true.
- Monitor: no process inherits state from another; a record goes out once, under the process
  that ran it; all per-pid state is dropped together; the run ends when it should, and then.
- Loop: ticks begin at the next position of the grid or, where that would leave the target
  too little idle, a floor after the tick before; no process goes without an RSS round.
- Control plane: messages of a connection are handled once, in order, under the right
  processes; what had arrived when the server stops reaches the trace if the drain ends in
  its half second; shutdown ends.
- Exporter: what was added before `close` is in the file; a closed track is not added to; a
  process's command line comes first.
- Trace: every row is described before it is used; slices come back as they were written; a
  process's bar is over all that was read of it; spans are nested or disjoint.
- Statistics: sampled plus lost is the target's count from the first read on, but for
  re-reads dropped and what a failed read left behind; no slot leaks; settled is final; a
  ring is measured whole or not at all.
- A run: it ends, and a run that nothing failed in has released all it entered and reaped the
  child; one that failed leaves no more than the code has no exit for.

## 2. What is modelled

How the modules depend on each other:

    GcLedger          <- RingAccumulator  (refines)    <- RingAccumulatorProofs
    ProcessRegistry   <- EventsMonitor    (refines)    <- EventsMonitorProofs
                      <- ControlPlane     (extends)    <- ControlPlaneProofs
    TraceLog          <- PerfettoExporter (refines)    <- PerfettoExporterProofs
    Sorting           <- TraceConverter, TraceProcessor <- TraceEncoder <- TraceEncoderProofs
                                                          <- TraceReadingProofs
    MonitorLoop       <- RunLifecycle     (extends)    <- MonitorLoopProofs
    StreamingStats                                     <- StreamingStatsProofs

Each `MC` module gives the constants of its specification values for the runs of section 3.

### RingAccumulator (and GcLedger)

One ring, one poller. Time is the number of GC runs the target has finished, which is all
the accounting can tell apart: "run k ended before instant t" is `k <= t`. A run takes a
pause, and its record carries a cumulative duration with a rounding error against the sum of
the pauses; `slack` is the history of the errors.

| Specification | Code |
|---|---|
| `BeginWrite`, `FinishWrite`, `Copies` | external: CPython's ring writer and the copy `GCMonitor.get_gc_stats` makes of it. A copy made mid-write may lack the slot being replaced or hold the newest record twice; with `Torn`, it may straddle the cursor |
| `StartRead` | `ts_read_start` in `_poll` |
| `Copy` | `_ingest` up to the fold: completeness filter, sort, `unseen`, seeding or `_gen_loss` |
| `Fold`, `Settle` | the loop and the tail of `ingest`, then the loss span and `record_loss` |

The target takes steps between any two of these. `GcLedger` is what the reconstruction
promises, without polls, pauses or copies: each run up to a frontier is sampled or lost, and
stays so. `LedgerSpec` is the refinement (`frontier` is `last_collections`).

### ProcessRegistry

`live`, `retired` and the instant of the tick in progress, which dates departures. `Retire`
and `Retain` are both `RetireAll`, as both are `_retire_locked` in the code. The lock makes
each operation one step. The command line read at creation changes nothing here and is left
out. The module is the abstract specification of EventsMonitor's half of the registry and
the base of ControlPlane; it has no run of its own.

### EventsMonitor

One run: the processes of a tree, the control plane's flags, the loop and the tick.
It composes with ProcessRegistry by `INSTANCE`, and `RegistrySpec` says that the monitor
drives the registry only as the registry allows.

| Specification | Code |
|---|---|
| `Spawn`, `Start`, `Collect`, `Exit`, `Elapse` | external: the operating system and the interpreters |
| `Suppress`, `Resume`, `Signal` | `ControlServer._handle_msg`, `MonitorLoop.close` |
| `BeginTick`, `EndTick`, `Stopped` | the turn of `MonitorLoop.run`, the liveness report and `keep_running` of `tick` |
| `List`, `ListFails` | `_get_child_pids`, then `_retain` where the listing worked (`RetainPids`) |
| `Skip`, `BeginRead` | the head of the loop over pids: stop, suppression, policy |
| `ReadReturns` | `_poll` on a read that returned: create, `_ingest`, policy told OK |
| `ReadFails` | a failed read, the policy asked, `_forget` (`Forget`) |
| `Close` | `stop` |

A step of the world may fall between any two steps of a tick, in particular between the
instant a read begins and its return. Each process has one ring, folded as in
RingAccumulator but without pauses; `spans` is the exporter's accumulator of first and last
instants. `records`, `born`, `gone`, `dropped` and the `holder` fields are history: they say
what happened, not what gcmon knows.

`Spawn` hands a free pid on only after gcmon had a chance to see it free. A pid that changes
hands between two successful reads cannot be told from one process; the repository accepts
that (ADR-0016, ADR-0025), and so do the models. The target's own pid is not handed on.

### ControlPlane

The clients in the monitored processes, each shared by the threads of its process, and the
server's accept and reader threads, while the monitor's thread goes on writing the registry
(ControlPlane extends ProcessRegistry, and `Monitor` takes any step of it). A connection is a
queue one way with a flag at each end. A client holds its lock while it connects, sends or
closes, so each of these is one step; the look at `_conn` it takes without the lock is a step
of its own.

| Specification | Code |
|---|---|
| `Call`, `ConnectUnchecked`, `Connect`, `Reread`, `Send`, `CloseClient` | `_send` of `ControlClient` in its parts: the look, `_ensure_connected`, the look again, the locked send with its drop on failure; `close` |
| `Accept`, `AddConnection`, `AcceptFails` | the accept loop, which ends at the stop or at its first error |
| `BeginPass`, `Visit`, `EndPass` | the reader's loop: the list it takes, one connection after the other, `_handle_msg`, and the dead ones removed |
| `BeginDrain`, `DrainVisit`, `EndDrainPass` | the drain after the stop: passes until one finds nothing, or until its deadline is over before a pass (`overdue`) |
| `Stop`, `Poke`, `AcceptJoined`, `FinishClose` | `close`: the stop event, the connection that wakes the accept thread, the joins, what is left closed |

### PerfettoExporter (and TraceLog)

The exporter between its two threads: the monitor's, and the control server's reader. `_lock`
and `_io_lock` are each held for one step, because nothing blocks under them; what is left
between the two is a thread's batch, `taken[t]`.

| Specification | Code |
|---|---|
| `AddEvent`, `AddInstant` through `Enqueue` | `add_event`, `add_loss_event`, `add_rss_sample`; `add_instant_event`. A full buffer becomes the thread's batch |
| `Flush` | `write_events` under `_io_lock`: fold the batch in, then draw the rows of the retired queue |
| `BeginCreate`, `Publish` | `ProcessRegistry.create`, which publishes the command line while it holds the registry's lock |
| `Resolve` | `at` in `_add_event`, which waits for that lock; it may name a process that has left |
| `ReportLiveness`, `Retire` | `add_process_liveness`, `add_process_retired` |
| `StopServer`, `EndReader`, `BeginClose`, `FinishClose` | the unwinding of a run: the server's stop event, the end of its reader, and the two critical sections of `close` |

One record is one event. `rows[p]` is the set of events the bar of `p` was drawn over, which
stands for its span and its totals; `copies` counts how often an event is in the file. With
`Late`, the two-second join of the reader may give up. `TraceLog` is what an exporter
promises, without threads, batches or rows; `LogSpec` is the refinement.

### TraceConverter, TraceEncoder, TraceProcessor, Sorting

The content of a trace, packet by packet, of one thread's calls. `TraceConverter` is the pure
part: a collection with its phases, a loss interval or an instant becomes trace events
(`ConvertItem`, `ConvertLoss`); a capture read back is grouped, ordered and converted
(`ConvertCapture`); captures are merged and shifted to zero by two pieces of code
(`NormalizeEvents`, `NormalizeLines`). Timestamps are all kept, of the metrics one stands for
all. `TraceEncoder` is the state behind the file:

| Specification | Code |
|---|---|
| `AddItem`, `AddRss`, `AddInstant`, `ReportLiveness`, `Retire` | the exporter's entry points, called in the order a run allows |
| `Flush` through `WriteEvents` | `write_events`: evidence into `spans` and `totals`, new ranks, `Descriptors` in order of the rows, `PacketsOf` each event, then `Due` rows of the retired |
| `Close` through `Finalize` | the rows still owed, clipped by `WalkOut` over `SweepOrder`, each with its totals |
| `Combine` | `combine` to Perfetto: all of a capture in one batch, then `Finalize` |

A run may be killed at any time: there is no crash action because every property holds of
the file of *every* state. `TraceProcessor` is how a trace processor reads a row's slices back (a
stack, ties in file order, an END closing the slice of its name), after ADR-0011; the program
is not in the repository. `Sorting` is Python's `sorted`.

### StreamingStats

The rings of a run's statistics, per interpreter of a process: admission against `MaxRings`,
settling, refusal, and the totals and coverage read off them.

| Specification | Code |
|---|---|
| `HandOver` through `Update` | `update`, on a record the monitor has just read |
| `Ingest` through `CountGains` | `materialize`, `record_loss` and the cumulative counters that `_ingest` hands over, before any record |
| `DropReread`, `EndRead` | a re-read, dropped before it gets to `update`; the end of a read with its coverage warning (`LowCoverage`) |
| `Forget`, `RetainListed` | `_forget`, `_retain`: `Settle` and the slots freed |

A record is one unit of pause, and a read may fail after any of its records, which is when
records and totals part. `unread` is history: the runs in the target's counters that nobody
could have sampled or lost, which are those before a first read, re-reads dropped, and what a
failed read left behind.

### MonitorLoop and RunLifecycle

`MonitorLoop` is the time around the tick: positions of the grid and the idle floor
(`schedule.py`), `Ask` and `EndTick` of `run`, `Wake` from the wait, the duration runner, the
RSS rounds and the report. A tick takes any time and answers anything, a wait returns up to
`MaxLate` late. `RunLifecycle` extends it to `run_monitoring_loop`:

| Specification | Code |
|---|---|
| `MakeExporter`, `StartServer`, `StartChild`, `EnterMonitorAlone`, `EnterMonitor`, `ReplaceSignals` | what is entered, in order, on the `ExitStack` |
| `Loop`, `Signal`, `LeaveLoop`, `WaitForChild` | the loop, the handler, and the child's output and status |
| `RestoreSignals`, `CloseServer`, `StopMonitor`, `Return` | the exits in reverse; `StopMonitor` raises where the trace's last write does |
| `BeginTerminate`, `Communicated`, `TimesOut` | the runner's exit: the join of the output's thread, which raises if that never started, then `terminate_process`: interrupt, terminate, kill, each followed by a `communicate`, which waits for the end of the output |
| `HandleMessage` | the reader thread using the exporter |
| `ChildExits`, `PassOutputOn` | external: the child, and a descendant that has its output open |

A step of the set-up that raises may leave what it made behind: `StartServer` a server that
listens and that no exit closes (`stray`), `StartChild` a child whose output's thread never
started (`unstarted`), `EnterMonitor` a monitor without the server's second close above it.

## 3. What is checked

TLC configurations are named after the runs. `CHECK_DEADLOCK FALSE` is where a run, a trace or
a close ends, or the clock or the events are bounded: there the system does stop.

| Run | Question | Result | Distinct states |
|---|---|---|---|
| `ring_ledger` | Is every run counted once, in no span that begins after it, its pause accounted for within rounding, and is a quiet target caught up with? | holds | 599,144 |
| `ring_torn` | With straddling copies and runs of no width, is a run ever made up? | no | 130,106 |
| `monitor_reuse` | Pids handed on at every step of a tick: does the next holder inherit a counter or a name, or lose a record to the rule against re-reads? | no | 3,627,402 |
| `monitor_transient` | Failing reads and listings: is state dropped as a whole, does anything go out twice or reach back into an earlier life, is the registry driven as it may be, is the target followed to its end? | holds | 3,984,662 |
| `monitor_ends` | Does a run end once its target has exited, and whenever a signal asks? | holds | 238,040 |
| `monitor_silent_gap` | Was a record that is dropped as re-read exported before? | violated, finding 1 | |
| `control_plane` | Two threads on a client that reconnects, and gcmon's: are messages handled once and in order, filed in order of processes, drained at the stop if there is time, and does `close` end? | holds | 3,502,085 |
| `exporter_threads` | Two threads and two locks: is each event in the file once, is nothing of a process written before its command line, does a closed trace hold everything and stay as it is? | holds | 158,747 |
| `trace_tracks` | Wherever batches fall and a run is killed: is every row described first, do slices come back as written, is a bar over all of its process, are the rows of the departed out, do both ways of combining agree? | holds | 228,415 |
| `trace_main_thread` | Has a process one main thread? | violated, finding 2 | |
| `stats_admission` | Fewer slots than interpreters, reads that fail midway: does a slot leak, is a ring measured in part, are the totals whole, is low coverage said? | holds | 40,887 |
| `run_lifecycle` | A run that fails anywhere, with slow ticks and a deaf child: is the grid kept, is all released that has an exit, does it end? | holds | 977,979 |

What the less obvious properties say:

- `TargetIsFollowed`: a run that is over without a signal has let go of its target's process.
- `SuppressionFollows`: a pid whose starts and stops all went over one connection is polled,
  or not, as the last of them asks, once they have been handled.
- `OpenIsCurrent`: a client never has two connections open.
- `CloseNeverHangs`: until `close` has returned, one of gcmon's own threads can go on, and no
  connection is held after it.
- `MarksStayInOrder`: two marks of one connection, in order of their instants, are never
  filed under processes in the other order, whatever the monitor did in between.
- `SampledWhole`: a ring has measured every record of its interpreter, or none.
- `SlicesReadBack`: every BEGIN on a row is closed by its own END, at its own instant, as a
  trace processor reads the row.
- `BarIsWhole`: a `Lifetime` bar covers, and its totals count, all that was read of its
  process.
- `RssKeepsUp`: no process is alive through ticks an interval apart without a sample.
- `DescribedFirst`: in every prefix of the file a row, and its parent, is described before it
  is named; once, and under a pid and a rank no other process has.
- `LostSinceLastRead`: every run a loss span names finished after the span's left edge. The
  right edge is not checked, because it is no bound (Known limits).
- `DrainLeavesNothing`: a drain that ends before its deadline has handled all that the
  connections held had queued at the stop; until `close` drops them, what is not handled
  waits on one of those connections.
- `TotalsAreWhole`: between reads, sampled plus lost is the target's count less `unread`, for
  the run and for each ring that is measured.
- `TicksAreSpaced`: the first tick begins at the origin, and each later one no earlier than
  the next position of the grid and a floor after the tick before, late on the later of the
  two by its own wait alone.
- `ReleasedAtTheEnd`: no message reaches a closed exporter, no signal is sent to a child
  already reaped. A run in which nothing failed has closed both exporter and server, let go
  of its attachments, restored the signal handlers and reaped its child; a run that failed
  has too, but for a server or a child whose own start raised and a trace whose last write
  did.
- `RunFinishes`: a run that is stopped or unwinding returns, unless a descendant of the child
  keeps its output open for good.

### Bounds

- Ring: `RingSize` 2 and `MaxRuns` 6 wrap the ring three times and leave room for two gaps
  (a seed, and twice an overwritten record and a read one); `ring_torn` has three slots,
  so that a straddling copy has a hole in its middle. `Roundings` -1 and 0 against a pause
  of 1 reach the floor of `_gen_loss`. The proofs remove these bounds.
- Monitor: the target `r` and one child pid `c`. Nothing in the tick relates two children,
  and the target and a child are the two roles a pid has. `RingSize` 1 makes every overwrite
  a loss. Two holders of `c` are the shortest reuse; the clock's bound of 4 fits three
  ticks: a read, a failure or a departure, a read under the next process. `MaxRecords` lets
  the child of `monitor_reuse` and `monitor_transient` collect twice per process.
- `monitor_ends` lets ticks repeat at one instant (`MinIdle` 0), so that the clock's bound
  does not stop the loop that the liveness is about.
- Control plane: one pid held by two processes in turn, two threads (symmetric), two
  connections and two messages, the first a stop or a mark, the second a start. Two
  connections are a reconnect, or one waiting unaccepted behind another; two messages are the
  shortest sequence that could be swapped. The proofs remove these bounds.
- Exporter: a threshold of two and three events per thread make two batches and a remainder,
  so each thread can hold a batch while the other fills the next one and closes. Two
  processes are one whose row is due and one that lives. `Late` is FALSE: that the file is
  complete and left alone rests on the join of the reader, which is what the order of the
  unwinding is for. The proofs remove the other bounds, and `Late` where that is possible.
- Trace: processes 1 to 3, of which a live run monitors two; three collections, one of them
  with phases that share instants and one of a second interpreter; two loss intervals that
  touch; two calls on a clock of two, flushed after any of them. `Captures` holds every order
  of four lines in one file or split over two, and every way three processes' spans may lie
  on a small clock, which is every shape the sweep of `WalkOut` can meet among three.
- Statistics: three processes of two interpreters for two slots, one generation (the rings of
  a process do not tell generations apart when slots are given), five runs.
- Run: a rate of four and a floor of two, so a tick may end on a position, short of one by
  less than the floor, and past several; an RSS interval of five, which falls between
  positions; a duration of nine, three positions in; the clock stops at fifteen.

### Fairness

`ring_ledger`: polling goes on (the loop polls every tick for as long as the run lasts) and
a record that was begun is finished. Nothing forces the target to collect. `monitor_ends`:
weak fairness of the monitor's own steps, since the loop is a plain sequential program whose
reads return or raise, and of the clock. Nothing is asked of processes, clients or signals:
a run need not end while its target lives, and `RunEnds` starts from a target that has exited
and whose startup timeout fits within the clock's bound.
`exporter_threads`: a thread inside a call goes on, and once the stop event is set the reader
ends. How long a run lasts is not said, so `RunIsWritten` starts at its end.
`run_lifecycle`: set-up, loop and unwinding are one sequential program, whose steps happen;
a child is only sure to exit once it was killed. `RunFinishes` starts at a stop event or at an
unwinding: how long a run lasts is up to its target and its user. That a descendant of the
child lets go of its output is not assumed of anybody: it is a hypothesis of the property.

### Findings

1. `monitor_silent_gap`. `monitoring/monitor.py:327`: "Those went out under the predecessor
   already". One failed read of a living process (the target, in the trace TLC finds) retires
   it at the tick's instant and drops its cursor. When it answers again under epoch 2, whatever
   is dated up to that instant is dropped, and what it collected since its last good read was
   never exported, nor is it in any loss span.
2. `trace_main_thread`. `exporters/perfetto_format.py:123`: "a `tid` equal to the pid is what
   marks a main thread", which interpreter 0 is to be. Row pids count from 1
   (`perfetto_track_state.py:46`), and an interpreter other than 0 has its own number as tid
   (`perfetto_format.py:130`). Interpreter 1 of the first process of a trace has the tid that
   interpreter 0 of it has, and is described as that process's main thread too.

## 4. What is proved

Eight modules of proofs, checked by TLAPS for every value of the constants.

**RingAccumulatorProofs** has two invariants.

`IInv` makes the accounting exact. It holds under `Contract == ~Torn /\ 0 \notin Pauses`: a
copy is one instant's, and the clock gives every run a width. ADR-0015 ("What gcmon trusts
the target for") trusts the target for just that; `ring_torn` shows what is left without it.

- `CountIsExact`, `PauseIsExact`; `SpansAreDated` is `LostSinceLastRead` for rings of two or
  more slots (see Known limits).
- `Implementation`: the reconstruction implements the ledger, step by step.

None of these is inductive alone, because a poll is four steps and the books are closed only
by the last. `IInv` says what holds in between: the unseen records of a copy are a *block* of
consecutive runs `lo..hi` (`CopyIsBlock`, from the shape of the ring), `nxt` is the next of
them to be folded, and the balance between the pauses added so far, the loss charged and the
target's counter is within the slack of the records up to `nxt - 1` (`Folding`). `RunsInv`
carries the rounding: between two neighbours, duration and pause differ by no more than their
slack. `PollInv` is what makes spans honest: the last settled record is no older than the
last poll, which a one-slot ring does not give. `Copy` opens the block, `Fold` moves `nxt`,
`Settle` closes it, one lemma each.

`AnyCopyInv` assumes nothing of the copies: `TypeCorrect`, `NeverMoreRuns`
(`NeverOvercounts`), `EachRunOnce`, `SpansAreDisjoint`. A torn copy has no block, so all that
is said while it is folded is that its unseen records lie *spread* over some runs ahead of the
last one settled, at most one record a run (`Ahead`): what is taken from a set of numbers in
`lo..hi` is never more than `hi - lo + 1`, with or without holes.

**ProcessRegistry**, at the head of ControlPlaneProofs: `NamesAreUnique` (inductive with the
type invariant: departures are numbered 1..n and the holder n + 1), `MonotoneAnswers` and
`AnswersStand`, both through `ByEpoch`, which says what the epoch of an answer is.

**EventsMonitorProofs** is one argument in layers, each proved from those before it.

- `TypeInv`, which carries the registry's own invariant: `TypeCorrect`. `RegistryDriven` is
  the refinement: what is proved of the registry holds under the monitor.
- `HoldInv`, what gcmon holds. `PidStateAgrees` is false in the middle of a read, so the
  invariant also says what a pid being read holds: `StateAgrees`.
- `OrderInv`, the order of instants: departures are dated no later than the clock, a read in
  progress began after the last departure of its pid: `LivesFollow`.
- `TargetInv`, which relates `keep_running` to a target whose turn of the tick is over:
  `TargetFollowed`, where no client may suppress a pid (`~Suppressible`).
- `HandedInv` and `FiledInv`: a pid in hand has the holder its state was made for, and each
  exported record fits the life of the process it is filed under: `OnceOnly`,
  `InheritsNothing`. Both rest on `Spawn`'s guard (section 2).
- `DropInv`: where reads and listings fail only for the dead (`~Transients`), all departures
  of a pid precede the records of whoever holds it now: `ReuseIsFree`. `monitor_silent_gap`
  shows that the assumption is needed.

**ControlPlaneProofs**. All seven properties. `ControlTypesCorrect`, and `LivesStand`, which
takes the registry's proof to every step of the control plane. `OneConnection` needs that the
connection a client holds is the only open one of its pid (`OpenInv`). `MarksInOrder` comes
from monotone answers: a mark handled was answered for an instant no later than the next one's,
and what was answered has not moved since (`MarksInv`, `Reached`). `DrainIsComplete` is the
long one. `Fresh`: a message is in one place and numbered by its call. `Ends`: an end of a
connection the reader believes in is the end. `Kept`: what was queued in time on a connection
the reader held is handled, or queued where the drain has yet to look. `MessagesInOrder`
(`HandledInOrder`) needs an order over three places: of two messages sent on one connection,
the later is not handled unless the earlier is, and queued ones stand in the order they were
sent (`OrderInv`). `SuppressionIsObeyed` follows: `stopped` is what the last order handled of a
pid says (`LastIsStop`), and that one is the last sent. `CloseGoesOn` says what
`CloseNeverHangs` says with `ENABLED`, as the guards of the steps that are left: its invariant
(`Woken`) is that an accept thread still waiting after the poke has the connection that wakes
it in its backlog.

**PerfettoExporterProofs**. `TypeCorrect`, `EachEventOnce` and `CmdlinesComeFirst` hold whether
or not the join times out. Their invariant adds to the properties that only a thread inside a
flush or a close holds a batch (`PlaceInv`: taking one overwrites nothing), that a thread's
events are numbered without a gap (`FreshInv`: the next is new), and that a name which can be
resolved has a command line or is behind the registry's lock (`NamesInv`). `ClosedStaysClosed`,
`RowsAreDue` and `Implementation` assume `~Late`, and add `JoinInv`: the reader has ended and
the buffer is empty by the time `close` writes. Two lemmas carry the work, one for queueing an
event (`EnqueueKeeps`) and one for writing a batch (`WriteKeeps`), each for either thread.

**StreamingStatsProofs**. `SlotsAreExact`: the count kept by increments and decrements is the
cardinality of the admitted running rings; `NoSlotLeaks`: running rings are those of processes
in the registry. `StretchIsWhole`: a ring's choice, once made, covers every record of its
interpreter, also across a read that failed midway. `SettledStays` is an action property.

`TotalsHold` and `PoorReadsAreSaid` rest on `BooksInv`: for each interpreter, what was handed
over and what was reported lost are in the ring it has, running or settled, and together with
`unread` and with what a read in progress has yet to hand over they make up the target's
counter (`Balanced`), which a re-read that is dropped leaves as it is (`DropRereadBooks`); the
total is the sum of what was handed over (`TotalOfFed`); and a poorly read ring was spoken of
outside a read (`Said`). The totals are folds over sets of rings that grow, shrink and move
from one function to another, so the module first proves what sums do: that they are
independent of the order (`FoldsAgree`), one term at a time (`SumSteps`), add (`SumPlus`), and
split over disjoint domains (`SumOfPart`). The induction over a finite set behind it is
`SubsetInduction`, which takes the set of the good subsets where the library's theorems take a
predicate. Processes and interpreters are assumed finite (`ProcessesAssumption`), which those
of any run are.

**MonitorLoopProofs**. `PacingInv` holds the arithmetic of the grid: a wait times out at the
next position or a floor past the tick's end, whichever is later (`Waiting`, `IdleEnds`), and
what it was late is all a tick after it is late (`AtPosition`). `TicksKeepToTheGrid`,
`ReportsAddUp` (the positions of a run bound its ticks), and `RoundsKeepUp`, whose invariant
says since when a process may be unsampled given how long ago the last round was.
`RunIsALoop`: a whole run takes the loop only through its own steps, so what is proved of the
loop holds in it (`RunsAreSpaced`, `RunsKeepUp`). `RunsRelease` (`ReleasedAtTheEnd`) rests on
the exit stack: on the way in it is what has been entered so far, on the way out some rest of
it (`Entered`), wherever the run failed; whatever is held has its exit on the stack, or is one
of the three things that have none (`Held`); and those are there only if the run failed
(`Left`).

**TraceEncoderProofs**. The first half is about sequences: what a concatenation, a flattening
(`FlattenPlaced`), a selection (`AtElements`) and a numbering in turn (`InTurnNumbers`) hold,
and that a batch and a capture, whatever they carry, become events of processes there are
(`ConvertsToEvents`, `CapturesConvert`). The file is then a property of a sequence that goes on.
`Sound(seq, done)` says that seq may follow the rows `done`, and `Follows` that a batch or a
closeout does, with the numbers it gave; both join (`JoinSound`, `CarriesJoin`), so the proof
takes `WriteEvents` and `Finalize` in the parts the code makes them of (`BatchFollows`,
`CloseoutFollows`). `FileInv` is the invariant, `RowsAreDescribedFirst` (`DescribedFirst`) what
it says of the properties. `DepartedRowsAreOut` (`RowsAreOut`) adds `BarsInv`: the bars in the
file are those of `drawn`, each once, and a process that was let go of and is owed nothing has
its bar out or was never observed and is not going to be. The items that are handed over and
those of a capture (`Captured`) are assumed to carry integers as their instants
(`ItemsAssumption`), and the processes to be finite. `DrawnSpansAreLaminar` (`SpansAreLaminar`)
is about an algorithm: `SweepInv` says that of the spans swept so far those still open are
nested and as long as they were, and that the others end before one already swept starts, which
is why a span that comes later cannot cross them. `SpansInv` takes that to the file: it has no
spans before it is closed, and then those of the sweep.

`BarsAreWhole` (`BarIsWhole`) compares two counts made at different times: what a batch adds to
the totals of a process, event by event, and what the packets of the file come to. `Weigh` is
the second, and the lemmas on `SumOf` say that it joins over a concatenation (`SumJoins`), that
counting is adding ones (`SumCounts`), and so that what a batch writes weighs what it counted
(`BatchWeighs`). A bar is right the moment it is drawn (`BatchWhole`, `CloseoutWhole`); that it
stays right is `WholeInv`, whose conjunct `Parted` is the reason: bars are drawn for processes
that were let go of, and all the buffer still gets of such a process are instants, on its
process row, which count for nothing. The numbers of a loss record are assumed to be integers.

**TraceReadingProofs**. `SlicesAreReadBack` (`SlicesReadBack`) follows the trace processor through a row. `ReadInv` is
what its stack is after each event: the slices that have begun and have not ended, nested, and
at one instant the ends may come in any order as long as those with a name close the slice of
that name and the others close as many as end there. That needs the slices of a row, in the
order of the file, to be apart or one inside the one before (`RowReadsBack`), and the pairs of
a row to follow one another whole (`BatchPaired`, `CloseoutPaired`); `FileReadsBack` puts the
rows together, the two drawn by the encoder resting on `BarsInv` and `SpansInv`. Where the order
comes from is `ReadsInv`: a run hands over the collections and the losses of an interpreter as
they were read, each past the last, and what is in the file precedes what is in the buffer. A
capture has it by two hypotheses that are about what gcmon writes: that the phases of a
collection follow one another (`ItemsAssumption`), and `CapturesInOrder`, that no two files
share a pid, that an interpreter's collections are in the order they ran and that its losses
are apart. TLC evaluates both on the captures of `MCTraceEncoder`. The losses of a capture may
be in any order, and that `LossInTimeOrder` sorts them is part of the proof.

`CombinedPathsAgree` (`CombinePathsAgree`) says of two programs that they come to the same:
merge the lines, move them and convert, or convert each file and move its events. It needs
nothing of the state but that combine was given files of lines (`CaptureOK`); the rest is about
the operators. A capture converts pid by pid (`PidEvents`), and what no two parts of it share is
converted part by part (`ConvertsByPart`), so putting each pid's lines together changes nothing
(`MergeConverts`). An item that is moved converts to its events, moved (`ConvertMoves`, where
the three phases that start at the stop of another are the case that could go wrong), and moving
keeps the order of the losses, for a sort that is told of the same comparisons gives the same
places (`LossesMove`). Both sides move a pid by the same amount because the first of its events
is at the first of its lines (`PidStartsAt`): no phase starts before its collection
(`ItemsAssumption`). And events are moved owner by owner, so file by file is as good as all at
once (`NormalizeFlattens`). `FieldsAssumption` is the shape of a line: the fields its kind has,
and a phase with a stop has its start, its own or the stop of the phase before. That no two
files share a pid is the property's own hypothesis: where two do, one path moves each file by
its own first instant and the other both by the first of the two.

**Only model-checked.** Liveness (`CatchesUp`, `RunEnds`, `RunIsWritten`, `RunFinishes`) and
`CloseNeverHangs`, which is about `ENABLED` (its guards are `CloseGoesOn`): beyond the prover.

## 5. Known limits

Behaviour the models show, or met while they were written, that no document contradicts or
that the repository accepts. It bounds what the properties say.

- A one-slot ring read in the middle of a write shows no finished record, and the poll instant
  moves all the same: the run is charged to the next interval. `SpansAreDated` asks for two
  slots, and so do the runs.
- A loss span ends at the instant the read that found the gap began (`ts_read_start`). A run
  that finishes and is overwritten between that instant and the copy is in the span, though
  ADR-0015 and `model/data.py:64` have the lost runs end between the two reads.
- The suppression of a pid outlives the process that asked for it: the next holder of the pid
  is not read either. Suppressing the only pid of a run ends the run, because a pid that is not
  asked does not keep it going.
- A pid that changes hands between two good reads keeps its process and cursor (ADR-0016,
  ADR-0025).
- With two threads, an exporter may draw a row while the other thread's batch holds events of
  that process, and may write the loss spans of one row in two batches out of order.
  `BarIsWhole` and `SlicesReadBack` are of one thread's batches.
- An instant that comes after its process has left widens a span whose bar is drawn; ADR-0011
  accepts that.
- Across a reconnect, messages of two connections may be handled in either order, and a sender
  that finds its connection replaced, or whose send fails, returns without another attempt: a
  `start` may be lost. Messages on a connection not yet accepted when the drain takes its
  list, or that arrive after it, are lost, and so is what is unread when the drain's half
  second is over.
- A failed accept ends the accept loop for the rest of the run; `close` still ends.
- What a run that failed may leave behind, for want of an exit: the control server, if its
  start raises after the listener was made or an interrupt comes before it is on the exit
  stack; a running child, if the thread that copies its output cannot be started, because
  the runner's exit then joins a thread that never ran, raises, and does not get to
  `terminate_process`; an unfinished trace and the reader's attachments, if the last write of
  the exporter's `close` raises, because the rest of `EventsMonitor.stop` is skipped.
- The last `communicate` has no timeout and waits for the end of the child's output: a
  descendant that keeps it open keeps gcmon from returning.
- A second signal during the unwinding, and a child's output read by two readers, are outside
  RunLifecycle.

## 6. What is not modelled

- Tables and views of the statistics (`stats/stats_output.py`) and argument parsing: layout
  and text, without state.
- The bytes of the wire format and their compression: fields, not their encoding, are what
  the properties are about.
- JSONL's buffer and writer: those of PerfettoExporter without an encoder. What the child
  prints. The text of command lines, RSS values.
- In the statistics: the quantile sketch, sub-phase metrics, read times and heap high-water
  marks. In the monitor: several rings per process, which share only the two poll instants,
  and the once-per-reason log.
- Time limits of the joins in ControlPlane (PerfettoExporter has the join that gives up) and
  the length of the drain's, which may be over before any of its passes; messages that do not decode, a write that raises in the exporter.
- Weak memory or torn Python objects: every state shared by gcmon's threads is read and
  written under a lock or is one dictionary operation.

## 7. Plan and state

1. `RingAccumulator`, `GcLedger`, `ProcessRegistry`, `PerfettoExporter`, `TraceLog`,
   `EventsMonitor`, `ControlPlane`, `StreamingStats`, `MonitorLoop`, `RunLifecycle`: modelled,
   checked, and all safety and action properties the runs check proved.
2. `TraceConverter`, `TraceEncoder`: modelled and checked; `DescribedFirst`, `RowsAreOut`,
   `SpansAreLaminar`, `BarIsWhole`, `SlicesReadBack` and `CombinePathsAgree` proved.

Left for later: a write that raises in the exporter, composed with the failure in `_ingest` that
StreamingStats has; TraceEncoder under two threads, which would replace the `rows` of
PerfettoExporter.
