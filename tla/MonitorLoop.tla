----------------------------- MODULE MonitorLoop -----------------------------
(***************************************************************************)
(* The timing around the monitor: MonitorLoop.run (monitor_loop.py), the   *)
(* grid its ticks start on (schedule.py), the runner that bounds it        *)
(* (run_policy.py), the RSS rounds it paces (rss_sampler.py) and the       *)
(* report it returns (run_report.py).                                      *)
(*                                                                         *)
(* The monitor's tick is EventsMonitor: here it takes any time and answers *)
(* anything.  A wait runs to its timeout or up to MaxLate past it; nothing *)
(* but a tick and a wait takes time.                                       *)
(***************************************************************************)
EXTENDS Integers, FiniteSets

CONSTANTS
  rate_ns, MIN_IDLE_NS, interval_ns,  (* the rate, the floor, the RSS interval   *)
  Duration,                           (* DurationRunner's, as a set; {} if none  *)
  Processes,                          (* processes a tick may find alive         *)
  MaxLate,                            (* bound: how late a wait returns          *)
  MaxTime                             (* bound: the clock                        *)

ASSUME LoopAssumption ==
  /\ {rate_ns, MIN_IDLE_NS, interval_ns} \subseteq Nat \ {0} /\ MIN_IDLE_NS <= rate_ns
  /\ Duration \subseteq Nat /\ {MaxLate, MaxTime} \subseteq Nat

VARIABLES
  clock,           (* time.monotonic_ns()                                        *)
  loop,            (* where run() is                                             *)
  stop_event,      (* _stop_event                                                *)
  start_ns,        (* the grid's origin, and DurationRunner's ts_start           *)
  last_ns, ticks_run,
  due,             (* when the wait times out                                    *)
  last_sample_ns,  (* RssSampler's                                               *)
  live,            (* what the last tick found alive                             *)
  unsampled        (* history: per process, since when it is alive unsampled     *)

loopVars == <<clock, loop, stop_event, start_ns, last_ns, ticks_run, due, last_sample_ns, live, unsampled>>

LoopInit ==
  /\ clock \in 0..interval_ns /\ loop = "idle" /\ stop_event = FALSE
  /\ start_ns = 0 /\ last_ns = 0 /\ ticks_run = 0 /\ due = 0
  /\ last_sample_ns = 0 /\ live = {}
  /\ unsampled = <<>>

(* A mutant of idle_to_next_position. *)
IdleUnfloored(instant_ns) == rate_ns - ((instant_ns - start_ns) % rate_ns)

(* A mutant of RoundDue. *)
RoundDueAnew(now_ns) == now_ns - last_sample_ns > interval_ns

position_of(instant_ns) == (instant_ns - start_ns) \div rate_ns

next_ns(instant_ns) == start_ns + (position_of(instant_ns) + 1) * rate_ns

(* The positions a slow tick ran through are dropped, and the target left an idle. *)
idle_to_next_position(instant_ns) ==
  LET idle == next_ns(instant_ns) - instant_ns
  IN  IF idle > MIN_IDLE_NS THEN idle ELSE MIN_IDLE_NS

Begin ==
  /\ loop = "idle"
  /\ loop' = "ask"
  /\ start_ns' = clock /\ last_ns' = clock
  /\ UNCHANGED <<clock, stop_event, ticks_run, due, last_sample_ns, live, unsampled>>

(* The runner: DurationRunner looks at the clock after every tick's wait. *)
GoesOn == ~stop_event /\ (ticks_run > 0 => \A d \in Duration : clock - start_ns <= d)

Ask ==
  /\ loop = "ask"
  /\ IF GoesOn
     THEN /\ loop' = "tick"
          /\ last_ns' = clock
          /\ ticks_run' = ticks_run + 1
     ELSE /\ loop' = "over"
          /\ UNCHANGED <<last_ns, ticks_run>>
  /\ UNCHANGED <<clock, stop_event, start_ns, due, last_sample_ns, live, unsampled>>

(* RssSampler.tick: nobody alive starts no round. *)
RoundDue(now_ns) == now_ns - last_sample_ns >= interval_ns

(* The processes found are those the round asks; the others are waiting for theirs. *)
Sampled(found) == found # {} /\ RoundDue(last_ns)
SampleRss(found) ==
  /\ last_sample_ns' = IF Sampled(found) THEN last_ns ELSE last_sample_ns
  /\ unsampled' = [p \in found |-> IF Sampled(found) \/ p \notin live THEN last_ns ELSE unsampled[p]]

(* The tick is over and the clock read again: found and keep_running are its report. *)
EndTick(found, keep_running) ==
  /\ loop = "tick"
  /\ live' = found
  /\ SampleRss(found)
  /\ IF keep_running
     THEN /\ loop' = "wait"
          /\ last_ns' = clock
          /\ due' = clock + idle_to_next_position(clock)
     ELSE /\ loop' = "over"
          /\ UNCHANGED <<last_ns, due>>
  /\ UNCHANGED <<clock, stop_event, start_ns, ticks_run>>

(* _stop_event.wait: what remains of it is of no use to anybody. *)
Wake ==
  /\ loop = "wait" /\ (clock >= due \/ stop_event)
  /\ loop' = "ask"
  /\ due' = 0
  /\ UNCHANGED <<clock, stop_event, start_ns, last_ns, ticks_run, last_sample_ns, live, unsampled>>

(* A tick raises, and what the run has done is reported to nobody. *)
Raise ==
  /\ loop = "tick"
  /\ loop' = "raised"
  /\ UNCHANGED <<clock, stop_event, start_ns, last_ns, ticks_run, due, last_sample_ns, live,
                 unsampled>>

(* A signal's handler calls close(), before run() perhaps; the end of run() does the same. *)
CloseLoop ==
  /\ stop_event' = TRUE
  /\ UNCHANGED <<clock, loop, start_ns, last_ns, ticks_run, due, last_sample_ns, live, unsampled>>

Pass ==
  /\ clock < MaxTime
  /\ loop = "tick" \/ (loop = "wait" /\ clock < due + MaxLate)
  /\ clock' = clock + 1
  /\ UNCHANGED <<loop, stop_event, start_ns, last_ns, ticks_run, due, last_sample_ns, live, unsampled>>

(* RunReport. *)
ticks_scheduled == IF ticks_run = 0 THEN 0 ELSE position_of(last_ns) + 1

RunLoop ==
  \/ Ask \/ Wake \/ Raise
  \/ \E found \in SUBSET Processes, keep_running \in BOOLEAN : EndTick(found, keep_running)

LoopNext == Begin \/ RunLoop \/ CloseLoop \/ Pass

LoopSpec == LoopInit /\ [][LoopNext]_loopVars

-----------------------------------------------------------------------------
(* Properties. *)

LoopTypeOK ==
  /\ loop \in {"idle", "ask", "tick", "wait", "over", "raised"}
  /\ {clock, start_ns, last_ns, ticks_run, due, last_sample_ns} \subseteq Nat
  /\ stop_event \in BOOLEAN
  /\ live \subseteq Processes /\ unsampled \in [live -> Nat]

TickStarts == ticks_run' = ticks_run + 1

(***************************************************************************)
(* The first tick starts at the origin.  Each later one starts no earlier  *)
(* than the first position of the grid after the end of the one before,    *)
(* and no sooner than a floor after that end, however long the ticks took; *)
(* and it is late on the one or on the other by no more than its own wait, *)
(* so no error carries from tick to tick (last_ns holds that end).         *)
(***************************************************************************)
TicksAreSpaced ==
  [][TickStarts =>
       IF ticks_run = 0 THEN last_ns' = start_ns
       ELSE LET floor_ns == last_ns + MIN_IDLE_NS
            IN  /\ last_ns' >= next_ns(last_ns) /\ last_ns' >= floor_ns
                /\ \/ last_ns' <= next_ns(last_ns) + MaxLate
                   \/ last_ns' <= floor_ns + MaxLate]_loopVars

(***************************************************************************)
(* The report adds up: a run ticks at most once for each position it got   *)
(* to, so no missed position is hidden by a tick made up for another.      *)
(***************************************************************************)
ReportAddsUp == ticks_run <= ticks_scheduled

(***************************************************************************)
(* No process stays alive through ticks an interval apart without a round  *)
(* in between, whatever ticks its rounds fall on.                          *)
(***************************************************************************)
RssKeepsUp ==
  [][loop = "tick" /\ loop' \in {"wait", "over"} =>
       \A p \in live' : last_ns - unsampled'[p] < interval_ns]_loopVars
=============================================================================
