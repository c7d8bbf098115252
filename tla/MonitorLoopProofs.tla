-------------------------- MODULE MonitorLoopProofs --------------------------
(***************************************************************************)
(* The pacing of a run, for every rate, floor, lateness and duration of a  *)
(* tick: the ticks keep to the grid, leave the target its idle and do not  *)
(* outnumber the positions, and the RSS rounds keep up with their interval;*)
(* and what a whole run around the loop has released when it ends.         *)
(***************************************************************************)
EXTENDS RunLifecycle, TLAPS

-----------------------------------------------------------------------------
(* Arithmetic of the grid. *)

LEMMA DivMod ==
  ASSUME NEW x \in Nat, NEW r \in Nat \ {0}
  PROVE  /\ x \div r \in Nat /\ x % r \in 0..(r - 1)
         /\ x = (x \div r) * r + (x % r)
  OBVIOUS

LEMMA NextMultiple ==
  ASSUME NEW a \in Int, NEW b \in Int, NEW r \in Nat \ {0}, a < b
  PROVE  a * r + r <= b * r
  OBVIOUS

(* An instant at or after a position is not before it. *)
LEMMA PositionReached ==
  ASSUME NEW k \in Nat, NEW x \in Nat, NEW r \in Nat \ {0}, k * r <= x
  PROVE  k <= x \div r
<1> DEFINE q == x \div r
<1>1. q \in Nat /\ x % r \in 0..(r - 1) /\ x = q * r + (x % r)
  BY DivMod
<1>2. q * r \in Nat /\ k * r \in Nat
  BY <1>1
<1> HIDE DEF q
<1>3. ~(q < k)
  <2> SUFFICES ASSUME q < k PROVE FALSE
    OBVIOUS
  <2>1. q * r + r <= k * r
    BY <1>1, NextMultiple
  <2> QED BY <2>1, <1>1, <1>2
<1> QED BY <1>1, <1>3 DEF q

(* A later instant is not at an earlier position. *)
LEMMA PositionGrows ==
  ASSUME NEW x \in Nat, NEW y \in Nat, NEW r \in Nat \ {0}, x <= y
  PROVE  x \div r <= y \div r
<1> DEFINE q == x \div r
<1>1. q \in Nat /\ x % r \in 0..(r - 1) /\ x = q * r + (x % r)
  BY DivMod
<1>2. q * r \in Nat
  BY <1>1
<1> HIDE DEF q
<1>3. q * r <= y
  BY <1>1, <1>2
<1> QED BY <1>1, <1>3, PositionReached DEF q

-----------------------------------------------------------------------------
(* The constants, and where a wait ends. *)

LEMMA Constants ==
  /\ rate_ns \in Nat \ {0} /\ MIN_IDLE_NS \in Nat \ {0} /\ interval_ns \in Nat \ {0}
  /\ MIN_IDLE_NS <= rate_ns /\ MaxLate \in Nat
  BY LoopAssumption

(* A wait is no shorter than the floor and reaches the next position, and no longer *)
(* than the one of the two that is.                                                 *)
LEMMA IdleEnds ==
  ASSUME start_ns \in Nat, NEW now \in Nat, start_ns <= now,
         NEW until, until = now + idle_to_next_position(now)
  PROVE  /\ until \in Nat /\ until >= now + MIN_IDLE_NS /\ until >= next_ns(now)
         /\ until = next_ns(now) \/ until = now + MIN_IDLE_NS
<1>1. position_of(now) \in Nat /\ next_ns(now) \in Nat
  <2>1. now - start_ns \in Nat
    OBVIOUS
  <2>2. position_of(now) \in Nat
    BY <2>1, DivMod, Constants DEF position_of
  <2>3. (position_of(now) + 1) * rate_ns \in Nat
    BY <2>2, Constants
  <2> QED BY <2>2, <2>3 DEF next_ns
<1>2. until = IF next_ns(now) - now > MIN_IDLE_NS
              THEN now + (next_ns(now) - now) ELSE now + MIN_IDLE_NS
  BY DEF idle_to_next_position
<1> HIDE DEF next_ns
<1>3. CASE next_ns(now) - now > MIN_IDLE_NS
  BY <1>1, <1>2, <1>3, Constants
<1>4. CASE ~(next_ns(now) - now > MIN_IDLE_NS)
  BY <1>1, <1>2, <1>4, Constants
<1> QED BY <1>3, <1>4

(* From the next position on, an instant is past the position before it. *)
LEMMA PositionPassed ==
  ASSUME start_ns \in Nat, NEW then \in Nat, NEW now \in Nat, start_ns <= then,
         start_ns <= now, now >= next_ns(then)
  PROVE  position_of(then) \in Nat /\ position_of(then) + 1 <= position_of(now)
<1>1. then - start_ns \in Nat /\ now - start_ns \in Nat
  OBVIOUS
<1>2. position_of(then) \in Nat
  BY <1>1, DivMod, Constants DEF position_of
<1> DEFINE k == position_of(then) + 1
           x == now - start_ns
<1>3. k \in Nat /\ k * rate_ns \in Nat /\ x \in Nat
  BY <1>1, <1>2, Constants
<1>4. next_ns(then) = start_ns + k * rate_ns
  BY DEF next_ns
<1>5. position_of(now) = x \div rate_ns
  BY DEF position_of
<1>6. k = position_of(then) + 1 /\ start_ns + k * rate_ns <= now /\ now = start_ns + x
  BY <1>3, <1>4
<1> HIDE DEF k, x
<1>7. k * rate_ns <= x
  BY <1>3, <1>6
<1>8. k <= x \div rate_ns
  BY <1>3, <1>7, PositionReached, Constants
<1> QED BY <1>2, <1>5, <1>6, <1>8

-----------------------------------------------------------------------------
(* The invariant: what a wait, and a turn after one, know of the grid.  A turn  *)
(* that the stop event cut short knows nothing, and starts no tick.             *)

Origin == start_ns <= last_ns /\ last_ns <= clock

Counted ==
  /\ loop = "idle" => ticks_run = 0
  /\ loop \in {"tick", "wait"} => ticks_run > 0
  /\ ticks_run > 0 => ticks_run <= position_of(last_ns) + 1

Waiting ==
  loop = "wait" =>
    /\ due >= last_ns + MIN_IDLE_NS /\ due >= next_ns(last_ns)
    /\ due = next_ns(last_ns) \/ due = last_ns + MIN_IDLE_NS
    /\ clock <= due + MaxLate

AtStart == ticks_run = 0 /\ clock = start_ns
AtPosition ==
  /\ ticks_run > 0
  /\ clock >= last_ns + MIN_IDLE_NS /\ clock >= next_ns(last_ns)
  /\ clock <= next_ns(last_ns) + MaxLate \/ clock <= last_ns + MIN_IDLE_NS + MaxLate

Turning == loop = "ask" => stop_event \/ AtStart \/ AtPosition

Rounds ==
  /\ last_sample_ns <= last_ns
  /\ \A p \in live : last_sample_ns <= unsampled[p]

PacingInv == LoopTypeOK /\ Origin /\ Counted /\ Waiting /\ Turning /\ Rounds

LEMMA InitInv == LoopInit => PacingInv
<1> SUFFICES ASSUME LoopInit PROVE PacingInv
  OBVIOUS
<1>1. clock \in Nat
  BY Constants DEF LoopInit
<1>2. unsampled \in [live -> Nat]
  BY DEF LoopInit
<1>3. LoopTypeOK
  <2>1. stop_event \in BOOLEAN
    BY DEF LoopInit
  <2>2. loop \in {"idle", "ask", "tick", "wait", "over", "raised"} /\ live \subseteq Processes
    BY DEF LoopInit
  <2>3. {clock, start_ns, last_ns, ticks_run, due, last_sample_ns} \subseteq Nat
    BY <1>1 DEF LoopInit
  <2> QED BY <1>2, <2>1, <2>2, <2>3 DEF LoopTypeOK
<1>4. Origin /\ Counted /\ Waiting /\ Turning /\ Rounds
  BY <1>1 DEF LoopInit, Origin, Counted, Waiting, Turning, Rounds
<1> QED BY <1>3, <1>4 DEF PacingInv

(* TicksAreSpaced of one step. *)
TickIsSpaced ==
  TickStarts =>
    IF ticks_run = 0 THEN last_ns' = start_ns
    ELSE LET floor_ns == last_ns + MIN_IDLE_NS
         IN  /\ last_ns' >= next_ns(last_ns) /\ last_ns' >= floor_ns
             /\ \/ last_ns' <= next_ns(last_ns) + MaxLate
                \/ last_ns' <= floor_ns + MaxLate

LEMMA AskKeeps == PacingInv /\ Ask => PacingInv' /\ TickIsSpaced
<1> SUFFICES ASSUME PacingInv, Ask PROVE PacingInv' /\ TickIsSpaced
  OBVIOUS
<1> USE DEF PacingInv
<1>1. CASE ~GoesOn
  <2>1. UNCHANGED <<clock, stop_event, start_ns, last_ns, ticks_run, due, last_sample_ns,
                    live, unsampled>> /\ loop = "ask" /\ loop' = "over"
    BY <1>1 DEF Ask
  <2> QED
    BY <2>1 DEF LoopTypeOK, Origin, Counted, Waiting, Turning, Rounds, position_of, TickStarts,
              TickIsSpaced
<1>2. CASE GoesOn
  <2>1. /\ loop = "ask" /\ loop' = "tick" /\ last_ns' = clock /\ ticks_run' = ticks_run + 1
        /\ UNCHANGED <<clock, stop_event, start_ns, due, last_sample_ns, live, unsampled>>
        /\ ~stop_event
    BY <1>2 DEF Ask, GoesOn
  <2>2. start_ns \in Nat /\ clock \in Nat /\ last_ns \in Nat /\ ticks_run \in Nat
        /\ start_ns <= clock /\ last_ns <= clock
    BY DEF LoopTypeOK, Origin
  <2>3. position_of(clock) \in Nat
    BY <2>2, DivMod, Constants DEF position_of
  <2>4. ASSUME AtStart PROVE TickIsSpaced /\ ticks_run <= position_of(clock)
    <3>1. TickIsSpaced
      BY <2>1, <2>4 DEF AtStart, TickIsSpaced
    <3>2. ticks_run <= position_of(clock)
      BY <2>2, <2>3, <2>4 DEF AtStart
    <3> QED BY <3>1, <3>2
  <2>5. ASSUME AtPosition PROVE TickIsSpaced /\ ticks_run <= position_of(clock)
    <3>1. TickIsSpaced
      BY <2>1, <2>5 DEF AtPosition, TickIsSpaced
    <3>2. position_of(last_ns) \in Nat /\ position_of(last_ns) + 1 <= position_of(clock)
      <4>1. clock >= next_ns(last_ns) /\ start_ns <= last_ns
        BY <2>5 DEF AtPosition, Origin
      <4> QED BY <2>2, <4>1, PositionPassed
    <3>3. ticks_run <= position_of(last_ns) + 1
      BY <2>5 DEF AtPosition, Counted
    <3>4. ticks_run <= position_of(clock)
      BY <2>2, <2>3, <3>2, <3>3
    <3> QED BY <3>1, <3>4
  <2>6. TickIsSpaced /\ ticks_run <= position_of(clock)
    BY <2>1, <2>4, <2>5 DEF Turning
  <2>7. position_of(last_ns)' = position_of(clock)
    BY <2>1 DEF position_of
  <2>8. LoopTypeOK' /\ Origin' /\ Waiting' /\ Turning'
    BY <2>1, <2>2 DEF LoopTypeOK, Origin, Waiting, Turning
  <2>9. Counted'
    BY <2>1, <2>2, <2>3, <2>6, <2>7 DEF Counted
  <2>10. Rounds'
    BY <2>1, <2>2 DEF Rounds, LoopTypeOK
  <2> QED BY <2>6, <2>8, <2>9, <2>10
<1> QED BY <1>1, <1>2

LEMMA WakeKeeps == PacingInv /\ Wake => PacingInv'
<1> SUFFICES ASSUME PacingInv, Wake PROVE PacingInv'
  OBVIOUS
<1> USE DEF PacingInv
<1>1. /\ loop = "wait" /\ loop' = "ask" /\ due' = 0
      /\ UNCHANGED <<clock, stop_event, start_ns, last_ns, ticks_run, last_sample_ns, live,
                     unsampled>>
      /\ clock >= due \/ stop_event
  BY DEF Wake
<1>2. {start_ns, clock, due, last_ns, ticks_run} \subseteq Nat
      /\ start_ns <= last_ns /\ last_ns <= clock
  BY DEF LoopTypeOK, Origin
<1>3. stop_event \/ AtPosition
  <2> SUFFICES ASSUME clock >= due PROVE AtPosition
    BY <1>1
  <2>1. /\ due >= last_ns + MIN_IDLE_NS /\ due >= next_ns(last_ns)
        /\ due = next_ns(last_ns) \/ due = last_ns + MIN_IDLE_NS
        /\ clock <= due + MaxLate
    BY <1>1 DEF Waiting
  <2>2. ticks_run > 0
    BY <1>1 DEF Counted
  <2>3. next_ns(last_ns) \in Nat
    <3>1. last_ns - start_ns \in Nat
      BY <1>2
    <3>2. position_of(last_ns) \in Nat
      BY <3>1, DivMod, Constants DEF position_of
    <3>3. (position_of(last_ns) + 1) * rate_ns \in Nat
      BY <3>2, Constants
    <3> QED BY <1>2, <3>3 DEF next_ns
  <2>4. clock >= last_ns + MIN_IDLE_NS /\ clock >= next_ns(last_ns)
    BY <1>2, <2>1, <2>3, Constants
  <2> QED BY <2>1, <2>2, <2>4 DEF AtPosition
<1>4. Turning'
  BY <1>1, <1>3 DEF Turning, AtPosition, next_ns, position_of
<1> QED
  BY <1>1, <1>4 DEF LoopTypeOK, Origin, Counted, Waiting, Rounds, position_of

LEMMA EndTickKeeps ==
  ASSUME PacingInv, NEW found \in SUBSET Processes, NEW keep_running \in BOOLEAN,
         EndTick(found, keep_running)
  PROVE  PacingInv' /\ \A p \in live' : last_ns - unsampled'[p] < interval_ns
<1> USE DEF PacingInv
<1>1. /\ loop = "tick" /\ live' = found
      /\ UNCHANGED <<clock, stop_event, start_ns, ticks_run>>
      /\ last_sample_ns' = IF Sampled(found) THEN last_ns ELSE last_sample_ns
      /\ unsampled' = [p \in found |-> IF Sampled(found) \/ p \notin live
                                        THEN last_ns ELSE unsampled[p]]
      /\ \/ /\ loop' = "wait" /\ last_ns' = clock
            /\ due' = clock + idle_to_next_position(clock)
         \/ loop' = "over" /\ UNCHANGED <<last_ns, due>>
  BY DEF EndTick, SampleRss
<1>2. /\ {start_ns, clock, due, last_ns, ticks_run, last_sample_ns} \subseteq Nat
      /\ unsampled \in [live -> Nat]
      /\ start_ns <= last_ns /\ last_ns <= clock /\ ticks_run > 0
      /\ ticks_run <= position_of(last_ns) + 1 /\ last_sample_ns <= last_ns
      /\ \A p \in live : last_sample_ns <= unsampled[p]
  BY <1>1 DEF LoopTypeOK, Origin, Counted, Rounds
<1>3. /\ unsampled' \in [found -> Nat]
      /\ last_sample_ns' \in Nat /\ last_sample_ns' <= last_ns
      /\ \A p \in found : last_sample_ns' <= unsampled'[p]
  BY <1>1, <1>2
<1>4. \A p \in live' : last_ns - unsampled'[p] < interval_ns
  <2> TAKE p \in live'
  <2>1. CASE unsampled'[p] = last_ns
    BY <2>1, <1>2, Constants
  <2>2. CASE ~Sampled(found) /\ p \in live /\ unsampled'[p] = unsampled[p]
    <3>1. ~(last_ns - last_sample_ns >= interval_ns)
      BY <2>2, <1>1 DEF Sampled, RoundDue
    <3>2. unsampled[p] \in Nat /\ last_sample_ns <= unsampled[p]
      BY <1>2, <2>2
    <3> QED BY <2>2, <3>1, <3>2, <1>2, Constants
  <2> QED BY <2>1, <2>2, <1>1
<1>5. position_of(last_ns) \in Nat /\ position_of(clock) \in Nat
      /\ position_of(last_ns) <= position_of(clock)
  <2>1. last_ns - start_ns \in Nat /\ clock - start_ns \in Nat
        /\ last_ns - start_ns <= clock - start_ns
    BY <1>2
  <2> QED BY <2>1, DivMod, PositionGrows, Constants DEF position_of
<1>6. CASE loop' = "wait" /\ last_ns' = clock
           /\ due' = clock + idle_to_next_position(clock)
  <2>1. start_ns \in Nat /\ clock \in Nat /\ start_ns <= clock
    BY <1>2
  <2>2. /\ due' \in Nat /\ due' >= clock + MIN_IDLE_NS /\ due' >= next_ns(clock)
        /\ due' = next_ns(clock) \/ due' = clock + MIN_IDLE_NS
    BY <2>1, <1>6, IdleEnds
  <2>3. position_of(last_ns)' = position_of(clock) /\ next_ns(last_ns)' = next_ns(clock)
    BY <1>1, <1>6 DEF next_ns, position_of
  <2>4. ticks_run <= position_of(clock) + 1
    BY <1>2, <1>5
  <2>5. clock <= due' + MaxLate
    BY <1>2, <2>2, Constants
  <2>6. Waiting'
    BY <1>1, <1>6, <2>2, <2>3, <2>5 DEF Waiting
  <2>7. Counted'
    BY <1>1, <1>2, <1>6, <2>3, <2>4 DEF Counted
  <2>8. LoopTypeOK' /\ Origin' /\ Turning'
    BY <1>1, <1>2, <1>3, <1>6, <2>2 DEF LoopTypeOK, Origin, Turning
  <2>9. Rounds'
    BY <1>1, <1>2, <1>3, <1>6 DEF Rounds
  <2> QED BY <1>4, <2>6, <2>7, <2>8, <2>9
<1>7. CASE loop' = "over" /\ UNCHANGED <<last_ns, due>>
  <2>1. position_of(last_ns)' = position_of(last_ns)
    BY <1>1, <1>7 DEF position_of
  <2>2. Counted' /\ Waiting' /\ Turning'
    BY <1>1, <1>2, <1>7, <2>1 DEF Counted, Waiting, Turning
  <2>3. LoopTypeOK' /\ Origin' /\ Rounds'
    BY <1>1, <1>2, <1>3, <1>7 DEF LoopTypeOK, Origin, Rounds
  <2> QED BY <1>4, <2>2, <2>3
<1> QED BY <1>1, <1>6, <1>7

(* Everything else: the start, what may come at any time, and the steps of others. *)
LEMMA RestKeeps ==
  PacingInv /\ (Begin \/ Raise \/ CloseLoop \/ Pass \/ UNCHANGED loopVars) => PacingInv'
<1> SUFFICES ASSUME PacingInv PROVE Begin \/ Raise \/ CloseLoop \/ Pass \/ UNCHANGED loopVars
                                    => PacingInv'
  OBVIOUS
<1> USE DEF PacingInv
<1>1. CASE Begin
  BY <1>1 DEF Begin, LoopTypeOK, Origin, Counted, Waiting, Turning, AtStart, Rounds
<1>2. CASE Raise
  BY <1>2 DEF Raise, LoopTypeOK, Origin, Counted, Waiting, Turning, Rounds, position_of
<1>3. CASE CloseLoop
  BY <1>3 DEF CloseLoop, LoopTypeOK, Origin, Counted, Waiting, Turning, Rounds, next_ns,
              position_of
<1>4. CASE Pass
  BY <1>4, Constants
     DEF Pass, LoopTypeOK, Origin, Counted, Waiting, Turning, Rounds, next_ns, position_of
<1>5. CASE UNCHANGED loopVars
  BY <1>5 DEF loopVars, LoopTypeOK, Origin, Counted, Waiting, Turning, AtStart, AtPosition,
              Rounds, next_ns, position_of
<1> QED BY <1>1, <1>2, <1>3, <1>4, <1>5

LEMMA StepInv == PacingInv /\ [LoopNext]_loopVars => PacingInv'
  BY AskKeeps, WakeKeeps, EndTickKeeps, RestKeeps DEF LoopNext, RunLoop

LEMMA Invariance == LoopSpec => []PacingInv
  BY InitInv, StepInv, PTL DEF LoopSpec

-----------------------------------------------------------------------------

(* Instants and counts are what their types say, through every step of the loop. *)
THEOREM TypeCorrect == LoopSpec => []LoopTypeOK
<1>1. PacingInv => LoopTypeOK
  BY DEF PacingInv
<1> QED BY <1>1, Invariance, PTL

(***************************************************************************)
(* MonitorLoop.run starts its first tick at the origin and each later one  *)
(* no earlier than the next position of its grid and a floor after the     *)
(* tick before, and late on the later of the two by its own wait alone:    *)
(* whatever the rate, the floor and the lateness, however long ticks take. *)
(***************************************************************************)
THEOREM TicksKeepToTheGrid == LoopSpec => TicksAreSpaced
<1>1. PacingInv /\ [LoopNext]_loopVars => [TickIsSpaced]_loopVars
  <2> SUFFICES ASSUME PacingInv, LoopNext PROVE TickIsSpaced
    OBVIOUS
  <2>1. CASE Ask
    BY <2>1, AskKeeps
  <2>2. CASE ~Ask
    <3>1. ticks_run' = ticks_run
      BY <2>2 DEF LoopNext, RunLoop, Begin, Wake, Raise, EndTick, CloseLoop, Pass
    <3> QED BY <3>1 DEF TickIsSpaced, TickStarts, PacingInv, LoopTypeOK
  <2> QED BY <2>1, <2>2
<1> QED BY <1>1, Invariance, PTL DEF LoopSpec, TicksAreSpaced, TickIsSpaced

(***************************************************************************)
(* RunReport: ticks and missed positions add up, for no position is ticked *)
(* twice.                                                                  *)
(***************************************************************************)
THEOREM ReportsAddUp == LoopSpec => []ReportAddsUp
<1>1. PacingInv => ReportAddsUp
  BY DEF PacingInv, LoopTypeOK, Counted, ReportAddsUp, ticks_scheduled
<1> QED BY <1>1, Invariance, PTL

(***************************************************************************)
(* RssSampler.tick: a process alive at the ticks of a whole interval has   *)
(* been in a round, though rounds fall only on ticks.                      *)
(***************************************************************************)
THEOREM RoundsKeepUp == LoopSpec => RssKeepsUp
<1> DEFINE InTime == loop = "tick" /\ loop' \in {"wait", "over"} =>
             \A p \in live' : last_ns - unsampled'[p] < interval_ns
<1>1. PacingInv /\ [LoopNext]_loopVars => [InTime]_loopVars
  <2> SUFFICES ASSUME PacingInv, LoopNext, loop = "tick", loop' \in {"wait", "over"}
               PROVE  \A p \in live' : last_ns - unsampled'[p] < interval_ns
    OBVIOUS
  <2>1. PICK found \in SUBSET Processes, keep_running \in BOOLEAN : EndTick(found, keep_running)
    BY DEF LoopNext, RunLoop, Begin, Ask, Wake, Raise, CloseLoop, Pass
  <2> QED BY <2>1, EndTickKeeps
<1> QED BY <1>1, Invariance, PTL DEF LoopSpec, RssKeepsUp
-----------------------------------------------------------------------------
(* A run around the loop: its pacing is the loop's own.                         *)

LEMMA RunSteps == [LifecycleNext]_lifecycleVars => [LoopNext]_loopVars
<1>1. Loop => LoopNext
  BY DEF Loop, LoopNext
<1>2. Signal => LoopNext
  BY DEF Signal, LoopNext
<1>3. LeaveLoop => LoopNext
  BY DEF LeaveLoop, LoopNext, CloseLoop
<1>4. SetUp \/ WaitForChild \/ HandleMessage \/ ChildExits \/ PassOutputOn => UNCHANGED loopVars
  BY DEF SetUp, MakeExporter, StartServer, StartChild, EnterMonitor, ReplaceSignals,
         WaitForChild, HandleMessage, ChildExits, PassOutputOn
<1>5. Unwind => UNCHANGED loopVars
  BY DEF Unwind, RestoreSignals, CloseServer, StopMonitor, Return, BeginTerminate, Communicated,
         TimesOut, Terminate
<1>6. UNCHANGED lifecycleVars => UNCHANGED loopVars
  BY DEF lifecycleVars
<1> QED BY <1>1, <1>2, <1>3, <1>4, <1>5, <1>6 DEF LifecycleNext

(***************************************************************************)
(* run_monitoring_loop runs the loop and nothing but it: whatever fails or *)
(* is signalled around it, its part of a run is a behaviour of MonitorLoop.*)
(***************************************************************************)
THEOREM RunIsALoop == FairSpec => LoopSpec
<1>1. LifecycleInit => LoopInit
  BY DEF LifecycleInit
<1> QED BY <1>1, RunSteps, PTL DEF FairSpec, LoopSpec

(* The ticks of a whole run keep to the grid. *)
THEOREM RunsAreSpaced == FairSpec => TicksAreSpaced
  BY RunIsALoop, TicksKeepToTheGrid, PTL

(* The RSS rounds of a whole run keep up with their interval. *)
THEOREM RunsKeepUp == FairSpec => RssKeepsUp
  BY RunIsALoop, RoundsKeepUp, PTL

-----------------------------------------------------------------------------
(* What a run has yet to release, by what its ExitStack still holds.            *)

AllEntered == <<"signals", "server", "monitor", "runner", "server">>
ServerAgain == <<"server", "monitor", "runner", "server">>
MonitorOn == <<"monitor", "runner", "server">>
RunnerOn == <<"runner", "server">>
ServerOn == <<"server">>
Stacks == {AllEntered, ServerAgain, MonitorOn, RunnerOn, ServerOn, <<>>}

RunTypeOK ==
  /\ main \in {"exporter", "server", "start", "monitor", "signals", "loop", "wait", "unwind", "done"}
  /\ exporter \in {"none", "new", "used", "closed", "unfinished"} /\ attached \in BOOLEAN
  /\ server \in {"none", "stray", "open", "closed"} /\ handlers \in BOOLEAN
  /\ child \in {"none", "running", "exited", "reaped"}
  /\ stdout \in {"none", "unstarted", "started"}
  /\ term \in {"idle", "int", "term", "kill", "final"} /\ failed \in BOOLEAN

(* On the way in the stack is what main has entered so far; on the way out, a rest of it. *)
Entered ==
  /\ main \in {"exporter", "server"} => stack = <<>> /\ server = "none" /\ child = "none"
  /\ main \in {"start", "monitor"} => stack = RunnerOn
  /\ main = "start" => child = "none"
  /\ main \in {"exporter", "server", "start"} => stdout = "none"
  /\ main = "signals" => stack = ServerAgain
  /\ main \in {"loop", "wait"} => stack = AllEntered
  /\ main = "unwind" => stack \in Stacks
  /\ main = "done" => stack = <<>>

(* The loop has begun only where a tick may have filled the registry. *)
Begun == loop # "idle" => main \in {"loop", "wait", "unwind", "done"}

(* What the code has no exit for is left by a run that failed. *)
Left ==
  /\ server \in {"none", "stray"} => main \in {"exporter", "server"} \/ failed
  /\ stdout = "unstarted" => failed
  /\ exporter = "unfinished" => failed
  /\ main \in {"unwind", "done"} /\ stack \in {RunnerOn, ServerOn, <<>>} =>
       failed \/ exporter = "closed"

(* Each exit is there for as long as what it releases. *)
Held ==
  /\ handlers => stack = AllEntered
  /\ server = "open" => stack # <<>>
  /\ server = "open" /\ loop # "idle" => stack \in {AllEntered, ServerAgain}
  /\ exporter = "used" => stack \in {AllEntered, ServerAgain, MonitorOn}
  /\ Closed =>
       /\ server # "open" \/ loop = "idle"
       /\ main \in {"unwind", "done"} /\ stack \in {RunnerOn, ServerOn, <<>>}
  /\ attached => stack \in {AllEntered, ServerAgain, MonitorOn} \/ exporter = "unfinished"
  /\ child \in {"running", "exited"} => stack \notin {ServerOn, <<>>} \/ stdout = "unstarted"
  /\ term # "idle" =>
       /\ main = "unwind" /\ stack = RunnerOn
       /\ child \in {"running", "exited"} /\ stdout # "unstarted"

RunInv == RunTypeOK /\ Entered /\ Begun /\ Left /\ Held

LEMMA Joined ==
  ASSUME NEW S, NEW a \in Seq(S), NEW b \in Seq(S), NEW c \in Seq(S),
         Len(c) = Len(a) + Len(b),
         \A i \in 1..Len(a) : c[i] = a[i],
         \A i \in 1..Len(b) : c[Len(a) + i] = b[i]
  PROVE  a \o b = c
<1> DEFINE ab == a \o b
<1>1. ab \in Seq(S) /\ Len(ab) = Len(a) + Len(b)
  OBVIOUS
<1>2. \A i \in 1..Len(c) : ab[i] = c[i]
  <2> TAKE i \in 1..Len(c)
  <2>1. CASE i <= Len(a)
    BY <2>1
  <2>2. CASE i > Len(a)
    <3>1. i - Len(a) \in 1..Len(b) /\ Len(a) + (i - Len(a)) = i
      BY <2>2
    <3> QED BY <2>2, <3>1
  <2> QED BY <2>1, <2>2
<1> HIDE DEF ab
<1>3. ab = c
  BY <1>1, <1>2
<1> QED BY <1>3 DEF ab

LEMMA Entering ==
  /\ <<"runner", "server">> \o <<>> = RunnerOn
  /\ <<"server", "monitor">> \o RunnerOn = ServerAgain /\ <<"monitor">> \o RunnerOn = MonitorOn
  /\ <<"signals">> \o ServerAgain = AllEntered
<1> DEFINE Names == {"signals", "server", "monitor", "runner"}
           pair == <<"server", "monitor">>
           one == <<"signals">>
           top == <<"monitor">>
<1>1. <<"runner", "server">> \o <<>> = RunnerOn
  BY DEF RunnerOn
<1>2. /\ RunnerOn \in Seq(Names) /\ Len(RunnerOn) = 2
      /\ RunnerOn[1] = "runner" /\ RunnerOn[2] = "server"
  BY DEF RunnerOn
<1>3. /\ ServerAgain \in Seq(Names) /\ Len(ServerAgain) = 4
      /\ ServerAgain[1] = "server" /\ ServerAgain[2] = "monitor"
      /\ ServerAgain[3] = "runner" /\ ServerAgain[4] = "server"
  BY DEF ServerAgain
<1>4. /\ AllEntered \in Seq(Names) /\ Len(AllEntered) = 5
      /\ AllEntered[1] = "signals" /\ AllEntered[2] = "server" /\ AllEntered[3] = "monitor"
      /\ AllEntered[4] = "runner" /\ AllEntered[5] = "server"
  BY DEF AllEntered
<1>5. pair \in Seq(Names) /\ Len(pair) = 2 /\ pair[1] = "server" /\ pair[2] = "monitor"
  OBVIOUS
<1>6. one \in Seq(Names) /\ Len(one) = 1 /\ one[1] = "signals"
  OBVIOUS
<1>7. /\ MonitorOn \in Seq(Names) /\ Len(MonitorOn) = 3
       /\ MonitorOn[1] = "monitor" /\ MonitorOn[2] = "runner" /\ MonitorOn[3] = "server"
  BY DEF MonitorOn
<1>8. top \in Seq(Names) /\ Len(top) = 1 /\ top[1] = "monitor"
  OBVIOUS
<1> HIDE DEF Names, pair, one, top
<1>9. pair \o RunnerOn = ServerAgain
  <2>1. /\ \A i \in 1..2 : i = 1 \/ i = 2
        /\ \A i \in 1..4 : i = 1 \/ i = 2 \/ i = 3 \/ i = 4
    OBVIOUS
  <2>2. \A i \in 1..Len(RunnerOn) : ServerAgain[Len(pair) + i] = RunnerOn[i]
    BY <1>2, <1>3, <1>5, <2>1
  <2>3. \A i \in 1..Len(pair) : ServerAgain[i] = pair[i]
    BY <1>3, <1>5, <2>1
  <2>4. Len(ServerAgain) = Len(pair) + Len(RunnerOn)
    BY <1>2, <1>3, <1>5
  <2>5. pair \in Seq(Names) /\ RunnerOn \in Seq(Names) /\ ServerAgain \in Seq(Names)
    BY <1>2, <1>3, <1>5
  <2> QED BY <2>2, <2>3, <2>4, <2>5, Joined
<1>10. one \o ServerAgain = AllEntered
  <2>1. /\ \A i \in 1..1 : i = 1
        /\ \A i \in 1..4 : i = 1 \/ i = 2 \/ i = 3 \/ i = 4
    OBVIOUS
  <2>2. \A i \in 1..Len(ServerAgain) : AllEntered[Len(one) + i] = ServerAgain[i]
    BY <1>3, <1>4, <1>6, <2>1
  <2>3. \A i \in 1..Len(one) : AllEntered[i] = one[i]
    BY <1>4, <1>6, <2>1
  <2>4. Len(AllEntered) = Len(one) + Len(ServerAgain)
    BY <1>3, <1>4, <1>6
  <2>5. one \in Seq(Names) /\ ServerAgain \in Seq(Names) /\ AllEntered \in Seq(Names)
    BY <1>3, <1>4, <1>6
  <2> QED BY <2>2, <2>3, <2>4, <2>5, Joined
<1>11. top \o RunnerOn = MonitorOn
  <2>1. /\ \A i \in 1..1 : i = 1
        /\ \A i \in 1..2 : i = 1 \/ i = 2
    OBVIOUS
  <2>2. \A i \in 1..Len(RunnerOn) : MonitorOn[Len(top) + i] = RunnerOn[i]
    BY <1>2, <1>7, <1>8, <2>1
  <2>3. \A i \in 1..Len(top) : MonitorOn[i] = top[i]
    BY <1>7, <1>8, <2>1
  <2>4. Len(MonitorOn) = Len(top) + Len(RunnerOn)
    BY <1>2, <1>7, <1>8
  <2>5. top \in Seq(Names) /\ RunnerOn \in Seq(Names) /\ MonitorOn \in Seq(Names)
    BY <1>2, <1>7, <1>8
  <2> QED BY <2>2, <2>3, <2>4, <2>5, Joined
<1> QED BY <1>1, <1>9, <1>10, <1>11 DEF pair, one, top

LEMMA StacksDiffer ==
  /\ AllEntered \notin {ServerAgain, MonitorOn, RunnerOn, ServerOn, <<>>}
  /\ ServerAgain \notin {MonitorOn, RunnerOn, ServerOn, <<>>}
  /\ MonitorOn \notin {RunnerOn, ServerOn, <<>>}
  /\ RunnerOn \notin {ServerOn, <<>>} /\ ServerOn # <<>>
  BY DEF AllEntered, ServerAgain, MonitorOn, RunnerOn, ServerOn

LEMMA Unwinding ==
  /\ Head(AllEntered) = "signals" /\ Tail(AllEntered) = ServerAgain
  /\ Head(ServerAgain) = "server" /\ Tail(ServerAgain) = MonitorOn
  /\ Head(MonitorOn) = "monitor" /\ Tail(MonitorOn) = RunnerOn
  /\ Head(RunnerOn) = "runner" /\ Tail(RunnerOn) = ServerOn
  /\ Head(ServerOn) = "server" /\ Tail(ServerOn) = <<>>
  BY DEF AllEntered, ServerAgain, MonitorOn, RunnerOn, ServerOn

LEMMA RunInitInv == LifecycleInit => RunInv
  BY StacksDiffer
  DEF LifecycleInit, LoopInit, RunInv, RunTypeOK, Entered, Begun, Left, Held, Closed

LEMMA SetUpKeeps == RunInv /\ SetUp => RunInv'
<1> SUFFICES ASSUME RunInv, SetUp PROVE RunInv'
  OBVIOUS
<1> USE StacksDiffer DEF RunInv, loopVars, released, childVars
<1>1. CASE MakeExporter
  BY <1>1 DEF MakeExporter, Fails, RunTypeOK, Entered, Begun, Left, Held, Closed, Stacks
<1>2. CASE StartServer
  BY <1>2, Entering DEF StartServer, Enter, Fails, RunTypeOK, Entered, Begun, Left, Held, Closed, Stacks
<1>3. CASE StartChild
  BY <1>3 DEF StartChild, Fails, RunTypeOK, Entered, Begun, Left, Held, Closed, Stacks
<1>4. CASE EnterMonitor
  BY <1>4, Entering DEF EnterMonitor, Enter, Fails, RunTypeOK, Entered, Begun, Left, Held, Closed, Stacks
<1>5. CASE ReplaceSignals
  <2>1. main = "signals" /\ stack = ServerAgain /\ ~Closed /\ term = "idle"
        /\ UNCHANGED <<loop, exporter, attached, server, child, stdout, term>>
    BY <1>5 DEF ReplaceSignals, RunTypeOK, Entered, Held
  <2>2. \/ main' = "loop" /\ handlers' = TRUE /\ stack' = AllEntered /\ UNCHANGED failed
        \/ main' = "unwind" /\ failed' = TRUE /\ UNCHANGED <<handlers, stack>>
    BY <1>5, <2>1, Entering DEF ReplaceSignals, Enter, Fails
  <2>3. loop = "idle" /\ ~handlers
    BY <2>1 DEF Begun, Held, RunTypeOK
  <2>4. RunTypeOK' /\ Entered' /\ Begun'
    BY <2>1, <2>2, <2>3 DEF RunTypeOK, Entered, Begun, Stacks
  <2>5. Left' /\ Held'
    BY <2>1, <2>2, <2>3 DEF RunTypeOK, Left, Held, Closed
  <2> QED BY <2>4, <2>5
<1> QED BY <1>1, <1>2, <1>3, <1>4, <1>5 DEF SetUp

Running ==
  \/ Loop \/ Signal \/ LeaveLoop \/ WaitForChild
  \/ HandleMessage \/ ChildExits \/ PassOutputOn

LEMMA RunningKeeps ==
  RunInv /\ Running => RunInv'
<1> SUFFICES ASSUME RunInv, Running PROVE RunInv'
  OBVIOUS
<1> USE StacksDiffer DEF RunInv, loopVars, runVars, released, childVars
<1>1. CASE Loop
  <2>1. main = "loop" /\ exporter' \in {exporter, "used"} /\ attached' \in BOOLEAN
        /\ UNCHANGED <<main, stack, failed, server, handlers, childVars>>
    BY <1>1 DEF Loop, RunTypeOK
  <2>2. stack = AllEntered /\ ~Closed /\ term = "idle"
    BY <2>1 DEF Entered, Held
  <2>3. RunTypeOK' /\ Entered' /\ Begun'
    BY <2>1, <2>2 DEF RunTypeOK, Entered, Begun
  <2>4. Left' /\ Held'
    BY <2>1, <2>2 DEF RunTypeOK, Left, Held, Closed
  <2> QED BY <2>3, <2>4
<1>2. CASE Signal
  BY <1>2 DEF Signal, CloseLoop, RunTypeOK, Entered, Begun, Left, Held, Closed
<1>3. CASE LeaveLoop
  <2>1. /\ main = "loop" /\ UNCHANGED <<loop, stack, released, childVars>>
        /\ \/ main' = "wait" /\ UNCHANGED failed
           \/ main' = "unwind" /\ failed' = TRUE
    BY <1>3 DEF LeaveLoop, Fails
  <2>2. stack = AllEntered /\ ~Closed /\ term = "idle"
    BY <2>1 DEF Entered, Held
  <2>3. RunTypeOK' /\ Entered' /\ Begun'
    BY <2>1, <2>2 DEF RunTypeOK, Entered, Begun, Stacks
  <2>4. Left' /\ Held'
    BY <2>1, <2>2 DEF RunTypeOK, Left, Held, Closed
  <2> QED BY <2>3, <2>4
<1>4. CASE WaitForChild
  BY <1>4 DEF WaitForChild, RunTypeOK, Entered, Begun, Left, Held, Closed, Stacks
<1>5. CASE HandleMessage
  BY <1>5 DEF HandleMessage, RunTypeOK, Entered, Begun, Left, Held, Closed, Stacks
<1>6. CASE ChildExits
  BY <1>6 DEF ChildExits, RunTypeOK, Entered, Begun, Left, Held, Closed, Stacks
<1>7. CASE PassOutputOn
  BY <1>7 DEF PassOutputOn, RunTypeOK, Entered, Begun, Left, Held, Closed, Stacks
<1> QED BY <1>1, <1>2, <1>3, <1>4, <1>5, <1>6, <1>7 DEF Running

LEMMA TerminateKeeps ==
  ASSUME RunInv, main = "unwind", stack = RunnerOn,
         NEW stage \in {"int", "term", "kill", "final"}, Terminate(stage),
         stdout' \in {stdout, "none"}, stdout # "unstarted"
  PROVE  RunInv'
<1> USE StacksDiffer DEF RunInv, loopVars, released, childVars
<1>1. CASE child = "running"
  BY <1>1 DEF Terminate, RunTypeOK, Entered, Begun, Left, Held, Closed, Stacks
<1>2. CASE child # "running"
  <2>1. stack' = ServerOn /\ term' = "idle" /\ child' \in {"none", "reaped"}
        /\ UNCHANGED <<loopVars, main, failed, released>>
    BY <1>2, Unwinding DEF Terminate, Unwound, RunTypeOK
  <2> QED BY <2>1 DEF RunTypeOK, Entered, Begun, Left, Held, Closed, Stacks
<1> QED BY <1>1, <1>2

LEMMA UnwindKeeps == RunInv /\ Unwind => RunInv'
<1> SUFFICES ASSUME RunInv, Unwind PROVE RunInv'
  OBVIOUS
<1> USE StacksDiffer DEF RunInv, loopVars, released, childVars
<1>1. CASE RestoreSignals
  <2>1. stack = AllEntered /\ stack' = ServerAgain
    BY <1>1, Unwinding DEF RestoreSignals, Exits, Unwound, Entered, Stacks
  <2> QED BY <1>1, <2>1 DEF RestoreSignals, Exits, RunTypeOK, Entered, Begun, Left, Held, Closed, Stacks
<1>2. CASE CloseServer
  <2>1. \/ stack = ServerAgain /\ stack' = MonitorOn
        \/ stack = ServerOn /\ stack' = <<>>
    BY <1>2, Unwinding DEF CloseServer, Exits, Unwound, Entered, Stacks
  <2> QED BY <1>2, <2>1 DEF CloseServer, Exits, RunTypeOK, Entered, Begun, Left, Held, Closed, Stacks
<1>3. CASE StopMonitor
  <2>1. stack = MonitorOn /\ stack' = RunnerOn
    BY <1>3, Unwinding DEF StopMonitor, Exits, Unwound, Entered, Stacks
  <2>2. (server # "open" \/ loop = "idle") /\ ~handlers /\ term = "idle"
    BY <2>1 DEF RunTypeOK, Held
  <2>3. /\ main = "unwind" /\ UNCHANGED <<loopVars, main, server, handlers, childVars>>
        /\ \/ exporter' = "closed" /\ attached' = FALSE /\ UNCHANGED failed
           \/ exporter' = "unfinished" /\ failed' = TRUE /\ UNCHANGED attached
    BY <1>3 DEF StopMonitor, Exits
  <2>4. RunTypeOK' /\ Entered' /\ Begun'
    BY <2>1, <2>3 DEF RunTypeOK, Entered, Begun, Stacks
  <2>5. Left' /\ Held'
    BY <2>1, <2>2, <2>3 DEF RunTypeOK, Left, Held, Closed
  <2> QED BY <2>4, <2>5
<1>4. CASE Return
  BY <1>4 DEF Return, RunTypeOK, Entered, Begun, Left, Held, Closed, Stacks
<1>5. CASE BeginTerminate
  <2>1. main = "unwind" /\ stack = RunnerOn /\ term = "idle"
    BY <1>5, Unwinding DEF BeginTerminate, Exits, Entered, Stacks
  <2>2. CASE stdout = "unstarted"
    <3>1. failed' = TRUE /\ stack' = ServerOn /\ UNCHANGED <<loopVars, main, released, childVars>>
      BY <1>5, <2>1, <2>2, Unwinding DEF BeginTerminate, Unwound
    <3> QED BY <2>1, <2>2, <3>1 DEF RunTypeOK, Entered, Begun, Left, Held, Closed, Stacks
  <2>3. CASE stdout # "unstarted"
    <3>1. Terminate("int") /\ stdout' = "none"
      BY <1>5, <2>3 DEF BeginTerminate
    <3> QED BY <2>1, <2>3, <3>1, TerminateKeeps
  <2> QED BY <2>2, <2>3
<1>6. CASE Communicated
  <2>1. main = "unwind" /\ stack = RunnerOn /\ Terminate(term)
        /\ term \in {"int", "term", "kill", "final"}
        /\ stdout' = stdout /\ stdout # "unstarted"
    BY <1>6 DEF Communicated, Held, RunTypeOK
  <2> QED BY <2>1, TerminateKeeps
<1>7. CASE TimesOut
  <2>1. main = "unwind" /\ stack = RunnerOn /\ Terminate(AfterTimeout(term))
        /\ stdout' = stdout /\ stdout # "unstarted"
    BY <1>7 DEF TimesOut, Held
  <2>2. AfterTimeout(term) \in {"int", "term", "kill", "final"}
    BY <1>7 DEF TimesOut, AfterTimeout
  <2> QED BY <2>1, <2>2, TerminateKeeps
<1> QED BY <1>1, <1>2, <1>3, <1>4, <1>5, <1>6, <1>7 DEF Unwind

LEMMA RunStepInv == RunInv /\ [LifecycleNext]_lifecycleVars => RunInv'
<1>1. RunInv /\ UNCHANGED lifecycleVars => RunInv'
  BY DEF lifecycleVars, loopVars, runVars, released, childVars, RunInv, RunTypeOK, Entered, Begun, Left, Held, Closed
<1> QED BY <1>1, SetUpKeeps, RunningKeeps, UnwindKeeps DEF LifecycleNext, Running

(***************************************************************************)
(* run_monitoring_loop and terminate_process: in whatever order failures,  *)
(* the child, the server's reader and a signal come, nothing is written to *)
(* a closed exporter or signalled once reaped.  A run that nothing failed  *)
(* in has released everything; one that failed leaves no more than a       *)
(* server, a child or a trace whose own start or last write raised.        *)
(***************************************************************************)
THEOREM RunsRelease == FairSpec => []ReleasedAtTheEnd
<1>1. FairSpec => []RunInv
  BY RunInitInv, RunStepInv, PTL DEF FairSpec
<1>2. RunInv => ReleasedAtTheEnd
  <2> SUFFICES ASSUME RunInv PROVE ReleasedAtTheEnd
    OBVIOUS
  <2> QED BY StacksDiffer DEF RunInv, RunTypeOK, Entered, Left, Held, ReleasedAtTheEnd
<1> QED BY <1>1, <1>2, PTL
=============================================================================
