---------------------------- MODULE EventsMonitor ---------------------------
(***************************************************************************)
(* One monitored run (monitor.py, events_reader.py, wait_policy.py and the *)
(* turn of monitor_loop.py): each tick lists the process tree, drops what  *)
(* belongs to pids that left it, reads every pid once, files its records   *)
(* under the process that holds the pid, and reports who answered.         *)
(*                                                                         *)
(* Processes start, collect, exit and hand their pids on between any two   *)
(* steps of a tick; clients suppress and resume pids; a signal stops it.   *)
(* Each process has one ring; how a ring is folded is RingAccumulator.     *)
(***************************************************************************)
EXTENDS Integers, Sequences, FiniteSets

CONSTANTS
  Pids,         (* pids the operating system hands out                        *)
  Root,         (* the target's own pid                                       *)
  RingSize,     (* records a process holds for gcmon to read                  *)
  MinIdle,      (* least time the loop idles between two ticks (MIN_IDLE_NS)   *)
  Timeout,      (* startup timeout of the wait policy; 0 is NoWaitPolicy      *)
  MaxTime,      (* bound: the clock                                           *)
  MaxHolders,   (* bound: processes that hold one pid in turn                 *)
  MaxRecords,   (* bound: GC runs of one process, per pid                     *)
  Transients,   (* TRUE: listing or reading a live process may fail           *)
  Suppressible, (* TRUE: clients may suppress their pid                       *)
  Stoppable     (* TRUE: a signal may stop the run                            *)

ASSUME RootAssumption == Root \in Pids
ASSUME MonitorAssumption ==
  /\ {RingSize, MaxHolders} \subseteq Nat \ {0}
  /\ {MinIdle, Timeout, MaxTime} \subseteq Nat
  /\ MaxRecords \in [Pids -> Nat]
  /\ {Transients, Suppressible, Stoppable} \subseteq BOOLEAN

VARIABLES
  clock,       (* time.monotonic_ns                                           *)
  born,        (* per pid, how many processes have held it                    *)
  alive,       (* pids some process holds                                     *)
  ready,       (* those whose process can be read                             *)
  records,     (* per pid, per holder, the instants of its GC runs            *)
  gone,        (* free pids gcmon had a chance to see free                    *)
  suppressed,  (* ControlServer._enabled: pids told to stop                   *)
  stop,        (* the stop event                                              *)
  pc,          (* where the tick is                                           *)
  todo,        (* pids of the tick not visited yet                            *)
  reading,     (* the pid whose read is in progress                           *)
  ts_read,     (* when that read began, 0 outside a read                      *)
  tick_read,   (* _tick_read_ns, 0 outside a tick                             *)
  answered,    (* processes that answered this tick                           *)
  keep,        (* keep_running                                                *)
  states,      (* _pids: cursor and last poll, per pid gcmon holds state for  *)
  policies,    (* _policies: whether the pid was seen alive, and since when   *)
  attached,    (* pids the reader holds an attachment to                      *)
  live, retired, now,   (* the ProcessRegistry                                *)
  announced,   (* exporter: processes whose command line it was given         *)
  departed,    (* exporter: processes it was told have left                   *)
  spans,       (* exporter: first and last instant it has of each process     *)
  exported,    (* exporter: records, with the process they are filed under    *)
  dropped      (* records dropped as a predecessor's                          *)

world == <<born, alive, ready, records>>
tick == <<pc, todo, reading, ts_read, tick_read, answered, keep>>
held == <<states, policies, attached>>
registry == <<live, retired, now>>
exporter == <<announced, departed, spans, exported, dropped>>
vars == <<clock, world, gone, suppressed, stop, tick, held, registry, exporter>>

Registry == INSTANCE ProcessRegistry

(* A mutant of Without. *)
WithoutNone(f, gonePids) == f

Without(f, gonePids) == [q \in DOMAIN f \ gonePids |-> f[q]]
With(f, key, value) == [q \in DOMAIN f \cup {key} |-> IF q = key THEN value ELSE f[q]]

Init ==
  /\ clock = 0
  /\ born = [pid \in Pids |-> IF pid = Root THEN 1 ELSE 0]
  /\ alive = {Root}
  /\ ready = {}
  /\ records = [pid \in Pids |-> IF pid = Root THEN << <<>> >> ELSE <<>>]
  /\ gone = {}
  /\ suppressed = {}
  /\ stop = FALSE
  /\ pc = "idle"
  /\ todo = {} /\ reading = Root /\ ts_read = 0 /\ tick_read = 0
  /\ answered = {} /\ keep = FALSE
  /\ states = <<>> /\ policies = <<>> /\ attached = {}
  /\ Registry!Init
  /\ announced = {} /\ departed = {} /\ spans = <<>>
  /\ exported = {} /\ dropped = {}

-----------------------------------------------------------------------------
(* The world gcmon looks at. *)

Elapse ==
  /\ clock < MaxTime
  /\ clock' = clock + 1
  /\ UNCHANGED <<world, gone, suppressed, stop, tick, held, registry, exporter>>

(***************************************************************************)
(* The operating system hands a free pid on only when gcmon has had one    *)
(* chance to see it free, and a process takes time to come up.  A pid that *)
(* changes hands unseen reads as one process (ADR-0016, ADR-0025); the     *)
(* target's own is not handed on while the run lasts.                      *)
(***************************************************************************)
Spawn(pid) ==
  /\ pid \notin alive \cup {Root}
  /\ born[pid] < MaxHolders
  /\ born[pid] = 0 \/ pid \in gone
  /\ clock < MaxTime
  /\ clock' = clock + 1
  /\ born' = [born EXCEPT ![pid] = @ + 1]
  /\ alive' = alive \cup {pid}
  /\ records' = [records EXCEPT ![pid] = Append(@, <<>>)]
  /\ gone' = gone \ {pid}
  /\ UNCHANGED <<ready, suppressed, stop, tick, held, registry, exporter>>

Start(pid) ==
  /\ pid \in alive \ ready
  /\ ready' = ready \cup {pid}
  /\ UNCHANGED <<clock, born, alive, records, gone, suppressed, stop, tick, held, registry, exporter>>

Collect(pid) ==
  /\ pid \in ready
  /\ Len(records[pid][born[pid]]) < MaxRecords[pid]
  /\ records' = [records EXCEPT ![pid][born[pid]] = Append(@, clock)]
  /\ UNCHANGED <<clock, born, alive, ready, gone, suppressed, stop, tick, held, registry, exporter>>

Exit(pid) ==
  /\ pid \in alive
  /\ alive' = alive \ {pid}
  /\ ready' = ready \ {pid}
  /\ UNCHANGED <<clock, born, records, gone, suppressed, stop, tick, held, registry, exporter>>

(* ControlServer._handle_msg: a process suppresses or resumes its own pid. *)
Suppress(pid) ==
  /\ Suppressible
  /\ pid \in ready \ suppressed
  /\ suppressed' = suppressed \cup {pid}
  /\ UNCHANGED <<clock, world, gone, stop, tick, held, registry, exporter>>

Resume(pid) ==
  /\ pid \in ready \cap suppressed
  /\ suppressed' = suppressed \ {pid}
  /\ UNCHANGED <<clock, world, gone, stop, tick, held, registry, exporter>>

Signal ==
  /\ Stoppable /\ ~stop
  /\ stop' = TRUE
  /\ UNCHANGED <<clock, world, gone, suppressed, tick, held, registry, exporter>>

-----------------------------------------------------------------------------
(* The tick. *)

(* The runner asks for the stop event, then the loop reads the clock once. *)
BeginTick ==
  /\ pc = "idle"
  /\ ~stop
  /\ clock >= now + MinIdle
  /\ Registry!Advance(clock)
  /\ pc' = "listing"
  /\ UNCHANGED <<clock, world, gone, suppressed, stop, todo, reading, ts_read, tick_read,
                 answered, keep, held, exporter>>

StartPolling(children) ==
  /\ pc' = "polling"
  /\ todo' = children
  /\ tick_read' = now
  /\ answered' = {}
  /\ keep' = FALSE

(* _retain: whatever is held on pids outside the tree goes. *)
RetainPids(children) ==
  LET left == Pids \ children
  IN  /\ states' = Without(states, left)
      /\ policies' = Without(policies, left)
      /\ attached' = attached \ left
      /\ Registry!Retain(children, now)
      /\ departed' = departed \cup {p \in Registry!Live : p.pid \in left}

(* The listing worked: the target's pid and what descends from it. *)
List ==
  /\ pc = "listing"
  /\ LET children == {Root} \cup (IF Root \in alive THEN alive ELSE {})
     IN  StartPolling(children) /\ RetainPids(children)
  /\ gone' = gone \cup {pid \in Pids \ alive : pid # Root /\ born[pid] > 0}
  /\ UNCHANGED <<clock, world, suppressed, stop, reading, ts_read, announced, spans,
                 exported, dropped>>

(* The listing failed, as it may once the target is gone: nothing is pruned. *)
ListFails ==
  /\ pc = "listing"
  /\ Transients \/ Root \notin alive
  /\ StartPolling({Root})
  /\ UNCHANGED <<clock, world, gone, suppressed, stop, reading, ts_read, held, registry, exporter>>

(* The target's own pid comes first. *)
NextPid(pid) == pid \in todo /\ (Root \in todo => pid = Root)

Skip(pid) ==
  /\ pc = "polling" /\ ~stop /\ NextPid(pid)
  /\ pid \in suppressed
  /\ todo' = todo \ {pid}
  /\ UNCHANGED <<clock, world, gone, suppressed, stop, pc, reading, ts_read, tick_read,
                 answered, keep, held, registry, exporter>>

BeginRead(pid) ==
  /\ pc = "polling" /\ ~stop /\ NextPid(pid)
  /\ pid \notin suppressed
  /\ pc' = "reading"
  /\ todo' = todo \ {pid}
  /\ reading' = pid
  /\ ts_read' = clock
  /\ policies' = IF pid \in DOMAIN policies THEN policies
                 ELSE With(policies, pid, [seen |-> FALSE, start |-> clock])
  /\ UNCHANGED <<clock, world, gone, suppressed, stop, tick_read, answered, keep, states,
                 attached, registry, exporter>>

(* _record_process_lifetime: every instant handed on widens its process's span. *)
Widen(f, process, instants) ==
  IF instants = {} THEN f
  ELSE LET known == instants \cup (IF process \in DOMAIN f
                                   THEN {f[process].first, f[process].last} ELSE {})
       IN  With(f, process, [first |-> CHOOSE t \in known : \A u \in known : t <= u,
                             last  |-> CHOOSE t \in known : \A u \in known : t >= u])

(***************************************************************************)
(* _ingest of the ring of pid's holder under process: the poll instant     *)
(* moves, records past the cursor are taken, the runs between are a loss   *)
(* span, and a record dated inside an earlier life is dropped.  The cursor *)
(* keeps the holder it counts, a history field.                            *)
(***************************************************************************)
Ingest(pid, process) ==
  LET ring == records[pid][born[pid]]
      state == IF pid \in DOMAIN states THEN states[pid]
               ELSE [cursor |-> 0, ts_last_poll |-> 0, holder |-> born[pid]]
      fresh == {k \in 1..Len(ring) : k > Len(ring) - RingSize /\ k > state.cursor}
      lost == state.cursor > 0 /\ fresh # {} /\ state.cursor + 1 \notin fresh
      foreign == {k \in fresh : Registry!At(pid, ring[k])' # process}
      taken == fresh \ foreign
      Filed(ks) == {[pid |-> pid, holder |-> born[pid], run |-> k, process |-> process] : k \in ks}
  IN  /\ states' = With(states, pid,
                        [cursor |-> IF fresh = {} THEN state.cursor ELSE Len(ring),
                         ts_last_poll |-> ts_read,
                         holder |-> state.holder])
      /\ spans' = Widen(spans, process,
                        {ring[k] : k \in taken}
                          \cup (IF lost THEN {state.ts_last_poll, ts_read} ELSE {}))
      /\ exported' = exported \cup Filed(taken)
      /\ dropped' = dropped \cup Filed(foreign)

(* The read returned, and the pid enters the registry if it holds none. *)
ReadReturns ==
  /\ pc = "reading"
  /\ reading \in ready
  /\ UNCHANGED <<clock, world, gone, suppressed, stop, todo, reading, departed>>
  /\ pc' = "polling"
  /\ ts_read' = 0
  /\ tick_read' = clock
  /\ IF Registry!Held(reading)
     THEN UNCHANGED <<registry, announced>>
     ELSE /\ Registry!Create(reading)
          /\ announced' = announced \cup {Registry!NextProcess(reading)}
  /\ Ingest(reading, live'[reading])
  /\ attached' = attached \cup {reading}
  /\ policies' = [policies EXCEPT ![reading].seen = TRUE]
  /\ answered' = answered \cup {live'[reading]}
  /\ keep' = TRUE

(* A mutant of KeepsWaiting. *)
KeepsWaitingForever(policy, status) ==
  status = "INVALID_PROCESS" /\ ~policy.seen

(* WaitPolicy.wait of a poll that did not answer OK. *)
KeepsWaiting(policy, status) ==
  status = "INVALID_PROCESS" /\ ~policy.seen /\ clock - policy.start < Timeout

(* Mutants of Forget. *)
ForgetDatedLate(pid) ==
  /\ states' = Without(states, {pid})
  /\ Registry!Retire(pid, clock)
  /\ departed' = departed \cup {p \in Registry!Live : p.pid = pid}

ForgetQuietly(pid) ==
  /\ states' = Without(states, {pid})
  /\ Registry!Retire(pid, now)
  /\ departed' = departed

ForgetOnlyState(pid) ==
  /\ states' = Without(states, {pid})
  /\ UNCHANGED <<registry, departed>>

(* _forget: the pid's counters go, and its process leaves the registry. *)
Forget(pid) ==
  /\ states' = Without(states, {pid})
  /\ Registry!Retire(pid, now)
  /\ departed' = departed \cup {p \in Registry!Live : p.pid = pid}

(* The read failed; unless the policy still waits, the pid is let go. *)
ReadFails ==
  /\ pc = "reading"
  /\ reading \notin ready \/ Transients
  /\ pc' = "polling"
  /\ \E status \in {"INVALID_PROCESS"} \cup (IF Transients THEN {"FAIL"} ELSE {}) :
       IF KeepsWaiting(policies[reading], status)
       THEN /\ keep' = TRUE
            /\ UNCHANGED <<states, registry, departed>>
       ELSE /\ keep' = keep
            /\ Forget(reading)
  /\ ts_read' = 0
  /\ attached' = attached \ {reading}
  /\ gone' = IF reading \in alive THEN gone ELSE gone \cup {reading}
  /\ UNCHANGED <<clock, world, suppressed, stop, todo, reading, tick_read, answered,
                 policies, announced, spans, exported, dropped>>

(* Every pid was visited, or the stop event cut it short: one liveness report. *)
EndTick ==
  /\ pc = "polling"
  /\ stop \/ todo = {}
  /\ spans' = [p \in DOMAIN spans \cup answered |->
                 IF p \in answered THEN Widen(spans, p, {tick_read})[p] ELSE spans[p]]
  /\ pc' = IF keep THEN "idle" ELSE "done"
  /\ todo' = {} /\ tick_read' = 0 /\ answered' = {} /\ keep' = FALSE
  /\ reading' = Root
  /\ UNCHANGED <<clock, world, gone, suppressed, stop, ts_read, held, registry, announced,
                 departed, exported, dropped>>

(* The runner sees the stop event between two ticks. *)
Stopped ==
  /\ pc = "idle"
  /\ stop
  /\ pc' = "done"
  /\ UNCHANGED <<clock, world, gone, suppressed, stop, todo, reading, ts_read, tick_read,
                 answered, keep, held, registry, exporter>>

(* EventsMonitor.stop, on the way out: no attachment outlives the run. *)
Close ==
  /\ pc = "done"
  /\ pc' = "closed"
  /\ attached' = {}
  /\ UNCHANGED <<clock, world, gone, suppressed, stop, todo, reading, ts_read, tick_read,
                 answered, keep, states, policies, registry, exporter>>

World ==
  \/ Elapse
  \/ Signal
  \/ \E pid \in Pids : Spawn(pid) \/ Start(pid) \/ Collect(pid) \/ Exit(pid)
                         \/ Suppress(pid) \/ Resume(pid)

Monitor ==
  \/ BeginTick
  \/ List
  \/ ListFails
  \/ \E pid \in Pids : Skip(pid) \/ BeginRead(pid)
  \/ ReadReturns
  \/ ReadFails
  \/ EndTick
  \/ Stopped
  \/ Close

Next == World \/ Monitor

Spec == Init /\ [][Next]_vars

(***************************************************************************)
(* The loop ticks on its schedule until the run ends, reads return or      *)
(* fail, and time passes.  Nothing is asked of the processes.              *)
(***************************************************************************)
FairSpec == Spec /\ WF_vars(Monitor) /\ WF_vars(Elapse)

-----------------------------------------------------------------------------
(* Properties. *)

Processes == Registry!Process
Filed == [pid : Pids, holder : 1..MaxHolders, run : Nat \ {0}, process : Processes]
Instant == 0..MaxTime
PidMap(f, S) == DOMAIN f \subseteq Pids /\ \A pid \in DOMAIN f : f[pid] \in S

TypeOK ==
  /\ {clock, ts_read, tick_read} \subseteq Instant
  /\ born \in [Pids -> 0..MaxHolders]
  /\ ready \subseteq alive /\ alive \subseteq Pids /\ gone \subseteq Pids \ alive
  /\ records \in [Pids -> Seq(Seq(Instant))] /\ \A pid \in Pids : Len(records[pid]) = born[pid]
  /\ suppressed \subseteq Pids
  /\ {stop, keep} \subseteq BOOLEAN
  /\ pc \in {"idle", "listing", "polling", "reading", "done", "closed"}
  /\ todo \subseteq Pids /\ reading \in Pids /\ answered \subseteq Processes
  /\ PidMap(states, [cursor : Nat, ts_last_poll : Instant, holder : 1..MaxHolders])
  /\ PidMap(policies, [seen : BOOLEAN, start : Instant])
  /\ attached \subseteq Pids
  /\ Registry!TypeOK
  /\ announced \subseteq Processes /\ departed \subseteq Processes
  /\ \A p \in DOMAIN spans : p \in Processes /\ spans[p] \in [first : Instant, last : Instant]
  /\ exported \subseteq Filed /\ dropped \subseteq Filed

(***************************************************************************)
(* A GC run goes out once: a pid that is dropped and comes back re-reads   *)
(* its ring, and no record is exported again under the next process.       *)
(***************************************************************************)
ExportedOnce ==
  \A a, b \in exported :
    a.pid = b.pid /\ a.holder = b.holder /\ a.run = b.run => a.process = b.process

(***************************************************************************)
(* Processes that hold one pid in turn live one after the other: no record *)
(* loss span or liveness report dates a process into the life of another.  *)
(***************************************************************************)
LivesInOrder ==
  \A p, q \in DOMAIN spans :
    p.pid = q.pid /\ p.epoch < q.epoch => spans[p].last <= spans[q].first

(***************************************************************************)
(* One prune for every piece of per-pid state (ADR-0017, ADR-0020): outside*)
(* a read, cursor, attachment and process are held for the same pids, each *)
(* under a policy that saw the pid alive.  The exporter's view of who      *)
(* exists is the registry's: announced once created, told when it retires, *)
(* and nothing names an unknown process.                                   *)
(***************************************************************************)
PidStateAgrees ==
  /\ DOMAIN states = DOMAIN live
  /\ pc \notin {"reading", "closed"} => attached = DOMAIN live
  /\ pc = "closed" => attached = {}
  /\ \A pid \in DOMAIN live : pid \in DOMAIN policies /\ policies[pid].seen
  /\ departed = UNION {{d.process : d \in {retired[pid][i] : i \in 1..Len(retired[pid])}} :
                          pid \in Pids}
  /\ announced = Registry!Live \cup departed
  /\ DOMAIN spans \subseteq announced

(***************************************************************************)
(* A reused pid inherits nothing: the counter a poll is compared with is   *)
(* that of the process that is read, so no loss is made up, and records    *)
(* filed under one pid and epoch are of one holder of the pid.             *)
(***************************************************************************)
NothingInherited ==
  /\ \A pid \in alive \cap DOMAIN states : states[pid].holder = born[pid]
  /\ \A a, b \in exported : a.process = b.process => a.holder = b.holder

(* The rule against re-reads costs the records of a reused pid nothing. *)
ReuseDropsNothing == Transients \/ dropped = {}

(* The run goes on while the target is held: it ends by a stop, or without it. *)
TargetIsFollowed ==
  pc \in {"done", "closed"} /\ ~stop => ~Registry!Held(Root)

(***************************************************************************)
(* A target that has exited ends the run, startup timeout included, and so *)
(* does a signal, whatever the tree does and wherever in a tick it arrives.*)
(***************************************************************************)
RunEnds ==
  /\ (Root \notin alive /\ Root \in DOMAIN policies /\ policies[Root].start + Timeout <= MaxTime)
       ~> pc = "closed"
  /\ stop ~> pc = "closed"

(* The monitor drives the registry as it is meant to be driven. *)
RegistrySpec == Registry!Spec

(***************************************************************************)
(* "Those went out under the predecessor already": a record dropped as     *)
(* re-read was exported before.                                            *)
(***************************************************************************)
DroppedWereExported ==
  \A d \in dropped : \E e \in exported :
    e.pid = d.pid /\ e.holder = d.holder /\ e.run = d.run
=============================================================================
