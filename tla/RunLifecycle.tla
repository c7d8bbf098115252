---------------------------- MODULE RunLifecycle ----------------------------
(***************************************************************************)
(* One run of gcmon from its set-up to its last release                    *)
(* (monitoring_base.run_monitoring_loop): what is entered on the way in,   *)
(* the loop, and the unwinding, which closes the control server before the *)
(* exporter it writes to and puts an end to the child                      *)
(* (child_process_runner.py, process_terminator.py).                       *)
(*                                                                         *)
(* Any step of the set-up may raise, a KeyboardInterrupt included while    *)
(* the handlers are not in place, and leave behind what no exit releases.  *)
(* Left out: a second signal during the unwinding, and what the child      *)
(* writes.                                                                 *)
(***************************************************************************)
EXTENDS MonitorLoop, Sequences

VARIABLES
  main,       (* where run_monitoring_loop is                               *)
  stack,      (* the ExitStack, the last entered first                      *)
  failed,     (* an exception is on its way out                             *)
  exporter,   (* "none", made and "new", "used", "closed", or closed "unfinished" *)
  attached,   (* whether the monitor's reader holds attachments             *)
  server,     (* the control server and its reader: "none", "open", "closed"; *)
              (* "stray" if listening with no exit to close it              *)
  handlers,   (* whether the signal handlers are gcmon's                    *)
  child,      (* "none", "running", "exited" and not waited for, "reaped"   *)
  stdout,     (* the runner's _stdout_thread: "none", "unstarted", "started" *)
  held,       (* a descendant of the child has its output open              *)
  term,       (* where terminate_process is                                 *)
  killed      (* SIGKILL has been sent                                      *)

released == <<exporter, attached, server, handlers>>
childVars == <<child, stdout, held, term, killed>>
runVars == <<main, stack, failed, released, childVars>>
lifecycleVars == <<loopVars, runVars>>

LifecycleInit ==
  /\ LoopInit
  /\ main = "exporter" /\ stack = <<>> /\ failed = FALSE
  /\ exporter = "none" /\ attached = FALSE /\ server = "none" /\ handlers = FALSE
  /\ child = "none" /\ stdout = "none" /\ held = FALSE /\ term = "idle" /\ killed = FALSE

-----------------------------------------------------------------------------
(* The set-up. *)

Enter(names) == stack' = names \o stack
Fails == main' = "unwind" /\ failed' = TRUE

MakeExporter ==
  /\ main = "exporter"
  /\ \/ main' = "server" /\ exporter' = "new" /\ UNCHANGED failed
     \/ Fails /\ UNCHANGED exporter
  /\ UNCHANGED <<loopVars, stack, attached, server, handlers, childVars>>

(* The address may be taken; and once ControlServer listens, start() may raise, or an
   interrupt come before the exit is on the stack. *)
StartServer ==
  /\ main = "server"
  /\ \/ main' = "start" /\ server' = "open" /\ Enter(<<"runner", "server">>) /\ UNCHANGED failed
     \/ Fails /\ server' \in {"none", "stray"} /\ UNCHANGED stack
  /\ UNCHANGED <<loopVars, exporter, attached, handlers, childVars>>

(* A child that exited at once is refused; the target of "monitor" is nobody's child.
   The thread that copies the child's output may fail to start. *)
StartChild ==
  /\ main = "start"
  /\ \/ /\ main' = "monitor" /\ UNCHANGED failed
        /\ \/ UNCHANGED <<child, stdout>>
           \/ child' = "running" /\ stdout' = "started"
     \/ /\ Fails
        /\ \/ child' \in {"none", "reaped"} /\ UNCHANGED stdout
           \/ child' = "running" /\ stdout' \in {"none", "unstarted", "started"}
  /\ UNCHANGED <<loopVars, stack, released, held, term, killed>>

(* A mutant of EnterMonitor. *)
EnterMonitorAlone ==
  /\ main = "monitor"
  /\ \/ main' = "signals" /\ Enter(<<"monitor">>) /\ UNCHANGED failed
     \/ Fails /\ UNCHANGED stack
  /\ UNCHANGED <<loopVars, released, childVars>>

(* The server's close is put on the stack once more, above the monitor; an interrupt may
   come between the two. *)
EnterMonitor ==
  /\ main = "monitor"
  /\ \/ main' = "signals" /\ Enter(<<"server", "monitor">>) /\ UNCHANGED failed
     \/ Fails /\ (UNCHANGED stack \/ Enter(<<"monitor">>))
  /\ UNCHANGED <<loopVars, released, childVars>>

ReplaceSignals ==
  /\ main = "signals"
  /\ \/ main' = "loop" /\ handlers' = TRUE /\ Enter(<<"signals">>) /\ UNCHANGED failed
     \/ Fails /\ UNCHANGED <<handlers, stack>>
  /\ UNCHANGED <<loopVars, exporter, attached, server, childVars>>

-----------------------------------------------------------------------------
(* The run. *)

(* A tick files what it reads, and attaches to what it reads it from. *)
Loop ==
  /\ main = "loop" /\ loop \notin {"over", "raised"}
  /\ Begin \/ RunLoop \/ Pass
  /\ exporter' = IF loop = "tick" THEN "used" ELSE exporter
  /\ attached' = (attached \/ loop = "tick")
  /\ UNCHANGED <<main, stack, failed, server, handlers, childVars>>

(* A signal, which gcmon's handler turns into close(). *)
Signal == handlers /\ ~stop_event /\ CloseLoop /\ UNCHANGED runVars

(* run() sets the event on its way out. *)
LeaveLoop ==
  /\ main = "loop" /\ loop \in {"over", "raised"}
  /\ stop_event' = TRUE
  /\ IF loop = "over" THEN main' = "wait" /\ UNCHANGED failed ELSE Fails
  /\ UNCHANGED <<clock, loop, start_ns, last_ns, ticks_run, due, last_sample_ns, live, unsampled,
                 stack, released, childVars>>

(* runner.wait, which gives a child that has not exited up after a while. *)
WaitForChild ==
  /\ main = "wait"
  /\ main' = "unwind"
  /\ child' = IF child = "exited" THEN "reaped" ELSE child
  /\ UNCHANGED <<loopVars, stack, failed, released, stdout, held, term, killed>>

Closed == exporter \in {"closed", "unfinished"}

(* The control server's reader files a message with the exporter, once a tick has
   put a process into the registry. *)
HandleMessage ==
  /\ server = "open" /\ loop # "idle"
  /\ exporter' = IF Closed THEN exporter ELSE "used"
  /\ UNCHANGED <<loopVars, main, stack, failed, attached, server, handlers, childVars>>

ChildExits ==
  /\ child = "running"
  /\ child' = "exited"
  /\ UNCHANGED <<loopVars, main, stack, failed, released, stdout, held, term, killed>>

(* The child starts a process that inherits its output, or the last such one ends. *)
PassOutputOn ==
  /\ term # "idle"
  /\ held \/ child = "running"
  /\ held' = ~held
  /\ UNCHANGED <<loopVars, main, stack, failed, released, child, stdout, term, killed>>

-----------------------------------------------------------------------------
(* The unwinding. *)

(* Whether or not an exit raises, the next one is called. *)
Unwound == Tail(stack)

Exits(name) == main = "unwind" /\ stack # <<>> /\ Head(stack) = name

RestoreSignals ==
  /\ Exits("signals")
  /\ handlers' = FALSE
  /\ stack' = Unwound
  /\ UNCHANGED <<loopVars, main, failed, exporter, attached, server, childVars>>

(* Its reader is joined: ControlPlane.  The second time there is nothing to close. *)
CloseServer ==
  /\ Exits("server")
  /\ server' = "closed"
  /\ stack' = Unwound
  /\ UNCHANGED <<loopVars, main, failed, exporter, attached, handlers, childVars>>

(* EventsMonitor.stop: if the exporter's last write raises, the trace has no end and the
   reader keeps its attachments. *)
StopMonitor ==
  /\ Exits("monitor")
  /\ \/ exporter' = "closed" /\ attached' = FALSE /\ UNCHANGED failed
     \/ exporter' = "unfinished" /\ failed' = TRUE /\ UNCHANGED attached
  /\ stack' = Unwound
  /\ UNCHANGED <<loopVars, main, server, handlers, childVars>>

(* A mutant of AfterTimeout. *)
AfterTimeoutNoKill(stage) == CASE stage = "int" -> "term" [] stage = "term" -> "term"

(* The next signal to send a child that outlived the one before; none after SIGKILL. *)
AfterTimeout(stage) ==
  CASE stage = "int" -> "term" [] stage = "term" -> "kill" [] stage = "kill" -> "final"

(* terminate_process at stage; a child that has exited is reaped, and that is the end of it. *)
Terminate(stage) ==
  /\ term' = IF child = "running" THEN stage ELSE "idle"
  /\ child' = IF child = "exited" THEN "reaped" ELSE child
  /\ stack' = IF term' = "idle" THEN Unwound ELSE stack
  /\ killed' = (killed \/ (child = "running" /\ stage = "kill"))
  /\ UNCHANGED <<loopVars, main, failed, released, held>>

(* The runner's exit joins the output's thread first, which raises if it never started. *)
BeginTerminate ==
  /\ Exits("runner") /\ term = "idle"
  /\ IF stdout = "unstarted"
     THEN /\ failed' = TRUE
          /\ stack' = Unwound
          /\ UNCHANGED <<loopVars, main, released, childVars>>
     ELSE stdout' = "none" /\ Terminate("int")

(* communicate() returns at the end of the output, which is not the child's alone ... *)
Communicated ==
  /\ term # "idle" /\ child = "exited" /\ ~held
  /\ Terminate(term) /\ UNCHANGED stdout

(* ... or at its timeout; the last call has none. *)
TimesOut ==
  /\ term \in {"int", "term", "kill"}
  /\ Terminate(AfterTimeout(term)) /\ UNCHANGED stdout

Return ==
  /\ main = "unwind" /\ stack = <<>>
  /\ main' = "done"
  /\ UNCHANGED <<loopVars, stack, failed, released, childVars>>

-----------------------------------------------------------------------------
SetUp == MakeExporter \/ StartServer \/ StartChild \/ EnterMonitor \/ ReplaceSignals
Unwind ==
  \/ RestoreSignals \/ CloseServer \/ StopMonitor \/ Return
  \/ BeginTerminate \/ Communicated \/ TimesOut

LifecycleNext ==
  \/ SetUp \/ Loop \/ Signal \/ LeaveLoop \/ WaitForChild \/ Unwind
  \/ HandleMessage \/ ChildExits \/ PassOutputOn

(***************************************************************************)
(* gcmon's main thread goes on, a tick and the unwinding included; a child *)
(* that is killed dies, and one that is merely asked to may not.           *)
(***************************************************************************)
FairSpec ==
  /\ LifecycleInit /\ [][LifecycleNext]_lifecycleVars
  /\ WF_lifecycleVars(SetUp \/ LeaveLoop \/ WaitForChild \/ Unwind)
  /\ WF_lifecycleVars(Loop /\ loop' # loop)
  /\ WF_lifecycleVars(killed /\ ChildExits)

-----------------------------------------------------------------------------
(* Properties. *)

(***************************************************************************)
(* A run that nothing failed in leaves its trace closed, no server, no     *)
(* attachment, no handler of its own and no child alive or unreaped.  One  *)
(* that failed, anywhere on the way in or out, leaves no more than what    *)
(* the code has no exit for: a server whose start() raised, a child whose  *)
(* output's thread never started, and, when the trace's last write raises, *)
(* its unfinished trace and the attachments.                               *)
(*   On the way no message reaches an exporter that is closed, for the     *)
(* control server's reader has ended first, or no tick has put a process   *)
(* into the registry; and no signal is sent to a child already reaped,     *)
(* whose pid may be another process's.                                     *)
(***************************************************************************)
ReleasedAtTheEnd ==
  /\ Closed => server # "open" \/ loop = "idle"
  /\ term # "idle" => child \in {"running", "exited"}
  /\ main = "done" =>
       /\ server # "open" /\ ~handlers /\ exporter # "used"
       /\ attached => exporter = "unfinished"
       /\ child \in {"none", "reaped"} \/ stdout = "unstarted"
       /\ ~failed => /\ exporter = "closed" /\ ~attached
                     /\ server = "closed" /\ child \in {"none", "reaped"}

(***************************************************************************)
(* A run that is stopped, and one that is unwinding, comes to its end, a   *)
(* child that ignores every signal it can included, unless a process that  *)
(* the child left its output to never lets go of it.                       *)
(***************************************************************************)
RunFinishes ==
  []<>~(term = "final" /\ held) => ((stop_event \/ main = "unwind") ~> main = "done")
=============================================================================
