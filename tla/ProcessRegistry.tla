--------------------------- MODULE ProcessRegistry --------------------------
(***************************************************************************)
(* The monitor's record of who holds each pid (process_registry.py): a pid *)
(* belongs to the operating system, so a run is named by its pid and the   *)
(* epoch that counts the processes gcmon has seen hold it.  One lock makes *)
(* each operation a single step; only the monitor's thread writes.         *)
(***************************************************************************)
EXTENDS Integers, Sequences, FiniteSets

CONSTANTS
  Pids,       (* pids the operating system hands out                  *)
  MaxTime     (* bound: the clock                                     *)

ASSUME MaxTimeAssumption == MaxTime \in Nat

VARIABLES
  live,      (* _live: the process holding each pid that one holds         *)
  retired,   (* _retired: per pid, who has left and when, oldest first     *)
  now        (* the instant of the tick in progress, which dates what the
                monitor does to the registry                               *)

registryVars == <<live, retired, now>>

Process == [pid : Pids, epoch : Nat \ {0}]
NoProcess == [pid |-> "none", epoch |-> 0]

Init ==
  /\ live = <<>>
  /\ retired = [pid \in Pids |-> <<>>]
  /\ now = 0

(* A tick begins: its instant is read off a monotonic clock. *)
Advance(instant) ==
  /\ instant \in now..MaxTime
  /\ now' = instant
  /\ UNCHANGED <<live, retired>>

Held(pid) == pid \in DOMAIN live
Current(pid) == IF Held(pid) THEN live[pid] ELSE NoProcess
Live == {live[pid] : pid \in DOMAIN live}

(* The epoch after the last one the pid has had. *)
NextProcess(pid) == [pid |-> pid, epoch |-> Len(retired[pid]) + 1]

Create(pid) ==
  /\ ~Held(pid)
  /\ live' = [q \in DOMAIN live \cup {pid} |-> IF q = pid THEN NextProcess(pid) ELSE live[q]]
  /\ UNCHANGED <<retired, now>>

(* The departure of each pid in gone that a process holds, dated ts. *)
RetireAll(gone, ts) ==
  /\ live' = [q \in DOMAIN live \ gone |-> live[q]]
  /\ retired' = [q \in Pids |-> IF q \in gone /\ Held(q)
                                THEN Append(retired[q], [process |-> live[q], ts |-> ts])
                                ELSE retired[q]]
  /\ UNCHANGED now

Retire(pid, ts) == RetireAll({pid}, ts)
Retain(pids, ts) == RetireAll(Pids \ pids, ts)

(* Mutants of LeftAfter and At. *)
LeftBefore(pid, ts) == {i \in 1..Len(retired[pid]) : retired[pid][i].ts <= ts}

AtHolderFirst(pid, ts) ==
  LET past == retired[pid]
      left == {i \in 1..Len(past) : ts <= past[i].ts}
  IN  IF Held(pid) THEN live[pid]
      ELSE IF left # {} THEN past[CHOOSE i \in left : \A j \in left : i <= j].process
      ELSE IF past # <<>> THEN past[Len(past)].process
      ELSE NoProcess

(***************************************************************************)
(* The process that held pid at ts: the first that left no earlier, else   *)
(* the one holding it now, else the last to leave.                         *)
(***************************************************************************)
LeftAfter(pid, ts) == {i \in 1..Len(retired[pid]) : ts <= retired[pid][i].ts}
At(pid, ts) ==
  LET left == LeftAfter(pid, ts)
      first == CHOOSE i \in left : \A j \in left : i <= j
      past == retired[pid]
  IN  IF left # {} THEN past[first].process
      ELSE IF Held(pid) THEN live[pid]
      ELSE IF past # <<>> THEN past[Len(past)].process
      ELSE NoProcess

Next ==
  \/ \E instant \in now..MaxTime : Advance(instant)
  \/ \E pid \in Pids : Create(pid)
  \/ \E pid \in Pids : Held(pid) /\ Retire(pid, now)
  \/ \E pids \in SUBSET Pids : Retain(pids, now)

Spec == Init /\ [][Next]_registryVars

-----------------------------------------------------------------------------
(* Properties. *)

Departure == [process : Process, ts : Nat]

TypeOK ==
  /\ DOMAIN live \subseteq Pids
  /\ live \in [DOMAIN live -> Process]
  /\ retired \in [Pids -> Seq(Departure)]
  /\ now \in Nat

(***************************************************************************)
(* No two processes share a name: the epochs of a pid count its processes  *)
(* in the order gcmon saw them, the one holding it last.                   *)
(***************************************************************************)
EpochsCount ==
  \A pid \in Pids :
    /\ \A i \in 1..Len(retired[pid]) :
         retired[pid][i].process = [pid |-> pid, epoch |-> i]
    /\ Held(pid) => live[pid] = [pid |-> pid, epoch |-> Len(retired[pid]) + 1]

(***************************************************************************)
(* at() is ordered as time is: of two instants of one pid, the later is    *)
(* never filed under the earlier process.                                  *)
(***************************************************************************)
AtIsMonotone ==
  \A pid \in Pids, s, t \in 0..MaxTime :
    s <= t => At(pid, s).epoch <= At(pid, t).epoch

(***************************************************************************)
(* Evidence outlives the process it describes: once a process has left,    *)
(* an instant up to its departure is filed under the same process whatever *)
(* holds the pid later, and no answer ever moves to an earlier process.    *)
(***************************************************************************)
ClosedLivesStand ==
  [][\A pid \in Pids, ts \in 0..MaxTime :
       /\ LeftAfter(pid, ts) # {} => At(pid, ts)' = At(pid, ts)
       /\ At(pid, ts)'.epoch >= At(pid, ts).epoch]_registryVars
=============================================================================
