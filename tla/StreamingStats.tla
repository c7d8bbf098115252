--------------------------- MODULE StreamingStats ---------------------------
(***************************************************************************)
(* The statistics of a run (streaming_stats.py): one ring of totals per    *)
(* interpreter of a process, of which a bounded number may hold sample     *)
(* buffers at once.  A ring is admitted or declined on its first record,   *)
(* settled when its process leaves, and final from then on.                *)
(*                                                                         *)
(* The monitor's thread is the only caller.  Its half is modelled as far   *)
(* as it orders the calls (monitor.py, _ingest, _forget, _retain): a read  *)
(* counts what each ring gained, hands the fresh records over one by one,  *)
(* and may fail at any of them.  A record is one unit of pause.            *)
(***************************************************************************)
EXTENDS Integers, FiniteSets, Functions

CONSTANTS
  Processes,     (* processes that come and go                              *)
  Iids,          (* interpreters of a process                               *)
  Gens,          (* generations                                             *)
  MaxRings,      (* MAX_ACTIVE_RINGS: rings with sample buffers at once     *)
  Advisory,      (* COVERAGE_ADVISORY, in percent                           *)
  MaxRuns        (* bound: GC runs counted over the whole run               *)

ASSUME MaxRingsAssumption == MaxRings \in Nat
ASSUME GensAssumption == IsFiniteSet(Gens)
ASSUME ProcessesAssumption == IsFiniteSet(Processes) /\ IsFiniteSet(Iids)
ASSUME StatsAssumption ==
  /\ MaxRuns \in Nat
  /\ Advisory \in 0..100

Keys == Processes \X Iids

VARIABLES
  running,         (* _running_rings                                        *)
  settled,         (* _settled_rings                                        *)
  admitted,        (* _admitted_rings                                       *)
  open,            (* _open_processes                                       *)
  total,           (* per generation, what the run's own pause metric counts *)
  live,            (* the caller: processes in the registry                 *)
  left,            (* the caller: processes that have left it               *)
  reading,         (* the caller: the process whose read is ingested, if any *)
  fresh,           (* the caller: its records not handed over yet           *)
  coverage_warned, (* the caller: the advisory has been given               *)
  fed,             (* history: records of a running ring handed to update   *)
  missed,          (* history: losses handed to record_loss                 *)
  unread           (* history: runs counted by the target alone: before its *)
                   (* first read, or of records that never reached update   *)

stats == <<running, settled, admitted, open, total>>
caller == <<live, left, reading, fresh, coverage_warned>>
history == <<fed, missed, unread>>
statsVars == <<stats, caller, history>>

Sum(f) == FoldFunction(LAMBDA x, y : x + y, 0, f)
SumOver(f) == Sum([key \in DOMAIN f |-> Sum(f[key])])

Nothing == [g \in Gens |-> 0]
NewRing == [metrics |-> FALSE, declined |-> FALSE,
            sampled |-> Nothing, lost |-> Nothing, cumulative |-> Nothing]

Init ==
  /\ running = <<>> /\ settled = <<>>
  /\ admitted = 0
  /\ open = {}
  /\ total = Nothing
  /\ live = {} /\ left = {}
  /\ reading = {}
  /\ fresh = [iid \in Iids |-> Nothing]
  /\ coverage_warned = FALSE
  /\ fed = [key \in Keys |-> Nothing]
  /\ missed = [key \in Keys |-> Nothing]
  /\ unread = [key \in Keys |-> Nothing]

-----------------------------------------------------------------------------
(* The class. *)

KeysOf(processes) == {key \in DOMAIN running : key[1] \in processes}
Declined == {key \in DOMAIN running : running[key].declined}
Measured == {key \in DOMAIN running : running[key].metrics}

OpenRing(key) == IF key \in DOMAIN running THEN running[key] ELSE NewRing
PutRing(key, ring) == [k \in DOMAIN running \cup {key} |-> IF k = key THEN ring ELSE running[k]]

Opens(process) == open \cup {process}

(* A mutant of Admissible. *)
AdmissibleLater(ring) == admitted < MaxRings
(* A ring declined once stays declined: a slot freed since is not for it. *)
Admissible(ring) == ~ring.declined /\ admitted < MaxRings

(* The ring as _admit leaves it. *)
Admit(ring) ==
  IF ring.metrics \/ Admissible(ring) THEN [ring EXCEPT !.metrics = TRUE]
  ELSE [ring EXCEPT !.declined = TRUE]

(* This caller drops re-reads itself, so none of its records gets here. *)
Refused(key) == key \in DOMAIN settled

(* A mutant of Update. *)
UpdateMeasured(key, g) ==
  LET ring == OpenRing(key)
      given == Admit(ring)
  IN  /\ running' = PutRing(key, IF given.metrics THEN [given EXCEPT !.sampled[g] = @ + 1]
                                                  ELSE given)
      /\ admitted' = IF given.metrics /\ ~ring.metrics THEN admitted + 1 ELSE admitted
      /\ open' = open \cup {key[1]}
      /\ total' = [total EXCEPT ![g] = IF given.metrics THEN @ + 1 ELSE @]
      /\ fed' = [fed EXCEPT ![key][g] = @ + 1]
      /\ UNCHANGED settled

Update(key, g) ==
  LET ring == OpenRing(key)
      given == Admit(ring)
  IN  IF Refused(key) THEN UNCHANGED <<stats, fed>>
      ELSE /\ running' = PutRing(key, IF given.metrics THEN [given EXCEPT !.sampled[g] = @ + 1]
                                                       ELSE given)
           /\ admitted' = IF given.metrics /\ ~ring.metrics THEN admitted + 1 ELSE admitted
           /\ open' = open \cup {key[1]}
           /\ total' = [total EXCEPT ![g] = @ + 1]
           /\ fed' = [fed EXCEPT ![key][g] = @ + 1]
           /\ UNCHANGED settled

(* A mutant of Freed. *)
FreedOne(keys) == IF keys \cap Measured = {} THEN 0 ELSE 1

Freed(keys) == Cardinality(keys \cap Measured)

(* _settle, of every ring of the processes that are open. *)
Settle(processes) ==
  LET keys == KeysOf(processes \cap open)
  IN  /\ open' = open \ processes
      /\ admitted' = admitted - Freed(keys)
      /\ settled' = [k \in DOMAIN settled \cup keys |->
                       IF k \in keys THEN running[k] ELSE settled[k]]
      /\ running' = [k \in DOMAIN running \ keys |-> running[k]]
      /\ UNCHANGED total

Materialize(process) == Settle({process})
Retain(processes) == Settle(open \ processes)

(***************************************************************************)
(* observe_cumulative, then record_loss where the interval lost something, *)
(* for each ring of a process that a read gained records of: skipped is    *)
(* what its counter moved beyond them.  The first read seeds, and what was *)
(* skipped before it was not lost.                                         *)
(***************************************************************************)
Seeded(key, g) == OpenRing(key).cumulative[g] > 0

CountGains(process, gained, skipped) ==
  LET keys == {process} \X {iid \in Iids : \E g \in Gens : gained[iid][g] > 0}
      lost(key) == [g \in Gens |-> IF Seeded(key, g) THEN skipped[key[2]][g] ELSE 0]
      earlier(key) == [g \in Gens |-> IF Seeded(key, g) THEN 0 ELSE skipped[key[2]][g]]
      counted(key) ==
        [OpenRing(key) EXCEPT
           !.cumulative = [g \in Gens |-> @[g] + gained[key[2]][g] + skipped[key[2]][g]],
           !.lost = [g \in Gens |-> @[g] + lost(key)[g]]]
  IN  /\ running' = [key \in DOMAIN running \cup keys |->
                       IF key \in keys THEN counted(key) ELSE running[key]]
      /\ open' = IF keys = {} THEN open ELSE Opens(process)
      /\ missed' = [key \in Keys |-> IF key \in keys
                                     THEN [g \in Gens |-> missed[key][g] + lost(key)[g]]
                                     ELSE missed[key]]
      /\ unread' = [key \in Keys |->
                      IF key \in keys
                      THEN [g \in Gens |-> unread[key][g] + earlier(key)[g]]
                      ELSE unread[key]]
      /\ UNCHANGED <<settled, admitted, total>>

(* A mutant of LowCoverage. *)
LowCoverageUnlessSampled(process) ==
  \E key \in KeysOf({process}) : \E g \in Gens :
    running[key].lost[g] > 0 /\ running[key].sampled[g] = 0 /\ ~running[key].declined

(* A ring of the process that is measured, and too little of it. *)
LowCoverage(process) ==
  \E key \in KeysOf({process}) :
    LET ring == running[key]
    IN  /\ ~ring.declined
        /\ \E g \in Gens :
             /\ ring.lost[g] > 0
             /\ 100 * ring.sampled[g] < Advisory * (ring.sampled[g] + ring.lost[g])

(* What a reader gets: every ring of the run, running and settled alike. *)
AllRings(field, g) ==
  Sum([key \in DOMAIN running |-> running[key][field][g]])
  + Sum([key \in DOMAIN settled |-> settled[key][field][g]])

PauseTotalsByGen(g) == [sampled |-> total[g], lost |-> AllRings("lost", g)]
CumulativeByGen(g) == AllRings("cumulative", g)

(* _find_ring, and one ring's totals. *)
FindRing(key) ==
  IF key \in DOMAIN running THEN running[key]
  ELSE IF key \in DOMAIN settled THEN settled[key] ELSE NewRing
PauseTotals(key, g) == [sampled |-> FindRing(key).sampled[g], lost |-> FindRing(key).lost[g]]

-----------------------------------------------------------------------------
(* The monitor, calling it. *)

Appear(process) ==
  /\ reading = {}
  /\ process \notin live \cup left
  /\ live' = live \cup {process}
  /\ UNCHANGED <<stats, left, reading, fresh, coverage_warned, history>>

RunsCounted ==
  LET counted(rings) == Sum([key \in DOMAIN rings |-> Sum(rings[key].cumulative)])
  IN  counted(running) + counted(settled)

(* A read returned.  A generation without a fresh record skipped nothing known. *)
Ingest(process, gained, skipped) ==
  /\ reading = {}
  /\ process \in live
  /\ \A iid \in Iids, g \in Gens : skipped[iid][g] > 0 => gained[iid][g] > 0
  /\ RunsCounted + SumOver(gained) + SumOver(skipped) <= MaxRuns
  /\ CountGains(process, gained, skipped)
  /\ reading' = {process}
  /\ fresh' = gained
  /\ UNCHANGED <<live, left, coverage_warned, fed>>

HandOver(process, iid, g) ==
  /\ reading = {process}
  /\ fresh[iid][g] > 0
  /\ Update(<<process, iid>>, g)
  /\ fresh' = [fresh EXCEPT ![iid][g] = @ - 1]
  /\ UNCHANGED <<live, left, reading, coverage_warned, missed, unread>>

(* A record that dates from the process before it on the pid. *)
DropReread(process, iid, g) ==
  /\ reading = {process}
  /\ fresh[iid][g] > 0
  /\ fresh' = [fresh EXCEPT ![iid][g] = @ - 1]
  /\ unread' = [unread EXCEPT ![<<process, iid>>][g] = @ + 1]
  /\ UNCHANGED <<stats, live, left, reading, coverage_warned, fed, missed>>

EndRead(process) ==
  /\ reading = {process}
  /\ fresh = [iid \in Iids |-> Nothing]
  /\ coverage_warned' = (coverage_warned \/ LowCoverage(process))
  /\ reading' = {}
  /\ UNCHANGED <<stats, live, left, fresh, history>>

(* What a read has of a ring and update does not have yet. *)
Waiting(key) == IF key[1] \in reading THEN fresh[key[2]] ELSE Nothing

(* The read failed, before or while its records are handed over. *)
Forget(process) ==
  /\ reading \subseteq {process}
  /\ process \in live
  /\ Materialize(process)
  /\ live' = live \ {process}
  /\ left' = left \cup {process}
  /\ reading' = {}
  /\ fresh' = [iid \in Iids |-> Nothing]
  /\ unread' = [key \in Keys |-> [g \in Gens |-> unread[key][g] + Waiting(key)[g]]]
  /\ UNCHANGED <<coverage_warned, fed, missed>>

(* A listing that worked names the processes that are still there. *)
RetainListed(listed) ==
  /\ reading = {}
  /\ Retain(listed)
  /\ live' = listed
  /\ left' = left \cup (live \ listed)
  /\ UNCHANGED <<reading, fresh, coverage_warned, history>>

Next ==
  \/ \E process \in Processes :
       \/ Appear(process) \/ EndRead(process) \/ Forget(process)
       \/ \E gained, skipped \in [Iids -> [Gens -> 0..MaxRuns]] : Ingest(process, gained, skipped)
       \/ \E iid \in Iids, g \in Gens : HandOver(process, iid, g) \/ DropReread(process, iid, g)
  \/ \E listed \in SUBSET live : RetainListed(listed)

Spec == Init /\ [][Next]_statsVars

-----------------------------------------------------------------------------
(* Properties. *)

Counts == [Gens -> Nat]
Ring == [metrics : BOOLEAN, declined : BOOLEAN, sampled : Counts, lost : Counts, cumulative : Counts]

TypeOK ==
  /\ DOMAIN running \subseteq Keys /\ running \in [DOMAIN running -> Ring]
  /\ DOMAIN settled \subseteq Keys /\ settled \in [DOMAIN settled -> Ring]
  /\ admitted \in Nat
  /\ open \subseteq Processes
  /\ total \in Counts
  /\ live \subseteq Processes /\ left \subseteq Processes /\ live \cap left = {}
  /\ reading \subseteq live /\ Cardinality(reading) <= 1
  /\ fresh \in [Iids -> Counts]
  /\ fed \in [Keys -> Counts] /\ missed \in [Keys -> Counts] /\ unread \in [Keys -> Counts]
  /\ coverage_warned \in BOOLEAN

(***************************************************************************)
(* The count the bound is held against is the number of running rings that *)
(* hold buffers, so no slot leaks and none is given twice.                 *)
(***************************************************************************)
SlotsAreCounted == admitted = Cardinality(Measured) /\ admitted <= MaxRings

(***************************************************************************)
(* A ring runs exactly as long as its process is in the registry: what has *)
(* left holds no slot and is in no coverage figure, whichever call opened  *)
(* the ring, and no ring is both running and settled.                      *)
(***************************************************************************)
RingsFollowLives ==
  /\ \A key \in DOMAIN running : key[1] \in live \cap open
  /\ \A key \in DOMAIN settled : key[1] \in left
  /\ open \subseteq live

(***************************************************************************)
(* What a ring samples covers one unbroken stretch: either every record of *)
(* its interpreter was measured, or none was and the ring is declined.     *)
(***************************************************************************)
WholeOrNothing(key, ring) ==
  /\ ring.metrics => ~ring.declined /\ ring.sampled = fed[key]
  /\ ~ring.metrics => ring.sampled = Nothing
  /\ ~ring.metrics /\ ~ring.declined => fed[key] = Nothing

SampledWhole ==
  /\ \A key \in DOMAIN running : WholeOrNothing(key, running[key])
  /\ \A key \in DOMAIN settled : WholeOrNothing(key, settled[key])

(***************************************************************************)
(* Between reads the figures of the run and of each measured ring add up   *)
(* to the target's own counters (ADR-0015, "exact"): what was sampled and  *)
(* what was lost make up every run a counter shows but those that none of  *)
(* them could: runs before the first read, re-reads dropped, and records   *)
(* that a failed read left behind.  The run's figures are whole whichever  *)
(* rings were declined, settled or forgotten midway; a ring's are its own. *)
(***************************************************************************)
TotalsAreWhole ==
  reading = {} =>
    \A g \in Gens :
      /\ PauseTotalsByGen(g).sampled + PauseTotalsByGen(g).lost
           = CumulativeByGen(g) - Sum([key \in Keys |-> unread[key][g]])
      /\ \A key \in Keys :
           FindRing(key).metrics =>
             PauseTotals(key, g).sampled + PauseTotals(key, g).lost
               = FindRing(key).cumulative[g] - unread[key][g]

(* Nothing a settled ring holds changes, and none is reopened. *)
SettledIsFinal ==
  [][\A key \in DOMAIN settled :
       key \in DOMAIN settled' \ DOMAIN running' /\ settled'[key] = settled[key]]_statsVars

(***************************************************************************)
(* Between reads, a measured interpreter of which too little was read has  *)
(* been spoken of: the one advisory of a run was given by then.            *)
(***************************************************************************)
PoorlyRead(key) ==
  \E g \in Gens :
    /\ missed[key][g] > 0
    /\ 100 * fed[key][g] < Advisory * (fed[key][g] + missed[key][g])

LowCoverageIsSaid ==
  reading = {} /\ (\E key \in DOMAIN running \ Declined : PoorlyRead(key)) => coverage_warned
=============================================================================
