-------------------------- MODULE RingAccumulator --------------------------
(***************************************************************************)
(* The reconstruction of GC loss on one ring: CPython writes one record    *)
(* per finished GC run into a ring of RingSize slots, a poll copies the    *)
(* ring out, and RingAccumulator (model/loss.py) folds the records it has  *)
(* not seen, charging what was overwritten in between to a loss entry.     *)
(*                                                                         *)
(* Time is the number of GC runs the target has finished, so "run k ended  *)
(* before instant t" is k <= t.  Pauses and durations are nanoseconds; the *)
(* cumulative duration is a float of seconds in the target, so each record *)
(* carries a rounding error against the sum of the pauses.                 *)
(***************************************************************************)
EXTENDS Integers, Sequences, FiniteSets

CONSTANTS
  RingSize,   (* slots the ring of this generation has                      *)
  MaxRuns,    (* bound: GC runs the target finishes                         *)
  Pauses,     (* pauses a GC run may take; 0 is a run the clock cannot see  *)
  Roundings,  (* error one run adds to the cumulative duration              *)
  Torn        (* TRUE: a copy of the ring may straddle the write cursor     *)

ASSUME RingSizeAssumption == RingSize \in Nat \ {0}
ASSUME MaxRunsAssumption == MaxRuns \in Nat
ASSUME PausesAssumption == Pauses \subseteq Nat
ASSUME RoundingsAssumption == Roundings \subseteq Int
ASSUME TornAssumption == Torn \in BOOLEAN

NoPoll == -1

VARIABLES
  runs,          (* per finished GC run: its pause, the cumulative duration
                    its record carries, and the error folded into that (a
                    history variable)                                       *)
  writing,       (* the target is filling the slot of the next record       *)
  pc,            (* where the poll in progress is                           *)
  ts_poll,       (* instant the read in progress began                      *)
  ts_last_poll,  (* PidState.ts_last_poll: instant the read before began    *)
  events,        (* the unseen records the poll is folding                  *)
  todo,          (* those whose pause has not been added yet                *)
  entry,         (* the GenLoss of the poll in progress                     *)
  acc,           (* the RingAccumulator                                     *)
  lost,          (* LossTotals of the ring in the statistics                *)
  sampled,       (* runs handed on as records, a history variable           *)
  gaps           (* loss entries handed on, with the interval they name     *)

target == <<runs, writing>>
polling == <<pc, ts_poll, ts_last_poll, events, todo, entry>>
books == <<acc, lost, sampled, gaps>>
vars == <<target, polling, books>>

-----------------------------------------------------------------------------
(* The target. *)

Finished == Len(runs)

(* A GC run begins to write its record: the next slot is being filled. *)
BeginWrite ==
  /\ ~writing
  /\ Finished < MaxRuns
  /\ writing' = TRUE
  /\ UNCHANGED <<runs, polling, books>>

LastDuration == IF runs = <<>> THEN 0 ELSE runs[Finished].duration
LastSlack == IF runs = <<>> THEN 0 ELSE runs[Finished].slack
Magnitude(i) == IF i < 0 THEN -i ELSE i

(***************************************************************************)
(* The record is complete: one more run counted, its pause added to the    *)
(* cumulative duration.  The clock is monotonic, so the duration is too.   *)
(***************************************************************************)
FinishWrite ==
  /\ writing
  /\ \E pause \in Pauses, rounding \in Roundings :
       /\ pause + rounding >= 0
       /\ runs' = Append(runs, [pause |-> pause,
                                duration |-> LastDuration + pause + rounding,
                                slack |-> LastSlack + Magnitude(rounding)])
  /\ writing' = FALSE
  /\ UNCHANGED <<polling, books>>

(* The runs whose records the ring held when t runs had finished. *)
Held(t) == {k \in 1..t : k > t - RingSize}

Record(k, copy) == [collections |-> k, copy |-> copy]
Slot(k) == k % RingSize

(***************************************************************************)
(* What one copy of the ring can return.  Between two records it is the    *)
(* ring as it stands.  While a record is written, the slot it replaces may *)
(* be intact, half written (_is_complete drops it), or hold a second copy  *)
(* of the newest record.  A torn copy takes the slots below some position  *)
(* as they were earlier in the read.                                       *)
(***************************************************************************)
Replaced == {k \in Held(Finished) : k = Finished + 1 - RingSize}

AtomicCopies ==
  LET intact == {Record(k, 0) : k \in Held(Finished)}
      half == {Record(k, 0) : k \in Held(Finished) \ Replaced}
      newest == {Record(k, 1) : k \in {Finished} \ {0}}
  IN  IF ~writing THEN {intact}
      ELSE {intact, half} \cup (IF RingSize > 1 THEN {half \cup newest} ELSE {})

TornCopies ==
  { {Record(k, 0) : k \in {j \in Held(earlier) : Slot(j) < at}
                          \cup {j \in Held(Finished) : Slot(j) >= at}} :
      earlier \in ts_poll..Finished, at \in 0..RingSize }

Copies == IF Torn THEN AtomicCopies \cup TornCopies ELSE AtomicCopies

-----------------------------------------------------------------------------
(* One poll of the ring. *)

NoEntry == [observed_count |-> 0, lost_count |-> 0, lost_pause_ns |-> 0, lost_from |-> 0]

NoRecords == [first_collections |-> 0, first_pause_ns |-> 0, first_duration |-> 0,
              last_collections |-> 0, last_duration |-> 0,
              sampled_count |-> 0, sampled_pause_ns |-> 0]

Init ==
  /\ runs = <<>>
  /\ writing = FALSE
  /\ pc = "idle"
  /\ ts_poll = 0
  /\ ts_last_poll = NoPoll
  /\ events = {}
  /\ todo = {}
  /\ entry = NoEntry
  /\ acc = NoRecords
  /\ lost = [count |-> 0, pause_ns |-> 0]
  /\ sampled = {}
  /\ gaps = {}

(* The read begins; its instant closes the interval the previous one opened. *)
StartRead ==
  /\ pc = "idle"
  /\ pc' = "reading"
  /\ ts_poll' = Finished
  /\ UNCHANGED <<target, ts_last_poll, events, todo, entry, books>>

PauseOf(event) == runs[event.collections].pause
DurationOf(event) == runs[event.collections].duration

(* A slot holding no finished record, or one the clock gave no width. *)
IsComplete(record) == PauseOf(record) > 0

(* A mutant of Unseen. *)
UnseenTwins(records) == {r \in records : r.collections > acc.last_collections}

UnseenButNewest(records) ==
  {r \in records : /\ r.collections > acc.last_collections
                   /\ \E q \in records : q.collections > r.collections}

(* The newer counters, the second slot of a pair that reports one run. *)
Unseen(records) ==
  {r \in records : /\ r.collections > acc.last_collections
                   /\ \A q \in records : q.collections = r.collections => q.copy <= r.copy}

(* A mutant of Last. *)
Oldest(records) == CHOOSE r \in records : \A q \in records : r.collections <= q.collections

First(records) == CHOOSE r \in records : \A q \in records : r.collections <= q.collections
Last(records) == CHOOSE r \in records : \A q \in records : r.collections >= q.collections

Seeding == acc.sampled_count = 0

(* A mutant of GenLoss. *)
GenLossWholeSpan(event, observed_count) ==
  LET missing == event.collections - acc.last_collections - 1
  IN  IF missing <= 0
      THEN [NoEntry EXCEPT !.observed_count = observed_count]
      ELSE [observed_count |-> observed_count,
            lost_count |-> missing,
            lost_pause_ns |-> DurationOf(event) - acc.last_duration,
            lost_from |-> acc.last_collections + 1]

(* _gen_loss: the runs between the cursor and the first record of the poll. *)
GenLoss(event, observed_count) ==
  LET lost_from == acc.last_collections + 1
      missing == event.collections - lost_from
      spanned_ns == DurationOf(event) - acc.last_duration
      left_over == spanned_ns - PauseOf(event)
  IN  IF missing <= 0
      THEN [NoEntry EXCEPT !.observed_count = observed_count]
      ELSE [observed_count |-> observed_count,
            lost_count |-> missing,
            lost_pause_ns |-> IF left_over > 0 THEN left_over ELSE 0,
            lost_from |-> lost_from]

(***************************************************************************)
(* The copy returns and _ingest starts on it: the poll instant moves, what *)
(* is incomplete or seen is dropped, the first record seeds the ring or    *)
(* opens a gap.                                                            *)
(***************************************************************************)
Copy ==
  /\ pc = "reading"
  /\ \E records \in Copies :
       LET fresh == Unseen({r \in records : IsComplete(r)})
           first == First(fresh)
       IN  IF fresh = {}
           THEN /\ pc' = "idle"
                /\ ts_last_poll' = ts_poll
                /\ UNCHANGED <<events, todo, entry, acc>>
           ELSE /\ pc' = "folding"
                /\ UNCHANGED ts_last_poll
                /\ events' = fresh
                /\ todo' = fresh
                /\ IF Seeding
                   THEN /\ acc' = [acc EXCEPT !.first_collections = first.collections,
                                              !.first_pause_ns = PauseOf(first),
                                              !.first_duration = DurationOf(first)]
                        /\ entry' = [NoEntry EXCEPT !.observed_count = Cardinality(fresh)]
                   ELSE /\ acc' = acc
                        /\ entry' = GenLoss(first, Cardinality(fresh))
  /\ UNCHANGED <<target, ts_poll, lost, sampled, gaps>>

(* One turn of the loop over the events. *)
Fold ==
  /\ pc = "folding"
  /\ todo # {}
  /\ LET event == First(todo)
     IN  /\ acc' = [acc EXCEPT !.sampled_pause_ns = @ + PauseOf(event)]
         /\ todo' = todo \ {event}
  /\ UNCHANGED <<target, pc, ts_poll, ts_last_poll, events, entry, lost, sampled, gaps>>

(* The loss span of the entry: the runs it names, and the instants of two reads. *)
Span ==
  [from |-> entry.lost_from, to |-> entry.lost_from + entry.lost_count - 1,
   ts_start |-> ts_last_poll, ts_stop |-> ts_poll]

(* The cursor settles, and the poll hands its loss and its records on. *)
Settle ==
  /\ pc = "folding"
  /\ todo = {}
  /\ LET last == Last(events)
     IN  acc' = [acc EXCEPT !.sampled_count = @ + Cardinality(events),
                            !.last_collections = last.collections,
                            !.last_duration = DurationOf(last)]
  /\ lost' = [count |-> lost.count + entry.lost_count,
              pause_ns |-> lost.pause_ns + entry.lost_pause_ns]
  /\ gaps' = IF entry.lost_count = 0 THEN gaps ELSE gaps \cup {Span}
  /\ sampled' = sampled \cup {r.collections : r \in events}
  /\ ts_last_poll' = ts_poll
  /\ pc' = "idle"
  /\ events' = {}
  /\ entry' = NoEntry
  /\ UNCHANGED <<target, ts_poll, todo>>

Target == BeginWrite \/ FinishWrite
Poll == StartRead \/ Copy \/ Fold \/ Settle
Next == Target \/ Poll

Spec == Init /\ [][Next]_vars

(***************************************************************************)
(* The monitor polls every tick as long as the run goes on, and a record   *)
(* that was begun is finished.  Nothing forces the target to collect.      *)
(***************************************************************************)
FairSpec == Spec /\ WF_vars(Poll) /\ WF_vars(FinishWrite)

-----------------------------------------------------------------------------
(* Properties. *)

ExactCount == IF Seeding THEN 0 ELSE acc.last_collections - acc.first_collections + 1
ExactPause == IF Seeding THEN 0
              ELSE acc.last_duration - acc.first_duration + acc.first_pause_ns
LostRuns == UNION {g.from..g.to : g \in gaps}

TypeOK ==
  /\ runs \in Seq([pause : Pauses, duration : Nat, slack : Nat])
  /\ writing \in BOOLEAN
  /\ pc \in {"idle", "reading", "folding"}
  /\ ts_poll \in 0..Finished
  /\ ts_last_poll \in {NoPoll} \cup (0..Finished)
  /\ events \subseteq [collections : 1..Finished, copy : {0, 1}]
  /\ todo \subseteq events
  /\ entry \in [observed_count : Nat, lost_count : Nat, lost_pause_ns : Nat, lost_from : Nat]
  /\ acc \in [first_collections : Nat, first_pause_ns : Nat, first_duration : Nat,
              last_collections : Nat, last_duration : Nat,
              sampled_count : Nat, sampled_pause_ns : Nat]
  /\ lost \in [count : Nat, pause_ns : Nat]
  /\ sampled \subseteq 1..Finished
  /\ gaps \subseteq [from : Nat, to : Nat, ts_start : {NoPoll} \cup Nat, ts_stop : Nat]

(***************************************************************************)
(* Between the first and the last record read, every run is sampled or     *)
(* lost: the two counts the statistics add up are the target's own count.  *)
(***************************************************************************)
CountAccounting ==
  pc = "idle" => acc.sampled_count + lost.count = ExactCount

(***************************************************************************)
(* Sampled plus lost pause is the delta of the target's own duration, up   *)
(* to the rounding the records between the first and last one carry.       *)
(***************************************************************************)
PauseAccounting ==
  pc = "idle" /\ ~Seeding =>
    Magnitude(acc.sampled_pause_ns + lost.pause_ns - ExactPause)
      <= runs[acc.last_collections].slack - runs[acc.first_collections].slack

(* No run is drawn as a record and named by a span, none is in two spans. *)
NoRunTwice ==
  /\ sampled \cap LostRuns = {}
  /\ \A g, h \in gaps : g # h => (g.from..g.to) \cap (h.from..h.to) = {}

(***************************************************************************)
(* Every run a loss span names finished after its left edge, the beginning *)
(* of the read before: a run that read had in reach is not left for later. *)
(* The right edge is no such bound.  It is the beginning of the read that  *)
(* found the gap, and a run that finishes and is overwritten before that   *)
(* read's copy is in the span too, where model/data.py:64 and ADR-0015     *)
(* have it end between the two.                                            *)
(***************************************************************************)
LostSinceLastRead ==
  \A g \in gaps : \A k \in g.from..g.to : g.ts_start < k

(* A span is one poll interval: intervals of two spans only touch. *)
SpansTile ==
  \A g, h \in gaps : g # h => g.ts_stop <= h.ts_start \/ h.ts_stop <= g.ts_start

(* Whatever a copy held back, gcmon never claims more runs than there were. *)
NeverOvercounts ==
  pc = "idle" => acc.sampled_count + lost.count <= ExactCount

(* A target that stops collecting is caught up with: its last run is read. *)
CatchesUp ==
  (Finished = MaxRuns) ~> (acc.last_collections = MaxRuns)

(* The reconstruction does what the ledger promises. *)
Ledger == INSTANCE GcLedger
  WITH finished <- Finished, sampled <- sampled, lost <- LostRuns,
       frontier <- acc.last_collections
LedgerSpec == Ledger!Spec
=============================================================================
