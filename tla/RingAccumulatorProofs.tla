----------------------- MODULE RingAccumulatorProofs -----------------------
(***************************************************************************)
(* RingAccumulator, proved for every ring size, every number of runs and   *)
(* every set of pauses and rounding errors, along two invariants.  IInv    *)
(* makes the accounting exact, as long as the target keeps the contract    *)
(* the code trusts it for: a copy of the ring is consecutive, and a        *)
(* finished run has a width.  AnyCopyInv needs no contract: it bounds what *)
(* is reported whatever a copy left out or tore apart.                     *)
(***************************************************************************)
EXTENDS RingAccumulator, FiniteSetTheorems, TLAPS

Contract == ~Torn /\ 0 \notin Pauses

RunRecord == [pause : Pauses, duration : Nat, slack : Nat]
Records == [collections : Nat, copy : {0, 1}]

(* S holds one record of each of the runs lo..hi, and nothing else. *)
IsBlock(S, lo, hi) ==
  /\ S \subseteq Records
  /\ \A r \in S : r.collections \in lo..hi
  /\ \A k \in lo..hi : \E r \in S : r.collections = k
  /\ \A r, q \in S : r.collections = q.collections => r = q

-----------------------------------------------------------------------------
(* The inductive invariant, in parts. *)

(* Durations and slack grow, and a record's own pause is what it adds. *)
RunsInv ==
  /\ \A i, j \in 1..Finished :
       i <= j => /\ runs[i].duration <= runs[j].duration
                 /\ runs[i].slack <= runs[j].slack
  /\ \A i, j \in 1..Finished :
       j = i + 1 => /\ runs[j].duration - runs[i].duration - runs[j].pause
                         <= runs[j].slack - runs[i].slack
                    /\ runs[j].pause - (runs[j].duration - runs[i].duration)
                         <= runs[j].slack - runs[i].slack

(* What a settled poll leaves behind. *)
BooksInv ==
  /\ Seeding => /\ acc.last_collections = 0
                /\ lost = [count |-> 0, pause_ns |-> 0]
                /\ sampled = {}
                /\ gaps = {}
  /\ ~Seeding => /\ acc.first_collections \in 1..acc.last_collections
                 /\ acc.last_collections \in 1..Finished
                 /\ acc.first_pause_ns = runs[acc.first_collections].pause
                 /\ acc.first_duration = runs[acc.first_collections].duration
                 /\ acc.last_duration = runs[acc.last_collections].duration
                 /\ acc.sampled_count + lost.count
                      = acc.last_collections - acc.first_collections + 1
                 /\ ts_last_poll # NoPoll

RunsAccounted ==
  /\ sampled \cap LostRuns = {}
  /\ ~Seeding => sampled \cup LostRuns = acc.first_collections..acc.last_collections

GapsInv ==
  /\ \A g \in gaps : /\ g.from <= g.to
                     /\ g.to <= acc.last_collections
                     /\ g.ts_stop <= ts_last_poll
                     /\ RingSize > 1 => g.ts_start < g.from
  /\ \A g, h \in gaps : g # h => /\ (g.from..g.to) \cap (h.from..h.to) = {}
                                 /\ g.ts_stop <= h.ts_start \/ h.ts_stop <= g.ts_start

(* The pause accounted up to run k, against what the target's counter says. *)
Balance(k) == acc.sampled_pause_ns + lost.pause_ns + entry.lost_pause_ns
                - (runs[k].duration - acc.first_duration + acc.first_pause_ns)
Slack(k) == runs[k].slack - runs[acc.first_collections].slack
Within(x, s) == -s <= x /\ x <= s

IdleInv ==
  pc # "folding" =>
    /\ events = {}
    /\ todo = {}
    /\ entry = NoEntry
    /\ Seeding => acc.sampled_pause_ns = 0
    /\ ~Seeding => Within(Balance(acc.last_collections), Slack(acc.last_collections))

PollInv ==
  /\ ts_last_poll <= ts_poll
  /\ RingSize > 1 => ts_last_poll <= acc.last_collections

(* The poll folds the runs lo..hi and has added the pauses before nxt. *)
Folding(lo, hi, nxt) ==
  /\ acc.last_collections < lo
  /\ lo <= hi
  /\ lo <= nxt
  /\ nxt <= hi + 1
  /\ IsBlock(events, lo, hi)
  /\ IsBlock(todo, nxt, hi)
  /\ RingSize > 1 => ts_poll <= hi
  /\ Seeding => /\ acc.first_collections = lo
                /\ acc.first_pause_ns = runs[lo].pause
                /\ acc.first_duration = runs[lo].duration
                /\ entry.lost_count = 0
                /\ entry.lost_pause_ns = 0
  /\ ~Seeding => /\ entry.lost_count = lo - acc.last_collections - 1
                 /\ entry.lost_count > 0 => entry.lost_from = acc.last_collections + 1
  /\ nxt = lo => Within(Balance(lo) + runs[lo].pause, Slack(lo))
  /\ nxt > lo => Within(Balance(nxt - 1), Slack(nxt - 1))

FoldInv ==
  pc = "folding" =>
    \E lo, hi \in 1..Finished, nxt \in 1..(Finished + 1) : Folding(lo, hi, nxt)

IInv == /\ TypeOK
        /\ RunsInv
        /\ BooksInv
        /\ RunsAccounted
        /\ GapsInv
        /\ IdleInv
        /\ PollInv
        /\ FoldInv

-----------------------------------------------------------------------------
(* Blocks of consecutive records. *)

LEMMA BlockCardinality ==
  ASSUME NEW S, NEW lo \in Nat, NEW hi \in Nat, lo <= hi, IsBlock(S, lo, hi)
  PROVE  IsFiniteSet(S) /\ Cardinality(S) = hi - lo + 1
<1> DEFINE f == [k \in lo..hi |-> CHOOSE r \in S : r.collections = k]
<1>1. \A k \in lo..hi : f[k] \in S /\ f[k].collections = k
  BY DEF IsBlock
<1>2. f \in Bijection(lo..hi, S)
  <2>1. f \in [lo..hi -> S]
    BY <1>1
  <2>2. \A j, k \in lo..hi : f[j] = f[k] => j = k
    BY <1>1
  <2>3. \A r \in S : \E k \in lo..hi : f[k] = r
    <3> SUFFICES ASSUME NEW r \in S
                 PROVE  f[r.collections] = r
      BY DEF IsBlock
    <3> QED
      BY <1>1 DEF IsBlock
  <2> QED
    BY <2>1, <2>2, <2>3 DEF Bijection, Injection, Surjection, IsInjective
<1>3. ExistsBijection(lo..hi, S)
  BY <1>2 DEF ExistsBijection
<1>4. IsFiniteSet(lo..hi) /\ Cardinality(lo..hi) = hi - lo + 1
  BY FS_Interval
<1> QED
  BY <1>3, <1>4, FS_Bijection

(* The first record of a block is the one of its lowest run. *)
LEMMA BlockFirst ==
  ASSUME NEW S, NEW lo \in Nat, NEW hi \in Nat, lo <= hi, IsBlock(S, lo, hi)
  PROVE  First(S) \in S /\ First(S).collections = lo
<1>1. PICK r \in S : r.collections = lo
  BY DEF IsBlock
<1>2. \A q \in S : r.collections <= q.collections
  BY <1>1 DEF IsBlock
<1>3. First(S) \in S /\ \A q \in S : First(S).collections <= q.collections
  BY <1>2 DEF First
<1>4. First(S).collections <= lo
  BY <1>1, <1>3
<1> QED
  BY <1>3, <1>4 DEF IsBlock, Records

(* The last record of a block is the one of its highest run. *)
LEMMA BlockLast ==
  ASSUME NEW S, NEW lo \in Nat, NEW hi \in Nat, lo <= hi, IsBlock(S, lo, hi)
  PROVE  Last(S) \in S /\ Last(S).collections = hi
<1>1. PICK r \in S : r.collections = hi
  BY DEF IsBlock
<1>2. \A q \in S : r.collections >= q.collections
  BY <1>1 DEF IsBlock
<1>3. Last(S) \in S /\ \A q \in S : Last(S).collections >= q.collections
  BY <1>2 DEF Last
<1>4. Last(S).collections >= hi
  BY <1>1, <1>3
<1> QED
  BY <1>3, <1>4 DEF IsBlock, Records

(* Without its first record a block is the block that starts one run later. *)
LEMMA BlockRest ==
  ASSUME NEW S, NEW lo \in Nat, NEW hi \in Nat, lo <= hi, IsBlock(S, lo, hi)
  PROVE  IsBlock(S \ {First(S)}, lo + 1, hi)
<1>1. First(S) \in S /\ First(S).collections = lo
  BY BlockFirst
<1>2. \A r \in S \ {First(S)} : r.collections \in (lo + 1)..hi
  BY <1>1 DEF IsBlock
<1>3. \A k \in (lo + 1)..hi : \E r \in S \ {First(S)} : r.collections = k
  <2> SUFFICES ASSUME NEW k \in (lo + 1)..hi
               PROVE  \E r \in S \ {First(S)} : r.collections = k
    OBVIOUS
  <2>1. PICK r \in S : r.collections = k
    BY DEF IsBlock
  <2> QED
    BY <2>1, <1>1
<1> QED
  BY <1>2, <1>3 DEF IsBlock

(* A block has no records where its lowest run lies past its highest. *)
LEMMA EmptyBlock ==
  ASSUME NEW S, NEW lo \in Nat, NEW hi \in Nat, IsBlock(S, lo, hi), S = {}
  PROVE  lo > hi
BY DEF IsBlock

(* The unseen records of an untorn copy are consecutive and end at the newest. *)
LEMMA CopyIsBlock ==
  ASSUME TypeOK, Contract, acc.last_collections <= Finished, NEW records \in Copies
  PROVE  LET fresh == Unseen({r \in records : IsComplete(r)}) IN
         \/ /\ fresh = {}
            /\ RingSize > 1 => Finished = acc.last_collections
         \/ \E lo, hi \in 1..Finished :
              /\ acc.last_collections < lo
              /\ lo <= hi
              /\ IsBlock(fresh, lo, hi)
              /\ RingSize > 1 => hi = Finished
<1> DEFINE n == Finished
           Shape(a, t) == {Record(k, 0) : k \in a..n}
                            \cup (IF t = 1 THEN {Record(n, 1)} ELSE {})
           complete == {r \in records : IsComplete(r)}
           fresh == Unseen(complete)
           after == acc.last_collections + 1
<1>t. /\ n \in Nat
      /\ runs \in Seq(RunRecord)
      /\ acc.last_collections \in Nat
      /\ RingSize \in Nat \ {0}
  BY RingSizeAssumption DEF TypeOK, RunRecord, Finished
<1>1. \E a \in 1..(n + 1), t \in {0, 1} :
        /\ records = Shape(a, t)
        /\ RingSize > 1 /\ n > 0 => a <= n
        /\ t = 1 => a <= n
  <2>1. records \in AtomicCopies
    BY DEF Copies, Contract
  <2> DEFINE low == IF n >= RingSize THEN n + 1 - RingSize ELSE 1
             low2 == IF n >= RingSize THEN n + 2 - RingSize ELSE 1
  <2>2. low \in 1..(n + 1) /\ low2 \in 1..(n + 1)
    BY <1>t
  <2>3. Held(n) = low..n
    BY <1>t DEF Held
  <2>4. Held(n) \ Replaced = low2..n
    BY <1>t DEF Held, Replaced
  <2>5. CASE records = {Record(k, 0) : k \in Held(n)}
    <3>1. records = Shape(low, 0)
      BY <2>5, <2>3
    <3>2. RingSize > 1 /\ n > 0 => low <= n
      BY <1>t
    <3> HIDE DEF low
    <3> QED
      BY <2>2, <3>1, <3>2
  <2>6. CASE records = {Record(k, 0) : k \in Held(n) \ Replaced}
    <3>1. records = Shape(low2, 0)
      BY <2>6, <2>4
    <3>2. RingSize > 1 /\ n > 0 => low2 <= n
      BY <1>t
    <3> HIDE DEF low2
    <3> QED
      BY <2>2, <3>1, <3>2
  <2>7. CASE /\ RingSize > 1
             /\ records = {Record(k, 0) : k \in Held(n) \ Replaced}
                            \cup {Record(k, 1) : k \in {n} \ {0}}
    <3>1. CASE n = 0
      <4>1. records = Shape(low2, 0)
        BY <3>1, <2>7, <2>4
      <4> HIDE DEF low2
      <4> QED
        BY <2>2, <4>1, <3>1
    <3>2. CASE n > 0
      <4>1. records = Shape(low2, 1)
        BY <3>2, <2>7, <2>4
      <4>2. low2 <= n
        BY <3>2, <2>7, <1>t
      <4> HIDE DEF low2
      <4> QED
        BY <2>2, <4>1, <4>2
    <3> QED
      BY <3>1, <3>2, <1>t
  <2> QED
    BY <2>1, <2>5, <2>6, <2>7 DEF AtomicCopies
<1>2. PICK a \in 1..(n + 1), t \in {0, 1} :
        /\ records = Shape(a, t)
        /\ RingSize > 1 /\ n > 0 => a <= n
        /\ t = 1 => a <= n
  BY <1>1
<1>3. complete = records
  <2>1. \A k \in 1..n : runs[k].pause \in Pauses
    <3>1. \A k \in 1..n : runs[k] \in RunRecord
      BY <1>t DEF Finished
    <3> QED
      BY <3>1 DEF RunRecord
  <2>2. \A r \in records : r.collections \in 1..n
    BY <1>2, <1>t DEF Record
  <2>3. ASSUME NEW r \in records
        PROVE  IsComplete(r)
    <3>1. runs[r.collections].pause \in Pauses
      BY <2>1, <2>2
    <3>2. \A p \in Pauses : p > 0
      <4>1. 0 \notin Pauses
        BY DEF Contract
      <4> QED
        BY <4>1, PausesAssumption
    <3>3. runs[r.collections].pause > 0
      BY <3>1, <3>2
    <3> QED
      BY <3>3 DEF IsComplete, PauseOf
  <2> QED
    BY <2>3
<1> DEFINE lo == IF a > after THEN a ELSE after
           Pick(k) == Record(k, IF t = 1 /\ k = n THEN 1 ELSE 0)
<1>4. fresh = {Pick(k) : k \in lo..n}
  <2>1. ASSUME NEW r \in fresh
        PROVE  r \in {Pick(k) : k \in lo..n}
    <3>1. r \in records /\ r.collections > acc.last_collections
      BY <1>3 DEF Unseen
    <3>2. r.collections \in lo..n /\ r.collections \in a..n
      BY <3>1, <1>2, <1>t DEF Record
    <3>3. t = 1 /\ r.collections = n => r.copy = 1
      <4> SUFFICES ASSUME t = 1, r.collections = n
                   PROVE  r.copy = 1
        OBVIOUS
      <4>1. Record(n, 1) \in complete
        BY <1>2, <1>3
      <4>2. Record(n, 1).copy <= r.copy
        BY <4>1 DEF Unseen, Record
      <4> QED
        BY <4>2, <3>1, <1>2 DEF Record
    <3>4. ~(t = 1 /\ r.collections = n) => r.copy = 0
      BY <3>1, <1>2 DEF Record
    <3>5. r = Record(r.collections, r.copy)
      BY <3>1, <1>2 DEF Record
    <3>6. r = Pick(r.collections)
      BY <3>3, <3>4, <3>5
    <3> QED
      BY <3>2, <3>6
  <2>2. ASSUME NEW k \in lo..n
        PROVE  Pick(k) \in fresh
    <3>1. Pick(k) \in records
      BY <1>2, <1>t DEF Record
    <3>2. Pick(k).collections > acc.last_collections
      BY <1>t DEF Record
    <3>3. \A q \in records : q.collections = k => q.copy <= Pick(k).copy
      BY <1>2, <1>t DEF Record
    <3> QED
      BY <3>1, <3>2, <3>3, <1>3 DEF Unseen, Record
  <2> QED
    BY <2>1, <2>2
<1>5. CASE lo <= n
  <2>1. IsBlock(fresh, lo, n)
    <3>1. \A k \in lo..n : Pick(k) \in Records /\ Pick(k).collections = k
      BY <1>t DEF Records, Record
    <3> HIDE DEF Pick, fresh
    <3> QED
      BY <1>4, <3>1, <1>t DEF IsBlock
  <2>2. lo \in 1..n /\ n \in 1..n /\ acc.last_collections < lo
    BY <1>5, <1>t
  <2> HIDE DEF lo
  <2> QED
    BY <2>1, <2>2, <1>5
<1>6. CASE lo > n
  <2>1. fresh = {}
    BY <1>4, <1>6, <1>t
  <2>2. RingSize > 1 => n = acc.last_collections
    BY <1>6, <1>2, <1>t
  <2> QED
    BY <2>1, <2>2
<1> QED
  BY <1>5, <1>6, <1>t

-----------------------------------------------------------------------------
(* The steps keep the types. *)

(* The fields and values the arithmetic below is about are numbers. *)
LEMMA Numbers ==
  ASSUME TypeOK
  PROVE  /\ Finished \in Nat
         /\ \A k \in 1..Finished : /\ runs[k].pause \in Nat
                                   /\ runs[k].duration \in Nat
                                   /\ runs[k].slack \in Nat
         /\ acc.first_collections \in Nat /\ acc.first_pause_ns \in Nat
         /\ acc.first_duration \in Nat /\ acc.last_collections \in Nat
         /\ acc.last_duration \in Nat /\ acc.sampled_count \in Nat
         /\ acc.sampled_pause_ns \in Nat
         /\ entry.lost_count \in Nat /\ entry.lost_pause_ns \in Nat
         /\ entry.lost_from \in Nat /\ entry.observed_count \in Nat
         /\ lost.count \in Nat /\ lost.pause_ns \in Nat
         /\ ts_poll \in Nat /\ ts_last_poll \in Int
<1>1. Finished \in Nat
  BY DEF TypeOK, Finished
<1>2. \A k \in 1..Finished : runs[k] \in RunRecord
  <2>1. runs \in Seq(RunRecord)
    BY DEF TypeOK, RunRecord
  <2> QED
    BY <2>1 DEF Finished
<1>3. \A k \in 1..Finished : /\ runs[k].pause \in Nat
                             /\ runs[k].duration \in Nat
                             /\ runs[k].slack \in Nat
  BY <1>2, PausesAssumption DEF RunRecord
<1>4. /\ acc.first_collections \in Nat /\ acc.first_pause_ns \in Nat
      /\ acc.first_duration \in Nat /\ acc.last_collections \in Nat
      /\ acc.last_duration \in Nat /\ acc.sampled_count \in Nat
      /\ acc.sampled_pause_ns \in Nat
  BY DEF TypeOK
<1>5. /\ entry.lost_count \in Nat /\ entry.lost_pause_ns \in Nat
      /\ entry.lost_from \in Nat /\ entry.observed_count \in Nat
      /\ lost.count \in Nat /\ lost.pause_ns \in Nat
  BY DEF TypeOK
<1>6. ts_poll \in Nat /\ ts_last_poll \in Int
  BY <1>1 DEF TypeOK, NoPoll
<1> QED
  BY <1>1, <1>3, <1>4, <1>5, <1>6

(* A record that is begun leaves the types as they are. *)
LEMMA BeginWriteTypes == TypeOK /\ BeginWrite => TypeOK'
BY DEF TypeOK, BeginWrite, polling, books, Finished

(* A finished run is one more run, typed as the others. *)
LEMMA FinishWriteTypes == TypeOK /\ FinishWrite => TypeOK' /\ Finished' = Finished + 1
<1> SUFFICES ASSUME TypeOK, FinishWrite PROVE TypeOK' /\ Finished' = Finished + 1
  OBVIOUS
<1>0. PICK pause \in Pauses, rounding \in Roundings :
        /\ pause + rounding >= 0
        /\ runs' = Append(runs, [pause |-> pause,
                                 duration |-> LastDuration + pause + rounding,
                                 slack |-> LastSlack + Magnitude(rounding)])
  BY DEF FinishWrite
<1> DEFINE n == Len(runs)
           new == [pause |-> pause, duration |-> LastDuration + pause + rounding,
                   slack |-> LastSlack + Magnitude(rounding)]
<1>1. /\ runs \in Seq(RunRecord)
      /\ n \in Nat
      /\ pause \in Nat
      /\ rounding \in Int
  BY PausesAssumption, RoundingsAssumption DEF TypeOK, RunRecord
<1>2. LastDuration \in Nat /\ LastSlack \in Nat
  <2>1. \A k \in 1..n : runs[k] \in RunRecord
    BY <1>1
  <2>2. runs # <<>> => n \in 1..n
    BY <1>1
  <2> QED
    BY <2>1, <2>2 DEF LastDuration, LastSlack, Finished, RunRecord
<1>3. Magnitude(rounding) \in Nat
  BY <1>1 DEF Magnitude
<1>4. new \in RunRecord
  BY <1>0, <1>1, <1>2, <1>3 DEF RunRecord
<1>5. runs' \in Seq(RunRecord) /\ Len(runs') = n + 1
  BY <1>0, <1>1, <1>4
<1> HIDE DEF n, new
<1>6. Finished = n /\ Finished' = n + 1
  BY <1>5 DEF Finished, n
<1>u. UNCHANGED <<polling, books>>
  BY DEF FinishWrite
<1>7. 0..n \subseteq 0..(n + 1) /\ 1..n \subseteq 1..(n + 1)
  BY <1>1
<1>8. TypeOK'
  <2>1. (ts_last_poll \in {NoPoll} \cup (0..Finished))'
    <3>1. ts_last_poll \in {NoPoll} \cup (0..n) /\ ts_last_poll' = ts_last_poll
      BY <1>6, <1>u DEF TypeOK, polling
    <3> QED
      BY <3>1, <1>6, <1>7
  <2>2. (events \subseteq [collections : 1..Finished, copy : {0, 1}])'
    <3>1. events \subseteq [collections : 1..n, copy : {0, 1}] /\ events' = events
      BY <1>6, <1>u DEF TypeOK, polling
    <3> QED
      BY <3>1, <1>6, <1>7
  <2>3. (sampled \subseteq 1..Finished)'
    BY <1>6, <1>7, <1>u DEF TypeOK, books
  <2>4. (ts_poll \in 0..Finished)'
    BY <1>6, <1>7, <1>u DEF TypeOK, polling
  <2> QED
    BY <2>1, <2>2, <2>3, <2>4, <1>5, <1>u DEF TypeOK, polling, books, FinishWrite, RunRecord
<1> QED
  BY <1>6, <1>8

(* The target only adds runs. *)
LEMMA TargetOnlyAdds == TypeOK /\ Target => Finished' \in Nat /\ Finished' >= Finished
BY Numbers, FinishWriteTypes DEF Target, BeginWrite, Finished

(* A read begins at an instant the target has reached. *)
LEMMA StartReadTypes == TypeOK /\ StartRead => TypeOK'
<1> SUFFICES ASSUME TypeOK, StartRead PROVE TypeOK'
  OBVIOUS
<1>2. /\ UNCHANGED <<runs, writing, ts_last_poll, events, todo, entry, acc, lost, sampled, gaps>>
      /\ pc' = "reading"
      /\ ts_poll' = Len(runs)
  BY DEF StartRead, target, books, Finished
<1>3. ts_poll' \in 0..Finished'
  <2>1. Len(runs) \in Nat
    BY DEF TypeOK
  <2> QED
    BY <2>1, <1>2 DEF Finished
<1>4. (ts_last_poll \in {NoPoll} \cup (0..Finished))' /\ (sampled \subseteq 1..Finished)'
  BY <1>2 DEF TypeOK, Finished
<1>5. (events \subseteq [collections : 1..Finished, copy : {0, 1}])' /\ (todo \subseteq events)'
  BY <1>2 DEF TypeOK, Finished
<1>6. (runs \in Seq([pause : Pauses, duration : Nat, slack : Nat]))'
  BY <1>2 DEF TypeOK
<1> QED
  BY <1>2, <1>3, <1>4, <1>5, <1>6 DEF TypeOK
-----------------------------------------------------------------------------
(* The invariant holds initially and every action keeps it. *)

LEMMA InitIInv == Init => IInv
<1> SUFFICES ASSUME Init PROVE IInv
  OBVIOUS
<1>2. Finished = 0
  BY DEF Init, Finished
<1>1. TypeOK
  <2>1. runs \in Seq([pause : Pauses, duration : Nat, slack : Nat])
    BY DEF Init
  <2>2. acc \in [first_collections : Nat, first_pause_ns : Nat, first_duration : Nat,
                 last_collections : Nat, last_duration : Nat,
                 sampled_count : Nat, sampled_pause_ns : Nat]
    BY DEF Init, NoRecords
  <2>3. entry \in [observed_count : Nat, lost_count : Nat, lost_pause_ns : Nat, lost_from : Nat]
    BY DEF Init, NoEntry
  <2>4. lost \in [count : Nat, pause_ns : Nat]
    BY DEF Init
  <2>5. /\ ts_poll \in 0..Finished
        /\ ts_last_poll \in {NoPoll} \cup (0..Finished)
        /\ events \subseteq [collections : 1..Finished, copy : {0, 1}]
        /\ todo \subseteq events
        /\ sampled \subseteq 1..Finished
        /\ gaps \subseteq [from : Nat, to : Nat, ts_start : {NoPoll} \cup Nat, ts_stop : Nat]
    BY <1>2 DEF Init
  <2>6. writing \in BOOLEAN /\ pc \in {"idle", "reading", "folding"}
    BY DEF Init
  <2> QED
    BY <2>1, <2>2, <2>3, <2>4, <2>5, <2>6 DEF TypeOK
<1>3. RunsInv /\ IdleInv /\ FoldInv
  BY <1>2 DEF Init, RunsInv, IdleInv, FoldInv, Seeding, NoRecords
<1>4. BooksInv /\ RunsAccounted /\ GapsInv /\ PollInv
  BY DEF Init, BooksInv, RunsAccounted, GapsInv, PollInv, Seeding, NoRecords, NoPoll, LostRuns
<1> QED
  BY <1>1, <1>3, <1>4 DEF IInv

(* A record that is begun changes nothing gcmon relies on. *)
LEMMA BeginWriteIInv == IInv /\ BeginWrite => IInv'
<1> SUFFICES ASSUME IInv, BeginWrite PROVE IInv'
  OBVIOUS
<1> USE DEF BeginWrite, polling, books, Finished
<1>1. TypeOK' /\ PollInv'
  BY BeginWriteTypes DEF IInv, PollInv
<1>2. RunsInv' /\ BooksInv' /\ RunsAccounted' /\ GapsInv'
  BY DEF IInv, RunsInv, BooksInv, RunsAccounted, GapsInv, Seeding, LostRuns
<1>3. IdleInv'
  BY DEF IInv, IdleInv, Seeding, Balance, Slack, Within, NoEntry
<1>4. FoldInv'
  BY DEF IInv, FoldInv, Folding, Seeding, Balance, Slack, Within
<1> QED
  BY <1>1, <1>2, <1>3, <1>4 DEF IInv

(* A read begins no earlier than the last record gcmon settled. *)
LEMMA StartReadIInv == IInv /\ StartRead => IInv'
<1> SUFFICES ASSUME IInv, StartRead PROVE IInv'
  OBVIOUS
<1>1. TypeOK'
  BY StartReadTypes DEF IInv
<1> USE DEF StartRead, target, books, Finished
<1>2. RunsInv' /\ BooksInv' /\ RunsAccounted' /\ GapsInv'
  BY DEF IInv, RunsInv, BooksInv, RunsAccounted, GapsInv, Seeding, LostRuns
<1>3. IdleInv'
  BY DEF IInv, IdleInv, Seeding, Balance, Slack, Within, NoEntry
<1>4. PollInv'
  BY DEF IInv, PollInv, TypeOK, NoPoll
<1>5. FoldInv'
  BY DEF FoldInv
<1> QED
  BY <1>1, <1>2, <1>3, <1>4, <1>5 DEF IInv

(***************************************************************************)
(* A finished run only extends runs; what the other parts say of earlier   *)
(* runs they say of the same values.                                       *)
(***************************************************************************)
LEMMA FinishWriteIInv == IInv /\ FinishWrite => IInv'
<1> SUFFICES ASSUME IInv, FinishWrite PROVE IInv'
  OBVIOUS
<1>0. PICK pause \in Pauses, rounding \in Roundings :
        /\ pause + rounding >= 0
        /\ runs' = Append(runs, [pause |-> pause,
                                 duration |-> LastDuration + pause + rounding,
                                 slack |-> LastSlack + Magnitude(rounding)])
  BY DEF FinishWrite
<1> DEFINE n == Len(runs)
           new == [pause |-> pause, duration |-> LastDuration + pause + rounding,
                   slack |-> LastSlack + Magnitude(rounding)]
<1>1. /\ runs \in Seq(RunRecord)
      /\ n \in Nat
      /\ pause \in Nat
      /\ rounding \in Int
  BY PausesAssumption, RoundingsAssumption DEF IInv, TypeOK, RunRecord
<1>2. \A k \in 1..n : /\ runs[k] \in RunRecord
                      /\ runs[k].pause \in Nat
                      /\ runs[k].duration \in Nat
                      /\ runs[k].slack \in Nat
  <2>1. \A k \in 1..n : runs[k] \in RunRecord
    BY <1>1
  <2> QED
    BY <2>1, PausesAssumption DEF RunRecord
<1>3. LastDuration \in Nat /\ LastSlack \in Nat
  BY <1>1, <1>2 DEF LastDuration, LastSlack, Finished
<1>4. Magnitude(rounding) \in Nat /\ -Magnitude(rounding) <= rounding /\ rounding <= Magnitude(rounding)
  BY <1>1 DEF Magnitude
<1>5. new \in RunRecord
  BY <1>0, <1>1, <1>3, <1>4 DEF RunRecord
<1>6. /\ runs' \in Seq(RunRecord)
      /\ Len(runs') = n + 1
      /\ \A k \in 1..n : runs'[k] = runs[k]
      /\ runs'[n + 1] = new
  BY <1>0, <1>1, <1>5
<1> HIDE DEF n, new
<1>7. Finished = n /\ Finished' = n + 1
  BY <1>6 DEF Finished, n
<1>u. UNCHANGED <<polling, books>>
  BY DEF FinishWrite
<1>8. TypeOK'
  BY FinishWriteTypes DEF IInv
<1>9. RunsInv'
  <2>1. \A k \in 1..n : runs[k].duration <= LastDuration /\ runs[k].slack <= LastSlack
    BY <1>1, <1>7, <1>2 DEF IInv, RunsInv, LastDuration, LastSlack, Finished
  <2>2. new.duration >= LastDuration /\ new.slack >= LastSlack
    BY <1>0, <1>1, <1>3, <1>4 DEF new
  <2>3. \A i, j \in 1..(n + 1) : i <= j =>
          runs'[i].duration <= runs'[j].duration /\ runs'[i].slack <= runs'[j].slack
    <3> SUFFICES ASSUME NEW i \in 1..(n + 1), NEW j \in 1..(n + 1), i <= j
                 PROVE  runs'[i].duration <= runs'[j].duration /\ runs'[i].slack <= runs'[j].slack
      OBVIOUS
    <3>1. CASE j <= n
      BY <3>1, <1>1, <1>6, <1>7 DEF IInv, RunsInv
    <3>2. CASE j = n + 1 /\ i <= n
      <4>1. runs[i].duration \in Nat /\ runs[i].slack \in Nat
        BY <3>2, <1>1, <1>2
      <4>2. runs'[i] = runs[i] /\ runs'[j] = new
        BY <3>2, <1>1, <1>6
      <4>3. new.duration \in Nat /\ new.slack \in Nat
        BY <1>5 DEF RunRecord
      <4>4. runs[i].duration <= LastDuration /\ runs[i].slack <= LastSlack
        BY <3>2, <1>1, <2>1
      <4> QED
        BY <4>1, <4>2, <4>3, <4>4, <1>3, <2>2
    <3>3. CASE j = n + 1 /\ i = n + 1
      BY <3>3, <1>5, <1>6 DEF RunRecord
    <3> QED
      BY <3>1, <3>2, <3>3, <1>1
  <2>4. \A i, j \in 1..(n + 1) : j = i + 1 =>
          /\ runs'[j].duration - runs'[i].duration - runs'[j].pause <= runs'[j].slack - runs'[i].slack
          /\ runs'[j].pause - (runs'[j].duration - runs'[i].duration) <= runs'[j].slack - runs'[i].slack
    <3> SUFFICES ASSUME NEW i \in 1..(n + 1), NEW j \in 1..(n + 1), j = i + 1
                 PROVE  /\ runs'[j].duration - runs'[i].duration - runs'[j].pause
                             <= runs'[j].slack - runs'[i].slack
                        /\ runs'[j].pause - (runs'[j].duration - runs'[i].duration)
                             <= runs'[j].slack - runs'[i].slack
      OBVIOUS
    <3>1. CASE j <= n
      <4>1. i \in 1..n /\ j \in 1..n /\ runs'[i] = runs[i] /\ runs'[j] = runs[j]
        BY <3>1, <1>1, <1>6
      <4>2. /\ runs[j].duration - runs[i].duration - runs[j].pause <= runs[j].slack - runs[i].slack
            /\ runs[j].pause - (runs[j].duration - runs[i].duration) <= runs[j].slack - runs[i].slack
        BY <4>1, <1>7 DEF IInv, RunsInv
      <4> QED
        BY <4>1, <4>2
    <3>2. CASE j = n + 1
      <4>1. i = n /\ runs # <<>>
        BY <3>2, <1>1 DEF n
      <4>2. runs'[i].duration = LastDuration /\ runs'[i].slack = LastSlack
        BY <4>1, <1>6, <1>1 DEF LastDuration, LastSlack, Finished, n
      <4>3. runs'[j] = new
        BY <3>2, <1>6
      <4> QED
        BY <4>2, <4>3, <1>1, <1>3, <1>4 DEF new
    <3> QED
      BY <3>1, <3>2, <1>1
  <2> QED
    BY <2>3, <2>4, <1>7 DEF RunsInv
<1>10. BooksInv' /\ RunsAccounted' /\ GapsInv' /\ PollInv'
  <2>1. BooksInv'
    <3>1. CASE Seeding
      BY <3>1, <1>u DEF IInv, BooksInv, Seeding, polling, books
    <3>2. CASE ~Seeding
      <4>1. acc.first_collections \in 1..n /\ acc.last_collections \in 1..n
        BY <3>2, <1>1, <1>7 DEF IInv, BooksInv
      <4>2. /\ runs'[acc.first_collections] = runs[acc.first_collections]
            /\ runs'[acc.last_collections] = runs[acc.last_collections]
        BY <4>1, <1>6
      <4>3. acc.last_collections \in 1..Finished'
        BY <4>1, <1>1, <1>7
      <4> QED
        BY <3>2, <4>2, <4>3, <1>u DEF IInv, BooksInv, Seeding, polling, books
    <3> QED
      BY <3>1, <3>2
  <2> QED
    BY <2>1, <1>u DEF IInv, RunsAccounted, GapsInv, PollInv, Seeding, LostRuns, polling, books
<1>11. IdleInv'
  <2>1. CASE ~Seeding
    <3>1. acc.first_collections \in 1..n /\ acc.last_collections \in 1..n
      BY <2>1, <1>1, <1>7 DEF IInv, BooksInv
    <3>2. /\ runs'[acc.first_collections] = runs[acc.first_collections]
          /\ runs'[acc.last_collections] = runs[acc.last_collections]
      BY <3>1, <1>6
    <3> QED
      BY <2>1, <3>2, <1>u DEF IInv, IdleInv, Seeding, Balance, Slack, Within, polling, books, NoEntry
  <2>2. CASE Seeding
    BY <2>2, <1>u DEF IInv, IdleInv, Seeding, polling, books, NoEntry
  <2> QED
    BY <2>1, <2>2
<1>12. FoldInv'
  <2> SUFFICES ASSUME pc = "folding" PROVE FoldInv'
    BY <1>u DEF FoldInv, polling
  <2>1. PICK lo, hi \in 1..Finished, nxt \in 1..(Finished + 1) : Folding(lo, hi, nxt)
    BY DEF IInv, FoldInv
  <2>2. acc.first_collections \in 1..n
    BY <2>1, <1>7, <1>1 DEF IInv, BooksInv, Folding
  <2>3. /\ runs'[acc.first_collections] = runs[acc.first_collections]
        /\ runs'[lo] = runs[lo]
        /\ nxt > lo => runs'[nxt - 1] = runs[nxt - 1]
    BY <2>1, <2>2, <1>6, <1>7, <1>1 DEF Folding
  <2>4. /\ Balance(lo)' = Balance(lo)
        /\ Slack(lo)' = Slack(lo)
        /\ nxt > lo => Balance(nxt - 1)' = Balance(nxt - 1) /\ Slack(nxt - 1)' = Slack(nxt - 1)
    BY <2>3, <1>u DEF Balance, Slack, polling, books
  <2>5. lo \in 1..Finished' /\ hi \in 1..Finished' /\ nxt \in 1..(Finished' + 1)
    BY <2>1, <1>7, <1>1
  <2>6. Folding(lo, hi, nxt)'
    BY <2>1, <2>3, <2>4, <1>u DEF Folding, Seeding, polling, books
  <2> QED
    BY <2>5, <2>6 DEF FoldInv
<1> QED
  BY <1>8, <1>9, <1>10, <1>11, <1>12 DEF IInv

(* A copy opens a block that starts past the cursor, and a gap up to it. *)
LEMMA CopyIInv == Contract /\ IInv /\ Copy => IInv'
<1> SUFFICES ASSUME Contract, IInv, Copy PROVE IInv'
  OBVIOUS
<1> USE DEF target
<1>n. TypeOK
  BY DEF IInv
<1> USE <1>n, Numbers
<1>1. acc.last_collections <= Finished
  BY DEF IInv, BooksInv
<1>2. PICK records \in Copies :
       LET fresh == Unseen({r \in records : IsComplete(r)})
           first == First(fresh)
       IN  IF fresh = {}
           THEN /\ pc' = "idle"
                /\ ts_last_poll' = ts_poll
                /\ UNCHANGED <<events, todo, entry, acc>>
           ELSE /\ pc' = "folding"
                /\ UNCHANGED ts_last_poll
                /\ events' = fresh
                /\ todo' = fresh
                /\ IF Seeding
                   THEN /\ acc' = [acc EXCEPT !.first_collections = first.collections,
                                              !.first_pause_ns = PauseOf(first),
                                              !.first_duration = DurationOf(first)]
                        /\ entry' = [NoEntry EXCEPT !.observed_count = Cardinality(fresh)]
                   ELSE /\ acc' = acc
                        /\ entry' = GenLoss(first, Cardinality(fresh))
  BY DEF Copy
<1> DEFINE fresh == Unseen({r \in records : IsComplete(r)})
           first == First(fresh)
<1>u. /\ pc = "reading"
      /\ UNCHANGED <<runs, writing, ts_poll, lost, sampled, gaps>>
      /\ Finished' = Finished
  BY DEF Copy, Finished
<1>3. \/ /\ fresh = {}
         /\ RingSize > 1 => Finished = acc.last_collections
      \/ \E lo, hi \in 1..Finished :
           /\ acc.last_collections < lo
           /\ lo <= hi
           /\ IsBlock(fresh, lo, hi)
           /\ RingSize > 1 => hi = Finished
  BY <1>1, CopyIsBlock
<1> HIDE DEF fresh
<1>4. CASE fresh = {} /\ (RingSize > 1 => Finished = acc.last_collections)
  <2>1. /\ pc' = "idle"
        /\ ts_last_poll' = ts_poll
        /\ UNCHANGED <<events, todo, entry, acc>>
    BY <1>2, <1>4 DEF fresh
  <2>2. TypeOK'
    BY <2>1, <1>u DEF TypeOK
  <2>3. RunsInv' /\ RunsAccounted'
    BY <2>1, <1>u DEF IInv, RunsInv, RunsAccounted, Seeding, LostRuns
  <2>4. BooksInv'
    BY <2>1, <1>u DEF IInv, BooksInv, Seeding, NoPoll
  <2>5. GapsInv'
    <3>1. ts_last_poll <= ts_poll
      BY DEF IInv, PollInv
    <3>2. \A g \in gaps : g.ts_stop \in Nat
      BY DEF TypeOK
    <3> QED
      BY <3>1, <3>2, <2>1, <1>u DEF IInv, GapsInv
  <2>6. IdleInv'
    BY <2>1, <1>u DEF IInv, IdleInv, Seeding, Balance, Slack, Within, NoEntry
  <2>7. PollInv'
    <3>1. ts_poll <= Finished
      BY DEF TypeOK
    <3> QED
      BY <3>1, <1>4, <2>1, <1>u DEF PollInv
  <2>8. FoldInv'
    BY <2>1 DEF FoldInv
  <2> QED
    BY <2>2, <2>3, <2>4, <2>5, <2>6, <2>7, <2>8 DEF IInv
<1>5. ASSUME NEW lo \in 1..Finished, NEW hi \in 1..Finished,
             acc.last_collections < lo,
             lo <= hi,
             IsBlock(fresh, lo, hi),
             RingSize > 1 => hi = Finished
      PROVE  IInv'
  <2>0. fresh # {} /\ lo \in Nat /\ hi \in Nat
    <3>1. lo \in Nat /\ hi \in Nat
      BY <1>5
    <3> QED
      BY <3>1, <1>5, EmptyBlock
  <2>1. first \in fresh /\ first.collections = lo
    BY <1>5, <2>0, BlockFirst
  <2>6. Cardinality(fresh) \in Nat
    <3>1. Cardinality(fresh) = hi - lo + 1
      BY <1>5, <2>0, BlockCardinality
    <3> QED
      BY <3>1, <1>5, <2>0
  <2>2. /\ pc' = "folding"
        /\ UNCHANGED ts_last_poll
        /\ events' = fresh
        /\ todo' = fresh
    BY <1>2, <2>0 DEF fresh
  <2> DEFINE Goal == /\ acc' \in [first_collections : Nat, first_pause_ns : Nat,
                            first_duration : Nat, last_collections : Nat, last_duration : Nat,
                            sampled_count : Nat, sampled_pause_ns : Nat]
                     /\ entry' \in [observed_count : Nat, lost_count : Nat,
                                    lost_pause_ns : Nat, lost_from : Nat]
                     /\ BooksInv' /\ GapsInv' /\ RunsAccounted' /\ PollInv'
                     /\ Folding(lo, hi, lo)'
  <2>5. SUFFICES Goal
    <3>1. SUFFICES ASSUME Goal PROVE IInv'
      OBVIOUS
    <3>2. TypeOK'
      <4>1. (events \subseteq [collections : 1..Finished, copy : {0, 1}])'
        BY <1>5, <2>2, <2>0, <1>u DEF IsBlock, Records
      <4> QED
        BY <4>1, <3>1, <2>2, <1>u DEF TypeOK
    <3>3. RunsInv' /\ IdleInv'
      BY <2>2, <1>u DEF IInv, RunsInv, IdleInv
    <3>4. FoldInv'
      BY <3>1, <1>u, <1>5, <2>0 DEF FoldInv
    <3> QED
      BY <3>1, <3>2, <3>3, <3>4 DEF IInv
  <2>3. CASE Seeding
    <3>1. /\ acc' = [acc EXCEPT !.first_collections = lo,
                                !.first_pause_ns = runs[lo].pause,
                                !.first_duration = runs[lo].duration]
          /\ entry' = [NoEntry EXCEPT !.observed_count = Cardinality(fresh)]
      BY <1>2, <2>0, <2>1, <2>3 DEF fresh, PauseOf, DurationOf
    <3>2. /\ entry'.lost_count = 0 /\ entry'.lost_pause_ns = 0
          /\ entry'.lost_from = 0 /\ entry'.observed_count = Cardinality(fresh)
          /\ entry' \in [observed_count : {Cardinality(fresh)}, lost_count : {0},
                         lost_pause_ns : {0}, lost_from : {0}]
      BY <3>1 DEF NoEntry
    <3>3. /\ acc'.first_collections = lo
          /\ acc'.first_pause_ns = runs[lo].pause
          /\ acc'.first_duration = runs[lo].duration
          /\ acc'.last_collections = acc.last_collections
          /\ acc'.last_duration = acc.last_duration
          /\ acc'.sampled_count = acc.sampled_count
          /\ acc'.sampled_pause_ns = acc.sampled_pause_ns
      BY <3>1 DEF TypeOK
    <3>4. Seeding'
      BY <3>3, <2>3 DEF Seeding
    <3>5. /\ acc' \in [first_collections : Nat, first_pause_ns : Nat, first_duration : Nat,
                       last_collections : Nat, last_duration : Nat,
                       sampled_count : Nat, sampled_pause_ns : Nat]
          /\ entry' \in [observed_count : Nat, lost_count : Nat,
                         lost_pause_ns : Nat, lost_from : Nat]
      <4>1. runs[lo].pause \in Nat /\ runs[lo].duration \in Nat
        OBVIOUS
      <4>2. acc \in [first_collections : Nat, first_pause_ns : Nat, first_duration : Nat,
                      last_collections : Nat, last_duration : Nat,
                      sampled_count : Nat, sampled_pause_ns : Nat]
        BY DEF TypeOK
      <4>3. acc' \in [first_collections : Nat, first_pause_ns : Nat, first_duration : Nat,
                       last_collections : Nat, last_duration : Nat,
                       sampled_count : Nat, sampled_pause_ns : Nat]
        BY <4>1, <4>2, <3>1, <2>0
      <4>4. entry' \in [observed_count : Nat, lost_count : Nat,
                         lost_pause_ns : Nat, lost_from : Nat]
        BY <3>2, <2>6
      <4> QED
        BY <4>3, <4>4
    <3>6. BooksInv' /\ GapsInv' /\ RunsAccounted' /\ PollInv'
      BY <3>3, <3>4, <2>3, <2>2, <1>u
         DEF IInv, BooksInv, GapsInv, RunsAccounted, PollInv, LostRuns
    <3>7. Folding(lo, hi, lo)'
      <4>1. acc.sampled_pause_ns = 0 /\ lost.pause_ns = 0
        BY <1>u, <2>3 DEF IInv, IdleInv, BooksInv
      <4>2. (Balance(lo) + runs[lo].pause)' = 0 /\ Slack(lo)' = 0
        <5>1. Balance(lo)' = 0 + 0 + 0 - (runs[lo].duration - runs[lo].duration + runs[lo].pause)
          BY <4>1, <3>2, <3>3, <1>u DEF Balance
        <5>2. Slack(lo)' = runs[lo].slack - runs[lo].slack
          BY <3>3, <1>u DEF Slack
        <5> QED
          BY <5>1, <5>2, <1>u
      <4>3. RingSize > 1 => ts_poll <= hi
        BY <1>5 DEF TypeOK
      <4> QED
        BY <4>2, <4>3, <3>2, <3>3, <3>4, <2>2, <1>5, <1>u DEF Folding, Within
    <3> QED
      BY <3>5, <3>6, <3>7, <2>2
  <2>4. CASE ~Seeding
    <3> DEFINE missing == lo - (acc.last_collections + 1)
               left_over == runs[lo].duration - acc.last_duration - runs[lo].pause
    <3>1. acc' = acc /\ entry' = GenLoss(first, Cardinality(fresh))
      BY <1>2, <2>0, <2>4 DEF fresh
    <3>2. missing \in Nat /\ left_over \in Int
      BY <1>5, <2>0
    <3>3. /\ entry' \in [observed_count : Nat, lost_count : Nat,
                          lost_pause_ns : Nat, lost_from : Nat]
          /\ entry'.lost_count = missing
          /\ missing > 0 => entry'.lost_from = acc.last_collections + 1
          /\ missing = 0 => entry'.lost_pause_ns = 0
          /\ missing > 0 /\ left_over > 0 => entry'.lost_pause_ns = left_over
          /\ missing > 0 /\ left_over <= 0 => entry'.lost_pause_ns = 0
      BY <3>1, <3>2, <2>1, <2>6 DEF GenLoss, NoEntry, PauseOf, DurationOf
    <3>4. ~Seeding' /\ acc' \in [first_collections : Nat, first_pause_ns : Nat,
                       first_duration : Nat, last_collections : Nat, last_duration : Nat,
                       sampled_count : Nat, sampled_pause_ns : Nat]
      BY <3>1, <2>4 DEF Seeding, TypeOK
    <3>6. BooksInv' /\ GapsInv' /\ RunsAccounted' /\ PollInv'
      BY <3>1, <2>4, <2>2, <1>u
         DEF IInv, BooksInv, GapsInv, RunsAccounted, PollInv, Seeding, LostRuns
    <3>7. Folding(lo, hi, lo)'
      <4> DEFINE f == acc.first_collections
                 l == acc.last_collections
                 bal == acc.sampled_pause_ns + lost.pause_ns
                          - (runs[l].duration - acc.first_duration + acc.first_pause_ns)
                 bal1 == acc.sampled_pause_ns + lost.pause_ns + entry'.lost_pause_ns
                          - (runs[lo].duration - acc.first_duration + acc.first_pause_ns)
                          + runs[lo].pause
      <4>1. /\ f \in 1..l /\ l \in 1..Finished /\ f \in 1..Finished
            /\ acc.last_duration = runs[l].duration
        BY <2>4 DEF IInv, BooksInv
      <4>2. Within(bal, runs[l].slack - runs[f].slack)
        <5>1. entry.lost_pause_ns = 0
          BY <1>u DEF IInv, IdleInv, NoEntry
        <5>2. Within(Balance(l), Slack(l))
          BY <1>u, <2>4 DEF IInv, IdleInv
        <5>3. Balance(l) = bal
          BY <5>1, <4>1 DEF Balance
        <5>4. Slack(l) = runs[l].slack - runs[f].slack
          BY DEF Slack
        <5> QED
          BY <5>2, <5>3, <5>4
      <4>3. /\ runs[l].slack <= runs[lo].slack
            /\ runs[l].duration <= runs[lo].duration
        BY <4>1, <1>5 DEF IInv, RunsInv
      <4>4. (lo - 1) \in 1..Finished /\ l <= lo - 1
        BY <4>1, <1>5
      <4>5. /\ runs[l].slack <= runs[lo - 1].slack
            /\ runs[l].duration <= runs[lo - 1].duration
            /\ runs[lo].duration - runs[lo - 1].duration - runs[lo].pause
                 <= runs[lo].slack - runs[lo - 1].slack
            /\ runs[lo].pause - (runs[lo].duration - runs[lo - 1].duration)
                 <= runs[lo].slack - runs[lo - 1].slack
        BY <4>1, <4>4, <1>5 DEF IInv, RunsInv
      <4>6. Within(bal1, runs[lo].slack - runs[f].slack)
        <5>1. CASE missing = 0
          <6>1. lo - 1 = l
            BY <5>1, <4>1
          <6> QED
            BY <6>1, <5>1, <3>3, <4>1, <4>2, <4>5 DEF Within
        <5>2. CASE missing > 0 /\ left_over > 0
          <6>1. bal1 = bal
            BY <5>2, <3>3, <4>1
          <6> QED
            BY <6>1, <4>1, <4>2, <4>3 DEF Within
        <5>3. CASE missing > 0 /\ left_over <= 0
          <6>1. bal1 = bal - left_over
            BY <5>3, <3>3, <4>1
          <6>2. -left_over <= runs[lo].slack - runs[l].slack
            BY <4>1, <4>4, <4>5
          <6> HIDE DEF left_over
          <6> QED
            BY <6>1, <6>2, <5>3, <3>2, <4>1, <4>2, <4>3 DEF Within
        <5> QED
          BY <5>1, <5>2, <5>3, <3>2
      <4>7. /\ (Balance(lo) + runs[lo].pause)' = bal1
            /\ Slack(lo)' = runs[lo].slack - runs[f].slack
        BY <3>1, <1>u DEF Balance, Slack
      <4>8. RingSize > 1 => ts_poll <= hi
        BY <1>5 DEF TypeOK
      <4> HIDE DEF bal1
      <4>9. Within(Balance(lo) + runs[lo].pause, Slack(lo))'
        BY <4>6, <4>7 DEF Within
      <4> QED
        BY <4>8, <4>9, <3>1, <3>3, <3>4, <2>2, <1>5, <1>u DEF Folding
    <3> QED
      BY <3>3, <3>4, <3>6, <3>7, <2>2
  <2> QED
    BY <2>3, <2>4
<1> QED
  BY <1>3, <1>4, <1>5

(* One turn of the loop moves one pause from what is owed to what is sampled. *)
LEMMA FoldIInv == IInv /\ Fold => IInv'
<1> SUFFICES ASSUME IInv, Fold PROVE IInv'
  OBVIOUS
<1>n. TypeOK
  BY DEF IInv
<1> USE <1>n, Numbers DEF target
<1>1. PICK lo, hi \in 1..Finished, nxt \in 1..(Finished + 1) : Folding(lo, hi, nxt)
  BY DEF IInv, FoldInv, Fold
<1> DEFINE event == First(todo)
<1>u. /\ pc = "folding"
      /\ pc' = "folding"
      /\ acc' = [acc EXCEPT !.sampled_pause_ns = @ + PauseOf(event)]
      /\ todo' = todo \ {event}
      /\ UNCHANGED <<runs, writing, ts_poll, ts_last_poll, events, entry, lost, sampled, gaps>>
      /\ Finished' = Finished
  BY DEF Fold, Finished
<1>2. lo \in Nat /\ hi \in Nat /\ nxt \in Nat /\ lo \in 1..Finished /\ hi \in 1..Finished
  BY <1>1
<1>3. nxt <= hi
  <2>1. CASE nxt = hi + 1
    <3>1. todo = {}
      <4>1. \A r \in todo : r.collections \in nxt..hi
        BY <1>1 DEF Folding, IsBlock
      <4> QED
        BY <4>1, <2>1, <1>2
    <3> QED
      BY <3>1 DEF Fold
  <2> QED
    BY <2>1, <1>1, <1>2 DEF Folding
<1>4. /\ event \in todo
      /\ event.collections = nxt
      /\ IsBlock(todo', nxt + 1, hi)
  BY <1>1, <1>2, <1>3, <1>u, BlockFirst, BlockRest DEF Folding
<1>5. nxt \in 1..Finished /\ PauseOf(event) = runs[nxt].pause
  BY <1>1, <1>2, <1>3, <1>4 DEF PauseOf
<1>6. /\ acc'.first_collections = acc.first_collections
      /\ acc'.first_pause_ns = acc.first_pause_ns
      /\ acc'.first_duration = acc.first_duration
      /\ acc'.last_collections = acc.last_collections
      /\ acc'.last_duration = acc.last_duration
      /\ acc'.sampled_count = acc.sampled_count
      /\ acc'.sampled_pause_ns = acc.sampled_pause_ns + runs[nxt].pause
      /\ acc' \in [first_collections : Nat, first_pause_ns : Nat, first_duration : Nat,
                   last_collections : Nat, last_duration : Nat,
                   sampled_count : Nat, sampled_pause_ns : Nat]
  <2>1. acc \in [first_collections : Nat, first_pause_ns : Nat, first_duration : Nat,
                 last_collections : Nat, last_duration : Nat,
                 sampled_count : Nat, sampled_pause_ns : Nat]
    BY DEF TypeOK
  <2>2. runs[nxt].pause \in Nat /\ acc.sampled_pause_ns \in Nat
    BY <1>5
  <2>3. acc' = [acc EXCEPT !.sampled_pause_ns = acc.sampled_pause_ns + runs[nxt].pause]
    BY <1>5, <1>u
  <2> QED
    BY ONLY <2>1, <2>2, <2>3
<1>7. Seeding' <=> Seeding
  BY <1>6 DEF Seeding
<1>8. TypeOK'
  BY <1>6, <1>u DEF TypeOK
<1>9. RunsInv' /\ IdleInv'
  BY <1>u DEF IInv, RunsInv, IdleInv
<1>10. BooksInv' /\ RunsAccounted' /\ GapsInv' /\ PollInv'
  BY <1>6, <1>7, <1>u DEF IInv, BooksInv, RunsAccounted, GapsInv, PollInv, LostRuns
<1>11. Folding(lo, hi, nxt + 1)'
  <2> DEFINE f == acc.first_collections
  <2>1. f \in 1..Finished
    BY <1>1, <1>2 DEF IInv, BooksInv, Folding
  <2>2. Slack(nxt)' = Slack(nxt)
    BY <1>6, <1>u DEF Slack
  <2>3. CASE nxt = lo
    <3>1. Balance(nxt)' = Balance(lo) + runs[lo].pause
      BY <2>3, <1>5, <1>6, <1>u DEF Balance
    <3>2. Within(Balance(lo) + runs[lo].pause, Slack(lo))
      BY <1>1, <2>3 DEF Folding
    <3> QED
      BY <3>1, <3>2, <2>2, <2>3, <1>1, <1>2, <1>3, <1>4, <1>6, <1>7, <1>u
         DEF Folding, Within
  <2>4. CASE nxt > lo
    <3>1. nxt - 1 \in 1..Finished
      BY <2>4, <1>1, <1>2
    <3>2. Within(Balance(nxt - 1), Slack(nxt - 1))
      BY <1>1, <2>4 DEF Folding
    <3>3. /\ runs[nxt].duration - runs[nxt - 1].duration - runs[nxt].pause
               <= runs[nxt].slack - runs[nxt - 1].slack
          /\ runs[nxt].pause - (runs[nxt].duration - runs[nxt - 1].duration)
               <= runs[nxt].slack - runs[nxt - 1].slack
      BY <3>1, <1>5 DEF IInv, RunsInv
    <3>4. Balance(nxt)' = Balance(nxt - 1) + runs[nxt].pause
                            - (runs[nxt].duration - runs[nxt - 1].duration)
      BY <3>1, <1>5, <1>6, <1>u DEF Balance
    <3>5. Slack(nxt) = Slack(nxt - 1) + (runs[nxt].slack - runs[nxt - 1].slack)
      BY <2>1, <3>1, <1>5 DEF Slack
    <3>6. Balance(nxt - 1) \in Int /\ Slack(nxt - 1) \in Int
      BY <2>1, <3>1 DEF Balance, Slack
    <3>7. Within(Balance(nxt), Slack(nxt))'
      <4>1. Within(Balance(nxt)', Slack(nxt))
        BY <3>1, <3>2, <3>3, <3>4, <3>5, <3>6, <1>5 DEF Within
      <4> QED
        BY <4>1, <2>2 DEF Within
    <3> QED
      BY <3>7, <2>4, <1>1, <1>2, <1>3, <1>4, <1>6, <1>7, <1>u DEF Folding
  <2> QED
    BY <2>3, <2>4, <1>1, <1>2 DEF Folding
<1>12. FoldInv'
  <2>1. nxt + 1 \in 1..(Finished' + 1)
    BY <1>5, <1>u
  <2> QED
    BY <2>1, <1>11, <1>2, <1>u DEF FoldInv
<1> QED
  BY <1>8, <1>9, <1>10, <1>12 DEF IInv
(* Settling moves the poll's loss into the books and its runs into sampled. *)
LEMMA SettleEffect ==
  ASSUME IInv, Settle
  PROVE  \E lo, hi \in 1..Finished :
           /\ Folding(lo, hi, hi + 1)
           /\ acc'.first_collections = acc.first_collections
           /\ acc'.first_pause_ns = acc.first_pause_ns
           /\ acc'.first_duration = acc.first_duration
           /\ acc'.last_collections = hi
           /\ acc'.last_duration = runs[hi].duration
           /\ acc'.sampled_count = acc.sampled_count + (hi - lo + 1)
           /\ acc'.sampled_pause_ns = acc.sampled_pause_ns
           /\ acc' \in [first_collections : Nat, first_pause_ns : Nat, first_duration : Nat,
                        last_collections : Nat, last_duration : Nat,
                        sampled_count : Nat, sampled_pause_ns : Nat]
           /\ sampled' = sampled \cup (lo..hi)
           /\ LostRuns' = IF Seeding THEN LostRuns
                          ELSE LostRuns \cup ((acc.last_collections + 1)..(lo - 1))
<1>n. TypeOK
  BY DEF IInv
<1> USE <1>n, Numbers DEF target
<1>1. PICK lo, hi \in 1..Finished, nxt \in 1..(Finished + 1) : Folding(lo, hi, nxt)
  BY DEF IInv, FoldInv, Settle, Span
<1>2. lo \in Nat /\ hi \in Nat /\ nxt \in Nat /\ lo <= hi
  BY <1>1 DEF Folding
<1>3. nxt = hi + 1
  <2>1. todo = {}
    BY DEF Settle, Span
  <2>2. nxt > hi
    BY <2>1, <1>1, <1>2, EmptyBlock DEF Folding
  <2> QED
    BY <2>2, <1>1, <1>2 DEF Folding
<1>4. IsBlock(events, lo, hi)
  BY <1>1 DEF Folding
<1>5. /\ Last(events) \in events
      /\ Last(events).collections = hi
      /\ Cardinality(events) = hi - lo + 1
  BY <1>2, <1>4, BlockLast, BlockCardinality
<1>6. /\ acc'.first_collections = acc.first_collections
      /\ acc'.first_pause_ns = acc.first_pause_ns
      /\ acc'.first_duration = acc.first_duration
      /\ acc'.last_collections = hi
      /\ acc'.last_duration = runs[hi].duration
      /\ acc'.sampled_count = acc.sampled_count + (hi - lo + 1)
      /\ acc'.sampled_pause_ns = acc.sampled_pause_ns
      /\ acc' \in [first_collections : Nat, first_pause_ns : Nat, first_duration : Nat,
                   last_collections : Nat, last_duration : Nat,
                   sampled_count : Nat, sampled_pause_ns : Nat]
  <2>1. acc \in [first_collections : Nat, first_pause_ns : Nat, first_duration : Nat,
                 last_collections : Nat, last_duration : Nat,
                 sampled_count : Nat, sampled_pause_ns : Nat]
    BY DEF TypeOK
  <2>2. runs[hi].duration \in Nat /\ hi \in Nat
    BY <1>2
  <2>3. acc.sampled_count + (hi - lo + 1) \in Nat
    BY <1>2
  <2>4. acc' = [acc EXCEPT !.sampled_count = acc.sampled_count + (hi - lo + 1),
                           !.last_collections = hi,
                           !.last_duration = runs[hi].duration]
    BY <1>5 DEF Settle, Span, DurationOf
  <2> QED
    BY ONLY <2>1, <2>2, <2>3, <2>4
<1>7. sampled' = sampled \cup (lo..hi)
  <2>1. {r.collections : r \in events} = lo..hi
    BY <1>4 DEF IsBlock
  <2> QED
    BY <2>1 DEF Settle, Span
<1>8. LostRuns' = IF Seeding THEN LostRuns
                  ELSE LostRuns \cup ((acc.last_collections + 1)..(lo - 1))
  <2>1. CASE entry.lost_count = 0
    <3>1. gaps' = gaps
      BY <2>1 DEF Settle, Span
    <3>2. ~Seeding => (acc.last_collections + 1)..(lo - 1) = {}
      BY <2>1, <1>1, <1>2 DEF Folding
    <3> QED
      BY <3>1, <3>2 DEF LostRuns
  <2>2. CASE entry.lost_count # 0
    <3> DEFINE gap == [from |-> entry.lost_from,
                       to |-> entry.lost_from + entry.lost_count - 1,
                       ts_start |-> ts_last_poll,
                       ts_stop |-> ts_poll]
    <3>1. gaps' = gaps \cup {gap}
      BY <2>2 DEF Settle, Span
    <3>2. ~Seeding /\ entry.lost_count = lo - acc.last_collections - 1
      BY <2>2, <1>1 DEF Folding
    <3>3. gap.from = acc.last_collections + 1 /\ gap.to = lo - 1
      BY <3>2, <2>2, <1>1, <1>2 DEF Folding
    <3> HIDE DEF gap
    <3> QED
      BY <3>1, <3>2, <3>3 DEF LostRuns
  <2> QED
    BY <2>1, <2>2
<1> QED
  BY <1>1, <1>3, <1>6, <1>7, <1>8

(* Settling a poll closes the account up to its last record. *)
LEMMA SettleIInv == IInv /\ Settle => IInv'
<1> SUFFICES ASSUME IInv, Settle PROVE IInv'
  OBVIOUS
<1>n. TypeOK
  BY DEF IInv
<1> USE <1>n, Numbers DEF target
<1> DEFINE l == acc.last_collections
           f == acc.first_collections
<1>1. PICK lo, hi \in 1..Finished :
        /\ Folding(lo, hi, hi + 1)
        /\ acc'.first_collections = acc.first_collections
        /\ acc'.first_pause_ns = acc.first_pause_ns
        /\ acc'.first_duration = acc.first_duration
        /\ acc'.last_collections = hi
        /\ acc'.last_duration = runs[hi].duration
        /\ acc'.sampled_count = acc.sampled_count + (hi - lo + 1)
        /\ acc'.sampled_pause_ns = acc.sampled_pause_ns
        /\ acc' \in [first_collections : Nat, first_pause_ns : Nat, first_duration : Nat,
                     last_collections : Nat, last_duration : Nat,
                     sampled_count : Nat, sampled_pause_ns : Nat]
        /\ sampled' = sampled \cup (lo..hi)
        /\ LostRuns' = IF Seeding THEN LostRuns
                       ELSE LostRuns \cup ((acc.last_collections + 1)..(lo - 1))
  BY SettleEffect
<1>u. /\ UNCHANGED <<runs, writing, ts_poll, todo>>
      /\ pc' = "idle"
      /\ ts_last_poll' = ts_poll
      /\ events' = {}
      /\ todo = {}
      /\ entry' = NoEntry
      /\ pc = "folding"
      /\ Finished' = Finished
      /\ lost' = [count |-> lost.count + entry.lost_count,
                  pause_ns |-> lost.pause_ns + entry.lost_pause_ns]
  BY DEF Settle, Span, Finished
<1>2. /\ lo \in 1..Finished /\ hi \in 1..Finished /\ lo \in Nat /\ hi \in Nat
      /\ lo <= hi /\ l < lo
      /\ RingSize > 1 => ts_poll <= hi
  BY <1>1 DEF Folding
<1>3. ~Seeding'
  BY <1>1, <1>2 DEF Seeding
<1>4. /\ Seeding => /\ f = lo
                    /\ acc.first_pause_ns = runs[lo].pause
                    /\ acc.first_duration = runs[lo].duration
                    /\ entry.lost_count = 0
                    /\ entry.lost_pause_ns = 0
      /\ ~Seeding => /\ entry.lost_count = lo - l - 1
                     /\ entry.lost_count > 0 => entry.lost_from = l + 1
      /\ Within(Balance(hi), Slack(hi))
  <2>1. hi + 1 - 1 = hi /\ hi + 1 > lo
    BY <1>2
  <2> QED
    BY <2>1, <1>1 DEF Folding
<1>5. lost'.count = lost.count + entry.lost_count
      /\ lost'.pause_ns = lost.pause_ns + entry.lost_pause_ns
  BY <1>u
<1>6. ts_last_poll <= ts_poll /\ (RingSize > 1 => ts_last_poll <= l)
  BY DEF IInv, PollInv
<1>7. TypeOK'
  <2>1. lost' \in [count : Nat, pause_ns : Nat]
    BY <1>u
  <2>2. entry' \in [observed_count : Nat, lost_count : Nat, lost_pause_ns : Nat, lost_from : Nat]
    BY <1>u DEF NoEntry
  <2>3. (sampled \subseteq 1..Finished)'
    <3>1. sampled \subseteq 1..Finished
      BY DEF TypeOK
    <3>2. lo..hi \subseteq 1..Finished
      BY <1>2
    <3>3. sampled' = sampled \cup (lo..hi)
      BY <1>1
    <3> QED
      BY ONLY <3>1, <3>2, <3>3, <1>u
  <2>4. (gaps \subseteq [from : Nat, to : Nat, ts_start : {NoPoll} \cup Nat, ts_stop : Nat])'
    <3>1. CASE entry.lost_count = 0
      BY <3>1 DEF Settle, Span, TypeOK
    <3>2. CASE entry.lost_count # 0
      <4>1. entry.lost_from + entry.lost_count - 1 \in Nat
        BY <3>2
      <4>2. ts_last_poll \in {NoPoll} \cup Nat
        BY DEF TypeOK
      <4>3. gaps \subseteq [from : Nat, to : Nat, ts_start : {NoPoll} \cup Nat, ts_stop : Nat]
        BY DEF TypeOK
      <4>4. gaps' = gaps \cup {[from |-> entry.lost_from,
                                to |-> entry.lost_from + entry.lost_count - 1,
                                ts_start |-> ts_last_poll,
                                ts_stop |-> ts_poll]}
        BY <3>2 DEF Settle, Span
      <4> QED
        BY <4>1, <4>2, <4>3, <4>4
    <3> QED
      BY <3>1, <3>2
  <2>5. (/\ ts_poll \in 0..Finished
         /\ ts_last_poll \in {NoPoll} \cup (0..Finished)
         /\ events \subseteq [collections : 1..Finished, copy : {0, 1}]
         /\ todo \subseteq events
         /\ writing \in BOOLEAN
         /\ pc \in {"idle", "reading", "folding"}
         /\ runs \in Seq([pause : Pauses, duration : Nat, slack : Nat]))'
    BY <1>u DEF TypeOK
  <2> QED
    BY <1>1, <2>1, <2>2, <2>3, <2>4, <2>5 DEF TypeOK
<1>8. RunsInv'
  BY <1>u DEF IInv, RunsInv
<1>9. BooksInv'
  <2>1. CASE Seeding
    <3>1. acc.sampled_count = 0 /\ lost.count = 0
      BY <2>1 DEF IInv, BooksInv, Seeding
    <3>2. ts_last_poll' # NoPoll
      BY <1>u DEF NoPoll
    <3>3. /\ acc'.first_collections = lo
          /\ acc'.first_pause_ns = runs'[lo].pause
          /\ acc'.first_duration = runs'[lo].duration
          /\ acc'.last_collections = hi
          /\ acc'.last_duration = runs'[hi].duration
      BY <2>1, <1>1, <1>4, <1>u
    <3>4. acc'.sampled_count + lost'.count = hi - lo + 1
      BY <3>1, <2>1, <1>1, <1>2, <1>4, <1>5
    <3> QED
      BY <3>2, <3>3, <3>4, <1>2, <1>3, <1>u DEF BooksInv
  <2>2. CASE ~Seeding
    <3>1. /\ f \in 1..l /\ l \in 1..Finished
          /\ acc.first_pause_ns = runs[f].pause
          /\ acc.first_duration = runs[f].duration
          /\ acc.sampled_count + lost.count = l - f + 1
      BY <2>2 DEF IInv, BooksInv
    <3>2. ts_last_poll' # NoPoll
      BY <1>u DEF NoPoll
    <3>3. acc'.sampled_count + lost'.count = hi - f + 1
      <4>1. lost'.count = lost.count + (lo - l - 1)
        BY <2>2, <1>4, <1>5
      <4>2. acc'.sampled_count = acc.sampled_count + (hi - lo + 1)
        BY <1>1
      <4>3. /\ acc.sampled_count \in Nat /\ lost.count \in Nat
            /\ l \in Nat /\ f \in Nat /\ lo \in Nat /\ hi \in Nat
        BY <1>2
      <4>4. acc.sampled_count + lost.count = l - f + 1
        BY <3>1
      <4> QED
        BY ONLY <4>1, <4>2, <4>3, <4>4
    <3>4. f \in 1..hi /\ hi \in 1..Finished
      BY <3>1, <1>2
    <3> QED
      BY <3>1, <3>2, <3>3, <3>4, <1>1, <1>3, <1>u DEF BooksInv
  <2> QED
    BY <2>1, <2>2
<1>10. RunsAccounted'
  <2>1. CASE Seeding
    <3>1. sampled = {} /\ LostRuns = {}
      BY <2>1 DEF IInv, BooksInv, LostRuns
    <3> QED
      BY <3>1, <2>1, <1>1, <1>4 DEF RunsAccounted
  <2>2. CASE ~Seeding
    <3>1. sampled \cap LostRuns = {} /\ sampled \cup LostRuns = f..l
      BY <2>2 DEF IInv, RunsAccounted
    <3>2. f \in 1..l /\ l \in 1..Finished
      BY <2>2 DEF IInv, BooksInv
    <3>3. /\ sampled' = sampled \cup (lo..hi)
          /\ LostRuns' = LostRuns \cup ((l + 1)..(lo - 1))
          /\ acc'.first_collections = f /\ acc'.last_collections = hi
      BY <2>2, <1>1
    <3>4. sampled' \cap LostRuns' = {}
      BY <3>1, <3>2, <3>3, <1>2
    <3>5. sampled' \cup LostRuns' = f..hi
      <4>1. \A k \in f..hi : k \in f..l \/ k \in (l + 1)..(lo - 1) \/ k \in lo..hi
        BY <3>2, <1>2
      <4>2. (f..l) \cup ((l + 1)..(lo - 1)) \cup (lo..hi) \subseteq f..hi
        BY <3>2, <1>2
      <4> QED
        BY <4>1, <4>2, <3>1, <3>3
    <3> QED
      BY <3>3, <3>4, <3>5 DEF RunsAccounted
  <2> QED
    BY <2>1, <2>2
<1>11. GapsInv'
  <2> DEFINE gap == [from |-> entry.lost_from,
                     to |-> entry.lost_from + entry.lost_count - 1,
                     ts_start |-> ts_last_poll,
                     ts_stop |-> ts_poll]
  <2>t. \A g \in gaps : g.from \in Nat /\ g.to \in Nat /\ g.ts_start \in Int /\ g.ts_stop \in Nat
    <3>1. gaps \subseteq [from : Nat, to : Nat, ts_start : {NoPoll} \cup Nat, ts_stop : Nat]
      BY DEF TypeOK
    <3>2. {NoPoll} \cup Nat \subseteq Int
      BY DEF NoPoll
    <3> QED
      BY ONLY <3>1, <3>2
  <2>1. CASE entry.lost_count = 0
    <3>1. gaps' = gaps
      BY <2>1 DEF Settle, Span
    <3> QED
      BY <3>1, <2>t, <1>1, <1>2, <1>6, <1>u DEF IInv, GapsInv
  <2>2. CASE entry.lost_count # 0
    <3>1. gaps' = gaps \cup {gap}
      BY <2>2 DEF Settle, Span
    <3>2. /\ gap.from = l + 1 /\ gap.to = lo - 1 /\ gap.from <= gap.to
          /\ gap.ts_start = ts_last_poll /\ gap.ts_stop = ts_poll
      BY <2>2, <1>2, <1>4
    <3> HIDE DEF gap
    <3>3. \A g \in gaps' : /\ g.from <= g.to
                           /\ g.to <= hi
                           /\ g.ts_stop <= ts_poll
                           /\ RingSize > 1 => g.ts_start < g.from
      BY <3>1, <3>2, <2>t, <1>2, <1>6 DEF IInv, GapsInv
    <3>4. \A g \in gaps : /\ (g.from..g.to) \cap (gap.from..gap.to) = {}
                          /\ g.ts_stop <= gap.ts_start
      BY <3>2, <2>t, <1>2 DEF IInv, GapsInv
    <3>5. \A g, h \in gaps' : g # h =>
             /\ (g.from..g.to) \cap (h.from..h.to) = {}
             /\ g.ts_stop <= h.ts_start \/ h.ts_stop <= g.ts_start
      BY <3>1, <3>4 DEF IInv, GapsInv
    <3> QED
      BY <3>3, <3>5, <1>1, <1>u DEF GapsInv
  <2> QED
    BY <2>1, <2>2
<1>12. IdleInv'
  <2>1. Balance(hi)' = Balance(hi)
    <3>1. entry'.lost_pause_ns = 0
      BY <1>u DEF NoEntry
    <3> QED
      BY <3>1, <1>1, <1>2, <1>5, <1>u DEF Balance
  <2>2. Slack(hi)' = Slack(hi)
    BY <1>1, <1>u DEF Slack
  <2> QED
    BY <2>1, <2>2, <1>1, <1>3, <1>4, <1>u DEF IdleInv, Within
<1>13. PollInv' /\ FoldInv'
  BY <1>1, <1>2, <1>u DEF PollInv, FoldInv
<1> QED
  BY <1>7, <1>8, <1>9, <1>10, <1>11, <1>12, <1>13 DEF IInv

(* Every step of the target and of the poll keeps the invariant. *)
LEMMA StepIInv == Contract /\ IInv /\ [Next]_vars => IInv'
<1> SUFFICES ASSUME Contract, IInv, [Next]_vars PROVE IInv'
  OBVIOUS
<1>1. CASE BeginWrite
  BY <1>1, BeginWriteIInv
<1>2. CASE FinishWrite
  BY <1>2, FinishWriteIInv
<1>3. CASE StartRead
  BY <1>3, StartReadIInv
<1>4. CASE Copy
  BY <1>4, CopyIInv
<1>5. CASE Fold
  BY <1>5, FoldIInv
<1>6. CASE Settle
  BY <1>6, SettleIInv
<1>7. CASE UNCHANGED vars
  <2> USE <1>7 DEF vars, target, polling, books, Finished
  <2>1. TypeOK' /\ RunsInv' /\ GapsInv' /\ PollInv'
    BY DEF IInv, TypeOK, RunsInv, GapsInv, PollInv
  <2>2. BooksInv' /\ RunsAccounted'
    BY DEF IInv, BooksInv, RunsAccounted, Seeding, LostRuns
  <2>3. IdleInv'
    BY DEF IInv, IdleInv, Seeding, Balance, Slack, Within, NoEntry
  <2>4. FoldInv'
    BY DEF IInv, FoldInv, Folding, Seeding, Balance, Slack, Within
  <2> QED
    BY <2>1, <2>2, <2>3, <2>4 DEF IInv
<1> QED
  BY <1>1, <1>2, <1>3, <1>4, <1>5, <1>6, <1>7 DEF Next, Target, Poll

(* Every state of a target that keeps the contract satisfies the invariant. *)
THEOREM Invariance == Contract => (Spec => []IInv)
<1>1. SUFFICES ASSUME Contract PROVE Spec => []IInv
  OBVIOUS
<1>2. Init => IInv
  BY InitIInv
<1>3. IInv /\ [Next]_vars => IInv'
  BY <1>1, StepIInv
<1> QED
  BY <1>2, <1>3, PTL DEF Spec

-----------------------------------------------------------------------------
(***************************************************************************)
(* What holds of every copy, torn or not, and of runs without a width: a   *)
(* poll may leave records out, so that the counts fall short, but what it  *)
(* reports lies past the cursor and is never reported again.               *)
(***************************************************************************)

(* S holds at most one record of each of lo..hi, and the two at the ends. *)
IsSpread(S, lo, hi) ==
  /\ S \subseteq Records
  /\ \A r \in S : r.collections \in lo..hi
  /\ \E r \in S : r.collections = lo
  /\ \E r \in S : r.collections = hi
  /\ \A r, q \in S : r.collections = q.collections => r = q

(* The runs reported so far fit between the first record and the cursor. *)
Bounded ==
  /\ Seeding => lost.count = 0
  /\ ~Seeding => acc.sampled_count + lost.count
                   <= acc.last_collections - acc.first_collections + 1

(* Every run and every interval reported so far lies behind the cursor. *)
Passed ==
  /\ \A k \in sampled : k <= acc.last_collections
  /\ \A g \in gaps : g.to <= acc.last_collections /\ g.ts_stop <= ts_last_poll
  /\ ts_last_poll <= ts_poll

(* The poll folds records of some of the runs lo..hi, past the cursor. *)
Ahead(lo, hi) ==
  /\ acc.last_collections < lo
  /\ lo <= hi
  /\ IsSpread(events, lo, hi)
  /\ Seeding => acc.first_collections = lo /\ entry.lost_count = 0
  /\ ~Seeding => /\ entry.lost_count <= lo - acc.last_collections - 1
                 /\ entry.lost_count > 0 => entry.lost_from = acc.last_collections + 1

AnyCopyInv ==
  /\ TypeOK
  /\ Bounded
  /\ Passed
  /\ NoRunTwice
  /\ SpansTile
  /\ pc = "folding" => \E lo, hi \in 1..Finished : Ahead(lo, hi)

(***************************************************************************)
(* The records a copy returns are records of finished runs, of which       *)
(* Unseen keeps one for each run past the cursor.                          *)
(***************************************************************************)
LEMMA UnseenRecords ==
  ASSUME TypeOK, NEW records \in Copies
  PROVE  LET fresh == Unseen({r \in records : IsComplete(r)}) IN
         /\ fresh \subseteq [collections : 1..Finished, copy : {0, 1}]
         /\ \A r \in fresh : r.collections > acc.last_collections
         /\ \A r, q \in fresh : r.collections = q.collections => r = q
<1> DEFINE FinishedRecords == [collections : 1..Finished, copy : {0, 1}]
           fresh == Unseen({r \in records : IsComplete(r)})
<1>1. Finished \in Nat
  BY Numbers
<1>2. \A t \in 0..Finished : Held(t) \subseteq 1..Finished
  BY <1>1 DEF Held
<1>3. \A k \in 1..Finished, copy \in {0, 1} : Record(k, copy) \in FinishedRecords
  BY DEF Record
<1>4. records \subseteq FinishedRecords
  <2>1. CASE records \in AtomicCopies
    <3>1. Held(Finished) \subseteq 1..Finished
      BY <1>1, <1>2
    <3>2. {Record(k, 0) : k \in Held(Finished)} \subseteq FinishedRecords
      BY <1>3, <3>1
    <3>3. {Record(k, 0) : k \in Held(Finished) \ Replaced} \subseteq FinishedRecords
      BY <1>3, <3>1
    <3>4. {Record(k, 1) : k \in {Finished} \ {0}} \subseteq FinishedRecords
      BY <1>1, <1>3
    <3> HIDE DEF FinishedRecords
    <3> QED
      BY <2>1, <3>2, <3>3, <3>4 DEF AtomicCopies
  <2>2. CASE records \in TornCopies
    <3>1. PICK earlier \in ts_poll..Finished, at \in 0..RingSize :
            records = {Record(k, 0) : k \in {j \in Held(earlier) : Slot(j) < at}
                                            \cup {j \in Held(Finished) : Slot(j) >= at}}
      BY <2>2 DEF TornCopies
    <3>2. earlier \in 0..Finished /\ Finished \in 0..Finished
      <4>1. ts_poll \in 0..Finished
        BY DEF TypeOK
      <4> QED
        BY <4>1, <1>1
    <3>3. Held(earlier) \subseteq 1..Finished /\ Held(Finished) \subseteq 1..Finished
      BY <1>2, <3>2
    <3> HIDE DEF FinishedRecords
    <3> QED
      BY <3>1, <3>3, <1>3
  <2> QED
    BY <2>1, <2>2 DEF Copies
<1>5. fresh \subseteq records
  BY DEF Unseen
<1>6. \A r \in fresh : r.collections > acc.last_collections
  BY DEF Unseen
<1>7. ASSUME NEW r \in fresh, NEW q \in fresh, r.collections = q.collections
      PROVE  r = q
  <2>1. q.copy <= r.copy /\ r.copy <= q.copy
    BY <1>7 DEF Unseen
  <2>2. r \in FinishedRecords /\ q \in FinishedRecords
    BY <1>4, <1>5
  <2>3. r.copy = q.copy
    BY <2>1, <2>2
  <2>4. r = [collections |-> r.collections, copy |-> r.copy]
    BY <2>2
  <2>5. q = [collections |-> q.collections, copy |-> q.copy]
    BY <2>2
  <2> QED
    BY <1>7, <2>3, <2>4, <2>5
<1> HIDE DEF fresh, FinishedRecords
<1> QED
  BY <1>4, <1>5, <1>6, <1>7 DEF fresh, FinishedRecords

(* A set of naturals that is not empty has a least member. *)
LEMMA LeastOf ==
  ASSUME NEW S, S \subseteq Nat, S # {}
  PROVE  \E m \in S : \A n \in S : m <= n
<1>1. OpToRel(<, Nat) = {pair \in Nat \X Nat : pair[1] < pair[2]}
  BY DEF OpToRel
<1>2. PICK m \in S : \A n \in S : ~ (<<n, m>> \in OpToRel(<, Nat))
  BY NatLessThanWellFounded, WFMin
<1>3. \A n \in S : ~ (n < m)
  BY <1>1, <1>2
<1> QED
  BY <1>3

(* A set of records that is not empty has a first and a last one. *)
LEMMA EndsOf ==
  ASSUME NEW n \in Nat, NEW S, S # {},
         S \subseteq [collections : 1..n, copy : {0, 1}]
  PROVE  /\ First(S) \in S /\ \A r \in S : First(S).collections <= r.collections
         /\ Last(S) \in S /\ \A r \in S : Last(S).collections >= r.collections
<1> DEFINE Up == {r.collections : r \in S}
           Down == {n - r.collections : r \in S}
<1>1. \A r \in S : r.collections \in Nat /\ n - r.collections \in Nat
  OBVIOUS
<1>2. \E r \in S : \A q \in S : r.collections <= q.collections
  <2>1. Up \subseteq Nat /\ Up # {}
    BY <1>1
  <2>2. PICK m \in Up : \A k \in Up : m <= k
    <3> HIDE DEF Up
    <3> QED BY <2>1, LeastOf
  <2>3. PICK r \in S : m = r.collections
    OBVIOUS
  <2> QED BY <2>2, <2>3
<1>3. \E r \in S : \A q \in S : r.collections >= q.collections
  <2>1. Down \subseteq Nat /\ Down # {}
    BY <1>1
  <2>2. PICK m \in Down : \A k \in Down : m <= k
    <3> HIDE DEF Down
    <3> QED BY <2>1, LeastOf
  <2>3. PICK r \in S : m = n - r.collections
    OBVIOUS
  <2>4. ASSUME NEW q \in S PROVE r.collections >= q.collections
    <3>1. n - r.collections <= n - q.collections
      BY <2>2, <2>3
    <3>2. r.collections \in Nat /\ q.collections \in Nat
      BY <1>1
    <3> QED BY ONLY <3>1, <3>2, n \in Nat
  <2> QED BY <2>4
<1>4. First(S) \in S /\ \A r \in S : First(S).collections <= r.collections
  BY <1>2 DEF First
<1>5. Last(S) \in S /\ \A r \in S : Last(S).collections >= r.collections
  BY <1>3 DEF Last
<1> QED BY <1>4, <1>5

(* A spread over lo..hi has no more records than there are runs in it. *)
LEMMA SpreadCardinality ==
  ASSUME NEW S, NEW lo \in Nat, NEW hi \in Nat, lo <= hi, IsSpread(S, lo, hi)
  PROVE  Cardinality(S) \in Nat \ {0} /\ Cardinality(S) <= hi - lo + 1
<1> DEFINE f == [r \in S |-> r.collections]
<1>1. f \in Injection(S, lo..hi)
  BY DEF IsSpread, Injection, IsInjective
<1>2. IsFiniteSet(lo..hi) /\ Cardinality(lo..hi) = hi - lo + 1
  BY FS_Interval
<1>3. IsFiniteSet(S) /\ Cardinality(S) <= hi - lo + 1
  BY <1>1, <1>2, FS_Injection
<1>4. S # {}
  BY DEF IsSpread
<1> QED BY <1>3, <1>4, FS_CardinalityType, FS_EmptySet

(* The ends of a spread are its first and its last record. *)
LEMMA SpreadEnds ==
  ASSUME NEW S, NEW lo \in Nat, NEW hi \in Nat, lo <= hi, IsSpread(S, lo, hi)
  PROVE  /\ First(S) \in S /\ First(S).collections = lo
         /\ Last(S) \in S /\ Last(S).collections = hi
<1>1. PICK r \in S : r.collections = lo
  BY DEF IsSpread
<1>2. PICK q \in S : q.collections = hi
  BY DEF IsSpread
<1>3. \A s \in S : lo <= s.collections /\ s.collections <= hi /\ s.collections \in Nat
  BY DEF IsSpread
<1>4. First(S) \in S /\ \A s \in S : First(S).collections <= s.collections
  <2>1. \A s \in S : r.collections <= s.collections
    BY <1>1, <1>3
  <2> QED BY <2>1 DEF First
<1>5. Last(S) \in S /\ \A s \in S : Last(S).collections >= s.collections
  <2>1. \A s \in S : q.collections >= s.collections
    BY <1>2, <1>3
  <2> QED BY <2>1 DEF Last
<1>6. First(S).collections <= lo /\ Last(S).collections >= hi
  BY <1>1, <1>2, <1>4, <1>5
<1> QED BY <1>3, <1>4, <1>5, <1>6

(* The unseen records of a copy, when there are any, spread past the cursor. *)
LEMMA CopyIsSpread ==
  ASSUME TypeOK, NEW records \in Copies
  PROVE  LET fresh == Unseen({r \in records : IsComplete(r)}) IN
         \/ fresh = {}
         \/ \E lo, hi \in 1..Finished :
              /\ acc.last_collections < lo
              /\ lo <= hi
              /\ IsSpread(fresh, lo, hi)
<1> DEFINE fresh == Unseen({r \in records : IsComplete(r)})
<1>1. /\ fresh \subseteq [collections : 1..Finished, copy : {0, 1}]
      /\ \A r \in fresh : r.collections > acc.last_collections
      /\ \A r, q \in fresh : r.collections = q.collections => r = q
  BY UnseenRecords
<1> HIDE DEF fresh
<1>2. ASSUME fresh # {}
      PROVE  \E lo, hi \in 1..Finished :
               /\ acc.last_collections < lo
               /\ lo <= hi
               /\ IsSpread(fresh, lo, hi)
  <2>1. Finished \in Nat
    BY Numbers
  <2>2. /\ First(fresh) \in fresh
        /\ \A r \in fresh : First(fresh).collections <= r.collections
        /\ Last(fresh) \in fresh
        /\ \A r \in fresh : Last(fresh).collections >= r.collections
    BY <1>1, <1>2, <2>1, EndsOf
  <2>3. PICK lo \in 1..Finished : lo = First(fresh).collections
    BY <2>2, <1>1
  <2>4. PICK hi \in 1..Finished : hi = Last(fresh).collections
    BY <2>2, <1>1
  <2>5. acc.last_collections < lo
    BY <2>2, <2>3, <1>1
  <2>6. lo <= hi
    BY <2>2, <2>3, <2>4
  <2>7. IsSpread(fresh, lo, hi)
    <3>1. fresh \subseteq Records
      BY <1>1, <2>1 DEF Records
    <3>2. \A r \in fresh : r.collections \in lo..hi
      <4>1. \A r \in fresh : /\ r.collections \in Nat
                             /\ lo <= r.collections
                             /\ r.collections <= hi
        BY <1>1, <2>2, <2>3, <2>4
      <4> QED BY <4>1
    <3> QED BY <3>1, <3>2, <2>2, <2>3, <2>4, <1>1 DEF IsSpread
  <2> QED BY <2>5, <2>6, <2>7
<1> QED BY <1>2 DEF fresh

(* The actions that fold nothing leave what was reported as it is. *)
LEMMA ReportedKept ==
  ASSUME AnyCopyInv, UNCHANGED <<ts_last_poll, lost, sampled, gaps>>,
         acc'.last_collections = acc.last_collections,
         ts_poll' \in Int, ts_poll' >= ts_poll
  PROVE  Passed' /\ NoRunTwice' /\ SpansTile'
<1> QED
  BY Numbers DEF AnyCopyInv, Passed, NoRunTwice, SpansTile, LostRuns

(* The target's steps touch nothing gcmon has reported or is folding. *)
LEMMA TargetAnyCopy == AnyCopyInv /\ Target => AnyCopyInv'
<1> SUFFICES ASSUME AnyCopyInv, Target PROVE AnyCopyInv'
  OBVIOUS
<1>t. TypeOK
  BY DEF AnyCopyInv
<1>1. UNCHANGED <<polling, books>>
  BY DEF Target, BeginWrite, FinishWrite
<1>2. TypeOK'
  BY <1>t, BeginWriteTypes, FinishWriteTypes DEF Target
<1>3. Finished' \in Nat /\ Finished' >= Finished
  BY <1>t, TargetOnlyAdds
<1>4. Bounded' /\ Passed' /\ NoRunTwice' /\ SpansTile'
  BY <1>1 DEF AnyCopyInv, Bounded, Passed, NoRunTwice, SpansTile, LostRuns, Seeding,
              polling, books
<1>5. ASSUME pc' = "folding"
      PROVE  \E lo, hi \in 1..Finished' : Ahead(lo, hi)'
  <2>1. PICK lo \in 1..Finished, hi \in 1..Finished : Ahead(lo, hi)
    BY <1>1, <1>5 DEF AnyCopyInv, polling
  <2>2. lo \in 1..Finished' /\ hi \in 1..Finished'
    BY <1>t, <1>3, <2>1, Numbers
  <2>3. Ahead(lo, hi)'
    BY <1>1, <2>1 DEF Ahead, Seeding, polling, books
  <2> QED BY <2>2, <2>3
<1> QED BY <1>2, <1>4, <1>5 DEF AnyCopyInv

(* A read begins: only its instant moves, and it moves forward. *)
LEMMA StartReadAnyCopy == AnyCopyInv /\ StartRead => AnyCopyInv'
<1> SUFFICES ASSUME AnyCopyInv, StartRead PROVE AnyCopyInv'
  OBVIOUS
<1>t. TypeOK
  BY DEF AnyCopyInv
<1>1. TypeOK'
  BY <1>t, StartReadTypes
<1>2. ts_poll' \in Int /\ ts_poll' >= ts_poll
  BY <1>t, Numbers DEF StartRead, TypeOK
<1>3. Passed' /\ NoRunTwice' /\ SpansTile'
  BY <1>2, ReportedKept DEF StartRead, books
<1>4. Bounded'
  BY DEF StartRead, books, AnyCopyInv, Bounded, Seeding
<1>5. pc' # "folding"
  BY DEF StartRead
<1> QED BY <1>1, <1>3, <1>4, <1>5 DEF AnyCopyInv

(* Whatever a copy leaves out, the poll folds runs past the cursor. *)
LEMMA CopyAnyCopy == AnyCopyInv /\ Copy => AnyCopyInv'
<1> SUFFICES ASSUME AnyCopyInv, Copy PROVE AnyCopyInv'
  OBVIOUS
<1>t. TypeOK
  BY DEF AnyCopyInv
<1>n. /\ acc.last_collections \in Nat /\ ts_poll \in Nat /\ ts_last_poll \in Int
      /\ Finished \in Nat
  BY <1>t, Numbers
<1>2. PICK records \in Copies :
       LET fresh == Unseen({r \in records : IsComplete(r)})
           first == First(fresh)
       IN  IF fresh = {}
           THEN /\ pc' = "idle"
                /\ ts_last_poll' = ts_poll
                /\ UNCHANGED <<events, todo, entry, acc>>
           ELSE /\ pc' = "folding"
                /\ UNCHANGED ts_last_poll
                /\ events' = fresh
                /\ todo' = fresh
                /\ IF Seeding
                   THEN /\ acc' = [acc EXCEPT !.first_collections = first.collections,
                                              !.first_pause_ns = PauseOf(first),
                                              !.first_duration = DurationOf(first)]
                        /\ entry' = [NoEntry EXCEPT !.observed_count = Cardinality(fresh)]
                   ELSE /\ acc' = acc
                        /\ entry' = GenLoss(first, Cardinality(fresh))
  BY DEF Copy
<1> DEFINE fresh == Unseen({r \in records : IsComplete(r)})
           first == First(fresh)
<1>u. /\ UNCHANGED <<runs, writing, ts_poll, lost, sampled, gaps>>
      /\ Finished' = Finished
  BY DEF Copy, target, Finished
<1>3. \/ fresh = {}
      \/ \E lo, hi \in 1..Finished :
           /\ acc.last_collections < lo
           /\ lo <= hi
           /\ IsSpread(fresh, lo, hi)
  BY <1>t, CopyIsSpread
<1>7. fresh \subseteq [collections : 1..Finished, copy : {0, 1}]
  BY <1>t, UnseenRecords
<1> HIDE DEF fresh
<1>4. CASE fresh = {}
  <2>1. /\ pc' = "idle"
        /\ ts_last_poll' = ts_poll
        /\ UNCHANGED <<events, todo, entry, acc>>
    BY <1>2, <1>4 DEF fresh
  <2>2. TypeOK'
    BY <1>t, <2>1, <1>u DEF TypeOK
  <2>3. Bounded' /\ NoRunTwice' /\ SpansTile'
    BY <2>1, <1>u DEF AnyCopyInv, Bounded, NoRunTwice, SpansTile, LostRuns, Seeding
  <2>4. Passed'
    <3>1. \A g \in gaps : g.ts_stop \in Nat
      BY <1>t DEF TypeOK
    <3> QED BY <3>1, <2>1, <1>u, <1>n DEF AnyCopyInv, Passed
  <2> QED BY <2>1, <2>2, <2>3, <2>4 DEF AnyCopyInv
<1>5. ASSUME NEW lo \in 1..Finished, NEW hi \in 1..Finished,
             acc.last_collections < lo, lo <= hi, IsSpread(fresh, lo, hi)
      PROVE  AnyCopyInv'
  <2>0. lo \in Nat /\ hi \in Nat
    BY <1>n
  <2>1. first \in fresh /\ first.collections = lo
    BY <1>5, <2>0, SpreadEnds
  <2>2. Cardinality(fresh) \in Nat
    BY <1>5, <2>0, SpreadCardinality
  <2>3. /\ pc' = "folding"
        /\ UNCHANGED ts_last_poll
        /\ events' = fresh
        /\ todo' = fresh
    BY <1>2, <2>1 DEF fresh
  <2>4. PauseOf(first) \in Nat /\ DurationOf(first) \in Nat
    BY <1>t, <2>1, Numbers DEF PauseOf, DurationOf
  <2>5. /\ acc' \in [first_collections : Nat, first_pause_ns : Nat, first_duration : Nat,
                     last_collections : Nat, last_duration : Nat,
                     sampled_count : Nat, sampled_pause_ns : Nat]
        /\ entry' \in [observed_count : Nat, lost_count : Nat, lost_pause_ns : Nat,
                       lost_from : Nat]
        /\ acc'.last_collections = acc.last_collections
        /\ acc'.sampled_count = acc.sampled_count
        /\ Seeding => acc'.first_collections = lo /\ entry'.lost_count = 0
        /\ ~Seeding => /\ acc' = acc
                       /\ entry'.lost_count = lo - acc.last_collections - 1
                       /\ entry'.lost_count > 0 =>
                            entry'.lost_from = acc.last_collections + 1
    <3>a. acc \in [first_collections : Nat, first_pause_ns : Nat, first_duration : Nat,
                   last_collections : Nat, last_duration : Nat,
                   sampled_count : Nat, sampled_pause_ns : Nat]
      BY <1>t DEF TypeOK
    <3>1. CASE Seeding
      <4>1. /\ acc' = [acc EXCEPT !.first_collections = lo,
                                  !.first_pause_ns = PauseOf(first),
                                  !.first_duration = DurationOf(first)]
            /\ entry' = [NoEntry EXCEPT !.observed_count = Cardinality(fresh)]
        BY <1>2, <2>1, <3>1 DEF fresh
      <4>2. entry' = [observed_count |-> Cardinality(fresh), lost_count |-> 0,
                      lost_pause_ns |-> 0, lost_from |-> 0]
        BY <4>1 DEF NoEntry
      <4>3. PICK pause \in Nat, duration \in Nat :
              acc' = [acc EXCEPT !.first_collections = lo,
                                 !.first_pause_ns = pause,
                                 !.first_duration = duration]
        BY <4>1, <2>4
      <4>4. /\ acc' \in [first_collections : Nat, first_pause_ns : Nat,
                          first_duration : Nat, last_collections : Nat,
                          last_duration : Nat, sampled_count : Nat,
                          sampled_pause_ns : Nat]
            /\ acc'.last_collections = acc.last_collections
            /\ acc'.sampled_count = acc.sampled_count
            /\ acc'.first_collections = lo
        BY ONLY <3>a, <4>3, <2>0
      <4>5. entry' \in [observed_count : Nat, lost_count : Nat, lost_pause_ns : Nat,
                        lost_from : Nat]
            /\ entry'.lost_count = 0
        BY ONLY <4>2, <2>2
      <4> QED BY <3>1, <4>4, <4>5
    <3>2. CASE ~Seeding
      <4>1. acc' = acc /\ entry' = GenLoss(first, Cardinality(fresh))
        BY <1>2, <2>1, <3>2 DEF fresh
      <4>2. PICK missing \in Nat : missing = lo - (acc.last_collections + 1)
        BY <1>5, <2>0, <1>n
      <4>3. PICK span \in Int : span = DurationOf(first) - acc.last_duration
        BY <3>a, <2>4
      <4>4. PICK left \in Int : left = span - PauseOf(first)
        BY <2>4
      <4>5. entry' = IF missing <= 0
                     THEN [NoEntry EXCEPT !.observed_count = Cardinality(fresh)]
                     ELSE [observed_count |-> Cardinality(fresh),
                           lost_count |-> missing,
                           lost_pause_ns |-> IF left > 0 THEN left ELSE 0,
                           lost_from |-> acc.last_collections + 1]
        BY <4>1, <4>2, <4>3, <4>4, <2>1 DEF GenLoss
      <4>6. CASE missing = 0
        <5>1. entry' = [observed_count |-> Cardinality(fresh), lost_count |-> 0,
                        lost_pause_ns |-> 0, lost_from |-> 0]
          BY <4>5, <4>6 DEF NoEntry
        <5>2. acc' = acc
          BY <4>1
        <5> HIDE DEF first
        <5> QED BY <5>1, <5>2, <3>a, <3>2, <4>2, <4>6, <2>0, <2>2, <1>n
      <4>7. CASE missing > 0
        <5>1. entry' = [observed_count |-> Cardinality(fresh), lost_count |-> missing,
                        lost_pause_ns |-> IF left > 0 THEN left ELSE 0,
                        lost_from |-> acc.last_collections + 1]
          BY <4>5, <4>7
        <5>2. acc' = acc
          BY <4>1
        <5>3. PICK pause_ns \in Nat : entry'.lost_pause_ns = pause_ns
          BY <5>1, <4>4
        <5>4. entry' = [observed_count |-> Cardinality(fresh), lost_count |-> missing,
                        lost_pause_ns |-> pause_ns, lost_from |-> acc.last_collections + 1]
          BY <5>1, <5>3
        <5> HIDE DEF first
        <5> QED BY <5>2, <5>4, <3>a, <3>2, <4>2, <4>7, <2>0, <2>2, <1>n
      <4> QED BY <4>2, <4>6, <4>7
    <3> QED BY <3>1, <3>2
  <2>6. Seeding' <=> Seeding
    BY <2>5 DEF Seeding
  <2>7. TypeOK'
    BY <1>t, <2>3, <2>5, <1>7, <1>u DEF TypeOK
  <2>8. Bounded'
    BY <2>5, <2>6, <1>u DEF AnyCopyInv, Bounded
  <2>9. Passed' /\ NoRunTwice' /\ SpansTile'
    BY <2>5, <2>3, <1>u, <1>n, ReportedKept
  <2>10. Ahead(lo, hi)'
    BY <2>3, <2>5, <2>6, <1>5, <2>0, <1>n DEF Ahead
  <2>11. lo \in 1..Finished' /\ hi \in 1..Finished'
    BY <1>u
  <2> QED BY <2>7, <2>8, <2>9, <2>10, <2>11 DEF AnyCopyInv
<1> QED BY <1>3, <1>4, <1>5

(* A turn of the loop adds a pause and takes a record off the list. *)
LEMMA FoldAnyCopy == AnyCopyInv /\ Fold => AnyCopyInv'
<1> SUFFICES ASSUME AnyCopyInv, Fold PROVE AnyCopyInv'
  OBVIOUS
<1>t. TypeOK
  BY DEF AnyCopyInv
<1>u. /\ pc = "folding"
      /\ UNCHANGED <<runs, writing, pc, ts_poll, ts_last_poll, events, entry, lost, sampled,
                     gaps>>
      /\ todo # {}
      /\ todo' = todo \ {First(todo)}
      /\ Finished' = Finished
  BY DEF Fold, target, Finished
<1>1. PICK pause : acc' = [acc EXCEPT !.sampled_pause_ns = acc.sampled_pause_ns + pause]
                   /\ pause = PauseOf(First(todo))
  BY <1>t DEF Fold, TypeOK
<1>2. pause \in Nat
  <2>1. todo \subseteq [collections : 1..Finished, copy : {0, 1}]
    BY <1>t DEF TypeOK
  <2>2. First(todo) \in todo
    BY <1>t, <1>u, <2>1, Numbers, EndsOf
  <2>3. First(todo).collections \in 1..Finished
    BY <2>1, <2>2
  <2> QED BY <1>t, <1>1, <2>3, Numbers DEF PauseOf
<1>3. /\ acc' \in [first_collections : Nat, first_pause_ns : Nat, first_duration : Nat,
                   last_collections : Nat, last_duration : Nat,
                   sampled_count : Nat, sampled_pause_ns : Nat]
      /\ acc'.last_collections = acc.last_collections
      /\ acc'.first_collections = acc.first_collections
      /\ acc'.sampled_count = acc.sampled_count
  <2>1. acc \in [first_collections : Nat, first_pause_ns : Nat, first_duration : Nat,
                 last_collections : Nat, last_duration : Nat,
                 sampled_count : Nat, sampled_pause_ns : Nat]
    BY <1>t DEF TypeOK
  <2> QED BY ONLY <2>1, <1>1, <1>2
<1>4. TypeOK'
  BY <1>t, <1>u, <1>3 DEF TypeOK
<1>5. Bounded'
  BY <1>u, <1>3 DEF AnyCopyInv, Bounded, Seeding
<1>6. Passed' /\ NoRunTwice' /\ SpansTile'
  BY <1>t, <1>u, <1>3, Numbers, ReportedKept
<1>7. \E lo, hi \in 1..Finished' : Ahead(lo, hi)'
  BY <1>u, <1>3 DEF AnyCopyInv, Ahead, Seeding
<1> QED BY <1>4, <1>5, <1>6, <1>7 DEF AnyCopyInv

(***************************************************************************)
(* A poll settles: its records and its gap, which lies between the cursor  *)
(* and the first of them, are reported, and the cursor moves to the last.  *)
(***************************************************************************)
LEMMA SettleAnyCopy == AnyCopyInv /\ Settle => AnyCopyInv'
<1> SUFFICES ASSUME AnyCopyInv, Settle PROVE AnyCopyInv'
  OBVIOUS
<1>t. TypeOK
  BY DEF AnyCopyInv
<1>n. /\ acc.last_collections \in Nat /\ acc.first_collections \in Nat
      /\ acc.sampled_count \in Nat /\ lost.count \in Nat /\ lost.pause_ns \in Nat
      /\ entry.lost_count \in Nat /\ entry.lost_from \in Nat /\ entry.lost_pause_ns \in Nat
      /\ ts_poll \in Nat /\ ts_last_poll \in Int /\ Finished \in Nat
  BY <1>t, Numbers
<1>1. PICK lo \in 1..Finished, hi \in 1..Finished : Ahead(lo, hi)
  BY DEF AnyCopyInv, Settle, Span
<1>2. /\ lo \in Nat /\ hi \in Nat /\ lo <= hi /\ acc.last_collections < lo
      /\ IsSpread(events, lo, hi)
  BY <1>1, <1>n DEF Ahead
<1>u. /\ UNCHANGED <<runs, writing, ts_poll, todo>>
      /\ todo = {}
      /\ pc' = "idle"
      /\ ts_last_poll' = ts_poll
      /\ events' = {}
      /\ entry' = NoEntry
      /\ Finished' = Finished
      /\ lost' = [count |-> lost.count + entry.lost_count,
                  pause_ns |-> lost.pause_ns + entry.lost_pause_ns]
      /\ sampled' = sampled \cup {r.collections : r \in events}
      /\ gaps' = IF entry.lost_count = 0 THEN gaps ELSE gaps \cup {Span}
  BY DEF Settle, target, Finished
<1>3. /\ Last(events) \in events /\ Last(events).collections = hi
      /\ Cardinality(events) \in Nat \ {0} /\ Cardinality(events) <= hi - lo + 1
  BY <1>2, SpreadEnds, SpreadCardinality
<1>4. /\ acc' \in [first_collections : Nat, first_pause_ns : Nat, first_duration : Nat,
                   last_collections : Nat, last_duration : Nat,
                   sampled_count : Nat, sampled_pause_ns : Nat]
      /\ acc'.last_collections = hi
      /\ acc'.first_collections = acc.first_collections
      /\ acc'.sampled_count = acc.sampled_count + Cardinality(events)
  <2>1. acc \in [first_collections : Nat, first_pause_ns : Nat, first_duration : Nat,
                 last_collections : Nat, last_duration : Nat,
                 sampled_count : Nat, sampled_pause_ns : Nat]
    BY <1>t DEF TypeOK
  <2>2. PICK duration \in Nat : duration = DurationOf(Last(events))
    BY <1>1, <1>3, <1>t, Numbers DEF DurationOf
  <2>3. acc' = [acc EXCEPT !.sampled_count = acc.sampled_count + Cardinality(events),
                           !.last_collections = hi,
                           !.last_duration = duration]
    BY <1>3, <2>1, <2>2 DEF Settle
  <2>4. acc.sampled_count + Cardinality(events) \in Nat
    BY <1>n, <1>3
  <2> QED BY ONLY <2>1, <2>2, <2>3, <2>4, <1>2
<1>5. lost'.count = lost.count + entry.lost_count
  BY <1>u
<1>6. {r.collections : r \in events} \subseteq lo..hi
  BY <1>2 DEF IsSpread
<1>7. ASSUME entry.lost_count # 0
      PROVE  /\ Span = [from |-> acc.last_collections + 1, to |-> Span.to,
                        ts_start |-> ts_last_poll, ts_stop |-> ts_poll]
             /\ Span.from = acc.last_collections + 1
             /\ Span.to \in Nat /\ Span.to <= lo - 1
             /\ Span.ts_start = ts_last_poll /\ Span.ts_stop = ts_poll
  <2>1. /\ entry.lost_count <= lo - acc.last_collections - 1
        /\ entry.lost_from = acc.last_collections + 1
    BY <1>1, <1>7, <1>n DEF Ahead
  <2> QED BY <2>1, <1>7, <1>n, <1>2 DEF Span
<1>8. TypeOK'
  <2>1. lost' \in [count : Nat, pause_ns : Nat]
    BY <1>u, <1>n
  <2>2. entry' \in [observed_count : Nat, lost_count : Nat, lost_pause_ns : Nat, lost_from : Nat]
    BY <1>u DEF NoEntry
  <2>3. sampled' \subseteq 1..Finished'
    <3>1. sampled \subseteq 1..Finished
      BY <1>t DEF TypeOK
    <3>2. lo..hi \subseteq 1..Finished
      BY <1>n, <1>2
    <3> QED BY <3>1, <3>2, <1>6, <1>u
  <2>4. gaps' \subseteq [from : Nat, to : Nat, ts_start : {NoPoll} \cup Nat, ts_stop : Nat]
    <3>1. gaps \subseteq [from : Nat, to : Nat, ts_start : {NoPoll} \cup Nat, ts_stop : Nat]
      BY <1>t DEF TypeOK
    <3>2. ts_last_poll \in {NoPoll} \cup Nat
      BY <1>t DEF TypeOK
    <3>3. CASE entry.lost_count = 0
      BY <3>1, <3>3, <1>u
    <3>4. CASE entry.lost_count # 0
      <4>1. Span \in [from : Nat, to : Nat, ts_start : {NoPoll} \cup Nat, ts_stop : Nat]
        BY <3>2, <3>4, <1>7, <1>n
      <4> QED BY <3>1, <3>4, <4>1, <1>u
    <3> QED BY <3>3, <3>4
  <2>5. (/\ ts_poll \in 0..Finished
         /\ ts_last_poll \in {NoPoll} \cup (0..Finished)
         /\ events \subseteq [collections : 1..Finished, copy : {0, 1}]
         /\ todo \subseteq events
         /\ writing \in BOOLEAN
         /\ pc \in {"idle", "reading", "folding"}
         /\ runs \in Seq([pause : Pauses, duration : Nat, slack : Nat]))'
    BY <1>t, <1>u DEF TypeOK
  <2> QED BY <1>4, <2>1, <2>2, <2>3, <2>4, <2>5 DEF TypeOK
<1>9. Bounded'
  <2>1. ~Seeding'
    BY <1>3, <1>4, <1>n DEF Seeding
  <2>2. CASE Seeding
    <3>1. acc.first_collections = lo /\ entry.lost_count = 0
      BY <2>2, <1>1 DEF Ahead
    <3>2. lost.count = 0 /\ acc.sampled_count = 0
      BY <2>2 DEF AnyCopyInv, Bounded, Seeding
    <3> QED BY <2>1, <3>1, <3>2, <1>2, <1>3, <1>4, <1>5 DEF Bounded
  <2>3. CASE ~Seeding
    <3>1. entry.lost_count <= lo - acc.last_collections - 1
      BY <2>3, <1>1 DEF Ahead
    <3>2. acc.sampled_count + lost.count
            <= acc.last_collections - acc.first_collections + 1
      BY <2>3 DEF AnyCopyInv, Bounded
    <3> QED BY <2>1, <3>1, <3>2, <1>2, <1>3, <1>4, <1>5, <1>n DEF Bounded
  <2> QED BY <2>2, <2>3
<1>g. \A g \in gaps : /\ g.from \in Nat /\ g.to \in Nat
                      /\ g.ts_start \in Int /\ g.ts_stop \in Int
                      /\ g.to <= acc.last_collections /\ g.ts_stop <= ts_last_poll
  <2>1. gaps \subseteq [from : Nat, to : Nat, ts_start : {NoPoll} \cup Nat, ts_stop : Nat]
    BY <1>t DEF TypeOK
  <2>2. \A g \in gaps : /\ g.from \in Nat /\ g.to \in Nat
                        /\ g.ts_start \in {NoPoll} \cup Nat /\ g.ts_stop \in Nat
    BY <2>1
  <2>3. \A g \in gaps : g.to <= acc.last_collections /\ g.ts_stop <= ts_last_poll
    BY DEF AnyCopyInv, Passed
  <2> QED BY <2>2, <2>3 DEF NoPoll
<1>s. \A k \in sampled : k \in Nat /\ k <= acc.last_collections
  BY <1>t, <1>n DEF AnyCopyInv, Passed, TypeOK
<1>b. ts_last_poll <= ts_poll
  BY DEF AnyCopyInv, Passed
<1>10. Passed'
  <2>1. \A k \in sampled' : k <= acc'.last_collections
    BY <1>s, <1>u, <1>6, <1>4, <1>2, <1>n
  <2>2. ASSUME NEW g \in gaps'
        PROVE  g.to <= acc'.last_collections /\ g.ts_stop <= ts_last_poll'
    <3>1. CASE g \in gaps
      BY <3>1, <1>g, <1>b, <1>u, <1>4, <1>2, <1>n
    <3>2. CASE entry.lost_count # 0 /\ g = Span
      BY <3>2, <1>7, <1>u, <1>4, <1>2, <1>n
    <3> QED BY <3>1, <3>2, <1>u
  <2> QED BY <2>1, <2>2, <1>u, <1>n DEF Passed
<1>11. NoRunTwice'
  <2>1. \A g \in gaps' : \/ g \in gaps
                         \/ entry.lost_count # 0 /\ g = Span
    BY <1>u
  <2>2. ASSUME NEW g \in gaps', NEW k \in g.from..g.to
        PROVE  k \notin sampled'
    <3>1. CASE g \in gaps
      <4>1. k \notin sampled
        BY <3>1 DEF AnyCopyInv, NoRunTwice, LostRuns
      <4>2. k \in Nat /\ k <= acc.last_collections
        BY <3>1, <1>g, <1>n
      <4>3. k \notin lo..hi
        BY <4>2, <1>2, <1>n
      <4> QED BY <4>1, <4>3, <1>6, <1>u
    <3>2. CASE entry.lost_count # 0 /\ g = Span
      <4>1. k \in (acc.last_collections + 1)..(lo - 1)
        BY <3>2, <1>7, <1>n, <1>2
      <4>2. k \notin sampled
        BY <4>1, <1>s, <1>n, <1>2
      <4>3. k \notin lo..hi
        BY <4>1, <1>n, <1>2
      <4> QED BY <4>2, <4>3, <1>6, <1>u
    <3> QED BY <2>1, <3>1, <3>2
  <2>3. ASSUME NEW g \in gaps, entry.lost_count # 0
        PROVE  (g.from..g.to) \cap (Span.from..Span.to) = {}
    BY <2>3, <1>g, <1>7, <1>n
  <2>4. \A g, h \in gaps' : g # h => (g.from..g.to) \cap (h.from..h.to) = {}
    BY <2>1, <2>3 DEF AnyCopyInv, NoRunTwice
  <2> QED BY <2>2, <2>4 DEF NoRunTwice, LostRuns
<1>12. SpansTile'
  <2>1. \A g \in gaps' : \/ g \in gaps
                         \/ entry.lost_count # 0 /\ g = Span
    BY <1>u
  <2>2. ASSUME NEW g \in gaps, entry.lost_count # 0
        PROVE  g.ts_stop <= Span.ts_start
    BY <2>2, <1>g, <1>7
  <2> QED BY <2>1, <2>2 DEF AnyCopyInv, SpansTile
<1> QED BY <1>8, <1>9, <1>10, <1>11, <1>12, <1>u DEF AnyCopyInv

(* Every step keeps it: no contract of the target is needed. *)
LEMMA AnyCopyStep == AnyCopyInv /\ [Next]_vars => AnyCopyInv'
<1> SUFFICES ASSUME AnyCopyInv, [Next]_vars PROVE AnyCopyInv'
  OBVIOUS
<1>1. CASE Target
  BY <1>1, TargetAnyCopy
<1>2. CASE StartRead
  BY <1>2, StartReadAnyCopy
<1>3. CASE Copy
  BY <1>3, CopyAnyCopy
<1>4. CASE Fold
  BY <1>4, FoldAnyCopy
<1>5. CASE Settle
  BY <1>5, SettleAnyCopy
<1>6. CASE UNCHANGED vars
  <2> USE <1>6 DEF vars, target, polling, books
  <2>1. TypeOK'
    BY DEF AnyCopyInv, TypeOK, Finished
  <2>2. Bounded' /\ Passed' /\ NoRunTwice' /\ SpansTile'
    BY DEF AnyCopyInv, Bounded, Passed, NoRunTwice, SpansTile, LostRuns, Seeding
  <2>3. pc' = "folding" => \E lo, hi \in 1..Finished' : Ahead(lo, hi)'
    BY DEF AnyCopyInv, Ahead, Seeding, Finished
  <2> QED BY <2>1, <2>2, <2>3 DEF AnyCopyInv
<1> QED
  BY <1>1, <1>2, <1>3, <1>4, <1>5, <1>6 DEF Next, Poll

(* Every state satisfies it, of every target and every copy of its ring. *)
THEOREM AnyCopyInvariance == Spec => []AnyCopyInv
<1>1. Init => AnyCopyInv
  <2> SUFFICES ASSUME Init PROVE AnyCopyInv
    OBVIOUS
  <2>1. TypeOK
    BY InitIInv DEF IInv
  <2>3. Bounded
    BY DEF Init, Bounded, Seeding, NoRecords
  <2>2. Passed /\ NoRunTwice /\ SpansTile /\ pc # "folding"
    BY DEF Init, Passed, NoRunTwice, SpansTile, LostRuns, NoPoll
  <2> QED BY <2>1, <2>2, <2>3 DEF AnyCopyInv
<1> QED
  BY <1>1, AnyCopyStep, PTL DEF Spec

-----------------------------------------------------------------------------
(* What follows from the invariants. *)

(* The state keeps its shape: no poll names a run the target did not finish. *)
THEOREM TypeCorrect == Spec => []TypeOK
<1>1. AnyCopyInv => TypeOK
  BY DEF AnyCopyInv
<1> QED
  BY <1>1, AnyCopyInvariance, PTL

(***************************************************************************)
(* exact_count is what it is called: the runs the statistics of a ring add *)
(* up, sampled and lost, are the target's own count of them.               *)
(***************************************************************************)
THEOREM CountIsExact == Contract => (Spec => []CountAccounting)
<1>1. SUFFICES ASSUME Contract PROVE Spec => []CountAccounting
  OBVIOUS
<1>2. IInv => CountAccounting
  <2> SUFFICES ASSUME IInv PROVE acc.sampled_count + lost.count = ExactCount
    BY DEF CountAccounting
  <2>1. CASE Seeding
    BY <2>1 DEF IInv, BooksInv, ExactCount, Seeding
  <2>2. CASE ~Seeding
    BY <2>2 DEF IInv, BooksInv, ExactCount
  <2> QED
    BY <2>1, <2>2
<1>3. Spec => []IInv
  BY <1>1, Invariance
<1> QED
  BY <1>2, <1>3, PTL

(***************************************************************************)
(* The pause a ring reports, sampled and lost, differs from the delta of   *)
(* the target's own duration by no more than the rounding of that float,   *)
(* although lost pause is floored at zero gap by gap.                      *)
(***************************************************************************)
THEOREM PauseIsExact == Contract => (Spec => []PauseAccounting)
<1>1. SUFFICES ASSUME Contract PROVE Spec => []PauseAccounting
  OBVIOUS
<1>2. IInv => PauseAccounting
  <2> SUFFICES ASSUME IInv, pc = "idle", ~Seeding
               PROVE  Magnitude(acc.sampled_pause_ns + lost.pause_ns - ExactPause)
                        <= Slack(acc.last_collections)
    BY DEF PauseAccounting, Slack
  <2>n. TypeOK
    BY DEF IInv
  <2> USE <2>n, Numbers
  <2> DEFINE f == acc.first_collections
             l == acc.last_collections
  <2>1. f \in 1..Finished /\ l \in 1..Finished /\ acc.last_duration = runs[l].duration
    BY DEF IInv, BooksInv
  <2>2. entry.lost_pause_ns = 0 /\ Within(Balance(l), Slack(l))
    BY DEF IInv, IdleInv, NoEntry
  <2>3. Balance(l) = acc.sampled_pause_ns + lost.pause_ns - ExactPause
    BY <2>1, <2>2 DEF Balance, ExactPause
  <2>4. Balance(l) \in Int /\ Slack(l) \in Int
    BY <2>1 DEF Balance, Slack
  <2> QED
    BY <2>2, <2>3, <2>4 DEF Magnitude, Within
<1>3. Spec => []IInv
  BY <1>1, Invariance
<1> QED
  BY <1>2, <1>3, PTL

(***************************************************************************)
(* Whatever the copies of the ring held back or tore apart, and whatever   *)
(* runs had no width, the runs reported, sampled and lost together, are    *)
(* never more than the target finished between the first and the cursor.   *)
(***************************************************************************)
THEOREM NeverMoreRuns == Spec => []NeverOvercounts
<1>1. AnyCopyInv => NeverOvercounts
  <2> SUFFICES ASSUME AnyCopyInv PROVE acc.sampled_count + lost.count <= ExactCount
    BY DEF NeverOvercounts
  <2>1. CASE Seeding
    BY <2>1 DEF AnyCopyInv, Bounded, ExactCount, Seeding
  <2>2. CASE ~Seeding
    BY <2>2 DEF AnyCopyInv, Bounded, ExactCount
  <2> QED BY <2>1, <2>2
<1> QED
  BY <1>1, AnyCopyInvariance, PTL

(* No run is a record and inside a loss span, and none is inside two spans. *)
THEOREM EachRunOnce == Spec => []NoRunTwice
<1>1. AnyCopyInv => NoRunTwice
  BY DEF AnyCopyInv
<1> QED
  BY <1>1, AnyCopyInvariance, PTL

(* Loss spans are poll intervals: two of them never overlap in time. *)
THEOREM SpansAreDisjoint == Spec => []SpansTile
<1>1. AnyCopyInv => SpansTile
  BY DEF AnyCopyInv
<1> QED
  BY <1>1, AnyCopyInvariance, PTL

(***************************************************************************)
(* On a ring of two slots or more, each run a span names finished after    *)
(* the read before the one that found the gap began.  On a ring of one, a  *)
(* read that meets a half-written slot sees nothing and moves that instant *)
(* all the same.                                                           *)
(***************************************************************************)
THEOREM SpansAreDated == Contract /\ RingSize > 1 => (Spec => []LostSinceLastRead)
<1>1. SUFFICES ASSUME Contract, RingSize > 1 PROVE Spec => []LostSinceLastRead
  OBVIOUS
<1>2. IInv => LostSinceLastRead
  <2> SUFFICES ASSUME IInv, NEW g \in gaps, NEW k \in g.from..g.to
               PROVE  g.ts_start < k
    BY DEF LostSinceLastRead
  <2>1. g.from \in Int /\ g.to \in Int /\ g.ts_start \in Int
    <3>1. gaps \subseteq [from : Nat, to : Nat, ts_start : {NoPoll} \cup Nat, ts_stop : Nat]
      BY DEF IInv, TypeOK
    <3>2. {NoPoll} \cup Nat \subseteq Int
      BY DEF NoPoll
    <3> QED
      BY ONLY <3>1, <3>2
  <2>2. g.ts_start < g.from
    BY <1>1 DEF IInv, GapsInv
  <2> QED
    BY <2>1, <2>2
<1>3. Spec => []IInv
  BY <1>1, Invariance
<1> QED
  BY <1>2, <1>3, PTL

(***************************************************************************)
(* RingAccumulator implements the ledger: a record finished by the target  *)
(* is a Finish, a poll that settles is a Settle, all else is a stutter.    *)
(***************************************************************************)
THEOREM Implementation == Contract => (Spec => LedgerSpec)
<1>1. SUFFICES ASSUME Contract PROVE Spec => LedgerSpec
  OBVIOUS
<1>2. Init => Ledger!Init
  BY DEF Init, Ledger!Init, Finished, LostRuns, NoRecords
<1>3. IInv /\ [Next]_vars => [Ledger!Next]_(Ledger!ledgerVars)
  <2> SUFFICES ASSUME IInv, [Next]_vars
               PROVE  Ledger!Next \/ UNCHANGED Ledger!ledgerVars
    OBVIOUS
  <2>n. TypeOK
    BY DEF IInv
  <2> USE <2>n, Numbers DEF Ledger!ledgerVars
  <2>1. CASE BeginWrite
    BY <2>1 DEF BeginWrite, books, Finished, LostRuns
  <2>2. CASE FinishWrite
    <3>1. Finished' = Finished + 1
      <4>1. PICK run : runs' = Append(runs, run)
        BY <2>2 DEF FinishWrite
      <4>2. runs \in Seq([pause : Pauses, duration : Nat, slack : Nat])
        BY DEF TypeOK
      <4> QED
        BY <4>1, <4>2 DEF Finished
    <3> QED
      BY <2>2, <3>1 DEF FinishWrite, books, LostRuns, Ledger!Next, Ledger!Finish
  <2>3. CASE StartRead
    BY <2>3 DEF StartRead, target, books, Finished, LostRuns
  <2>4. CASE Copy
    <3>1. acc'.last_collections = acc.last_collections
      <4>1. PICK a, b, c :
              \/ acc' = acc
              \/ acc' = [acc EXCEPT !.first_collections = a,
                                    !.first_pause_ns = b,
                                    !.first_duration = c]
        BY <2>4, Zenon DEF Copy
      <4> QED
        BY <4>1 DEF TypeOK
    <3> QED
      BY <2>4, <3>1 DEF Copy, target, Finished, LostRuns
  <2>5. CASE Fold
    <3>1. acc'.last_collections = acc.last_collections
      BY <2>5 DEF Fold, TypeOK
    <3> QED
      BY <2>5, <3>1 DEF Fold, target, Finished, LostRuns
  <2>6. CASE Settle
    <3>1. PICK lo, hi \in 1..Finished :
            /\ Folding(lo, hi, hi + 1)
            /\ acc'.last_collections = hi
            /\ sampled' = sampled \cup (lo..hi)
            /\ LostRuns' = IF Seeding THEN LostRuns
                           ELSE LostRuns \cup ((acc.last_collections + 1)..(lo - 1))
      BY <2>6, SettleEffect
    <3>2. acc.last_collections < lo /\ lo <= hi
      BY <3>1 DEF Folding
    <3>3. acc.last_collections = 0 <=> Seeding
      BY DEF IInv, BooksInv
    <3>4. Finished' = Finished
      BY <2>6 DEF Settle, Span, target, Finished
    <3>5. Ledger!Settle
      BY <3>1, <3>2, <3>3, <3>4 DEF Ledger!Settle
    <3> QED
      BY <3>5 DEF Ledger!Next
  <2>7. CASE UNCHANGED vars
    BY <2>7 DEF vars, target, books, Finished, LostRuns
  <2> QED
    BY <2>1, <2>2, <2>3, <2>4, <2>5, <2>6, <2>7 DEF Next, Target, Poll
<1>4. Spec => []IInv
  BY <1>1, Invariance
<1> QED
  BY <1>2, <1>3, <1>4, PTL DEF Spec, LedgerSpec, Ledger!Spec
=============================================================================
