------------------------- MODULE EventsMonitorProofs -------------------------
(***************************************************************************)
(* One run of the monitor, for any tree of processes, any number of ticks, *)
(* and reads and listings that fail wherever they like.                    *)
(*                                                                         *)
(* The invariants come in layers, each proved from those before it: types, *)
(* what gcmon holds, the order of instants, and whose each record is.  Two *)
(* more hold where the program's use is narrowed: nobody suppresses a pid, *)
(* or reads and listings fail only for the dead.                           *)
(***************************************************************************)
EXTENDS EventsMonitor, WellFoundedInduction, TLAPS

-----------------------------------------------------------------------------
(* The registry, as the tick uses it. *)

RegInv == Registry!TypeOK /\ Registry!EpochsCount

LEMMA Constants ==
  /\ Root \in Pids /\ RingSize \in Nat \ {0} /\ MinIdle \in Nat /\ Timeout \in Nat
  /\ MaxTime \in Nat /\ MaxHolders \in Nat \ {0} /\ MaxRecords \in [Pids -> Nat]
  BY RootAssumption, MonitorAssumption

(* A non-empty set of natural numbers has a least member. *)
LEMMA SmallestIndex ==
  ASSUME NEW S, S \subseteq Nat, S # {}
  PROVE  \E m \in S : \A n \in S : m <= n
<1>1. OpToRel(<, Nat) = {pair \in Nat \X Nat : pair[1] < pair[2]}
  BY DEF OpToRel
<1>2. PICK m \in S : \A n \in S : ~ (<<n, m>> \in OpToRel(<, Nat))
  BY NatLessThanWellFounded, WFMin
<1>3. \A n \in S : ~ (n < m)
  BY <1>1, <1>2
<1> QED BY <1>3

(* A process created has the name after those of all who left. *)
LEMMA CreateEffect ==
  ASSUME RegInv, NEW pid \in Pids, Registry!Create(pid)
  PROVE  /\ RegInv'
         /\ DOMAIN live' = DOMAIN live \cup {pid} /\ pid \notin DOMAIN live
         /\ \A q \in DOMAIN live : live'[q] = live[q]
         /\ live'[pid] = Registry!NextProcess(pid)
         /\ retired' = retired /\ now' = now
<1>1. /\ DOMAIN live' = DOMAIN live \cup {pid} /\ pid \notin DOMAIN live
      /\ \A q \in DOMAIN live : live'[q] = live[q]
      /\ live' = [q \in DOMAIN live' |-> live'[q]]
      /\ live'[pid] = Registry!NextProcess(pid)
      /\ retired' = retired /\ now' = now
  BY DEF Registry!Create, Registry!Held
<1>2. /\ Registry!NextProcess(pid) \in Registry!Process
      /\ Registry!NextProcess(pid) = [pid |-> pid, epoch |-> Len(retired[pid]) + 1]
  BY DEF RegInv, Registry!TypeOK, Registry!NextProcess, Registry!Process
<1>3. Registry!TypeOK'
  <2>1. \A q \in DOMAIN live' : live'[q] \in Registry!Process
    BY <1>1, <1>2 DEF RegInv, Registry!TypeOK
  <2>2. live' \in [DOMAIN live' -> Registry!Process]
    BY <1>1, <2>1
  <2> QED BY <1>1, <2>2 DEF RegInv, Registry!TypeOK
<1>4. Registry!EpochsCount'
  BY <1>1, <1>2 DEF RegInv, Registry!EpochsCount, Registry!Held
<1> QED BY <1>1, <1>3, <1>4 DEF RegInv

(* Retiring appends one departure to the book of each pid that leaves, dated ts. *)
LEMMA RetireEffect ==
  ASSUME RegInv, NEW leaving, NEW ts \in Nat, Registry!RetireAll(leaving, ts)
  PROVE  /\ RegInv'
         /\ DOMAIN live' = DOMAIN live \ leaving
         /\ \A q \in DOMAIN live' : live'[q] = live[q]
         /\ now' = now
         /\ \A pid \in Pids :
              /\ pid \in leaving /\ pid \in DOMAIN live =>
                   /\ Len(retired'[pid]) = Len(retired[pid]) + 1
                   /\ retired'[pid][Len(retired[pid]) + 1] = [process |-> live[pid], ts |-> ts]
                   /\ \A i \in 1..Len(retired[pid]) : retired'[pid][i] = retired[pid][i]
              /\ ~(pid \in leaving /\ pid \in DOMAIN live) => retired'[pid] = retired[pid]
<1>1. ASSUME NEW pid \in Pids
      PROVE  /\ pid \in leaving /\ pid \in DOMAIN live =>
                   /\ Len(retired'[pid]) = Len(retired[pid]) + 1
                   /\ retired'[pid][Len(retired[pid]) + 1] = [process |-> live[pid], ts |-> ts]
                   /\ \A i \in 1..Len(retired[pid]) : retired'[pid][i] = retired[pid][i]
             /\ ~(pid \in leaving /\ pid \in DOMAIN live) => retired'[pid] = retired[pid]
  <2> DEFINE d == [process |-> live[pid], ts |-> ts]
  <2>1. retired[pid] \in Seq(Registry!Departure)
    BY DEF RegInv, Registry!TypeOK
  <2>2. retired'[pid] = IF pid \in leaving /\ pid \in DOMAIN live THEN Append(retired[pid], d)
                        ELSE retired[pid]
    BY DEF Registry!RetireAll, Registry!Held
  <2>3. CASE pid \in leaving /\ pid \in DOMAIN live
    <3>1. d \in Registry!Departure
      BY <2>3 DEF RegInv, Registry!TypeOK, Registry!Departure
    <3> HIDE DEF d
    <3>2. /\ Len(retired'[pid]) = Len(retired[pid]) + 1
          /\ retired'[pid][Len(retired[pid]) + 1] = d
          /\ \A i \in 1..Len(retired[pid]) : retired'[pid][i] = retired[pid][i]
      BY <2>1, <2>2, <2>3, <3>1
    <3> QED BY <2>3, <3>2 DEF d
  <2> QED BY <2>2, <2>3
<1>2. /\ DOMAIN live' = DOMAIN live \ leaving /\ now' = now
      /\ \A q \in DOMAIN live' : live'[q] = live[q]
      /\ live' = [q \in DOMAIN live' |-> live'[q]]
      /\ retired' = [pid \in Pids |-> retired'[pid]]
  BY DEF Registry!RetireAll
<1>3. ASSUME NEW pid \in Pids
      PROVE  /\ retired'[pid] \in Seq(Registry!Departure)
             /\ \A i \in 1..Len(retired'[pid]) : retired'[pid][i].process = [pid |-> pid, epoch |-> i]
             /\ pid \in DOMAIN live' => live'[pid] = [pid |-> pid, epoch |-> Len(retired'[pid]) + 1]
  <2> DEFINE n == Len(retired[pid])
             d == [process |-> live[pid], ts |-> ts]
  <2>1. /\ retired[pid] \in Seq(Registry!Departure) /\ n \in Nat
        /\ \A i \in 1..n : retired[pid][i].process = [pid |-> pid, epoch |-> i]
        /\ pid \in DOMAIN live => live[pid] = [pid |-> pid, epoch |-> n + 1]
    BY DEF RegInv, Registry!TypeOK, Registry!EpochsCount, Registry!Held
  <2>2. CASE pid \in leaving /\ pid \in DOMAIN live
    <3>1. d \in Registry!Departure /\ d.process = [pid |-> pid, epoch |-> n + 1]
      BY <2>1, <2>2 DEF RegInv, Registry!TypeOK, Registry!Departure
    <3>2. retired'[pid] = Append(retired[pid], d)
      BY <2>2 DEF Registry!RetireAll, Registry!Held
    <3> HIDE DEF d
    <3>3. retired'[pid] \in Seq(Registry!Departure)
      BY <2>1, <3>1, <3>2
    <3>4. \A i \in 1..Len(retired'[pid]) : retired'[pid][i].process = [pid |-> pid, epoch |-> i]
      BY <2>1, <3>1, <3>2
    <3> QED BY <1>2, <2>2, <3>3, <3>4
  <2>3. CASE ~(pid \in leaving /\ pid \in DOMAIN live)
    <3>1. retired'[pid] = retired[pid] /\ (pid \in DOMAIN live' => live'[pid] = live[pid])
      BY <1>1, <1>2, <2>3
    <3> QED BY <1>2, <2>1, <3>1
  <2> QED BY <2>2, <2>3
<1>4. Registry!TypeOK'
  <2>1. live' \in [DOMAIN live' -> Registry!Process] /\ DOMAIN live' \subseteq Pids
    BY <1>2 DEF RegInv, Registry!TypeOK
  <2>2. retired' \in [Pids -> Seq(Registry!Departure)]
    BY <1>2, <1>3
  <2> QED BY <1>2, <2>1, <2>2 DEF RegInv, Registry!TypeOK
<1>5. Registry!EpochsCount'
  BY <1>3 DEF Registry!EpochsCount, Registry!Held
<1> QED BY <1>1, <1>2, <1>4, <1>5 DEF RegInv

(* What is filed under a pid's holder: what is dated after every departure of the pid. *)
After(pid, ts) == \A i \in 1..Len(retired[pid]) : retired[pid][i].ts < ts

LEMMA AtHolder ==
  RegInv => \A pid \in DOMAIN live, ts \in Instant : Registry!At(pid, ts) = live[pid] <=> After(pid, ts)
<1> SUFFICES ASSUME RegInv, NEW pid \in DOMAIN live, NEW ts \in Instant
             PROVE  Registry!At(pid, ts) = live[pid] <=> After(pid, ts)
  OBVIOUS
<1> DEFINE left == Registry!LeftAfter(pid, ts)
           n == Len(retired[pid])
<1>1. /\ pid \in Pids /\ retired[pid] \in Seq(Registry!Departure) /\ n \in Nat
      /\ live[pid] = [pid |-> pid, epoch |-> n + 1]
      /\ \A i \in 1..n : retired[pid][i].process = [pid |-> pid, epoch |-> i]
  <2>1. pid \in Pids
    BY DEF RegInv, Registry!TypeOK
  <2>2. retired[pid] \in Seq(Registry!Departure)
    BY <2>1 DEF RegInv, Registry!TypeOK
  <2>3. n \in Nat
    BY <2>2
  <2> QED BY <2>1, <2>2, <2>3 DEF RegInv, Registry!EpochsCount, Registry!Held
<1>2. \A i \in 1..n : retired[pid][i].ts \in Nat
  <2>1. \A i \in 1..n : retired[pid][i] \in Registry!Departure
    BY <1>1
  <2> QED BY <2>1 DEF Registry!Departure
<1>3. left = {} <=> After(pid, ts)
  BY <1>2, Constants DEF After, Registry!LeftAfter, Instant
<1>4. CASE left = {}
  BY <1>3, <1>4 DEF Registry!At, Registry!Held
<1>5. CASE left # {}
  <2> DEFINE first == CHOOSE i \in left : \A j \in left : i <= j
  <2>1. left \subseteq Nat /\ left \subseteq 1..n
    BY <1>1 DEF Registry!LeftAfter
  <2>2. \E i \in left : \A j \in left : i <= j
    BY <2>1, <1>5, SmallestIndex
  <2>3. first \in left
    BY <2>2
  <2>4. Registry!At(pid, ts) = retired[pid][first].process
    BY <1>5 DEF Registry!At
  <2> HIDE DEF first
  <2>5. Registry!At(pid, ts) = [pid |-> pid, epoch |-> first] /\ first \in 1..n
    BY <1>1, <2>1, <2>3, <2>4
  <2>6. first # n + 1
    BY <1>1, <2>5
  <2> QED BY <1>1, <1>3, <1>5, <2>5, <2>6
<1> QED BY <1>4, <1>5

-----------------------------------------------------------------------------
(* The first layer: types. *)

TypeInv ==
  /\ TypeOK
  /\ Registry!EpochsCount
  /\ \A pid \in alive : born[pid] >= 1
  /\ now \in Instant
  /\ pc = "reading" => reading \in DOMAIN policies /\ reading \notin todo

Span == [first : Instant, last : Instant]
Ends(f, p) == {f[p].first, f[p].last}

(* The ends of a widened span are among the instants handed on and its old ends. *)
LEMMA WidenEffect ==
  ASSUME NEW f, NEW p, NEW instants \in SUBSET Instant, p \in DOMAIN f => f[p] \in Span
  PROVE  /\ DOMAIN Widen(f, p, instants) = DOMAIN f \cup (IF instants = {} THEN {} ELSE {p})
         /\ \A q \in DOMAIN f : q # p => Widen(f, p, instants)[q] = f[q]
         /\ p \in DOMAIN Widen(f, p, instants) =>
              /\ Widen(f, p, instants)[p] \in Span
              /\ Ends(Widen(f, p, instants), p)
                   \subseteq instants \cup (IF p \in DOMAIN f THEN Ends(f, p) ELSE {})
<1>1. CASE instants = {}
  BY <1>1 DEF Widen
<1>2. CASE instants # {}
  <2> DEFINE known == instants \cup (IF p \in DOMAIN f THEN {f[p].first, f[p].last} ELSE {})
             least == CHOOSE t \in known : \A u \in known : t <= u
             most == CHOOSE t \in known : \A u \in known : t >= u
  <2>1. known \subseteq Instant /\ known # {}
    BY <1>2 DEF Span
  <2>2. Instant \subseteq Nat
    BY Constants DEF Instant
  <2>3. \E t \in known : \A u \in known : t <= u
    <3> HIDE DEF known
    <3> QED BY <2>1, <2>2, SmallestIndex
  <2>4. \E t \in known : \A u \in known : t >= u
    <3> HIDE DEF known
    <3> DEFINE left == {MaxTime - t : t \in known}
    <3>1. left \subseteq Nat /\ left # {}
      <4>1. \A t \in known : MaxTime - t \in Nat
        BY <2>1, Constants DEF Instant
      <4> QED BY <2>1, <4>1
    <3>2. PICK m \in left : \A n \in left : m <= n
      <4> HIDE DEF left
      <4> QED BY <3>1, SmallestIndex
    <3>3. PICK t \in known : m = MaxTime - t
      BY <3>2
    <3>4. ASSUME NEW u \in known
          PROVE  t >= u
      <4>1. MaxTime - t <= MaxTime - u
        BY <3>2, <3>3
      <4>2. t \in Nat /\ u \in Nat /\ MaxTime \in Nat
        BY <2>1, <2>2, Constants
      <4> QED BY <4>1, <4>2
    <3> QED BY <3>4
  <2>5. least \in known /\ most \in known
    BY <2>3, <2>4
  <2>6. Widen(f, p, instants) = With(f, p, [first |-> least, last |-> most])
    BY <1>2 DEF Widen
  <2>7. known = instants \cup (IF p \in DOMAIN f THEN Ends(f, p) ELSE {})
    BY DEF Ends
  <2> HIDE DEF least, most, known
  <2>8. /\ DOMAIN Widen(f, p, instants) = DOMAIN f \cup {p}
        /\ \A q \in DOMAIN f : q # p => Widen(f, p, instants)[q] = f[q]
        /\ Widen(f, p, instants)[p] = [first |-> least, last |-> most]
    BY <2>6 DEF With
  <2> QED BY <1>2, <2>1, <2>5, <2>7, <2>8 DEF Span, Ends
<1> QED BY <1>1, <1>2

(***************************************************************************)
(* What a read that returned does: the ring it folds, from where, and what *)
(* of it is new (Fresh) and of the pid's holder (Taken).                   *)
(***************************************************************************)
Ring == records[reading][born[reading]]
State == IF reading \in DOMAIN states THEN states[reading]
         ELSE [cursor |-> 0, ts_last_poll |-> 0, holder |-> born[reading]]
Fresh == {k \in 1..Len(Ring) : k > Len(Ring) - RingSize /\ k > State.cursor}
Taken == {k \in Fresh : After(reading, Ring[k])}
Gap == State.cursor > 0 /\ Fresh # {} /\ State.cursor + 1 \notin Fresh
Instants == {Ring[k] : k \in Taken} \cup (IF Gap THEN {State.ts_last_poll, ts_read} ELSE {})
FiledAs(p, ks) == {[pid |-> reading, holder |-> born[reading], run |-> k, process |-> p] : k \in ks}

Folded ==
  /\ DOMAIN states' = DOMAIN states \cup {reading}
  /\ \A q \in DOMAIN states : q # reading => states'[q] = states[q]
  /\ states'[reading] = [cursor |-> IF Fresh = {} THEN State.cursor ELSE Len(Ring),
                         ts_last_poll |-> ts_read, holder |-> State.holder]
  /\ spans' = Widen(spans, live'[reading], Instants)
  /\ exported' = exported \cup FiledAs(live'[reading], Taken)
  /\ dropped' = dropped \cup FiledAs(live'[reading], Fresh \ Taken)

Filled ==
  /\ DOMAIN live' = DOMAIN live \cup {reading}
  /\ \A q \in DOMAIN live : live'[q] = live[q]
  /\ live'[reading] = [pid |-> reading, epoch |-> Len(retired[reading]) + 1]
  /\ retired' = retired /\ now' = now
  /\ announced' = announced \cup (IF reading \in DOMAIN live THEN {} ELSE {live'[reading]})

LEMMA ReadTypes ==
  ASSUME TypeInv, ReadReturns
  PROVE  /\ reading \in Pids /\ born[reading] \in 1..MaxHolders /\ reading \in alive
         /\ Ring \in Seq(Instant) /\ Len(Ring) \in Nat
         /\ State \in [cursor : Nat, ts_last_poll : Instant, holder : 1..MaxHolders]
         /\ Fresh \subseteq 1..Len(Ring) /\ Taken \subseteq Fresh
         /\ Instants \subseteq Instant
         /\ RegInv
<1>1. reading \in Pids /\ reading \in alive
  BY DEF TypeInv, TypeOK, ReadReturns
<1>2. born[reading] \in 1..MaxHolders
  BY <1>1, Constants DEF TypeInv, TypeOK
<1>3. Ring \in Seq(Instant)
  <2>1. records[reading] \in Seq(Seq(Instant)) /\ Len(records[reading]) = born[reading]
    BY <1>1 DEF TypeInv, TypeOK
  <2> QED BY <2>1, <1>2 DEF Ring
<1>4. Len(Ring) \in Nat /\ \A k \in 1..Len(Ring) : Ring[k] \in Instant
  BY <1>3
<1>5. State \in [cursor : Nat, ts_last_poll : Instant, holder : 1..MaxHolders]
  <2>1. CASE reading \in DOMAIN states
    BY <2>1 DEF State, TypeInv, TypeOK, PidMap
  <2>2. CASE reading \notin DOMAIN states
    BY <2>2, <1>2, Constants DEF State, Instant
  <2> QED BY <2>1, <2>2
<1>6. Fresh \subseteq 1..Len(Ring) /\ Taken \subseteq Fresh
  BY DEF Fresh, Taken
<1>7. Instants \subseteq Instant
  <2>1. ts_read \in Instant /\ State.ts_last_poll \in Instant
    BY <1>5 DEF TypeInv, TypeOK
  <2> QED BY <1>4, <1>6, <2>1 DEF Instants
<1> QED BY <1>1, <1>2, <1>3, <1>4, <1>5, <1>6, <1>7 DEF TypeInv, TypeOK, RegInv

LEMMA ReadEffect ==
  ASSUME TypeInv, ReadReturns
  PROVE  /\ RegInv' /\ Filled /\ Folded
         /\ live'[reading] \in Processes
         /\ reading' = reading /\ pc = "reading" /\ pc' = "polling"
         /\ reading \in ready
<1>1. reading \in Pids /\ RegInv /\ Fresh \subseteq 1..Len(Ring) /\ Ring \in Seq(Instant)
  BY ReadTypes
<1>2. RegInv' /\ Filled
  <2>1. CASE Registry!Held(reading)
    <3>1. UNCHANGED <<live, retired, now, announced>>
      BY <2>1 DEF ReadReturns, registry
    <3>2. RegInv'
      BY <1>1, <3>1 DEF RegInv, Registry!TypeOK, Registry!EpochsCount, Registry!Held
    <3>3. live[reading] = [pid |-> reading, epoch |-> Len(retired[reading]) + 1]
      BY <1>1, <2>1 DEF RegInv, Registry!EpochsCount
    <3> QED BY <2>1, <3>1, <3>2, <3>3 DEF Filled, Registry!Held
  <2>2. CASE ~Registry!Held(reading)
    <3>1. Registry!Create(reading) /\ announced' = announced \cup {Registry!NextProcess(reading)}
      BY <2>2 DEF ReadReturns
    <3> QED BY <1>1, <3>1, CreateEffect
           DEF Filled, Registry!NextProcess, Registry!Held
  <2> QED BY <2>1, <2>2
<1>3. /\ reading \in DOMAIN live' /\ retired' = retired
      /\ reading' = reading /\ Ring' = Ring /\ Instant' = Instant
  BY <1>2 DEF Filled, Ring, Instant, ReadReturns, world
<1>4. \A k \in Fresh : Registry!At(reading, Ring[k])' = live'[reading] <=> After(reading, Ring[k])
  <2>1. (\A pid \in DOMAIN live, ts \in Instant :
           Registry!At(pid, ts) = live[pid] <=> After(pid, ts))'
    BY <1>2, AtHolder, PTL
  <2> SUFFICES ASSUME NEW k \in Fresh
               PROVE  Registry!At(reading, Ring[k])' = live'[reading] <=> After(reading, Ring[k])
    OBVIOUS
  <2>2. Ring[k] \in Instant
    BY <1>1
  <2>3. reading' \in DOMAIN live' /\ (Ring[k])' \in Instant' /\ (Ring[k])' = Ring[k]
    BY <1>3, <2>2
  <2>4. Registry!At(reading, Ring[k])' = live'[reading'] <=> After(reading, Ring[k])'
    BY <2>1, <2>3
  <2>5. After(reading, Ring[k])' <=> After(reading, Ring[k])
    BY <1>3, <2>3 DEF After
  <2> QED BY <1>3, <2>4, <2>5
<1>5. Ingest(reading, live'[reading])
  BY DEF ReadReturns
<1>6. {k \in Fresh : Registry!At(reading, Ring[k])' # live'[reading]} = Fresh \ Taken
  BY <1>4 DEF Taken
<1>7. Folded
  <2> DEFINE F == {k \in Fresh : Registry!At(reading, Ring[k])' # live'[reading]}
  <2>1. /\ states' = With(states, reading,
                       [cursor |-> IF Fresh = {} THEN State.cursor ELSE Len(Ring),
                        ts_last_poll |-> ts_read, holder |-> State.holder])
        /\ spans' = Widen(spans, live'[reading],
                          {Ring[k] : k \in Fresh \ F}
                            \cup (IF Gap THEN {State.ts_last_poll, ts_read} ELSE {}))
        /\ exported' = exported \cup FiledAs(live'[reading], Fresh \ F)
        /\ dropped' = dropped \cup FiledAs(live'[reading], F)
    BY <1>5 DEF Ingest, Fresh, Ring, State, Gap, FiledAs
  <2>2. F = Fresh \ Taken /\ Fresh \ F = Taken
    BY <1>6 DEF Taken
  <2> HIDE DEF F
  <2>3. /\ spans' = Widen(spans, live'[reading], Instants)
        /\ exported' = exported \cup FiledAs(live'[reading], Taken)
        /\ dropped' = dropped \cup FiledAs(live'[reading], Fresh \ Taken)
    BY <2>1, <2>2 DEF Instants
  <2> QED BY <2>1, <2>3 DEF Folded, With
<1>8. reading' = reading /\ pc = "reading" /\ pc' = "polling" /\ reading \in ready
  BY DEF ReadReturns
<1>9. live'[reading] \in Processes
  BY <1>1, <1>2 DEF Filled, RegInv, Registry!TypeOK, Processes
<1> QED BY <1>2, <1>7, <1>8, <1>9

(* What retiring does to the books and to the pids' counters: prune and failed read alike. *)
Departs(leaving) ==
  /\ DOMAIN live' = DOMAIN live \ leaving
  /\ \A q \in DOMAIN live' : live'[q] = live[q]
  /\ now' = now
  /\ DOMAIN states' = DOMAIN states \ leaving
  /\ \A q \in DOMAIN states' : states'[q] = states[q]
  /\ \A pid \in Pids :
       /\ pid \in leaving /\ pid \in DOMAIN live =>
            /\ Len(retired'[pid]) = Len(retired[pid]) + 1
            /\ retired'[pid][Len(retired[pid]) + 1] = [process |-> live[pid], ts |-> now]
            /\ \A i \in 1..Len(retired[pid]) : retired'[pid][i] = retired[pid][i]
       /\ ~(pid \in leaving /\ pid \in DOMAIN live) => retired'[pid] = retired[pid]
  /\ departed' = departed \cup {live[q] : q \in DOMAIN live \cap leaving}

LEMMA LiveOf ==
  ASSUME RegInv, NEW leaving
  PROVE  {p \in Registry!Live : p.pid \in leaving} = {live[q] : q \in DOMAIN live \cap leaving}
<1>1. ASSUME NEW q \in DOMAIN live
      PROVE  live[q].pid = q
  <2>1. q \in Pids
    BY DEF RegInv, Registry!TypeOK
  <2>2. live[q] = [pid |-> q, epoch |-> Len(retired[q]) + 1]
    BY <2>1 DEF RegInv, Registry!EpochsCount, Registry!Held
  <2> QED BY <2>2
<1> QED BY <1>1 DEF Registry!Live

Children == {Root} \cup (IF Root \in alive THEN alive ELSE {})

LEMMA ListEffect ==
  ASSUME TypeInv, List
  PROVE  /\ RegInv /\ RegInv' /\ Children \subseteq Pids /\ Departs(Pids \ Children)
         /\ pc = "listing" /\ pc' = "polling" /\ todo' = Children
         /\ tick_read' = now /\ answered' = {} /\ keep' = FALSE
         /\ DOMAIN policies' = DOMAIN policies \cap Children
         /\ \A q \in DOMAIN policies' : policies'[q] = policies[q]
         /\ attached' = attached \cap Children
         /\ gone' = gone \cup {pid \in Pids \ alive : pid # Root /\ born[pid] > 0}
         /\ UNCHANGED <<clock, world, suppressed, stop, reading, ts_read, announced, spans,
                        exported, dropped>>
<1> DEFINE left == Pids \ Children
<1>1. RegInv /\ now \in Nat /\ Children \subseteq Pids /\ attached \subseteq Pids
      /\ DOMAIN policies \subseteq Pids
  BY Constants DEF TypeInv, TypeOK, RegInv, Registry!TypeOK, Children, PidMap
<1>2. StartPolling(Children) /\ RetainPids(Children)
  BY DEF List, Children
<1>3. Registry!RetireAll(left, now)
  BY <1>2 DEF RetainPids, Registry!Retain
<1>4. /\ states' = Without(states, left) /\ policies' = Without(policies, left)
      /\ attached' = attached \ left
      /\ departed' = departed \cup {p \in Registry!Live : p.pid \in left}
  BY <1>2 DEF RetainPids
<1>5. departed' = departed \cup {live[q] : q \in DOMAIN live \cap left}
  BY <1>1, <1>4, LiveOf
<1>6. DOMAIN states' = DOMAIN states \ left /\ \A q \in DOMAIN states' : states'[q] = states[q]
  BY <1>4 DEF Without
<1>7. RegInv' /\ Departs(left)
  <2> HIDE DEF left
  <2> QED BY <1>1, <1>3, <1>5, <1>6, RetireEffect DEF Departs
<1>8. /\ DOMAIN policies' = DOMAIN policies \cap Children
      /\ \A q \in DOMAIN policies' : policies'[q] = policies[q]
      /\ attached' = attached \cap Children
  BY <1>1, <1>4 DEF Without
<1> QED BY <1>1, <1>2, <1>7, <1>8 DEF List, StartPolling

(* A pid kept waiting for was never seen alive; any other is forgotten. *)
LEMMA FailEffect ==
  ASSUME TypeInv, ReadFails
  PROVE  /\ RegInv /\ RegInv' /\ reading \in Pids /\ reading \in DOMAIN policies
         /\ \/ /\ ~policies[reading].seen /\ keep' = TRUE
               /\ UNCHANGED <<states, live, retired, now, departed>>
            \/ Departs({reading}) /\ keep' = keep
         /\ pc = "reading" /\ pc' = "polling" /\ reading' = reading
         /\ attached' = attached \ {reading} /\ ts_read' = 0
         /\ gone' = (IF reading \in alive THEN gone ELSE gone \cup {reading})
         /\ reading \notin ready \/ Transients
         /\ UNCHANGED <<clock, world, suppressed, stop, todo, tick_read, answered,
                        policies, announced, spans, exported, dropped>>
<1>1. RegInv /\ now \in Nat /\ reading \in Pids /\ reading \in DOMAIN policies
  BY DEF TypeInv, TypeOK, RegInv, Registry!TypeOK, ReadFails
<1>2. \/ /\ ~policies[reading].seen /\ keep' = TRUE
         /\ UNCHANGED <<states, registry, departed>>
      \/ Forget(reading) /\ keep' = keep
  BY DEF ReadFails, KeepsWaiting
<1>3. CASE /\ ~policies[reading].seen /\ keep' = TRUE
           /\ UNCHANGED <<states, registry, departed>>
  <2>1. UNCHANGED <<states, live, retired, now, departed>>
    BY <1>3 DEF registry
  <2>2. RegInv'
    BY <1>1, <2>1 DEF RegInv, Registry!TypeOK, Registry!EpochsCount, Registry!Held
  <2> QED BY <1>1, <1>3, <2>1, <2>2 DEF ReadFails
<1>4. CASE Forget(reading) /\ keep' = keep
  <2>1. Registry!RetireAll({reading}, now) /\ states' = Without(states, {reading})
        /\ departed' = departed \cup {p \in Registry!Live : p.pid = reading}
    BY <1>4 DEF Forget, Registry!Retire
  <2>2. {p \in Registry!Live : p.pid = reading} = {p \in Registry!Live : p.pid \in {reading}}
    OBVIOUS
  <2>3. departed' = departed \cup {live[q] : q \in DOMAIN live \cap {reading}}
    BY <1>1, <2>1, <2>2, LiveOf
  <2>4. DOMAIN states' = DOMAIN states \ {reading}
        /\ \A q \in DOMAIN states' : states'[q] = states[q]
    BY <2>1 DEF Without
  <2>5. RegInv' /\ Departs({reading})
    BY <1>1, <2>1, <2>3, <2>4, RetireEffect DEF Departs
  <2> QED BY <1>1, <1>4, <2>5 DEF ReadFails
<1> QED BY <1>2, <1>3, <1>4

(* What the world does changes nothing that gcmon holds. *)
LEMMA WorldEffect ==
  ASSUME World
  PROVE  /\ UNCHANGED <<tick, held, registry, exporter>>
         /\ clock' \in {clock, clock + 1}
BY DEF World, Elapse, Signal, Spawn, Start, Collect, Exit, Suppress, Resume

LEMMA TypeInit == Init => TypeInv
<1> SUFFICES ASSUME Init PROVE TypeInv
  OBVIOUS
<1>1. Root \in Pids /\ 0 \in Instant
  BY Constants DEF Instant
<1>2. Registry!TypeOK /\ Registry!EpochsCount
  BY DEF Init, Registry!Init, Registry!TypeOK, Registry!EpochsCount, Registry!Held
<1>3. records \in [Pids -> Seq(Seq(Instant))] /\ \A pid \in Pids : Len(records[pid]) = born[pid]
  <2>1. << <<>> >> \in Seq(Seq(Instant)) /\ << >> \in Seq(Seq(Instant))
        /\ Len(<< <<>> >>) = 1
    OBVIOUS
  <2> QED BY <2>1 DEF Init
<1>4. born \in [Pids -> 0..MaxHolders] /\ \A pid \in alive : born[pid] >= 1
  BY Constants DEF Init
<1>5. PidMap(states, [cursor : Nat, ts_last_poll : Instant, holder : 1..MaxHolders])
      /\ PidMap(policies, [seen : BOOLEAN, start : Instant])
      /\ \A p \in DOMAIN spans : p \in Processes /\ spans[p] \in [first : Instant, last : Instant]
  BY DEF Init, PidMap
<1>6. {stop, keep} \subseteq BOOLEAN
  BY DEF Init
<1>7. TypeOK
  BY <1>1, <1>2, <1>3, <1>4, <1>5, <1>6 DEF Init, TypeOK
<1>8. now = 0 /\ pc # "reading"
  BY DEF Init, Registry!Init
<1> QED BY <1>1, <1>2, <1>4, <1>7, <1>8 DEF TypeInv

(* The steps of the world. *)
LEMMA TypeWorld == TypeInv /\ World => TypeInv'
<1> SUFFICES ASSUME TypeInv, World PROVE TypeInv'
  OBVIOUS
<1>1. UNCHANGED <<tick, held, registry, exporter>>
  BY WorldEffect
<1>2. /\ clock \in Instant /\ born \in [Pids -> 0..MaxHolders]
      /\ ready \subseteq alive /\ alive \subseteq Pids /\ gone \subseteq Pids \ alive
      /\ records \in [Pids -> Seq(Seq(Instant))] /\ suppressed \subseteq Pids
      /\ \A pid \in Pids : Len(records[pid]) = born[pid]
      /\ \A pid \in alive : born[pid] >= 1
  BY DEF TypeInv, TypeOK
<1>3. SUFFICES /\ clock' \in Instant /\ born' \in [Pids -> 0..MaxHolders]
               /\ ready' \subseteq alive' /\ alive' \subseteq Pids /\ gone' \subseteq Pids \ alive'
               /\ records' \in [Pids -> Seq(Seq(Instant))] /\ suppressed' \subseteq Pids
               /\ \A pid \in Pids : Len(records'[pid]) = born'[pid]
               /\ \A pid \in alive' : born'[pid] >= 1
               /\ stop' \in BOOLEAN
  <2>1. Instant' = Instant /\ Filed' = Filed /\ Processes' = Processes
    BY DEF Instant, Filed, Processes, Registry!Process
  <2>2. Registry!TypeOK' /\ Registry!EpochsCount'
    BY <1>1 DEF registry, TypeInv, TypeOK, Registry!TypeOK, Registry!EpochsCount, Registry!Held
  <2>3. PidMap(states, [cursor : Nat, ts_last_poll : Instant, holder : 1..MaxHolders])'
        /\ PidMap(policies, [seen : BOOLEAN, start : Instant])'
    BY <1>1, <2>1 DEF held, TypeInv, TypeOK, PidMap
  <2>4. (\A p \in DOMAIN spans : p \in Processes /\ spans[p] \in [first : Instant, last : Instant])'
    BY <1>1, <2>1 DEF exporter, TypeInv, TypeOK
  <2>5. /\ {ts_read, tick_read} \subseteq Instant /\ keep \in BOOLEAN
        /\ pc \in {"idle", "listing", "polling", "reading", "done", "closed"}
        /\ todo \subseteq Pids /\ reading \in Pids /\ answered \subseteq Processes
        /\ attached \subseteq Pids
        /\ announced \subseteq Processes /\ departed \subseteq Processes
        /\ exported \subseteq Filed /\ dropped \subseteq Filed /\ now \in Instant
        /\ pc = "reading" => reading \in DOMAIN policies /\ reading \notin todo
    BY DEF TypeInv, TypeOK
  <2>6. UNCHANGED <<pc, todo, reading, ts_read, tick_read, answered, keep, policies, attached,
                    announced, departed, exported, dropped, now>>
    BY <1>1 DEF tick, held, exporter, registry
  <2> QED BY <2>1, <2>2, <2>3, <2>4, <2>5, <2>6 DEF TypeInv, TypeOK
<1>4. CASE Elapse
  BY <1>2, <1>4, Constants DEF Elapse, Instant, world, TypeInv, TypeOK
<1>5. CASE Signal
  BY <1>2, <1>5 DEF Signal, world
<1>s. stop \in BOOLEAN
  BY DEF TypeInv, TypeOK
<1>6. ASSUME NEW pid \in Pids, Spawn(pid)
      PROVE  /\ clock' \in Instant /\ born' \in [Pids -> 0..MaxHolders]
             /\ ready' \subseteq alive' /\ alive' \subseteq Pids /\ gone' \subseteq Pids \ alive'
             /\ records' \in [Pids -> Seq(Seq(Instant))] /\ suppressed' \subseteq Pids
             /\ \A q \in Pids : Len(records'[q]) = born'[q]
             /\ \A q \in alive' : born'[q] >= 1
             /\ stop' \in BOOLEAN
  <2>1. clock' \in Instant /\ born' \in [Pids -> 0..MaxHolders]
    BY <1>2, <1>6, Constants DEF Spawn, Instant
  <2>2. /\ Append(records[pid], <<>>) \in Seq(Seq(Instant))
        /\ Len(Append(records[pid], <<>>)) = born[pid] + 1
    <3>1. records[pid] \in Seq(Seq(Instant)) /\ <<>> \in Seq(Instant)
          /\ Len(records[pid]) = born[pid]
      BY <1>2
    <3> QED BY <3>1
  <2>3. records' \in [Pids -> Seq(Seq(Instant))]
    BY <1>2, <1>6, <2>2 DEF Spawn
  <2>4. \A q \in Pids : Len(records'[q]) = born'[q]
    BY <1>2, <1>6, <2>2 DEF Spawn
  <2>5. \A q \in alive' : born'[q] >= 1
    BY <1>2, <1>6, Constants DEF Spawn
  <2> QED BY <1>2, <1>6, <1>s, <2>1, <2>3, <2>4, <2>5 DEF Spawn
<1>7. ASSUME NEW pid \in Pids, Collect(pid)
      PROVE  records' \in [Pids -> Seq(Seq(Instant))] /\ \A q \in Pids : Len(records'[q]) = born[q]
  <2> DEFINE old == records[pid]
             h == born[pid]
             new == [old EXCEPT ![h] = Append(@, clock)]
  <2>1. pid \in alive /\ h \in 1..Len(old) /\ old \in Seq(Seq(Instant)) /\ Len(old) = h
    BY <1>2, <1>7, Constants DEF Collect
  <2>2. records' = [records EXCEPT ![pid] = new]
    BY <1>7 DEF Collect
  <2>3. new \in Seq(Seq(Instant)) /\ Len(new) = h
    <3> HIDE DEF old, h
    <3>1. old[h] \in Seq(Instant)
      BY <2>1
    <3>2. Append(old[h], clock) \in Seq(Instant)
      BY <1>2, <3>1
    <3> QED BY <2>1, <3>2
  <2> HIDE DEF new, old
  <2> QED BY <1>2, <2>2, <2>3
<1>8. ASSUME NEW pid \in Pids, Start(pid) \/ Exit(pid) \/ Suppress(pid) \/ Resume(pid)
      PROVE  /\ clock' \in Instant /\ born' \in [Pids -> 0..MaxHolders]
             /\ ready' \subseteq alive' /\ alive' \subseteq Pids /\ gone' \subseteq Pids \ alive'
             /\ records' \in [Pids -> Seq(Seq(Instant))] /\ suppressed' \subseteq Pids
             /\ \A q \in Pids : Len(records'[q]) = born'[q]
             /\ \A q \in alive' : born'[q] >= 1
             /\ stop' \in BOOLEAN
  BY <1>2, <1>8, <1>s DEF Start, Exit, Suppress, Resume, world
<1>9. ASSUME NEW pid \in Pids, Collect(pid)
      PROVE  UNCHANGED <<clock, born, alive, ready, gone, suppressed, stop>>
  BY <1>9 DEF Collect
<1> QED BY <1>2, <1>4, <1>5, <1>6, <1>7, <1>8, <1>9, <1>s DEF World

(* The liveness report widens the spans of those that answered, and no other. *)
LEMMA EndEffect ==
  ASSUME TypeInv, EndTick
  PROVE  /\ DOMAIN spans' = DOMAIN spans \cup answered
         /\ \A p \in DOMAIN spans \ answered : spans'[p] = spans[p]
         /\ \A p \in answered :
              /\ spans'[p] \in Span
              /\ Ends(spans', p) \subseteq {tick_read} \cup (IF p \in DOMAIN spans
                                                              THEN Ends(spans, p) ELSE {})
<1>1. spans' = [p \in DOMAIN spans \cup answered |->
                  IF p \in answered THEN Widen(spans, p, {tick_read})[p] ELSE spans[p]]
  BY DEF EndTick
<1>2. {tick_read} \in SUBSET Instant /\ \A p \in DOMAIN spans : spans[p] \in Span
  BY DEF TypeInv, TypeOK, Span
<1>3. ASSUME NEW p \in answered
      PROVE  /\ spans'[p] \in Span
             /\ Ends(spans', p) \subseteq {tick_read} \cup (IF p \in DOMAIN spans
                                                             THEN Ends(spans, p) ELSE {})
  <2> DEFINE W == Widen(spans, p, {tick_read})
  <2>1. spans'[p] = W[p]
    BY <1>1
  <2>2. p \in DOMAIN W /\ W[p] \in Span
        /\ Ends(W, p) \subseteq {tick_read} \cup (IF p \in DOMAIN spans THEN Ends(spans, p) ELSE {})
    <3>1. p \in DOMAIN spans => spans[p] \in Span
      BY <1>2
    <3>2. /\ DOMAIN W = DOMAIN spans \cup (IF {tick_read} = {} THEN {} ELSE {p})
          /\ p \in DOMAIN W =>
               /\ W[p] \in Span
               /\ Ends(W, p) \subseteq {tick_read} \cup (IF p \in DOMAIN spans
                                                          THEN Ends(spans, p) ELSE {})
      BY <1>2, <3>1, WidenEffect
    <3>3. p \in DOMAIN W
      BY <3>2
    <3> QED BY <3>2, <3>3
  <2>3. Ends(spans', p) = Ends(W, p)
    BY <2>1 DEF Ends
  <2> HIDE DEF W
  <2> QED BY <2>1, <2>2, <2>3
<1> QED BY <1>1, <1>3

(* The steps of a tick, reads and prunes aside. *)
LEMMA TypeTick ==
  ASSUME TypeInv,
         BeginTick \/ ListFails \/ (\E pid \in Pids : Skip(pid) \/ BeginRead(pid))
           \/ EndTick \/ Stopped \/ Close
  PROVE  TypeInv'
<1> USE DEF TypeInv, TypeOK, PidMap
<1>1. Instant' = Instant /\ Filed' = Filed /\ Processes' = Processes
      /\ 0 \in Instant /\ Root \in Pids /\ now \in Nat /\ clock \in Nat
  BY Constants DEF Instant, Filed, Processes, Registry!Process
<1>2. ASSUME UNCHANGED <<live, retired>>, now' \in Nat
      PROVE  Registry!TypeOK' /\ Registry!EpochsCount'
  BY <1>2 DEF Registry!TypeOK, Registry!EpochsCount, Registry!Held
<1>3. CASE BeginTick
  <2>1. Registry!TypeOK' /\ Registry!EpochsCount'
    BY <1>1, <1>2, <1>3 DEF BeginTick, Registry!Advance
  <2>2. now' = clock
    BY <1>3 DEF BeginTick, Registry!Advance
  <2> QED BY <1>1, <1>3, <2>1, <2>2 DEF BeginTick, world, held, exporter
<1>4. CASE ListFails
  <2>1. Registry!TypeOK' /\ Registry!EpochsCount'
    BY <1>1, <1>2, <1>4 DEF ListFails, registry
  <2> QED BY <1>1, <1>4, <2>1 DEF ListFails, StartPolling, world, held, exporter, registry
<1>5. ASSUME NEW pid \in Pids, Skip(pid)
      PROVE  TypeInv'
  <2>1. Registry!TypeOK' /\ Registry!EpochsCount'
    BY <1>1, <1>2, <1>5 DEF Skip, registry
  <2> QED BY <1>1, <1>5, <2>1 DEF Skip, world, held, exporter, registry
<1>6. ASSUME NEW pid \in Pids, BeginRead(pid)
      PROVE  TypeInv'
  <2>1. Registry!TypeOK' /\ Registry!EpochsCount'
    BY <1>1, <1>2, <1>6 DEF BeginRead, registry
  <2>2. PidMap(policies, [seen : BOOLEAN, start : Instant])' /\ pid \in DOMAIN policies'
    <3>1. [seen |-> FALSE, start |-> clock] \in [seen : BOOLEAN, start : Instant]
      OBVIOUS
    <3>2. policies' = IF pid \in DOMAIN policies THEN policies
                      ELSE With(policies, pid, [seen |-> FALSE, start |-> clock])
      BY <1>6 DEF BeginRead
    <3> QED BY <1>1, <3>1, <3>2 DEF With
  <2> QED BY <1>1, <1>6, <2>1, <2>2 DEF BeginRead, world, registry, exporter
<1>7. CASE EndTick
  <2>1. Registry!TypeOK' /\ Registry!EpochsCount'
    BY <1>1, <1>2, <1>7 DEF EndTick, registry
  <2>2. (\A p \in DOMAIN spans : p \in Processes /\ spans[p] \in [first : Instant, last : Instant])'
    BY <1>1, <1>7, EndEffect DEF Span
  <2> QED BY <1>1, <1>7, <2>1, <2>2 DEF EndTick, world, held, registry
<1>8. CASE Stopped \/ Close
  <2>1. Registry!TypeOK' /\ Registry!EpochsCount'
    BY <1>1, <1>2, <1>8 DEF Stopped, Close, registry
  <2> QED BY <1>1, <1>8, <2>1 DEF Stopped, Close, world, held, registry, exporter
<1> QED BY <1>3, <1>4, <1>5, <1>6, <1>7, <1>8

LEMMA TypeList == TypeInv /\ List => TypeInv'
<1> SUFFICES ASSUME TypeInv, List PROVE TypeInv'
  OBVIOUS
<1>1. Instant' = Instant /\ Filed' = Filed /\ Processes' = Processes
      /\ 0 \in Instant /\ Root \in Pids
  BY Constants DEF Instant, Filed, Processes, Registry!Process
<1>2. departed' \subseteq Processes
  <2>1. \A q \in DOMAIN live : live[q] \in Processes
    BY DEF TypeInv, TypeOK, Registry!TypeOK, Processes
  <2>2. departed' = departed \cup {live[q] : q \in DOMAIN live \cap (Pids \ Children)}
    BY ListEffect DEF Departs
  <2>3. departed \subseteq Processes
    BY DEF TypeInv, TypeOK
  <2> QED BY <2>1, <2>2, <2>3
<1>3. PidMap(states, [cursor : Nat, ts_last_poll : Instant, holder : 1..MaxHolders])'
      /\ PidMap(policies, [seen : BOOLEAN, start : Instant])'
  <2>1. /\ DOMAIN states' \subseteq DOMAIN states
        /\ \A q \in DOMAIN states' : states'[q] = states[q]
        /\ DOMAIN policies' \subseteq DOMAIN policies
        /\ \A q \in DOMAIN policies' : policies'[q] = policies[q]
    BY ListEffect DEF Departs
  <2> QED BY <1>1, <2>1 DEF PidMap, TypeInv, TypeOK
<1>4. gone' \subseteq Pids \ alive /\ attached' \subseteq Pids /\ todo' \subseteq Pids
  BY ListEffect DEF TypeInv, TypeOK
<1>5. Registry!TypeOK' /\ Registry!EpochsCount' /\ now' = now
  BY ListEffect DEF RegInv, Departs
<1> QED BY <1>1, <1>2, <1>3, <1>4, <1>5, ListEffect DEF TypeInv, TypeOK, world

LEMMA TypeFail == TypeInv /\ ReadFails => TypeInv'
<1> SUFFICES ASSUME TypeInv, ReadFails PROVE TypeInv'
  OBVIOUS
<1>1. Instant' = Instant /\ Filed' = Filed /\ Processes' = Processes /\ 0 \in Instant
  BY Constants DEF Instant, Filed, Processes, Registry!Process
<1>2. departed' \subseteq Processes /\ now' = now /\ keep' \in BOOLEAN
  <2>1. \A q \in DOMAIN live : live[q] \in Processes
    BY DEF TypeInv, TypeOK, Registry!TypeOK, Processes
  <2>2. departed \subseteq Processes /\ keep \in BOOLEAN
    BY DEF TypeInv, TypeOK
  <2>3. now' = now /\ (keep' = TRUE \/ keep' = keep)
    BY FailEffect DEF Departs
  <2>4. \/ departed' = departed
        \/ departed' = departed \cup {live[q] : q \in DOMAIN live \cap {reading}}
    <3>1. CASE UNCHANGED departed
      BY <3>1
    <3>2. CASE Departs({reading})
      BY <3>2 DEF Departs
    <3> QED BY <3>1, <3>2, FailEffect
  <2>5. departed' \subseteq Processes
    BY <2>1, <2>2, <2>4
  <2> QED BY <2>2, <2>3, <2>5
<1>3. PidMap(states, [cursor : Nat, ts_last_poll : Instant, holder : 1..MaxHolders])'
      /\ PidMap(policies, [seen : BOOLEAN, start : Instant])'
  <2>1. /\ DOMAIN states' \subseteq DOMAIN states
        /\ \A q \in DOMAIN states' : states'[q] = states[q]
        /\ policies' = policies
    BY FailEffect DEF Departs
  <2> QED BY <1>1, <2>1 DEF PidMap, TypeInv, TypeOK
<1>4. gone' \subseteq Pids \ alive /\ attached' \subseteq Pids
  BY FailEffect DEF TypeInv, TypeOK
<1>5. Registry!TypeOK' /\ Registry!EpochsCount'
  BY FailEffect DEF RegInv
<1> QED BY <1>1, <1>2, <1>3, <1>4, <1>5, FailEffect DEF TypeInv, TypeOK, world

(* A read widens the span of the pid's process, by what is taken and the gap before it. *)
LEMMA ReadSpans ==
  ASSUME TypeInv, ReadReturns
  PROVE  /\ DOMAIN spans \subseteq DOMAIN spans'
         /\ DOMAIN spans' \subseteq DOMAIN spans \cup {live'[reading]}
         /\ \A q \in DOMAIN spans : q # live'[reading] => spans'[q] = spans[q]
         /\ live'[reading] \in DOMAIN spans' =>
              /\ spans'[live'[reading]] \in Span
              /\ Ends(spans', live'[reading])
                   \subseteq Instants \cup (IF live'[reading] \in DOMAIN spans
                                            THEN Ends(spans, live'[reading]) ELSE {})
<1>1. PICK p : p = live'[reading]
  OBVIOUS
<1>2. PICK new \in SUBSET Instant : new = Instants
  BY ReadTypes
<1>3. spans' = Widen(spans, p, new)
  BY <1>1, <1>2, ReadEffect DEF Folded
<1>4. p \in DOMAIN spans => spans[p] \in Span
  BY DEF TypeInv, TypeOK, Span
<1>5. /\ DOMAIN Widen(spans, p, new) = DOMAIN spans \cup (IF new = {} THEN {} ELSE {p})
      /\ \A q \in DOMAIN spans : q # p => Widen(spans, p, new)[q] = spans[q]
      /\ p \in DOMAIN Widen(spans, p, new) =>
           /\ Widen(spans, p, new)[p] \in Span
           /\ Ends(Widen(spans, p, new), p)
                \subseteq new \cup (IF p \in DOMAIN spans THEN Ends(spans, p) ELSE {})
  BY <1>4, WidenEffect
<1>6. Ends(spans', p) = Ends(Widen(spans, p, new), p)
  BY <1>3 DEF Ends
<1> QED BY <1>1, <1>2, <1>3, <1>5, <1>6

LEMMA TypeRead == TypeInv /\ ReadReturns => TypeInv'
<1> SUFFICES ASSUME TypeInv, ReadReturns PROVE TypeInv'
  OBVIOUS
<1>1. Instant' = Instant /\ Filed' = Filed /\ Processes' = Processes /\ 0 \in Instant
  BY Constants DEF Instant, Filed, Processes, Registry!Process
<1>2. Filled /\ Folded /\ live'[reading] \in Processes
  BY ReadEffect
<1>3. PidMap(states, [cursor : Nat, ts_last_poll : Instant, holder : 1..MaxHolders])'
  <2>1. states'[reading] \in [cursor : Nat, ts_last_poll : Instant, holder : 1..MaxHolders]
    BY <1>2, ReadTypes DEF Folded, TypeInv, TypeOK
  <2>2. reading \in Pids
    BY ReadTypes
  <2> QED BY <1>1, <1>2, <2>1, <2>2 DEF Folded, PidMap, TypeInv, TypeOK
<1>4. PidMap(policies, [seen : BOOLEAN, start : Instant])'
  <2>1. policies' = [policies EXCEPT ![reading].seen = TRUE] /\ reading \in DOMAIN policies
    BY DEF ReadReturns, TypeInv
  <2> QED BY <1>1, <2>1 DEF PidMap, TypeInv, TypeOK
<1>5. (\A p \in DOMAIN spans : p \in Processes /\ spans[p] \in [first : Instant, last : Instant])'
  <2>1. \A p \in DOMAIN spans : p \in Processes /\ spans[p] \in Span
    BY DEF TypeInv, TypeOK, Span
  <2>2. \A q \in DOMAIN spans' : q \in Processes /\ spans'[q] \in Span
    BY <1>2, <2>1, ReadSpans
  <2> QED BY <1>1, <2>2 DEF Span
<1>6. exported' \subseteq Filed /\ dropped' \subseteq Filed
  <2>1. \A ks \in SUBSET (1..Len(Ring)) : FiledAs(live'[reading], ks) \subseteq Filed
    BY <1>2, ReadTypes DEF FiledAs, Filed
  <2>2. Taken \subseteq 1..Len(Ring) /\ Fresh \ Taken \subseteq 1..Len(Ring)
    BY ReadTypes
  <2> QED BY <1>2, <2>1, <2>2 DEF Folded, TypeInv, TypeOK
<1>7. Registry!TypeOK' /\ Registry!EpochsCount' /\ now' = now /\ announced' \subseteq Processes
  BY <1>2, ReadEffect DEF RegInv, Filled, TypeInv, TypeOK
<1>8. /\ pc' = "polling" /\ ts_read' = 0 /\ tick_read' = clock /\ keep' = TRUE
      /\ attached' = attached \cup {reading} /\ answered' = answered \cup {live'[reading]}
      /\ UNCHANGED <<clock, born, alive, ready, records, gone, suppressed, stop, todo, reading,
                     departed>>
  BY DEF ReadReturns, world
<1>9. reading \in Pids
  BY ReadTypes
<1> QED BY <1>1, <1>2, <1>3, <1>4, <1>5, <1>6, <1>7, <1>8, <1>9 DEF TypeInv, TypeOK

LEMMA TypeStep == TypeInv /\ [Next]_vars => TypeInv'
<1> SUFFICES ASSUME TypeInv, [Next]_vars PROVE TypeInv'
  OBVIOUS
<1>1. CASE UNCHANGED vars
  BY <1>1 DEF vars, world, tick, held, registry, exporter, TypeInv, TypeOK, PidMap, Instant, Filed,
     Processes, Registry!Process, Registry!TypeOK, Registry!EpochsCount, Registry!Held,
     Registry!Departure
<1> QED BY <1>1, TypeWorld, TypeTick, TypeList, TypeFail, TypeRead DEF Next, Monitor

LEMMA TypeInvariance == Spec => []TypeInv
  BY TypeInit, TypeStep, PTL DEF Spec

(* Everything gcmon and the exporter hold is of its type, at every step of a tick. *)
THEOREM TypeCorrect == Spec => []TypeOK
<1>1. TypeInv => TypeOK
  BY DEF TypeInv
<1> QED BY <1>1, TypeInvariance, PTL

(***************************************************************************)
(* EventsMonitor drives the registry as ProcessRegistry allows: instants   *)
(* only go on, and a pid is given a process when it holds none.            *)
(***************************************************************************)
THEOREM RegistryDriven == Spec => RegistrySpec
<1>1. Init => Registry!Init
  BY DEF Init
<1>2. TypeInv /\ [Next]_vars => [Registry!Next]_<<live, retired, now>>
  <2> SUFFICES ASSUME TypeInv, [Next]_vars PROVE [Registry!Next]_<<live, retired, now>>
    OBVIOUS
  <2>1. CASE World \/ UNCHANGED vars
    BY <2>1, WorldEffect DEF registry, vars
  <2>2. CASE BeginTick
    <3>1. clock \in now..MaxTime
      BY <2>2, Constants DEF BeginTick, Registry!Advance
    <3> QED BY <2>2, <3>1 DEF BeginTick, Registry!Next
  <2>3. CASE List
    <3>1. Registry!Retain(Children, now) /\ Children \subseteq Pids
      BY <2>3, ListEffect DEF List, RetainPids, Children
    <3> QED BY <3>1 DEF Registry!Next
  <2>4. CASE ReadReturns
    <3>1. reading \in Pids
      BY DEF TypeInv, TypeOK
    <3>2. Registry!Create(reading) \/ UNCHANGED registry
      BY <2>4 DEF ReadReturns
    <3> QED BY <3>1, <3>2 DEF Registry!Next, registry
  <2>5. CASE ReadFails
    <3>1. reading \in Pids
      BY DEF TypeInv, TypeOK
    <3>2. Registry!Retire(reading, now) \/ UNCHANGED registry
      BY <2>5 DEF ReadFails, Forget
    <3>3. ASSUME Registry!Retire(reading, now)
          PROVE  Registry!Retain(Pids \ {reading}, now)
      <4>1. Pids \ (Pids \ {reading}) = {reading}
        BY <3>1
      <4> QED BY <3>3, <4>1 DEF Registry!Retire, Registry!Retain
    <3> QED BY <3>2, <3>3 DEF Registry!Next, registry
  <2>6. ASSUME \/ ListFails \/ (\E pid \in Pids : Skip(pid) \/ BeginRead(pid))
               \/ EndTick \/ Stopped \/ Close
        PROVE  UNCHANGED registry
    BY <2>6 DEF ListFails, Skip, BeginRead, EndTick, Stopped, Close
  <2> QED BY <2>1, <2>2, <2>3, <2>4, <2>5, <2>6 DEF Next, Monitor, registry
<1> QED BY <1>1, <1>2, TypeInvariance, PTL DEF Spec, RegistrySpec, Registry!Spec, Registry!registryVars

-----------------------------------------------------------------------------
(* The second layer: what is held, and for whom. *)

(* The tick has not come to the pid's read yet, or is in it. *)
Due(pid) == pc = "listing" \/ pid \in todo \/ (pc = "reading" /\ reading = pid)

(* The names given so far, by their epochs. *)
HasLeft(p) == p.epoch <= Len(retired[p.pid])
Holds(p) == p.pid \in DOMAIN live /\ p.epoch = Len(retired[p.pid]) + 1

ExporterInv ==
  /\ \A p \in Processes : p \in departed <=> HasLeft(p)
  /\ \A p \in Processes : p \in announced <=> HasLeft(p) \/ Holds(p)

HoldInv ==
  /\ ExporterInv
  /\ DOMAIN states = DOMAIN live
  /\ attached = (IF pc = "closed" THEN {} ELSE DOMAIN live)
  /\ \A pid \in DOMAIN live : pid \in DOMAIN policies /\ policies[pid].seen
  /\ DOMAIN spans \subseteq announced
  /\ \A p \in answered : Holds(p) /\ ~Due(p.pid)
  /\ pc \notin {"polling", "reading"} => answered = {} /\ todo = {}

(* A holder's name is the only one of its pid and epoch. *)
LEMMA Names ==
  ASSUME TypeInv
  PROVE  /\ \A q \in DOMAIN live : q \in Pids /\ live[q] \in Processes /\ Holds(live[q])
                                   /\ live[q].pid = q
         /\ \A p \in Processes : /\ Holds(p) => p = live[p.pid]
                                 /\ p.pid \in Pids /\ p.epoch \in Nat \ {0}
         /\ \A pid \in Pids : Len(retired[pid]) \in Nat
<1>1. \A pid \in Pids : Len(retired[pid]) \in Nat
  <2>1. \A pid \in Pids : retired[pid] \in Seq(Registry!Departure)
    BY DEF TypeInv, TypeOK, Registry!TypeOK
  <2> QED BY <2>1
<1>2. ASSUME NEW q \in DOMAIN live
      PROVE  q \in Pids /\ live[q] \in Processes /\ Holds(live[q]) /\ live[q].pid = q
             /\ live[q] = [pid |-> q, epoch |-> Len(retired[q]) + 1]
  <2>1. q \in Pids /\ live[q] \in Processes
    BY DEF TypeInv, TypeOK, Registry!TypeOK, Processes
  <2>2. live[q] = [pid |-> q, epoch |-> Len(retired[q]) + 1]
    BY <2>1 DEF TypeInv, Registry!EpochsCount, Registry!Held
  <2> QED BY <2>1, <2>2 DEF Holds
<1>3. ASSUME NEW p \in Processes
      PROVE  /\ Holds(p) => p = live[p.pid]
             /\ p.pid \in Pids /\ p.epoch \in Nat \ {0}
  <2>1. p.pid \in Pids /\ p.epoch \in Nat \ {0} /\ p = [pid |-> p.pid, epoch |-> p.epoch]
    BY DEF Processes, Registry!Process
  <2> QED BY <1>2, <2>1 DEF Holds
<1> QED BY <1>1, <1>2, <1>3

(* The processes that retire are those the exporter is told of. *)
LEMMA DepartsKeeps ==
  ASSUME TypeInv, ExporterInv, NEW leaving, Departs(leaving), announced' = announced
  PROVE  /\ ExporterInv'
         /\ \A p \in Processes : Holds(p)' <=> Holds(p) /\ p.pid \notin leaving
<1>1. Processes' = Processes
  BY DEF Processes, Registry!Process
<1>2. SUFFICES ASSUME NEW p \in Processes
               PROVE  /\ (p \in departed)' <=> HasLeft(p)'
                      /\ (p \in announced)' <=> (HasLeft(p) \/ Holds(p))'
                      /\ Holds(p)' <=> Holds(p) /\ p.pid \notin leaving
  BY <1>1 DEF ExporterInv
<1> DEFINE pid == p.pid
           n == Len(retired[pid])
<1>3. /\ pid \in Pids /\ p.epoch \in Nat \ {0} /\ n \in Nat
      /\ Holds(p) => p = live[pid]
      /\ pid \in DOMAIN live => live[pid].epoch = n + 1
  BY Names DEF Holds
<1>4. p \in {live[q] : q \in DOMAIN live \cap leaving} <=> Holds(p) /\ pid \in leaving
  BY Names, <1>3 DEF Holds
<1>5. /\ p \in departed <=> p.epoch <= n
      /\ p \in announced <=> p.epoch <= n \/ Holds(p)
  BY DEF ExporterInv, HasLeft
<1>6. p \in departed' <=> p \in departed \/ (Holds(p) /\ pid \in leaving)
  BY <1>4 DEF Departs
<1>7. CASE pid \in leaving /\ pid \in DOMAIN live
  <2>1. Len(retired'[pid]) = n + 1 /\ pid \notin DOMAIN live'
    BY <1>3, <1>7 DEF Departs
  <2>2. Holds(p) <=> p.epoch = n + 1
    BY <1>7 DEF Holds
  <2> QED BY <1>3, <1>5, <1>6, <1>7, <2>1, <2>2 DEF HasLeft, Holds
<1>8. CASE ~(pid \in leaving /\ pid \in DOMAIN live)
  <2>1. retired'[pid] = retired[pid] /\ (pid \in DOMAIN live' <=> pid \in DOMAIN live)
    BY <1>3, <1>8 DEF Departs
  <2> QED BY <1>5, <1>6, <1>8, <2>1 DEF HasLeft, Holds
<1> QED BY <1>7, <1>8

LEMMA HoldInit == Init => HoldInv
<1> SUFFICES ASSUME Init PROVE HoldInv
  OBVIOUS
<1>1. /\ live = <<>> /\ states = <<>> /\ attached = {} /\ spans = <<>> /\ answered = {}
      /\ announced = {} /\ departed = {} /\ todo = {} /\ pc = "idle"
      /\ retired = [pid \in Pids |-> <<>>]
  BY DEF Init, Registry!Init
<1>2. \A p \in Processes : ~HasLeft(p) /\ ~Holds(p)
  BY <1>1 DEF HasLeft, Holds, Processes, Registry!Process
<1> QED BY <1>1, <1>2 DEF HoldInv, ExporterInv

(* Steps that touch neither books nor counters. *)
LEMMA HoldIdle ==
  ASSUME TypeInv, HoldInv,
         UNCHANGED <<live, retired, states, announced, departed>>,
         DOMAIN spans' \subseteq DOMAIN spans \cup answered,
         \A pid \in DOMAIN policies : pid \in DOMAIN policies' /\ policies'[pid] = policies[pid],
         attached' = (IF pc' = "closed" THEN {} ELSE DOMAIN live),
         \/ answered' = {} /\ (pc' \notin {"polling", "reading"} => todo' = {})
         \/ answered' = answered /\ pc' \in {"polling", "reading"} /\ \A pid \in Pids : Due(pid)' => Due(pid)
  PROVE  HoldInv'
<1>1. Processes' = Processes
  BY DEF Processes, Registry!Process
<1>2. ExporterInv'
  BY <1>1 DEF HoldInv, ExporterInv, HasLeft, Holds
<1>3. answered \subseteq announced
  <2>1. answered \subseteq Processes
    BY DEF TypeInv, TypeOK
  <2> QED BY <2>1 DEF HoldInv, ExporterInv
<1>4. DOMAIN spans' \subseteq announced'
  BY <1>3 DEF HoldInv
<1>5. \A p \in answered' : Holds(p)' /\ ~Due(p.pid)'
  <2> SUFFICES ASSUME NEW p \in answered', answered' = answered, \A pid \in Pids : Due(pid)' => Due(pid)
               PROVE  Holds(p)' /\ ~Due(p.pid)'
    OBVIOUS
  <2>1. p \in Processes /\ Holds(p) /\ ~Due(p.pid)
    BY DEF HoldInv, TypeInv, TypeOK
  <2>2. p.pid \in Pids
    BY <2>1, Names
  <2> QED BY <2>1, <2>2 DEF Holds
<1>6. pc' \notin {"polling", "reading"} => answered' = {} /\ todo' = {}
  OBVIOUS
<1> QED BY <1>2, <1>4, <1>5, <1>6 DEF HoldInv

LEMMA HoldTick ==
  ASSUME TypeInv, HoldInv,
         World \/ BeginTick \/ ListFails \/ (\E pid \in Pids : Skip(pid) \/ BeginRead(pid))
           \/ EndTick \/ Stopped \/ Close \/ UNCHANGED vars
  PROVE  HoldInv'
<1>a. /\ attached = (IF pc = "closed" THEN {} ELSE DOMAIN live)
      /\ pc \notin {"polling", "reading"} => answered = {} /\ todo = {}
      /\ pc \in {"idle", "listing", "polling", "reading", "done", "closed"}
  BY DEF HoldInv, TypeInv, TypeOK
<1>1. CASE World \/ UNCHANGED vars
  BY <1>a, <1>1, WorldEffect, HoldIdle DEF vars, tick, held, registry, exporter, Due
<1>2. CASE BeginTick \/ ListFails \/ Stopped \/ Close
  BY <1>a, <1>2, HoldIdle DEF BeginTick, ListFails, StartPolling, Stopped, Close,
     Registry!Advance, held, registry, exporter
<1>3. ASSUME NEW pid \in Pids, Skip(pid)
      PROVE  HoldInv'
  BY <1>a, <1>3, HoldIdle DEF Skip, held, registry, exporter, Due
<1>4. ASSUME NEW pid \in Pids, BeginRead(pid)
      PROVE  HoldInv'
  <2>1. \A q \in DOMAIN policies : q \in DOMAIN policies' /\ policies'[q] = policies[q]
    BY <1>4 DEF BeginRead, With
  <2>2. \A q \in Pids : Due(q)' => Due(q)
    BY <1>4 DEF BeginRead, Due, NextPid
  <2>3. /\ UNCHANGED <<live, retired, states, announced, departed, spans, attached, answered>>
        /\ pc = "polling" /\ pc' = "reading"
    BY <1>4 DEF BeginRead, registry, exporter
  <2> QED BY <1>a, <2>1, <2>2, <2>3, HoldIdle
<1>5. CASE EndTick
  <2>1. DOMAIN spans' = DOMAIN spans \cup answered
    BY <1>5, EndEffect
  <2>2. /\ UNCHANGED <<live, retired, states, policies, attached, announced, departed>>
        /\ answered' = {} /\ todo' = {} /\ pc = "polling" /\ pc' \in {"idle", "done"}
    BY <1>5 DEF EndTick, registry, held
  <2> QED BY <1>a, <2>1, <2>2, HoldIdle
<1> QED BY <1>1, <1>2, <1>3, <1>4, <1>5

LEMMA HoldList == TypeInv /\ HoldInv /\ List => HoldInv'
<1> SUFFICES ASSUME TypeInv, HoldInv, List PROVE HoldInv'
  OBVIOUS
<1>1. /\ Departs(Pids \ Children) /\ announced' = announced /\ spans' = spans
      /\ answered' = {} /\ pc = "listing" /\ pc' = "polling"
      /\ attached' = attached \cap Children
      /\ DOMAIN policies' = DOMAIN policies \cap Children
      /\ \A q \in DOMAIN policies' : policies'[q] = policies[q]
  BY ListEffect
<1>2. ExporterInv'
  BY <1>1, DepartsKeeps DEF HoldInv
<1>3. DOMAIN live' = DOMAIN live \cap Children /\ DOMAIN states' = DOMAIN states \cap Children
  <2>1. DOMAIN live \subseteq Pids /\ DOMAIN states \subseteq Pids
    BY DEF TypeInv, TypeOK, Registry!TypeOK, PidMap
  <2> QED BY <1>1, <2>1 DEF Departs
<1> QED BY <1>1, <1>2, <1>3 DEF HoldInv

LEMMA HoldFail == TypeInv /\ HoldInv /\ ReadFails => HoldInv'
<1> SUFFICES ASSUME TypeInv, HoldInv, ReadFails PROVE HoldInv'
  OBVIOUS
<1>1. /\ announced' = announced /\ spans' = spans /\ policies' = policies
      /\ answered' = answered /\ pc = "reading" /\ pc' = "polling" /\ todo' = todo
      /\ attached' = attached \ {reading} /\ reading' = reading
      /\ \/ ~policies[reading].seen /\ UNCHANGED <<states, live, retired, now, departed>>
         \/ Departs({reading})
  BY FailEffect
<1>2. reading \notin DOMAIN live' /\ DOMAIN live' = DOMAIN live \ {reading}
      /\ DOMAIN states' = DOMAIN states \ {reading}
  BY <1>1 DEF HoldInv, Departs
<1>3. ExporterInv' /\ \A p \in Processes : Holds(p)' <=> Holds(p) /\ p.pid # reading
  <2>1. CASE Departs({reading})
    BY <1>1, <2>1, DepartsKeeps DEF HoldInv
  <2>2. CASE UNCHANGED <<states, live, retired, now, departed>>
    <3>1. Processes' = Processes
      BY DEF Processes, Registry!Process
    <3> QED BY <1>1, <1>2, <2>2, <3>1 DEF HoldInv, ExporterInv, HasLeft, Holds
  <2> QED BY <1>1, <2>1, <2>2
<1>4. \A p \in answered' : Holds(p)' /\ ~Due(p.pid)'
  <2> SUFFICES ASSUME NEW p \in answered PROVE Holds(p)' /\ ~Due(p.pid)'
    BY <1>1
  <2>1. p \in Processes /\ Holds(p) /\ ~Due(p.pid)
    BY DEF HoldInv, TypeInv, TypeOK
  <2> QED BY <1>1, <1>3, <2>1 DEF Due
<1> QED BY <1>1, <1>2, <1>3, <1>4 DEF HoldInv

LEMMA HoldRead == TypeInv /\ HoldInv /\ ReadReturns => HoldInv'
<1> SUFFICES ASSUME TypeInv, HoldInv, ReadReturns PROVE HoldInv'
  OBVIOUS
<1>1. Filled /\ reading \in Pids /\ reading' = reading /\ pc = "reading" /\ pc' = "polling"
      /\ live'[reading] \in Processes
  BY ReadEffect, ReadTypes
<1>2. /\ todo' = todo /\ departed' = departed
      /\ attached' = attached \cup {reading} /\ answered' = answered \cup {live'[reading]}
      /\ policies' = [policies EXCEPT ![reading].seen = TRUE]
      /\ reading \in DOMAIN policies /\ reading \notin todo
      /\ DOMAIN states' = DOMAIN states \cup {reading}
  BY ReadEffect DEF ReadReturns, TypeInv, Folded
<1>3. \A p \in Processes : Holds(p)' <=> Holds(p) \/ p = live'[reading]
  <2> SUFFICES ASSUME NEW p \in Processes PROVE Holds(p)' <=> Holds(p) \/ p = live'[reading]
    OBVIOUS
  <2>1. p = [pid |-> p.pid, epoch |-> p.epoch]
    BY DEF Processes, Registry!Process
  <2> QED BY <1>1, <2>1 DEF Filled, Holds
<1>4. ExporterInv'
  <2>1. Processes' = Processes /\ retired' = retired
    BY <1>1 DEF Filled, Processes, Registry!Process
  <2>2. announced' = announced \cup {live'[reading]}
    <3>1. CASE reading \in DOMAIN live
      <4>1. live'[reading] = live[reading] /\ Holds(live[reading])
        BY <1>1, <3>1, Names DEF Filled
      <4>2. live[reading] \in announced
        BY <1>1, <4>1 DEF HoldInv, ExporterInv
      <4> QED BY <1>1, <3>1, <4>1, <4>2 DEF Filled
    <3>2. CASE reading \notin DOMAIN live
      BY <1>1, <3>2 DEF Filled
    <3> QED BY <3>1, <3>2
  <2>3. \A p \in Processes : HasLeft(p)' <=> HasLeft(p)
    BY <2>1 DEF HasLeft
  <2> QED BY <1>2, <1>3, <2>1, <2>2, <2>3 DEF HoldInv, ExporterInv
<1>5. DOMAIN spans' \subseteq announced'
  <2>1. PICK p \in Processes : p = live'[reading]
    BY <1>1
  <2>2. p \in announced'
    <3>1. Processes' = Processes /\ Holds(p)'
      BY <1>3, <2>1 DEF Processes, Registry!Process
    <3> QED BY <1>4, <3>1 DEF ExporterInv
  <2>3. announced \subseteq announced'
    BY <1>1 DEF Filled
  <2> QED BY <2>1, <2>2, <2>3, ReadSpans DEF HoldInv
<1>6. \A p \in answered' : Holds(p)' /\ ~Due(p.pid)'
  <2> SUFFICES ASSUME NEW p \in answered' PROVE Holds(p)' /\ ~Due(p.pid)'
    OBVIOUS
  <2>1. CASE p = live'[reading]
    BY <1>1, <1>2, <1>3, <2>1 DEF Due, Filled
  <2>2. CASE p \in answered
    <3>1. p \in Processes /\ Holds(p) /\ ~Due(p.pid)
      BY <2>2 DEF HoldInv, TypeInv, TypeOK
    <3> QED BY <1>1, <1>2, <1>3, <3>1 DEF Due
  <2> QED BY <1>2, <2>1, <2>2
<1>7. \A pid \in DOMAIN live' : pid \in DOMAIN policies' /\ policies'[pid].seen
  <2> SUFFICES ASSUME NEW pid \in DOMAIN live' PROVE pid \in DOMAIN policies' /\ policies'[pid].seen
    OBVIOUS
  <2>1. CASE pid = reading
    <3>1. policies[reading] \in [seen : BOOLEAN, start : Instant]
      BY <1>2 DEF TypeInv, TypeOK, PidMap
    <3> QED BY <1>2, <2>1, <3>1
  <2>2. CASE pid # reading
    <3>1. pid \in DOMAIN live
      BY <1>1, <2>2 DEF Filled
    <3> QED BY <1>2, <2>2, <3>1 DEF HoldInv
  <2> QED BY <2>1, <2>2
<1>8. DOMAIN states' = DOMAIN live' /\ attached' = DOMAIN live'
  BY <1>1, <1>2 DEF HoldInv, Filled
<1> QED BY <1>1, <1>4, <1>5, <1>6, <1>7, <1>8 DEF HoldInv

LEMMA HoldStep == TypeInv /\ HoldInv /\ [Next]_vars => HoldInv'
  BY HoldTick, HoldList, HoldFail, HoldRead DEF Next, Monitor

LEMMA HoldInvariance == Spec => []HoldInv
  BY TypeInvariance, HoldInit, HoldStep, PTL DEF Spec

(***************************************************************************)
(* The exporter's set of departed processes, read off the books.           *)
(***************************************************************************)
LEMMA DepartedAre ==
  ASSUME TypeInv, ExporterInv
  PROVE  departed = UNION {{d.process : d \in {retired[pid][i] : i \in 1..Len(retired[pid])}} :
                             pid \in Pids}
<1> DEFINE U == UNION {{d.process : d \in {retired[pid][i] : i \in 1..Len(retired[pid])}} :
                         pid \in Pids}
<1>1. \A pid \in Pids : \A i \in 1..Len(retired[pid]) :
        retired[pid][i].process = [pid |-> pid, epoch |-> i]
  BY DEF TypeInv, Registry!EpochsCount
<1>2. ASSUME NEW p \in departed
      PROVE  p \in U
  <2>1. p \in Processes /\ HasLeft(p)
    BY DEF ExporterInv, TypeInv, TypeOK
  <2>2. p.pid \in Pids /\ p.epoch \in 1..Len(retired[p.pid]) /\ p = [pid |-> p.pid, epoch |-> p.epoch]
    BY <2>1, Names DEF HasLeft, Processes, Registry!Process
  <2>3. p = retired[p.pid][p.epoch].process
    BY <1>1, <2>2
  <2> QED BY <2>2, <2>3
<1>3. ASSUME NEW p \in U
      PROVE  p \in departed
  <2>0. PICK pid \in Pids : p \in {d.process : d \in {retired[pid][i] : i \in 1..Len(retired[pid])}}
    OBVIOUS
  <2>1. PICK i \in 1..Len(retired[pid]) : p = retired[pid][i].process
    BY <2>0
  <2>2. p = [pid |-> pid, epoch |-> i] /\ Len(retired[pid]) \in Nat
    BY <1>1, <2>1, Names
  <2>3. p \in Processes /\ HasLeft(p)
    BY <2>1, <2>2 DEF HasLeft, Processes, Registry!Process
  <2> QED BY <2>3 DEF ExporterInv
<1> QED BY <1>2, <1>3

(***************************************************************************)
(* Every piece of per-pid state comes and goes together, and the exporter  *)
(* knows of the processes that the registry does, whatever reads, listings *)
(* and pids do.                                                            *)
(***************************************************************************)
THEOREM StateAgrees == Spec => []PidStateAgrees
<1>1. TypeInv /\ HoldInv => PidStateAgrees
  <2> SUFFICES ASSUME TypeInv, HoldInv PROVE PidStateAgrees
    OBVIOUS
  <2>1. announced = Registry!Live \cup departed
    <3>1. announced \subseteq Processes /\ departed \subseteq Processes
      BY DEF TypeInv, TypeOK
    <3>2. \A p \in Processes : Holds(p) <=> p \in Registry!Live
      <4> SUFFICES ASSUME NEW p \in Processes PROVE Holds(p) <=> p \in Registry!Live
        OBVIOUS
      <4>1. Holds(p) => p = live[p.pid] /\ p.pid \in DOMAIN live
        BY Names DEF Holds
      <4>2. \A q \in DOMAIN live : Holds(live[q])
        BY Names
      <4> QED BY <4>1, <4>2 DEF Registry!Live
    <3>3. Registry!Live \subseteq Processes
      BY Names DEF Registry!Live
    <3> QED BY <3>1, <3>2, <3>3 DEF HoldInv, ExporterInv
  <2> QED BY <2>1, DepartedAre DEF HoldInv, PidStateAgrees
<1> QED BY <1>1, TypeInvariance, HoldInvariance, PTL

-----------------------------------------------------------------------------
(* The third layer: the order of instants.  A tick's departures are dated when  *)
(* it began, so what a tick adds must not come before it is known who left.     *)

Dates(pid) == {retired[pid][i].ts : i \in 1..Len(retired[pid])}

ClockInv ==
  /\ now <= clock
  /\ pc \in {"polling", "reading"} => now <= tick_read /\ tick_read <= clock
  /\ pc = "reading" => now <= ts_read /\ ts_read <= clock

RecordInv ==
  \A pid \in Pids : \A h \in 1..born[pid] : \A k \in 1..Len(records[pid][h]) :
    records[pid][h][k] <= clock

PollInv ==
  /\ \A pid \in Pids : \A ts \in Dates(pid) : ts <= now
  /\ \A pid \in DOMAIN states :
       /\ states[pid].ts_last_poll <= clock
       /\ \A ts \in Dates(pid) : ts <= states[pid].ts_last_poll

(* An instant t that is filed under p. *)
Fits(p, t) ==
  /\ t <= clock
  /\ HasLeft(p) => t <= retired[p.pid][p.epoch].ts
  /\ \A i \in 1..Len(retired[p.pid]) : i < p.epoch => retired[p.pid][i].ts <= t
  /\ Due(p.pid) => t <= now

OrderInv ==
  /\ ClockInv /\ RecordInv /\ PollInv
  /\ \A p \in DOMAIN spans : \A t \in Ends(spans, p) : Fits(p, t)

LEMMA Numbers ==
  ASSUME TypeInv
  PROVE  /\ clock \in Nat /\ now \in Nat /\ tick_read \in Nat /\ ts_read \in Nat
         /\ Instant \subseteq Nat
         /\ \A pid \in Pids : /\ Len(retired[pid]) \in Nat /\ Dates(pid) \subseteq Nat
                              /\ \A i \in 1..Len(retired[pid]) : retired[pid][i].ts \in Nat
         /\ \A p \in DOMAIN spans : p \in Processes /\ Ends(spans, p) \subseteq Nat
         /\ \A pid \in DOMAIN states : pid \in Pids /\ states[pid].ts_last_poll \in Nat
<1>1. Instant \subseteq Nat
  BY Constants DEF Instant
<1>2. /\ clock \in Nat /\ now \in Nat /\ tick_read \in Nat /\ ts_read \in Nat
  BY <1>1 DEF TypeInv, TypeOK
<1>3. ASSUME NEW pid \in Pids
      PROVE  /\ Len(retired[pid]) \in Nat
             /\ \A i \in 1..Len(retired[pid]) : retired[pid][i].ts \in Nat
  <2>1. retired[pid] \in Seq(Registry!Departure)
    BY DEF TypeInv, TypeOK, Registry!TypeOK
  <2>2. \A i \in 1..Len(retired[pid]) : retired[pid][i] \in Registry!Departure
    BY <2>1
  <2> QED BY <2>1, <2>2 DEF Registry!Departure
<1>4. \A p \in DOMAIN spans : p \in Processes /\ Ends(spans, p) \subseteq Nat
  BY <1>1 DEF TypeInv, TypeOK, Ends
<1>5. \A pid \in DOMAIN states : pid \in Pids /\ states[pid].ts_last_poll \in Nat
  BY <1>1 DEF TypeInv, TypeOK, PidMap
<1> QED BY <1>1, <1>2, <1>3, <1>4, <1>5 DEF Dates

(* The records a process has stay as they are, and a new one is dated now. *)
LEMMA RecordsGrow ==
  ASSUME TypeInv, World, NEW pid \in Pids
  PROVE  /\ born[pid] \in Nat /\ born'[pid] \in Nat /\ born[pid] <= born'[pid]
         /\ \A h \in 1..born[pid] :
              /\ Len(records[pid][h]) \in Nat /\ Len(records'[pid][h]) \in Nat
              /\ Len(records[pid][h]) <= Len(records'[pid][h])
              /\ \A k \in 1..Len(records[pid][h]) : records'[pid][h][k] = records[pid][h][k]
         /\ \A h \in 1..born'[pid] : \A k \in 1..Len(records'[pid][h]) :
              \/ h \in 1..born[pid] /\ k \in 1..Len(records[pid][h])
              \/ records'[pid][h][k] = clock
<1>1. /\ born[pid] \in Nat /\ records[pid] \in Seq(Seq(Instant)) /\ Len(records[pid]) = born[pid]
      /\ born \in [Pids -> 0..MaxHolders] /\ records \in [Pids -> Seq(Seq(Instant))]
      /\ clock \in Instant
  BY Constants DEF TypeInv, TypeOK
<1>2. \A h \in 1..born[pid] : records[pid][h] \in Seq(Instant) /\ Len(records[pid][h]) \in Nat
  BY <1>1
<1>3. CASE records'[pid] = records[pid] /\ born'[pid] = born[pid]
  BY <1>1, <1>2, <1>3
<1>4. CASE Spawn(pid)
  <2>1. records'[pid] = Append(records[pid], <<>>) /\ born'[pid] = born[pid] + 1
    BY <1>1, <1>4 DEF Spawn
  <2>2. /\ \A h \in 1..born[pid] : records'[pid][h] = records[pid][h]
        /\ records'[pid][born[pid] + 1] = <<>>
    <3>1. <<>> \in Seq(Instant)
      OBVIOUS
    <3> QED BY <1>1, <2>1, <3>1
  <2>3. Len(<<>>) = 0
    OBVIOUS
  <2> QED BY <1>1, <1>2, <2>1, <2>2, <2>3
<1>5. CASE Collect(pid)
  <2> DEFINE h == born[pid]
             old == records[pid][h]
  <2>1. h \in 1..born[pid] /\ old \in Seq(Instant) /\ Len(old) \in Nat
    <3>1. pid \in alive
      BY <1>5 DEF Collect, TypeInv, TypeOK
    <3>2. h \in 1..born[pid]
      BY <1>1, <3>1 DEF TypeInv
    <3> QED BY <1>2, <3>2
  <2>2. records'[pid] = [records[pid] EXCEPT ![h] = Append(old, clock)] /\ born'[pid] = born[pid]
    BY <1>1, <1>5 DEF Collect
  <2>3. /\ \A g \in 1..born[pid] : g # h => records'[pid][g] = records[pid][g]
        /\ records'[pid][h] = Append(old, clock)
    <3> HIDE DEF h, old
    <3> QED BY <1>1, <2>1, <2>2
  <2> HIDE DEF h
  <2>4. /\ Len(records'[pid][h]) = Len(old) + 1
        /\ \A k \in 1..Len(old) : records'[pid][h][k] = old[k]
        /\ records'[pid][h][Len(old) + 1] = clock
    <3> HIDE DEF old
    <3> QED BY <1>1, <2>1, <2>3
  <2> QED BY <1>1, <1>2, <2>1, <2>2, <2>3, <2>4
<1>6. (records'[pid] = records[pid] /\ born'[pid] = born[pid]) \/ Spawn(pid) \/ Collect(pid)
  BY <1>1 DEF World, Elapse, Signal, Spawn, Start, Collect, Exit, Suppress, Resume, world
<1> QED BY <1>3, <1>4, <1>5, <1>6

LEMMA OrderInit == Init => OrderInv
<1> SUFFICES ASSUME Init PROVE OrderInv
  OBVIOUS
<1>1. /\ clock = 0 /\ now = 0 /\ pc = "idle" /\ spans = <<>> /\ states = <<>>
      /\ retired = [pid \in Pids |-> <<>>]
  BY DEF Init, Registry!Init
<1>2. \A pid \in Pids : Dates(pid) = {}
  BY <1>1 DEF Dates
<1>3. RecordInv
  <2>1. \A pid \in Pids : \A h \in 1..born[pid] : records[pid][h] = <<>>
    <3> SUFFICES ASSUME NEW pid \in Pids, NEW h \in 1..born[pid] PROVE records[pid][h] = <<>>
      OBVIOUS
    <3>1. born[pid] = (IF pid = Root THEN 1 ELSE 0)
          /\ records[pid] = (IF pid = Root THEN << <<>> >> ELSE <<>>)
      BY DEF Init
    <3>2. pid = Root /\ h = 1
      BY <3>1
    <3> QED BY <3>1, <3>2
  <2>2. Len(<<>>) = 0
    OBVIOUS
  <2> QED BY <2>1, <2>2 DEF RecordInv
<1> QED BY <1>1, <1>2, <1>3 DEF OrderInv, ClockInv, PollInv

LEMMA OrderWorld == TypeInv /\ OrderInv /\ (World \/ UNCHANGED vars) => OrderInv'
<1> SUFFICES ASSUME TypeInv, OrderInv, World \/ UNCHANGED vars PROVE OrderInv'
  OBVIOUS
<1>1. UNCHANGED <<tick, held, registry, exporter>> /\ clock' \in {clock, clock + 1}
  BY WorldEffect DEF vars
<1>2. /\ UNCHANGED <<live, retired, now, states, spans, pc, todo, reading, tick_read, ts_read>>
      /\ clock <= clock' /\ clock' \in Nat
  BY <1>1, Numbers DEF tick, held, registry, exporter
<1>3. ClockInv'
  BY <1>2, Numbers DEF OrderInv, ClockInv
<1>4. PollInv'
  BY <1>2, Numbers DEF OrderInv, PollInv, Dates
<1>5. RecordInv'
  <2>1. CASE UNCHANGED vars
    BY <2>1 DEF vars, world, OrderInv, RecordInv
  <2>2. CASE World
    <3> SUFFICES ASSUME NEW pid \in Pids, NEW h \in 1..born'[pid], NEW k \in 1..Len(records'[pid][h])
                 PROVE  records'[pid][h][k] <= clock'
      BY DEF RecordInv
    <3>1. CASE h \in 1..born[pid] /\ k \in 1..Len(records[pid][h])
      <4>1. records'[pid][h][k] = records[pid][h][k] /\ records[pid][h][k] <= clock
        BY <2>2, <3>1, RecordsGrow DEF OrderInv, RecordInv
      <4>2. records[pid][h][k] \in Instant
        <5>1. records[pid] \in Seq(Seq(Instant)) /\ Len(records[pid]) = born[pid]
          BY DEF TypeInv, TypeOK
        <5>2. records[pid][h] \in Seq(Instant)
          BY <3>1, <5>1
        <5> QED BY <3>1, <5>2
      <4> QED BY <1>2, <4>1, <4>2, Numbers
    <3>2. CASE records'[pid][h][k] = clock
      BY <1>2, <3>2, Numbers
    <3> QED BY <2>2, <3>1, <3>2, RecordsGrow
  <2> QED BY <2>1, <2>2
<1>6. (\A p \in DOMAIN spans : \A t \in Ends(spans, p) : Fits(p, t))'
  BY <1>2, Numbers DEF OrderInv, Fits, HasLeft, Due, Ends
<1> QED BY <1>3, <1>4, <1>5, <1>6 DEF OrderInv

(* Steps between which nobody leaves and nothing is filed. *)
LEMMA OrderIdle ==
  ASSUME TypeInv, OrderInv, ClockInv', UNCHANGED <<clock, world, retired, states, spans>>,
         now' = now \/ now' = clock,
         \A pid \in Pids : Due(pid)' => now' = clock \/ (Due(pid) /\ now' = now)
  PROVE  OrderInv'
<1>1. RecordInv'
  BY DEF OrderInv, RecordInv, world
<1>2. PollInv'
  <2>1. \A pid \in Pids : Dates(pid)' = Dates(pid) /\ Dates(pid) \subseteq Nat
    BY Numbers DEF Dates
  <2>2. now <= now' /\ now' \in Nat /\ now \in Nat
    BY Numbers DEF OrderInv, ClockInv
  <2>3. \A pid \in Pids : \A ts \in Dates(pid)' : ts <= now'
    BY <2>1, <2>2 DEF OrderInv, PollInv
  <2>4. \A pid \in DOMAIN states' :
          /\ states'[pid].ts_last_poll <= clock'
          /\ \A ts \in Dates(pid)' : ts <= states'[pid].ts_last_poll
    BY <2>1, Numbers DEF OrderInv, PollInv
  <2> QED BY <2>3, <2>4 DEF PollInv
<1>3. (\A p \in DOMAIN spans : \A t \in Ends(spans, p) : Fits(p, t))'
  <2> SUFFICES ASSUME NEW p \in DOMAIN spans, NEW t \in Ends(spans, p) PROVE Fits(p, t)'
    BY DEF Ends
  <2>1. Fits(p, t) /\ p.pid \in Pids
    BY Numbers, Names DEF OrderInv
  <2> QED BY <2>1 DEF Fits, HasLeft
<1> QED BY <1>1, <1>2, <1>3 DEF OrderInv

LEMMA OrderTick ==
  ASSUME TypeInv, OrderInv,
         BeginTick \/ ListFails \/ (\E pid \in Pids : Skip(pid) \/ BeginRead(pid))
           \/ Stopped \/ Close
  PROVE  OrderInv'
<1>1. CASE BeginTick
  <2>1. now' = clock /\ pc' = "listing"
        /\ UNCHANGED <<clock, world, retired, states, spans>>
    BY <1>1 DEF BeginTick, Registry!Advance, held, exporter
  <2>2. ClockInv'
    BY <2>1, Numbers DEF ClockInv
  <2> QED BY <2>1, <2>2, OrderIdle
<1>2. CASE ListFails
  <2>1. /\ now' = now /\ pc = "listing" /\ pc' = "polling" /\ tick_read' = now
        /\ UNCHANGED <<clock, world, retired, states, spans>>
    BY <1>2 DEF ListFails, StartPolling, held, registry, exporter
  <2>2. ClockInv'
    BY <2>1, Numbers DEF OrderInv, ClockInv
  <2> QED BY <2>1, <2>2, OrderIdle DEF Due
<1>3. ASSUME NEW pid \in Pids, Skip(pid)
      PROVE  OrderInv'
  <2>1. /\ now' = now /\ pc' = pc /\ pc = "polling" /\ tick_read' = tick_read
        /\ todo' \subseteq todo
        /\ UNCHANGED <<clock, world, retired, states, spans>>
    BY <1>3 DEF Skip, held, registry, exporter
  <2>2. ClockInv'
    BY <2>1 DEF OrderInv, ClockInv
  <2> QED BY <2>1, <2>2, OrderIdle DEF Due
<1>4. ASSUME NEW pid \in Pids, BeginRead(pid)
      PROVE  OrderInv'
  <2>1. /\ now' = now /\ pc' = "reading" /\ pc = "polling" /\ tick_read' = tick_read
        /\ reading' = pid /\ pid \in todo /\ todo' \subseteq todo /\ ts_read' = clock
        /\ UNCHANGED <<clock, world, retired, states, spans>>
    BY <1>4 DEF BeginRead, NextPid, registry, exporter
  <2>2. ClockInv'
    BY <2>1, Numbers DEF OrderInv, ClockInv
  <2> QED BY <2>1, <2>2, OrderIdle DEF Due
<1>5. CASE Stopped \/ Close
  <2>1. /\ now' = now /\ pc' \in {"done", "closed"} /\ todo' = todo
        /\ UNCHANGED <<clock, world, retired, states, spans>>
    BY <1>5 DEF Stopped, Close, held, registry, exporter
  <2>2. ClockInv'
    BY <2>1 DEF OrderInv, ClockInv
  <2> QED BY <2>1, <2>2, OrderIdle DEF Due
<1> QED BY <1>1, <1>2, <1>3, <1>4, <1>5

(* A departure is one entry more in the pid's book, dated when the tick began. *)
LEMMA DepartsBook ==
  ASSUME TypeInv, NEW leaving, Departs(leaving), NEW pid \in Pids
  PROVE  /\ pid \in leaving /\ pid \in DOMAIN live =>
              /\ Len(retired'[pid]) = Len(retired[pid]) + 1
              /\ retired'[pid][Len(retired[pid]) + 1].ts = now
              /\ \A i \in 1..Len(retired[pid]) : retired'[pid][i] = retired[pid][i]
              /\ Dates(pid)' = Dates(pid) \cup {now}
         /\ ~(pid \in leaving /\ pid \in DOMAIN live) =>
              retired'[pid] = retired[pid] /\ Dates(pid)' = Dates(pid)
<1> DEFINE n == Len(retired[pid])
<1>1. n \in Nat
  BY Numbers
<1>2. CASE pid \in leaving /\ pid \in DOMAIN live
  <2>1. /\ Len(retired'[pid]) = n + 1
        /\ retired'[pid][n + 1] = [process |-> live[pid], ts |-> now]
        /\ \A i \in 1..n : retired'[pid][i] = retired[pid][i]
    BY <1>2 DEF Departs
  <2>2. retired'[pid][n + 1].ts = now
    BY <2>1
  <2>3. Dates(pid)' = Dates(pid) \cup {now}
    <3>1. Dates(pid)' = {retired'[pid][i].ts : i \in 1..(n + 1)}
      BY <2>1 DEF Dates
    <3>2. 1..(n + 1) = 1..n \cup {n + 1}
      BY <1>1
    <3> HIDE DEF n
    <3> QED BY <2>1, <2>2, <3>1, <3>2 DEF Dates, n
  <2> QED BY <1>2, <2>1, <2>2, <2>3
<1>3. CASE ~(pid \in leaving /\ pid \in DOMAIN live)
  <2>1. retired'[pid] = retired[pid]
    BY <1>3 DEF Departs
  <2> QED BY <1>3, <2>1 DEF Dates
<1> QED BY <1>2, <1>3

(* Who leaves is due, so what is filed under them is dated before the tick began. *)
LEMMA FitsDeparts ==
  ASSUME TypeInv, NEW leaving, Departs(leaving), clock' = clock,
         \A pid \in leaving \cap Pids : Due(pid),
         \A pid \in Pids : Due(pid)' => Due(pid),
         NEW p \in Processes, NEW t \in Nat, HasLeft(p) \/ Holds(p), Fits(p, t)
  PROVE  Fits(p, t)'
<1> DEFINE pid == p.pid
           n == Len(retired[pid])
<1>1. /\ now' = now /\ pid \in Pids /\ p.epoch \in Nat \ {0} /\ n \in Nat
      /\ Due(pid)' => Due(pid)
  BY Names DEF Departs
<1>2. t <= clock' /\ (Due(pid)' => t <= now')
  BY <1>1 DEF Fits
<1>3. CASE pid \in leaving /\ pid \in DOMAIN live
  <2>1. /\ Len(retired'[pid]) = n + 1 /\ retired'[pid][n + 1].ts = now
        /\ \A i \in 1..n : retired'[pid][i] = retired[pid][i]
    BY <1>1, <1>3, DepartsBook
  <2>2. t <= now
    BY <1>1, <1>3 DEF Fits
  <2>3. p.epoch <= n + 1
    BY <1>1 DEF HasLeft, Holds
  <2>4. HasLeft(p)' => t <= retired'[pid][p.epoch].ts
    <3>1. CASE p.epoch = n + 1
      BY <2>1, <2>2, <3>1
    <3>2. CASE p.epoch <= n
      <4>1. t <= retired[pid][p.epoch].ts
        BY <3>2 DEF Fits, HasLeft
      <4> QED BY <1>1, <2>1, <3>2, <4>1
    <3> QED BY <1>1, <2>3, <3>1, <3>2
  <2>5. \A i \in 1..Len(retired'[pid]) : i < p.epoch => retired'[pid][i].ts <= t
    <3> SUFFICES ASSUME NEW i \in 1..Len(retired'[pid]), i < p.epoch
                 PROVE  retired'[pid][i].ts <= t
      OBVIOUS
    <3>1. i \in 1..n
      BY <1>1, <2>1, <2>3
    <3>2. retired[pid][i].ts <= t
      BY <3>1 DEF Fits
    <3> QED BY <2>1, <3>1, <3>2
  <2> QED BY <1>2, <2>4, <2>5 DEF Fits
<1>4. CASE ~(pid \in leaving /\ pid \in DOMAIN live)
  <2>1. retired'[pid] = retired[pid]
    BY <1>1, <1>4, DepartsBook
  <2> QED BY <1>1, <1>2, <2>1 DEF Fits, HasLeft
<1> QED BY <1>3, <1>4

LEMMA OrderDeparts ==
  ASSUME TypeInv, HoldInv, OrderInv, NEW leaving, Departs(leaving),
         UNCHANGED <<clock, spans>>,
         \A pid \in leaving \cap Pids : Due(pid),
         \A pid \in Pids : Due(pid)' => Due(pid)
  PROVE  PollInv' /\ (\A p \in DOMAIN spans : \A t \in Ends(spans, p) : Fits(p, t))'
<1>1. now' = now
  BY DEF Departs
<1>2. PollInv'
  <2>1. ASSUME NEW pid \in Pids, NEW ts \in Dates(pid)'
        PROVE  ts <= now
    <3>1. ts \in Dates(pid) \/ ts = now
      BY <2>1, DepartsBook
    <3> QED BY <3>1, Numbers DEF OrderInv, PollInv
  <2>2. ASSUME NEW pid \in DOMAIN states'
        PROVE  /\ states'[pid].ts_last_poll <= clock
               /\ \A ts \in Dates(pid)' : ts <= states'[pid].ts_last_poll
    <3>1. pid \in DOMAIN states /\ states'[pid] = states[pid] /\ pid \notin leaving
      BY <2>2 DEF Departs
    <3>2. Dates(pid)' = Dates(pid)
      BY <3>1, Numbers, DepartsBook
    <3> QED BY <3>1, <3>2 DEF OrderInv, PollInv
  <2> QED BY <1>1, <2>1, <2>2 DEF PollInv
<1>3. ASSUME NEW p \in DOMAIN spans, NEW t \in Ends(spans, p)
      PROVE  Fits(p, t)'
  <2>1. p \in Processes /\ t \in Nat /\ Fits(p, t) /\ (HasLeft(p) \/ Holds(p))
    BY Numbers DEF OrderInv, HoldInv, ExporterInv
  <2> QED BY <2>1, FitsDeparts
<1>4. (\A p \in DOMAIN spans : \A t \in Ends(spans, p) : Fits(p, t))'
  BY <1>3 DEF Ends
<1> QED BY <1>2, <1>4

LEMMA OrderList == TypeInv /\ HoldInv /\ OrderInv /\ List => OrderInv'
<1> SUFFICES ASSUME TypeInv, HoldInv, OrderInv, List PROVE OrderInv'
  OBVIOUS
<1>1. /\ Departs(Pids \ Children) /\ pc = "listing" /\ pc' = "polling" /\ tick_read' = now
      /\ UNCHANGED <<clock, world, spans>>
  BY ListEffect
<1>2. PollInv' /\ (\A p \in DOMAIN spans : \A t \in Ends(spans, p) : Fits(p, t))'
  BY <1>1, OrderDeparts DEF HoldInv, Due
<1>3. ClockInv'
  BY <1>1, Numbers DEF OrderInv, ClockInv, Departs
<1>4. RecordInv'
  BY <1>1 DEF OrderInv, RecordInv, world
<1> QED BY <1>2, <1>3, <1>4 DEF OrderInv

LEMMA OrderFail == TypeInv /\ HoldInv /\ OrderInv /\ ReadFails => OrderInv'
<1> SUFFICES ASSUME TypeInv, HoldInv, OrderInv, ReadFails PROVE OrderInv'
  OBVIOUS
<1>1. /\ pc = "reading" /\ pc' = "polling" /\ tick_read' = tick_read /\ todo' = todo
      /\ reading' = reading /\ UNCHANGED <<clock, world, spans>>
      /\ UNCHANGED <<states, live, retired, now>> \/ Departs({reading})
  BY FailEffect
<1>2. ClockInv'
  BY <1>1 DEF OrderInv, ClockInv, Departs
<1>3. RecordInv'
  BY <1>1 DEF OrderInv, RecordInv, world
<1>4. \A pid \in Pids : Due(pid)' => Due(pid)
  BY <1>1 DEF Due
<1>5. CASE Departs({reading})
  <2>1. \A pid \in {reading} \cap Pids : Due(pid)
    BY <1>1 DEF Due
  <2> QED BY <1>1, <1>2, <1>3, <1>4, <1>5, <2>1, OrderDeparts DEF HoldInv, OrderInv
<1>6. CASE UNCHANGED <<states, live, retired, now>>
  BY <1>1, <1>2, <1>4, <1>6, OrderIdle
<1> QED BY <1>1, <1>5, <1>6

(* What is filed under a pid's holder now fits it; the pid is not due any more. *)
LEMMA FitsHolder ==
  ASSUME TypeInv, NEW p \in Processes, Holds(p)', NEW t \in Nat, t <= clock',
         retired' = retired, \A ts \in Dates(p.pid) : ts <= t, ~Due(p.pid)'
  PROVE  Fits(p, t)'
<1>1. p.pid \in Pids /\ Len(retired[p.pid]) \in Nat
  BY Names
<1>2. ~HasLeft(p)'
  BY <1>1 DEF HasLeft, Holds
<1>3. \A i \in 1..Len(retired[p.pid]) : retired[p.pid][i].ts <= t
  BY DEF Dates
<1> QED BY <1>2, <1>3 DEF Fits

(* A span that is left alone, while nobody leaves. *)
LEMMA FitsStill ==
  ASSUME NEW p, NEW t, Fits(p, t), UNCHANGED <<clock, retired, now>>, Due(p.pid)' => Due(p.pid)
  PROVE  Fits(p, t)'
BY DEF Fits, HasLeft

LEMMA OrderEnd == TypeInv /\ HoldInv /\ OrderInv /\ EndTick => OrderInv'
<1> SUFFICES ASSUME TypeInv, HoldInv, OrderInv, EndTick PROVE OrderInv'
  OBVIOUS
<1>1. /\ pc = "polling" /\ pc' \in {"idle", "done"} /\ todo' = {}
      /\ UNCHANGED <<clock, world, live, retired, now, states>>
  BY DEF EndTick, registry, held
<1>2. ClockInv' /\ RecordInv' /\ PollInv'
  BY <1>1 DEF OrderInv, ClockInv, RecordInv, PollInv, Dates, world
<1>3. \A pid \in Pids : ~Due(pid)'
  BY <1>1 DEF Due
<1>4. ASSUME NEW p \in DOMAIN spans', NEW t \in Ends(spans', p)
      PROVE  Fits(p, t)'
  <2>1. CASE p \notin answered
    <3>1. p \in DOMAIN spans /\ t \in Ends(spans, p) /\ p.pid \in Pids
      BY <1>4, <2>1, EndEffect, Numbers, Names DEF Ends
    <3> QED BY <1>1, <1>3, <3>1, FitsStill DEF OrderInv
  <2>2. CASE p \in answered
    <3>1. p \in Processes /\ Holds(p) /\ p.pid \in Pids
      BY <2>2, Names DEF HoldInv, TypeInv, TypeOK
    <3>2. CASE t = tick_read
      <4>1. t \in Nat /\ t <= clock' /\ \A ts \in Dates(p.pid) : ts <= t
        BY <1>1, <3>1, <3>2, Numbers DEF OrderInv, ClockInv, PollInv
      <4>2. Holds(p)' /\ ~Due(p.pid)'
        BY <1>1, <1>3, <3>1 DEF Holds
      <4> QED BY <1>1, <3>1, <4>1, <4>2, FitsHolder
    <3>3. CASE p \in DOMAIN spans /\ t \in Ends(spans, p)
      BY <1>1, <1>3, <3>1, <3>3, FitsStill DEF OrderInv
    <3> QED BY <1>4, <2>2, <3>2, <3>3, EndEffect
  <2> QED BY <2>1, <2>2
<1>5. (\A p \in DOMAIN spans : \A t \in Ends(spans, p) : Fits(p, t))'
  BY <1>4 DEF Ends
<1> QED BY <1>2, <1>5 DEF OrderInv

(* The instants a read hands on are dated after the pid's departures, and no later than now. *)
LEMMA InstantsFit ==
  ASSUME TypeInv, HoldInv, OrderInv, ReadReturns, NEW t \in Instants
  PROVE  t \in Nat /\ t <= clock /\ \A ts \in Dates(reading) : ts <= t
<1>1. t \in Nat /\ reading \in Pids /\ born[reading] \in 1..MaxHolders /\ Dates(reading) \subseteq Nat
  BY ReadTypes, Numbers
<1>2. CASE \E k \in Taken : t = Ring[k]
  <2>1. PICK k \in Taken : t = Ring[k]
    BY <1>2
  <2>2. k \in 1..Len(Ring) /\ After(reading, Ring[k])
    BY ReadTypes DEF Taken
  <2>3. t <= clock
    <3>1. born[reading] \in 1..born[reading] /\ Ring = records[reading][born[reading]]
      BY <1>1, Constants DEF Ring
    <3>2. \A k1 \in 1..Len(Ring) : Ring[k1] <= clock
      BY <1>1, <3>1 DEF OrderInv, RecordInv
    <3> QED BY <2>1, <2>2, <3>2
  <2>4. \A ts \in Dates(reading) : ts < t
    BY <2>1, <2>2 DEF After, Dates
  <2> QED BY <1>1, <2>3, <2>4
<1>3. CASE Gap /\ t = State.ts_last_poll
  <2>1. reading \in DOMAIN states
    BY <1>3 DEF Gap, State
  <2> QED BY <1>1, <1>3, <2>1 DEF State, OrderInv, PollInv
<1>4. CASE t = ts_read
  <2>1. pc = "reading"
    BY DEF ReadReturns
  <2> QED BY <1>1, <1>4, <2>1, Numbers DEF OrderInv, ClockInv, PollInv
<1> QED BY <1>2, <1>3, <1>4 DEF Instants

LEMMA OrderRead == TypeInv /\ HoldInv /\ OrderInv /\ ReadReturns => OrderInv'
<1> SUFFICES ASSUME TypeInv, HoldInv, OrderInv, ReadReturns PROVE OrderInv'
  OBVIOUS
<1>1. /\ Filled /\ Folded /\ reading \in Pids /\ reading' = reading /\ pc = "reading"
      /\ pc' = "polling" /\ live'[reading] \in Processes
  BY ReadEffect, ReadTypes
<1>2. /\ todo' = todo /\ reading \notin todo /\ tick_read' = clock /\ ts_read' = 0
      /\ UNCHANGED <<clock, world>> /\ retired' = retired /\ now' = now
  BY <1>1 DEF ReadReturns, TypeInv, Filled
<1>3. ClockInv' /\ RecordInv'
  BY <1>1, <1>2, Numbers DEF OrderInv, ClockInv, RecordInv, world
<1>4. \A pid \in Pids : Dates(pid)' = Dates(pid)
  BY <1>2 DEF Dates
<1>5. PollInv'
  <2>1. states'[reading].ts_last_poll = ts_read /\ now <= ts_read /\ ts_read <= clock
    BY <1>1 DEF Folded, OrderInv, ClockInv
  <2>2. ASSUME NEW pid \in DOMAIN states'
        PROVE  /\ states'[pid].ts_last_poll <= clock
               /\ \A ts \in Dates(pid) : ts <= states'[pid].ts_last_poll
    <3>1. CASE pid = reading
      BY <1>1, <2>1, <3>1, Numbers DEF OrderInv, PollInv
    <3>2. CASE pid # reading
      BY <1>1, <3>2 DEF Folded, OrderInv, PollInv
    <3> QED BY <3>1, <3>2
  <2>3. \A pid \in DOMAIN states' : pid \in Pids
    BY <1>1, Numbers DEF Folded
  <2> QED BY <1>2, <1>4, <2>2, <2>3 DEF OrderInv, PollInv
<1>6. ASSUME NEW p \in DOMAIN spans', NEW t \in Ends(spans', p)
      PROVE  Fits(p, t)'
  <2>1. p \in Processes /\ p.pid \in Pids
    BY <1>1, ReadSpans, Numbers, Names
  <2>2. Due(p.pid)' => Due(p.pid)
    BY <1>1, <1>2 DEF Due
  <2>3. CASE p \in DOMAIN spans /\ t \in Ends(spans, p)
    BY <1>2, <2>2, <2>3, FitsStill DEF OrderInv
  <2>4. CASE p = live'[reading] /\ t \in Instants
    <3>1. Holds(p)' /\ p.pid = reading
      BY <1>1, <2>4 DEF Filled, Holds
    <3>2. ~Due(p.pid)'
      BY <1>1, <1>2, <3>1 DEF Due
    <3> QED BY <1>2, <2>1, <2>4, <3>1, <3>2, InstantsFit, FitsHolder
  <2>5. CASE p # live'[reading]
    <3>1. p \in DOMAIN spans /\ spans'[p] = spans[p]
      BY <1>6, <2>5, ReadSpans
    <3> QED BY <1>6, <2>3, <3>1 DEF Ends
  <2> QED BY <1>6, <2>3, <2>4, <2>5, ReadSpans
<1>7. (\A p \in DOMAIN spans : \A t \in Ends(spans, p) : Fits(p, t))'
  BY <1>6 DEF Ends
<1> QED BY <1>3, <1>5, <1>7 DEF OrderInv

LEMMA OrderStep == TypeInv /\ HoldInv /\ OrderInv /\ [Next]_vars => OrderInv'
  BY OrderWorld, OrderTick, OrderList, OrderFail, OrderEnd, OrderRead DEF Next, Monitor

LEMMA OrderInvariance == Spec => []OrderInv
  BY TypeInvariance, HoldInvariance, OrderInit, OrderStep, PTL DEF Spec

(***************************************************************************)
(* The lives of a pid's processes do not overlap in what the exporter has  *)
(* of them: whatever dates a process has, none reaches into its successor. *)
(***************************************************************************)
THEOREM LivesFollow == Spec => []LivesInOrder
<1>1. TypeInv /\ HoldInv /\ OrderInv => LivesInOrder
  <2> SUFFICES ASSUME TypeInv, HoldInv, OrderInv, NEW p \in DOMAIN spans, NEW q \in DOMAIN spans,
                      p.pid = q.pid, p.epoch < q.epoch
               PROVE  spans[p].last <= spans[q].first
    BY DEF LivesInOrder
  <2> DEFINE n == Len(retired[p.pid])
  <2>1. /\ p \in Processes /\ q \in Processes /\ p.pid \in Pids /\ n \in Nat
        /\ p.epoch \in Nat \ {0} /\ q.epoch \in Nat \ {0}
        /\ spans[p].last \in Nat /\ spans[q].first \in Nat
    BY Numbers, Names DEF Ends
  <2>2. Fits(p, spans[p].last) /\ Fits(q, spans[q].first)
    BY DEF OrderInv, Ends
  <2>3. q.epoch <= n + 1
    BY <2>1 DEF HoldInv, ExporterInv, HasLeft, Holds
  <2>4. p.epoch \in 1..n
    BY <2>1, <2>3
  <2>5. spans[p].last <= retired[p.pid][p.epoch].ts /\ retired[p.pid][p.epoch].ts <= spans[q].first
    BY <2>2, <2>4 DEF Fits, HasLeft
  <2>6. retired[p.pid][p.epoch].ts \in Nat
    BY <2>1, <2>4, Numbers
  <2> QED BY <2>1, <2>5, <2>6
<1> QED BY <1>1, TypeInvariance, HoldInvariance, OrderInvariance, PTL

-----------------------------------------------------------------------------
(* The target is followed to its end, unless a client silences its pid.    *)

(* The target's read of this tick is behind, and it gave no reason to go on. *)
RootIsBehind ==
  /\ pc \in {"polling", "reading"} /\ Root \notin todo
  /\ ~(pc = "reading" /\ reading = Root)
  /\ ~keep

TargetInv ==
  /\ suppressed = {}
  /\ RootIsBehind => Root \notin DOMAIN live
  /\ pc \in {"done", "closed"} /\ ~stop => Root \notin DOMAIN live

LEMMA TargetInit == Init => TargetInv
  BY DEF Init, TargetInv, RootIsBehind, Registry!Init

LEMMA TargetStep ==
  ASSUME ~Suppressible, TypeInv, HoldInv, TargetInv, [Next]_vars
  PROVE  TargetInv'
<1> USE DEF TargetInv, RootIsBehind
<1>1. CASE World \/ UNCHANGED vars
  <2>1. UNCHANGED <<pc, todo, reading, keep, live>>
    BY <1>1, WorldEffect DEF vars, tick, registry
  <2>2. suppressed' = {} /\ (stop => stop')
    BY <1>1 DEF vars, World, Elapse, Signal, Spawn, Start, Collect, Exit, Suppress, Resume
  <2> QED BY <2>1, <2>2
<1>2. CASE BeginTick \/ ListFails \/ Stopped \/ Close
  BY <1>2 DEF BeginTick, Registry!Advance, ListFails, StartPolling, Stopped, Close, registry
<1>3. CASE List
  <2>1. Root \in Children
    BY DEF Children
  <2> QED BY <1>3, <2>1, ListEffect
<1>4. ASSUME NEW pid \in Pids, Skip(pid)
      PROVE  TargetInv'
  BY <1>4 DEF Skip
<1>5. ASSUME NEW pid \in Pids, BeginRead(pid)
      PROVE  TargetInv'
  BY <1>5 DEF BeginRead, NextPid, registry
<1>6. CASE EndTick
  <2>1. /\ pc = "polling" /\ (stop \/ todo = {}) /\ todo' = {} /\ live' = live
        /\ suppressed' = suppressed /\ stop' = stop /\ pc' = (IF keep THEN "idle" ELSE "done")
    BY <1>6 DEF EndTick, registry
  <2> QED BY <2>1
<1>7. CASE ReadReturns
  BY <1>7 DEF ReadReturns
<1>8. CASE ReadFails
  <2>1. /\ pc = "reading" /\ pc' = "polling" /\ todo' = todo /\ reading' = reading
        /\ UNCHANGED <<suppressed, stop>>
        /\ \/ keep' = TRUE /\ live' = live
           \/ Departs({reading}) /\ keep' = keep
    BY <1>8, FailEffect
  <2> QED BY <2>1 DEF Departs
<1> QED BY <1>1, <1>2, <1>3, <1>4, <1>5, <1>6, <1>7, <1>8 DEF Next, Monitor

(***************************************************************************)
(* Unless clients suppress pids, the run ends only by a stop or once gcmon *)
(* holds no process for the target: reads that fail once, a listing that   *)
(* fails, or children that answer or go, never end it early.               *)
(***************************************************************************)
THEOREM TargetFollowed == ~Suppressible => (Spec => []TargetIsFollowed)
<1> SUFFICES ASSUME ~Suppressible PROVE Spec => []TargetIsFollowed
  OBVIOUS
<1>1. TypeInv /\ HoldInv /\ TargetInv /\ [Next]_vars => TargetInv'
  BY TargetStep
<1>2. TargetInv => TargetIsFollowed
  BY DEF TargetInv, TargetIsFollowed, Registry!Held
<1> QED BY <1>1, <1>2, TargetInit, TypeInvariance, HoldInvariance, PTL DEF Spec

-----------------------------------------------------------------------------
(* The fourth layer: whose each record is.                                  *)

When(e) == records[e.pid][e.holder][e.run]

(* A record is filed under a process of its pid, whose life its instant fits. *)
Placed(e) ==
  /\ e.process.pid = e.pid /\ (HasLeft(e.process) \/ Holds(e.process))
  /\ e.holder \in 1..born[e.pid] /\ e.run \in 1..Len(records[e.pid][e.holder])
  /\ When(e) \in Nat /\ Fits(e.process, When(e))
  /\ Holds(e.process) => e.holder = states[e.pid].holder

FiledInv ==
  /\ \A e \in exported : Placed(e)
  /\ ExportedOnce
  /\ \A a, b \in exported : a.process = b.process => a.holder = b.holder

(* A pid is handed on only once gcmon holds nothing for it. *)
HandedInv ==
  /\ \A pid \in gone : pid \notin DOMAIN live
  /\ \A pid \in DOMAIN live : born[pid] >= 1
  /\ \A pid \in alive \cap DOMAIN states : states[pid].holder = born[pid]

LEMMA HandedInit == Init => HandedInv
  BY DEF Init, HandedInv, Registry!Init

(* A pid that is handed on is one that gcmon holds no process for. *)
LEMMA SpawnEffect ==
  ASSUME TypeInv, HoldInv, HandedInv, NEW pid \in Pids, Spawn(pid)
  PROVE  pid \notin DOMAIN live /\ pid \notin DOMAIN states
<1>1. pid \in gone \/ born[pid] = 0
  BY DEF Spawn
<1>2. born[pid] = 0 => pid \notin DOMAIN live
  BY DEF HandedInv
<1> QED BY <1>1, <1>2 DEF HandedInv, HoldInv

LEMMA HandedWorld == TypeInv /\ HoldInv /\ HandedInv /\ World => HandedInv'
<1> SUFFICES ASSUME TypeInv, HoldInv, HandedInv, World PROVE HandedInv'
  OBVIOUS
<1>1. UNCHANGED <<live, states>> /\ DOMAIN live \subseteq Pids
  BY WorldEffect DEF held, registry, TypeInv, TypeOK, Registry!TypeOK
<1>2. gone' \subseteq gone
  BY DEF World, Elapse, Signal, Spawn, Start, Collect, Exit, Suppress, Resume
<1>3. \A pid \in DOMAIN live : born'[pid] >= 1
  <2> SUFFICES ASSUME NEW pid \in DOMAIN live PROVE born'[pid] >= 1
    OBVIOUS
  <2>1. born[pid] <= born'[pid] /\ born[pid] \in Nat /\ born'[pid] \in Nat
    BY <1>1, RecordsGrow
  <2> QED BY <2>1 DEF HandedInv
<1>4. ASSUME NEW pid \in alive' \cap DOMAIN states
      PROVE  pid \in alive /\ born'[pid] = born[pid]
  <2>1. ASSUME NEW q \in Pids, Spawn(q)
        PROVE  pid \in alive /\ born'[pid] = born[pid]
    <3>1. pid # q
      BY <2>1, SpawnEffect
    <3> QED BY <1>4, <2>1, <3>1 DEF Spawn, TypeInv, TypeOK
  <2>2. CASE ~\E q \in Pids : Spawn(q)
    <3>1. born' = born /\ alive' \subseteq alive
      BY <2>2 DEF World, Elapse, Signal, Start, Collect, Exit, Suppress, Resume, world
    <3> QED BY <1>4, <3>1
  <2> QED BY <2>1, <2>2
<1> QED BY <1>1, <1>2, <1>3, <1>4 DEF HandedInv

LEMMA HandedStep == TypeInv /\ HoldInv /\ HandedInv /\ [Next]_vars => HandedInv'
<1> SUFFICES ASSUME TypeInv, HoldInv, HandedInv, [Next]_vars PROVE HandedInv'
  OBVIOUS
<1>0. DOMAIN states = DOMAIN live /\ DOMAIN live \subseteq Pids /\ gone \subseteq Pids \ alive
  BY DEF HoldInv, TypeInv, TypeOK, Registry!TypeOK
<1>1. CASE World
  BY <1>1, HandedWorld
<1>2. CASE List
  <2>1. /\ DOMAIN live' = DOMAIN live \cap Children /\ DOMAIN states' = DOMAIN states \cap Children
        /\ \A q \in DOMAIN states' : states'[q] = states[q]
        /\ gone' = gone \cup {pid \in Pids \ alive : pid # Root /\ born[pid] > 0}
        /\ UNCHANGED <<born, alive>>
    BY <1>0, <1>2, ListEffect DEF Departs, world
  <2>2. Children \subseteq alive \cup {Root}
    BY DEF Children
  <2> QED BY <2>1, <2>2 DEF HandedInv
<1>3. CASE ReadFails
  <2>1. /\ reading \in DOMAIN live => policies[reading].seen
        /\ gone' \subseteq gone \cup {reading}
        /\ UNCHANGED <<born, alive>>
        /\ \/ ~policies[reading].seen /\ UNCHANGED <<states, live>>
           \/ Departs({reading})
    BY <1>3, FailEffect DEF HoldInv, world
  <2> QED BY <2>1 DEF HandedInv, Departs
<1>4. CASE ReadReturns
  <2>1. /\ DOMAIN live' = DOMAIN live \cup {reading} /\ DOMAIN states' = DOMAIN states \cup {reading}
        /\ \A q \in DOMAIN states : q # reading => states'[q] = states[q]
        /\ states'[reading].holder = State.holder
        /\ UNCHANGED <<born, alive, gone>> /\ reading \in alive /\ reading \in Pids
    BY <1>4, ReadEffect, ReadTypes DEF Filled, Folded, ReadReturns, world
  <2>2. State.holder = born[reading]
    BY <2>1 DEF HandedInv, State
  <2>3. born[reading] >= 1
    BY <2>1 DEF TypeInv
  <2> QED BY <1>0, <2>1, <2>2, <2>3 DEF HandedInv
<1>5. ASSUME \/ BeginTick \/ ListFails \/ (\E pid \in Pids : Skip(pid) \/ BeginRead(pid))
             \/ EndTick \/ Stopped \/ Close \/ UNCHANGED vars
      PROVE  HandedInv'
  <2>1. UNCHANGED <<gone, born, alive, live, states>>
    BY <1>5 DEF BeginTick, Registry!Advance, ListFails, Skip, BeginRead, EndTick, Stopped, Close,
       vars, world, held, registry
  <2> QED BY <2>1 DEF HandedInv
<1> QED BY <1>1, <1>2, <1>3, <1>4, <1>5 DEF Next, Monitor

LEMMA HandedInvariance == Spec => []HandedInv
  BY TypeInvariance, HoldInvariance, HandedInit, HandedStep, PTL DEF Spec

(* Names and instants of what is filed. *)
LEMMA PlacedTypes ==
  ASSUME TypeInv, NEW e \in exported, Placed(e)
  PROVE  /\ e.pid \in Pids /\ e.process \in Processes
         /\ Due(e.process.pid) <=> Due(e.pid)
BY DEF TypeInv, TypeOK, Filed, Placed

(* A filed record keeps its place while nobody leaves and no pid's cursor is replaced. *)
LEMMA PlacedStill ==
  ASSUME TypeInv, NEW e \in exported, Placed(e),
         UNCHANGED <<live, retired, now, states>>, clock \in Nat, clock' \in Nat, clock <= clock',
         born[e.pid] <= born'[e.pid], born[e.pid] \in Nat, born'[e.pid] \in Nat,
         e.run \in 1..Len(records'[e.pid][e.holder]), When(e)' = When(e),
         Due(e.pid)' => Due(e.pid)
  PROVE  Placed(e)'
<1>1. e.process.pid = e.pid
  BY DEF Placed
<1>2. Fits(e.process, When(e))'
  BY <1>1, SMTT(30) DEF Placed, Fits, HasLeft
<1> QED BY <1>1, <1>2 DEF Placed, HasLeft, Holds

LEMMA FiledIdle ==
  ASSUME FiledInv, exported' = exported, \A e \in exported : Placed(e)'
  PROVE  FiledInv'
BY DEF FiledInv, ExportedOnce

LEMMA FiledInit == Init => FiledInv
  BY DEF Init, FiledInv, ExportedOnce

LEMMA FiledWorld == TypeInv /\ FiledInv /\ (World \/ UNCHANGED vars) => FiledInv'
<1> SUFFICES ASSUME TypeInv, FiledInv, World \/ UNCHANGED vars PROVE FiledInv'
  OBVIOUS
<1>1. /\ UNCHANGED <<exported, live, retired, now, states, pc, todo, reading>>
      /\ clock' \in {clock, clock + 1} /\ clock \in Nat
  BY WorldEffect, Numbers DEF vars, tick, held, registry, exporter
<1>2. ASSUME NEW e \in exported
      PROVE  Placed(e)'
  <2>1. Placed(e) /\ e.pid \in Pids
    BY PlacedTypes DEF FiledInv
  <2>2. /\ born[e.pid] <= born'[e.pid] /\ born[e.pid] \in Nat /\ born'[e.pid] \in Nat
        /\ e.run \in 1..Len(records'[e.pid][e.holder]) /\ When(e)' = When(e)
    <3>1. CASE UNCHANGED vars
      <4>1. born[e.pid] \in Nat
        BY <2>1, Constants DEF TypeInv, TypeOK
      <4> QED BY <2>1, <3>1, <4>1 DEF vars, world, Placed, When
    <3>2. CASE World
      <4>1. e.holder \in 1..born[e.pid] /\ e.run \in 1..Len(records[e.pid][e.holder])
        BY <2>1 DEF Placed
      <4>2. PICK pid \in Pids, h \in 1..born[e.pid], k \in 1..Len(records[e.pid][e.holder]) :
              pid = e.pid /\ h = e.holder /\ k = e.run
        BY <2>1, <4>1
      <4>3. /\ born[pid] \in Nat /\ born'[pid] \in Nat /\ born[pid] <= born'[pid]
            /\ Len(records[pid][h]) \in Nat /\ Len(records'[pid][h]) \in Nat
            /\ Len(records[pid][h]) <= Len(records'[pid][h])
            /\ records'[pid][h][k] = records[pid][h][k]
        BY <3>2, <4>2, RecordsGrow
      <4>4. k \in 1..Len(records'[pid][h])
        BY <4>2, <4>3
      <4> QED BY <4>2, <4>3, <4>4 DEF When
    <3> QED BY <3>1, <3>2
  <2>3. Due(e.pid)' => Due(e.pid)
    BY <1>1 DEF Due
  <2> QED BY <1>1, <2>1, <2>2, <2>3, PlacedStill
<1> QED BY <1>1, <1>2, FiledIdle

(* Steps of a tick in which nobody leaves and nothing is filed. *)
LEMMA FiledTick ==
  ASSUME TypeInv, OrderInv, FiledInv, UNCHANGED <<world, clock, live, retired, states, exported>>,
         now' = now \/ now' = clock,
         \A pid \in Pids : Due(pid)' => now' = clock \/ (Due(pid) /\ now' = now)
  PROVE  FiledInv'
<1>1. ASSUME NEW e \in exported
      PROVE  Placed(e)'
  <2>1. Placed(e) /\ e.pid \in Pids /\ e.process.pid = e.pid
    BY PlacedTypes DEF FiledInv, Placed
  <2>2. When(e)' = When(e) /\ UNCHANGED <<born, records>>
    BY DEF When, world
  <2>3. Fits(e.process, When(e))'
    BY <2>1, <2>2 DEF Placed, Fits, HasLeft
  <2> QED BY <2>1, <2>2, <2>3 DEF Placed, HasLeft, Holds
<1> QED BY <1>1, FiledIdle

(* Who leaves takes the dates of its records along. *)
LEMMA FiledDeparts ==
  ASSUME TypeInv, HoldInv, FiledInv, NEW leaving, Departs(leaving),
         UNCHANGED <<clock, world, exported, announced>>,
         \A pid \in leaving \cap Pids : Due(pid),
         \A pid \in Pids : Due(pid)' => Due(pid)
  PROVE  FiledInv'
<1>1. ASSUME NEW e \in exported
      PROVE  Placed(e)'
  <2>1. Placed(e) /\ e.pid \in Pids /\ e.process \in Processes /\ e.process.pid = e.pid
    BY PlacedTypes DEF FiledInv, Placed
  <2>2. When(e)' = When(e) /\ UNCHANGED <<born, records>> /\ When(e) \in Nat
    BY <2>1 DEF When, world, Placed
  <2>3. Fits(e.process, When(e))'
    <3>1. PICK p \in Processes, t \in Nat : p = e.process /\ t = When(e)
      BY <2>1, <2>2
    <3>2. Fits(p, t) /\ (HasLeft(p) \/ Holds(p))
      BY <2>1, <3>1 DEF Placed
    <3>3. Fits(p, t)'
      BY <3>2, FitsDeparts
    <3> QED BY <2>2, <3>1, <3>3
  <2>4. Processes' = Processes /\ ExporterInv'
        /\ (Holds(e.process)' <=> Holds(e.process) /\ e.pid \notin leaving)
    BY <2>1, DepartsKeeps DEF HoldInv, Processes, Registry!Process
  <2>5. HasLeft(e.process)' \/ Holds(e.process)'
    <3>1. e.process \in announced
      BY <2>1 DEF Placed, HoldInv, ExporterInv
    <3> QED BY <2>1, <2>4, <3>1 DEF ExporterInv
  <2>6. Holds(e.process)' => e.holder = states'[e.pid].holder
    <3> SUFFICES ASSUME Holds(e.process), e.pid \notin leaving PROVE e.holder = states'[e.pid].holder
      BY <2>4
    <3>1. e.pid \in DOMAIN states
      BY <2>1 DEF Holds, HoldInv
    <3>2. states'[e.pid] = states[e.pid]
      BY <3>1 DEF Departs
    <3> QED BY <2>1, <3>2 DEF Placed
  <2> QED BY <2>1, <2>2, <2>3, <2>5, <2>6 DEF Placed
<1> QED BY <1>1, FiledIdle

(***************************************************************************)
(* What a read files: records of the pid's holder now, dated after every   *)
(* departure of the pid, so none that a process which left has already.    *)
(***************************************************************************)
LEMMA FiledRead ==
  TypeInv /\ HoldInv /\ OrderInv /\ HandedInv /\ FiledInv /\ ReadReturns => FiledInv'
<1> SUFFICES ASSUME TypeInv, HoldInv, OrderInv, HandedInv, FiledInv, ReadReturns PROVE FiledInv'
  OBVIOUS
<1> DEFINE New == FiledAs(live'[reading], Taken)
<1>1. /\ Filled /\ Folded /\ reading \in Pids /\ reading' = reading /\ pc = "reading"
      /\ pc' = "polling" /\ live'[reading] \in Processes /\ reading \in alive
      /\ born[reading] \in 1..MaxHolders /\ Taken \subseteq 1..Len(Ring) /\ Len(Ring) \in Nat
  BY ReadEffect, ReadTypes
<1>2. /\ todo' = todo /\ reading \notin todo /\ UNCHANGED <<clock, born, alive, records>>
      /\ retired' = retired /\ now' = now /\ exported' = exported \cup New
  BY <1>1 DEF ReadReturns, TypeInv, Filled, Folded, world
<1>3. states'[reading].holder = born[reading]
  BY <1>1 DEF Folded, State, HandedInv
<1>4. ~Due(reading)' /\ \A pid \in Pids : Due(pid)' => Due(pid)
  BY <1>1, <1>2 DEF Due
<1>5. ASSUME NEW e \in exported
      PROVE  Placed(e)'
  <2>1. Placed(e) /\ e.pid \in Pids /\ e.process.pid = e.pid /\ e.process \in Processes
    BY PlacedTypes DEF FiledInv, Placed
  <2>2. When(e)' = When(e) /\ Fits(e.process, When(e))'
    BY <1>2, <1>4, <2>1, FitsStill DEF When, Placed
  <2>3. HasLeft(e.process)' \/ Holds(e.process)'
    BY <1>1, <1>2, <2>1 DEF Placed, HasLeft, Holds, Filled
  <2>4. Holds(e.process)' => Holds(e.process) /\ e.holder = states'[e.pid].holder
    <3> SUFFICES ASSUME Holds(e.process)'
                 PROVE  Holds(e.process) /\ e.holder = states'[e.pid].holder
      OBVIOUS
    <3>1. Holds(e.process)
      BY <1>2, <2>1, Names DEF Placed, HasLeft, Holds
    <3>2. e.holder = states[e.pid].holder /\ e.pid \in DOMAIN states
      BY <2>1, <3>1 DEF Placed, HoldInv, Holds
    <3>3. CASE e.pid = reading
      <4>1. states[reading].holder = born[reading]
        BY <1>1, <3>2, <3>3 DEF HandedInv
      <4> QED BY <1>3, <3>1, <3>2, <3>3, <4>1
    <3>4. CASE e.pid # reading
      BY <1>1, <3>1, <3>2, <3>4 DEF Folded
    <3> QED BY <3>3, <3>4
  <2> QED BY <1>2, <2>1, <2>2, <2>3, <2>4 DEF Placed
<1>6. ASSUME NEW e \in New
      PROVE  /\ Placed(e)' /\ e.pid = reading /\ e.holder = born[reading]
             /\ e.process = live'[reading] /\ When(e) \in Nat
             /\ \A ts \in Dates(reading) : ts < When(e)
  <2>1. PICK k \in Taken : e = [pid |-> reading, holder |-> born[reading], run |-> k,
                                process |-> live'[reading]]
    BY DEF FiledAs
  <2>2. /\ e.pid = reading /\ e.holder = born[reading] /\ e.run = k /\ e.process = live'[reading]
        /\ When(e) = Ring[k]
    BY <2>1 DEF When, Ring
  <2>3. Ring[k] \in Instants
    BY DEF Instants
  <2>4. When(e) \in Nat /\ When(e) <= clock /\ \A ts \in Dates(reading) : ts <= When(e)
    BY <2>2, <2>3, InstantsFit
  <2>5. \A ts \in Dates(reading) : ts < When(e)
    BY <2>2 DEF Taken, After, Dates
  <2>6. Holds(e.process)' /\ e.process.pid = reading
    BY <1>1, <2>2 DEF Filled, Holds
  <2>7. Fits(e.process, When(e))'
    <3>1. PICK p \in Processes, t \in Nat : p = e.process /\ t = When(e)
      BY <1>1, <2>2, <2>4
    <3>2. Holds(p)' /\ t <= clock' /\ (\A ts \in Dates(p.pid) : ts <= t) /\ ~Due(p.pid)'
      <4>1. p.pid = reading /\ Holds(p)' /\ t <= clock' /\ \A ts \in Dates(reading) : ts <= t
        BY <1>2, <2>4, <2>6, <3>1 DEF Holds
      <4>2. ~Due(p.pid)'
        BY <1>1, <1>2, <4>1 DEF Due
      <4> QED BY <4>1, <4>2
    <3>3. Fits(p, t)'
      BY <1>2, <3>2, FitsHolder
    <3>4. When(e)' = When(e)
      BY <1>2 DEF When
    <3> QED BY <3>1, <3>3, <3>4
  <2>8. When(e)' = When(e) /\ e.holder \in 1..born[reading] /\ e.run \in 1..Len(Ring)
    BY <1>1, <1>2, <2>2, Constants DEF When
  <2> QED BY <1>2, <1>3, <2>2, <2>4, <2>5, <2>6, <2>7, <2>8 DEF Placed, Ring
<1>7. ASSUME NEW a \in exported, NEW b \in New
      PROVE  /\ a.pid = b.pid /\ a.holder = b.holder /\ a.run = b.run => a.process = b.process
             /\ a.process = b.process => a.holder = b.holder
  <2>1. /\ Placed(a) /\ Placed(a)' /\ a.process \in Processes /\ a.process.pid = a.pid
        /\ b.pid = reading /\ b.holder = born[reading] /\ b.process = live'[reading]
        /\ \A ts \in Dates(reading) : ts < When(b)
        /\ When(b) \in Nat
    BY <1>5, <1>6, PlacedTypes DEF FiledInv, Placed
  <2>2. ASSUME a.pid = b.pid, a.holder = b.holder, a.run = b.run
        PROVE  a.process = b.process
    <3>1. When(a) = When(b)
      BY <2>2 DEF When
    <3>2. ~HasLeft(a.process)
      <4> SUFFICES ASSUME HasLeft(a.process) PROVE FALSE
        OBVIOUS
      <4>1. When(a) <= retired[reading][a.process.epoch].ts
        BY <2>1, <2>2 DEF Placed, Fits
      <4>2. a.process.epoch \in 1..Len(retired[reading])
        BY <1>1, <2>1, <2>2, Names DEF HasLeft
      <4>3. retired[reading][a.process.epoch].ts \in Dates(reading)
        BY <4>2 DEF Dates
      <4>4. retired[reading][a.process.epoch].ts \in Nat
        BY <1>1, <4>2, Numbers
      <4> QED BY <2>1, <3>1, <4>1, <4>3, <4>4
    <3>3. Holds(a.process)
      BY <2>1, <3>2 DEF Placed
    <3>4. a.process = live[reading] /\ reading \in DOMAIN live
      BY <2>1, <2>2, <3>3, Names DEF Holds
    <3> QED BY <1>1, <2>1, <3>4 DEF Filled
  <2>3. ASSUME a.process = b.process
        PROVE  a.holder = b.holder
    <3>1. Holds(a.process)'
      BY <1>1, <2>1, <2>3 DEF Holds, Filled
    <3> QED BY <1>3, <2>1, <2>3, <3>1, <1>1 DEF Placed, Filled
  <2> QED BY <2>2, <2>3
<1>8. ASSUME NEW a \in New, NEW b \in New
      PROVE  a.process = b.process /\ a.holder = b.holder
  BY <1>6
<1>9. \A e \in exported' : Placed(e)'
  BY <1>2, <1>5, <1>6
<1>10. ExportedOnce' /\ (\A a, b \in exported : a.process = b.process => a.holder = b.holder)'
  <2>1. ASSUME NEW a \in exported, NEW b \in exported
        PROVE  /\ a.pid = b.pid /\ a.holder = b.holder /\ a.run = b.run => a.process = b.process
               /\ a.process = b.process => a.holder = b.holder
    BY DEF FiledInv, ExportedOnce
  <2> HIDE DEF New
  <2> QED BY <1>2, <1>7, <1>8, <2>1 DEF ExportedOnce
<1> QED BY <1>9, <1>10 DEF FiledInv

LEMMA FiledStep ==
  TypeInv /\ HoldInv /\ OrderInv /\ HandedInv /\ FiledInv /\ [Next]_vars => FiledInv'
<1> SUFFICES ASSUME TypeInv, HoldInv, OrderInv, HandedInv, FiledInv, [Next]_vars PROVE FiledInv'
  OBVIOUS
<1>1. CASE World \/ UNCHANGED vars
  BY <1>1, FiledWorld
<1>2. CASE List
  <2>1. /\ Departs(Pids \ Children) /\ pc = "listing" /\ pc' = "polling"
        /\ UNCHANGED <<clock, world, exported, announced>>
    BY <1>2, ListEffect
  <2> QED BY <2>1, FiledDeparts DEF Due
<1>3. CASE ReadFails
  <2>1. /\ UNCHANGED <<clock, world, exported, announced, todo>> /\ reading' = reading
        /\ pc = "reading" /\ pc' = "polling"
        /\ UNCHANGED <<states, live, retired, now>> \/ Departs({reading})
    BY <1>3, FailEffect
  <2>2. (\A pid \in Pids : Due(pid)' => Due(pid)) /\ Due(reading)
    BY <2>1 DEF Due
  <2>3. CASE Departs({reading})
    BY <2>1, <2>2, <2>3, FiledDeparts
  <2>4. CASE UNCHANGED <<states, live, retired, now>>
    BY <2>1, <2>2, <2>4, FiledTick
  <2> QED BY <2>1, <2>3, <2>4
<1>4. CASE ReadReturns
  BY <1>4, FiledRead
<1>5. CASE BeginTick
  BY <1>5, FiledTick DEF BeginTick, Registry!Advance, held, exporter
<1>6. CASE ListFails
  BY <1>6, FiledTick DEF ListFails, held, registry, exporter, Due
<1>7. ASSUME NEW pid \in Pids, Skip(pid)
      PROVE  FiledInv'
  BY <1>7, FiledTick DEF Skip, held, registry, exporter, Due
<1>8. ASSUME NEW pid \in Pids, BeginRead(pid)
      PROVE  FiledInv'
  <2>1. /\ UNCHANGED <<world, clock, live, retired, states, exported, now>>
        /\ pc = "polling" /\ pc' = "reading" /\ reading' = pid /\ pid \in todo /\ todo' \subseteq todo
    BY <1>8 DEF BeginRead, NextPid, registry, exporter
  <2> QED BY <2>1, FiledTick DEF Due
<1>9. CASE EndTick \/ Stopped \/ Close
  <2>1. /\ UNCHANGED <<world, clock, live, retired, states, exported, now>>
        /\ pc' \in {"idle", "done", "closed"} /\ (todo' = {} \/ todo' = todo)
    BY <1>9 DEF EndTick, Stopped, Close, held, registry, exporter
  <2> QED BY <2>1, FiledTick DEF Due
<1> QED BY <1>1, <1>2, <1>3, <1>4, <1>5, <1>6, <1>7, <1>8, <1>9 DEF Next, Monitor

LEMMA FiledInvariance == Spec => []FiledInv
  BY TypeInvariance, HoldInvariance, OrderInvariance, HandedInvariance, FiledInit, FiledStep, PTL
     DEF Spec

(***************************************************************************)
(* A GC run is exported under one process, however often its pid is let go *)
(* and read again from the start of its ring.                              *)
(***************************************************************************)
THEOREM OnceOnly == Spec => []ExportedOnce
<1>1. FiledInv => ExportedOnce
  BY DEF FiledInv
<1> QED BY <1>1, FiledInvariance, PTL

(***************************************************************************)
(* What is held for a pid was gathered from the process that has it now,   *)
(* and each named process stands for one holder of its pid.                *)
(***************************************************************************)
THEOREM InheritsNothing == Spec => []NothingInherited
<1>1. HandedInv /\ FiledInv => NothingInherited
  BY DEF HandedInv, FiledInv, NothingInherited
<1> QED BY <1>1, HandedInvariance, FiledInvariance, PTL

-----------------------------------------------------------------------------
(* Where only the dead cannot be read, nothing is taken for a re-read.      *)

Newest(pid) == records[pid][born[pid]]

(* Whoever left the pid, left it before its holder now came. *)
Later(pid) ==
  \A ts \in Dates(pid) : ts < clock /\ \A k \in 1..Len(Newest(pid)) : ts < Newest(pid)[k]

(* A pid that outlives the target, which gcmon will not read again. *)
Orphan(pid) ==
  Root \notin alive /\ pid # Root /\ pid \notin todo /\ ~(pc = "reading" /\ reading = pid)

DropInv ==
  /\ dropped = {}
  /\ alive \cap DOMAIN live \subseteq ready
  /\ \A pid \in alive : Later(pid) \/ Orphan(pid)

LEMMA DropInit == Init => DropInv
<1> SUFFICES ASSUME Init PROVE DropInv
  OBVIOUS
<1>1. \A pid \in alive : Dates(pid) = {}
  BY Constants DEF Init, Registry!Init, Dates
<1> QED BY <1>1 DEF Init, DropInv, Later, Registry!Init

LEMMA LaterWorld ==
  ASSUME TypeInv, OrderInv, World, NEW pid \in alive, pid \in alive', Later(pid), ~Spawn(pid)
  PROVE  Later(pid)'
<1>1. /\ pid \in Pids /\ Dates(pid)' = Dates(pid) /\ Dates(pid) \subseteq Nat
      /\ clock \in Nat /\ clock' \in {clock, clock + 1}
  BY WorldEffect, Numbers DEF registry, Dates, TypeInv, TypeOK
<1>2. born'[pid] = born[pid] /\ born[pid] \in Nat /\ born[pid] >= 1
  <2>1. ASSUME NEW q \in Pids, Spawn(q)
        PROVE  born'[pid] = born[pid]
    <3>1. pid # q
      BY <2>1 DEF Spawn
    <3> QED BY <1>1, <2>1, <3>1 DEF Spawn, TypeInv, TypeOK
  <2>2. ASSUME ~\E q \in Pids : Spawn(q)
        PROVE  born'[pid] = born[pid]
    BY <2>2 DEF World, Elapse, Signal, Start, Collect, Exit, Suppress, Resume, world
  <2>3. born'[pid] = born[pid]
    BY <2>1, <2>2
  <2>4. born[pid] \in 0..MaxHolders /\ born[pid] >= 1
    BY <1>1 DEF TypeInv, TypeOK
  <2> QED BY <2>3, <2>4, Constants
<1>3. ASSUME NEW ts \in Dates(pid), NEW k \in 1..Len(Newest(pid)')
      PROVE  ts < Newest(pid)'[k]
  <2>1. PICK h \in 1..born[pid] : h = born[pid]
    BY <1>2
  <2>2. \/ k \in 1..Len(records[pid][h]) /\ records'[pid][h][k] = records[pid][h][k]
        \/ records'[pid][h][k] = clock
    <3>1. \A g \in 1..born'[pid] : \A j \in 1..Len(records'[pid][g]) :
              \/ g \in 1..born[pid] /\ j \in 1..Len(records[pid][g])
              \/ records'[pid][g][j] = clock
      BY <1>1, RecordsGrow
    <3>2. \A g \in 1..born[pid] : \A j \in 1..Len(records[pid][g]) :
              records'[pid][g][j] = records[pid][g][j]
      BY <1>1, RecordsGrow
    <3>3. k \in 1..Len(records'[pid][h])
      BY <1>2, <1>3, <2>1 DEF Newest
    <3> QED BY <1>2, <2>1, <3>1, <3>2, <3>3
  <2> QED BY <1>2, <2>1, <2>2 DEF Later, Newest
<1>4. \A ts \in Dates(pid) : ts < clock'
  BY <1>1 DEF Later
<1> QED BY <1>1, <1>3, <1>4 DEF Later

(* A process that is given a pid comes after all that held it. *)
LEMMA LaterSpawn ==
  ASSUME TypeInv, OrderInv, NEW pid \in Pids, Spawn(pid)
  PROVE  Later(pid)'
<1>1. /\ Dates(pid)' = Dates(pid) /\ Dates(pid) \subseteq Nat /\ clock \in Nat /\ now \in Nat
      /\ clock' = clock + 1
  BY Numbers DEF Spawn, registry, Dates
<1>2. \A ts \in Dates(pid) : ts < clock'
  BY <1>1 DEF OrderInv, PollInv, ClockInv
<1>3. Newest(pid)' = <<>>
  <2>1. /\ records[pid] \in Seq(Seq(Instant)) /\ Len(records[pid]) = born[pid]
        /\ records'[pid] = Append(records[pid], <<>>) /\ born'[pid] = born[pid] + 1
    BY DEF Spawn, TypeInv, TypeOK
  <2>2. <<>> \in Seq(Instant)
    OBVIOUS
  <2> QED BY <2>1, <2>2 DEF Newest
<1>4. 1..Len(Newest(pid)') = {}
  <2>1. Len(<<>>) = 0
    OBVIOUS
  <2> QED BY <1>3, <2>1
<1> QED BY <1>1, <1>2, <1>4 DEF Later

LEMMA DropWorld == TypeInv /\ HoldInv /\ OrderInv /\ HandedInv /\ DropInv /\ World => DropInv'
<1> SUFFICES ASSUME TypeInv, HoldInv, OrderInv, HandedInv, DropInv, World PROVE DropInv'
  OBVIOUS
<1>1. UNCHANGED <<dropped, live, todo, pc, reading>>
  BY WorldEffect DEF tick, registry, exporter
<1>2. (alive \cap DOMAIN live \subseteq ready)'
  <2>1. ASSUME NEW q \in Pids, Spawn(q)
        PROVE  alive' \cap DOMAIN live \subseteq ready'
    BY <2>1, SpawnEffect DEF Spawn, DropInv
  <2>2. ASSUME ~\E q \in Pids : Spawn(q)
        PROVE  alive' \cap DOMAIN live \subseteq ready'
    BY <2>2 DEF DropInv, World, Elapse, Signal, Start, Collect, Exit, Suppress, Resume, world
  <2>3. alive' \cap DOMAIN live \subseteq ready'
    BY <1>1, <2>1, <2>2
  <2> QED BY <1>1, <2>3
<1>3. Root \notin alive => Root \notin alive'
  BY DEF World, Elapse, Signal, Spawn, Start, Collect, Exit, Suppress, Resume, world
<1>4. ASSUME NEW pid \in alive'
      PROVE  Later(pid)' \/ Orphan(pid)'
  <2>1. pid \in Pids
    BY TypeWorld DEF TypeInv, TypeOK
  <2>2. CASE Spawn(pid)
    BY <2>1, <2>2, LaterSpawn
  <2>3. CASE ~Spawn(pid)
    <3>1. pid \in alive
      BY <1>4, <2>3 DEF World, Elapse, Signal, Spawn, Start, Collect, Exit, Suppress, Resume, world
    <3>2. CASE Later(pid)
      BY <1>4, <2>3, <3>1, <3>2, LaterWorld
    <3>3. CASE Orphan(pid)
      BY <1>1, <1>3, <3>3 DEF Orphan
    <3> QED BY <3>1, <3>2, <3>3 DEF DropInv
  <2> QED BY <2>2, <2>3
<1> QED BY <1>1, <1>2, <1>4 DEF DropInv

(* Nothing in a tick that leaves a pid's departures alone makes it late. *)
LEMMA LaterStill ==
  ASSUME NEW pid, Later(pid), UNCHANGED <<clock, world>>, Dates(pid)' = Dates(pid)
  PROVE  Later(pid)'
BY DEF Later, Newest, world

LEMMA DropTick ==
  ASSUME TypeInv, DropInv, UNCHANGED <<world, clock, dropped>>,
         \A pid \in alive : Dates(pid)' = Dates(pid),
         DOMAIN live' \subseteq DOMAIN live \cup ready,
         \A pid \in Pids : Orphan(pid) => Orphan(pid)'
  PROVE  DropInv'
<1>1. ASSUME NEW pid \in alive
      PROVE  Later(pid)' \/ Orphan(pid)'
  <2>1. pid \in Pids
    BY DEF TypeInv, TypeOK
  <2> QED BY <2>1, LaterStill DEF DropInv
<1> QED BY <1>1 DEF DropInv, world

LEMMA DropList == TypeInv /\ HoldInv /\ DropInv /\ List => DropInv'
<1> SUFFICES ASSUME TypeInv, HoldInv, DropInv, List PROVE DropInv'
  OBVIOUS
<1>1. /\ Departs(Pids \ Children) /\ pc = "listing" /\ pc' = "polling" /\ todo' = Children
      /\ UNCHANGED <<clock, world, dropped>>
  BY ListEffect
<1>2. DOMAIN live' \subseteq DOMAIN live
  BY <1>1 DEF Departs
<1>3. CASE Root \in alive
  <2>1. \A pid \in alive : pid \in Pids /\ Dates(pid)' = Dates(pid)
    BY <1>1, <1>3, DepartsBook DEF Children, TypeInv, TypeOK
  <2>2. \A pid \in Pids : ~Orphan(pid)
    BY <1>3 DEF Orphan
  <2> QED BY <1>1, <1>2, <2>1, <2>2, DropTick
<1>4. CASE Root \notin alive
  <2>1. \A pid \in alive : Orphan(pid)'
    BY <1>1, <1>4 DEF Orphan, Children, world
  <2> QED BY <1>1, <1>2, <2>1 DEF DropInv, world
<1> QED BY <1>3, <1>4

LEMMA DropFail ==
  ASSUME ~Transients, TypeInv, HoldInv, DropInv, ReadFails
  PROVE  DropInv'
<1>1. /\ pc = "reading" /\ pc' = "polling" /\ todo' = todo /\ reading' = reading
      /\ reading \notin ready /\ UNCHANGED <<clock, world, dropped>>
      /\ UNCHANGED <<live, retired>> \/ Departs({reading})
  BY FailEffect
<1>2. DOMAIN live' \subseteq DOMAIN live
  BY <1>1 DEF Departs
<1>3. \A pid \in Pids : Orphan(pid) => Orphan(pid)'
  BY <1>1 DEF Orphan, world
<1>4. ASSUME NEW pid \in alive
      PROVE  Dates(pid)' = Dates(pid)
  <2>1. pid \in Pids /\ (pid = reading => pid \notin DOMAIN live)
    BY <1>1 DEF DropInv, TypeInv, TypeOK
  <2>2. CASE Departs({reading})
    BY <2>1, <2>2, DepartsBook
  <2> QED BY <1>1, <2>2 DEF Dates
<1> QED BY <1>1, <1>2, <1>3, <1>4, DropTick

LEMMA DropRead == TypeInv /\ HoldInv /\ DropInv /\ ReadReturns => DropInv'
<1> SUFFICES ASSUME TypeInv, HoldInv, DropInv, ReadReturns PROVE DropInv'
  OBVIOUS
<1>1. /\ Filled /\ Folded /\ reading \in Pids /\ reading' = reading /\ pc = "reading"
      /\ pc' = "polling" /\ reading \in alive /\ reading \in ready
      /\ Fresh \subseteq 1..Len(Ring) /\ Taken \subseteq Fresh
  BY ReadEffect, ReadTypes
<1>2. /\ UNCHANGED <<clock, world, todo>> /\ retired' = retired
  BY <1>1 DEF ReadReturns, Filled
<1>3. Later(reading)
  BY <1>1 DEF DropInv, Orphan
<1>4. Fresh = Taken
  BY <1>1, <1>3 DEF Taken, After, Later, Dates, Newest, Ring
<1>5. dropped' = dropped
  BY <1>1, <1>4 DEF Folded, FiledAs
<1>6. \A pid \in Pids : Orphan(pid) => Orphan(pid)'
  BY <1>1, <1>2 DEF Orphan, world
<1> QED BY <1>1, <1>2, <1>5, <1>6, DropTick DEF Dates, Filled

LEMMA DropStep ==
  ASSUME ~Transients, TypeInv, HoldInv, OrderInv, HandedInv, DropInv, [Next]_vars
  PROVE  DropInv'
<1>1. CASE UNCHANGED vars
  <2>1. UNCHANGED <<world, clock, dropped, retired, live, alive, todo, pc, reading>>
    BY <1>1 DEF vars, world, tick, registry, exporter
  <2> QED BY <2>1, DropTick DEF Orphan, Dates
<1>2. ASSUME \/ BeginTick \/ ListFails \/ (\E pid \in Pids : Skip(pid) \/ BeginRead(pid))
             \/ EndTick \/ Stopped \/ Close
      PROVE  DropInv'
  <2>1. UNCHANGED <<world, clock, dropped, retired, live, alive>>
    BY <1>2 DEF BeginTick, Registry!Advance, ListFails, Skip, BeginRead, EndTick, Stopped, Close,
       world, held, registry, exporter
  <2>2. \A pid \in Pids : Orphan(pid) => Orphan(pid)'
    BY <1>2, <2>1 DEF Orphan, BeginTick, ListFails, StartPolling, Skip, BeginRead, NextPid,
       EndTick, Stopped, Close
  <2> QED BY <2>1, <2>2, DropTick DEF Dates
<1> QED BY <1>1, <1>2, DropWorld, DropList, DropFail, DropRead DEF Next, Monitor

(***************************************************************************)
(* Where reads and listings fail only for the dead, no record is dropped as*)
(* a predecessor's: the rule against re-reads costs a reused pid nothing.  *)
(***************************************************************************)
THEOREM ReuseIsFree == Spec => []ReuseDropsNothing
<1>1. CASE Transients
  <2>1. ReuseDropsNothing
    BY <1>1 DEF ReuseDropsNothing
  <2> QED BY <2>1, PTL
<1>2. CASE ~Transients
  <2>1. TypeInv /\ HoldInv /\ OrderInv /\ HandedInv /\ DropInv /\ [Next]_vars => DropInv'
    BY <1>2, DropStep
  <2>2. DropInv => ReuseDropsNothing
    BY DEF DropInv, ReuseDropsNothing
  <2> QED BY <2>1, <2>2, DropInit, TypeInvariance, HoldInvariance, OrderInvariance,
            HandedInvariance, PTL DEF Spec
<1> QED BY <1>1, <1>2
=============================================================================
