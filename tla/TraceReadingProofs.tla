-------------------------- MODULE TraceReadingProofs -------------------------
(***************************************************************************)
(* How a trace reads: whatever the collections, losses and marks of a run, *)
(* and however its batches fall, a trace processor gets back every slice   *)
(* as it was.  The first part follows its stack through one row.  The last *)
(* is about captures that are merged: their lines, or their events.        *)
(***************************************************************************)
EXTENDS TraceEncoderProofs

-----------------------------------------------------------------------------
(* Sorting by an order of which of any two members one stands behind the other. *)

Sorts(order, S) ==
  /\ IsSeq(order) /\ ToSet(order) = S
  /\ \A i, j \in 1..Len(order) : order[i] = order[j] => i = j

(* Each where as many stand behind it as come before it. *)
InPlace(order, S, behind) ==
  order = [n \in 1..Cardinality(S) |-> CHOOSE x \in S : Cardinality(behind[x]) = n - 1]

LEMMA SortedIs ==
  ASSUME NEW S, IsFiniteSet(S), NEW behind \in [S -> SUBSET S],
         \A x \in S : x \notin behind[x],
         \A x, y \in S : x # y => \/ behind[x] \cup {x} \subseteq behind[y]
                                 \/ behind[y] \cup {y} \subseteq behind[x],
         NEW order, InPlace(order, S, behind)
  PROVE  /\ Sorts(order, S) /\ Len(order) = Cardinality(S)
         /\ \A i, j \in 1..Len(order) : i < j => order[i] \in behind[order[j]]
<1> DEFINE N == Cardinality(S)
<1>0. order = [n \in 1..N |-> CHOOSE x \in S : Cardinality(behind[x]) = n - 1]
  BY DEF InPlace
<1>1. /\ N \in Nat
      /\ \A x \in S : Cardinality(behind[x]) \in 0..(N - 1)
      /\ \A x, y \in S : Cardinality(behind[x]) = Cardinality(behind[y]) => x = y
      /\ \A n \in 0..(N - 1) : \E x \in S : Cardinality(behind[x]) = n
      /\ \A x, y \in S : Cardinality(behind[x]) < Cardinality(behind[y]) <=> x \in behind[y]
  BY Ranking
<1>2. \A n \in 1..N : order[n] \in S /\ Cardinality(behind[order[n]]) = n - 1
  <2> SUFFICES ASSUME NEW n \in 1..N PROVE order[n] \in S /\ Cardinality(behind[order[n]]) = n - 1
    OBVIOUS
  <2>1. n - 1 \in 0..(N - 1)
    BY <1>1
  <2>2. PICK x \in S : Cardinality(behind[x]) = n - 1
    BY <1>1, <2>1
  <2>3. order[n] = CHOOSE z \in S : Cardinality(behind[z]) = n - 1
    BY <1>0
  <2> QED BY <2>2, <2>3
<1>3. IsSeq(order) /\ Len(order) = N /\ DOMAIN order = 1..N
  <2>1. DOMAIN order = 1..N /\ order = [n \in 1..N |-> order[n]]
    BY <1>0
  <2> HIDE DEF N
  <2> QED BY <1>1, <2>1, MadeSeq
<1> HIDE DEF N
<1>4. ASSUME NEW i \in 1..N, NEW j \in 1..N, i < j PROVE order[i] \in behind[order[j]]
  <2>1. Cardinality(behind[order[i]]) = i - 1 /\ Cardinality(behind[order[j]]) = j - 1
        /\ order[i] \in S /\ order[j] \in S
    BY <1>2
  <2>2. i - 1 < j - 1
    BY <1>1, <1>4
  <2> QED BY <1>1, <2>1, <2>2
<1>5. \A i, j \in 1..N : order[i] = order[j] => i = j
  <2> SUFFICES ASSUME NEW i \in 1..N, NEW j \in 1..N, order[i] = order[j] PROVE i = j
    OBVIOUS
  <2>1. Cardinality(behind[order[i]]) = i - 1 /\ Cardinality(behind[order[j]]) = j - 1
    BY <1>2
  <2> QED BY <1>1, <2>1
<1>6. ASSUME NEW p \in S PROVE \E n \in 1..N : order[n] = p
  <2> DEFINE c == Cardinality(behind[p])
  <2>1. c \in 0..(N - 1)
    BY <1>1
  <2> HIDE DEF c
  <2>2. c + 1 \in 1..N /\ (c + 1) - 1 = c
    BY <1>1, <2>1
  <2>3. order[c + 1] \in S /\ Cardinality(behind[order[c + 1]]) = c
    BY <1>2, <2>2
  <2>4. order[c + 1] = p
    BY <1>1, <2>3 DEF c
  <2> QED BY <2>2, <2>4
<1>7. ToSet(order) = S
  <2>1. ToSet(order) = {order[n] : n \in 1..N}
    BY <1>3 DEF ToSet
  <2>2. \A n \in 1..N : order[n] \in S
    BY <1>2
  <2>3. \A p \in S : \E n \in 1..N : order[n] = p
    BY <1>6
  <2> HIDE DEF N
  <2> QED BY ONLY <2>1, <2>2, <2>3
<1> QED BY <1>3, <1>4, <1>5, <1>7 DEF Sorts, N

(* By an instant, and by place where the instants are equal. *)
TimedBefore(events, i, j) == events[i].ts < events[j].ts \/ (events[i].ts = events[j].ts /\ i < j)

Timed(order, events, S) ==
  order = [m \in 1..Cardinality(S) |->
             CHOOSE i \in S : Cardinality({j \in S : TimedBefore(events, j, i)}) = m - 1]

LEMMA TimeSorts ==
  ASSUME NEW n \in Nat, NEW S \in SUBSET (1..n), NEW events, \A i \in S : events[i].ts \in Int,
         NEW order, Timed(order, events, S)
  PROVE  /\ Sorts(order, S) /\ Len(order) = Cardinality(S)
         /\ \A i, j \in 1..Len(order) : i < j => TimedBefore(events, order[i], order[j])
<1> DEFINE Earlier(i, j) == TimedBefore(events, i, j)
           behind == [i \in S |-> {j \in S : Earlier(j, i)}]
           N == Cardinality(S)
<1>1. IsFiniteSet(S) /\ S \subseteq Int
  <2>1. IsFiniteSet(1..n) /\ S \subseteq Int
    BY FS_Interval
  <2> QED BY <2>1, FS_Subset
<1>2. behind \in [S -> SUBSET S] /\ \A i \in S : i \notin behind[i]
  BY <1>1 DEF TimedBefore
<1>3. \A i \in S : behind[i] = {j \in S : Earlier(j, i)}
  OBVIOUS
<1> HIDE DEF behind
<1>4. \A x, y \in S : x # y => \/ behind[x] \cup {x} \subseteq behind[y]
                              \/ behind[y] \cup {y} \subseteq behind[x]
  <2> SUFFICES ASSUME NEW x \in S, NEW y \in S, x # y
               PROVE  \/ behind[x] \cup {x} \subseteq behind[y]
                      \/ behind[y] \cup {y} \subseteq behind[x]
    BY Zenon
  <2>1. ASSUME NEW u \in S, NEW v \in S, Earlier(u, v)
        PROVE  behind[u] \cup {u} \subseteq behind[v]
    <3> SUFFICES ASSUME NEW j \in behind[u] \cup {u} PROVE j \in behind[v]
      OBVIOUS
    <3>1. j \in S /\ (Earlier(j, u) \/ j = u)
      BY <1>3
    <3>2. Earlier(j, v)
      BY <1>1, <2>1, <3>1 DEF TimedBefore
    <3> QED BY <1>3, <3>1, <3>2
  <2>2. Earlier(x, y) \/ Earlier(y, x)
    BY <1>1 DEF TimedBefore
  <2> HIDE DEF Earlier
  <2> QED BY <2>1, <2>2
<1> HIDE DEF Earlier
<1>5. order = [m \in 1..N |-> CHOOSE i \in S : Cardinality(behind[i]) = m - 1]
  <2> DEFINE ByTime(m) == CHOOSE i \in S : Cardinality({j \in S : Earlier(j, i)}) = m - 1
             ByRank(m) == CHOOSE i \in S : Cardinality(behind[i]) = m - 1
  <2>1. order = [m \in 1..N |-> ByTime(m)]
    BY DEF Earlier, Timed
  <2>2. \A m \in 1..N : ByTime(m) = ByRank(m)
    BY <1>3
  <2> HIDE DEF N, ByTime, ByRank
  <2>3. order = [m \in 1..N |-> ByRank(m)]
    BY <2>1, <2>2
  <2> QED BY <2>3 DEF ByRank
<1> HIDE DEF N
<1>6. /\ Sorts(order, S) /\ Len(order) = Cardinality(S)
      /\ \A i, j \in 1..Len(order) : i < j => order[i] \in behind[order[j]]
  <2>1. InPlace(order, S, behind)
    BY <1>5 DEF N, InPlace
  <2>2. IsFiniteSet(S) /\ behind \in [S -> SUBSET S] /\ \A x \in S : x \notin behind[x]
    BY <1>1, <1>2
  <2>3. \A x, y \in S : x # y => \/ behind[x] \cup {x} \subseteq behind[y]
                                 \/ behind[y] \cup {y} \subseteq behind[x]
    BY <1>4
  <2>4. Sorts(order, S)
    BY ONLY <2>1, <2>2, <2>3, SortedIs
  <2>5. Len(order) = Cardinality(S)
    BY ONLY <2>1, <2>2, <2>3, SortedIs
  <2>6. \A i, j \in 1..Len(order) : i < j => order[i] \in behind[order[j]]
    BY ONLY <2>1, <2>2, <2>3, SortedIs
  <2> QED BY <2>4, <2>5, <2>6
<1>7. \A i \in 1..Len(order) : order[i] \in S
  BY <1>6, SeqFacts DEF Sorts
<1> QED BY <1>3, <1>6, <1>7 DEF Earlier

-----------------------------------------------------------------------------
(* What a trace processor makes of a row. *)

(* A slice: its BEGIN, and the END that comes right behind it. *)
Ended(begin, end) ==
  /\ begin.type = "begin" /\ end.type = "end" /\ end.row = begin.row
  /\ begin.ts \in Int /\ begin.stop \in Int /\ begin.ts <= begin.stop /\ end.ts = begin.stop

Paired(seq) ==
  /\ IsSeq(seq)
  /\ \A i \in 1..Len(seq) :
       /\ seq[i].type = "begin" => i + 1 \in 1..Len(seq) /\ Ended(seq[i], seq[i + 1])
       /\ seq[i].type = "end" => i - 1 \in 1..Len(seq) /\ Ended(seq[i - 1], seq[i])

(* Of two slices in file order: the second starts behind the first, or is inside it. *)
Fits(first, second) ==
  first.stop <= second.ts \/ (first.ts <= second.ts /\ second.stop <= first.stop)

Named(events) ==
  /\ \A i \in 1..Len(events) : events[i].type = "end" => events[i].name = {events[i - 1].name}
  /\ \A i, j \in 1..Len(events) :
       events[i].type = "begin" /\ events[j].type = "begin" /\ events[i].name = events[j].name => i = j
Unnamed(events) == \A i \in 1..Len(events) : events[i].type = "end" => events[i].name = {}

OneRow(events) ==
  /\ Paired(events) /\ \A i \in 1..Len(events) : events[i].type \in {"begin", "end"}
  /\ \A i, j \in 1..Len(events) :
       i < j /\ events[i].type = "begin" /\ events[j].type = "begin" => Fits(events[i], events[j])
  /\ Named(events) \/ Unnamed(events)

(* The slices among the events P that have begun, that have ended, that are closed. *)
BegunIn(events, P) == {b \in P : events[b].type = "begin"}
EndedAt(events, P, t) == {b \in BegunIn(events, P) : b + 1 \in P /\ events[b].stop = t}
ClosedAt(events, read, t) == {b \in DOMAIN read.stops : events[b].stop = t}

(***************************************************************************)
(* The processor closes what it likes of the slices that stop at the same  *)
(* instant; by the names it closes whatever has ended, without them as     *)
(* many as have ended.                                                     *)
(***************************************************************************)
ReadInv(events, P, read) ==
  /\ IsSeq(read.stack)
  /\ ToSet(read.stack) \cap DOMAIN read.stops = {}
  /\ ToSet(read.stack) \cup DOMAIN read.stops = BegunIn(events, P)
  /\ \A b \in DOMAIN read.stops : read.stops[b] = events[b].stop
  /\ \A d, e \in 1..Len(read.stack) : d < e =>
       /\ read.stack[d] # read.stack[e]
       /\ events[read.stack[e]].stop <= events[read.stack[d]].stop
  /\ Named(events) => \A b \in BegunIn(events, P) : b + 1 \in P => b \in DOMAIN read.stops
  /\ ~Named(events) =>
       \A t \in Int : Cardinality(EndedAt(events, P, t)) = Cardinality(ClosedAt(events, read, t))

LEMMA PlacesAreFinite == \A n \in Nat : IsFiniteSet(1..n)
<1> SUFFICES ASSUME NEW n \in Nat PROVE IsFiniteSet(1..n)
  OBVIOUS
<1> QED BY FS_Interval

LEMMA BeginsAre ==
  ASSUME NEW events, OneRow(events), NEW P \in SUBSET (1..Len(events)), NEW b \in BegunIn(events, P)
  PROVE  /\ b \in 1..Len(events) /\ b + 1 \in 1..Len(events) /\ Len(events) \in Nat
         /\ events[b].type = "begin" /\ events[b + 1].type = "end"
         /\ events[b].ts \in Int /\ events[b].stop \in Int
         /\ events[b].ts <= events[b].stop /\ events[b + 1].ts = events[b].stop
<1>1. b \in 1..Len(events) /\ events[b].type = "begin" /\ Paired(events) /\ Len(events) \in Nat
  BY SeqFacts DEF BegunIn, OneRow, Paired
<1>2. b + 1 \in 1..Len(events) /\ Ended(events[b], events[b + 1])
  BY <1>1 DEF Paired
<1> QED BY <1>1, <1>2 DEF Ended

(* Where all that have begun and stop at t have ended, none of them is open. *)
LEMMA NoneLeft ==
  ASSUME NEW events, OneRow(events), NEW P \in SUBSET (1..Len(events)), NEW read, ReadInv(events, P, read),
         NEW t \in Int, \A b \in BegunIn(events, P) : events[b].stop = t => b + 1 \in P
  PROVE  \A x \in ToSet(read.stack) : events[x].stop # t
<1> SUFFICES ASSUME NEW x \in ToSet(read.stack), events[x].stop = t PROVE FALSE
  OBVIOUS
<1>1. x \in BegunIn(events, P) /\ x \notin DOMAIN read.stops /\ x + 1 \in P
  BY DEF ReadInv
<1>2. CASE Named(events)
  BY <1>1, <1>2 DEF ReadInv
<1>3. CASE ~Named(events)
  <2> DEFINE all == EndedAt(events, P, t)
             closed == ClosedAt(events, read, t)
  <2>1. Cardinality(all) = Cardinality(closed)
    BY <1>3 DEF ReadInv
  <2>2. closed \subseteq all
    BY DEF ReadInv, ClosedAt, EndedAt
  <2>3. IsFiniteSet(all)
    <3>1. Len(events) \in Nat
      BY SeqFacts DEF OneRow, Paired
    <3>2. IsFiniteSet(1..Len(events))
      BY <3>1, PlacesAreFinite
    <3>3. all \subseteq 1..Len(events)
      BY DEF EndedAt, BegunIn
    <3> QED BY <3>2, <3>3, FS_Subset
  <2>4. x \in all /\ x \notin closed
    BY <1>1 DEF EndedAt, ClosedAt
  <2> HIDE DEF all, closed
  <2> QED BY <2>1, <2>2, <2>3, <2>4, FS_Subset
<1> QED BY <1>2, <1>3

(* All that is read before an event. *)
ReadBefore(events, i) == {j \in 1..Len(events) : TimedBefore(events, j, i)}

LEMMA EventsAreTimed ==
  ASSUME NEW events, OneRow(events)
  PROVE  Len(events) \in Nat /\ \A i \in 1..Len(events) : events[i].ts \in Int
<1>1. Len(events) \in Nat /\ Paired(events)
  BY SeqFacts DEF OneRow, Paired
<1>2. ASSUME NEW i \in 1..Len(events) PROVE events[i].ts \in Int
  <2>1. CASE events[i].type = "begin"
    BY <1>1, <2>1 DEF Paired, Ended
  <2>2. CASE events[i].type = "end"
    BY <1>1, <2>2 DEF Paired, Ended
  <2> QED BY <2>1, <2>2 DEF OneRow
<1> QED BY <1>1, <1>2

(* What is open when an event comes stops no earlier. *)
LEMMA OpenGoesOn ==
  ASSUME NEW events, OneRow(events), NEW i \in 1..Len(events), NEW read,
         ReadInv(events, ReadBefore(events, i), read)
  PROVE  \A x \in ToSet(read.stack) : events[x].stop >= events[i].ts
<1> DEFINE P == ReadBefore(events, i)
<1>0. P \in SUBSET (1..Len(events))
  BY DEF ReadBefore
<1> SUFFICES ASSUME NEW x \in ToSet(read.stack), ~(events[x].stop >= events[i].ts) PROVE FALSE
  OBVIOUS
<1> DEFINE t == events[x].stop
<1>1. x \in BegunIn(events, P)
  BY DEF ReadInv
<1>2. t \in Int /\ t < events[i].ts
  BY <1>0, <1>1, BeginsAre, EventsAreTimed
<1>3. ASSUME NEW b \in BegunIn(events, P), events[b].stop = t PROVE b + 1 \in P
  <2>1. b + 1 \in 1..Len(events) /\ events[b + 1].ts = t
    BY <1>0, <1>3, BeginsAre
  <2> QED BY <1>2, <2>1 DEF ReadBefore, TimedBefore
<1> HIDE DEF P
<1> QED BY <1>0, <1>2, <1>3, NoneLeft DEF P

(* Begins come in the order of the file. *)
LEMMA BegunAhead ==
  ASSUME NEW events, OneRow(events), NEW i \in 1..Len(events), events[i].type = "begin",
         NEW b \in BegunIn(events, ReadBefore(events, i))
  PROVE  b < i /\ b + 1 < i /\ Fits(events[b], events[i])
<1> DEFINE P == ReadBefore(events, i)
<1>0. P \in SUBSET (1..Len(events)) /\ TimedBefore(events, b, i)
  BY DEF ReadBefore, BegunIn
<1>1. /\ b \in 1..Len(events) /\ b + 1 \in 1..Len(events) /\ Len(events) \in Nat
      /\ events[b].type = "begin" /\ events[b + 1].type = "end"
      /\ events[b].ts \in Int /\ events[b].stop \in Int /\ events[b].ts <= events[b].stop
  BY <1>0, BeginsAre
<1>2. events[i].ts \in Int /\ events[i].stop \in Int /\ events[i].ts <= events[i].stop
  BY DEF OneRow, Paired, Ended
<1>3. b < i
  <2> SUFFICES ASSUME ~(b < i) PROVE FALSE
    OBVIOUS
  <2>1. i # b
    BY <1>0, <1>1, <1>2 DEF TimedBefore
  <2>2. i < b
    BY <1>1, <2>1
  <2>3. Fits(events[i], events[b])
    BY <1>1, <2>2 DEF OneRow
  <2>4. events[i].ts <= events[b].ts
    BY <1>1, <1>2, <2>3 DEF Fits
  <2> QED BY <1>0, <1>1, <1>2, <2>2, <2>4 DEF TimedBefore
<1>4. b + 1 # i
  BY <1>1
<1>5. Fits(events[b], events[i])
  BY <1>1, <1>3 DEF OneRow
<1> QED BY <1>1, <1>3, <1>4, <1>5

LEMMA ReadBegins ==
  ASSUME NEW events, OneRow(events), NEW i \in 1..Len(events), events[i].type = "begin", NEW read,
         ReadInv(events, ReadBefore(events, i), read)
  PROVE  ReadInv(events, ReadBefore(events, i) \cup {i}, Consumed(events, read, i))
<1> DEFINE P == ReadBefore(events, i)
           next == Consumed(events, read, i)
           n == Len(read.stack)
<1>0. P \in SUBSET (1..Len(events)) /\ i \notin P
  BY EventsAreTimed DEF ReadBefore, TimedBefore
<1>1. next.stack = Append(read.stack, i) /\ next.stops = read.stops
  BY DEF Consumed
<1>2. IsSeq(read.stack) /\ n \in Nat /\ DOMAIN read.stack = 1..n
      /\ \A d \in 1..n : read.stack[d] \in ToSet(read.stack)
  BY SeqFacts DEF ReadInv
<1>3. i \in 1..Len(events) /\ i + 1 \in 1..Len(events) /\ events[i + 1].type = "end"
      /\ events[i].ts \in Int /\ events[i].stop \in Int /\ events[i].ts <= events[i].stop
      /\ events[i + 1].ts = events[i].stop /\ Len(events) \in Nat
  BY EventsAreTimed DEF OneRow, Paired, Ended
<1>4. i + 1 \notin P \cup {i}
  BY <1>3 DEF ReadBefore, TimedBefore
<1>5. BegunIn(events, P \cup {i}) = BegunIn(events, P) \cup {i}
  BY DEF BegunIn
<1>6. /\ IsSeq(next.stack) /\ ToSet(next.stack) = ToSet(read.stack) \cup {i}
      /\ Len(next.stack) = n + 1 /\ next.stack[n + 1] = i
      /\ \A d \in 1..n : next.stack[d] = read.stack[d]
  <2>1. IsSeq(next.stack) /\ ToSet(next.stack) = ToSet(read.stack) \cup {i}
    BY <1>1, <1>2, AppendFacts
  <2> DEFINE S == ToSet(read.stack) \cup {i}
  <2>2. read.stack \in Seq(S) /\ i \in S
    <3>1. read.stack \in [1..n -> ToSet(read.stack)]
      BY <1>2, SeqFacts
    <3> QED BY <1>2, <3>1
  <2> HIDE DEF S
  <2> QED BY <1>1, <2>1, <2>2
<1> HIDE DEF next
<1>7. ASSUME NEW x \in ToSet(read.stack) PROVE x # i /\ events[i].stop <= events[x].stop
  <2>1. x \in BegunIn(events, P)
    BY DEF ReadInv
  <2>2. events[x].stop \in Int
    BY <1>0, <2>1, BeginsAre
  <2>3. x # i
    BY <1>0, <2>1 DEF BegunIn
  <2>4. CASE events[i].stop <= events[x].stop
    BY <2>3, <2>4
  <2>5. CASE ~(events[i].stop <= events[x].stop)
    <3> DEFINE t == events[i].ts
    <3>1. events[x].stop <= t
      BY <2>1, <2>5, BegunAhead DEF Fits
    <3>2. events[x].stop >= t
      BY OpenGoesOn
    <3>3. events[x].stop = t
      BY <1>3, <2>2, <3>1, <3>2
    <3>4. ASSUME NEW b \in BegunIn(events, P), events[b].stop = t PROVE b + 1 \in P
      <4>1. b + 1 \in 1..Len(events) /\ events[b + 1].ts = t
        BY <1>0, <3>4, BeginsAre
      <4>2. b + 1 < i
        BY BegunAhead
      <4> QED BY <4>1, <4>2 DEF ReadBefore, TimedBefore
    <3>5. t \in Int
      BY <1>3
    <3> HIDE DEF P, t
    <3>6. events[x].stop # t
      BY <1>0, <3>4, <3>5, NoneLeft DEF P
    <3> QED BY <3>3, <3>6
  <2> QED BY <2>4, <2>5
<1>8. ASSUME NEW d \in 1..Len(next.stack), NEW e \in 1..Len(next.stack), d < e
      PROVE  /\ next.stack[d] # next.stack[e]
             /\ events[next.stack[e]].stop <= events[next.stack[d]].stop
  <2>1. CASE e = n + 1
    <3>1. d \in 1..n
      BY <1>2, <1>6, <1>8, <2>1
    <3> QED BY <1>2, <1>6, <1>7, <2>1, <3>1
  <2>2. CASE e # n + 1
    <3>1. d \in 1..n /\ e \in 1..n
      BY <1>2, <1>6, <1>8, <2>2
    <3> QED BY <1>6, <1>8, <3>1 DEF ReadInv
  <2> QED BY <2>1, <2>2
<1>9. ASSUME NEW b \in BegunIn(events, P \cup {i}), b + 1 \in P \cup {i}
      PROVE  b \in BegunIn(events, P) /\ b + 1 \in P
  <2>1. b # i
    BY <1>4, <1>9
  <2>2. b \in BegunIn(events, P)
    BY <1>5, <2>1
  <2>3. events[b + 1].type = "end"
    BY <1>0, <2>2, BeginsAre
  <2> QED BY <1>9, <2>2, <2>3
<1>10. ASSUME NEW t \in Int
       PROVE  EndedAt(events, P \cup {i}, t) = EndedAt(events, P, t)
              /\ ClosedAt(events, next, t) = ClosedAt(events, read, t)
  <2>1. ClosedAt(events, next, t) = ClosedAt(events, read, t)
    BY <1>1 DEF ClosedAt
  <2> HIDE DEF P
  <2>2. EndedAt(events, P \cup {i}, t) = EndedAt(events, P, t)
    BY <1>5, <1>9 DEF EndedAt
  <2> QED BY <2>1, <2>2
<1>11. i \notin BegunIn(events, P) /\ ReadInv(events, P, read)
  BY <1>0 DEF BegunIn
<1> HIDE DEF P
<1>12. ToSet(next.stack) \cap DOMAIN next.stops = {}
       /\ ToSet(next.stack) \cup DOMAIN next.stops = BegunIn(events, P \cup {i})
  BY <1>1, <1>5, <1>6, <1>11 DEF ReadInv
<1>13. \A b \in DOMAIN next.stops : next.stops[b] = events[b].stop
  BY <1>1, <1>11 DEF ReadInv
<1>14. Named(events) => \A b \in BegunIn(events, P \cup {i}) : b + 1 \in P \cup {i} => b \in DOMAIN next.stops
  BY <1>1, <1>9, <1>11 DEF ReadInv
<1>15. ~Named(events) =>
         \A t \in Int : Cardinality(EndedAt(events, P \cup {i}, t)) = Cardinality(ClosedAt(events, next, t))
  BY <1>10, <1>11 DEF ReadInv
<1> QED BY <1>6, <1>8, <1>12, <1>13, <1>14, <1>15 DEF ReadInv, P, next

(* An END closes what is open from the place `keep` on, all of which stops at its instant. *)
Closes(events, i, keep, read, next) ==
  LET closing == {read.stack[d] : d \in (keep + 1)..Len(read.stack)}
  IN  /\ keep \in 0..Len(read.stack)
      /\ next.stack = SubSeq(read.stack, 1, keep)
      /\ next.stops = [b \in DOMAIN read.stops \cup closing |->
                         IF b \in closing THEN events[i].ts ELSE read.stops[b]]
      /\ \A d \in (keep + 1)..Len(read.stack) : events[read.stack[d]].stop = events[i].ts

LEMMA SelectsLast ==
  ASSUME NEW stack, IsSeq(stack), NEW events, NEW end,
         end.name # {}, NEW w, w = Matched(events, stack, end)
  PROVE  /\ w \in 0..Len(stack)
         /\ w # 0 => events[stack[w]].name \in end.name
         /\ w = 0 => \A d \in 1..Len(stack) : events[stack[d]].name \notin end.name
<1> DEFINE n == Len(stack)
           I == {i \in 1..n : events[stack[i]].name \in end.name}
<1>1. n \in Nat
  BY SeqFacts
<1>2. w = IF I # {} THEN Latest(I) ELSE 0
  BY DEF Matched, SelectLastInSeq, Max, Latest
<1>3. I \subseteq Int /\ I \subseteq 1..n /\ IsFiniteSet(I)
  BY <1>1, PlacesAreFinite, FS_Subset
<1>4. I # {} => Latest(I) \in I
  <2> HIDE DEF I
  <2> QED BY <1>3, FiniteEnds
<1>5. \A i \in 1..n : i \in I <=> events[stack[i]].name \in end.name
  OBVIOUS
<1> HIDE DEF I, n
<1>6. CASE I = {}
  BY <1>1, <1>2, <1>5, <1>6 DEF n
<1>7. CASE I # {}
  <2>1. w \in I /\ w \in 1..n
    BY <1>2, <1>3, <1>4, <1>7
  <2> QED BY <1>1, <1>5, <2>1 DEF n
<1> QED BY <1>6, <1>7

(* The slice of an END has begun, and had not ended. *)
LEMMA EndHasBegun ==
  ASSUME NEW events, OneRow(events), NEW i \in 1..Len(events), events[i].type = "end"
  PROVE  /\ i - 1 \in BegunIn(events, ReadBefore(events, i)) /\ (i - 1) + 1 = i
         /\ events[i - 1].stop = events[i].ts /\ events[i].ts \in Int
         /\ i \notin ReadBefore(events, i)
         /\ BegunIn(events, ReadBefore(events, i) \cup {i}) = BegunIn(events, ReadBefore(events, i))
<1>1. i - 1 \in 1..Len(events) /\ Ended(events[i - 1], events[i]) /\ Len(events) \in Nat
  BY EventsAreTimed DEF OneRow, Paired
<1>2. i \in Int /\ (i - 1) + 1 = i /\ i - 1 < i
  BY <1>1
<1>3. TimedBefore(events, i - 1, i) /\ ~TimedBefore(events, i, i)
  BY <1>1, <1>2 DEF Ended, TimedBefore
<1>4. i - 1 \in BegunIn(events, ReadBefore(events, i))
  BY <1>1, <1>3 DEF BegunIn, ReadBefore, Ended
<1> QED BY <1>1, <1>2, <1>3, <1>4 DEF BegunIn, ReadBefore, Ended

LEMMA UnnamedCloses ==
  ASSUME NEW events, OneRow(events), ~Named(events), NEW i \in 1..Len(events), events[i].type = "end",
         NEW read, ReadInv(events, ReadBefore(events, i), read)
  PROVE  Len(read.stack) # 0 /\ Closes(events, i, Len(read.stack) - 1, read, Consumed(events, read, i))
<1> DEFINE P == ReadBefore(events, i)
           next == Consumed(events, read, i)
           n == Len(read.stack)
           k == i - 1
           t == events[i].ts
<1>1. IsSeq(read.stack) /\ n \in Nat /\ DOMAIN read.stack = 1..n
      /\ \A d \in 1..n : read.stack[d] \in ToSet(read.stack)
  BY SeqFacts DEF ReadInv
<1>2. /\ k \in BegunIn(events, P) /\ k + 1 = i /\ events[k].stop = t /\ t \in Int /\ i \notin P
  BY EndHasBegun
<1>3. P \in SUBSET (1..Len(events))
  BY DEF ReadBefore
<1>4. \A b \in BegunIn(events, P) : events[b].stop \in Int
  BY <1>3, BeginsAre
<1> DEFINE all == {b \in BegunIn(events, P) : events[b].stop = t}
           ended == EndedAt(events, P, t)
           closed == ClosedAt(events, read, t)
<1> HIDE DEF k, P
<1>5. \E x \in all : x \notin closed
  <2> SUFFICES ASSUME all \subseteq closed PROVE FALSE
    OBVIOUS
  <2>1. IsFiniteSet(all)
    <3>1. Len(events) \in Nat /\ all \subseteq 1..Len(events)
      BY <1>3, EventsAreTimed DEF BegunIn
    <3> HIDE DEF all
    <3> QED BY <3>1, PlacesAreFinite, FS_Subset
  <2>2. ended \subseteq all /\ k \in all /\ k \notin ended
    BY <1>2 DEF EndedAt
  <2>3. Cardinality(ended) = Cardinality(closed)
    BY <1>2 DEF ReadInv, P
  <2>4. closed \subseteq all
    BY DEF ClosedAt, ReadInv, P
  <2>5. closed = all
    BY <2>4
  <2> HIDE DEF all, ended, closed
  <2> QED BY <2>1, <2>2, <2>3, <2>5, FS_Subset
<1>6. PICK x \in all : x \notin closed
  BY <1>5
<1>7. x \in ToSet(read.stack)
  BY <1>6 DEF ReadInv, ClosedAt, P
<1>8. PICK d \in 1..n : read.stack[d] = x
  BY <1>1, <1>7 DEF ToSet
<1>9. n # 0 /\ n \in 1..n /\ read.stack[n] \in ToSet(read.stack)
  BY <1>1, <1>8
<1>10. events[read.stack[n]].stop <= t
  <2>1. CASE d = n
    BY <1>2, <1>6, <1>8, <2>1
  <2>2. CASE d # n
    <3>1. d < n
      BY <1>1, <2>2
    <3> QED BY <1>6, <1>8, <1>9, <3>1 DEF ReadInv
  <2> QED BY <2>1, <2>2
<1>11. events[read.stack[n]].stop >= t
  BY <1>9, OpenGoesOn
<1>12. events[read.stack[n]].stop \in Int
  BY <1>4, <1>9 DEF ReadInv, P
<1>13. events[read.stack[n]].stop = t
  BY <1>2, <1>10, <1>11, <1>12
<1>14. events[i].name = {}
  BY DEF OneRow, Unnamed
<1>15. Matched(events, read.stack, events[i]) = n
  BY <1>14 DEF Matched
<1> DEFINE closing == {read.stack[e] : e \in ((n - 1) + 1)..n}
<1>16. /\ next.stack = SubSeq(read.stack, 1, n - 1)
       /\ next.stops = [b \in DOMAIN read.stops \cup closing |->
                          IF b \in closing THEN events[i].ts ELSE read.stops[b]]
  BY <1>9, <1>15 DEF Consumed
<1>17. \A e \in ((n - 1) + 1)..n : e = n
  BY <1>1
<1>18. n - 1 \in 0..n
  BY <1>1, <1>9
<1> QED BY <1>9, <1>13, <1>16, <1>17, <1>18 DEF Closes

LEMMA NamedCloses ==
  ASSUME NEW events, OneRow(events), Named(events), NEW i \in 1..Len(events), events[i].type = "end",
         NEW read, ReadInv(events, ReadBefore(events, i), read)
  PROVE  \E keep : /\ Closes(events, i, keep, read, Consumed(events, read, i))
                   /\ \A d \in 1..keep : read.stack[d] # i - 1
<1> DEFINE P == ReadBefore(events, i)
           next == Consumed(events, read, i)
           n == Len(read.stack)
           k == i - 1
           t == events[i].ts
           depth == Matched(events, read.stack, events[i])
           keep == IF depth = 0 THEN n ELSE depth - 1
           closing == {read.stack[e] : e \in (keep + 1)..n}
<1>1. IsSeq(read.stack) /\ n \in Nat /\ DOMAIN read.stack = 1..n
      /\ \A d \in 1..n : read.stack[d] \in ToSet(read.stack)
  BY SeqFacts DEF ReadInv
<1>2. /\ k \in BegunIn(events, P) /\ k + 1 = i /\ events[k].stop = t /\ t \in Int /\ i \notin P
  BY EndHasBegun
<1>3. P \in SUBSET (1..Len(events))
  BY DEF ReadBefore
<1>4. \A b \in BegunIn(events, P) : events[b].stop \in Int
  BY <1>3, BeginsAre
<1>5. events[i].name = {events[k].name}
  BY DEF Named
<1>6. /\ depth \in 0..n
      /\ depth # 0 => events[read.stack[depth]].name \in events[i].name
      /\ depth = 0 => \A d \in 1..n : events[read.stack[d]].name \notin events[i].name
  <2>1. events[i].name # {} /\ depth = Matched(events, read.stack, events[i])
    BY <1>5
  <2> DEFINE stack == read.stack
             end == events[i]
  <2>2. IsSeq(stack) /\ end.name # {} /\ depth = Matched(events, stack, end)
    BY <1>1, <2>1
  <2> HIDE DEF depth, stack, end
  <2>3. /\ depth \in 0..Len(stack)
        /\ depth # 0 => events[stack[depth]].name \in end.name
        /\ depth = 0 => \A d \in 1..Len(stack) : events[stack[d]].name \notin end.name
    BY ONLY <2>2, SelectsLast
  <2> QED BY ONLY <2>3 DEF stack, end
<1>7. /\ next.stack = SubSeq(read.stack, 1, keep)
      /\ next.stops = [b \in DOMAIN read.stops \cup closing |->
                         IF b \in closing THEN events[i].ts ELSE read.stops[b]]
  BY DEF Consumed
<1> HIDE DEF k, P, t, depth, next
<1>8. \A d \in 1..n : read.stack[d] \in BegunIn(events, P)
  BY <1>1 DEF ReadInv, P
<1>9. \A d \in 1..n : read.stack[d] = k <=> events[read.stack[d]].name \in events[i].name
  <2> SUFFICES ASSUME NEW d \in 1..n
               PROVE  read.stack[d] = k <=> events[read.stack[d]].name \in events[i].name
    OBVIOUS
  <2>1. events[read.stack[d]].type = "begin" /\ events[k].type = "begin"
        /\ read.stack[d] \in 1..Len(events) /\ k \in 1..Len(events)
    BY <1>2, <1>3, <1>8 DEF BegunIn
  <2>2. events[read.stack[d]].name = events[k].name => read.stack[d] = k
    BY <2>1 DEF Named
  <2> QED BY <1>5, <2>2
<1>10. keep \in 0..n /\ \A d \in 1..keep : d \in 1..n
  BY <1>1, <1>6
<1>11. ASSUME NEW d \in (keep + 1)..n PROVE events[read.stack[d]].stop = t
  <2>1. depth # 0 /\ depth \in 1..n /\ d \in depth..n /\ d \in 1..n
    BY <1>1, <1>6
  <2>2. read.stack[depth] = k
    BY <1>6, <1>9, <2>1
  <2>3. events[read.stack[d]].stop <= t
    <3>1. CASE d = depth
      BY <1>2, <2>2, <3>1
    <3>2. CASE d # depth
      <4>1. depth < d
        BY <1>1, <2>1, <3>2
      <4> QED BY <1>2, <2>1, <2>2, <4>1 DEF ReadInv
    <3> QED BY <3>1, <3>2
  <2>4. events[read.stack[d]].stop >= t
    BY <1>1, <2>1, OpenGoesOn DEF t
  <2>5. events[read.stack[d]].stop \in Int
    BY <1>4, <1>8, <2>1
  <2> QED BY <1>2, <2>3, <2>4, <2>5
<1>12. ASSUME NEW d \in 1..keep PROVE read.stack[d] # k
  <2>1. CASE depth = 0
    BY <1>6, <1>9, <1>10, <2>1
  <2>2. CASE depth # 0
    <3>1. d \in 1..n /\ depth \in 1..n /\ d < depth
      BY <1>1, <1>6, <1>10, <2>2
    <3>2. read.stack[depth] = k
      BY <1>6, <1>9, <2>2, <3>1
    <3> QED BY <3>1, <3>2 DEF ReadInv
  <2> QED BY <2>1, <2>2
<1>13. Closes(events, i, keep, read, next)
  BY <1>7, <1>10, <1>11 DEF Closes, t
<1> QED BY <1>12, <1>13 DEF next, k

(* What is kept of the stack, and what is closed. *)
LEMMA ClosesPart ==
  ASSUME NEW events, OneRow(events), NEW i \in 1..Len(events), events[i].type = "end",
         NEW read, ReadInv(events, ReadBefore(events, i), read),
         NEW keep, NEW next, Closes(events, i, keep, read, next)
  PROVE  /\ IsSeq(next.stack) /\ Len(next.stack) = keep
         /\ \A d \in 1..keep : next.stack[d] = read.stack[d] /\ d \in 1..Len(read.stack)
         /\ ToSet(next.stack) \cap DOMAIN next.stops = {}
         /\ ToSet(next.stack) \cup DOMAIN next.stops = BegunIn(events, ReadBefore(events, i) \cup {i})
         /\ \A b \in DOMAIN next.stops : next.stops[b] = events[b].stop
         /\ DOMAIN next.stops = DOMAIN read.stops \cup {read.stack[d] : d \in (keep + 1)..Len(read.stack)}
<1> DEFINE P == ReadBefore(events, i)
           n == Len(read.stack)
           closing == {read.stack[e] : e \in (keep + 1)..n}
<1>1. IsSeq(read.stack) /\ n \in Nat /\ DOMAIN read.stack = 1..n
      /\ \A d \in 1..n : read.stack[d] \in ToSet(read.stack)
  BY SeqFacts DEF ReadInv
<1>2. /\ keep \in 0..n /\ next.stack = SubSeq(read.stack, 1, keep)
      /\ DOMAIN next.stops = DOMAIN read.stops \cup closing
      /\ \A b \in DOMAIN read.stops \cup closing :
           next.stops[b] = IF b \in closing THEN events[i].ts ELSE read.stops[b]
      /\ \A b \in closing : events[b].stop = events[i].ts
  BY DEF Closes
<1>3. /\ ToSet(read.stack) \cap DOMAIN read.stops = {}
      /\ ToSet(read.stack) \cup DOMAIN read.stops = BegunIn(events, P)
      /\ \A b \in DOMAIN read.stops : read.stops[b] = events[b].stop
      /\ \A d, e \in 1..n : d < e => read.stack[d] # read.stack[e]
  BY DEF ReadInv
<1>4. BegunIn(events, P \cup {i}) = BegunIn(events, P)
  BY EndHasBegun
<1> HIDE DEF P
<1>5. /\ IsSeq(next.stack) /\ Len(next.stack) = keep
      /\ \A d \in 1..keep : next.stack[d] = read.stack[d] /\ d \in 1..n
  <2>1. \A d \in 1..keep : read.stack[d] \in ToSet(read.stack) /\ d \in 1..n
    BY <1>1, <1>2
  <2>2. read.stack \in Seq(ToSet(read.stack))
    BY <1>1 DEF IsSeq
  <2>3. SubSeq(read.stack, 1, keep) \in Seq(ToSet(read.stack)) /\ Len(SubSeq(read.stack, 1, keep)) = keep
        /\ \A d \in 1..keep : SubSeq(read.stack, 1, keep)[d] = read.stack[d]
    BY <1>1, <1>2, <2>1, <2>2, SubSeqProperties
  <2>4. IsSeq(SubSeq(read.stack, 1, keep))
    BY <2>3, SeqOfAny
  <2> QED BY <1>2, <2>1, <2>3, <2>4
<1>6. \A x : x \in ToSet(next.stack) <=> \E d \in 1..keep : x = read.stack[d]
  <2>1. DOMAIN next.stack = 1..keep
    BY <1>5, SeqFacts
  <2> QED BY <1>5, <2>1 DEF ToSet
<1>7. \A x : x \in ToSet(read.stack) <=> x \in ToSet(next.stack) \/ x \in closing
  <2>1. \A d : d \in 1..n <=> d \in 1..keep \/ d \in (keep + 1)..n
    BY <1>1, <1>2
  <2>2. \A x : x \in ToSet(read.stack) <=> \E d \in 1..n : x = read.stack[d]
    BY <1>1 DEF ToSet
  <2> QED BY <1>6, <2>1, <2>2
<1>8. ToSet(next.stack) \cap closing = {}
  <2> SUFFICES ASSUME NEW x \in ToSet(next.stack), x \in closing PROVE FALSE
    OBVIOUS
  <2>1. PICK d \in 1..keep : x = read.stack[d]
    BY <1>6
  <2>2. PICK e \in (keep + 1)..n : x = read.stack[e]
    OBVIOUS
  <2>3. d \in 1..n /\ e \in 1..n /\ d < e
    BY <1>1, <1>2
  <2> QED BY <1>3, <2>1, <2>2, <2>3
<1>9. closing \cap DOMAIN read.stops = {}
  BY <1>3, <1>7
<1>10. DOMAIN next.stops = DOMAIN read.stops \cup closing
  BY <1>2
<1> HIDE DEF closing
<1>11. \A b \in DOMAIN next.stops : next.stops[b] = events[b].stop
  <2> SUFFICES ASSUME NEW b \in DOMAIN next.stops PROVE next.stops[b] = events[b].stop
    OBVIOUS
  <2>1. CASE b \in closing
    BY <1>2, <2>1
  <2>2. CASE b \notin closing
    BY <1>2, <1>3, <2>2
  <2> QED BY <2>1, <2>2
<1>12. ToSet(next.stack) \cap DOMAIN next.stops = {}
       /\ ToSet(next.stack) \cup DOMAIN next.stops = BegunIn(events, P \cup {i})
  BY <1>3, <1>4, <1>7, <1>8, <1>10
<1> QED BY <1>5, <1>10, <1>11, <1>12 DEF P, closing

LEMMA ReadEnds ==
  ASSUME NEW events, OneRow(events), NEW i \in 1..Len(events), events[i].type = "end", NEW read,
         ReadInv(events, ReadBefore(events, i), read)
  PROVE  ReadInv(events, ReadBefore(events, i) \cup {i}, Consumed(events, read, i))
<1> DEFINE P == ReadBefore(events, i)
           next == Consumed(events, read, i)
           n == Len(read.stack)
           k == i - 1
           t == events[i].ts
<1>1. IsSeq(read.stack) /\ n \in Nat /\ DOMAIN read.stack = 1..n
      /\ \A d \in 1..n : read.stack[d] \in ToSet(read.stack)
  BY SeqFacts DEF ReadInv
<1>2. /\ k \in BegunIn(events, P) /\ k + 1 = i /\ events[k].stop = t /\ t \in Int /\ i \notin P
      /\ BegunIn(events, P \cup {i}) = BegunIn(events, P)
  BY EndHasBegun
<1>3. PICK keep : /\ Closes(events, i, keep, read, next)
                  /\ ~Named(events) => n # 0 /\ keep = n - 1
                  /\ Named(events) => \A d \in 1..keep : read.stack[d] # k
  BY UnnamedCloses, NamedCloses
<1> HIDE DEF next, P
<1> DEFINE closing == {read.stack[d] : d \in (keep + 1)..n}
<1>4. /\ IsSeq(next.stack) /\ Len(next.stack) = keep
      /\ \A d \in 1..keep : next.stack[d] = read.stack[d] /\ d \in 1..n
      /\ ToSet(next.stack) \cap DOMAIN next.stops = {}
      /\ ToSet(next.stack) \cup DOMAIN next.stops = BegunIn(events, P \cup {i})
      /\ \A b \in DOMAIN next.stops : next.stops[b] = events[b].stop
      /\ DOMAIN next.stops = DOMAIN read.stops \cup closing
  BY <1>3, ClosesPart DEF P
<1>5. ASSUME NEW d \in 1..Len(next.stack), NEW e \in 1..Len(next.stack), d < e
      PROVE  /\ next.stack[d] # next.stack[e]
             /\ events[next.stack[e]].stop <= events[next.stack[d]].stop
  BY <1>4, <1>5 DEF ReadInv
<1>6. \A b \in Int : b + 1 \in P \cup {i} <=> b + 1 \in P \/ b = k
  BY <1>2
<1>7. BegunIn(events, P) \subseteq Int
  BY DEF BegunIn, P, ReadBefore
<1>8. ASSUME Named(events), NEW b \in BegunIn(events, P), b + 1 \in P \cup {i}
      PROVE  b \in DOMAIN next.stops
  <2>1. CASE b = k
    <3>1. k \notin ToSet(next.stack)
      <4>1. DOMAIN next.stack = 1..keep
        BY <1>4, SeqFacts
      <4> QED BY <1>3, <1>4, <1>8, <4>1 DEF ToSet
    <3> QED BY <1>2, <1>4, <2>1, <3>1
  <2>2. CASE b # k
    <3>1. b + 1 \in P
      BY <1>6, <1>7, <1>8, <2>2
    <3> QED BY <1>4, <1>8, <3>1 DEF ReadInv, P
  <2> QED BY <2>1, <2>2
<1>9. ASSUME ~Named(events), NEW u \in Int
      PROVE  Cardinality(EndedAt(events, P \cup {i}, u)) = Cardinality(ClosedAt(events, next, u))
  <2> DEFINE top == read.stack[n]
             ended == EndedAt(events, P, u)
             closed == ClosedAt(events, read, u)
  <2>1. n # 0 /\ keep = n - 1 /\ (keep + 1)..n = {n} /\ n \in 1..n
    BY <1>1, <1>3, <1>9
  <2>2. DOMAIN next.stops = DOMAIN read.stops \cup {top}
    BY <1>4, <2>1
  <2>3. events[top].stop = t /\ top \notin DOMAIN read.stops
    BY <1>1, <1>3, <2>1 DEF Closes, ReadInv
  <2>4. Cardinality(ended) = Cardinality(closed)
    BY <1>9 DEF ReadInv, P
  <2>5. IsFiniteSet(ended) /\ IsFiniteSet(closed)
    <3>1. Len(events) \in Nat /\ BegunIn(events, P) \subseteq 1..Len(events)
      BY EventsAreTimed DEF BegunIn, P, ReadBefore
    <3>2. ended \subseteq BegunIn(events, P) /\ closed \subseteq BegunIn(events, P)
      BY DEF EndedAt, ClosedAt, ReadInv, P
    <3> HIDE DEF ended, closed
    <3> QED BY <3>1, <3>2, PlacesAreFinite, FS_Subset
  <2>6. k \notin ended
    BY <1>2 DEF EndedAt
  <2>7. top \notin closed
    BY <2>3 DEF ClosedAt
  <2>8. CASE u = t
    <3>1. EndedAt(events, P \cup {i}, u) = ended \cup {k}
      BY <1>2, <1>6, <1>7, <2>8 DEF EndedAt
    <3>2. ClosedAt(events, next, u) = closed \cup {top}
      BY <2>2, <2>3, <2>8 DEF ClosedAt
    <3> HIDE DEF ended, closed, top, k
    <3>3. Cardinality(ended \cup {k}) = Cardinality(ended) + 1
      BY <2>5, <2>6, FS_AddElement
    <3>4. Cardinality(closed \cup {top}) = Cardinality(closed) + 1
      BY <2>5, <2>7, FS_AddElement
    <3> QED BY <2>4, <3>1, <3>2, <3>3, <3>4
  <2>9. CASE u # t
    <3>1. EndedAt(events, P \cup {i}, u) = ended
      BY <1>2, <1>6, <1>7, <2>9 DEF EndedAt
    <3>2. ClosedAt(events, next, u) = closed
      BY <2>2, <2>3, <2>9 DEF ClosedAt
    <3> QED BY <2>4, <3>1, <3>2
  <2> QED BY <2>8, <2>9
<1>10. Named(events) => \A b \in BegunIn(events, P \cup {i}) : b + 1 \in P \cup {i} => b \in DOMAIN next.stops
  BY <1>2, <1>8
<1> QED BY <1>4, <1>5, <1>9, <1>10 DEF ReadInv, P, next

(* The processor takes every event, in order. *)

LEMMA OrderSorts ==
  ASSUME NEW events, OneRow(events)
  PROVE  /\ Sorts(InTimeOrder(events), 1..Len(events))
         /\ \A i, j \in 1..Len(InTimeOrder(events)) : i < j =>
              TimedBefore(events, InTimeOrder(events)[i], InTimeOrder(events)[j])
<1> DEFINE order == InTimeOrder(events)
           S == 1..Len(events)
<1>1. Len(events) \in Nat /\ \A i \in S : events[i].ts \in Int
  BY EventsAreTimed
<1>2. DOMAIN events = S
  BY SeqFacts DEF OneRow, Paired
<1>3. Timed(order, events, S)
  BY <1>2 DEF InTimeOrder, SortedBy, TimedBefore, Timed
<1>4. S \in SUBSET (1..Len(events))
  OBVIOUS
<1> HIDE DEF order
<1>5. Sorts(order, S)
  BY ONLY <1>1, <1>3, <1>4, TimeSorts
<1>6. \A i, j \in 1..Len(order) : i < j => TimedBefore(events, order[i], order[j])
  BY ONLY <1>1, <1>3, <1>4, TimeSorts
<1> QED BY <1>5, <1>6 DEF order

LEMMA ReadStep ==
  ASSUME NEW events, OneRow(events), NEW i \in 1..Len(events), NEW read,
         ReadInv(events, ReadBefore(events, i), read)
  PROVE  ReadInv(events, ReadBefore(events, i) \cup {i}, Consumed(events, read, i))
<1>1. events[i].type \in {"begin", "end"}
  BY DEF OneRow
<1>2. CASE events[i].type = "begin"
  BY <1>2, ReadBegins
<1>3. CASE events[i].type = "end"
  BY <1>3, ReadEnds
<1> QED BY <1>1, <1>2, <1>3

ReadOf(events, h) ==
  h = [n \in 0..Len(InTimeOrder(events)) |->
         IF n = 0 THEN [stack |-> <<>>, stops |-> <<>>]
         ELSE Consumed(events, h[n - 1], InTimeOrder(events)[n])]

LEMMA ReadExists ==
  ASSUME NEW events, OneRow(events)
  PROVE  \E h : ReadOf(events, h)
<1> DEFINE order == InTimeOrder(events)
           N == Len(order)
           Step(s, n) == Consumed(events, s, order[n])
           none == [stack |-> <<>>, stops |-> <<>>]
           Made(n, h) == h = [i \in 0..n |-> IF i = 0 THEN none ELSE Step(h[i - 1], i)]
           Reached == {n \in Nat : \E h : Made(n, h)}
<1>0. N \in Nat
  BY OrderSorts, SeqFacts DEF Sorts
<1> HIDE DEF N, order, none, Step
<1>1. 0 \in Reached
  <2> DEFINE h == [i \in 0..0 |-> none]
  <2>1. Made(0, h)
    OBVIOUS
  <2> QED BY <2>1
<1>2. ASSUME NEW n \in 0..(N - 1), n \in Reached PROVE n + 1 \in Reached
  <2>1. PICK h : Made(n, h)
    BY <1>2
  <2> DEFINE last == Step(h[n], n + 1)
             k == [i \in 0..(n + 1) |-> IF i = n + 1 THEN last ELSE h[i]]
  <2>2. n \in Nat
    OBVIOUS
  <2>3. ASSUME NEW i \in 0..(n + 1)
        PROVE  k[i] = IF i = 0 THEN none ELSE Step(k[i - 1], i)
    <3>1. CASE i = n + 1
      <4>1. i - 1 \in 0..(n + 1) /\ i - 1 = n /\ i # 0 /\ n # n + 1
        BY <2>2, <3>1
      <4>2. k[i - 1] = h[n] /\ k[i] = Step(h[n], i)
        BY <3>1, <4>1
      <4> QED BY <4>1, <4>2
    <3>2. CASE i # n + 1
      <4>1. i \in 0..n /\ k[i] = h[i]
        BY <2>2, <3>2
      <4>2. h[i] = IF i = 0 THEN none ELSE Step(h[i - 1], i)
        BY <2>1, <4>1
      <4>3. i # 0 => k[i - 1] = h[i - 1]
        <5> SUFFICES ASSUME i # 0 PROVE k[i - 1] = h[i - 1]
          OBVIOUS
        <5>1. i - 1 \in 0..(n + 1) /\ i - 1 # n + 1
          BY <2>2, <4>1
        <5> QED BY <5>1
      <4> QED BY <4>1, <4>2, <4>3
    <3> QED BY <3>1, <3>2
  <2>4. Made(n + 1, k)
    <3>1. k = [i \in 0..(n + 1) |-> k[i]]
      OBVIOUS
    <3> HIDE DEF k
    <3> QED BY <2>3, <3>1
  <2> HIDE DEF k, Made
  <2> QED BY <2>2, <2>4
<1>3. N \in Reached
  <2>1. N \in 0..N
    BY <1>0
  <2> HIDE DEF Reached
  <2> QED BY <1>0, <1>1, <1>2, <2>1, UpTo
<1>4. PICK h : Made(N, h)
  BY <1>3
<1>5. ReadOf(events, h)
  BY <1>4 DEF ReadOf, N, order, none, Step
<1> QED BY <1>5

LEMMA StopsIs ==
  ASSUME NEW events, OneRow(events)
  PROVE  \E h : ReadOf(events, h) /\ Stops(events) = h[Len(InTimeOrder(events))].stops
<1> DEFINE h == CHOOSE h : ReadOf(events, h)
<1>1. ReadOf(events, h)
  BY ReadExists
<1>2. Stops(events) = h[Len(InTimeOrder(events))].stops
  BY DEF Stops, ReadOf
<1> QED BY <1>1, <1>2

LEMMA ReadHolds ==
  ASSUME NEW events, OneRow(events), NEW h, ReadOf(events, h)
  PROVE  ReadInv(events, 1..Len(events), h[Len(InTimeOrder(events))])
<1> DEFINE order == InTimeOrder(events)
           N == Len(order)
           Seen(n) == {order[i] : i \in 1..n}
           Reached == {n \in Nat : ReadInv(events, Seen(n), h[n])}
<1>1. /\ IsSeq(order) /\ ToSet(order) = 1..Len(events)
      /\ \A i, j \in 1..N : i < j => TimedBefore(events, order[i], order[j])
      /\ N \in Nat /\ DOMAIN order = 1..N /\ \A i \in 1..N : order[i] \in 1..Len(events)
  BY OrderSorts, SeqFacts DEF Sorts
<1>2. \A n \in 0..N : h[n] = IF n = 0 THEN [stack |-> <<>>, stops |-> <<>>]
                             ELSE Consumed(events, h[n - 1], order[n])
  BY DEF ReadOf
<1> HIDE DEF order, N
<1>3. 0 \in Reached
  <2>1. h[0] = [stack |-> <<>>, stops |-> <<>>] /\ Seen(0) = {}
    BY <1>1, <1>2
  <2>2. IsSeq(<<>>) /\ Len(<<>>) = 0 /\ DOMAIN <<>> = {} /\ ToSet(<<>>) = {}
    BY EmptyIsSeq
  <2>3. h[0].stack = <<>> /\ h[0].stops = <<>>
    BY <2>1
  <2> DEFINE none == h[0]
  <2>4. BegunIn(events, {}) = {} /\ \A t \in Int : EndedAt(events, {}, t) = ClosedAt(events, none, t)
    <3>1. DOMAIN none.stops = {} /\ BegunIn(events, {}) = {}
      BY <2>2, <2>3 DEF BegunIn
    <3> QED BY <3>1 DEF EndedAt, ClosedAt
  <2>5. IsSeq(none.stack) /\ Len(none.stack) = 0 /\ DOMAIN none.stops = {} /\ ToSet(none.stack) = {}
    BY <2>2, <2>3
  <2>6. ReadInv(events, {}, none)
    <3> HIDE DEF none
    <3> QED BY <2>4, <2>5 DEF ReadInv
  <2>7. ReadInv(events, {}, h[0])
    BY <2>6
  <2> QED BY <2>1, <2>7
<1>4. ASSUME NEW n \in 0..(N - 1), n \in Reached PROVE n + 1 \in Reached
  <2> DEFINE r == order[n + 1]
  <2>1. n \in Nat /\ n + 1 \in 1..N /\ n + 1 \in 0..N /\ n + 1 # 0 /\ (n + 1) - 1 = n
        /\ \A i \in 1..n : i \in 1..N /\ i < n + 1
    BY <1>1
  <2>2. h[n + 1] = Consumed(events, h[n], r)
    BY <1>2, <2>1
  <2>3. r \in 1..Len(events)
    BY <1>1, <2>1
  <2>4. Seen(n) = ReadBefore(events, r)
    <3>1. ASSUME NEW x \in Seen(n) PROVE x \in ReadBefore(events, r)
      BY <1>1, <2>1 DEF ReadBefore
    <3>2. ASSUME NEW x \in ReadBefore(events, r) PROVE x \in Seen(n)
      <4>1. x \in 1..Len(events) /\ TimedBefore(events, x, r)
        BY DEF ReadBefore
      <4>2. PICK m \in 1..N : x = order[m]
        BY <1>1, <4>1 DEF ToSet
      <4>3. events[x].ts \in Int /\ events[r].ts \in Int /\ Len(events) \in Nat
        BY <2>3, <4>1, EventsAreTimed
      <4>4. ~TimedBefore(events, r, x) /\ r # x
        BY <2>3, <4>1, <4>3 DEF TimedBefore
      <4>5. m < n + 1
        <5>1. ~(n + 1 < m) /\ m # n + 1
          BY <1>1, <2>1, <4>2, <4>4
        <5> QED BY <1>1, <2>1, <5>1
      <4> QED BY <2>1, <4>2, <4>5
    <3> HIDE DEF Seen
    <3> QED BY <3>1, <3>2
  <2>5. Seen(n + 1) = Seen(n) \cup {r}
    <3>1. \A i : i \in 1..(n + 1) <=> i \in 1..n \/ i = n + 1
      BY <2>1
    <3> QED BY <3>1
  <2>6. ReadInv(events, Seen(n), h[n])
    BY <1>4
  <2> HIDE DEF r, Seen
  <2>7. ReadInv(events, Seen(n) \cup {r}, h[n + 1])
    BY <2>2, <2>3, <2>4, <2>6, ReadStep
  <2>8. ReadInv(events, Seen(n + 1), h[n + 1])
    BY <2>5, <2>7
  <2> QED BY <2>1, <2>8
<1>5. N \in Reached
  <2>1. N \in 0..N
    BY <1>1
  <2> HIDE DEF Reached
  <2> QED BY <1>1, <1>3, <1>4, <2>1, UpTo
<1>6. Seen(N) = 1..Len(events)
  BY <1>1 DEF ToSet
<1>7. ReadInv(events, Seen(N), h[N])
  BY <1>5
<1> HIDE DEF Seen
<1> QED BY <1>6, <1>7 DEF N, order

(* A row whose slices fit reads back as it was. *)
LEMMA RowReadsBack ==
  ASSUME NEW events, OneRow(events), NEW i \in 1..Len(events), events[i].type = "begin"
  PROVE  i \in DOMAIN Stops(events) /\ Stops(events)[i] = events[i].stop
<1> DEFINE P == 1..Len(events)
<1>1. PICK h : ReadOf(events, h) /\ Stops(events) = h[Len(InTimeOrder(events))].stops
  BY StopsIs
<1> DEFINE read == h[Len(InTimeOrder(events))]
<1>2. ReadInv(events, P, read) /\ P \in SUBSET (1..Len(events))
  BY <1>1, ReadHolds
<1>3. i \in BegunIn(events, P)
  BY DEF BegunIn
<1>4. events[i].stop \in Int
  BY <1>2, <1>3, BeginsAre
<1>5. \A b \in BegunIn(events, P) : b + 1 \in P
  BY <1>2, BeginsAre
<1> HIDE DEF read, P
<1>6. i \notin ToSet(read.stack)
  <2> DEFINE t == events[i].stop
  <2>1. t \in Int
    BY <1>4
  <2>2. \A b \in BegunIn(events, P) : events[b].stop = t => b + 1 \in P
    BY <1>5
  <2>3. P \in SUBSET (1..Len(events)) /\ ReadInv(events, P, read)
    BY <1>2
  <2> HIDE DEF t
  <2>4. \A x \in ToSet(read.stack) : events[x].stop # t
    BY ONLY OneRow(events), <2>1, <2>2, <2>3, NoneLeft
  <2> QED BY <2>4 DEF t
<1>7. i \in DOMAIN read.stops /\ read.stops[i] = events[i].stop
  BY <1>2, <1>3, <1>6 DEF ReadInv
<1> QED BY <1>1, <1>7 DEF read

-----------------------------------------------------------------------------
(* The slices of a sequence of events or of packets, row by row. *)

IsBlock(x) == x.type \in {"begin", "slice"} /\ x.row[1] # "process"
Fit(first, second) == IsBlock(first) /\ IsBlock(second) /\ first.row = second.row => Fits(first, second)

InLine(seq) == IsSeq(seq) /\ \A i, j \in 1..Len(seq) : i < j => Fit(seq[i], seq[j])
AheadOf(a, b) == \A x \in ToSet(a) : \A y \in ToSet(b) : Fit(x, y)

LEMMA InLineJoin ==
  ASSUME NEW a, NEW b, InLine(a), InLine(b), AheadOf(a, b)
  PROVE  InLine(a \o b)
<1> DEFINE c == a \o b
<1>1. /\ IsSeq(c) /\ Len(a) \in Nat /\ Len(b) \in Nat /\ Len(c) = Len(a) + Len(b)
      /\ \A i \in 1..Len(a) : c[i] = a[i]
      /\ \A i \in 1..Len(b) : c[Len(a) + i] = b[i]
  BY SeqFacts, ConcatFacts DEF InLine
<1>2. (\A i \in 1..Len(a) : a[i] \in ToSet(a)) /\ \A i \in 1..Len(b) : b[i] \in ToSet(b)
  BY SeqFacts DEF InLine
<1> HIDE DEF c
<1>3. ASSUME NEW i \in 1..Len(c), i \notin 1..Len(a)
      PROVE  i - Len(a) \in 1..Len(b) /\ c[i] = b[i - Len(a)]
  <2>1. i - Len(a) \in 1..Len(b) /\ i = Len(a) + (i - Len(a))
    BY <1>1, <1>3
  <2> QED BY <1>1, <2>1
<1>4. ASSUME NEW i \in 1..Len(c), NEW j \in 1..Len(c), i < j
      PROVE  Fit(c[i], c[j])
  <2>1. CASE j \in 1..Len(a)
    <3>1. i \in 1..Len(a)
      BY <1>1, <1>4, <2>1
    <3> QED BY <1>1, <1>4, <2>1, <3>1 DEF InLine
  <2>2. CASE i \in 1..Len(a) /\ j \notin 1..Len(a)
    BY <1>1, <1>2, <1>3, <2>2 DEF AheadOf
  <2>3. CASE i \notin 1..Len(a) /\ j \notin 1..Len(a)
    <3>1. i - Len(a) < j - Len(a)
      BY <1>1, <1>4
    <3> QED BY <1>3, <2>3, <3>1 DEF InLine
  <2> QED BY <2>1, <2>2, <2>3
<1>5. InLine(c)
  BY <1>1, <1>4 DEF InLine
<1> QED BY <1>5 DEF c

(* The parts of a flattened sequence stand in their order. *)
InTurns(start, parts, flat) ==
  /\ Placed(start, parts, flat)
  /\ \A i, j \in 1..Len(parts) : i < j => start[i] + Len(parts[i]) <= start[j]

LEMMA FlattenInTurn ==
  ASSUME NEW parts, IsSeq(parts), \A i \in 1..Len(parts) : IsSeq(parts[i])
  PROVE  \E start \in [1..Len(parts) -> Nat] : InTurns(start, parts, FlattenSeq(parts))
<1> DEFINE flat == FlattenSeq(parts)
           Held(start) ==
             /\ IsSeq(flat)
             /\ \A i \in 1..Len(parts) : \A m \in 1..Len(parts[i]) :
                  /\ start[i] + m \in 1..Len(flat)
                  /\ flat[start[i] + m] = parts[i][m]
             /\ \A k \in 1..Len(flat) :
                  \E i \in 1..Len(parts) : \E m \in 1..Len(parts[i]) : k = start[i] + m
             /\ \A i, j \in 1..Len(parts) : i < j => start[i] + Len(parts[i]) <= start[j]
<1>1. \E start \in [1..Len(parts) -> Nat] : Held(start)
  BY FlattenPlaces, Zenon
<1>2. PICK start \in [1..Len(parts) -> Nat] : Held(start)
  BY <1>1
<1> HIDE DEF flat
<1>3. ASSUME NEW k \in 1..Len(flat)
      PROVE  \E i \in 1..Len(parts) : \E m \in 1..Len(parts[i]) :
               k = start[i] + m /\ flat[k] = parts[i][m]
  <2>1. PICK i \in 1..Len(parts) : \E m \in 1..Len(parts[i]) : k = start[i] + m
    BY <1>2
  <2>2. PICK m \in 1..Len(parts[i]) : k = start[i] + m
    BY <2>1
  <2>3. flat[k] = parts[i][m]
    BY <1>2, <2>2
  <2> QED BY <2>2, <2>3
<1>4. InTurns(start, parts, flat)
  BY <1>2, <1>3 DEF Placed, InTurns
<1> QED BY <1>4 DEF flat

LEMMA InLineFlatten ==
  ASSUME NEW parts, IsSeq(parts), \A i \in 1..Len(parts) : InLine(parts[i]),
         \A i, j \in 1..Len(parts) : i < j => AheadOf(parts[i], parts[j])
  PROVE  InLine(FlattenSeq(parts))
<1> DEFINE flat == FlattenSeq(parts)
           n == Len(parts)
<1>1. \A i \in 1..n : /\ IsSeq(parts[i]) /\ Len(parts[i]) \in Nat
                      /\ \A m \in 1..Len(parts[i]) : parts[i][m] \in ToSet(parts[i])
  BY SeqFacts DEF InLine
<1>2. PICK start \in [1..n -> Nat] : InTurns(start, parts, flat)
  BY <1>1, FlattenInTurn
<1> HIDE DEF flat, n
<1>3. n \in Nat
  BY SeqFacts DEF n
<1>4. /\ IsSeq(flat)
      /\ \A k \in 1..Len(flat) :
           \E i \in 1..n : \E m \in 1..Len(parts[i]) : k = start[i] + m /\ flat[k] = parts[i][m]
      /\ \A i, j \in 1..n : i < j => start[i] + Len(parts[i]) <= start[j]
  BY <1>2 DEF InTurns, Placed, n
<1>5. ASSUME NEW k \in 1..Len(flat), NEW l \in 1..Len(flat), k < l
      PROVE  Fit(flat[k], flat[l])
  <2>1. PICK i \in 1..n : \E m \in 1..Len(parts[i]) : k = start[i] + m /\ flat[k] = parts[i][m]
    BY <1>4
  <2>2. PICK m \in 1..Len(parts[i]) : k = start[i] + m /\ flat[k] = parts[i][m]
    BY <2>1
  <2>3. PICK j \in 1..n : \E o \in 1..Len(parts[j]) : l = start[j] + o /\ flat[l] = parts[j][o]
    BY <1>4
  <2>4. PICK o \in 1..Len(parts[j]) : l = start[j] + o /\ flat[l] = parts[j][o]
    BY <2>3
  <2>5. /\ start[i] \in Nat /\ start[j] \in Nat /\ Len(parts[i]) \in Nat /\ Len(parts[j]) \in Nat
        /\ m \in Nat /\ o \in Nat /\ i \in Nat /\ j \in Nat
    BY <1>1, <1>2, <1>3
  <2>6. CASE i = j
    <3>1. m < o
      BY <1>5, <2>2, <2>4, <2>5, <2>6
    <3> QED BY <2>2, <2>4, <2>6, <3>1 DEF InLine, n
  <2>7. CASE i < j
    BY <1>1, <2>2, <2>4, <2>7 DEF AheadOf, n
  <2>8. CASE j < i
    <3>1. start[j] + Len(parts[j]) <= start[i]
      BY <1>4, <2>8
    <3>2. o <= Len(parts[j]) /\ 1 <= m
      BY <2>5
    <3>3. l < k
      BY <2>2, <2>4, <2>5, <3>1, <3>2
    <3> QED BY <1>5, <2>2, <2>4, <2>5, <3>3
  <2>9. i = j \/ i < j \/ j < i
    BY <2>5
  <2> QED BY <2>6, <2>7, <2>8, <2>9
<1>6. InLine(flat)
  BY <1>4, <1>5 DEF InLine
<1> QED BY <1>6 DEF flat

(* Each BEGIN right ahead of its END, which names a span and nothing else. *)
EndFor(begin, end) ==
  /\ Ended(begin, end)
  /\ end.name = IF begin.row = LifetimesRow THEN {begin.name} ELSE {}

InPairs(seq) ==
  /\ IsSeq(seq)
  /\ \A i \in 1..Len(seq) :
       /\ seq[i].type = "begin" => i + 1 \in 1..Len(seq) /\ EndFor(seq[i], seq[i + 1])
       /\ seq[i].type = "end" => i - 1 \in 1..Len(seq) /\ EndFor(seq[i - 1], seq[i])

LEMMA InPairsFlatten ==
  ASSUME NEW parts, IsSeq(parts), \A i \in 1..Len(parts) : InPairs(parts[i])
  PROVE  InPairs(FlattenSeq(parts))
<1> DEFINE flat == FlattenSeq(parts)
           n == Len(parts)
<1>1. \A i \in 1..n : IsSeq(parts[i]) /\ Len(parts[i]) \in Nat
  BY SeqFacts DEF InPairs
<1>2. PICK start \in [1..n -> Nat] : Placed(start, parts, flat)
  BY <1>1, FlattenPlaced
<1> HIDE DEF flat, n
<1>3. /\ IsSeq(flat)
      /\ \A i \in 1..n : \A m \in 1..Len(parts[i]) :
           start[i] + m \in 1..Len(flat) /\ flat[start[i] + m] = parts[i][m]
      /\ \A k \in 1..Len(flat) :
           \E i \in 1..n : \E m \in 1..Len(parts[i]) : k = start[i] + m /\ flat[k] = parts[i][m]
  BY <1>2 DEF Placed, n
<1>4. ASSUME NEW k \in 1..Len(flat)
      PROVE  /\ flat[k].type = "begin" => k + 1 \in 1..Len(flat) /\ EndFor(flat[k], flat[k + 1])
             /\ flat[k].type = "end" => k - 1 \in 1..Len(flat) /\ EndFor(flat[k - 1], flat[k])
  <2>1. PICK i \in 1..n : \E m \in 1..Len(parts[i]) : k = start[i] + m /\ flat[k] = parts[i][m]
    BY <1>3
  <2>2. PICK m \in 1..Len(parts[i]) : k = start[i] + m /\ flat[k] = parts[i][m]
    BY <2>1
  <2>3. start[i] \in Nat /\ Len(parts[i]) \in Nat /\ m \in Nat
    BY <1>1, <1>2
  <2>4. start[i] + (m + 1) = k + 1 /\ start[i] + (m - 1) = k - 1
    BY <2>2, <2>3
  <2>5. /\ flat[k].type = "begin" => m + 1 \in 1..Len(parts[i]) /\ EndFor(parts[i][m], parts[i][m + 1])
        /\ flat[k].type = "end" => m - 1 \in 1..Len(parts[i]) /\ EndFor(parts[i][m - 1], parts[i][m])
    BY <2>2 DEF InPairs, n
  <2>6. ASSUME flat[k].type = "begin"
        PROVE  k + 1 \in 1..Len(flat) /\ EndFor(flat[k], flat[k + 1])
    BY <1>3, <2>2, <2>4, <2>5, <2>6
  <2>7. ASSUME flat[k].type = "end"
        PROVE  k - 1 \in 1..Len(flat) /\ EndFor(flat[k - 1], flat[k])
    BY <1>3, <2>2, <2>4, <2>5, <2>7
  <2> QED BY <2>6, <2>7
<1>5. InPairs(flat)
  BY <1>3, <1>4 DEF InPairs
<1> QED BY <1>5 DEF flat

LEMMA InPairsJoin ==
  ASSUME NEW a, NEW b, InPairs(a), InPairs(b)
  PROVE  InPairs(a \o b)
<1> DEFINE c == a \o b
<1>1. /\ IsSeq(c) /\ Len(a) \in Nat /\ Len(b) \in Nat /\ Len(c) = Len(a) + Len(b)
      /\ \A i \in 1..Len(a) : c[i] = a[i]
      /\ \A i \in 1..Len(b) : c[Len(a) + i] = b[i]
  BY SeqFacts, ConcatFacts DEF InPairs
<1> HIDE DEF c
<1>2. ASSUME NEW k \in 1..Len(c)
      PROVE  /\ c[k].type = "begin" => k + 1 \in 1..Len(c) /\ EndFor(c[k], c[k + 1])
             /\ c[k].type = "end" => k - 1 \in 1..Len(c) /\ EndFor(c[k - 1], c[k])
  <2>1. CASE k \in 1..Len(a)
    <3>1. \A i \in 1..Len(a) : i \in 1..Len(c)
      BY <1>1
    <3>2. /\ a[k].type = "begin" => k + 1 \in 1..Len(a) /\ EndFor(a[k], a[k + 1])
          /\ a[k].type = "end" => k - 1 \in 1..Len(a) /\ EndFor(a[k - 1], a[k])
      BY <2>1 DEF InPairs
    <3> QED BY <1>1, <2>1, <3>1, <3>2
  <2>2. CASE k \notin 1..Len(a)
    <3> DEFINE m == k - Len(a)
    <3>1. m \in 1..Len(b) /\ k = Len(a) + m /\ k + 1 = Len(a) + (m + 1) /\ k - 1 = Len(a) + (m - 1)
      BY <1>1, <2>2
    <3>2. \A i \in 1..Len(b) : Len(a) + i \in 1..Len(c)
      BY <1>1
    <3> HIDE DEF m
    <3>3. /\ b[m].type = "begin" => m + 1 \in 1..Len(b) /\ EndFor(b[m], b[m + 1])
          /\ b[m].type = "end" => m - 1 \in 1..Len(b) /\ EndFor(b[m - 1], b[m])
      BY <3>1 DEF InPairs
    <3> QED BY <1>1, <3>1, <3>2, <3>3
  <2> QED BY <2>1, <2>2
<1>3. InPairs(c)
  BY <1>1, <1>2 DEF InPairs
<1> QED BY <1>3 DEF c

LEMMA NoPairs ==
  ASSUME NEW s, IsSeq(s), \A x \in ToSet(s) : x.type \notin {"begin", "end"}
  PROVE  InPairs(s)
BY SeqFacts DEF InPairs

LEMMA PairIsPair ==
  ASSUME NEW row, NEW name, NEW endName, NEW ts \in Int, NEW stop \in Int, NEW args, ts <= stop,
         endName = IF row = LifetimesRow THEN {name} ELSE {}
  PROVE  LET pair == Pair(row, name, endName, ts, stop, args)
         IN  /\ InPairs(pair) /\ InLine(pair)
             /\ \A x \in ToSet(pair) : x.type = "begin" =>
                  x.row = row /\ x.name = name /\ x.ts = ts /\ x.stop = stop
             /\ \A x \in ToSet(pair) : x.type \in {"begin", "end"}
<1> DEFINE one == [type |-> "begin", row |-> row, name |-> name, ts |-> ts, stop |-> stop, args |-> args]
           two == [type |-> "end", row |-> row, name |-> endName, ts |-> stop]
<1>1. Pair(row, name, endName, ts, stop, args) = <<one, two>>
  BY DEF Pair
<1>2. /\ one.type = "begin" /\ one.row = row /\ one.name = name /\ one.ts = ts /\ one.stop = stop
      /\ two.type = "end" /\ two.row = row /\ two.name = endName /\ two.ts = stop
  OBVIOUS
<1> HIDE DEF one, two
<1>3. /\ IsSeq(<<one, two>>) /\ Len(<<one, two>>) = 2 /\ <<one, two>>[1] = one /\ <<one, two>>[2] = two
      /\ ToSet(<<one, two>>) = {one, two}
  BY DEF IsSeq, ToSet
<1>4. EndFor(one, two)
  BY <1>2 DEF EndFor, Ended
<1> DEFINE pair == <<one, two>>
<1>5. InPairs(pair)
  <2> HIDE DEF pair
  <2>1. \A i \in 1..Len(pair) : i = 1 \/ i = 2
    BY <1>3 DEF pair
  <2>2. pair[1] = one /\ pair[2] = two /\ Len(pair) = 2 /\ IsSeq(pair)
    BY <1>3 DEF pair
  <2> QED BY <1>2, <1>4, <2>1, <2>2 DEF InPairs
<1>6. InLine(pair)
  <2> HIDE DEF pair
  <2>1. \A i, j \in 1..Len(pair) : i < j => j = 2
    BY <1>3 DEF pair
  <2>2. pair[2] = two /\ IsSeq(pair)
    BY <1>3 DEF pair
  <2>3. ~IsBlock(two)
    BY <1>2 DEF IsBlock
  <2> QED BY <2>1, <2>2, <2>3 DEF InLine, Fit
<1> QED BY <1>1, <1>2, <1>3, <1>5, <1>6

(* The slices of one row. *)
RowPlaces(seq, row) == {i \in DOMAIN seq : seq[i].type \in {"begin", "end"} /\ seq[i].row = row}
OnRow(seq, row) == At(seq, RowPlaces(seq, row))

(* A row of the processes has one bar, and the shared row a span of each. *)
OneEach(seq) ==
  \A i, j \in 1..Len(seq) :
    /\ seq[i].type = "begin" /\ seq[j].type = "begin" /\ seq[i].row = seq[j].row
    /\ seq[i].row[1] = "process" \/ (seq[i].row = LifetimesRow /\ seq[i].name = seq[j].name)
    => i = j

LEMMA RowIsRead ==
  ASSUME NEW seq, InPairs(seq), InLine(seq), OneEach(seq), NEW row
  PROVE  OneRow(OnRow(seq, row))
<1> DEFINE n == Len(seq)
           places == RowPlaces(seq, row)
           N == Cardinality(places)
           events == OnRow(seq, row)
<1>1. n \in Nat /\ DOMAIN seq = 1..n /\ places \in SUBSET (1..n)
  BY SeqFacts DEF InPairs, RowPlaces
<1>2. \A i \in places : i \in 1..n /\ seq[i].type \in {"begin", "end"} /\ seq[i].row = row
  BY <1>1 DEF RowPlaces
<1>3. \A i \in 1..n : seq[i].type \in {"begin", "end"} /\ seq[i].row = row => i \in places
  BY <1>1 DEF RowPlaces
<1>4. /\ \A i \in places : seq[i].type = "begin" => i + 1 \in places /\ EndFor(seq[i], seq[i + 1])
      /\ \A i \in places : seq[i].type = "end" => i - 1 \in places /\ EndFor(seq[i - 1], seq[i])
  <2>1. ASSUME NEW i \in places, seq[i].type = "begin"
        PROVE  i + 1 \in places /\ EndFor(seq[i], seq[i + 1])
    <3>1. i + 1 \in 1..n /\ EndFor(seq[i], seq[i + 1])
      BY <1>2, <2>1 DEF InPairs
    <3>2. seq[i + 1].type = "end" /\ seq[i + 1].row = row
      BY <1>2, <3>1 DEF EndFor, Ended
    <3> QED BY <1>3, <3>1, <3>2
  <2>2. ASSUME NEW i \in places, seq[i].type = "end"
        PROVE  i - 1 \in places /\ EndFor(seq[i - 1], seq[i])
    <3>1. i - 1 \in 1..n /\ EndFor(seq[i - 1], seq[i])
      BY <1>2, <2>2 DEF InPairs
    <3>2. seq[i - 1].type = "begin" /\ seq[i - 1].row = row
      BY <1>2, <3>1 DEF EndFor, Ended
    <3> QED BY <1>3, <3>1, <3>2
  <2> QED BY <2>1, <2>2
<1> HIDE DEF places
<1>5. PICK at \in [1..N -> places] :
        /\ N \in Nat
        /\ \A k, m \in 1..N : k < m <=> at[k] < at[m]
        /\ \A i \in places : \E k \in 1..N : at[k] = i
        /\ events = [k \in 1..N |-> seq[at[k]]]
        /\ IsSeq(events) /\ Len(events) = N
  BY <1>1, AtPlaces DEF OnRow, places
<1> HIDE DEF N, n
<1>6. \A k \in 1..N : at[k] \in places /\ at[k] \in 1..n /\ events[k] = seq[at[k]]
  BY <1>2, <1>5
<1> HIDE DEF events
<1>7. ASSUME NEW k \in 1..N, NEW m \in 1..N, at[m] = at[k] + 1
      PROVE  m = k + 1
  <2>1. k < m
    BY <1>1, <1>5, <1>6, <1>7
  <2>2. CASE m # k + 1
    <3>1. k + 1 \in 1..N /\ k < k + 1 /\ k + 1 < m
      BY <1>5, <2>1, <2>2
    <3>2. at[k] < at[k + 1] /\ at[k + 1] < at[m]
      BY <1>5, <3>1
    <3>3. at[k] \in Nat /\ at[k + 1] \in Nat
      BY <1>1, <1>6, <3>1
    <3> QED BY <1>7, <3>2, <3>3
  <2> QED BY <2>2
<1>8. ASSUME NEW k \in 1..N, events[k].type = "begin"
      PROVE  k + 1 \in 1..N /\ EndFor(events[k], events[k + 1]) /\ at[k + 1] = at[k] + 1
  <2>1. at[k] + 1 \in places /\ EndFor(seq[at[k]], seq[at[k] + 1])
    BY <1>4, <1>6, <1>8
  <2>2. PICK m \in 1..N : at[m] = at[k] + 1
    BY <1>5, <2>1
  <2>3. m = k + 1
    BY <1>7, <2>2
  <2> QED BY <1>6, <2>1, <2>2, <2>3
<1>9. ASSUME NEW k \in 1..N, events[k].type = "end"
      PROVE  k - 1 \in 1..N /\ EndFor(events[k - 1], events[k])
  <2>1. at[k] - 1 \in places /\ EndFor(seq[at[k] - 1], seq[at[k]])
    BY <1>4, <1>6, <1>9
  <2>2. PICK m \in 1..N : at[m] = at[k] - 1
    BY <1>5, <2>1
  <2>3. at[k] = at[m] + 1
    BY <1>1, <1>6, <2>2
  <2>4. k = m + 1
    BY <1>7, <2>3
  <2>5. k - 1 = m
    BY <2>4
  <2> QED BY <1>6, <2>1, <2>2, <2>5
<1>10. Paired(events)
  BY <1>5, <1>8, <1>9 DEF Paired, EndFor
<1>11. \A k \in 1..N : events[k].type \in {"begin", "end"} /\ events[k].row = row
  BY <1>2, <1>6
<1>12. ASSUME NEW k \in 1..N, NEW m \in 1..N, k < m, events[k].type = "begin", events[m].type = "begin"
       PROVE  Fits(events[k], events[m])
  <2>1. at[k] < at[m] /\ at[k] \in 1..n /\ at[m] \in 1..n
    BY <1>5, <1>6, <1>12
  <2>2. row[1] # "process"
    <3> SUFFICES ASSUME row[1] = "process" PROVE FALSE
      OBVIOUS
    <3>1. at[k] = at[m]
      BY <1>6, <1>11, <1>12, <2>1 DEF OneEach, n
    <3> QED BY <1>1, <2>1, <3>1
  <2>3. Fit(events[k], events[m])
    BY <1>6, <2>1 DEF InLine, n
  <2> QED BY <1>11, <1>12, <2>2, <2>3 DEF Fit, IsBlock
<1>13. CASE row = LifetimesRow
  <2>1. ASSUME NEW k \in 1..N, NEW m \in 1..N, events[k].type = "begin", events[m].type = "begin",
               events[k].name = events[m].name
        PROVE  k = m
    <3>1. at[k] = at[m]
      BY <1>6, <1>11, <1>13, <2>1 DEF OneEach, n
    <3>2. ~(k < m) /\ ~(m < k)
      BY <1>1, <1>5, <1>6, <3>1
    <3> QED BY <1>5, <3>2
  <2>2. Named(events)
    BY <1>5, <1>9, <1>11, <1>13, <2>1 DEF Named, EndFor
  <2>3. OneRow(events)
    BY <1>5, <1>10, <1>11, <1>12, <2>2 DEF OneRow
  <2> QED BY <2>3 DEF events
<1>14. CASE row # LifetimesRow
  <2>1. ASSUME NEW k \in 1..N, events[k].type = "end" PROVE events[k].name = {}
    <3>1. k - 1 \in 1..N /\ EndFor(events[k - 1], events[k])
      BY <1>9, <2>1
    <3>2. events[k - 1].row # LifetimesRow
      BY <1>11, <1>14, <3>1
    <3> QED BY <3>1, <3>2 DEF EndFor
  <2>2. Unnamed(events)
    BY <1>5, <2>1 DEF Unnamed
  <2>3. OneRow(events)
    BY <1>5, <1>10, <1>11, <1>12, <2>2 DEF OneRow
  <2> QED BY <2>3 DEF events
<1> QED BY <1>13, <1>14 DEF events

LEMMA FileReadsBack ==
  ASSUME InPairs(file), InLine(file), OneEach(file)
  PROVE  SlicesReadBack
<1> SUFFICES ASSUME NEW row,
                    NEW i \in {j \in DOMAIN OnRow(file, row) : OnRow(file, row)[j].type = "begin"}
             PROVE  i \in DOMAIN Stops(OnRow(file, row))
                    /\ Stops(OnRow(file, row))[i] = OnRow(file, row)[i].stop
  BY DEF SlicesReadBack, OnRow, RowPlaces
<1> DEFINE events == OnRow(file, row)
<1>1. OneRow(events)
  BY RowIsRead
<1> HIDE DEF events
<1>2. DOMAIN events = 1..Len(events)
  BY <1>1, SeqFacts DEF OneRow, Paired
<1>3. i \in 1..Len(events) /\ events[i].type = "begin"
  BY <1>2 DEF events
<1>4. i \in DOMAIN Stops(events) /\ Stops(events)[i] = events[i].stop
  BY <1>1, <1>3, RowReadsBack
<1> QED BY <1>4 DEF events

-----------------------------------------------------------------------------
(* The slices of a batch are those of its events, in their order. *)

Aside(s) == IsSeq(s) /\ \A x \in ToSet(s) : ~IsBlock(x)

LEMMA AsideInLine ==
  ASSUME NEW s, Aside(s)
  PROVE  InLine(s) /\ \A other : AheadOf(s, other) /\ AheadOf(other, s)
BY SeqFacts DEF Aside, InLine, AheadOf, Fit

LEMMA AsideJoin ==
  ASSUME NEW a, NEW b, Aside(a), Aside(b)
  PROVE  Aside(a \o b)
BY ConcatFacts DEF Aside

LEMMA DescriptorsAside ==
  ASSUME NEW rows, IsSeq(rows), NEW pids, NEW given, NEW known
  PROVE  /\ Aside(Descriptors(rows, pids, given, known))
         /\ InPairs(Descriptors(rows, pids, given, known))
<1> DEFINE s == Descriptors(rows, pids, given, known)
<1>1. Len(rows) \in Nat /\ DOMAIN rows = 1..Len(rows)
  BY SeqFacts
<1>2. /\ DOMAIN s = 1..Len(rows) /\ s = [i \in 1..Len(rows) |-> s[i]]
      /\ \A i \in 1..Len(rows) : s[i].type = "descriptor"
  BY <1>1 DEF Descriptors, Descriptor
<1> HIDE DEF s
<1>3. IsSeq(s) /\ Len(s) = Len(rows)
  BY <1>1, <1>2, MadeSeq
<1>4. \A x \in ToSet(s) : x.type = "descriptor"
  BY <1>2 DEF ToSet
<1>5. Aside(s) /\ InPairs(s)
  BY <1>3, <1>4, NoPairs DEF Aside, IsBlock
<1> QED BY <1>5 DEF s

(* The slices of s are among those of the events. *)
Alike(x, e) == IsBlock(e) /\ e.row = x.row /\ e.ts = x.ts /\ e.stop = x.stop
Mirrors(s, events) ==
  IsSeq(s) /\ \A x \in ToSet(s) : IsBlock(x) => \E e \in ToSet(events) : Alike(x, e)

(* A slice among the events ends where it starts or later. *)
SlicesLast(events) == \A e \in ToSet(events) : e.type = "slice" => e.ts <= e.stop

LEMMA EventPaired ==
  ASSUME NEW event, EventOK(event), event.type = "slice" => event.ts <= event.stop
  PROVE  /\ InPairs(PacketsOf(event)) /\ InLine(PacketsOf(event))
         /\ \A x \in ToSet(PacketsOf(event)) : IsBlock(x) => Alike(x, event)
<1>1. CASE event.type = "slice"
  <2> DEFINE args == [lost |-> event.lost, pause |-> event.pause]
             pair == Pair(event.row, event.name, {}, event.ts, event.stop, args)
  <2>1. /\ event.ts \in Int /\ event.stop \in Int /\ event.ts <= event.stop
        /\ event.row[1] \in {"thread", "loss"} /\ event.row # LifetimesRow
    <3>1. LifetimesRow[1] = "Processes"
      BY DEF LifetimesRow
    <3> QED BY <1>1, <3>1 DEF EventOK
  <2>2. PacketsOf(event) = pair
    BY <1>1 DEF PacketsOf
  <2> HIDE DEF args
  <2>3. /\ InPairs(pair) /\ InLine(pair)
        /\ \A x \in ToSet(pair) : x.type = "begin" =>
             x.row = event.row /\ x.ts = event.ts /\ x.stop = event.stop
        /\ \A x \in ToSet(pair) : x.type \in {"begin", "end"}
    BY <2>1, PairIsPair
  <2> HIDE DEF pair
  <2> QED BY <1>1, <2>1, <2>2, <2>3 DEF IsBlock, Alike
<1>2. ASSUME NEW packet, packet.type \notin {"begin", "end", "slice"}
      PROVE  InPairs(<<packet>>) /\ Aside(<<packet>>)
  <2>1. IsSeq(<<packet>>) /\ ToSet(<<packet>>) = {packet}
    BY OneIsSeq
  <2> QED BY <1>2, <2>1, NoPairs DEF Aside, IsBlock
<1>3. ASSUME NEW packet, packet.type \notin {"begin", "end", "slice"}, PacketsOf(event) = <<packet>>
      PROVE  /\ InPairs(PacketsOf(event)) /\ InLine(PacketsOf(event))
             /\ \A x \in ToSet(PacketsOf(event)) : IsBlock(x) => Alike(x, event)
  <2>1. InPairs(<<packet>>) /\ Aside(<<packet>>)
    BY <1>2, <1>3
  <2> QED BY <1>3, <2>1, AsideInLine DEF Aside
<1>4. CASE event.type = "instant"
  BY <1>3, <1>4 DEF PacketsOf
<1>5. CASE event.type = "counter"
  <2> DEFINE packet == [type |-> "value", row |-> CounterRow(event.row, event.display), ts |-> event.ts]
  <2>1. PacketsOf(event) = <<packet>> /\ packet.type = "value"
    BY <1>5 DEF PacketsOf
  <2> HIDE DEF packet
  <2> QED BY <1>3, <2>1
<1> QED BY <1>1, <1>4, <1>5 DEF EventOK

LEMMA EventsPaired ==
  ASSUME NEW events, EventsOK(events), SlicesLast(events), InLine(events)
  PROVE  /\ InPairs(EventPackets(events)) /\ InLine(EventPackets(events))
         /\ Mirrors(EventPackets(events), events)
<1> DEFINE n == Len(events)
           parts == [i \in DOMAIN events |-> PacketsOf(events[i])]
<1>1. /\ n \in Nat /\ DOMAIN events = 1..n
      /\ \A i \in 1..n : EventOK(events[i]) /\ events[i] \in ToSet(events)
  BY SeqFacts DEF EventsOK
<1>2. DOMAIN parts = 1..n /\ parts = [i \in 1..n |-> parts[i]] /\ \A i \in 1..n : parts[i] = PacketsOf(events[i])
  BY <1>1
<1>3. EventPackets(events) = FlattenSeq(parts)
  BY DEF EventPackets
<1> HIDE DEF parts, n
<1>4. IsSeq(parts) /\ Len(parts) = n
  BY <1>1, <1>2, MadeSeq
<1>5. ASSUME NEW i \in 1..n
      PROVE  /\ InPairs(parts[i]) /\ InLine(parts[i])
             /\ \A x \in ToSet(parts[i]) : IsBlock(x) => Alike(x, events[i])
  <2> DEFINE event == events[i]
  <2>1. EventOK(event) /\ (event.type = "slice" => event.ts <= event.stop) /\ parts[i] = PacketsOf(event)
    BY <1>1, <1>2 DEF SlicesLast
  <2> HIDE DEF event
  <2>2. /\ InPairs(PacketsOf(event)) /\ InLine(PacketsOf(event))
        /\ \A x \in ToSet(PacketsOf(event)) : IsBlock(x) => Alike(x, event)
    BY ONLY <2>1, EventPaired
  <2> QED BY <2>1, <2>2 DEF event
<1>6. ASSUME NEW i \in 1..n, NEW j \in 1..n, i < j PROVE AheadOf(parts[i], parts[j])
  <2> SUFFICES ASSUME NEW x \in ToSet(parts[i]), NEW y \in ToSet(parts[j]), IsBlock(x), IsBlock(y), x.row = y.row
               PROVE  Fits(x, y)
    BY DEF AheadOf, Fit
  <2>1. Alike(x, events[i]) /\ Alike(y, events[j])
    BY <1>5
  <2>2. Fit(events[i], events[j])
    BY <1>6 DEF InLine, n
  <2> QED BY <2>1, <2>2 DEF Alike, Fit, Fits
<1>7. InPairs(FlattenSeq(parts)) /\ InLine(FlattenSeq(parts))
  BY <1>4, <1>5, <1>6, InPairsFlatten, InLineFlatten
<1>8. Mirrors(FlattenSeq(parts), events)
  <2>1. \A i \in 1..Len(parts) : IsSeq(parts[i])
    BY <1>4, <1>5 DEF InPairs
  <2>2. /\ IsSeq(FlattenSeq(parts))
        /\ \A x : x \in ToSet(FlattenSeq(parts)) <=> \E i \in 1..n : x \in ToSet(parts[i])
    BY <1>4, <2>1, FlattenElements
  <2> QED BY <1>1, <1>5, <2>2 DEF Mirrors
<1> QED BY <1>3, <1>7, <1>8

LEMMA BarPaired ==
  ASSUME NEW p, NEW known, p \in DOMAIN known, SpansOK(known), SpansLast(known), NEW sums, NEW done
  PROVE  InPairs(Bar(p, known, sums, done)) /\ Aside(Bar(p, known, sums, done))
<1> DEFINE args == [interpreters |-> Cardinality({row \in done : row[1] = "thread" /\ row[2] = p}),
                    totals |-> sums[p]]
           row == ProcessRow(p)
           start == known[p].start
           stop == known[p].stop
           bar == Pair(row, "Lifetime", {}, start, stop, args)
<1>1. start \in Int /\ stop \in Int /\ start <= stop
  <2>1. known[p] \in [start : Int, stop : Int]
    BY DEF SpansOK
  <2> QED BY <2>1 DEF SpansLast
<1>2. row # LifetimesRow /\ row[1] = "process"
  BY ProcessRowIs
<1>3. Bar(p, known, sums, done) = bar
  BY DEF Bar
<1> HIDE DEF args, row, start, stop
<1>4. /\ InPairs(bar)
      /\ \A x \in ToSet(bar) : x.type = "begin" => x.row = row
      /\ \A x \in ToSet(bar) : x.type \in {"begin", "end"}
  BY <1>1, <1>2, PairIsPair
<1> HIDE DEF bar
<1>5. Aside(bar)
  BY <1>2, <1>4 DEF Aside, IsBlock, InPairs
<1> QED BY <1>3, <1>4, <1>5

LEMMA LeftPaired ==
  ASSUME IsSeq(retired), NEW events, SpansOK(Known(events)), SpansLast(Known(events))
  PROVE  InPairs(LeftPackets(events)) /\ Aside(LeftPackets(events))
<1> DEFINE left == Left(events)
           n == Len(left)
           known == Known(events)
           own(p) == OwnRow(events, p)
           bar(p) == OwnBar(events, p)
           parts == [i \in DOMAIN left |-> own(left[i]) \o bar(left[i])]
<1>1. IsSeq(left) /\ ToSet(left) \subseteq DOMAIN known
  BY LeftIs
<1>2. n \in Nat /\ DOMAIN left = 1..n /\ \A i \in 1..n : left[i] \in DOMAIN known
  BY <1>1, SeqFacts
<1>3. ASSUME NEW p \in DOMAIN known
      PROVE  InPairs(own(p) \o bar(p)) /\ Aside(own(p) \o bar(p))
  <2>1. InPairs(bar(p)) /\ Aside(bar(p))
    BY <1>3, BarPaired DEF OwnBar
  <2>2. InPairs(own(p)) /\ Aside(own(p))
    <3> DEFINE drawn1 == Descriptors(<<ProcessRow(p)>>, Pids(events), After(events), Known(events))
    <3>1. InPairs(drawn1) /\ Aside(drawn1)
      BY OneIsSeq, DescriptorsAside
    <3>2. InPairs(<<>>) /\ Aside(<<>>)
      BY EmptyIsSeq, NoPairs DEF Aside
    <3>3. own(p) = IF ProcessRow(p) \in ToSet(Leaving(events)) THEN drawn1 ELSE <<>>
      BY DEF OwnRow
    <3> HIDE DEF drawn1, own
    <3> QED BY <3>1, <3>2, <3>3
  <2> HIDE DEF own, bar
  <2> QED BY <2>1, <2>2, InPairsJoin, AsideJoin
<1>4. LeftPackets(events) = FlattenSeq(parts)
  BY DEF LeftPackets
<1>5. /\ DOMAIN parts = 1..n /\ parts = [i \in 1..n |-> parts[i]]
      /\ \A i \in 1..n : parts[i] = own(left[i]) \o bar(left[i])
  BY <1>2
<1> HIDE DEF parts, n, own, bar, left
<1>6. IsSeq(parts) /\ Len(parts) = n
  BY <1>2, <1>5, MadeSeq
<1>7. \A i \in 1..Len(parts) : InPairs(parts[i]) /\ Aside(parts[i])
  BY <1>2, <1>3, <1>5, <1>6
<1>8. InPairs(FlattenSeq(parts))
  BY <1>6, <1>7, InPairsFlatten
<1>9. Aside(FlattenSeq(parts))
  <2>1. /\ IsSeq(FlattenSeq(parts))
        /\ \A x : x \in ToSet(FlattenSeq(parts)) <=> \E i \in 1..Len(parts) : x \in ToSet(parts[i])
    BY <1>6, <1>7, FlattenElements DEF Aside
  <2> QED BY <1>7, <2>1 DEF Aside
<1> QED BY <1>4, <1>8, <1>9

LEMMA BatchPaired ==
  ASSUME IsSeq(retired), NEW events, EventsOK(events), SlicesLast(events), InLine(events),
         SpansOK(Known(events)), SpansLast(Known(events))
  PROVE  LET packets == WriteEvents(events).packets
         IN  InPairs(packets) /\ InLine(packets) /\ Mirrors(packets, events)
<1> DEFINE R == RowPackets(events)
           E == EventPackets(events)
           L == LeftPackets(events)
<1>1. Aside(R) /\ InPairs(R)
  BY NewRowsAre, DescriptorsAside DEF RowPackets
<1>2. InPairs(E) /\ InLine(E) /\ Mirrors(E, events)
  BY EventsPaired
<1>3. InPairs(L) /\ Aside(L)
  BY LeftPaired
<1>4. WriteEvents(events).packets = (R \o E) \o L
  BY BatchIs
<1> HIDE DEF R, E, L
<1>5. InPairs(R \o E) /\ InLine(R \o E)
  BY <1>1, <1>2, InPairsJoin, InLineJoin, AsideInLine
<1>6. InPairs((R \o E) \o L) /\ InLine((R \o E) \o L)
  BY <1>3, <1>5, InPairsJoin, InLineJoin, AsideInLine
<1>7. Mirrors((R \o E) \o L, events)
  <2>1. IsSeq(R \o E) /\ ToSet(R \o E) = ToSet(R) \cup ToSet(E)
    BY <1>1, <1>2, ConcatFacts DEF Aside, InPairs
  <2>2. IsSeq((R \o E) \o L) /\ ToSet((R \o E) \o L) = ToSet(R \o E) \cup ToSet(L)
    BY <1>3, <2>1, ConcatFacts DEF Aside
  <2> QED BY <1>1, <1>2, <1>3, <2>1, <2>2 DEF Aside, Mirrors
<1> QED BY <1>4, <1>6, <1>7

-----------------------------------------------------------------------------
(* The closeout adds spans alone, each behind those that contain it. *)

LEMMA SpansFollow ==
  ASSUME NEW known, SpansOK(known), SpansLast(known)
  PROVE  /\ \A p \in DOMAIN known : /\ known[p].start \in Int /\ Clipped(known)[p] \in Int
                                    /\ known[p].start <= Clipped(known)[p]
         /\ \A p, q \in DOMAIN known : SweptBefore(known, p, q) =>
              \/ Clipped(known)[p] < known[q].start
              \/ known[p].start <= known[q].start /\ Clipped(known)[q] <= Clipped(known)[p]
<1> DEFINE ends == Clipped(known)
<1>1. PICK h : SweepOf(known, h) /\ ends = h[Len(SweepOrder(known))].ends
  BY ClippedIs
<1> DEFINE sweep == h[Len(SweepOrder(known))]
<1>2. SweepInv(known, DOMAIN known, sweep) /\ ends = sweep.ends
  BY <1>1, SweepHolds
<1> HIDE DEF ends, sweep
<1>3. /\ \A p \in DOMAIN known : DrawnTo(known, DOMAIN known, p, ends[p])
      /\ \A p, q \in DOMAIN known : SweptBefore(known, p, q) => ends[p] < known[q].start \/ ends[q] <= ends[p]
  BY <1>2 DEF SweepInv
<1>4. \A p \in DOMAIN known : /\ known[p] \in [start : Int, stop : Int]
                              /\ known[p].start \in Int /\ known[p].stop \in Int
  BY DEF SpansOK
<1>5. \A p, q \in DOMAIN known : SweptBefore(known, p, q) => known[p].start <= known[q].start
  BY <1>4 DEF SweptBefore
<1> QED BY <1>3, <1>4, <1>5 DEF DrawnTo, ends

LEMMA OwedPaired ==
  ASSUME NEW s, SpansOK(s.spans), SpansLast(s.spans), NEW p \in DOMAIN s.spans
  PROVE  /\ InPairs(OwedTo(s, p)) /\ InLine(OwedTo(s, p))
         /\ \A x \in ToSet(OwedTo(s, p)) : IsBlock(x) =>
              x.row = LifetimesRow /\ x.ts = s.spans[p].start /\ x.stop = Clipped(s.spans)[p]
<1> DEFINE known == s.spans
           start == known[p].start
           stop == Clipped(known)[p]
           args == [real_start |-> start, real_stop |-> known[p].stop, clipped |-> stop # known[p].stop]
           slice == Pair(LifetimesRow, p, {p}, start, stop, args)
           bar == Bar(p, s.spans, s.totals, FinalDone(s))
           more == IF p \in s.drawn THEN <<>> ELSE bar
<1>1. start \in Int /\ stop \in Int /\ start <= stop
  BY SpansFollow
<1>2. InPairs(bar) /\ Aside(bar)
  BY BarPaired
<1>3. InPairs(<<>>) /\ Aside(<<>>)
  BY EmptyIsSeq, NoPairs DEF Aside
<1>4. OwedTo(s, p) = slice \o more
  BY DEF OwedTo, Owed, LifetimeSlice
<1> HIDE DEF args, start, stop, bar
<1>5. InPairs(more) /\ Aside(more)
  BY <1>2, <1>3
<1>6. /\ InPairs(slice) /\ InLine(slice)
      /\ \A x \in ToSet(slice) : x.type = "begin" => x.row = LifetimesRow /\ x.ts = start /\ x.stop = stop
      /\ \A x \in ToSet(slice) : x.type \in {"begin", "end"}
  BY <1>1, PairIsPair
<1> HIDE DEF slice, more
<1>7. InPairs(slice \o more) /\ InLine(slice \o more)
  BY <1>5, <1>6, InPairsJoin, InLineJoin, AsideInLine
<1>8. ToSet(slice \o more) = ToSet(slice) \cup ToSet(more)
  BY <1>5, <1>6, ConcatFacts DEF InPairs
<1>9. \A x \in ToSet(slice \o more) : IsBlock(x) =>
        x.row = LifetimesRow /\ x.ts = start /\ x.stop = stop
  BY <1>5, <1>6, <1>8 DEF Aside, IsBlock
<1> QED BY <1>4, <1>7, <1>9 DEF start, stop

LEMMA CloseoutPaired ==
  ASSUME NEW s, SpansOK(s.spans), SpansLast(s.spans), InPairs(s.packets), InLine(s.packets),
         \A x \in ToSet(s.packets) : IsBlock(x) => x.row # LifetimesRow
  PROVE  LET packets == Finalize(s).packets
         IN  /\ InPairs(packets) /\ InLine(packets)
             /\ \A x \in ToSet(packets) : IsBlock(x) => x \in ToSet(s.packets) \/ x.row = LifetimesRow
<1> DEFINE known == s.spans
           order == SweepOrder(known)
           n == Len(order)
           parts == [i \in DOMAIN order |-> OwedTo(s, order[i])]
           F == FinalRowPackets(s)
           S == SharedRowPackets(s)
           O == OwedPackets(s)
           P == s.packets
<1>1. Aside(F) /\ InPairs(F) /\ Aside(S) /\ InPairs(S)
  BY OneIsSeq, FinalRowsAre, DescriptorsAside DEF FinalRowPackets, SharedRowPackets
<1>2. /\ IsSeq(order) /\ ToSet(order) = DOMAIN known /\ n \in Nat /\ DOMAIN order = 1..n
      /\ \A i \in 1..n : order[i] \in DOMAIN known
      /\ \A i, j \in 1..n : i < j => SweptBefore(known, order[i], order[j])
  BY SweepTakesAll, SeqFacts
<1>3. O = FlattenSeq(parts)
  BY DEF OwedPackets
<1>4. /\ DOMAIN parts = 1..n /\ parts = [i \in 1..n |-> parts[i]]
      /\ \A i \in 1..n : parts[i] = OwedTo(s, order[i])
  BY <1>2
<1> HIDE DEF parts, n, order
<1>5. IsSeq(parts) /\ Len(parts) = n
  BY <1>2, <1>4, MadeSeq
<1>6. ASSUME NEW i \in 1..n
      PROVE  /\ InPairs(parts[i]) /\ InLine(parts[i])
             /\ \A x \in ToSet(parts[i]) : IsBlock(x) =>
                  /\ x.row = LifetimesRow
                  /\ x.ts = known[order[i]].start /\ x.stop = Clipped(known)[order[i]]
  BY <1>2, <1>4, OwedPaired
<1>7. ASSUME NEW i \in 1..n, NEW j \in 1..n, i < j PROVE AheadOf(parts[i], parts[j])
  <2> SUFFICES ASSUME NEW x \in ToSet(parts[i]), NEW y \in ToSet(parts[j]), IsBlock(x), IsBlock(y)
               PROVE  Fits(x, y)
    BY DEF AheadOf, Fit
  <2> DEFINE p == order[i]
             q == order[j]
  <2>1. /\ x.ts = known[p].start /\ x.stop = Clipped(known)[p]
        /\ y.ts = known[q].start /\ y.stop = Clipped(known)[q]
    BY <1>6
  <2>2. p \in DOMAIN known /\ q \in DOMAIN known /\ SweptBefore(known, p, q)
    BY <1>2, <1>7
  <2> HIDE DEF p, q
  <2>3. /\ Clipped(known)[p] \in Int /\ known[q].start \in Int
        /\ \/ Clipped(known)[p] < known[q].start
           \/ known[p].start <= known[q].start /\ Clipped(known)[q] <= Clipped(known)[p]
    BY <2>2, SpansFollow
  <2> QED BY <2>1, <2>3 DEF Fits
<1>8. InPairs(O) /\ InLine(O)
  BY <1>3, <1>5, <1>6, <1>7, InPairsFlatten, InLineFlatten
<1>9. \A x \in ToSet(O) : IsBlock(x) => x.row = LifetimesRow
  <2>1. \A x : x \in ToSet(FlattenSeq(parts)) <=> \E i \in 1..n : x \in ToSet(parts[i])
    BY <1>5, <1>6, FlattenElements DEF InPairs
  <2> QED BY <1>3, <1>6, <2>1
<1>10. \A x \in ToSet(P) : IsBlock(x) => x.row # LifetimesRow
  OBVIOUS
<1>11. Finalize(s).packets = ((P \o F) \o S) \o O
  BY CloseoutIs
<1>12. InPairs(P) /\ InLine(P)
  OBVIOUS
<1> HIDE DEF P, F, S, O
<1> DEFINE D == (P \o F) \o S
<1>13. InPairs(P \o F) /\ InLine(P \o F) /\ ToSet(P \o F) = ToSet(P) \cup ToSet(F)
  BY <1>1, <1>12, InPairsJoin, InLineJoin, AsideInLine, ConcatFacts DEF InPairs
<1>14. InPairs(D) /\ InLine(D) /\ ToSet(D) = ToSet(P) \cup ToSet(F) \cup ToSet(S)
  BY <1>1, <1>13, InPairsJoin, InLineJoin, AsideInLine, ConcatFacts DEF InPairs
<1> HIDE DEF D
<1>15. \A x \in ToSet(D) : IsBlock(x) => x \in ToSet(P)
  BY <1>1, <1>14 DEF Aside
<1>16. AheadOf(D, O)
  <2> SUFFICES ASSUME NEW x \in ToSet(D), NEW y \in ToSet(O), IsBlock(x), IsBlock(y), x.row = y.row
               PROVE  FALSE
    BY DEF AheadOf, Fit
  <2> QED BY <1>9, <1>10, <1>15
<1>17. InPairs(D \o O) /\ InLine(D \o O) /\ ToSet(D \o O) = ToSet(D) \cup ToSet(O)
  BY <1>8, <1>14, <1>16, InPairsJoin, InLineJoin, ConcatFacts DEF InPairs
<1>18. \A x \in ToSet(D \o O) : IsBlock(x) => x \in ToSet(P) \/ x.row = LifetimesRow
  BY <1>9, <1>15, <1>17
<1> QED BY <1>11, <1>17, <1>18 DEF D, P

-----------------------------------------------------------------------------
(* The slices of an item: on its row, within it, phase after phase inside the pause. *)

ItemRow(p, item) == IF item.kind = "gc" THEN ThreadRow(p, item.iid) ELSE LossRow(p, item.iid)

(* A slice of the item. *)
InItem(x, p, item) ==
  /\ item.kind # "instant" /\ x.row = ItemRow(p, item) /\ x.row[1] \in {"thread", "loss"} /\ x.row[2] = p
  /\ x.ts \in Int /\ x.stop \in Int /\ item.ts <= x.ts /\ x.ts <= x.stop /\ x.stop <= item.stop
  /\ item.kind = "loss" => x.ts = item.ts /\ x.stop = item.stop

Blocks(events, p, item) == \A x \in ToSet(events) : IsBlock(x) => InItem(x, p, item)

LEMMA ItemRowIs ==
  ASSUME NEW p, NEW item
  PROVE  ItemRow(p, item)[1] \in {"thread", "loss"} /\ ItemRow(p, item)[2] = p
BY DEF ItemRow, ThreadRow, LossRow

LEMMA PhasesInLine ==
  ASSUME NEW p, NEW item \in Collections \cup Losses \cup Captured, item.kind = "gc"
  PROVE  InLine(PhaseSlices(p, item)) /\ Blocks(PhaseSlices(p, item), p, item)
<1> DEFINE row == ThreadRow(p, item.iid)
           places == {i \in DOMAIN PhaseOrder : Ran(item, PhaseOrder[i])}
           ran == At(PhaseOrder, places)
           N == Cardinality(places)
           s == PhaseSlices(p, item)
<1>1. DOMAIN PhaseOrder = 1..8
  BY DEF PhaseOrder
<1>2. places \in SUBSET (1..8) /\ 8 \in Nat /\ \A i \in places : Ran(item, PhaseOrder[i])
  BY <1>1
<1>3. /\ item.ts \in Int /\ item.stop \in Int
      /\ \A phase \in DOMAIN item.upto :
           /\ PhaseStart(item, phase) \in Int /\ item.upto[phase] \in Int
           /\ item.ts <= PhaseStart(item, phase) /\ item.upto[phase] <= item.stop
      /\ \A i, j \in places : i < j => item.upto[PhaseOrder[i]] <= PhaseStart(item, PhaseOrder[j])
  BY ItemsAssumption
<1> HIDE DEF places
<1>4. PICK at \in [1..N -> places] :
        /\ N \in Nat
        /\ \A k, m \in 1..N : k < m <=> at[k] < at[m]
        /\ \A i \in places : \E k \in 1..N : at[k] = i
        /\ ran = [k \in 1..N |-> PhaseOrder[at[k]]]
        /\ IsSeq(ran) /\ Len(ran) = N
  BY <1>2, AtPlaces
<1> HIDE DEF N
<1>5. DOMAIN ran = 1..N
  BY <1>4
<1>6. s = [k \in 1..N |-> Slice(row, ran[k], PhaseStart(item, ran[k]), item.upto[ran[k]], 0, 0)]
  BY <1>5 DEF PhaseSlices, places
<1> HIDE DEF ran
<1>7. ASSUME NEW k \in 1..N
      PROVE  /\ ran[k] \in DOMAIN item.upto
             /\ s[k].type = "slice" /\ s[k].row = row
             /\ s[k].ts = PhaseStart(item, ran[k]) /\ s[k].stop = item.upto[ran[k]]
             /\ s[k].ts \in Int /\ s[k].stop \in Int /\ s[k].ts <= s[k].stop
             /\ item.ts <= s[k].ts /\ s[k].stop <= item.stop
  <2>1. ran[k] = PhaseOrder[at[k]] /\ at[k] \in places
    BY <1>4
  <2>2. Ran(item, ran[k])
    BY <1>2, <2>1
  <2>3. ran[k] \in DOMAIN item.upto /\ item.upto[ran[k]] - PhaseStart(item, ran[k]) > 0
    BY <2>2 DEF Ran
  <2>4. s[k] = Slice(row, ran[k], PhaseStart(item, ran[k]), item.upto[ran[k]], 0, 0)
    BY <1>6
  <2> HIDE DEF s, row
  <2>5. /\ s[k].type = "slice" /\ s[k].row = row
        /\ s[k].ts = PhaseStart(item, ran[k]) /\ s[k].stop = item.upto[ran[k]]
    BY <2>4 DEF Slice
  <2> QED BY <1>3, <2>3, <2>5
<1>8. DOMAIN s = 1..N /\ s = [k \in 1..N |-> s[k]]
  BY <1>6
<1> HIDE DEF s
<1>9. IsSeq(s) /\ Len(s) = N
  BY <1>4, <1>8, MadeSeq
<1>10. ASSUME NEW k \in 1..N, NEW m \in 1..N, k < m PROVE Fit(s[k], s[m])
  <2>1. at[k] < at[m] /\ at[k] \in places /\ at[m] \in places
        /\ ran[k] = PhaseOrder[at[k]] /\ ran[m] = PhaseOrder[at[m]]
    BY <1>4, <1>10
  <2>2. s[k].stop <= s[m].ts
    BY <1>3, <1>7, <2>1
  <2> QED BY <2>2 DEF Fit, Fits
<1>11. InLine(s)
  BY <1>9, <1>10 DEF InLine
<1>12. row = ItemRow(p, item)
  BY DEF ItemRow
<1>13. Blocks(s, p, item)
  <2> HIDE DEF row
  <2> SUFFICES ASSUME NEW x \in ToSet(s) PROVE InItem(x, p, item)
    BY DEF Blocks
  <2>1. PICK k \in 1..N : x = s[k]
    BY <1>8 DEF ToSet
  <2> QED BY <1>7, <1>12, <2>1, ItemRowIs DEF InItem
<1> QED BY <1>11, <1>13 DEF s

LEMMA ConvertInLine ==
  ASSUME NEW p, NEW item \in Collections \cup Losses \cup Captured
  PROVE  InLine(Convert(p, item)) /\ Blocks(Convert(p, item), p, item)
<1>1. ASSUME NEW event PROVE InLine(<<event>>) /\ ToSet(<<event>>) = {event}
  <2>1. IsSeq(<<event>>) /\ ToSet(<<event>>) = {event} /\ Len(<<event>>) = 1
    BY OneIsSeq
  <2>2. \A i, j \in 1..1 : ~(i < j)
    OBVIOUS
  <2> QED BY <2>1, <2>2 DEF InLine
<1>2. item.ts \in Int /\ (item.kind # "instant" => item.stop \in Int /\ item.ts <= item.stop)
      /\ item.kind \in {"gc", "loss", "instant"}
  BY ItemsAssumption
<1>3. CASE item.kind = "gc"
  <2> DEFINE pause == PauseSlice(p, item)
             a == <<pause>>
             b == PhaseSlices(p, item)
             c == Counters(p, item)
  <2>1. InLine(b) /\ Blocks(b, p, item)
    BY <1>3, PhasesInLine
  <2>2. pause.type = "slice" /\ pause.row = ItemRow(p, item) /\ pause.ts = item.ts /\ pause.stop = item.stop
    BY <1>3 DEF PauseSlice, Slice, ItemRow
  <2>3. InLine(a) /\ ToSet(a) = {pause}
    BY <1>1
  <2>4. Aside(c)
    <3> DEFINE row == ThreadRow(p, item.iid)
               one == Counter(row, <<"collected", item.gen>>, item.ts)
               two == Counter(row, <<"heap_size", item.iid>>, item.ts)
    <3>1. c = <<one, two>>
      BY DEF Counters
    <3>2. ~IsBlock(one) /\ ~IsBlock(two)
      BY DEF Counter, IsBlock
    <3> HIDE DEF one, two
    <3>3. IsSeq(<<one, two>>) /\ ToSet(<<one, two>>) = {one, two}
      BY DEF IsSeq, ToSet
    <3> QED BY <3>1, <3>2, <3>3 DEF Aside
  <2>5. Convert(p, item) = (a \o b) \o c
    BY <1>3 DEF Convert, ConvertItem
  <2> HIDE DEF a, b, c, pause
  <2>6. AheadOf(a, b)
    <3> SUFFICES ASSUME NEW y \in ToSet(b), IsBlock(y) PROVE Fits(pause, y)
      BY <2>3 DEF AheadOf, Fit
    <3> QED BY <2>1, <2>2 DEF Blocks, InItem, Fits
  <2>7. InLine(a \o b) /\ ToSet(a \o b) = ToSet(a) \cup ToSet(b)
    BY <2>1, <2>3, <2>6, InLineJoin, ConcatFacts DEF InLine
  <2>8. InLine((a \o b) \o c) /\ ToSet((a \o b) \o c) = ToSet(a) \cup ToSet(b) \cup ToSet(c)
    BY <2>4, <2>7, AsideInLine, InLineJoin, ConcatFacts DEF InLine
  <2>9. InItem(pause, p, item)
    BY <1>2, <1>3, <2>2, ItemRowIs DEF InItem
  <2>10. Blocks((a \o b) \o c, p, item)
    BY <2>1, <2>3, <2>4, <2>8, <2>9 DEF Blocks, Aside
  <2> QED BY <2>5, <2>8, <2>10
<1>4. CASE item.kind = "loss"
  <2> DEFINE one == Slice(LossRow(p, item.iid), "GC Loss", item.ts, item.stop,
                          Total(item, "lost"), Total(item, "pause"))
  <2>1. Convert(p, item) = <<one>>
    BY <1>4 DEF Convert, ConvertLoss
  <2>2. one.row = ItemRow(p, item) /\ one.ts = item.ts /\ one.stop = item.stop
    BY <1>4 DEF Slice, ItemRow
  <2> HIDE DEF one
  <2>3. InItem(one, p, item)
    BY <1>2, <1>4, <2>2, ItemRowIs DEF InItem
  <2> QED BY <1>1, <2>1, <2>3 DEF Blocks
<1>5. CASE item.kind = "instant"
  <2> DEFINE one == Instant(p, item.ts)
  <2>1. Convert(p, item) = <<one>>
    BY <1>5 DEF Convert
  <2>2. ~IsBlock(one)
    BY DEF Instant, IsBlock
  <2> HIDE DEF one
  <2> QED BY <1>1, <2>1, <2>2 DEF Blocks
<1> QED BY <1>2, <1>3, <1>4, <1>5

-----------------------------------------------------------------------------
(* The slices of a capture: pid after pid, each in its own time. *)

(* Losses are put in the order of time, each in a loss's place; the rest stay. *)
Rearranged(items, n, from) ==
  /\ from \in [1..n -> 1..n]
  /\ \A k \in 1..n : LossInTimeOrder(items)[k] = items[from[k]]
  /\ \A k \in 1..n : items[from[k]].kind = items[k].kind
  /\ \A k \in 1..n : items[k].kind # "loss" => from[k] = k
  /\ \A k, m \in 1..n : k < m /\ items[k].kind = "loss" /\ items[m].kind = "loss" =>
       TimedBefore(items, from[k], from[m])

(* The losses among some items, sorted, and where the item of a place is taken from. *)
LossPlaces(items, n) == {i \in 1..n : items[i].kind = "loss"}

LossesSorted(items, n) ==
  LET Earlier(i, j) == TimedBefore(items, i, j)
  IN  SortedBy(LossPlaces(items, n), Earlier)

LossesFrom(items, n) ==
  [k \in 1..n |->
     IF k \in LossPlaces(items, n)
     THEN LossesSorted(items, n)[Cardinality({j \in LossPlaces(items, n) : j <= k})] ELSE k]

LEMMA LossesInOrder ==
  ASSUME NEW items, NEW n \in Nat, DOMAIN items = 1..n, \A i \in 1..n : items[i].ts \in Int
  PROVE  Rearranged(items, n, LossesFrom(items, n))
<1> DEFINE places == {i \in 1..n : items[i].kind = "loss"}
           N == Cardinality(places)
           Earlier(i, j) == TimedBefore(items, i, j)
           sorted == SortedBy(places, Earlier)
           upto(i) == {j \in places : j <= i}
           from == [k \in 1..n |-> IF k \in places THEN sorted[Cardinality(upto(k))] ELSE k]
<1>0. from = LossesFrom(items, n)
  BY DEF LossesFrom, LossesSorted, LossPlaces
<1>1. places \in SUBSET (1..n) /\ \A i \in places : items[i].ts \in Int
  OBVIOUS
<1>2. IsFiniteSet(places) /\ N \in Nat
  <2>1. IsFiniteSet(1..n)
    BY PlacesAreFinite
  <2> HIDE DEF places
  <2> QED BY <1>1, <2>1, FS_Subset, FS_CardinalityType
<1>3. Timed(sorted, items, places)
  BY DEF SortedBy, Timed, Earlier
<1>4. LossInTimeOrder(items) = [k \in 1..n |-> IF k \in places THEN items[sorted[Cardinality(upto(k))]] ELSE items[k]]
  BY DEF LossInTimeOrder, TimedBefore, Earlier
<1>5. \A i \in places : items[i].kind = "loss"
  OBVIOUS
<1>6. \A i \in 1..n : items[i].kind = "loss" => i \in places
  OBVIOUS
<1> HIDE DEF places, sorted
<1>7. /\ Sorts(sorted, places) /\ Len(sorted) = N
      /\ \A i, j \in 1..Len(sorted) : i < j => TimedBefore(items, sorted[i], sorted[j])
  BY ONLY <1>1, <1>3, n \in Nat, TimeSorts DEF N
<1>8. \A i \in 1..N : sorted[i] \in places
  BY <1>7, SeqFacts DEF Sorts
<1>9. ASSUME NEW x \in places
      PROVE  Cardinality(upto(x)) \in 1..N
  <2>1. upto(x) \in SUBSET places /\ x \in upto(x)
    BY <1>1
  <2> DEFINE S == upto(x)
  <2> HIDE DEF upto, S
  <2>2. IsFiniteSet(S) /\ Cardinality(S) <= N /\ Cardinality(S) \in Nat
    BY <1>2, <2>1, FS_Subset, FS_CardinalityType DEF S
  <2>3. Cardinality(S) # 0
    BY <2>1, <2>2, FS_EmptySet DEF S
  <2> QED BY <1>2, <2>2, <2>3 DEF S
<1>10. ASSUME NEW x \in places, NEW y \in places, x < y
       PROVE  Cardinality(upto(x)) < Cardinality(upto(y))
  <2>0. \A z \in places : z \in Nat
    BY <1>1
  <2>1. upto(x) \subseteq upto(y) /\ y \in upto(y) /\ y \notin upto(x)
    <3>1. ASSUME NEW z \in upto(x) PROVE z \in upto(y)
      BY <1>10, <2>0
    <3>2. y \in upto(y) /\ y \notin upto(x)
      BY <1>10, <2>0
    <3> QED BY <3>1, <3>2
  <2>2. upto(y) \in SUBSET places
    OBVIOUS
  <2> DEFINE S == upto(x)
             T == upto(y)
  <2> HIDE DEF upto, S, T, N
  <2>3. IsFiniteSet(T)
    BY <1>2, <2>2, FS_Subset DEF T
  <2>4. S \in SUBSET T /\ S # T
    BY <2>1 DEF S, T
  <2>5. Cardinality(S) <= Cardinality(T) /\ Cardinality(S) # Cardinality(T) /\ IsFiniteSet(S)
    BY <2>3, <2>4, FS_Subset
  <2>6. Cardinality(S) \in Nat /\ Cardinality(T) \in Nat
    BY <2>3, <2>5, FS_CardinalityType
  <2> QED BY <2>5, <2>6 DEF S, T
<1> HIDE DEF upto, N
<1>11. \A k \in 1..n : /\ k \in places => from[k] = sorted[Cardinality(upto(k))] /\ from[k] \in places
                       /\ k \notin places => from[k] = k
  BY <1>8, <1>9
<1>12. from \in [1..n -> 1..n]
  BY <1>1, <1>8, <1>9
<1> HIDE DEF from
<1>13. \A k \in 1..n : LossInTimeOrder(items)[k] = items[from[k]]
  BY <1>4, <1>11
<1>14. ASSUME NEW k \in 1..n, NEW m \in 1..n, k < m, k \in places, m \in places
       PROVE  TimedBefore(items, from[k], from[m])
  <2>1. Cardinality(upto(k)) < Cardinality(upto(m))
    BY <1>10, <1>14
  <2> QED BY <1>7, <1>9, <1>11, <1>14, <2>1
<1>15. \A k \in 1..n : items[from[k]].kind = items[k].kind
  BY <1>5, <1>6, <1>11
<1>16. Rearranged(items, n, from)
  BY <1>5, <1>6, <1>11, <1>12, <1>13, <1>14, <1>15 DEF Rearranged
<1> QED BY <1>0, <1>16


(* The items of a pid, in the order their lines have. *)
LEMMA ItemsInOwnTime ==
  ASSUME NEW lines \in Seq(Line), NEW pid, InOwnTime(lines)
  PROVE  LET items == ItemsOf(lines, pid)
         IN  \A i, j \in 1..Len(items) :
               i < j /\ items[i].kind = items[j].kind /\ items[i].kind # "instant"
                 /\ items[i].iid = items[j].iid =>
                 items[i].stop <= items[j].ts \/ (items[i].kind = "loss" /\ items[j].stop <= items[i].ts)
<1> DEFINE places == {i \in DOMAIN lines : lines[i].pid = pid}
           own == At(lines, places)
           N == Cardinality(places)
           items == ItemsOf(lines, pid)
<1>1. places \in SUBSET (1..Len(lines)) /\ Len(lines) \in Nat /\ DOMAIN lines = 1..Len(lines)
  OBVIOUS
<1>2. \A i \in places : lines[i].pid = pid /\ i \in DOMAIN lines
  OBVIOUS
<1> HIDE DEF places
<1>3. PICK at \in [1..N -> places] :
        /\ N \in Nat
        /\ \A k, m \in 1..N : k < m <=> at[k] < at[m]
        /\ \A i \in places : \E k \in 1..N : at[k] = i
        /\ own = [k \in 1..N |-> lines[at[k]]]
        /\ IsSeq(own) /\ Len(own) = N
  BY <1>1, AtPlaces
<1> HIDE DEF N
<1>4. DOMAIN own = 1..N /\ \A k \in 1..N : own[k] = lines[at[k]] /\ at[k] \in places
  BY <1>3
<1>5. items = [k \in DOMAIN own |-> own[k].item]
  BY DEF ItemsOf, places
<1> HIDE DEF own, items
<1>6. DOMAIN items = 1..N /\ items = [k \in 1..N |-> items[k]]
      /\ \A k \in 1..N : items[k] = lines[at[k]].item
  BY <1>4, <1>5
<1>7. Len(items) = N
  BY <1>3, <1>6, MadeSeq
<1>8. ASSUME NEW i \in 1..N, NEW j \in 1..N, i < j, items[i].kind = items[j].kind,
             items[i].kind # "instant", items[i].iid = items[j].iid
      PROVE  items[i].stop <= items[j].ts \/ (items[i].kind = "loss" /\ items[j].stop <= items[i].ts)
  <2>1. at[i] < at[j] /\ at[i] \in DOMAIN lines /\ at[j] \in DOMAIN lines
        /\ lines[at[i]].pid = pid /\ lines[at[j]].pid = pid
        /\ items[i] = lines[at[i]].item /\ items[j] = lines[at[j]].item
    BY <1>2, <1>3, <1>4, <1>6, <1>8
  <2> QED BY <1>8, <2>1 DEF InOwnTime
<1> QED BY <1>7, <1>8 DEF items

(* Two items in a row's order: the slices of the second fit behind those of the first. *)
LEMMA ItemsFollow ==
  ASSUME NEW p, NEW one, NEW two, NEW a, NEW b, Blocks(a, p, one), Blocks(b, p, two),
         one.kind \in {"gc", "loss", "instant"}, two.kind \in {"gc", "loss", "instant"},
         one.kind # "instant" => one.ts \in Int /\ one.stop \in Int /\ one.ts <= one.stop,
         two.kind # "instant" => two.ts \in Int /\ two.stop \in Int /\ two.ts <= two.stop,
         one.kind = two.kind /\ one.kind # "instant" /\ one.iid = two.iid =>
           one.stop <= two.ts \/ (one.kind = "loss" /\ one.ts = two.ts /\ two.stop = two.ts)
  PROVE  AheadOf(a, b)
<1> SUFFICES ASSUME NEW x \in ToSet(a), NEW y \in ToSet(b), IsBlock(x), IsBlock(y), x.row = y.row
             PROVE  Fits(x, y)
  BY DEF AheadOf, Fit
<1>1. InItem(x, p, one) /\ InItem(y, p, two)
  BY DEF Blocks
<1>2. one.kind = two.kind /\ one.iid = two.iid /\ one.kind # "instant"
  <2>1. ItemRow(p, one) = ItemRow(p, two) /\ one.kind \in {"gc", "loss"} /\ two.kind \in {"gc", "loss"}
    BY <1>1 DEF InItem
  <2>2. \A i, j : ThreadRow(p, i) # LossRow(p, j)
    BY DEF ThreadRow, LossRow
  <2>3. \A i, j : (ThreadRow(p, i) = ThreadRow(p, j) => i = j) /\ (LossRow(p, i) = LossRow(p, j) => i = j)
    BY DEF ThreadRow, LossRow
  <2> QED BY <2>1, <2>2, <2>3 DEF ItemRow
<1>3. /\ x.ts \in Int /\ x.stop \in Int /\ y.ts \in Int /\ y.stop \in Int
      /\ one.ts <= x.ts /\ x.stop <= one.stop /\ two.ts <= y.ts /\ y.stop <= two.stop
  BY <1>1 DEF InItem
<1>4. CASE one.stop <= two.ts
  BY <1>2, <1>3, <1>4 DEF Fits
<1>5. CASE one.kind = "loss" /\ one.ts = two.ts /\ two.stop = two.ts
  <2>1. x.ts = one.ts /\ x.stop = one.stop /\ y.ts = two.ts /\ y.stop = two.stop
    BY <1>1, <1>2, <1>5 DEF InItem
  <2> QED BY <1>2, <1>5, <2>1 DEF Fits
<1> QED BY <1>2, <1>4, <1>5

(* Events whose slices are in order, last, and are of these pids. *)
Orderly(events, pids) ==
  /\ EventsOK(events) /\ InLine(events)
  /\ \A x \in ToSet(events) : IsBlock(x) => x.ts <= x.stop /\ x.row[2] \in pids

LEMMA OrderlyFlatten ==
  ASSUME NEW parts, IsSeq(parts), NEW pids, \A i \in 1..Len(parts) : Orderly(parts[i], pids),
         \A i, j \in 1..Len(parts) : i < j => AheadOf(parts[i], parts[j])
  PROVE  Orderly(FlattenSeq(parts), pids)
<1>1. \A i \in 1..Len(parts) : EventsOK(parts[i]) /\ InLine(parts[i]) /\ IsSeq(parts[i])
  BY DEF Orderly, InLine
<1>2. EventsOK(FlattenSeq(parts)) /\ InLine(FlattenSeq(parts))
  BY <1>1, EventsFlatten, InLineFlatten
<1>3. \A x : x \in ToSet(FlattenSeq(parts)) <=> \E i \in 1..Len(parts) : x \in ToSet(parts[i])
  BY <1>1, FlattenElements
<1> QED BY <1>2, <1>3 DEF Orderly

LEMMA OwnInOrder ==
  ASSUME NEW lines \in Seq(Line), InOwnTime(lines), NEW pid \in Processes
  PROVE  LET items == LossInTimeOrder(ItemsOf(lines, pid))
         IN  Orderly(FlattenSeq([i \in DOMAIN items |-> Convert(pid, items[i])]), {pid})
<1> DEFINE found == ItemsOf(lines, pid)
           n == Len(found)
           items == LossInTimeOrder(found)
           parts == [i \in DOMAIN items |-> Convert(pid, items[i])]
<1>1. n \in Nat /\ DOMAIN found = 1..n /\ \A i \in 1..n : found[i] \in Captured
  BY LinesOfPid
<1>2. \A i, j \in 1..n :
        i < j /\ found[i].kind = found[j].kind /\ found[i].kind # "instant" /\ found[i].iid = found[j].iid =>
          found[i].stop <= found[j].ts \/ (found[i].kind = "loss" /\ found[j].stop <= found[i].ts)
  BY ItemsInOwnTime
<1> HIDE DEF found, n
<1>3. DOMAIN items = 1..n /\ \A i \in 1..n : items[i] \in Captured
  BY <1>1, LossOrderKeeps
<1> DEFINE from == LossesFrom(found, n)
<1>4. Rearranged(found, n, from)
  <2>1. \A i \in 1..n : found[i].ts \in Int
    BY <1>1, ItemsAreOK DEF ItemOK
  <2> QED BY <1>1, <2>1, LossesInOrder
<1> HIDE DEF from
<1>5. \A i \in 1..n : items[i] = found[from[i]]
  BY <1>4 DEF Rearranged
<1>6. DOMAIN parts = 1..n /\ parts = [i \in 1..n |-> parts[i]] /\ \A i \in 1..n : parts[i] = Convert(pid, items[i])
  BY <1>3
<1> HIDE DEF items, parts
<1>7. IsSeq(parts) /\ Len(parts) = n
  BY <1>1, <1>6, MadeSeq
<1>8. ASSUME NEW i \in 1..n
      PROVE  /\ Orderly(parts[i], {pid}) /\ Blocks(parts[i], pid, items[i])
  <2>1. EventsOK(parts[i]) /\ InLine(parts[i]) /\ Blocks(parts[i], pid, items[i])
    BY <1>3, <1>6, ItemsAreOK, ConvertsToEvents, ConvertInLine
  <2> QED BY <2>1 DEF Blocks, InItem, Orderly
<1>9. \A i \in 1..n :
        /\ found[i].kind \in {"gc", "loss", "instant"}
        /\ found[i].kind # "instant" =>
             found[i].ts \in Int /\ found[i].stop \in Int /\ found[i].ts <= found[i].stop
  BY <1>1, ItemsAssumption
<1>10. ASSUME NEW i \in 1..n, NEW j \in 1..n, i < j PROVE AheadOf(parts[i], parts[j])
  <2> DEFINE one == found[from[i]]
             two == found[from[j]]
  <2>1. from[i] \in 1..n /\ from[j] \in 1..n /\ one.kind = found[i].kind /\ two.kind = found[j].kind
    BY <1>4 DEF Rearranged
  <2>2. /\ one.kind \in {"gc", "loss", "instant"} /\ two.kind \in {"gc", "loss", "instant"}
        /\ one.kind # "instant" => one.ts \in Int /\ one.stop \in Int /\ one.ts <= one.stop
        /\ two.kind # "instant" => two.ts \in Int /\ two.stop \in Int /\ two.ts <= two.stop
    BY <1>9, <2>1
  <2>3. ASSUME one.kind = two.kind, one.kind = "gc", one.iid = two.iid
        PROVE  one.stop <= two.ts
    <3>1. from[i] = i /\ from[j] = j
      BY <1>4, <2>1, <2>3 DEF Rearranged
    <3> QED BY <1>2, <1>10, <2>3, <3>1
  <2>4. ASSUME one.kind = two.kind, one.kind = "loss", one.iid = two.iid
        PROVE  one.stop <= two.ts \/ (one.ts = two.ts /\ two.stop = two.ts)
    <3>1. TimedBefore(found, from[i], from[j])
      BY <1>4, <1>10, <2>1, <2>4 DEF Rearranged
    <3>2. one.ts <= two.ts /\ from[i] # from[j]
      BY <2>2, <2>4, <3>1, <2>1 DEF TimedBefore
    <3>3. one.stop <= two.ts \/ two.stop <= one.ts
      <4>1. CASE from[i] < from[j]
        BY <1>2, <2>1, <2>4, <4>1
      <4>2. CASE from[j] < from[i]
        BY <1>2, <2>1, <2>4, <4>2
      <4>3. from[i] < from[j] \/ from[j] < from[i]
        BY <1>1, <2>1, <3>2
      <4> QED BY <4>1, <4>2, <4>3
    <3> QED BY <2>2, <2>4, <3>2, <3>3
  <2> HIDE DEF one, two
  <2>5. one.kind = two.kind /\ one.kind # "instant" /\ one.iid = two.iid =>
          one.stop <= two.ts \/ (one.kind = "loss" /\ one.ts = two.ts /\ two.stop = two.ts)
    BY <2>2, <2>3, <2>4
  <2>6. Blocks(parts[i], pid, one) /\ Blocks(parts[j], pid, two)
    BY <1>5, <1>8 DEF one, two
  <2> QED BY ONLY <2>2, <2>5, <2>6, ItemsFollow
<1>11. Orderly(FlattenSeq(parts), {pid})
  BY <1>7, <1>8, <1>10, OrderlyFlatten
<1> QED BY <1>11 DEF parts, items, found

LEMMA PidsDiffer ==
  ASSUME NEW lines \in Seq(Line)
  PROVE  LET pids == PidOrder(lines)
         IN  /\ \A i, j \in 1..Len(pids) : pids[i] = pids[j] => i = j
             /\ \A i \in 1..Len(pids) : pids[i] \in PidsOf(lines)
<1> DEFINE all == [i \in DOMAIN lines |-> lines[i].pid]
           n == Len(lines)
           firsts == FirstsIn(all, PidsOf(lines))
<1>1. n \in Nat /\ DOMAIN all = 1..n /\ all = [i \in 1..n |-> all[i]]
  OBVIOUS
<1>2. \A i \in DOMAIN all : all[i] \in PidsOf(lines)
  BY DEF PidsOf
<1>3. {i \in Firsts(all) : all[i] \in PidsOf(lines)} = Firsts(all)
  BY <1>2 DEF Firsts
<1>4. PidOrder(lines) = firsts
  BY <1>3 DEF PidOrder, Distinct, FirstsIn
<1> HIDE DEF all, n
<1>5. IsSeq(all)
  BY <1>1, MadeSeq
<1>6. /\ \A i, j \in 1..Len(firsts) : firsts[i] = firsts[j] => i = j
      /\ IsSeq(firsts) /\ ToSet(firsts) = ToSet(all) \cap PidsOf(lines)
  BY <1>5, FirstsInFacts
<1> HIDE DEF firsts
<1>7. \A i \in 1..Len(firsts) : firsts[i] \in PidsOf(lines)
  BY <1>6, SeqFacts
<1> QED BY <1>4, <1>6, <1>7

LEMMA CaptureInOrder ==
  ASSUME NEW lines \in Seq(Line), InOwnTime(lines)
  PROVE  Orderly(ConvertCapture(lines), PidsOf(lines))
<1> DEFINE items(pid) == LossInTimeOrder(ItemsOf(lines, pid))
           OfPid(pid) == FlattenSeq([i \in DOMAIN items(pid) |-> Convert(pid, items(pid)[i])])
           pids == PidOrder(lines)
           n == Len(pids)
           parts == [i \in DOMAIN pids |-> OfPid(pids[i])]
<1>1. ASSUME NEW pid \in Processes PROVE Orderly(OfPid(pid), {pid})
  BY OwnInOrder
<1> HIDE DEF OfPid
<1>2. /\ IsSeq(pids) /\ \A i \in 1..n : pids[i] \in Processes /\ pids[i] \in PidsOf(lines)
      /\ \A i, j \in 1..n : pids[i] = pids[j] => i = j
  BY PidsOfLines, PidsDiffer
<1>3. n \in Nat /\ DOMAIN pids = 1..n
  BY <1>2, SeqFacts
<1> HIDE DEF pids, n
<1>4. DOMAIN parts = 1..n /\ parts = [i \in 1..n |-> parts[i]] /\ \A i \in 1..n : parts[i] = OfPid(pids[i])
  BY <1>3
<1> HIDE DEF parts
<1>5. IsSeq(parts) /\ Len(parts) = n
  BY <1>3, <1>4, MadeSeq
<1>6. \A i \in 1..n : Orderly(parts[i], {pids[i]}) /\ Orderly(parts[i], PidsOf(lines))
  <2> SUFFICES ASSUME NEW i \in 1..n
               PROVE  Orderly(parts[i], {pids[i]}) /\ Orderly(parts[i], PidsOf(lines))
    OBVIOUS
  <2>1. Orderly(parts[i], {pids[i]})
    BY <1>1, <1>2, <1>4
  <2> QED BY <1>2, <2>1 DEF Orderly
<1>7. ASSUME NEW i \in 1..n, NEW j \in 1..n, i < j PROVE AheadOf(parts[i], parts[j])
  <2> SUFFICES ASSUME NEW x \in ToSet(parts[i]), NEW y \in ToSet(parts[j]), IsBlock(x), IsBlock(y), x.row = y.row
               PROVE  FALSE
    BY DEF AheadOf, Fit
  <2>1. x.row[2] = pids[i] /\ y.row[2] = pids[j]
    BY <1>6 DEF Orderly
  <2>2. i = j
    BY <1>2, <2>1
  <2> QED BY <1>3, <1>7, <2>2
<1>8. Orderly(FlattenSeq(parts), PidsOf(lines))
  BY <1>5, <1>6, <1>7, OrderlyFlatten
<1> QED BY <1>8 DEF ConvertCapture, parts, pids, OfPid

(* What an event becomes when it is moved. *)
LEMMA ShiftedIs ==
  ASSUME NEW e, EventOK(e), NEW by \in Int
  PROVE  LET s == ShiftEvent(e, by)
         IN  /\ s.type = e.type /\ s.row = e.row
             /\ s.type = "slice" => s.ts = e.ts - by /\ s.stop = e.stop - by
<1> DEFINE s == ShiftEvent(e, by)
<1>1. CASE e.type = "slice"
  <2>1. s = [e EXCEPT !.ts = @ - by, !.stop = @ - by]
    BY <1>1 DEF ShiftEvent
  <2>2. "ts" \in DOMAIN e /\ "stop" \in DOMAIN e
    BY <1>1 DEF EventOK
  <2> HIDE DEF s
  <2>3. s.type = e.type /\ s.row = e.row /\ s.ts = e.ts - by /\ s.stop = e.stop - by
    BY <2>1, <2>2
  <2> QED BY <2>3 DEF s
<1>2. CASE e.type # "slice"
  <2>1. s = [e EXCEPT !.ts = @ - by]
    BY <1>2 DEF ShiftEvent
  <2> HIDE DEF s
  <2>2. s.type = e.type /\ s.row = e.row
    BY <2>1
  <2> QED BY <1>2, <2>2 DEF s
<1> QED BY <1>1, <1>2

(* The events a process has are all moved by the same. *)
LEMMA MovedAlike ==
  ASSUME NEW events, EventsOK(events)
  PROVE  \E by : \A i \in 1..Len(events) :
           /\ by[events[i].row[2]] \in Int
           /\ NormalizeEvents(events)[i] = ShiftEvent(events[i], by[events[i].row[2]])
<1> DEFINE n == Len(events)
           Own(p) == {i \in DOMAIN events : events[i].row[2] = p}
           Starts(p) == {events[j].ts : j \in Own(p)}
           by == [p \in Processes |-> Earliest(Starts(p))]
<1>1. n \in Nat /\ DOMAIN events = 1..n /\ \A i \in 1..n : EventOK(events[i])
  BY SeqFacts DEF EventsOK
<1>2. ASSUME NEW i \in 1..n PROVE Earliest(Starts(events[i].row[2])) \in Int
  <2> DEFINE own == Own(events[i].row[2])
             starts == Starts(events[i].row[2])
             f == [j \in own |-> events[j].ts]
  <2>1. IsFiniteSet(own) /\ own \subseteq 1..n /\ i \in own
    <3>1. IsFiniteSet(1..n)
      BY <1>1, PlacesAreFinite
    <3>2. own \subseteq 1..n /\ i \in own
      BY <1>1
    <3> QED BY <3>1, <3>2, FS_Subset
  <2>2. f \in Surjection(own, starts)
    BY DEF Surjection
  <2>3. IsFiniteSet(starts)
    <3> HIDE DEF f, own, starts
    <3> QED BY <2>1, <2>2, FS_Surjection
  <2>4. starts \subseteq Int /\ starts # {}
    BY <1>1, <2>1 DEF EventOK
  <2> HIDE DEF starts
  <2>5. Earliest(starts) \in Int
    BY <2>3, <2>4, FiniteEnds
  <2> QED BY <2>5 DEF starts
<1>3. NormalizeEvents(events) = [i \in 1..n |-> ShiftEvent(events[i], Earliest(Starts(events[i].row[2])))]
  BY <1>1 DEF NormalizeEvents
<1> HIDE DEF Starts
<1>4. ASSUME NEW i \in 1..n
      PROVE  /\ by[events[i].row[2]] \in Int
             /\ NormalizeEvents(events)[i] = ShiftEvent(events[i], by[events[i].row[2]])
  <2>1. events[i].row[2] \in Processes
    BY <1>1 DEF EventOK
  <2> QED BY <1>2, <1>3, <2>1
<1> HIDE DEF by
<1> QED BY <1>4

LEMMA NormalizeInOrder ==
  ASSUME NEW events, NEW pids, Orderly(events, pids)
  PROVE  Orderly(NormalizeEvents(events), pids)
<1> DEFINE n == Len(events)
           s == NormalizeEvents(events)
<1>1. EventsOK(events) /\ InLine(events) /\ EventsOK(s)
  BY NormalizingKeeps DEF Orderly
<1>2. n \in Nat /\ DOMAIN events = 1..n /\ \A i \in 1..n : EventOK(events[i]) /\ events[i] \in ToSet(events)
  BY <1>1, SeqFacts DEF EventsOK
<1>3. PICK by : \A i \in 1..n : /\ by[events[i].row[2]] \in Int
                                /\ s[i] = ShiftEvent(events[i], by[events[i].row[2]])
  BY <1>1, MovedAlike
<1>4. DOMAIN s = 1..n /\ Len(s) = n
  <2>1. DOMAIN s = 1..n /\ s = [i \in 1..n |-> s[i]]
    BY <1>2 DEF NormalizeEvents
  <2> HIDE DEF s, n
  <2> QED BY <1>2, <2>1, MadeSeq
<1> HIDE DEF s, n
<1>5. ASSUME NEW i \in 1..n
      PROVE  LET e == events[i]
             IN  /\ IsBlock(s[i]) => IsBlock(e) /\ e \in ToSet(events)
                 /\ s[i].row = e.row
                 /\ IsBlock(s[i]) => /\ s[i].ts = e.ts - by[e.row[2]] /\ s[i].stop = e.stop - by[e.row[2]]
                                     /\ e.ts \in Int /\ e.stop \in Int
                                     /\ by[e.row[2]] \in Int
  <2> DEFINE e == events[i]
  <2>1. EventOK(e) /\ by[e.row[2]] \in Int /\ s[i] = ShiftEvent(e, by[e.row[2]]) /\ e \in ToSet(events)
    BY <1>2, <1>3
  <2> HIDE DEF e
  <2>2. /\ s[i].type = e.type /\ s[i].row = e.row
        /\ s[i].type = "slice" => s[i].ts = e.ts - by[e.row[2]] /\ s[i].stop = e.stop - by[e.row[2]]
    BY <2>1, ShiftedIs
  <2>3. e.type # "begin" /\ (e.type = "slice" => e.ts \in Int /\ e.stop \in Int)
    BY <2>1 DEF EventOK
  <2> QED BY <2>1, <2>2, <2>3 DEF e, IsBlock
<1>6. ASSUME NEW i \in 1..n, NEW j \in 1..n, i < j PROVE Fit(s[i], s[j])
  <2> SUFFICES ASSUME IsBlock(s[i]), IsBlock(s[j]), s[i].row = s[j].row PROVE Fits(s[i], s[j])
    BY DEF Fit
  <2> DEFINE d == events[i]
             e == events[j]
             b == by[d.row[2]]
  <2>1. Fit(d, e)
    BY <1>1, <1>6 DEF InLine, n
  <2>2. /\ IsBlock(d) /\ IsBlock(e) /\ d.row = e.row /\ b \in Int
        /\ s[i].ts = d.ts - b /\ s[i].stop = d.stop - b /\ s[j].ts = e.ts - b /\ s[j].stop = e.stop - b
        /\ d.ts \in Int /\ d.stop \in Int /\ e.ts \in Int /\ e.stop \in Int
    BY <1>5
  <2> HIDE DEF b, d, e
  <2> QED BY <2>1, <2>2 DEF Fit, Fits
<1>7. InLine(s)
  BY <1>1, <1>4, <1>6 DEF InLine, EventsOK
<1>8. ASSUME NEW x \in ToSet(s), IsBlock(x) PROVE x.ts <= x.stop /\ x.row[2] \in pids
  <2>1. PICK i \in 1..n : x = s[i]
    BY <1>4 DEF ToSet
  <2> DEFINE e == events[i]
             b == by[e.row[2]]
  <2>2. /\ IsBlock(e) /\ e \in ToSet(events) /\ x.row = e.row /\ b \in Int
        /\ x.ts = e.ts - b /\ x.stop = e.stop - b /\ e.ts \in Int /\ e.stop \in Int
    BY <1>5, <1>8, <2>1
  <2> HIDE DEF e, b
  <2>3. e.ts <= e.stop /\ e.row[2] \in pids
    BY <2>2 DEF Orderly
  <2> QED BY <2>2, <2>3
<1>9. Orderly(s, pids)
  BY <1>1, <1>7, <1>8 DEF Orderly
<1> QED BY <1>9 DEF s

LEMMA CombinedInOrder ==
  ASSUME CapturesInOrder, NEW files \in Captures, NEW normalize \in BOOLEAN
  PROVE  Orderly(CombineToEvents(files, normalize), Processes)
<1> DEFINE n == Len(files)
           parts == [i \in DOMAIN files |->
                       IF normalize THEN NormalizeEvents(ConvertCapture(files[i]))
                       ELSE ConvertCapture(files[i])]
<1>1. files \in Seq(Seq(Line)) /\ PidsApart(files) /\ \A i \in DOMAIN files : InOwnTime(files[i])
  BY CapturesAssumption DEF Line, CapturesInOrder
<1>2. n \in Nat /\ DOMAIN files = 1..n /\ \A i \in 1..n : files[i] \in Seq(Line)
  BY <1>1
<1>3. ASSUME NEW i \in 1..n PROVE Orderly(parts[i], PidsOf(files[i]))
  <2>1. Orderly(ConvertCapture(files[i]), PidsOf(files[i]))
    BY <1>1, <1>2, CaptureInOrder
  <2>2. Orderly(NormalizeEvents(ConvertCapture(files[i])), PidsOf(files[i]))
    BY <2>1, NormalizeInOrder
  <2>3. parts[i] = IF normalize THEN NormalizeEvents(ConvertCapture(files[i]))
                   ELSE ConvertCapture(files[i])
    BY <1>2
  <2> HIDE DEF parts
  <2> QED BY <2>1, <2>2, <2>3
<1>4. DOMAIN parts = 1..n /\ parts = [i \in 1..n |-> parts[i]]
  BY <1>2
<1> HIDE DEF parts, n
<1>5. IsSeq(parts) /\ Len(parts) = n
  BY <1>2, <1>4, MadeSeq
<1>6. ASSUME NEW i \in 1..n, NEW j \in 1..n, i < j PROVE AheadOf(parts[i], parts[j])
  <2> SUFFICES ASSUME NEW x \in ToSet(parts[i]), NEW y \in ToSet(parts[j]), IsBlock(x), IsBlock(y), x.row = y.row
               PROVE  FALSE
    BY DEF AheadOf, Fit
  <2>1. x.row[2] \in PidsOf(files[i]) /\ y.row[2] \in PidsOf(files[j])
    BY <1>3 DEF Orderly
  <2>2. PidsOf(files[i]) \cap PidsOf(files[j]) = {}
    <3>1. i \in DOMAIN files /\ j \in DOMAIN files /\ i # j
      BY <1>2, <1>6
    <3>2. \A k, m \in DOMAIN files : k # m => PidsOf(files[k]) \cap PidsOf(files[m]) = {}
      BY <1>1 DEF PidsApart
    <3> QED BY ONLY <3>1, <3>2
  <2> QED BY <2>1, <2>2
<1>7. \A i \in 1..n : Orderly(parts[i], Processes)
  <2> SUFFICES ASSUME NEW i \in 1..n PROVE Orderly(parts[i], Processes)
    OBVIOUS
  <2>1. PidsOf(files[i]) \subseteq Processes
    <3>1. \A k \in DOMAIN files[i] : files[i][k] \in Line
      BY <1>2
    <3> QED BY <3>1 DEF PidsOf, Line
  <2> QED BY <1>3, <2>1 DEF Orderly
<1>8. Orderly(FlattenSeq(parts), Processes)
  BY <1>5, <1>6, <1>7, OrderlyFlatten
<1> QED BY <1>8 DEF CombineToEvents, parts

-----------------------------------------------------------------------------
(* The invariant of the slices: on every row in order, in the file and behind it. *)

(* The caller has read a row as far as its slices go. *)
ReadBy(seq, read) ==
  \A x \in ToSet(seq) : IsBlock(x) => x.row \in DOMAIN read /\ x.stop \in Int /\ x.stop <= read[x.row]

(* Until the closeout the shared row is empty, and there is a span of whoever has a slice. *)
OwnersKnown(seq, known) ==
  \A x \in ToSet(seq) : IsBlock(x) => x.row # LifetimesRow /\ x.row[2] \in DOMAIN known

ReadsInv ==
  /\ InPairs(file) /\ InLine(file) /\ InLine(buffer) /\ AheadOf(file, buffer) /\ SlicesLast(buffer)
  /\ ~emitted => OwnersKnown(file, spans)
  /\ \A row \in DOMAIN read_to : read_to[row] \in Int
  /\ capture = NoCapture /\ ~emitted => ReadBy(file, read_to) /\ ReadBy(buffer, read_to)

LEMMA NothingRead ==
  /\ InPairs(<<>>) /\ InLine(<<>>) /\ Aside(<<>>) /\ SlicesLast(<<>>)
  /\ \A known : ReadBy(<<>>, known) /\ OwnersKnown(<<>>, known)
  /\ \A seq : AheadOf(seq, <<>>) /\ AheadOf(<<>>, seq)
<1>1. IsSeq(<<>>) /\ ToSet(<<>>) = {}
  BY EmptyIsSeq
<1>2. Aside(<<>>) /\ InPairs(<<>>)
  BY <1>1, NoPairs DEF Aside
<1> QED BY <1>1, <1>2, AsideInLine DEF SlicesLast, ReadBy, OwnersKnown

LEMMA ReadsInvInit == Init => ReadsInv
<1> SUFFICES ASSUME Init PROVE ReadsInv
  OBVIOUS
<1>1. file = <<>> /\ buffer = <<>> /\ DOMAIN read_to = {}
  BY DEF Init
<1> QED BY <1>1, NothingRead DEF ReadsInv

(* What is handed over goes behind all there is. *)
LEMMA ReadsInvHand ==
  ASSUME FileInv, ReadsInv, NEW events, EventsOK(events), InLine(events), SlicesLast(events),
         AheadOf(file, events), AheadOf(buffer, events), Hand(events), ~emitted, capture = NoCapture,
         \A row \in DOMAIN read_to' : read_to'[row] \in Int,
         ReadBy(file, read_to'), ReadBy(buffer, read_to'), ReadBy(events, read_to')
  PROVE  ReadsInv'
<1>1. buffer' = buffer \o events /\ UNCHANGED <<spans, emitted, file, capture>>
  BY DEF Hand, state
<1>2. IsSeq(buffer) /\ IsSeq(events)
  BY DEF FileInv, EventsOK
<1>3. ToSet(buffer \o events) = ToSet(buffer) \cup ToSet(events)
  BY <1>2, ConcatFacts
<1>4. InLine(buffer \o events)
  BY InLineJoin DEF ReadsInv
<1>5. AheadOf(file, buffer \o events) /\ SlicesLast(buffer \o events)
  BY <1>3 DEF ReadsInv, AheadOf, SlicesLast
<1>6. ReadBy(buffer \o events, read_to')
  BY <1>3 DEF ReadBy
<1> QED BY <1>1, <1>4, <1>5, <1>6 DEF ReadsInv

LEMMA ReadsInvAside ==
  ASSUME FileInv, ReadsInv, NEW event, EventOK(event), event.type # "slice",
         Hand(<<event>>), Live, UNCHANGED read_to
  PROVE  ReadsInv'
<1> DEFINE events == <<event>>
<1>1. IsSeq(events) /\ ToSet(events) = {event}
  BY OneIsSeq
<1>2. EventsOK(events)
  BY EventsOne
<1>3. ~IsBlock(event)
  BY DEF EventOK, IsBlock
<1>4. ~emitted /\ capture = NoCapture /\ Hand(events)
  BY DEF Live
<1> HIDE DEF events
<1>5. Aside(events) /\ SlicesLast(events) /\ ReadBy(events, read_to)
  BY <1>1, <1>3 DEF Aside, SlicesLast, ReadBy
<1>6. InLine(events) /\ AheadOf(file, events) /\ AheadOf(buffer, events)
  BY <1>5, AsideInLine
<1> QED BY <1>2, <1>4, <1>5, <1>6, ReadsInvHand DEF ReadsInv

LEMMA ReadsInvItem ==
  ASSUME FileInv, ReadsInv, NEW p \in Monitored, NEW item \in Collections \cup Losses, AddItem(p, item)
  PROVE  ReadsInv'
<1> DEFINE row == ItemRow(p, item)
           events == Convert(p, item)
<1>1. /\ ~emitted /\ capture = NoCapture /\ Hand(events)
      /\ row \in DOMAIN read_to => read_to[row] <= item.ts
      /\ read_to' = [r \in DOMAIN read_to \cup {row} |-> IF r = row THEN item.stop ELSE read_to[r]]
  BY DEF AddItem, Calling, Live, ItemRow
<1>2. item.ts \in Int /\ item.stop \in Int /\ item.ts <= item.stop
  BY ItemsAssumption
<1>3. EventsOK(events) /\ InLine(events) /\ Blocks(events, p, item)
  BY ItemsAreOK, ConvertsToEvents, ConvertInLine, ProcessesAssumption
<1> HIDE DEF row, events
<1>4. \A x \in ToSet(events) : IsBlock(x) =>
        x.row = row /\ x.ts \in Int /\ x.stop \in Int /\ item.ts <= x.ts /\ x.ts <= x.stop /\ x.stop <= item.stop
  BY <1>3 DEF Blocks, InItem, row
<1>5. SlicesLast(events)
  <2> SUFFICES ASSUME NEW e \in ToSet(events), e.type = "slice" PROVE e.ts <= e.stop
    BY DEF SlicesLast
  <2>1. PICK i \in 1..Len(events) : e = events[i]
    BY <1>3, SeqFacts DEF EventsOK, ToSet
  <2>2. IsBlock(e)
    BY <1>3, <2>1 DEF EventsOK, EventOK, IsBlock
  <2> QED BY <1>4, <2>2
<1>6. ReadBy(file, read_to) /\ ReadBy(buffer, read_to)
  BY <1>1 DEF ReadsInv
<1>7. ASSUME NEW seq, ReadBy(seq, read_to) PROVE AheadOf(seq, events) /\ ReadBy(seq, read_to')
  <2>1. ASSUME NEW x \in ToSet(seq), NEW y \in ToSet(events), IsBlock(x), IsBlock(y), x.row = y.row
        PROVE  Fits(x, y)
    <3>1. y.row = row /\ y.ts \in Int /\ item.ts <= y.ts
      BY <1>4, <2>1
    <3>2. row \in DOMAIN read_to /\ x.stop \in Int /\ x.stop <= read_to[row] /\ read_to[row] \in Int
      BY <1>7, <2>1, <3>1 DEF ReadBy, ReadsInv
    <3> QED BY <1>1, <1>2, <3>1, <3>2 DEF Fits
  <2>2. ASSUME NEW x \in ToSet(seq), IsBlock(x)
        PROVE  x.row \in DOMAIN read_to' /\ x.stop \in Int /\ x.stop <= read_to'[x.row]
    <3>1. x.row \in DOMAIN read_to /\ x.stop \in Int /\ x.stop <= read_to[x.row] /\ read_to[x.row] \in Int
      BY <1>7, <2>2 DEF ReadBy, ReadsInv
    <3> QED BY <1>1, <1>2, <3>1
  <2> QED BY <2>1, <2>2 DEF AheadOf, Fit, ReadBy
<1>8. ReadBy(events, read_to')
  BY <1>1, <1>4 DEF ReadBy
<1>9. \A r \in DOMAIN read_to' : read_to'[r] \in Int
  BY <1>1, <1>2 DEF ReadsInv
<1> QED BY <1>1, <1>3, <1>5, <1>6, <1>7, <1>8, <1>9, ReadsInvHand

(* The packets of a batch stand behind whatever its events stand behind. *)
LEMMA MirrorsFollow ==
  ASSUME NEW seq, NEW events, AheadOf(seq, events), NEW packets, Mirrors(packets, events)
  PROVE  AheadOf(seq, packets)
<1> SUFFICES ASSUME NEW x \in ToSet(seq), NEW y \in ToSet(packets), IsBlock(x), IsBlock(y), x.row = y.row
             PROVE  Fits(x, y)
  BY DEF AheadOf, Fit
<1>1. PICK e \in ToSet(events) : Alike(y, e)
  BY DEF Mirrors
<1>2. Fit(x, e)
  BY DEF AheadOf
<1> QED BY <1>1, <1>2 DEF Alike, Fit, Fits

(* What the last batch leaves. *)
LEMMA BatchReads ==
  ASSUME FileInv, BarsInv, SpansInv, ReadsInv, ~emitted
  PROVE  LET s == WriteEvents(buffer)
         IN  /\ SpansOK(s.spans) /\ SpansLast(s.spans) /\ DOMAIN spans \subseteq DOMAIN s.spans
             /\ InPairs(s.packets) /\ InLine(s.packets) /\ AheadOf(file, s.packets)
             /\ OwnersKnown(s.packets, s.spans)
             /\ \A read : ReadBy(buffer, read) => ReadBy(s.packets, read)
<1> DEFINE s == WriteEvents(buffer)
           packets == s.packets
           known == s.spans
<1>1. SpansOK(known) /\ SpansLast(known) /\ DOMAIN known = DOMAIN spans \cup Owners(buffer)
  BY BatchBars, BatchSpans
<1>2. known = Known(buffer)
  BY BatchIs
<1>3. InPairs(packets) /\ InLine(packets) /\ Mirrors(packets, buffer)
  <2>1. IsSeq(retired) /\ EventsOK(buffer) /\ SlicesLast(buffer) /\ InLine(buffer)
        /\ SpansOK(Known(buffer)) /\ SpansLast(Known(buffer))
    BY <1>1, <1>2 DEF FileInv, ReadsInv
  <2> HIDE DEF known
  <2> QED BY <2>1, BatchPaired
<1> HIDE DEF s, packets, known
<1>4. AheadOf(file, packets)
  BY <1>3, MirrorsFollow DEF ReadsInv
<1>5. ASSUME NEW x \in ToSet(packets), IsBlock(x)
      PROVE  \E e \in ToSet(buffer) : Alike(x, e) /\ x.row # LifetimesRow /\ x.row[2] \in DOMAIN known
  <2>1. PICK e \in ToSet(buffer) : Alike(x, e)
    BY <1>3, <1>5 DEF Mirrors
  <2>2. PICK i \in DOMAIN buffer : e = buffer[i]
    BY DEF ToSet
  <2>3. EventOK(e)
    BY <2>2, SeqFacts DEF FileInv, EventsOK
  <2>4. LifetimesRow[1] = "Processes"
    BY DEF LifetimesRow
  <2>5. x.row # LifetimesRow
    BY <2>1, <2>3, <2>4 DEF Alike, EventOK
  <2>6. x.row[2] \in Owners(buffer)
    BY <2>1, <2>2 DEF Owners, Owner, Alike
  <2> QED BY <1>1, <2>1, <2>5, <2>6
<1>6. OwnersKnown(packets, known)
  BY <1>5 DEF OwnersKnown
<1>7. \A read : ReadBy(buffer, read) => ReadBy(packets, read)
  BY <1>5 DEF ReadBy, Alike
<1> QED BY <1>1, <1>3, <1>4, <1>6, <1>7 DEF s, packets, known

LEMMA ReadsInvFlush == FileInv /\ BarsInv /\ SpansInv /\ ReadsInv /\ Flush => ReadsInv'
<1> SUFFICES ASSUME FileInv, BarsInv, SpansInv, ReadsInv, Flush PROVE ReadsInv'
  OBVIOUS
<1> DEFINE s == WriteEvents(buffer)
<1>1. /\ ~emitted /\ spans' = s.spans /\ file' = file \o s.packets /\ buffer' = <<>>
      /\ UNCHANGED <<emitted, read_to, capture>>
  BY DEF Flush, Become, caller
<1>2. /\ DOMAIN spans \subseteq DOMAIN s.spans
      /\ InPairs(s.packets) /\ InLine(s.packets) /\ AheadOf(file, s.packets)
      /\ OwnersKnown(s.packets, s.spans)
      /\ \A read : ReadBy(buffer, read) => ReadBy(s.packets, read)
  BY <1>1, BatchReads
<1> HIDE DEF s
<1>3. InPairs(file) /\ InLine(file) /\ OwnersKnown(file, spans)
  BY <1>1 DEF ReadsInv
<1>4. InPairs(file') /\ InLine(file') /\ ToSet(file') = ToSet(file) \cup ToSet(s.packets)
  BY <1>1, <1>2, <1>3, InPairsJoin, InLineJoin, ConcatFacts DEF InPairs
<1>5. OwnersKnown(file', spans')
  BY <1>1, <1>2, <1>3, <1>4 DEF OwnersKnown
<1>6. capture = NoCapture => ReadBy(file', read_to)
  BY <1>1, <1>2, <1>4 DEF ReadBy, ReadsInv
<1> QED BY <1>1, <1>4, <1>5, <1>6, NothingRead DEF ReadsInv

LEMMA ReadsInvClose == FileInv /\ BarsInv /\ SpansInv /\ ReadsInv /\ Close => ReadsInv'
<1> SUFFICES ASSUME FileInv, BarsInv, SpansInv, ReadsInv, Close PROVE ReadsInv'
  OBVIOUS
<1> DEFINE s == LastBatch
           f == Finalize(s)
<1>1. ~emitted /\ emitted' /\ file' = file \o f.packets /\ buffer' = <<>> /\ read_to' = read_to
  BY DEF Close, Become, LastBatch, caller
<1>2. /\ SpansOK(s.spans) /\ SpansLast(s.spans)
      /\ InPairs(s.packets) /\ InLine(s.packets) /\ AheadOf(file, s.packets)
      /\ OwnersKnown(s.packets, s.spans)
  <2>1. CASE buffer = <<>>
    <3>1. s.spans = spans /\ s.packets = <<>>
      BY <2>1 DEF LastBatch, Unwritten
    <3> QED BY <3>1, NothingRead DEF FileInv, SpansInv
  <2>2. CASE buffer # <<>>
    <3>1. s = WriteEvents(buffer)
      BY <2>2 DEF LastBatch
    <3> HIDE DEF s
    <3> QED BY <1>1, <3>1, BatchReads
  <2> QED BY <2>1, <2>2
<1> HIDE DEF s
<1>3. \A x \in ToSet(s.packets) : IsBlock(x) => x.row # LifetimesRow
  BY <1>2 DEF OwnersKnown
<1>4. /\ InPairs(f.packets) /\ InLine(f.packets)
      /\ \A x \in ToSet(f.packets) : IsBlock(x) => x \in ToSet(s.packets) \/ x.row = LifetimesRow
  BY <1>2, <1>3, CloseoutPaired
<1> HIDE DEF f
<1>5. AheadOf(file, f.packets)
  <2> SUFFICES ASSUME NEW x \in ToSet(file), NEW y \in ToSet(f.packets) PROVE Fit(x, y)
    BY DEF AheadOf
  <2>1. CASE y \in ToSet(s.packets)
    BY <1>2, <2>1 DEF AheadOf
  <2>2. CASE IsBlock(y) /\ y.row = LifetimesRow
    <3>1. IsBlock(x) => x.row # LifetimesRow
      BY <1>1 DEF ReadsInv, OwnersKnown
    <3> QED BY <2>2, <3>1 DEF Fit
  <2>3. CASE ~IsBlock(y)
    BY <2>3 DEF Fit
  <2> QED BY <1>4, <2>1, <2>2, <2>3
<1>6. InPairs(file') /\ InLine(file')
  BY <1>1, <1>4, <1>5, InPairsJoin, InLineJoin DEF ReadsInv
<1> QED BY <1>1, <1>6, NothingRead DEF ReadsInv

LEMMA ReadsInvCombine ==
  ASSUME CapturesInOrder, FileInv, ReadsInv, NEW files \in Captures, NEW normalize \in BOOLEAN,
         Combine(files, normalize)
  PROVE  ReadsInv'
<1> DEFINE events == CombineToEvents(files, normalize)
<1>1. /\ ~emitted /\ spans = <<>> /\ buffer' = events
      /\ capture' = [files |-> files, normalize |-> normalize]
      /\ UNCHANGED <<spans, emitted, file, read_to>>
  BY DEF Combine, Live, state
<1>2. Orderly(events, Processes)
  BY CombinedInOrder
<1>3. capture' = NoCapture => events = <<>>
  <2> SUFFICES ASSUME capture' = NoCapture PROVE events = <<>>
    OBVIOUS
  <2>1. files = <<>>
    BY <1>1 DEF NoCapture
  <2>2. IsSeq(<<>>) /\ Len(<<>>) = 0
    BY EmptyIsSeq
  <2>3. /\ IsSeq(FlattenSeq(<<>>)) /\ \A e : e \notin ToSet(FlattenSeq(<<>>))
    BY <2>2, FlattenElements
  <2>4. [i \in DOMAIN files |-> IF normalize THEN NormalizeEvents(ConvertCapture(files[i]))
                                ELSE ConvertCapture(files[i])] = <<>>
    BY <2>1
  <2>5. events = FlattenSeq(<<>>)
    BY <2>4 DEF CombineToEvents
  <2> HIDE DEF events
  <2> QED BY <2>3, <2>5, SeqFacts
<1> HIDE DEF events
<1>4. InLine(events) /\ SlicesLast(events)
  <2> SUFFICES ASSUME NEW e \in ToSet(events), e.type = "slice" PROVE e.ts <= e.stop
    BY <1>2 DEF SlicesLast, Orderly
  <2>1. PICK i \in 1..Len(events) : e = events[i]
    BY <1>2, SeqFacts DEF Orderly, EventsOK, ToSet
  <2>2. IsBlock(e)
    BY <1>2, <2>1 DEF Orderly, EventsOK, EventOK, IsBlock
  <2> QED BY <1>2, <2>2 DEF Orderly
<1>5. \A x \in ToSet(file) : ~IsBlock(x)
  <2>1. DOMAIN spans = {}
    BY <1>1
  <2> QED BY <1>1, <2>1 DEF ReadsInv, OwnersKnown
<1>6. AheadOf(file, events) /\ ReadBy(file, read_to)
  BY <1>5 DEF AheadOf, Fit, ReadBy
<1> QED BY <1>1, <1>3, <1>4, <1>6, NothingRead DEF ReadsInv

LEMMA ReadsInvStep ==
  ASSUME CapturesInOrder
  PROVE  FileInv /\ BarsInv /\ SpansInv /\ ReadsInv /\ [Next]_vars => ReadsInv'
<1> SUFFICES ASSUME FileInv, BarsInv, SpansInv, ReadsInv, [Next]_vars PROVE ReadsInv'
  OBVIOUS
<1>1. ASSUME NEW p \in Monitored, NEW item \in Collections \cup Losses, AddItem(p, item) PROVE ReadsInv'
  BY <1>1, ReadsInvItem
<1>2. ASSUME NEW p \in Monitored, AddRss(p) PROVE ReadsInv'
  <2> DEFINE event == Counter(ProcessRow(p), <<"rss">>, clock)
  <2>1. Hand(<<event>>) /\ Live /\ UNCHANGED read_to
    BY <1>2 DEF AddRss, Calling
  <2>2. EventOK(event) /\ event.type # "slice"
    BY ProcessesAssumption DEF Counter, EventOK, ProcessRow, FileInv
  <2> HIDE DEF event
  <2> QED BY <2>1, <2>2, ReadsInvAside
<1>3. ASSUME NEW p \in Monitored, NEW ts \in 0..MaxTime, AddInstant(p, ts) PROVE ReadsInv'
  <2> DEFINE event == Instant(p, ts)
  <2>1. Hand(<<event>>) /\ Live /\ UNCHANGED read_to
    BY <1>3 DEF AddInstant, Calling
  <2>2. EventOK(event) /\ event.type # "slice"
    BY ProcessesAssumption DEF Instant, EventOK, ProcessRow
  <2> HIDE DEF event
  <2> QED BY <2>1, <2>2, ReadsInvAside
<1>4. ASSUME NEW live \in SUBSET Monitored, ReportLiveness(live) PROVE ReadsInv'
  <2>1. /\ spans' = Widen(spans, [p \in live |-> {clock}])
        /\ UNCHANGED <<emitted, file, buffer, read_to, capture>>
    BY <1>4 DEF ReportLiveness, caller
  <2>2. DOMAIN spans \subseteq DOMAIN spans'
    BY <2>1, LivenessWidens DEF FileInv
  <2> QED BY <2>1, <2>2 DEF ReadsInv, OwnersKnown
<1>5. CASE UNCHANGED <<spans, emitted, file, buffer, read_to, capture>>
  BY <1>5 DEF ReadsInv
<1>6. ASSUME NEW p \in Monitored, Retire(p) PROVE ReadsInv'
  BY <1>5, <1>6 DEF Retire, state
<1>7. ASSUME NEW files \in Captures, NEW normalize \in BOOLEAN, Combine(files, normalize) PROVE ReadsInv'
  BY <1>7, ReadsInvCombine
<1>8. CASE Tick
  BY <1>5, <1>8 DEF Tick, state
<1>9. CASE Flush
  BY <1>9, ReadsInvFlush
<1>10. CASE Close
  BY <1>10, ReadsInvClose
<1>11. CASE UNCHANGED vars
  BY <1>5, <1>11 DEF vars, state, caller
<1> QED BY <1>1, <1>2, <1>3, <1>4, <1>6, <1>7, <1>8, <1>9, <1>10, <1>11 DEF Next

LEMMA MarksOnce ==
  ASSUME FileInv, BarsInv
  PROVE  OneEach(file)
<1>1. DOMAIN file = 1..Len(file) /\ Draws(file, BarsOut, DOMAIN spans)
  BY SeqFacts DEF FileInv, BarsInv
<1>2. LifetimesRow[1] = "Processes"
  BY DEF LifetimesRow
<1>3. SUFFICES ASSUME NEW i \in 1..Len(file), NEW j \in 1..Len(file),
                      file[i].type = "begin", file[j].type = "begin", file[i].row = file[j].row,
                      \/ file[i].row[1] = "process"
                      \/ file[i].row = LifetimesRow /\ file[i].name = file[j].name
               PROVE  i = j
  BY DEF OneEach
<1>4. /\ IsBar(file[i]) /\ IsBar(file[j])
      /\ MarkOf(file[i])[1] = file[i].row /\ MarkOf(file[j])[1] = file[i].row
      /\ MarkOf(file[i])[2] = file[i].name /\ MarkOf(file[j])[2] = file[j].name
  BY <1>2, <1>3 DEF IsBar, MarkOf
<1>5. MarkOf(file[i]) \in BarsOut /\ MarkOf(file[j]) \in BarsOut
  BY <1>1, <1>4 DEF Draws
<1>6. MarkOf(file[i]) = MarkOf(file[j])
  <2>1. CASE file[i].row[1] = "process"
    <3>1. \A q : SpanOf(q)[1] = LifetimesRow /\ BarOf(q)[2] = "Lifetime"
      BY DEF SpanOf, BarOf
    <3>2. MarkOf(file[i]) \in {BarOf(p) : p \in drawn} /\ MarkOf(file[j]) \in {BarOf(p) : p \in drawn}
      BY <1>2, <1>4, <1>5, <2>1, <3>1 DEF BarsOut
    <3>3. file[i].name = "Lifetime" /\ file[j].name = "Lifetime"
      BY <1>4, <3>1, <3>2
    <3> QED BY <1>3, <3>3 DEF MarkOf
  <2>2. CASE file[i].row = LifetimesRow /\ file[i].name = file[j].name
    BY <1>3, <2>2 DEF MarkOf
  <2> QED BY <1>3, <2>1, <2>2
<1> QED BY <1>1, <1>4, <1>6 DEF Draws

(***************************************************************************)
(* Every slice of a trace reads back as it was written, of any run and of  *)
(* whatever combine is given that gcmon wrote.                             *)
(***************************************************************************)
THEOREM SlicesAreReadBack ==
  ASSUME CapturesInOrder
  PROVE  Spec => []SlicesReadBack
<1>1. Init => FileInv /\ BarsInv /\ SpansInv /\ ReadsInv
  BY FileInvInit, BarsInvInit, SpansInvInit, ReadsInvInit
<1>2. (FileInv /\ BarsInv /\ SpansInv /\ ReadsInv) /\ [Next]_vars => (FileInv /\ BarsInv /\ SpansInv /\ ReadsInv)'
  BY FileInvStep, BarsInvStep, SpansInvStep, ReadsInvStep
<1>3. FileInv /\ BarsInv /\ SpansInv /\ ReadsInv => SlicesReadBack
  BY MarksOnce, FileReadsBack DEF ReadsInv
<1> QED BY <1>1, <1>2, <1>3, PTL DEF Spec

-----------------------------------------------------------------------------
(* Sequences again: what is put together in two ways is the same. *)

LEMMA SameSeq ==
  ASSUME NEW a, NEW b, IsSeq(a), IsSeq(b), Len(a) = Len(b), \A i \in 1..Len(a) : a[i] = b[i]
  PROVE  a = b
<1>1. a \in [1..Len(a) -> ToSet(a)] /\ b \in [1..Len(b) -> ToSet(b)]
  BY SeqFacts
<1>2. a = [i \in 1..Len(a) |-> a[i]] /\ b = [i \in 1..Len(a) |-> b[i]]
  BY <1>1
<1>3. [i \in 1..Len(a) |-> a[i]] = [i \in 1..Len(a) |-> b[i]]
  OBVIOUS
<1> QED BY <1>2, <1>3

LEMMA EmptyJoins ==
  ASSUME NEW a, IsSeq(a)
  PROVE  a \o <<>> = a /\ <<>> \o a = a
<1>1. a \in Seq(ToSet(a)) /\ <<>> \in Seq(ToSet(a))
  BY DEF IsSeq
<1> QED BY <1>1

(***************************************************************************)
(* Two enumerations of the same elements, each in the order of a relation  *)
(* that never holds both ways, are one.                                    *)
(***************************************************************************)
Enumerates(f, N, S, R) ==
  /\ N \in Nat /\ f \in [1..N -> S]
  /\ \A k, m \in 1..N : k < m => <<f[k], f[m]>> \in R
  /\ \A x \in S : \E k \in 1..N : f[k] = x

LEMMA SameOrder ==
  ASSUME NEW S, NEW R, \A x, y \in S : <<x, y>> \in R => <<y, x>> \notin R,
         NEW f, NEW N, Enumerates(f, N, S, R), NEW g, NEW M, Enumerates(g, M, S, R)
  PROVE  N = M /\ f = g
<1>0. /\ N \in Nat /\ M \in Nat /\ f \in [1..N -> S] /\ g \in [1..M -> S]
      /\ \A k, m \in 1..N : k < m => <<f[k], f[m]>> \in R
      /\ \A k, m \in 1..M : k < m => <<g[k], g[m]>> \in R
      /\ \A x \in S : \E k \in 1..N : f[k] = x
      /\ \A x \in S : \E k \in 1..M : g[k] = x
  BY DEF Enumerates
<1>1. \A k, m \in 1..N : f[k] = f[m] => k = m
  <2> SUFFICES ASSUME NEW k \in 1..N, NEW m \in 1..N, f[k] = f[m], k < m PROVE FALSE
    BY <1>0
  <2> QED BY <1>0
<1>2. \A k, m \in 1..M : g[k] = g[m] => k = m
  <2> SUFFICES ASSUME NEW k \in 1..M, NEW m \in 1..M, g[k] = g[m], k < m PROVE FALSE
    BY <1>0
  <2> QED BY <1>0
<1> DEFINE apart == {k \in Nat : k \in 1..N /\ k \in 1..M /\ f[k] # g[k]}
<1>3. apart = {}
  <2> SUFFICES ASSUME apart # {} PROVE FALSE
    OBVIOUS
  <2>1. apart \subseteq Nat
    OBVIOUS
  <2>2. PICK k \in apart : \A n \in apart : k <= n
    <3> HIDE DEF apart
    <3> QED BY <2>1, LeastNatural
  <2>3. k \in 1..N /\ k \in 1..M /\ f[k] # g[k] /\ f[k] \in S /\ g[k] \in S
    BY <1>0
  <2>4. \A n \in 1..N : n \in 1..M /\ n < k => f[n] = g[n]
    BY <1>0, <2>2, <2>3
  <2> HIDE DEF apart
  <2>5. PICK m \in 1..M : g[m] = f[k]
    BY <1>0, <2>3
  <2>6. PICK n \in 1..N : f[n] = g[k]
    BY <1>0, <2>3
  <2>7. k < m
    <3>1. CASE m < k
      <4>1. m \in 1..N /\ f[m] = g[m]
        BY <1>0, <2>3, <2>4, <3>1
      <4> QED BY <1>1, <2>3, <2>5, <3>1, <4>1
    <3> QED BY <1>0, <2>3, <2>5, <3>1
  <2>8. k < n
    <3>1. CASE n < k
      <4>1. n \in 1..M /\ f[n] = g[n]
        BY <1>0, <2>3, <2>4, <3>1
      <4> QED BY <1>2, <2>3, <2>6, <3>1, <4>1
    <3> QED BY <1>0, <2>3, <2>6, <3>1
  <2>9. <<g[k], f[k]>> \in R /\ <<f[k], g[k]>> \in R
    BY <1>0, <2>3, <2>5, <2>6, <2>7, <2>8
  <2> QED BY <1>0, <2>3, <2>9
<1>4. ASSUME NEW k \in 1..N, k \in 1..M PROVE f[k] = g[k]
  <2> SUFFICES ASSUME f[k] # g[k] PROVE FALSE
    OBVIOUS
  <2>1. k \in Nat
    BY <1>0
  <2>2. k \in apart
    BY <1>4, <2>1
  <2> QED BY <1>3, <2>2
<1> HIDE DEF apart
<1>5. ~(N < M)
  <2> SUFFICES ASSUME N < M PROVE FALSE
    OBVIOUS
  <2>1. N + 1 \in 1..M /\ g[N + 1] \in S
    BY <1>0
  <2>2. PICK k \in 1..N : f[k] = g[N + 1]
    BY <1>0, <2>1
  <2>3. k \in 1..M /\ k # N + 1
    BY <1>0
  <2> QED BY <1>2, <1>4, <2>1, <2>2, <2>3
<1>6. ~(M < N)
  <2> SUFFICES ASSUME M < N PROVE FALSE
    OBVIOUS
  <2>1. M + 1 \in 1..N /\ f[M + 1] \in S
    BY <1>0
  <2>2. PICK k \in 1..M : g[k] = f[M + 1]
    BY <1>0, <2>1
  <2>3. k \in 1..N /\ k # M + 1
    BY <1>0
  <2>4. f[k] = g[k]
    BY <1>4, <2>3
  <2> QED BY <1>1, <2>1, <2>2, <2>3, <2>4
<1>7. N = M
  BY <1>0, <1>5, <1>6
<1> QED BY <1>0, <1>4, <1>7

(* Whatever takes the places in order takes what At takes. *)
TakesAll(at, N, places) ==
  /\ N \in Nat /\ at \in [1..N -> places]
  /\ \A k, m \in 1..N : k < m => at[k] < at[m]
  /\ \A i \in places : \E k \in 1..N : at[k] = i

Picked(seq, at, N) == [k \in 1..N |-> seq[at[k]]]

LEMMA AtTakes ==
  ASSUME NEW seq, NEW n \in Nat, NEW places \in SUBSET (1..n), NEW at, NEW N, TakesAll(at, N, places)
  PROVE  At(seq, places) = Picked(seq, at, N)
<1> DEFINE M == Cardinality(places)
           R == {pair \in places \X places : pair[1] < pair[2]}
<1>1. PICK own \in [1..M -> places] :
        /\ M \in Nat
        /\ \A k, m \in 1..M : k < m <=> own[k] < own[m]
        /\ \A i \in places : \E k \in 1..M : own[k] = i
        /\ At(seq, places) = [k \in 1..M |-> seq[own[k]]]
        /\ IsSeq(At(seq, places)) /\ Len(At(seq, places)) = M
  BY AtPlaces
<1> HIDE DEF M
<1>2. \A x, y \in places : <<x, y>> \in R => <<y, x>> \notin R
  OBVIOUS
<1>3. Enumerates(at, N, places, R)
  BY DEF TakesAll, Enumerates
<1>4. Enumerates(own, M, places, R)
  BY <1>1 DEF Enumerates
<1> HIDE DEF R
<1>5. N = M /\ at = own
  BY ONLY <1>2, <1>3, <1>4, SameOrder
<1> QED BY <1>1, <1>5 DEF Picked

LEMMA AtAll ==
  ASSUME NEW s, IsSeq(s)
  PROVE  At(s, 1..Len(s)) = s
<1> DEFINE n == Len(s)
           at == [k \in 1..n |-> k]
<1>1. n \in Nat /\ s \in [1..n -> ToSet(s)]
  BY SeqFacts
<1> HIDE DEF n
<1>2. /\ at \in [1..n -> 1..n] /\ 1..n \in SUBSET (1..n)
      /\ \A k, m \in 1..n : k < m => at[k] < at[m]
      /\ \A i \in 1..n : \E k \in 1..n : at[k] = i
      /\ \A k \in 1..n : at[k] = k
  OBVIOUS
<1> HIDE DEF at
<1>3. At(s, 1..n) = [k \in 1..n |-> s[at[k]]]
  <2>1. TakesAll(at, n, 1..n)
    BY <1>1, <1>2 DEF TakesAll
  <2>2. At(s, 1..n) = Picked(s, at, n)
    BY ONLY <1>1, <1>2, <2>1, AtTakes
  <2> QED BY <2>2 DEF Picked
<1>4. At(s, 1..n) = [k \in 1..n |-> s[k]]
  BY <1>2, <1>3
<1> QED BY <1>1, <1>4 DEF n

(* Places of the first of two sequences, then places of the second. *)
Beside(P, d, Q) == P \cup {d + i : i \in Q}

Joinable(a, b, P, Q) ==
  IsSeq(a) /\ IsSeq(b) /\ P \subseteq 1..Len(a) /\ Q \subseteq 1..Len(b)

Joined(a, b, P, Q) == At(a \o b, Beside(P, Len(a), Q)) = At(a, P) \o At(b, Q)

LEMMA AtJoins == \A a, b, P, Q : Joinable(a, b, P, Q) => Joined(a, b, P, Q)
<1> SUFFICES ASSUME NEW a, NEW b, NEW P, NEW Q, Joinable(a, b, P, Q) PROVE Joined(a, b, P, Q)
  OBVIOUS
<1>a. IsSeq(a) /\ IsSeq(b) /\ P \subseteq 1..Len(a) /\ Q \subseteq 1..Len(b)
  BY DEF Joinable
<1> DEFINE d == Len(a)
           n == Len(b)
           c == a \o b
           both == Beside(P, d, Q)
           N == Cardinality(P)
           M == Cardinality(Q)
<1>1. /\ d \in Nat /\ n \in Nat /\ IsSeq(c) /\ Len(c) = d + n
      /\ \A i \in 1..d : c[i] = a[i]
      /\ \A i \in 1..n : c[d + i] = b[i]
  BY <1>a, SeqFacts, ConcatFacts
<1>2. P \in SUBSET (1..d) /\ Q \in SUBSET (1..n)
  BY <1>a
<1> HIDE DEF d, n, c
<1>3. PICK one \in [1..N -> P] :
        /\ N \in Nat
        /\ \A k, l \in 1..N : k < l <=> one[k] < one[l]
        /\ \A i \in P : \E k \in 1..N : one[k] = i
        /\ At(a, P) = [k \in 1..N |-> a[one[k]]]
        /\ IsSeq(At(a, P)) /\ Len(At(a, P)) = N
  BY <1>1, <1>2, AtPlaces
<1>4. PICK two \in [1..M -> Q] :
        /\ M \in Nat
        /\ \A k, l \in 1..M : k < l <=> two[k] < two[l]
        /\ \A i \in Q : \E k \in 1..M : two[k] = i
        /\ At(b, Q) = [k \in 1..M |-> b[two[k]]]
        /\ IsSeq(At(b, Q)) /\ Len(At(b, Q)) = M
  BY <1>1, <1>2, AtPlaces
<1> HIDE DEF N, M
<1> DEFINE at == [k \in 1..(N + M) |-> IF k <= N THEN one[k] ELSE d + two[k - N]]
           s == At(a, P)
           t == At(b, Q)
<1>5. /\ N + M \in Nat
      /\ \A k \in 1..N : at[k] = one[k] /\ k \in 1..(N + M)
      /\ \A k \in 1..M : at[N + k] = d + two[k] /\ N + k \in 1..(N + M)
      /\ \A k \in 1..(N + M) : k \in 1..N \/ (k - N \in 1..M /\ k = N + (k - N))
  <2>1. ASSUME NEW k \in 1..M PROVE at[N + k] = d + two[k] /\ N + k \in 1..(N + M)
    <3>1. N + k \in 1..(N + M) /\ ~(N + k <= N) /\ (N + k) - N = k
      BY <1>3, <1>4
    <3> QED BY <3>1
  <2>2. ASSUME NEW k \in 1..N PROVE at[k] = one[k] /\ k \in 1..(N + M)
    BY <1>3, <1>4
  <2>3. \A k \in 1..(N + M) : k \in 1..N \/ (k - N \in 1..M /\ k = N + (k - N))
    BY <1>3, <1>4
  <2> QED BY <1>3, <1>4, <2>1, <2>2, <2>3
<1>6. DOMAIN at = 1..(N + M) /\ at = [k \in 1..(N + M) |-> at[k]]
  OBVIOUS
<1> HIDE DEF at
<1>0. /\ \A i \in P : i \in both
      /\ \A i \in Q : d + i \in both
      /\ \A i \in both : i \in P \/ \E j \in Q : i = d + j
  BY DEF Beside
<1> HIDE DEF both
<1>7. both \in SUBSET (1..(d + n))
  <2>1. \A i \in P : i \in 1..(d + n)
    BY <1>1, <1>2
  <2>2. \A i \in Q : d + i \in 1..(d + n)
    BY <1>1, <1>2
  <2> QED BY <1>0, <2>1, <2>2
<1>8. \A k \in 1..(N + M) : at[k] \in both
  <2> SUFFICES ASSUME NEW k \in 1..(N + M) PROVE at[k] \in both
    OBVIOUS
  <2>1. CASE k \in 1..N
    <3>1. one[k] \in P
      BY <1>3, <2>1
    <3> QED BY <1>0, <1>5, <2>1, <3>1
  <2>2. CASE k - N \in 1..M /\ k = N + (k - N)
    <3>1. two[k - N] \in Q /\ at[N + (k - N)] = d + two[k - N]
      BY <1>5, <2>2
    <3> QED BY <1>0, <2>2, <3>1
  <2> QED BY <1>5, <2>1, <2>2
<1>9. \A k, l \in 1..(N + M) : k < l => at[k] < at[l]
  <2> SUFFICES ASSUME NEW k \in 1..(N + M), NEW l \in 1..(N + M), k < l PROVE at[k] < at[l]
    OBVIOUS
  <2>0. N \in Nat /\ M \in Nat /\ d \in Nat
    BY <1>1, <1>3, <1>4
  <2>1. CASE k \in 1..N /\ l \in 1..N
    <3>1. one[k] < one[l]
      BY <1>3, <2>1
    <3> QED BY <1>5, <2>1, <3>1
  <2>2. CASE k \in 1..N /\ l - N \in 1..M /\ l = N + (l - N)
    <3>1. one[k] \in 1..d /\ two[l - N] \in 1..n
      BY <1>2, <2>2
    <3>2. at[k] = one[k] /\ at[N + (l - N)] = d + two[l - N]
      BY <1>5, <2>2
    <3>3. at[l] = d + two[l - N]
      BY <2>2, <3>2
    <3> QED BY <1>1, <3>1, <3>2, <3>3
  <2>3. CASE k - N \in 1..M /\ k = N + (k - N) /\ l - N \in 1..M /\ l = N + (l - N)
    <3>1. k - N < l - N
      BY <2>0
    <3>2. two[k - N] < two[l - N] /\ two[k - N] \in 1..n /\ two[l - N] \in 1..n
      BY <1>2, <1>4, <2>3, <3>1
    <3>3. at[N + (k - N)] = d + two[k - N] /\ at[N + (l - N)] = d + two[l - N]
      BY <1>5, <2>3
    <3>4. at[k] = d + two[k - N] /\ at[l] = d + two[l - N]
      BY <2>3, <3>3
    <3> QED BY <1>1, <3>2, <3>4
  <2>4. CASE k - N \in 1..M /\ l \in 1..N
    BY <2>0, <2>4
  <2> QED BY <1>5, <2>1, <2>2, <2>3, <2>4
<1>10. \A i \in both : \E k \in 1..(N + M) : at[k] = i
  <2> SUFFICES ASSUME NEW i \in both PROVE \E k \in 1..(N + M) : at[k] = i
    OBVIOUS
  <2>1. CASE i \in P
    <3>1. PICK k \in 1..N : one[k] = i
      BY <1>3, <2>1
    <3> QED BY <1>5, <3>1
  <2>2. ASSUME NEW j \in Q, i = d + j PROVE \E k \in 1..(N + M) : at[k] = i
    <3>1. PICK k \in 1..M : two[k] = j
      BY <1>4
    <3>2. at[N + k] = i /\ N + k \in 1..(N + M)
      BY <1>5, <2>2, <3>1
    <3> QED BY <3>2
  <2> QED BY <1>0, <2>1, <2>2
<1>11. at \in [1..(N + M) -> both]
  BY <1>6, <1>8
<1>12. At(c, both) = [k \in 1..(N + M) |-> c[at[k]]]
  <2>1. d + n \in Nat
    BY <1>1
  <2>2. TakesAll(at, N + M, both)
    BY <1>5, <1>9, <1>10, <1>11 DEF TakesAll
  <2>3. At(c, both) = Picked(c, at, N + M)
    BY ONLY <1>7, <2>1, <2>2, AtTakes
  <2> QED BY <2>3 DEF Picked
<1> DEFINE u == At(c, both)
<1>13. IsSeq(s) /\ IsSeq(t) /\ Len(s) = N /\ Len(t) = M
  BY <1>3, <1>4
<1>14. \A k \in 1..N : u[k] = s[k]
  <2> SUFFICES ASSUME NEW k \in 1..N PROVE u[k] = s[k]
    OBVIOUS
  <2>1. one[k] \in 1..d
    BY <1>2, <1>3
  <2>2. s[k] = a[one[k]]
    BY <1>3
  <2>3. u[k] = c[one[k]]
    BY <1>5, <1>12
  <2> QED BY <1>1, <2>1, <2>2, <2>3
<1>15. \A k \in 1..M : u[N + k] = t[k]
  <2> SUFFICES ASSUME NEW k \in 1..M PROVE u[N + k] = t[k]
    OBVIOUS
  <2>1. two[k] \in 1..n
    BY <1>2, <1>4
  <2>2. t[k] = b[two[k]]
    BY <1>4
  <2>3. u[N + k] = c[d + two[k]]
    BY <1>5, <1>12
  <2> QED BY <1>1, <2>1, <2>2, <2>3
<1>16. DOMAIN u = 1..(N + M) /\ u = [k \in 1..(N + M) |-> u[k]]
  BY <1>12
<1> HIDE DEF s, t, u
<1>17. IsSeq(u) /\ Len(u) = N + M
  BY <1>5, <1>16, MadeSeq
<1>18. /\ IsSeq(s \o t) /\ Len(s \o t) = N + M
       /\ \A k \in 1..N : (s \o t)[k] = s[k]
       /\ \A k \in 1..M : (s \o t)[N + k] = t[k]
  BY <1>13, ConcatFacts
<1>19. \A k \in 1..(N + M) : u[k] = (s \o t)[k]
  BY <1>5, <1>14, <1>15, <1>18
<1>20. u = s \o t
  BY <1>17, <1>18, <1>19, SameSeq
<1> QED BY <1>20 DEF u, s, t, c, d, both, Joined

(* The first n parts of a sequence. *)
Leading(parts, n) == [i \in 1..n |-> parts[i]]

LEMMA LeadingIs ==
  ASSUME NEW parts, IsSeq(parts), NEW n \in 0..Len(parts)
  PROVE  /\ IsSeq(Leading(parts, n)) /\ Len(Leading(parts, n)) = n
         /\ \A i \in 1..n : Leading(parts, n)[i] = parts[i] /\ i \in 1..Len(parts)
<1> DEFINE s == Leading(parts, n)
<1>1. Len(parts) \in Nat /\ n \in Nat
  BY SeqFacts
<1>2. DOMAIN s = 1..n /\ s = [i \in 1..n |-> s[i]] /\ \A i \in 1..n : s[i] = parts[i]
  BY DEF Leading
<1> HIDE DEF s
<1>3. IsSeq(s) /\ Len(s) = n
  BY <1>1, <1>2, MadeSeq
<1>4. \A i \in 1..n : i \in 1..Len(parts)
  BY <1>1
<1> QED BY <1>2, <1>3, <1>4 DEF s

LEMMA LeadingEnds ==
  ASSUME NEW parts, IsSeq(parts)
  PROVE  Leading(parts, Len(parts)) = parts /\ Leading(parts, 0) = <<>>
<1> DEFINE n == Len(parts)
<1>1. n \in Nat /\ n \in 0..n /\ 0 \in 0..n
  BY SeqFacts
<1>2. /\ IsSeq(Leading(parts, n)) /\ Len(Leading(parts, n)) = n
      /\ \A i \in 1..n : Leading(parts, n)[i] = parts[i]
  BY <1>1, LeadingIs
<1>3. Leading(parts, n) = parts
  BY <1>2, SameSeq
<1>4. Leading(parts, 0) = <<>>
  BY DEF Leading
<1> QED BY <1>3, <1>4

LEMMA FlattenSteps ==
  ASSUME NEW parts, Len(parts) \in Nat, NEW h, IsFlatten(parts, h)
  PROVE  /\ Len(parts) # 0 => h[1] = parts[1]
         /\ \A k \in 1..(Len(parts) - 1) : h[k + 1] = h[k] \o parts[k + 1]
<1> DEFINE N == Len(parts)
<1>1. \A i \in 1..N : h[i] = IF i = 1 THEN parts[i] ELSE h[i - 1] \o parts[i]
  BY DEF IsFlatten
<1>2. ASSUME NEW k \in 1..(N - 1) PROVE h[k + 1] = h[k] \o parts[k + 1]
  <2>1. k + 1 \in 1..N /\ k + 1 # 1 /\ (k + 1) - 1 = k
    OBVIOUS
  <2>2. h[k + 1] = IF k + 1 = 1 THEN parts[k + 1] ELSE h[(k + 1) - 1] \o parts[k + 1]
    BY <1>1, <2>1
  <2> QED BY <2>1, <2>2
<1>3. N # 0 => h[1] = parts[1]
  <2> SUFFICES ASSUME N # 0 PROVE h[1] = parts[1]
    OBVIOUS
  <2>1. 1 \in 1..N
    OBVIOUS
  <2> QED BY <1>1, <2>1
<1> QED BY <1>2, <1>3

(* Flattening takes one part more at a time. *)
LEMMA FlattenGrows ==
  ASSUME NEW parts, IsSeq(parts), \A i \in 1..Len(parts) : IsSeq(parts[i])
  PROVE  /\ FlattenSeq(Leading(parts, 0)) = <<>>
         /\ FlattenSeq(parts) = FlattenSeq(Leading(parts, Len(parts)))
         /\ \A n \in 0..Len(parts) : IsSeq(FlattenSeq(Leading(parts, n)))
         /\ \A n \in 0..(Len(parts) - 1) :
              FlattenSeq(Leading(parts, n + 1)) = FlattenSeq(Leading(parts, n)) \o parts[n + 1]
<1> DEFINE N == Len(parts)
           flat(n) == FlattenSeq(Leading(parts, n))
<1>1. N \in Nat
  BY SeqFacts
<1>2. flat(0) = <<>>
  <2>1. Leading(parts, 0) = <<>>
    BY LeadingEnds
  <2>2. FlattenSeq(<<>>) = <<>>
    BY FlattenIs
  <2> QED BY <2>1, <2>2
<1>3. PICK h : IsFlatten(parts, h)
  BY <1>1, FlattenExists
<1>4. /\ N # 0 => h[1] = parts[1]
      /\ \A k \in 1..(N - 1) : h[k + 1] = h[k] \o parts[k + 1]
  BY <1>1, <1>3, FlattenSteps
<1>5. ASSUME NEW n \in 1..N PROVE flat(n) = h[n]
  <2> DEFINE lead == Leading(parts, n)
  <2>1. n \in 0..N /\ n \in Nat /\ n # 0
    BY <1>1
  <2>2. Len(lead) = n /\ \A i \in 1..n : lead[i] = parts[i] /\ i \in 1..N
    BY <2>1, LeadingIs
  <2> HIDE DEF lead
  <2>3. PICK g : IsFlatten(lead, g) /\ FlattenSeq(lead) = g[n]
    BY <2>1, <2>2, FlattenIs
  <2>4. /\ g[1] = lead[1]
        /\ \A k \in 1..(n - 1) : g[k + 1] = g[k] \o lead[k + 1]
    BY <2>1, <2>2, <2>3, FlattenSteps
  <2> DEFINE Same == {k \in Nat : k = 0 \/ g[k] = h[k]}
  <2>5. 0 \in Same
    OBVIOUS
  <2>6. ASSUME NEW k \in 0..(n - 1), k \in Same PROVE k + 1 \in Same
    <3>1. k + 1 \in 1..n /\ k + 1 \in 1..N /\ k + 1 \in Nat /\ (k + 1) - 1 = k /\ k \in Nat
      BY <2>1, <1>1
    <3>2. CASE k = 0
      <4>1. g[1] = parts[1] /\ h[1] = parts[1] /\ k + 1 = 1
        BY <1>1, <1>4, <2>2, <2>4, <3>1, <3>2
      <4> QED BY <3>1, <4>1
    <3>3. CASE k # 0
      <4>1. k \in 1..(n - 1) /\ k \in 1..(N - 1)
        BY <3>1, <3>3, <1>1, <2>1
      <4>2. g[k + 1] = g[k] \o parts[k + 1] /\ h[k + 1] = h[k] \o parts[k + 1]
        BY <1>4, <2>2, <2>4, <3>1, <4>1
      <4> QED BY <2>6, <3>1, <3>3, <4>2
    <3> QED BY <3>2, <3>3
  <2> HIDE DEF Same
  <2>7. n \in Same
    <3>1. n \in 0..n
      BY <2>1
    <3> QED BY ONLY <2>1, <2>5, <2>6, <3>1, UpTo
  <2> QED BY <2>1, <2>3, <2>7 DEF Same, lead
<1>6. ASSUME NEW n \in 0..N PROVE IsSeq(flat(n))
  <2>1. /\ IsSeq(Leading(parts, n)) /\ Len(Leading(parts, n)) = n
        /\ \A i \in 1..n : Leading(parts, n)[i] = parts[i] /\ i \in 1..Len(parts)
    BY LeadingIs
  <2> QED BY <2>1, FlattenElements
<1>7. ASSUME NEW n \in 0..(N - 1) PROVE flat(n + 1) = flat(n) \o parts[n + 1]
  <2>1. n + 1 \in 1..N /\ n \in Nat /\ (n + 1) - 1 = n /\ n \in 0..N
    BY <1>1
  <2>2. flat(n + 1) = h[n + 1]
    BY <1>5, <2>1
  <2>3. CASE n = 0
    <3>1. h[n + 1] = parts[n + 1] /\ IsSeq(parts[n + 1])
      BY <1>1, <1>4, <2>1, <2>3
    <3> HIDE DEF flat
    <3> QED BY <1>2, <2>2, <2>3, <3>1, EmptyJoins
  <2>4. CASE n # 0
    <3>0. n \in 1..(N - 1) /\ n \in 1..N
      BY <1>1, <2>1, <2>4
    <3>1. h[n + 1] = h[n] \o parts[n + 1] /\ n \in 1..N
      BY <1>4, <3>0
    <3> QED BY <1>5, <2>2, <3>1
  <2> QED BY <2>3, <2>4
<1>8. flat(N) = FlattenSeq(parts)
  BY LeadingEnds
<1> QED BY <1>2, <1>6, <1>7, <1>8

LEMMA FlattenJoins ==
  ASSUME NEW a, NEW b, IsSeq(a), IsSeq(b),
         \A i \in 1..Len(a) : IsSeq(a[i]), \A i \in 1..Len(b) : IsSeq(b[i])
  PROVE  FlattenSeq(a \o b) = FlattenSeq(a) \o FlattenSeq(b)
<1> DEFINE d == Len(a)
           n == Len(b)
           c == a \o b
           one == FlattenSeq(a)
           first(k) == FlattenSeq(Leading(b, k))
           whole(k) == FlattenSeq(Leading(c, k))
           Same == {k \in Nat : whole(d + k) = one \o first(k)}
<1>1. /\ d \in Nat /\ n \in Nat /\ IsSeq(c) /\ Len(c) = d + n
      /\ \A i \in 1..d : c[i] = a[i]
      /\ \A i \in 1..n : c[d + i] = b[i]
  BY SeqFacts, ConcatFacts
<1> HIDE DEF c
<1>2. \A i \in 1..Len(c) : IsSeq(c[i])
  <2> SUFFICES ASSUME NEW i \in 1..(d + n) PROVE IsSeq(c[i])
    BY <1>1
  <2>1. CASE i \in 1..d
    BY <1>1, <2>1
  <2>2. CASE i \notin 1..d
    <3>1. i - d \in 1..n /\ i = d + (i - d)
      BY <1>1, <2>2
    <3>2. c[d + (i - d)] = b[i - d]
      BY <1>1, <3>1
    <3> QED BY <3>1, <3>2
  <2> QED BY <2>1, <2>2
<1>3. IsSeq(one)
  BY FlattenElements
<1>4. /\ first(0) = <<>> /\ FlattenSeq(b) = first(n)
      /\ \A k \in 0..n : IsSeq(first(k))
      /\ \A k \in 0..(n - 1) : first(k + 1) = first(k) \o b[k + 1]
  BY FlattenGrows
<1>5. /\ FlattenSeq(c) = whole(d + n)
      /\ \A k \in 0..(d + n - 1) : whole(k + 1) = whole(k) \o c[k + 1]
  <2>1. /\ FlattenSeq(c) = whole(Len(c))
        /\ \A k \in 0..(Len(c) - 1) : whole(k + 1) = whole(k) \o c[k + 1]
    BY <1>1, <1>2, FlattenGrows
  <2> QED BY <1>1, <2>1
<1>6. Leading(c, d) = a
  <2>1. d \in 0..Len(c)
    BY <1>1
  <2>2. IsSeq(Leading(c, d)) /\ Len(Leading(c, d)) = d /\ \A i \in 1..d : Leading(c, d)[i] = c[i]
    BY <1>1, <2>1, LeadingIs
  <2> QED BY <1>1, <2>2, SameSeq
<1>7. whole(d) = one
  BY <1>6
<1> HIDE DEF d, n, one, first, whole
<1>8. 0 \in Same
  <2>1. d + 0 = d
    BY <1>1
  <2> QED BY <1>3, <1>4, <1>7, <2>1, EmptyJoins
<1>9. ASSUME NEW k \in 0..(n - 1), k \in Same PROVE k + 1 \in Same
  <2>1. d + k \in 0..(d + n - 1) /\ d + (k + 1) = (d + k) + 1 /\ k + 1 \in 1..n /\ k + 1 \in Nat /\ k \in 0..n
    BY <1>1
  <2>2. whole(d + (k + 1)) = whole(d + k) \o c[(d + k) + 1]
    BY <1>5, <2>1
  <2>3. c[(d + k) + 1] = b[k + 1] /\ IsSeq(b[k + 1])
    <3>1. c[d + (k + 1)] = b[k + 1]
      BY <1>1, <2>1
    <3> QED BY <2>1, <3>1 DEF n
  <2>4. whole(d + k) = one \o first(k)
    BY <1>9
  <2>5. (one \o first(k)) \o b[k + 1] = one \o (first(k) \o b[k + 1])
    <3>1. IsSeq(first(k))
      BY <1>4, <2>1
    <3> DEFINE x == first(k)
               y == b[k + 1]
    <3>2. IsSeq(y) /\ IsSeq(x)
      BY <2>3, <3>1
    <3> HIDE DEF x, y
    <3>3. (one \o x) \o y = one \o (x \o y)
      BY ONLY <1>3, <3>2, ConcatAssociates
    <3> QED BY <3>3 DEF x, y
  <2>6. first(k + 1) = first(k) \o b[k + 1]
    BY <1>4
  <2>7. whole(d + (k + 1)) = one \o first(k + 1)
    BY <2>2, <2>3, <2>4, <2>5, <2>6
  <2> QED BY <2>1, <2>7
<1> HIDE DEF Same
<1>10. n \in Same
  <2>1. n \in 0..n
    BY <1>1
  <2> QED BY ONLY <1>1, <1>8, <1>9, <2>1, UpTo
<1>11. whole(d + n) = one \o first(n)
  BY <1>10 DEF Same
<1> QED BY <1>4, <1>5, <1>11 DEF c, one

-----------------------------------------------------------------------------
(* A capture is converted pid by pid. *)

PidEvents(lines, pid) ==
  LET items == LossInTimeOrder(ItemsOf(lines, pid))
  IN  FlattenSeq([i \in DOMAIN items |-> Convert(pid, items[i])])

PidParts(lines) == [i \in DOMAIN PidOrder(lines) |-> PidEvents(lines, PidOrder(lines)[i])]

LEMMA PidConverts ==
  ASSUME NEW lines \in Seq(Line), NEW pid \in Processes
  PROVE  EventsOK(PidEvents(lines, pid)) /\ Owners(PidEvents(lines, pid)) \subseteq {pid}
<1> DEFINE own == LossInTimeOrder(ItemsOf(lines, pid))
           n == Len(ItemsOf(lines, pid))
           converted == [i \in DOMAIN own |-> Convert(pid, own[i])]
<1>1. /\ n \in Nat /\ DOMAIN ItemsOf(lines, pid) = 1..n
      /\ \A i \in 1..n : ItemsOf(lines, pid)[i] \in Captured
  BY LinesOfPid
<1>2. DOMAIN own = 1..n /\ \A i \in 1..n : own[i] \in Captured
  <2> HIDE DEF n
  <2> QED BY <1>1, LossOrderKeeps
<1> HIDE DEF own, n
<1>3. DOMAIN converted = 1..n /\ converted = [i \in 1..n |-> converted[i]]
  BY <1>2
<1>4. ASSUME NEW i \in 1..n PROVE EventsOK(converted[i]) /\ Owners(converted[i]) \subseteq {pid}
  <2>1. ItemOK(own[i]) /\ converted[i] = Convert(pid, own[i])
    BY <1>2, ItemsAreOK
  <2> QED BY <2>1, ConvertsToEvents
<1> HIDE DEF converted
<1>5. IsSeq(converted) /\ Len(converted) = n
  BY <1>1, <1>3, MadeSeq
<1>6. EventsOK(FlattenSeq(converted))
  BY <1>4, <1>5, EventsFlatten
<1>7. \A i \in 1..n : IsSeq(converted[i])
  BY <1>4 DEF EventsOK
<1>8. /\ IsSeq(FlattenSeq(converted))
      /\ \A e : e \in ToSet(FlattenSeq(converted)) <=> \E i \in 1..n : e \in ToSet(converted[i])
  BY <1>5, <1>7, FlattenElements
<1>9. ASSUME NEW e \in ToSet(FlattenSeq(converted)) PROVE Owner(e) = pid
  <2>1. PICK i \in 1..n : e \in ToSet(converted[i])
    BY <1>8
  <2>2. \E k \in DOMAIN converted[i] : e = converted[i][k]
    BY <2>1 DEF ToSet
  <2>3. Owner(e) \in Owners(converted[i])
    BY <2>2 DEF Owners
  <2> QED BY <1>4, <2>3
<1>10. Owners(FlattenSeq(converted)) \subseteq {pid}
  BY <1>9 DEF Owners, ToSet
<1> QED BY <1>6, <1>10 DEF PidEvents, converted, own

LEMMA AtNone == \A s : At(s, {}) = <<>>
<1> SUFFICES ASSUME NEW s PROVE At(s, {}) = <<>>
  OBVIOUS
<1> DEFINE at == [k \in 1..0 |-> 0]
<1>1. {} \in SUBSET (1..0) /\ 0 \in Nat
  OBVIOUS
<1>2. TakesAll(at, 0, {})
  BY DEF TakesAll
<1>3. At(s, {}) = Picked(s, at, 0)
  <2> HIDE DEF at
  <2> QED BY ONLY <1>1, <1>2, AtTakes
<1> QED BY <1>3 DEF Picked

(* The pids of a file, each once, are those its lines have. *)
LEMMA PidOrderIs ==
  ASSUME NEW lines \in Seq(Line)
  PROVE  /\ IsSeq(PidOrder(lines)) /\ ToSet(PidOrder(lines)) = PidsOf(lines)
         /\ \A k, m \in 1..Len(PidOrder(lines)) : PidOrder(lines)[k] = PidOrder(lines)[m] => k = m
         /\ \A k \in 1..Len(PidOrder(lines)) : PidOrder(lines)[k] \in Processes /\ PidOrder(lines)[k] \in PidsOf(lines)
<1> DEFINE pids == [i \in DOMAIN lines |-> lines[i].pid]
           n == Len(lines)
<1>1. n \in Nat /\ DOMAIN lines = 1..n
  OBVIOUS
<1>2. DOMAIN pids = 1..n /\ pids = [i \in 1..n |-> pids[i]]
  BY <1>1
<1>3. ToSet(pids) = PidsOf(lines)
  BY DEF ToSet, PidsOf
<1>4. PidOrder(lines) = At(pids, Firsts(pids))
  BY DEF PidOrder, Distinct
<1>5. Firsts(pids) = {i \in Firsts(pids) : pids[i] \in ToSet(pids)}
  BY DEF Firsts, ToSet
<1> HIDE DEF pids, n
<1>6. IsSeq(pids)
  BY <1>1, <1>2, MadeSeq
<1>7. PidOrder(lines) = FirstsIn(pids, ToSet(pids))
  BY <1>4, <1>5 DEF FirstsIn
<1>8. /\ IsSeq(PidOrder(lines)) /\ ToSet(PidOrder(lines)) = ToSet(pids)
      /\ \A k, m \in 1..Len(PidOrder(lines)) : PidOrder(lines)[k] = PidOrder(lines)[m] => k = m
  <2> DEFINE first == FirstsIn(pids, ToSet(pids))
  <2>1. /\ IsSeq(first) /\ ToSet(first) = ToSet(pids) \cap ToSet(pids)
        /\ \A k, m \in 1..Len(first) : first[k] = first[m] => k = m
    BY ONLY <1>6, FirstsInFacts
  <2>2. PidOrder(lines) = first
    BY <1>7
  <2> HIDE DEF first
  <2> QED BY <2>1, <2>2
<1>9. \A k \in 1..Len(PidOrder(lines)) : PidOrder(lines)[k] \in Processes
  BY PidsOfLines
<1>10. \A k \in 1..Len(PidOrder(lines)) : PidOrder(lines)[k] \in ToSet(PidOrder(lines))
  BY <1>8, SeqFacts
<1> QED BY <1>3, <1>8, <1>9, <1>10

LEMMA LinesJoin ==
  ASSUME NEW a \in Seq(Line), NEW b \in Seq(Line)
  PROVE  /\ a \o b \in Seq(Line) /\ IsSeq(a) /\ IsSeq(b)
         /\ Len(a) \in Nat /\ Len(b) \in Nat /\ Len(a \o b) = Len(a) + Len(b)
         /\ DOMAIN a = 1..Len(a) /\ DOMAIN b = 1..Len(b) /\ DOMAIN (a \o b) = 1..(Len(a) + Len(b))
         /\ \A i \in 1..Len(a) : (a \o b)[i] = a[i]
         /\ \A i \in 1..Len(b) : (a \o b)[Len(a) + i] = b[i]
<1> DEFINE c == a \o b
<1>1. IsSeq(a) /\ IsSeq(b) /\ c \in Seq(Line)
  BY SeqOfAny
<1>2. /\ Len(c) = Len(a) + Len(b)
      /\ \A i \in 1..Len(a) : c[i] = a[i]
      /\ \A i \in 1..Len(b) : c[Len(a) + i] = b[i]
  BY <1>1, ConcatFacts
<1> HIDE DEF c
<1>3. Len(a) \in Nat /\ Len(b) \in Nat /\ DOMAIN a = 1..Len(a) /\ DOMAIN b = 1..Len(b) /\ DOMAIN c = 1..Len(c)
  BY <1>1
<1> QED BY <1>1, <1>2, <1>3 DEF c

(* Whose lines they are, with the lines of others after or ahead of them. *)
LEMMA ItemsJoin ==
  ASSUME NEW a \in Seq(Line), NEW b \in Seq(Line), NEW pid
  PROVE  /\ pid \notin PidsOf(b) => ItemsOf(a \o b, pid) = ItemsOf(a, pid)
         /\ pid \notin PidsOf(a) => ItemsOf(a \o b, pid) = ItemsOf(b, pid)
<1> DEFINE d == Len(a)
           n == Len(b)
           c == a \o b
           P == {i \in DOMAIN a : a[i].pid = pid}
           Q == {i \in DOMAIN b : b[i].pid = pid}
           both == {i \in DOMAIN c : c[i].pid = pid}
<1>1. /\ d \in Nat /\ n \in Nat /\ IsSeq(a) /\ IsSeq(b)
      /\ DOMAIN a = 1..d /\ DOMAIN b = 1..n /\ DOMAIN c = 1..(d + n)
      /\ \A i \in 1..d : c[i] = a[i]
      /\ \A i \in 1..n : c[d + i] = b[i]
  BY LinesJoin
<1> HIDE DEF c
<1>2. both = P \cup {d + i : i \in Q}
  <2>1. ASSUME NEW i \in both PROVE i \in P \cup {d + j : j \in Q}
    <3>1. CASE i \in 1..d
      BY <1>1, <3>1
    <3>2. CASE i \notin 1..d
      <4>1. i - d \in 1..n /\ i = d + (i - d)
        BY <1>1, <3>2
      <4>2. c[d + (i - d)] = b[i - d]
        BY <1>1, <4>1
      <4>3. i - d \in Q
        BY <1>1, <4>1, <4>2
      <4> QED BY <4>1, <4>3
    <3> QED BY <3>1, <3>2
  <2>2. ASSUME NEW i \in P PROVE i \in both
    BY <1>1
  <2>3. ASSUME NEW i \in Q PROVE d + i \in both
    <3>1. d + i \in 1..(d + n) /\ c[d + i] = b[i]
      BY <1>1
    <3> QED BY <1>1, <3>1
  <2> HIDE DEF both, P, Q
  <2> QED BY <2>1, <2>2, <2>3
<1>3. P \in SUBSET (1..Len(a)) /\ Q \in SUBSET (1..Len(b))
  BY <1>1
<1>4. At(c, both) = At(a, P) \o At(b, Q)
  <2>1. both = Beside(P, Len(a), Q)
    BY <1>2 DEF Beside
  <2> HIDE DEF P, Q, both, d
  <2>2. IsSeq(a) /\ IsSeq(b) /\ P \subseteq 1..Len(a) /\ Q \subseteq 1..Len(b)
    BY <1>1, <1>3
  <2>3. At(a \o b, Beside(P, Len(a), Q)) = At(a, P) \o At(b, Q)
    <3>1. Joinable(a, b, P, Q)
      BY <2>2 DEF Joinable
    <3>2. Joined(a, b, P, Q)
      BY ONLY <3>1, AtJoins
    <3> QED BY <3>2 DEF Joined
  <2> QED BY <2>1, <2>3 DEF c
<1>5. (pid \notin PidsOf(b) => Q = {}) /\ (pid \notin PidsOf(a) => P = {})
  BY DEF PidsOf
<1>6. /\ ItemsOf(c, pid) = [i \in DOMAIN At(c, both) |-> At(c, both)[i].item]
      /\ ItemsOf(a, pid) = [i \in DOMAIN At(a, P) |-> At(a, P)[i].item]
      /\ ItemsOf(b, pid) = [i \in DOMAIN At(b, Q) |-> At(b, Q)[i].item]
  BY DEF ItemsOf
<1> HIDE DEF P, Q, both, d, n
<1>7. IsSeq(At(a, P)) /\ IsSeq(At(b, Q))
  <2>1. Taken(a, P) /\ Taken(b, Q)
    <3>1. Len(a) \in Nat /\ Len(b) \in Nat
      BY <1>1 DEF d, n
    <3> QED BY ONLY <1>3, <3>1, AtElements
  <2> QED BY <2>1 DEF Taken
<1>8. At(a, {}) = <<>> /\ At(b, {}) = <<>>
  BY AtNone
<1>9. pid \notin PidsOf(b) => At(c, both) = At(a, P)
  BY <1>4, <1>5, <1>7, <1>8, EmptyJoins
<1>10. pid \notin PidsOf(a) => At(c, both) = At(b, Q)
  BY <1>4, <1>5, <1>7, <1>8, EmptyJoins
<1>11. /\ pid \notin PidsOf(b) => ItemsOf(c, pid) = ItemsOf(a, pid)
       /\ pid \notin PidsOf(a) => ItemsOf(c, pid) = ItemsOf(b, pid)
  BY <1>6, <1>9, <1>10
<1> QED BY <1>11 DEF c

LEMMA PidsJoin ==
  ASSUME NEW a \in Seq(Line), NEW b \in Seq(Line), PidsOf(a) \cap PidsOf(b) = {}
  PROVE  PidOrder(a \o b) = PidOrder(a) \o PidOrder(b) /\ PidsOf(a \o b) = PidsOf(a) \cup PidsOf(b)
<1> DEFINE d == Len(a)
           n == Len(b)
           c == a \o b
           one == [i \in DOMAIN a |-> a[i].pid]
           two == [i \in DOMAIN b |-> b[i].pid]
           all == [i \in DOMAIN c |-> c[i].pid]
<1>1. /\ d \in Nat /\ n \in Nat
      /\ DOMAIN a = 1..d /\ DOMAIN b = 1..n /\ DOMAIN c = 1..(d + n)
      /\ \A i \in 1..d : c[i] = a[i]
      /\ \A i \in 1..n : c[d + i] = b[i]
  BY LinesJoin
<1> HIDE DEF c
<1>2. /\ DOMAIN one = 1..d /\ one = [i \in 1..d |-> one[i]]
      /\ DOMAIN two = 1..n /\ two = [i \in 1..n |-> two[i]]
      /\ DOMAIN all = 1..(d + n) /\ all = [i \in 1..(d + n) |-> all[i]]
      /\ \A i \in 1..d : all[i] = one[i] /\ i \in 1..(d + n)
      /\ \A i \in 1..n : all[d + i] = two[i] /\ d + i \in 1..(d + n)
      /\ \A i \in 1..(d + n) : i \in 1..d \/ (i - d \in 1..n /\ i = d + (i - d))
  <2>1. \A i \in 1..d : i \in 1..(d + n)
    BY <1>1
  <2>2. \A i \in 1..n : d + i \in 1..(d + n)
    BY <1>1
  <2>3. \A i \in 1..(d + n) : i \in 1..d \/ (i - d \in 1..n /\ i = d + (i - d))
    BY <1>1
  <2> QED BY <1>1, <2>1, <2>2, <2>3
<1>3. /\ \A i \in 1..d, j \in 1..n : one[i] # two[j]
  BY <1>1 DEF PidsOf
<1>4. PidsOf(c) = ToSet(all) /\ PidsOf(a) = ToSet(one) /\ PidsOf(b) = ToSet(two)
  BY DEF PidsOf, ToSet
<1>5. /\ PidOrder(c) = At(all, Firsts(all)) /\ PidOrder(a) = At(one, Firsts(one))
      /\ PidOrder(b) = At(two, Firsts(two))
  BY DEF PidOrder, Distinct
<1> HIDE DEF one, two, all, d, n
<1>6. /\ IsSeq(one) /\ Len(one) = d /\ IsSeq(two) /\ Len(two) = n /\ IsSeq(all) /\ Len(all) = d + n
  <2>1. d + n \in Nat
    BY <1>1
  <2> QED BY <1>1, <1>2, <2>1, MadeSeq
<1>7. all = one \o two
  <2>1. /\ IsSeq(one \o two) /\ Len(one \o two) = d + n
        /\ \A i \in 1..d : (one \o two)[i] = one[i]
        /\ \A i \in 1..n : (one \o two)[d + i] = two[i]
    BY <1>6, ConcatFacts
  <2>2. ASSUME NEW i \in 1..(d + n) PROVE all[i] = (one \o two)[i]
    <3>1. CASE i \in 1..d
      BY <1>2, <2>1, <3>1
    <3>2. CASE i - d \in 1..n /\ i = d + (i - d)
      <4>1. all[d + (i - d)] = two[i - d] /\ (one \o two)[d + (i - d)] = two[i - d]
        BY <1>2, <2>1, <3>2
      <4> QED BY <3>2, <4>1
    <3> QED BY <1>2, <3>1, <3>2
  <2> QED BY <1>6, <2>1, <2>2, SameSeq
<1>8. Firsts(all) = Firsts(one) \cup {d + i : i \in Firsts(two)}
  <2>1. ASSUME NEW i \in Firsts(all) PROVE i \in Firsts(one) \cup {d + j : j \in Firsts(two)}
    <3>1. i \in 1..(d + n) /\ \A j \in 1..(i - 1) : all[j] # all[i]
      BY <1>2 DEF Firsts
    <3>2. CASE i \in 1..d
      <4>1. \A j \in 1..(i - 1) : one[j] # one[i]
        <5> SUFFICES ASSUME NEW j \in 1..(i - 1) PROVE one[j] # one[i]
          OBVIOUS
        <5>1. j \in 1..d
          BY <1>1, <3>2
        <5> QED BY <1>2, <3>1, <3>2, <5>1
      <4> QED BY <1>2, <3>2, <4>1 DEF Firsts
    <3>3. CASE i - d \in 1..n /\ i = d + (i - d)
      <4> DEFINE k == i - d
      <4>1. k \in 1..n /\ all[i] = two[k]
        BY <1>2, <3>3
      <4>2. \A j \in 1..(k - 1) : two[j] # two[k]
        <5> SUFFICES ASSUME NEW j \in 1..(k - 1) PROVE two[j] # two[k]
          OBVIOUS
        <5>1. j \in 1..n /\ d + j \in 1..(i - 1)
          BY <1>1, <3>3
        <5>2. all[d + j] = two[j]
          BY <1>2, <5>1
        <5> QED BY <3>1, <4>1, <5>1, <5>2
      <4>3. k \in Firsts(two)
        BY <1>2, <4>1, <4>2 DEF Firsts
      <4> QED BY <3>3, <4>3
    <3> QED BY <1>2, <3>1, <3>2, <3>3
  <2>2. ASSUME NEW i \in Firsts(one) PROVE i \in Firsts(all)
    <3>1. i \in 1..d /\ \A j \in 1..(i - 1) : one[j] # one[i]
      BY <1>2 DEF Firsts
    <3>2. ASSUME NEW j \in 1..(i - 1) PROVE all[j] # all[i]
      <4>1. j \in 1..d
        BY <1>1, <3>1
      <4> QED BY <1>2, <3>1, <4>1
    <3> QED BY <1>2, <3>1, <3>2 DEF Firsts
  <2>3. ASSUME NEW k \in Firsts(two) PROVE d + k \in Firsts(all)
    <3>1. k \in 1..n /\ \A j \in 1..(k - 1) : two[j] # two[k]
      BY <1>2 DEF Firsts
    <3>2. ASSUME NEW j \in 1..((d + k) - 1) PROVE all[j] # all[d + k]
      <4>0. all[d + k] = two[k]
        BY <1>2, <3>1
      <4>1. j \in 1..(d + n) /\ all[d + k] = two[k]
        <5>1. j \in 1..(d + n)
          BY <1>1, <3>1
        <5> QED BY <4>0, <5>1
      <4>2. CASE j \in 1..d
        BY <1>2, <1>3, <3>1, <4>1, <4>2
      <4>3. CASE j - d \in 1..n /\ j = d + (j - d)
        <5>1. j - d \in 1..(k - 1)
          BY <1>1, <3>1, <4>3
        <5>2. all[d + (j - d)] = two[j - d]
          BY <1>2, <4>3
        <5> QED BY <3>1, <4>1, <4>3, <5>1, <5>2
      <4> QED BY <1>2, <4>1, <4>2, <4>3
    <3>3. d + k \in DOMAIN all
      BY <1>2, <3>1
    <3> QED BY <3>2, <3>3 DEF Firsts
  <2> QED BY <2>1, <2>2, <2>3
<1>9. Firsts(one) \in SUBSET (1..d) /\ Firsts(two) \in SUBSET (1..n)
  BY <1>2 DEF Firsts
<1>10. At(one \o two, Beside(Firsts(one), Len(one), Firsts(two)))
         = At(one, Firsts(one)) \o At(two, Firsts(two))
  <2> DEFINE P == Firsts(one)
             Q == Firsts(two)
  <2>1. P \subseteq 1..Len(one) /\ Q \subseteq 1..Len(two) /\ IsSeq(one) /\ IsSeq(two)
    BY <1>6, <1>9
  <2> HIDE DEF P, Q
  <2>2. At(one \o two, Beside(P, Len(one), Q)) = At(one, P) \o At(two, Q)
    <3>1. Joinable(one, two, P, Q)
      BY <2>1 DEF Joinable
    <3>2. Joined(one, two, P, Q)
      BY ONLY <3>1, AtJoins
    <3> QED BY <3>2 DEF Joined
  <2> QED BY <2>2 DEF P, Q
<1>11. PidOrder(c) = PidOrder(a) \o PidOrder(b)
  <2>1. Firsts(all) = Beside(Firsts(one), Len(one), Firsts(two))
    BY <1>6, <1>8 DEF Beside
  <2> QED BY <1>5, <1>7, <1>10, <2>1
<1>12. PidsOf(c) = PidsOf(a) \cup PidsOf(b)
  BY <1>4, <1>6, <1>7, ConcatFacts
<1> QED BY <1>11, <1>12 DEF c

LEMMA CaptureIs == \A lines : ConvertCapture(lines) = FlattenSeq(PidParts(lines))
BY DEF ConvertCapture, PidParts, PidEvents

LEMMA PidPartsAre ==
  ASSUME NEW lines \in Seq(Line)
  PROVE  /\ IsSeq(PidParts(lines)) /\ Len(PidParts(lines)) = Len(PidOrder(lines))
         /\ \A i \in 1..Len(PidOrder(lines)) :
              /\ PidParts(lines)[i] = PidEvents(lines, PidOrder(lines)[i])
              /\ EventsOK(PidParts(lines)[i]) /\ IsSeq(PidParts(lines)[i])
              /\ Owners(PidParts(lines)[i]) \subseteq {PidOrder(lines)[i]}
<1> DEFINE pids == PidOrder(lines)
           n == Len(pids)
           parts == PidParts(lines)
<1>1. IsSeq(pids) /\ \A i \in 1..n : pids[i] \in Processes
  BY PidOrderIs
<1>2. n \in Nat /\ DOMAIN pids = 1..n
  BY <1>1, SeqFacts
<1>3. parts = [i \in 1..n |-> PidEvents(lines, pids[i])]
  BY <1>2 DEF PidParts
<1> HIDE DEF pids, n, parts
<1>4. DOMAIN parts = 1..n /\ parts = [i \in 1..n |-> parts[i]]
  BY <1>3
<1>5. IsSeq(parts) /\ Len(parts) = n
  BY <1>2, <1>4, MadeSeq
<1>6. \A i \in 1..n : /\ parts[i] = PidEvents(lines, pids[i])
                      /\ EventsOK(parts[i]) /\ IsSeq(parts[i]) /\ Owners(parts[i]) \subseteq {pids[i]}
  <2> SUFFICES ASSUME NEW i \in 1..n
               PROVE  /\ parts[i] = PidEvents(lines, pids[i])
                      /\ EventsOK(parts[i]) /\ IsSeq(parts[i]) /\ Owners(parts[i]) \subseteq {pids[i]}
    OBVIOUS
  <2>1. parts[i] = PidEvents(lines, pids[i])
    BY <1>3
  <2>2. EventsOK(parts[i]) /\ Owners(parts[i]) \subseteq {pids[i]}
    BY <1>1, <2>1, PidConverts
  <2> QED BY <2>1, <2>2 DEF EventsOK
<1> QED BY <1>5, <1>6 DEF pids, n, parts

(* Captures of different pids, one after the other. *)
LEMMA CapturesJoin ==
  ASSUME NEW a \in Seq(Line), NEW b \in Seq(Line), PidsOf(a) \cap PidsOf(b) = {}
  PROVE  ConvertCapture(a \o b) = ConvertCapture(a) \o ConvertCapture(b)
<1> DEFINE c == a \o b
           d == Len(PidOrder(a))
           n == Len(PidOrder(b))
           x == PidParts(a)
           y == PidParts(b)
           z == PidParts(c)
<1>0. c \in Seq(Line)
  BY LinesJoin
<1>1. PidOrder(c) = PidOrder(a) \o PidOrder(b)
  BY PidsJoin
<1>2. /\ IsSeq(PidOrder(a)) /\ IsSeq(PidOrder(b)) /\ d \in Nat /\ n \in Nat
      /\ Len(PidOrder(c)) = d + n
      /\ \A i \in 1..d : PidOrder(c)[i] = PidOrder(a)[i]
      /\ \A i \in 1..n : PidOrder(c)[d + i] = PidOrder(b)[i]
  BY <1>1, PidOrderIs, SeqFacts, ConcatFacts
<1>3. \A pid : /\ pid \in PidsOf(a) => PidEvents(c, pid) = PidEvents(a, pid)
               /\ pid \in PidsOf(b) => PidEvents(c, pid) = PidEvents(b, pid)
  <2> SUFFICES ASSUME NEW pid
               PROVE  /\ pid \in PidsOf(a) => PidEvents(c, pid) = PidEvents(a, pid)
                      /\ pid \in PidsOf(b) => PidEvents(c, pid) = PidEvents(b, pid)
    OBVIOUS
  <2>1. /\ pid \in PidsOf(a) => ItemsOf(c, pid) = ItemsOf(a, pid)
        /\ pid \in PidsOf(b) => ItemsOf(c, pid) = ItemsOf(b, pid)
    BY ItemsJoin
  <2> QED BY <2>1 DEF PidEvents
<1>4. /\ IsSeq(x) /\ Len(x) = d /\ IsSeq(y) /\ Len(y) = n
      /\ \A i \in 1..d : x[i] = PidEvents(a, PidOrder(a)[i]) /\ IsSeq(x[i]) /\ PidOrder(a)[i] \in PidsOf(a)
      /\ \A i \in 1..n : y[i] = PidEvents(b, PidOrder(b)[i]) /\ IsSeq(y[i]) /\ PidOrder(b)[i] \in PidsOf(b)
  BY PidPartsAre, PidOrderIs
<1>5. /\ IsSeq(z) /\ Len(z) = Len(PidOrder(c))
      /\ \A i \in 1..Len(PidOrder(c)) : z[i] = PidEvents(c, PidOrder(c)[i])
  BY <1>0, PidPartsAre
<1>6. ConvertCapture(c) = FlattenSeq(z) /\ ConvertCapture(a) = FlattenSeq(x) /\ ConvertCapture(b) = FlattenSeq(y)
  BY CaptureIs
<1> HIDE DEF c, d, n, x, y, z
<1>7. /\ IsSeq(x \o y) /\ Len(x \o y) = d + n
      /\ \A i \in 1..d : (x \o y)[i] = x[i]
      /\ \A i \in 1..n : (x \o y)[d + i] = y[i]
  BY <1>4, ConcatFacts
<1>8. ASSUME NEW i \in 1..(d + n) PROVE z[i] = (x \o y)[i]
  <2>1. CASE i \in 1..d
    <3>1. z[i] = PidEvents(c, PidOrder(a)[i]) /\ PidOrder(a)[i] \in PidsOf(a)
      BY <1>2, <1>4, <1>5, <2>1
    <3> QED BY <1>3, <1>4, <1>7, <2>1, <3>1
  <2>2. CASE i \notin 1..d
    <3> DEFINE k == i - d
    <3>1. k \in 1..n /\ i = d + k
      BY <1>2, <2>2
    <3> HIDE DEF k
    <3>2. z[i] = PidEvents(c, PidOrder(b)[k]) /\ PidOrder(b)[k] \in PidsOf(b)
      BY <1>2, <1>4, <1>5, <3>1
    <3> QED BY <1>3, <1>4, <1>7, <3>1, <3>2
  <2> QED BY <2>1, <2>2
<1>9. z = x \o y
  BY <1>2, <1>5, <1>7, <1>8, SameSeq
<1>10. FlattenSeq(x \o y) = FlattenSeq(x) \o FlattenSeq(y)
  BY <1>4, FlattenJoins
<1> QED BY <1>6, <1>9, <1>10 DEF c

-----------------------------------------------------------------------------
(* Files put end to end, and their lines pid by pid, convert to the same. *)

LEMMA FlattenOne ==
  ASSUME NEW part, IsSeq(part)
  PROVE  FlattenSeq(<<part>>) = part
<1> DEFINE parts == <<part>>
<1>1. IsSeq(parts) /\ Len(parts) = 1 /\ parts[1] = part
  BY OneIsSeq
<1> HIDE DEF parts
<1>2. \A i \in 1..Len(parts) : IsSeq(parts[i])
  BY <1>1
<1>3. /\ FlattenSeq(Leading(parts, 0)) = <<>>
      /\ FlattenSeq(parts) = FlattenSeq(Leading(parts, Len(parts)))
      /\ \A n \in 0..(Len(parts) - 1) :
              FlattenSeq(Leading(parts, n + 1)) = FlattenSeq(Leading(parts, n)) \o parts[n + 1]
  BY ONLY <1>1, <1>2, FlattenGrows
<1>4. FlattenSeq(Leading(parts, 1)) = FlattenSeq(Leading(parts, 0)) \o part
  <2>1. 0 \in 0..(Len(parts) - 1) /\ 0 + 1 = 1
    BY <1>1
  <2>2. FlattenSeq(Leading(parts, 0 + 1)) = FlattenSeq(Leading(parts, 0)) \o parts[0 + 1]
    BY <1>3, <2>1
  <2> QED BY <1>1, <2>1, <2>2
<1>5. FlattenSeq(parts) = <<>> \o part
  <2>1. FlattenSeq(parts) = FlattenSeq(Leading(parts, 1))
    BY <1>1, <1>3
  <2> QED BY <1>3, <1>4, <2>1
<1> QED BY <1>5, EmptyJoins DEF parts

LEMMA NoLines ==
  /\ <<>> \in Seq(Line) /\ PidsOf(<<>>) = {} /\ ConvertCapture(<<>>) = <<>>
<1>1. <<>> \in Seq(Line) /\ DOMAIN <<>> = {}
  OBVIOUS
<1>2. PidsOf(<<>>) = {}
  BY DEF PidsOf
<1>3. IsSeq(PidOrder(<<>>)) /\ ToSet(PidOrder(<<>>)) = {}
  BY <1>1, <1>2, PidOrderIs
<1>4. Len(PidOrder(<<>>)) = 0
  <2>1. Len(PidOrder(<<>>)) \in Nat /\ \A i \in 1..Len(PidOrder(<<>>)) : PidOrder(<<>>)[i] \in {}
    BY <1>3, SeqFacts
  <2> QED BY <2>1
<1>5. IsSeq(PidParts(<<>>)) /\ Len(PidParts(<<>>)) = 0
  BY <1>1, <1>4, PidPartsAre
<1>6. FlattenSeq(PidParts(<<>>)) = PidParts(<<>>)
  BY <1>5, FlattenIs
<1>7. PidParts(<<>>) = <<>>
  BY <1>5 DEF IsSeq
<1> QED BY <1>1, <1>2, <1>6, <1>7, CaptureIs

(* The lines of one pid: its own, and nobody else's. *)
OwnLines(lines, pid) == At(lines, {i \in DOMAIN lines : lines[i].pid = pid})

LEMMA OwnLinesAre ==
  ASSUME NEW lines \in Seq(Line), NEW pid \in PidsOf(lines)
  PROVE  /\ OwnLines(lines, pid) \in Seq(Line) /\ PidsOf(OwnLines(lines, pid)) = {pid}
         /\ ItemsOf(OwnLines(lines, pid), pid) = ItemsOf(lines, pid)
         /\ ConvertCapture(OwnLines(lines, pid)) = PidEvents(lines, pid)
<1> DEFINE places == {i \in DOMAIN lines : lines[i].pid = pid}
           own == OwnLines(lines, pid)
           n == Len(own)
<1>1. places \in SUBSET (1..Len(lines)) /\ Len(lines) \in Nat
  OBVIOUS
<1>2. own = At(lines, places)
  BY DEF OwnLines
<1>3. \A i \in places : lines[i] \in Line /\ lines[i].pid = pid
  OBVIOUS
<1>4. \E i : i \in places
  BY DEF PidsOf
<1>5. ItemsOf(lines, pid) = [i \in DOMAIN own |-> own[i].item]
  BY DEF ItemsOf, OwnLines
<1> HIDE DEF places, own, n
<1> DEFINE N == Cardinality(places)
<1>a. PICK at \in [1..N -> places] :
           /\ N \in Nat
           /\ \A k, m \in 1..N : k < m <=> at[k] < at[m]
           /\ \A i \in places : \E k \in 1..N : at[k] = i
           /\ At(lines, places) = [k \in 1..N |-> lines[at[k]]]
           /\ IsSeq(At(lines, places)) /\ Len(At(lines, places)) = N
  BY <1>1, AtPlaces
<1> HIDE DEF N
<1>6. /\ N \in Nat /\ n = N
      /\ \A i \in places : \E k \in 1..N : at[k] = i
      /\ own = [k \in 1..N |-> lines[at[k]]]
      /\ IsSeq(own)
  BY <1>2, <1>a DEF n
<1>7. n \in Nat /\ DOMAIN own = 1..n /\ \A k \in 1..n : own[k] \in Line /\ own[k].pid = pid
  BY <1>3, <1>6
<1>8. own \in Seq(Line)
  BY <1>6, <1>7 DEF n, IsSeq
<1>9. n # 0
  <2>1. PICK i \in places : TRUE
    BY <1>4
  <2>2. PICK k \in 1..n : at[k] = i
    BY <1>6
  <2> QED BY <1>7
<1>10. PidsOf(own) = {pid}
  <2>1. 1 \in DOMAIN own
    BY <1>7, <1>9
  <2> QED BY <1>7, <2>1 DEF PidsOf
<1>11. ItemsOf(own, pid) = ItemsOf(lines, pid)
  <2>1. {i \in DOMAIN own : own[i].pid = pid} = 1..n
    BY <1>7
  <2>2. At(own, {i \in DOMAIN own : own[i].pid = pid}) = own
    BY <1>6, <2>1, AtAll DEF n
  <2> QED BY <1>5, <2>2 DEF ItemsOf
<1>12. PidOrder(own) = <<pid>>
  <2> DEFINE pids == PidOrder(own)
  <2>1. /\ IsSeq(pids) /\ ToSet(pids) = {pid}
        /\ \A k, m \in 1..Len(pids) : pids[k] = pids[m] => k = m
    BY <1>8, <1>10, PidOrderIs
  <2> HIDE DEF pids
  <2>2. Len(pids) \in Nat /\ DOMAIN pids = 1..Len(pids) /\ \A k \in 1..Len(pids) : pids[k] = pid
    BY <2>1, SeqFacts
  <2>3. Len(pids) # 0
    BY <2>1, <2>2 DEF ToSet
  <2>4. ~(2 <= Len(pids))
    BY <2>1, <2>2
  <2>5. Len(pids) = 1 /\ pids[1] = pid
    BY <2>2, <2>3, <2>4
  <2>6. IsSeq(<<pid>>) /\ Len(<<pid>>) = 1 /\ <<pid>>[1] = pid
    BY OneIsSeq
  <2>7. \A i \in 1..1 : pids[i] = <<pid>>[i]
    BY <2>5, <2>6
  <2> QED BY <2>1, <2>5, <2>6, <2>7, SameSeq DEF pids
<1>13. PidEvents(own, pid) = PidEvents(lines, pid)
  BY <1>11 DEF PidEvents
<1> DEFINE mine == PidEvents(lines, pid)
<1>14. PidParts(own) = <<mine>>
  <2>1. /\ IsSeq(PidParts(own)) /\ Len(PidParts(own)) = 1 /\ PidParts(own)[1] = mine
    <3>1. Len(PidOrder(own)) = 1 /\ PidOrder(own)[1] = pid
      BY <1>12
    <3>2. /\ IsSeq(PidParts(own)) /\ Len(PidParts(own)) = Len(PidOrder(own))
          /\ \A i \in 1..Len(PidOrder(own)) : PidParts(own)[i] = PidEvents(own, PidOrder(own)[i])
      BY <1>8, PidPartsAre
    <3>3. 1 \in 1..Len(PidOrder(own))
      BY <3>1
    <3> QED BY <1>13, <3>1, <3>2, <3>3
  <2> HIDE DEF mine
  <2>2. IsSeq(<<mine>>) /\ Len(<<mine>>) = 1 /\ <<mine>>[1] = mine
    BY OneIsSeq
  <2>3. \A i \in 1..1 : PidParts(own)[i] = <<mine>>[i]
    BY <2>1, <2>2
  <2> QED BY <2>1, <2>2, <2>3, SameSeq
<1>15. IsSeq(mine)
  <2>1. pid \in Processes
    <3>1. PICK i \in places : TRUE
      BY <1>4
    <3> QED BY <1>3 DEF Line
  <2> QED BY <2>1, PidConverts DEF EventsOK
<1>16. ConvertCapture(own) = mine
  <2> HIDE DEF mine
  <2> QED BY <1>14, <1>15, CaptureIs, FlattenOne
<1> QED BY <1>8, <1>10, <1>11, <1>16 DEF own

(* Parts no two of which share a pid convert part by part. *)
Apart(parts) ==
  /\ IsSeq(parts) /\ \A i \in 1..Len(parts) : parts[i] \in Seq(Line)
  /\ \A i, j \in 1..Len(parts) : i # j => PidsOf(parts[i]) \cap PidsOf(parts[j]) = {}

Converted(parts) == [i \in 1..Len(parts) |-> ConvertCapture(parts[i])]

LEMMA ConvertedIs ==
  ASSUME NEW parts, Apart(parts)
  PROVE  /\ IsSeq(Converted(parts)) /\ Len(Converted(parts)) = Len(parts)
         /\ \A i \in 1..Len(parts) : /\ Converted(parts)[i] = ConvertCapture(parts[i])
                                     /\ EventsOK(Converted(parts)[i]) /\ IsSeq(Converted(parts)[i])
<1> DEFINE n == Len(parts)
           c == Converted(parts)
<1>1. n \in Nat
  BY SeqFacts DEF Apart
<1>2. c = [i \in 1..n |-> ConvertCapture(parts[i])]
  BY DEF Converted
<1> HIDE DEF c
<1>3. DOMAIN c = 1..n /\ c = [i \in 1..n |-> c[i]]
  BY <1>2
<1>4. ASSUME NEW i \in 1..n PROVE c[i] = ConvertCapture(parts[i]) /\ EventsOK(c[i]) /\ IsSeq(c[i])
  <2>1. c[i] = ConvertCapture(parts[i]) /\ parts[i] \in Seq(Line)
    BY <1>2 DEF Apart
  <2>2. EventsOK(ConvertCapture(parts[i]))
    BY <2>1, CaptureConverts
  <2> QED BY <2>1, <2>2 DEF EventsOK
<1> HIDE DEF n
<1>5. IsSeq(c) /\ Len(c) = n
  BY <1>1, <1>3, MadeSeq
<1> QED BY <1>4, <1>5 DEF c, n

LEMMA ConvertsByPart ==
  ASSUME NEW parts, Apart(parts)
  PROVE  /\ FlattenSeq(parts) \in Seq(Line)
         /\ ConvertCapture(FlattenSeq(parts)) = FlattenSeq(Converted(parts))
<1> DEFINE n == Len(parts)
           c == Converted(parts)
           lead(k) == FlattenSeq(Leading(parts, k))
           done(k) == FlattenSeq(Leading(c, k))
           Good(k) == /\ lead(k) \in Seq(Line)
                      /\ \A p \in PidsOf(lead(k)) : \E i \in 1..k : p \in PidsOf(parts[i])
                      /\ ConvertCapture(lead(k)) = done(k)
           Shown0 == {k \in Nat : Good(k)}
<1>1. /\ n \in Nat /\ IsSeq(parts) /\ \A i \in 1..n : parts[i] \in Seq(Line) /\ IsSeq(parts[i])
      /\ \A i, j \in 1..n : i # j => PidsOf(parts[i]) \cap PidsOf(parts[j]) = {}
  BY SeqFacts, SeqOfAny DEF Apart
<1>2. /\ IsSeq(c) /\ Len(c) = n
      /\ \A i \in 1..n : c[i] = ConvertCapture(parts[i]) /\ IsSeq(c[i])
  BY ConvertedIs
<1>3. /\ lead(0) = <<>> /\ FlattenSeq(parts) = lead(n)
      /\ \A k \in 0..(n - 1) : lead(k + 1) = lead(k) \o parts[k + 1]
  BY <1>1, FlattenGrows
<1> HIDE DEF n, c
<1>4. /\ done(0) = <<>> /\ FlattenSeq(c) = done(n)
      /\ \A k \in 0..(n - 1) : done(k + 1) = done(k) \o c[k + 1]
  <2>1. /\ IsSeq(c) /\ \A i \in 1..Len(c) : IsSeq(c[i])
    BY <1>2
  <2>2. /\ done(0) = <<>> /\ FlattenSeq(c) = done(Len(c))
        /\ \A k \in 0..(Len(c) - 1) : done(k + 1) = done(k) \o c[k + 1]
    BY <2>1, FlattenGrows
  <2> QED BY <1>2, <2>2
<1> HIDE DEF lead, done
<1>5. 0 \in Shown0
  BY <1>3, <1>4, NoLines
<1>6. ASSUME NEW k \in 0..(n - 1), k \in Shown0 PROVE k + 1 \in Shown0
  <2>1. k \in Nat /\ k + 1 \in Nat /\ k + 1 \in 1..n /\ k + 1 \in 1..(k + 1)
    BY <1>1
  <2>2. lead(k + 1) = lead(k) \o parts[k + 1] /\ done(k + 1) = done(k) \o c[k + 1]
    BY <1>3, <1>4
  <2> DEFINE a == lead(k)
             b == parts[k + 1]
  <2>3. a \in Seq(Line) /\ b \in Seq(Line)
    BY <1>1, <1>6, <2>1
  <2>4. PidsOf(a) \cap PidsOf(b) = {}
    <3> SUFFICES ASSUME NEW p \in PidsOf(a), p \in PidsOf(b) PROVE FALSE
      OBVIOUS
    <3>1. PICK i \in 1..k : p \in PidsOf(parts[i])
      BY <1>6
    <3>2. i \in 1..n /\ i # k + 1
      BY <1>1, <2>1
    <3> QED BY <1>1, <2>1, <3>1, <3>2
  <2>5. ConvertCapture(a) = done(k) /\ ConvertCapture(b) = c[k + 1]
    BY <1>2, <1>6, <2>1
  <2>6. \A p \in PidsOf(a) : \E i \in 1..k : p \in PidsOf(parts[i])
    BY <1>6
  <2>7. \A p \in PidsOf(b) : p \in PidsOf(parts[k + 1])
    OBVIOUS
  <2> HIDE DEF a, b
  <2>8. ConvertCapture(a \o b) = ConvertCapture(a) \o ConvertCapture(b) /\ a \o b \in Seq(Line)
        /\ PidsOf(a \o b) = PidsOf(a) \cup PidsOf(b)
    <3>1. ConvertCapture(a \o b) = ConvertCapture(a) \o ConvertCapture(b)
      BY ONLY <2>3, <2>4, CapturesJoin
    <3>2. PidsOf(a \o b) = PidsOf(a) \cup PidsOf(b)
      BY ONLY <2>3, <2>4, PidsJoin
    <3>3. a \o b \in Seq(Line)
      BY ONLY <2>3, LinesJoin
    <3> QED BY <3>1, <3>2, <3>3
  <2>9. lead(k + 1) = a \o b
    BY <2>2 DEF a, b
  <2>10. ASSUME NEW p \in PidsOf(lead(k + 1)) PROVE \E i \in 1..(k + 1) : p \in PidsOf(parts[i])
    <3>1. CASE p \in PidsOf(a)
      <4>1. PICK i \in 1..k : p \in PidsOf(parts[i])
        BY <2>6, <3>1
      <4>2. i \in 1..(k + 1)
        BY <2>1
      <4> QED BY <4>1, <4>2
    <3>2. CASE p \in PidsOf(b)
      BY <2>1, <2>7, <3>2
    <3> QED BY <2>8, <2>9, <3>1, <3>2
  <2>11. ConvertCapture(lead(k + 1)) = done(k + 1) /\ lead(k + 1) \in Seq(Line)
    BY <2>2, <2>5, <2>8, <2>9
  <2> QED BY <2>1, <2>10, <2>11
<1> HIDE DEF Shown0
<1>7. n \in Shown0
  <2>1. n \in 0..n
    BY <1>1
  <2> QED BY ONLY <1>1, <1>5, <1>6, <2>1, UpTo
<1>8. Good(n)
  BY <1>7 DEF Shown0
<1> QED BY <1>3, <1>4, <1>8 DEF c

(* What a merge writes is read as the files end to end are. *)
LEMMA MergeConverts ==
  ASSUME NEW files, FlattenSeq(files) \in Seq(Line)
  PROVE  /\ MergeLines(files) \in Seq(Line)
         /\ ConvertCapture(MergeLines(files)) = ConvertCapture(FlattenSeq(files))
<1> DEFINE all == FlattenSeq(files)
           pids == PidOrder(all)
           n == Len(pids)
           parts == [i \in DOMAIN pids |-> OwnLines(all, pids[i])]
<1>1. all \in Seq(Line)
  OBVIOUS
<1>2. MergeLines(files) = FlattenSeq(parts)
  BY DEF MergeLines, OwnLines
<1> HIDE DEF all
<1>3. /\ IsSeq(pids) /\ \A k, m \in 1..n : pids[k] = pids[m] => k = m
      /\ \A k \in 1..n : pids[k] \in PidsOf(all)
  BY <1>1, PidOrderIs
<1>4. n \in Nat /\ DOMAIN pids = 1..n
  BY <1>3, SeqFacts
<1> HIDE DEF pids, n
<1>5. DOMAIN parts = 1..n /\ parts = [i \in 1..n |-> parts[i]]
      /\ \A i \in 1..n : parts[i] = OwnLines(all, pids[i])
  BY <1>4
<1> HIDE DEF parts
<1>6. IsSeq(parts) /\ Len(parts) = n
  BY <1>4, <1>5, MadeSeq
<1>7. ASSUME NEW i \in 1..n
      PROVE  /\ parts[i] \in Seq(Line) /\ PidsOf(parts[i]) = {pids[i]}
             /\ ConvertCapture(parts[i]) = PidEvents(all, pids[i])
  BY <1>1, <1>3, <1>5, OwnLinesAre
<1>8. Apart(parts)
  BY <1>3, <1>6, <1>7 DEF Apart
<1>9. FlattenSeq(parts) \in Seq(Line) /\ ConvertCapture(FlattenSeq(parts)) = FlattenSeq(Converted(parts))
  BY <1>8, ConvertsByPart
<1>10. Converted(parts) = PidParts(all)
  <2>1. Converted(parts) = [i \in 1..n |-> PidEvents(all, pids[i])]
    BY <1>6, <1>7 DEF Converted
  <2>2. PidParts(all) = [i \in 1..n |-> PidEvents(all, pids[i])]
    BY <1>4 DEF PidParts, pids
  <2> QED BY <2>1, <2>2
<1>11. ConvertCapture(all) = FlattenSeq(PidParts(all))
  BY CaptureIs
<1> QED BY <1>2, <1>9, <1>10, <1>11 DEF all

-----------------------------------------------------------------------------
(* An item that is moved converts to its events, moved as far. *)

Moved(events, by) == [i \in DOMAIN events |-> ShiftEvent(events[i], by)]

(* What a moved item is. *)
MovesTo(item, s, by) ==
  /\ s.kind = item.kind /\ item.kind \in {"gc", "loss", "instant"}
  /\ item.ts \in Int /\ s.ts = item.ts - by
  /\ item.kind # "instant" => item.stop \in Int /\ s.stop = item.stop - by /\ s.iid = item.iid
  /\ item.kind = "loss" => s.gens = item.gens
  /\ item.kind = "gc" =>
       /\ s.gen = item.gen
       /\ s.from = [phase \in DOMAIN item.from |-> item.from[phase] - by]
       /\ s.upto = [phase \in DOMAIN item.upto |-> item.upto[phase] - by]

LEMMA ItemMoves ==
  ASSUME NEW item \in Captured, NEW by \in Int, NEW s, s = ShiftItem(item, by)
  PROVE  MovesTo(item, s, by)
<1>1. ItemOK(item) /\ DOMAIN item = Fields(item.kind)
  BY ItemsAreOK, FieldsAssumption
<1>2. CASE item.kind = "instant"
  <2>1. s = [item EXCEPT !.ts = @ - by]
    BY <1>2 DEF ShiftItem
  <2>2. "ts" \in DOMAIN item /\ "kind" \in DOMAIN item
    BY <1>1, <1>2 DEF Fields
  <2>3. s.ts = item.ts - by /\ s.kind = item.kind
    BY <2>1, <2>2
  <2> QED BY <1>1, <1>2, <2>3 DEF ItemOK, MovesTo
<1>3. CASE item.kind = "loss"
  <2>1. s = [item EXCEPT !.ts = @ - by, !.stop = @ - by]
    BY <1>3 DEF ShiftItem
  <2>2. {"kind", "iid", "ts", "stop", "gens"} \subseteq DOMAIN item
    BY <1>1, <1>3 DEF Fields
  <2>3. /\ s.ts = item.ts - by /\ s.stop = item.stop - by
        /\ s.kind = item.kind /\ s.iid = item.iid /\ s.gens = item.gens
    BY <2>1, <2>2
  <2> QED BY <1>1, <1>3, <2>3 DEF ItemOK, MovesTo
<1>4. CASE item.kind = "gc"
  <2> DEFINE from == [phase \in DOMAIN item.from |-> item.from[phase] - by]
             upto == [phase \in DOMAIN item.upto |-> item.upto[phase] - by]
  <2>1. s = [item EXCEPT !.ts = @ - by, !.stop = @ - by, !.from = from, !.upto = upto]
    BY <1>4 DEF ShiftItem
  <2>2. {"kind", "iid", "gen", "ts", "stop", "from", "upto"} \subseteq DOMAIN item
    BY <1>1, <1>4 DEF Fields
  <2> HIDE DEF from, upto
  <2>3. /\ s.ts = item.ts - by /\ s.stop = item.stop - by /\ s.from = from /\ s.upto = upto
        /\ s.kind = item.kind /\ s.iid = item.iid /\ s.gen = item.gen
    BY <2>1, <2>2
  <2> QED BY <1>1, <1>4, <2>3 DEF ItemOK, from, upto, MovesTo
<1> QED BY <1>1, <1>2, <1>3, <1>4 DEF ItemOK

LEMMA PhaseMoves ==
  ASSUME NEW item \in Captured, item.kind = "gc", NEW by \in Int, NEW s, s = ShiftItem(item, by),
         NEW phase \in DOMAIN item.upto
  PROVE  /\ phase \in DOMAIN s.upto
         /\ item.upto[phase] \in Int /\ s.upto[phase] = item.upto[phase] - by
         /\ PhaseStart(item, phase) \in Int /\ PhaseStart(s, phase) = PhaseStart(item, phase) - by
<1>1. /\ s.from = [ph \in DOMAIN item.from |-> item.from[ph] - by]
      /\ s.upto = [ph \in DOMAIN item.upto |-> item.upto[ph] - by]
  BY ItemMoves DEF MovesTo
<1>2. PhaseStart(item, phase) \in Int /\ item.upto[phase] \in Int
  BY ItemsAreOK DEF ItemOK
<1>3. StartMarked(item, phase)
  BY FieldsAssumption
<1>4. PhaseStart(s, phase) = PhaseStart(item, phase) - by
  <2>1. CASE phase = "finalize"
    BY <1>1, <1>3, <2>1 DEF StartMarked, PhaseStart
  <2>2. CASE phase = "resurrect"
    BY <1>1, <1>3, <2>2 DEF StartMarked, PhaseStart
  <2>3. CASE phase = "clear_weakrefs"
    BY <1>1, <1>3, <2>3 DEF StartMarked, PhaseStart
  <2>4. CASE phase \notin {"finalize", "resurrect", "clear_weakrefs"}
    BY <1>1, <1>3, <2>4 DEF StartMarked, PhaseStart
  <2> QED BY <2>1, <2>2, <2>3, <2>4
<1> QED BY <1>1, <1>2, <1>4

LEMMA MovedIs ==
  ASSUME NEW events, IsSeq(events), NEW by
  PROVE  /\ IsSeq(Moved(events, by)) /\ Len(Moved(events, by)) = Len(events)
         /\ \A i \in 1..Len(events) : Moved(events, by)[i] = ShiftEvent(events[i], by)
<1> DEFINE s == Moved(events, by)
           n == Len(events)
<1>1. n \in Nat /\ DOMAIN events = 1..n
  BY SeqFacts
<1>2. s = [i \in 1..n |-> ShiftEvent(events[i], by)]
  BY <1>1 DEF Moved
<1> HIDE DEF s, n
<1>3. DOMAIN s = 1..n /\ s = [i \in 1..n |-> s[i]] /\ \A i \in 1..n : s[i] = ShiftEvent(events[i], by)
  BY <1>2
<1>4. IsSeq(s) /\ Len(s) = n
  BY <1>1, <1>3, MadeSeq
<1> QED BY <1>3, <1>4 DEF s, n

LEMMA MovedJoins ==
  ASSUME NEW a, NEW b, IsSeq(a), IsSeq(b), NEW by
  PROVE  Moved(a \o b, by) = Moved(a, by) \o Moved(b, by)
<1> DEFINE d == Len(a)
           n == Len(b)
           c == a \o b
           x == Moved(a, by)
           y == Moved(b, by)
           z == Moved(c, by)
<1>1. /\ d \in Nat /\ n \in Nat /\ IsSeq(c) /\ Len(c) = d + n
      /\ \A i \in 1..d : c[i] = a[i]
      /\ \A i \in 1..n : c[d + i] = b[i]
  BY SeqFacts, ConcatFacts
<1>2. /\ IsSeq(x) /\ Len(x) = d /\ IsSeq(y) /\ Len(y) = n
      /\ \A i \in 1..d : x[i] = ShiftEvent(a[i], by)
      /\ \A i \in 1..n : y[i] = ShiftEvent(b[i], by)
  BY MovedIs
<1> HIDE DEF c
<1>3. IsSeq(z) /\ Len(z) = d + n /\ \A i \in 1..(d + n) : z[i] = ShiftEvent(c[i], by)
  BY <1>1, MovedIs
<1> HIDE DEF d, n, x, y, z
<1>4. /\ IsSeq(x \o y) /\ Len(x \o y) = d + n
      /\ \A i \in 1..d : (x \o y)[i] = x[i]
      /\ \A i \in 1..n : (x \o y)[d + i] = y[i]
  BY <1>2, ConcatFacts
<1>5. ASSUME NEW i \in 1..(d + n) PROVE z[i] = (x \o y)[i]
  <2>1. CASE i \in 1..d
    BY <1>1, <1>2, <1>3, <1>4, <2>1
  <2>2. CASE i \notin 1..d
    <3>1. i - d \in 1..n /\ i = d + (i - d)
      BY <1>1, <2>2
    <3>2. c[d + (i - d)] = b[i - d] /\ (x \o y)[d + (i - d)] = y[i - d] /\ y[i - d] = ShiftEvent(b[i - d], by)
      BY <1>1, <1>2, <1>4, <3>1
    <3> QED BY <1>3, <3>1, <3>2
  <2> QED BY <2>1, <2>2
<1>6. z = x \o y
  BY <1>3, <1>4, <1>5, SameSeq
<1> QED BY <1>6 DEF x, y, z, c

LEMMA MovedOne == \A event, by : Moved(<<event>>, by) = <<ShiftEvent(event, by)>>
BY DEF Moved

LEMMA CounterMoves ==
  ASSUME NEW row, NEW display, NEW ts, NEW by
  PROVE  ShiftEvent(Counter(row, display, ts), by) = Counter(row, display, ts - by)
BY DEF ShiftEvent, Counter

LEMMA SliceMoves ==
  ASSUME NEW row, NEW name, NEW ts, NEW stop, NEW lost, NEW pause, NEW by
  PROVE  ShiftEvent(Slice(row, name, ts, stop, lost, pause), by)
           = Slice(row, name, ts - by, stop - by, lost, pause)
BY DEF ShiftEvent, Slice

LEMMA PhasesMove ==
  ASSUME NEW item \in Captured, item.kind = "gc", NEW by \in Int, NEW s, s = ShiftItem(item, by), NEW p
  PROVE  PhaseSlices(p, s) = Moved(PhaseSlices(p, item), by)
<1> DEFINE places == {i \in DOMAIN PhaseOrder : Ran(item, PhaseOrder[i])}
           ran == At(PhaseOrder, places)
           row == ThreadRow(p, item.iid)
           n == Len(ran)
           one == PhaseSlices(p, item)
<1>1. s.iid = item.iid /\ DOMAIN s.upto = DOMAIN item.upto
  <2>1. s.iid = item.iid /\ s.upto = [phase \in DOMAIN item.upto |-> item.upto[phase] - by]
    BY ItemMoves DEF MovesTo
  <2> QED BY <2>1
<1>2. \A phase \in DOMAIN item.upto :
         /\ item.upto[phase] \in Int /\ s.upto[phase] = item.upto[phase] - by
         /\ PhaseStart(item, phase) \in Int /\ PhaseStart(s, phase) = PhaseStart(item, phase) - by
  BY PhaseMoves
<1>3. \A phase : Ran(s, phase) <=> Ran(item, phase)
  <2> SUFFICES ASSUME NEW phase, phase \in DOMAIN item.upto PROVE Ran(s, phase) <=> Ran(item, phase)
    BY <1>1 DEF Ran
  <2> DEFINE u == item.upto[phase]
             v == PhaseStart(item, phase)
  <2>1. u \in Int /\ v \in Int /\ s.upto[phase] = u - by /\ PhaseStart(s, phase) = v - by
    BY <1>2
  <2> HIDE DEF u, v
  <2>2. (u - by) - (v - by) > 0 <=> u - v > 0
    BY <2>1
  <2> QED BY <1>1, <2>1, <2>2 DEF Ran, u, v
<1>4. DOMAIN PhaseOrder = 1..8 /\ 8 \in Nat
  BY DEF PhaseOrder
<1>5. places \in SUBSET (1..8)
  BY <1>4
<1>6. {i \in DOMAIN PhaseOrder : Ran(s, PhaseOrder[i])} = places
  BY <1>3
<1>7. \A i \in places : PhaseOrder[i] \in DOMAIN item.upto
  BY DEF Ran
<1> HIDE DEF places
<1>8. Taken(PhaseOrder, places)
  BY <1>4, <1>5, AtElements
<1>9. n \in Nat /\ DOMAIN ran = 1..n /\ \A k \in 1..n : ran[k] \in DOMAIN item.upto
  BY <1>7, <1>8 DEF Taken
<1> HIDE DEF n, ran
<1>10. one = [k \in 1..n |-> Slice(row, ran[k], PhaseStart(item, ran[k]), item.upto[ran[k]], 0, 0)]
  BY <1>9 DEF PhaseSlices, ran, places
<1>11. PhaseSlices(p, s) = [k \in 1..n |-> Slice(row, ran[k], PhaseStart(s, ran[k]), s.upto[ran[k]], 0, 0)]
  BY <1>1, <1>6, <1>9 DEF PhaseSlices, ran
<1> HIDE DEF one, row
<1>12. ASSUME NEW k \in 1..n
       PROVE  Slice(row, ran[k], PhaseStart(s, ran[k]), s.upto[ran[k]], 0, 0) = ShiftEvent(one[k], by)
  <2>1. /\ PhaseStart(s, ran[k]) = PhaseStart(item, ran[k]) - by
        /\ s.upto[ran[k]] = item.upto[ran[k]] - by
    BY <1>2, <1>9
  <2>2. one[k] = Slice(row, ran[k], PhaseStart(item, ran[k]), item.upto[ran[k]], 0, 0)
    BY <1>10
  <2> QED BY <2>1, <2>2, SliceMoves
<1>13. Moved(one, by) = [k \in 1..n |-> ShiftEvent(one[k], by)]
  BY <1>10 DEF Moved
<1> QED BY <1>11, <1>12, <1>13 DEF one

LEMMA ConvertMoves ==
  ASSUME NEW p \in Processes, NEW item \in Captured, NEW by \in Int
  PROVE  Convert(p, ShiftItem(item, by)) = Moved(Convert(p, item), by)
<1>0. PICK s : s = ShiftItem(item, by)
  OBVIOUS
<1>1. /\ s.kind = item.kind /\ item.kind \in {"gc", "loss", "instant"}
      /\ s.ts = item.ts - by
      /\ item.kind # "instant" => s.stop = item.stop - by /\ s.iid = item.iid
      /\ item.kind = "loss" => s.gens = item.gens
      /\ item.kind = "gc" => s.gen = item.gen
  <2>1. MovesTo(item, s, by)
    BY <1>0, ItemMoves
  <2> QED BY <2>1 DEF MovesTo
<1>2. item.kind = "gc" => PhaseSlices(p, s) = Moved(PhaseSlices(p, item), by)
  BY <1>0, PhasesMove
<1>3. CASE item.kind = "instant"
  <2>1. Convert(p, item) = <<Instant(p, item.ts)>> /\ Convert(p, s) = <<Instant(p, item.ts - by)>>
    BY <1>1, <1>3 DEF Convert
  <2>2. ShiftEvent(Instant(p, item.ts), by) = Instant(p, item.ts - by)
    BY DEF ShiftEvent, Instant
  <2> QED BY <1>0, <2>1, <2>2, MovedOne
<1>4. CASE item.kind = "loss"
  <2> DEFINE row == LossRow(p, item.iid)
             lost == Total(item, "lost")
             pause == Total(item, "pause")
  <2>1. Convert(p, item) = <<Slice(row, "GC Loss", item.ts, item.stop, lost, pause)>>
    BY <1>4 DEF Convert, ConvertLoss
  <2>2. Convert(p, s) = <<Slice(row, "GC Loss", item.ts - by, item.stop - by, lost, pause)>>
    BY <1>1, <1>4 DEF Convert, ConvertLoss, Total
  <2> HIDE DEF row, lost, pause
  <2> DEFINE e == Slice(row, "GC Loss", item.ts, item.stop, lost, pause)
  <2>3. ShiftEvent(e, by) = Slice(row, "GC Loss", item.ts - by, item.stop - by, lost, pause)
    BY DEF ShiftEvent, Slice
  <2>4. Moved(<<e>>, by) = <<ShiftEvent(e, by)>>
    BY MovedOne
  <2> QED BY <1>0, <2>1, <2>2, <2>3, <2>4
<1>5. CASE item.kind = "gc"
  <2> DEFINE row == ThreadRow(p, item.iid)
             x == <<PauseSlice(p, item)>>
             y == PhaseSlices(p, item)
             z == Counters(p, item)
  <2>1. Convert(p, item) = x \o y \o z /\ Convert(p, s) = <<PauseSlice(p, s)>> \o PhaseSlices(p, s) \o Counters(p, s)
    BY <1>1, <1>5 DEF Convert, ConvertItem
  <2>2. <<PauseSlice(p, s)>> = Moved(x, by)
    <3>1. PauseSlice(p, s) = ShiftEvent(PauseSlice(p, item), by)
      <4>1. PauseSlice(p, item) = Slice(row, "GC Pause", item.ts, item.stop, 0, 0)
        BY DEF PauseSlice
      <4>2. PauseSlice(p, s) = Slice(row, "GC Pause", item.ts - by, item.stop - by, 0, 0)
        BY <1>1, <1>5 DEF PauseSlice
      <4> HIDE DEF row
      <4>3. ShiftEvent(Slice(row, "GC Pause", item.ts, item.stop, 0, 0), by)
              = Slice(row, "GC Pause", item.ts - by, item.stop - by, 0, 0)
        BY DEF ShiftEvent, Slice
      <4> QED BY <4>1, <4>2, <4>3
    <3> QED BY <3>1, MovedOne
  <2>3. Counters(p, s) = Moved(z, by)
    <3> DEFINE first == Counter(row, <<"collected", item.gen>>, item.ts)
               second == Counter(row, <<"heap_size", item.iid>>, item.ts)
    <3>1. z = <<first, second>>
      BY DEF Counters
    <3>2. Counters(p, s) = <<ShiftEvent(first, by), ShiftEvent(second, by)>>
      BY <1>1, <1>5, CounterMoves DEF Counters
    <3> HIDE DEF first, second, z
    <3> QED BY <3>1, <3>2 DEF Moved
  <2>4. IsSeq(x) /\ IsSeq(z)
    BY OneIsSeq DEF Counters, IsSeq, ToSet
  <2>5. IsSeq(y)
    <3> DEFINE ran == At(PhaseOrder, {i \in DOMAIN PhaseOrder : Ran(item, PhaseOrder[i])})
               places == {i \in DOMAIN PhaseOrder : Ran(item, PhaseOrder[i])}
    <3>1. places \in SUBSET (1..8) /\ 8 \in Nat
      BY DEF PhaseOrder
    <3> HIDE DEF places
    <3>2. Taken(PhaseOrder, places)
      BY <3>1, AtElements
    <3>3. Len(ran) \in Nat /\ DOMAIN ran = 1..Len(ran)
      BY <3>2 DEF Taken, places
    <3>4. DOMAIN y = DOMAIN ran /\ y = [i \in DOMAIN ran |-> y[i]]
      BY DEF PhaseSlices
    <3> HIDE DEF ran, y
    <3> QED BY <3>3, <3>4, MadeSeq
  <2> HIDE DEF x, y, z
  <2>6. Moved(x \o y \o z, by) = Moved(x, by) \o Moved(y, by) \o Moved(z, by)
    <3>1. IsSeq(x \o y)
      BY <2>4, <2>5, ConcatFacts
    <3>2. Moved(x \o y, by) = Moved(x, by) \o Moved(y, by)
      BY ONLY <2>4, <2>5, MovedJoins
    <3> DEFINE w == x \o y
    <3>3. IsSeq(w)
      BY <3>1
    <3> HIDE DEF w
    <3>4. Moved(w \o z, by) = Moved(w, by) \o Moved(z, by)
      BY ONLY <2>4, <3>3, MovedJoins
    <3> QED BY <3>2, <3>4 DEF w
  <2>7. PhaseSlices(p, s) = Moved(y, by)
    BY <1>2, <1>5 DEF y
  <2> QED BY <1>0, <2>1, <2>2, <2>3, <2>6, <2>7
<1> QED BY <1>1, <1>3, <1>4, <1>5

LEMMA MovedFlattens ==
  ASSUME NEW parts, IsSeq(parts), \A i \in 1..Len(parts) : IsSeq(parts[i]), NEW by, NEW moved,
         IsSeq(moved), Len(moved) = Len(parts), \A i \in 1..Len(parts) : moved[i] = Moved(parts[i], by)
  PROVE  FlattenSeq(moved) = Moved(FlattenSeq(parts), by)
<1> DEFINE n == Len(parts)
           one(k) == FlattenSeq(Leading(parts, k))
           two(k) == FlattenSeq(Leading(moved, k))
           Same == {k \in Nat : two(k) = Moved(one(k), by)}
<1>1. n \in Nat /\ \A i \in 1..n : IsSeq(moved[i])
  BY SeqFacts, MovedIs
<1>2. /\ one(0) = <<>> /\ FlattenSeq(parts) = one(n)
      /\ \A k \in 0..n : IsSeq(one(k))
      /\ \A k \in 0..(n - 1) : one(k + 1) = one(k) \o parts[k + 1]
  BY FlattenGrows
<1>3. /\ two(0) = <<>> /\ FlattenSeq(moved) = two(n)
      /\ \A k \in 0..(n - 1) : two(k + 1) = two(k) \o moved[k + 1]
  <2>1. /\ two(0) = <<>> /\ FlattenSeq(moved) = two(Len(moved))
        /\ \A k \in 0..(Len(moved) - 1) : two(k + 1) = two(k) \o moved[k + 1]
    BY <1>1, FlattenGrows
  <2> QED BY <2>1
<1> HIDE DEF n, one, two
<1>4. 0 \in Same
  <2>1. Moved(<<>>, by) = <<>>
    <3>1. Moved(<<>>, by) = [i \in {} |-> ShiftEvent(<<>>[i], by)]
      BY DEF Moved
    <3>2. IsSeq(Moved(<<>>, by)) /\ Len(Moved(<<>>, by)) = Len(<<>>)
      BY EmptyIsSeq, MovedIs
    <3> QED BY <3>2 DEF IsSeq
  <2> QED BY <1>2, <1>3, <2>1
<1>5. ASSUME NEW k \in 0..(n - 1), k \in Same PROVE k + 1 \in Same
  <2>1. k + 1 \in Nat /\ k + 1 \in 1..n /\ k \in 0..n
    BY <1>1
  <2>2. two(k + 1) = two(k) \o moved[k + 1] /\ one(k + 1) = one(k) \o parts[k + 1]
    BY <1>2, <1>3
  <2> DEFINE a == one(k)
             b == parts[k + 1]
  <2>3. IsSeq(a) /\ IsSeq(b) /\ moved[k + 1] = Moved(b, by) /\ two(k) = Moved(a, by)
    BY <1>2, <1>5, <2>1 DEF n
  <2> HIDE DEF a, b
  <2>4. Moved(a \o b, by) = Moved(a, by) \o Moved(b, by)
    BY ONLY <2>3, MovedJoins
  <2>5. two(k + 1) = Moved(one(k + 1), by)
    BY <2>2, <2>3, <2>4 DEF a, b
  <2> QED BY <2>1, <2>5
<1> HIDE DEF Same
<1>6. n \in Same
  <2>1. n \in 0..n
    BY <1>1
  <2> QED BY ONLY <1>1, <1>4, <1>5, <2>1, UpTo
<1> QED BY <1>2, <1>3, <1>6 DEF Same

-----------------------------------------------------------------------------
(* The losses of a pid that is moved are put in the order they had. *)

LEMMA TimedByRank ==
  ASSUME NEW S, NEW events, NEW order, Timed(order, events, S),
         NEW behind, \A i \in S : behind[i] = {j \in S : TimedBefore(events, j, i)}
  PROVE  order = [m \in 1..Cardinality(S) |-> CHOOSE i \in S : Cardinality(behind[i]) = m - 1]
<1> DEFINE N == Cardinality(S)
           ByTime(m) == CHOOSE i \in S : Cardinality({j \in S : TimedBefore(events, j, i)}) = m - 1
           ByRank(m) == CHOOSE i \in S : Cardinality(behind[i]) = m - 1
<1>1. order = [m \in 1..N |-> ByTime(m)]
  BY DEF Timed
<1>2. \A m \in 1..N : ByTime(m) = ByRank(m)
  OBVIOUS
<1> HIDE DEF N, ByTime, ByRank
<1>3. order = [m \in 1..N |-> ByRank(m)]
  BY <1>1, <1>2
<1> QED BY <1>3 DEF ByRank, N

LEMMA TimedAlike ==
  ASSUME NEW S, NEW one, NEW two, \A i, j \in S : TimedBefore(one, i, j) <=> TimedBefore(two, i, j),
         NEW first, NEW second, Timed(first, one, S), Timed(second, two, S)
  PROVE  first = second
<1> DEFINE behind == [i \in S |-> {j \in S : TimedBefore(one, j, i)}]
<1>1. \A i \in S : behind[i] = {j \in S : TimedBefore(one, j, i)}
  OBVIOUS
<1>2. \A i \in S : behind[i] = {j \in S : TimedBefore(two, j, i)}
  BY <1>1
<1> HIDE DEF behind
<1>3. first = [m \in 1..Cardinality(S) |-> CHOOSE i \in S : Cardinality(behind[i]) = m - 1]
  BY <1>1, TimedByRank
<1>4. second = [m \in 1..Cardinality(S) |-> CHOOSE i \in S : Cardinality(behind[i]) = m - 1]
  BY <1>2, TimedByRank
<1> QED BY <1>3, <1>4

LEMMA SortedInTime ==
  \A items, n : Timed(LossesSorted(items, n), items, LossPlaces(items, n))
BY DEF Timed, LossesSorted, SortedBy

LEMMA LossesMove ==
  ASSUME NEW items, NEW n \in Nat, DOMAIN items = 1..n, \A i \in 1..n : items[i] \in Captured,
         NEW by \in Int, NEW moved, DOMAIN moved = 1..n,
         \A i \in 1..n : moved[i] = ShiftItem(items[i], by)
  PROVE  /\ DOMAIN LossInTimeOrder(moved) = 1..n
         /\ \A k \in 1..n : LossInTimeOrder(moved)[k] = ShiftItem(LossInTimeOrder(items)[k], by)
<1>1. \A i \in 1..n : /\ items[i].ts \in Int /\ moved[i].ts = items[i].ts - by
                      /\ moved[i].kind = items[i].kind
  <2> SUFFICES ASSUME NEW i \in 1..n
               PROVE  /\ items[i].ts \in Int /\ moved[i].ts = items[i].ts - by
                      /\ moved[i].kind = items[i].kind
    OBVIOUS
  <2>1. MovesTo(items[i], moved[i], by)
    BY ItemMoves
  <2> QED BY <2>1 DEF MovesTo
<1> DEFINE S == LossPlaces(items, n)
<1>2. LossPlaces(moved, n) = S /\ S \subseteq 1..n
  BY <1>1 DEF LossPlaces
<1> HIDE DEF S
<1>3. \A i, j \in S : TimedBefore(items, i, j) <=> TimedBefore(moved, i, j)
  <2> SUFFICES ASSUME NEW i \in S, NEW j \in S
               PROVE  TimedBefore(items, i, j) <=> TimedBefore(moved, i, j)
    OBVIOUS
  <2>1. /\ items[i].ts \in Int /\ moved[i].ts = items[i].ts - by
        /\ items[j].ts \in Int /\ moved[j].ts = items[j].ts - by
    BY <1>1, <1>2
  <2> QED BY <2>1 DEF TimedBefore
<1>4. LossesSorted(items, n) = LossesSorted(moved, n)
  <2> DEFINE one == LossesSorted(items, n)
             two == LossesSorted(moved, n)
  <2>1. Timed(one, items, S) /\ Timed(two, moved, S)
    BY <1>2, SortedInTime DEF S
  <2> HIDE DEF one, two
  <2>2. one = two
    BY ONLY <1>3, <2>1, TimedAlike
  <2> QED BY <2>2 DEF one, two
<1> DEFINE from == LossesFrom(items, n)
<1>5. from = LossesFrom(moved, n)
  BY <1>2, <1>4 DEF LossesFrom, S
<1>6. Rearranged(items, n, from)
  BY <1>1, LossesInOrder
<1>7. Rearranged(moved, n, from)
  <2>1. \A i \in 1..n : moved[i].ts \in Int
    BY <1>1
  <2>2. Rearranged(moved, n, LossesFrom(moved, n))
    BY <2>1, LossesInOrder
  <2> QED BY <1>5, <2>2
<1>8. ASSUME NEW k \in 1..n PROVE LossInTimeOrder(moved)[k] = ShiftItem(LossInTimeOrder(items)[k], by)
  <2>1. from[k] \in 1..n /\ LossInTimeOrder(items)[k] = items[from[k]] /\ LossInTimeOrder(moved)[k] = moved[from[k]]
    BY <1>6, <1>7 DEF Rearranged
  <2> QED BY <2>1
<1>9. DOMAIN LossInTimeOrder(moved) = 1..n
  BY DEF LossInTimeOrder
<1> QED BY <1>8, <1>9

(* None of the items is lost when they are put in order. *)
Dated(items, n) == \A i \in 1..n : items[i].ts \in Int
Reaches(from, n) == \A k \in 1..n : \E m \in 1..n : from[m] = k

LEMMA NoneIsLost ==
  ASSUME NEW items, NEW n \in Nat, NEW from, Rearranged(items, n, from), Dated(items, n)
  PROVE  Reaches(from, n)
<1>1. /\ from \in [1..n -> 1..n]
      /\ \A k \in 1..n : items[from[k]].kind = items[k].kind
      /\ \A k \in 1..n : items[k].kind # "loss" => from[k] = k
      /\ \A k, m \in 1..n : k < m /\ items[k].kind = "loss" /\ items[m].kind = "loss" =>
           from[k] # from[m]
  <2>1. ASSUME NEW k \in 1..n, NEW m \in 1..n, k < m, items[k].kind = "loss", items[m].kind = "loss",
               from[k] = from[m]
        PROVE  FALSE
    <3>1. TimedBefore(items, from[k], from[m]) /\ from[k] \in 1..n
      BY <2>1 DEF Rearranged
    <3>2. items[from[k]].ts \in Int
      BY <3>1 DEF Dated
    <3> QED BY <2>1, <3>1, <3>2 DEF TimedBefore
  <2> QED BY <2>1 DEF Rearranged
<1>2. \A k, m \in 1..n : from[k] = from[m] => k = m
  <2> SUFFICES ASSUME NEW k \in 1..n, NEW m \in 1..n, from[k] = from[m], k < m PROVE FALSE
    OBVIOUS
  <2>1. CASE items[k].kind = "loss" /\ items[m].kind = "loss"
    BY <1>1, <2>1
  <2>2. CASE ~(items[k].kind = "loss" /\ items[m].kind = "loss")
    BY <1>1, <2>2
  <2> QED BY <2>1, <2>2
<1> DEFINE places == 1..n
<1>3. from \in Injection(places, places)
  BY <1>1, <1>2 DEF Injection, IsInjective
<1>4. IsFiniteSet(places)
  BY PlacesAreFinite
<1> HIDE DEF places
<1>5. from \in Surjection(places, places)
  BY <1>3, <1>4, FS_Injection
<1> QED BY <1>5 DEF Surjection, places, Reaches

-----------------------------------------------------------------------------
(* The lines of a pid, moved: its events, moved by the same. *)

Starts(lines, pid) == {lines[j].item.ts : j \in {k \in DOMAIN lines : lines[k].pid = pid}}
Low(lines, pid) == Earliest(Starts(lines, pid))

LEMMA LowIs ==
  ASSUME NEW lines \in Seq(Line), NEW pid \in PidsOf(lines)
  PROVE  /\ Low(lines, pid) \in Starts(lines, pid) /\ Starts(lines, pid) \subseteq Int
         /\ \A t \in Starts(lines, pid) : Low(lines, pid) <= t
<1> DEFINE places == {k \in DOMAIN lines : lines[k].pid = pid}
           S == Starts(lines, pid)
           f == [j \in places |-> lines[j].item.ts]
<1>1. Len(lines) \in Nat /\ DOMAIN lines = 1..Len(lines) /\ \A i \in DOMAIN lines : lines[i] \in Line
  OBVIOUS
<1>2. IsFiniteSet(places)
  <2>1. IsFiniteSet(1..Len(lines)) /\ places \subseteq 1..Len(lines)
    BY <1>1, PlacesAreFinite
  <2> HIDE DEF places
  <2> QED BY <2>1, FS_Subset
<1>3. S \subseteq Int
  <2> SUFFICES ASSUME NEW j \in places PROVE lines[j].item.ts \in Int
    BY DEF Starts
  <2>1. lines[j].item \in Captured
    BY <1>1 DEF Line
  <2> QED BY <2>1, ItemsAreOK DEF ItemOK
<1>4. S # {}
  BY DEF PidsOf, Starts
<1>5. f \in Surjection(places, S)
  BY DEF Surjection, Starts
<1> HIDE DEF places, S, f
<1>6. IsFiniteSet(S)
  BY <1>2, <1>5, FS_Surjection
<1>7. Earliest(S) \in S /\ \A t \in S : Earliest(S) <= t
  BY <1>3, <1>4, <1>6, FiniteEnds
<1> QED BY <1>3, <1>7 DEF Low, S

LEMMA LinesMove ==
  ASSUME NEW lines \in Seq(Line)
  PROVE  /\ DOMAIN NormalizeLines(lines) = 1..Len(lines) /\ Len(lines) \in Nat
         /\ NormalizeLines(lines) = [i \in 1..Len(lines) |-> NormalizeLines(lines)[i]]
         /\ \A i \in 1..Len(lines) :
              /\ NormalizeLines(lines)[i].pid = lines[i].pid
              /\ NormalizeLines(lines)[i].item = ShiftItem(lines[i].item, Low(lines, lines[i].pid))
<1> DEFINE moved == NormalizeLines(lines)
           n == Len(lines)
<1>1. n \in Nat /\ DOMAIN lines = 1..n /\ \A i \in 1..n : lines[i] \in Line
  OBVIOUS
<1>2. moved = [i \in 1..n |-> [lines[i] EXCEPT !.item = ShiftItem(@, Low(lines, lines[i].pid))]]
  BY <1>1 DEF NormalizeLines, Low, Starts
<1> HIDE DEF moved, n
<1>3. ASSUME NEW i \in 1..n
      PROVE  moved[i].pid = lines[i].pid /\ moved[i].item = ShiftItem(lines[i].item, Low(lines, lines[i].pid))
  <2> DEFINE item == ShiftItem(lines[i].item, Low(lines, lines[i].pid))
             line == lines[i]
  <2>1. moved[i] = [line EXCEPT !.item = item] /\ line \in Line
    BY <1>1, <1>2
  <2> HIDE DEF item, line
  <2>2. moved[i].pid = line.pid /\ moved[i].item = item
    BY <2>1 DEF Line
  <2> QED BY <2>2 DEF item, line
<1>4. DOMAIN moved = 1..n /\ moved = [i \in 1..n |-> moved[i]]
  BY <1>2
<1> QED BY <1>1, <1>3, <1>4 DEF moved, n

LEMMA SamePids ==
  ASSUME NEW lines \in Seq(Line)
  PROVE  PidOrder(NormalizeLines(lines)) = PidOrder(lines)
<1> DEFINE moved == NormalizeLines(lines)
           n == Len(lines)
<1>1. /\ DOMAIN moved = 1..n /\ DOMAIN lines = 1..n
      /\ \A i \in 1..n : moved[i].pid = lines[i].pid
  BY LinesMove
<1> HIDE DEF moved, n
<1>2. [i \in DOMAIN moved |-> moved[i].pid] = [i \in DOMAIN lines |-> lines[i].pid]
  BY <1>1
<1> QED BY <1>2 DEF PidOrder, moved

LEMMA ItemsOfMove ==
  ASSUME NEW lines \in Seq(Line), NEW pid
  PROVE  /\ DOMAIN ItemsOf(NormalizeLines(lines), pid) = 1..Len(ItemsOf(lines, pid))
         /\ \A k \in 1..Len(ItemsOf(lines, pid)) :
              ItemsOf(NormalizeLines(lines), pid)[k] = ShiftItem(ItemsOf(lines, pid)[k], Low(lines, pid))
<1> DEFINE moved == NormalizeLines(lines)
           n == Len(lines)
           places == {i \in DOMAIN lines : lines[i].pid = pid}
           N == Cardinality(places)
           found == ItemsOf(lines, pid)
           by == Low(lines, pid)
<1>1. /\ n \in Nat /\ DOMAIN moved = 1..n /\ DOMAIN lines = 1..n
      /\ \A i \in 1..n : moved[i].pid = lines[i].pid
      /\ \A i \in 1..n : moved[i].item = ShiftItem(lines[i].item, Low(lines, lines[i].pid))
  BY LinesMove
<1> HIDE DEF moved, n, by
<1>2. places \in SUBSET (1..n) /\ {i \in DOMAIN moved : moved[i].pid = pid} = places
      /\ \A i \in places : moved[i].item = ShiftItem(lines[i].item, by)
  BY <1>1 DEF by
<1> HIDE DEF places
<1>20. places \in SUBSET (1..n) /\ n \in Nat
  BY <1>1, <1>2
<1>3. PICK at \in [1..N -> places] :
        /\ N \in Nat
        /\ \A k, m \in 1..N : k < m <=> at[k] < at[m]
        /\ \A i \in places : \E k \in 1..N : at[k] = i
        /\ At(lines, places) = [k \in 1..N |-> lines[at[k]]]
        /\ IsSeq(At(lines, places)) /\ Len(At(lines, places)) = N
  BY ONLY <1>20, AtPlaces DEF N
<1> HIDE DEF N
<1>4. At(moved, places) = [k \in 1..N |-> moved[at[k]]]
  <2>1. TakesAll(at, N, places)
    BY <1>3 DEF TakesAll
  <2>2. places \in SUBSET (1..n) /\ n \in Nat
    BY <1>1, <1>2
  <2>3. At(moved, places) = Picked(moved, at, N)
    BY ONLY <2>1, <2>2, AtTakes
  <2> QED BY <2>3 DEF Picked
<1>5. found = [k \in 1..N |-> lines[at[k]].item]
  BY <1>3 DEF ItemsOf, places
<1>6. ItemsOf(moved, pid) = [k \in 1..N |-> moved[at[k]].item]
  BY <1>2, <1>4 DEF ItemsOf
<1>7. Len(found) = N
  <2>1. DOMAIN found = 1..N /\ found = [k \in 1..N |-> found[k]]
    BY <1>5
  <2> HIDE DEF found
  <2> QED BY <1>3, <2>1, MadeSeq
<1>8. \A k \in 1..N : ItemsOf(moved, pid)[k] = ShiftItem(found[k], by)
  <2> SUFFICES ASSUME NEW k \in 1..N PROVE ItemsOf(moved, pid)[k] = ShiftItem(found[k], by)
    OBVIOUS
  <2>1. at[k] \in places
    BY <1>3
  <2> QED BY <1>2, <1>5, <1>6, <2>1
<1>9. DOMAIN ItemsOf(moved, pid) = 1..N
  BY <1>6
<1> QED BY <1>7, <1>8, <1>9 DEF moved, by

LEMMA PidEventsMove ==
  ASSUME NEW lines \in Seq(Line), NEW pid \in PidsOf(lines)
  PROVE  PidEvents(NormalizeLines(lines), pid) = Moved(PidEvents(lines, pid), Low(lines, pid))
<1> DEFINE found == ItemsOf(lines, pid)
           moved == ItemsOf(NormalizeLines(lines), pid)
           n == Len(found)
           by == Low(lines, pid)
           own == LossInTimeOrder(found)
           theirs == LossInTimeOrder(moved)
           parts == [i \in DOMAIN own |-> Convert(pid, own[i])]
           shifted == [i \in DOMAIN theirs |-> Convert(pid, theirs[i])]
<1>1. pid \in Processes /\ by \in Int
  <2>1. pid \in Processes
    <3>1. \A i \in DOMAIN lines : lines[i] \in Line
      OBVIOUS
    <3> QED BY <3>1 DEF PidsOf, Line
  <2> QED BY <2>1, LowIs
<1>2. n \in Nat /\ DOMAIN found = 1..n /\ \A i \in 1..n : found[i] \in Captured
  BY LinesOfPid
<1>3. DOMAIN moved = 1..n /\ \A i \in 1..n : moved[i] = ShiftItem(found[i], by)
  BY ItemsOfMove
<1>4. PidEvents(lines, pid) = FlattenSeq(parts) /\ PidEvents(NormalizeLines(lines), pid) = FlattenSeq(shifted)
  BY DEF PidEvents
<1> HIDE DEF found, moved, n, by
<1>5. DOMAIN own = 1..n /\ \A i \in 1..n : own[i] \in Captured
  BY <1>2, LossOrderKeeps
<1>6. DOMAIN theirs = 1..n /\ \A i \in 1..n : theirs[i] = ShiftItem(own[i], by)
  BY <1>1, <1>2, <1>3, LossesMove
<1> HIDE DEF own, theirs
<1>7. /\ DOMAIN parts = 1..n /\ parts = [i \in 1..n |-> parts[i]]
      /\ DOMAIN shifted = 1..n /\ shifted = [i \in 1..n |-> shifted[i]]
      /\ \A i \in 1..n : parts[i] = Convert(pid, own[i]) /\ shifted[i] = Convert(pid, theirs[i])
  BY <1>5, <1>6
<1> HIDE DEF parts, shifted
<1>8. IsSeq(parts) /\ Len(parts) = n /\ IsSeq(shifted) /\ Len(shifted) = n
  BY <1>2, <1>7, MadeSeq
<1>9. ASSUME NEW i \in 1..n PROVE IsSeq(parts[i]) /\ shifted[i] = Moved(parts[i], by)
  <2>1. own[i] \in Captured /\ ItemOK(own[i])
    BY <1>5, ItemsAreOK
  <2>2. EventsOK(Convert(pid, own[i]))
    BY <1>1, <2>1, ConvertsToEvents
  <2>3. Convert(pid, ShiftItem(own[i], by)) = Moved(Convert(pid, own[i]), by)
    BY <1>1, <2>1, ConvertMoves
  <2> QED BY <1>6, <1>7, <2>2, <2>3 DEF EventsOK
<1>10. FlattenSeq(shifted) = Moved(FlattenSeq(parts), by)
  BY <1>8, <1>9, MovedFlattens
<1> QED BY <1>4, <1>10 DEF by

-----------------------------------------------------------------------------
(* The earliest event of a pid is at the earliest start of its lines. *)

LEMMA EarliestIs ==
  ASSUME NEW S, S \subseteq Int, NEW m \in S, \A t \in S : m <= t
  PROVE  Earliest(S) = m
<1>1. Earliest(S) \in S /\ \A u \in S : Earliest(S) <= u
  BY DEF Earliest
<1>2. Earliest(S) <= m /\ m <= Earliest(S) /\ Earliest(S) \in Int /\ m \in Int
  BY <1>1
<1> HIDE DEF Earliest
<1> QED BY <1>2

(* The first of some events is at t. *)
FirstAt(events, t) ==
  /\ t \in Int /\ \E e \in ToSet(events) : e.ts = t
  /\ \A e \in ToSet(events) : t <= e.ts

LEMMA ConvertStarts ==
  ASSUME NEW p \in Processes, NEW item \in Captured
  PROVE  FirstAt(Convert(p, item), item.ts)
<1>1. ItemOK(item) /\ item.ts \in Int
  BY ItemsAreOK DEF ItemOK
<1>2. CASE item.kind = "instant"
  <2>1. Convert(p, item) = <<Instant(p, item.ts)>> /\ Instant(p, item.ts).ts = item.ts
    BY <1>2 DEF Convert, Instant
  <2>2. ToSet(<<Instant(p, item.ts)>>) = {Instant(p, item.ts)}
    BY OneIsSeq
  <2> QED BY <1>1, <2>1, <2>2 DEF FirstAt
<1>3. CASE item.kind = "loss"
  <2> DEFINE e == Slice(LossRow(p, item.iid), "GC Loss", item.ts, item.stop, Total(item, "lost"), Total(item, "pause"))
  <2>1. Convert(p, item) = <<e>> /\ e.ts = item.ts
    BY <1>3 DEF Convert, ConvertLoss, Slice
  <2> HIDE DEF e
  <2>2. ToSet(<<e>>) = {e}
    BY OneIsSeq
  <2> QED BY <1>1, <2>1, <2>2 DEF FirstAt
<1>4. CASE item.kind = "gc"
  <2> DEFINE row == ThreadRow(p, item.iid)
             x == <<PauseSlice(p, item)>>
             y == PhaseSlices(p, item)
             z == Counters(p, item)
  <2>1. Convert(p, item) = x \o y \o z
    BY <1>4 DEF Convert, ConvertItem
  <2>2. IsSeq(x) /\ ToSet(x) = {PauseSlice(p, item)} /\ PauseSlice(p, item).ts = item.ts
    BY OneIsSeq DEF PauseSlice, Slice
  <2>3. IsSeq(z) /\ \A e \in ToSet(z) : e.ts = item.ts
    BY OneIsSeq DEF Counters, Counter, IsSeq, ToSet
  <2>4. IsSeq(y) /\ \A e \in ToSet(y) : item.ts <= e.ts
    <3> DEFINE places == {i \in DOMAIN PhaseOrder : Ran(item, PhaseOrder[i])}
               ran == At(PhaseOrder, places)
               n == Len(ran)
    <3>1. places \in SUBSET (1..8) /\ 8 \in Nat
      BY DEF PhaseOrder
    <3>2. \A i \in places : PhaseOrder[i] \in DOMAIN item.upto
      BY DEF Ran
    <3>3. y = [k \in DOMAIN ran |-> Slice(row, ran[k], PhaseStart(item, ran[k]), item.upto[ran[k]], 0, 0)]
      BY DEF PhaseSlices
    <3> HIDE DEF places
    <3>4. Taken(PhaseOrder, places)
      BY <3>1, AtElements
    <3>5. n \in Nat /\ DOMAIN ran = 1..n /\ \A k \in 1..n : ran[k] \in DOMAIN item.upto
      BY <3>2, <3>4 DEF Taken
    <3> HIDE DEF ran, n, y, row
    <3>6. DOMAIN y = 1..n /\ y = [k \in 1..n |-> y[k]]
      BY <3>3, <3>5
    <3>7. \A k \in 1..n : y[k].ts = PhaseStart(item, ran[k])
      BY <3>3, <3>5 DEF Slice
    <3>8. \A phase \in DOMAIN item.upto : item.ts <= PhaseStart(item, phase)
      BY <1>4, ItemsAssumption
    <3>9. \A k \in 1..n : item.ts <= y[k].ts
      BY <3>5, <3>7, <3>8
    <3>10. IsSeq(y)
      BY <3>5, <3>6, MadeSeq
    <3> QED BY <3>6, <3>9, <3>10 DEF ToSet
  <2> HIDE DEF x, y, z
  <2>5. ToSet(x \o y \o z) = ToSet(x) \cup ToSet(y) \cup ToSet(z)
    <3>1. IsSeq(x \o y) /\ ToSet(x \o y) = ToSet(x) \cup ToSet(y)
      BY <2>2, <2>4, ConcatFacts
    <3> DEFINE w == x \o y
    <3>2. IsSeq(w)
      BY <3>1
    <3> HIDE DEF w
    <3>3. ToSet(w \o z) = ToSet(w) \cup ToSet(z)
      BY <2>3, <3>2, ConcatFacts
    <3> QED BY <3>1, <3>3 DEF w
  <2>6. PauseSlice(p, item) \in ToSet(x \o y \o z)
    BY <2>2, <2>5
  <2>7. ASSUME NEW e \in ToSet(x \o y \o z) PROVE item.ts <= e.ts
    <3>1. e \in ToSet(x) \/ e \in ToSet(y) \/ e \in ToSet(z)
      BY <2>5
    <3>2. e \in ToSet(x) => item.ts <= e.ts
      BY <1>1, <2>2
    <3>3. e \in ToSet(z) => item.ts <= e.ts
      BY <1>1, <2>3
    <3> QED BY <2>4, <3>1, <3>2, <3>3
  <2> QED BY <1>1, <2>1, <2>2, <2>6, <2>7 DEF FirstAt
<1> QED BY <1>1, <1>2, <1>3, <1>4 DEF ItemOK

LEMMA OwnStarts ==
  ASSUME NEW lines \in Seq(Line), NEW pid
  PROVE  /\ \A k \in 1..Len(ItemsOf(lines, pid)) : ItemsOf(lines, pid)[k].ts \in Starts(lines, pid)
         /\ \A t \in Starts(lines, pid) :
              \E k \in 1..Len(ItemsOf(lines, pid)) : ItemsOf(lines, pid)[k].ts = t
<1> DEFINE n == Len(lines)
           places == {i \in DOMAIN lines : lines[i].pid = pid}
           N == Cardinality(places)
           found == ItemsOf(lines, pid)
<1>1. n \in Nat /\ places \in SUBSET (1..n)
  OBVIOUS
<1>2. Starts(lines, pid) = {lines[j].item.ts : j \in places}
  BY DEF Starts
<1>3. found = [k \in DOMAIN At(lines, places) |-> At(lines, places)[k].item]
  BY DEF ItemsOf
<1> HIDE DEF places, n
<1>4. PICK at \in [1..N -> places] :
        /\ N \in Nat
        /\ \A k, m \in 1..N : k < m <=> at[k] < at[m]
        /\ \A i \in places : \E k \in 1..N : at[k] = i
        /\ At(lines, places) = [k \in 1..N |-> lines[at[k]]]
        /\ IsSeq(At(lines, places)) /\ Len(At(lines, places)) = N
  BY ONLY <1>1, AtPlaces DEF N
<1> HIDE DEF N, found
<1>5. found = [k \in 1..N |-> lines[at[k]].item]
  BY <1>3, <1>4
<1>6. Len(found) = N
  <2>1. DOMAIN found = 1..N /\ found = [k \in 1..N |-> found[k]]
    BY <1>5
  <2> QED BY <1>4, <2>1, MadeSeq
<1>7. ASSUME NEW k \in 1..N PROVE found[k].ts \in Starts(lines, pid)
  <2>1. at[k] \in places /\ found[k] = lines[at[k]].item
    BY <1>4, <1>5
  <2> QED BY <1>2, <2>1
<1>8. ASSUME NEW t \in Starts(lines, pid) PROVE \E k \in 1..N : found[k].ts = t
  <2>1. PICK j \in places : t = lines[j].item.ts
    BY <1>2
  <2>2. PICK k \in 1..N : at[k] = j
    BY <1>4
  <2>3. found[k] = lines[j].item
    BY <1>5, <2>2
  <2> QED BY <2>1, <2>3
<1> QED BY <1>6, <1>7, <1>8 DEF found

LEMMA PidStartsAt ==
  ASSUME NEW lines \in Seq(Line), NEW pid \in PidsOf(lines)
  PROVE  FirstAt(PidEvents(lines, pid), Low(lines, pid))
<1> DEFINE found == ItemsOf(lines, pid)
           n == Len(found)
           low == Low(lines, pid)
           own == LossInTimeOrder(found)
           parts == [i \in DOMAIN own |-> Convert(pid, own[i])]
           from == LossesFrom(found, n)
<1>1. pid \in Processes
  <2>1. \A i \in DOMAIN lines : lines[i] \in Line
    OBVIOUS
  <2> QED BY <2>1 DEF PidsOf, Line
<1>2. /\ low \in Starts(lines, pid) /\ low \in Int
      /\ \A t \in Starts(lines, pid) : low <= t
  BY LowIs
<1>3. n \in Nat /\ DOMAIN found = 1..n /\ \A i \in 1..n : found[i] \in Captured
  BY LinesOfPid
<1>4. /\ \A k \in 1..n : found[k].ts \in Starts(lines, pid)
      /\ \A t \in Starts(lines, pid) : \E k \in 1..n : found[k].ts = t
  BY OwnStarts
<1>5. PidEvents(lines, pid) = FlattenSeq(parts)
  BY DEF PidEvents
<1> HIDE DEF found, n, low
<1>6. DOMAIN own = 1..n /\ \A i \in 1..n : own[i] \in Captured
  BY <1>3, LossOrderKeeps
<1>7. \A i \in 1..n : found[i].ts \in Int
  BY <1>3, ItemsAreOK DEF ItemOK
<1>8. Rearranged(found, n, from)
  BY <1>3, <1>7, LossesInOrder
<1> HIDE DEF from
<1>9. \A k \in 1..n : \E m \in 1..n : from[m] = k
  <2>1. n \in Nat /\ Dated(found, n)
    BY <1>3, <1>7 DEF Dated
  <2>2. Reaches(from, n)
    BY ONLY <2>1, <1>8, NoneIsLost
  <2> QED BY <2>2 DEF Reaches
<1>10. \A k \in 1..n : from[k] \in 1..n /\ own[k] = found[from[k]]
  BY <1>8 DEF Rearranged
<1> HIDE DEF own
<1>11. DOMAIN parts = 1..n /\ parts = [i \in 1..n |-> parts[i]] /\ \A i \in 1..n : parts[i] = Convert(pid, own[i])
  BY <1>6
<1> HIDE DEF parts
<1>12. IsSeq(parts) /\ Len(parts) = n
  BY <1>3, <1>11, MadeSeq
<1>13. ASSUME NEW i \in 1..n PROVE IsSeq(parts[i]) /\ FirstAt(parts[i], own[i].ts)
  <2>1. own[i] \in Captured /\ ItemOK(own[i]) /\ parts[i] = Convert(pid, own[i])
    BY <1>6, <1>11, ItemsAreOK
  <2>2. EventsOK(Convert(pid, own[i])) /\ FirstAt(Convert(pid, own[i]), own[i].ts)
    BY <1>1, <2>1, ConvertsToEvents, ConvertStarts
  <2> QED BY <2>1, <2>2 DEF EventsOK
<1>14. \A e : e \in ToSet(FlattenSeq(parts)) <=> \E i \in 1..n : e \in ToSet(parts[i])
  BY <1>12, <1>13, FlattenElements
<1>15. \E e \in ToSet(FlattenSeq(parts)) : e.ts = low
  <2>1. PICK k \in 1..n : found[k].ts = low
    BY <1>2, <1>4
  <2>2. PICK m \in 1..n : from[m] = k
    BY <1>9
  <2>3. own[m].ts = low
    BY <1>10, <2>1, <2>2
  <2>4. PICK e \in ToSet(parts[m]) : e.ts = low
    BY <1>13, <2>3 DEF FirstAt
  <2> QED BY <1>14, <2>4
<1>16. ASSUME NEW e \in ToSet(FlattenSeq(parts)), e.ts \in Int PROVE low <= e.ts
  <2>1. PICK i \in 1..n : e \in ToSet(parts[i])
    BY <1>14
  <2>2. own[i].ts <= e.ts /\ own[i].ts \in Int
    BY <1>13, <2>1 DEF FirstAt
  <2>3. low <= own[i].ts
    BY <1>2, <1>4, <1>10
  <2> QED BY <1>2, <1>16, <2>2, <2>3
<1>17. \A e \in ToSet(FlattenSeq(parts)) : e.ts \in Int
  <2>1. EventsOK(FlattenSeq(parts))
    BY <1>1, <1>5, PidConverts
  <2> DEFINE events == FlattenSeq(parts)
  <2>2. \A i \in 1..Len(events) : events[i].ts \in Int
    BY <2>1 DEF EventsOK, EventOK
  <2>3. DOMAIN events = 1..Len(events)
    BY <2>1, SeqFacts DEF EventsOK
  <2> HIDE DEF events
  <2>4. \A e \in ToSet(events) : e.ts \in Int
    BY <2>2, <2>3 DEF ToSet
  <2> QED BY <2>4 DEF events
<1> QED BY <1>2, <1>5, <1>15, <1>16, <1>17 DEF FirstAt, low

-----------------------------------------------------------------------------
(* Events are normalised owner by owner. *)

TimesOf(events, p) == {e.ts : e \in {x \in ToSet(events) : Owner(x) = p}}

LEMMA NormalizedIs ==
  ASSUME NEW events, EventsOK(events)
  PROVE  /\ IsSeq(NormalizeEvents(events)) /\ Len(NormalizeEvents(events)) = Len(events)
         /\ \A i \in 1..Len(events) :
              NormalizeEvents(events)[i]
                = ShiftEvent(events[i], Earliest(TimesOf(events, Owner(events[i]))))
<1> DEFINE n == Len(events)
           s == NormalizeEvents(events)
           places(p) == {i \in DOMAIN events : events[i].row[2] = p}
           by(i) == Earliest({events[j].ts : j \in places(events[i].row[2])})
<1>1. n \in Nat /\ DOMAIN events = 1..n
  BY SeqFacts DEF EventsOK
<1>2. s = [i \in 1..n |-> ShiftEvent(events[i], by(i))]
  BY <1>1 DEF NormalizeEvents
<1>3. \A p : {events[j].ts : j \in places(p)} = TimesOf(events, p)
  BY DEF TimesOf, ToSet, Owner
<1>4. \A i \in 1..n : by(i) = Earliest(TimesOf(events, Owner(events[i])))
  BY <1>3 DEF Owner
<1> HIDE DEF by, n, s
<1>5. \A i \in 1..n : s[i] = ShiftEvent(events[i], Earliest(TimesOf(events, Owner(events[i]))))
  BY <1>2, <1>4
<1>6. DOMAIN s = 1..n /\ s = [i \in 1..n |-> s[i]]
  BY <1>2
<1>7. IsSeq(s) /\ Len(s) = n
  BY <1>1, <1>6, MadeSeq
<1> QED BY <1>5, <1>7 DEF n, s

LEMMA OwnNormalizes ==
  ASSUME NEW events, EventsOK(events), NEW pid, Owners(events) \subseteq {pid},
         NEW low, FirstAt(events, low)
  PROVE  NormalizeEvents(events) = Moved(events, low)
<1> DEFINE n == Len(events)
           one == NormalizeEvents(events)
           two == Moved(events, low)
<1>1. /\ IsSeq(events) /\ n \in Nat /\ DOMAIN events = 1..n
      /\ \A i \in 1..n : events[i].ts \in Int /\ Owner(events[i]) = pid
  BY SeqFacts DEF EventsOK, EventOK, Owners
<1>2. \A e \in ToSet(events) : e.ts \in Int /\ Owner(e) = pid
  BY <1>1 DEF ToSet
<1>3. Earliest(TimesOf(events, pid)) = low
  <2> DEFINE S == TimesOf(events, pid)
  <2>1. S = {e.ts : e \in ToSet(events)}
    BY <1>2 DEF TimesOf
  <2> HIDE DEF S
  <2>2. S \subseteq Int /\ low \in S /\ \A t \in S : low <= t
    BY <1>2, <2>1 DEF FirstAt
  <2>3. Earliest(S) = low
    BY <2>2, EarliestIs
  <2> QED BY <2>3 DEF S
<1>4. /\ IsSeq(one) /\ Len(one) = n
      /\ \A i \in 1..n : one[i] = ShiftEvent(events[i], Earliest(TimesOf(events, Owner(events[i]))))
  BY NormalizedIs
<1>5. IsSeq(two) /\ Len(two) = n /\ \A i \in 1..n : two[i] = ShiftEvent(events[i], low)
  BY <1>1, MovedIs
<1> HIDE DEF one, two, n
<1>6. \A i \in 1..n : one[i] = two[i]
  BY <1>1, <1>3, <1>4, <1>5
<1>7. one = two
  BY <1>4, <1>5, <1>6, SameSeq
<1> QED BY <1>7 DEF one, two

LEMMA NormalizeJoins ==
  ASSUME NEW a, NEW b, EventsOK(a), EventsOK(b), Owners(a) \cap Owners(b) = {}
  PROVE  NormalizeEvents(a \o b) = NormalizeEvents(a) \o NormalizeEvents(b)
<1> DEFINE d == Len(a)
           n == Len(b)
           c == a \o b
           x == NormalizeEvents(a)
           y == NormalizeEvents(b)
           z == NormalizeEvents(c)
<1>1. /\ IsSeq(a) /\ IsSeq(b) /\ d \in Nat /\ n \in Nat /\ DOMAIN a = 1..d /\ DOMAIN b = 1..n
  BY SeqFacts DEF EventsOK
<1>2. /\ IsSeq(c) /\ Len(c) = d + n
      /\ \A i \in 1..d : c[i] = a[i]
      /\ \A i \in 1..n : c[d + i] = b[i]
      /\ ToSet(c) = ToSet(a) \cup ToSet(b)
  BY <1>1, ConcatFacts
<1>3. EventsOK(c)
  BY EventsJoin
<1>4. /\ IsSeq(x) /\ Len(x) = d
      /\ \A i \in 1..d : x[i] = ShiftEvent(a[i], Earliest(TimesOf(a, Owner(a[i]))))
  BY NormalizedIs
<1>5. /\ IsSeq(y) /\ Len(y) = n
      /\ \A i \in 1..n : y[i] = ShiftEvent(b[i], Earliest(TimesOf(b, Owner(b[i]))))
  BY NormalizedIs
<1> HIDE DEF c
<1>6. /\ IsSeq(z) /\ Len(z) = d + n
      /\ \A i \in 1..(d + n) : z[i] = ShiftEvent(c[i], Earliest(TimesOf(c, Owner(c[i]))))
  BY <1>2, <1>3, NormalizedIs
<1>7. \A e \in ToSet(a) : Owner(e) \in Owners(a)
  BY DEF ToSet, Owners
<1>8. \A e \in ToSet(b) : Owner(e) \in Owners(b)
  BY DEF ToSet, Owners
<1> HIDE DEF d, n, x, y, z
<1>9. \A p \in Owners(a) : TimesOf(c, p) = TimesOf(a, p)
  <2> SUFFICES ASSUME NEW p \in Owners(a) PROVE TimesOf(c, p) = TimesOf(a, p)
    OBVIOUS
  <2>1. {e \in ToSet(c) : Owner(e) = p} = {e \in ToSet(a) : Owner(e) = p}
    BY <1>2, <1>8
  <2> QED BY <2>1 DEF TimesOf
<1>10. \A p \in Owners(b) : TimesOf(c, p) = TimesOf(b, p)
  <2> SUFFICES ASSUME NEW p \in Owners(b) PROVE TimesOf(c, p) = TimesOf(b, p)
    OBVIOUS
  <2>1. {e \in ToSet(c) : Owner(e) = p} = {e \in ToSet(b) : Owner(e) = p}
    BY <1>2, <1>7
  <2> QED BY <2>1 DEF TimesOf
<1>11. \A i \in 1..d : Owner(a[i]) \in Owners(a)
  BY <1>1 DEF Owners
<1>12. \A i \in 1..n : Owner(b[i]) \in Owners(b)
  BY <1>1 DEF Owners
<1>13. /\ IsSeq(x \o y) /\ Len(x \o y) = d + n
       /\ \A i \in 1..d : (x \o y)[i] = x[i]
       /\ \A i \in 1..n : (x \o y)[d + i] = y[i]
  BY <1>4, <1>5, ConcatFacts
<1>14. ASSUME NEW i \in 1..(d + n) PROVE z[i] = (x \o y)[i]
  <2>1. CASE i \in 1..d
    <3>1. c[i] = a[i] /\ TimesOf(c, Owner(a[i])) = TimesOf(a, Owner(a[i]))
      BY <1>2, <1>9, <1>11, <2>1
    <3> QED BY <1>4, <1>6, <1>13, <2>1, <3>1
  <2>2. CASE i \notin 1..d
    <3>1. PICK j \in 1..n : i = d + j
      <4>1. i - d \in 1..n /\ i = d + (i - d)
        BY <1>1, <2>2
      <4> QED BY <4>1
    <3>2. c[i] = b[j] /\ TimesOf(c, Owner(b[j])) = TimesOf(b, Owner(b[j]))
      BY <1>2, <1>10, <1>12, <3>1
    <3>3. (x \o y)[i] = y[j]
      BY <1>13, <3>1
    <3> QED BY <1>5, <1>6, <3>2, <3>3
  <2> QED BY <2>1, <2>2
<1>15. z = x \o y
  BY <1>6, <1>13, <1>14, SameSeq
<1> QED BY <1>15 DEF x, y, z, c

(* Parts no two of which share an owner. *)
OwnedApart(parts) ==
  /\ IsSeq(parts) /\ \A i \in 1..Len(parts) : EventsOK(parts[i])
  /\ \A i, j \in 1..Len(parts) : i # j => Owners(parts[i]) \cap Owners(parts[j]) = {}

LEMMA NormalizeFlattens ==
  ASSUME NEW parts, OwnedApart(parts), NEW moved, IsSeq(moved), Len(moved) = Len(parts),
         \A i \in 1..Len(parts) : moved[i] = NormalizeEvents(parts[i])
  PROVE  NormalizeEvents(FlattenSeq(parts)) = FlattenSeq(moved)
<1> DEFINE n == Len(parts)
           one(k) == FlattenSeq(Leading(parts, k))
           two(k) == FlattenSeq(Leading(moved, k))
           Good(k) == /\ EventsOK(one(k)) /\ NormalizeEvents(one(k)) = two(k)
                      /\ \A p \in Owners(one(k)) : \E i \in 1..k : p \in Owners(parts[i])
           Same == {k \in Nat : Good(k)}
<1>1. /\ n \in Nat /\ \A i \in 1..n : IsSeq(parts[i]) /\ EventsOK(parts[i])
      /\ \A i, j \in 1..n : i # j => Owners(parts[i]) \cap Owners(parts[j]) = {}
  BY SeqFacts DEF OwnedApart, EventsOK
<1>2. /\ one(0) = <<>> /\ FlattenSeq(parts) = one(n)
      /\ \A k \in 0..(n - 1) : one(k + 1) = one(k) \o parts[k + 1]
  <2>1. IsSeq(parts) /\ \A i \in 1..Len(parts) : IsSeq(parts[i])
    BY <1>1 DEF OwnedApart
  <2> QED BY <2>1, FlattenGrows
<1>3. /\ two(0) = <<>> /\ FlattenSeq(moved) = two(n)
      /\ \A k \in 0..(n - 1) : two(k + 1) = two(k) \o moved[k + 1]
  <2>1. \A i \in 1..Len(moved) : IsSeq(moved[i])
    BY <1>1, NormalizingKeeps DEF EventsOK
  <2>2. /\ two(0) = <<>> /\ FlattenSeq(moved) = two(Len(moved))
        /\ \A k \in 0..(Len(moved) - 1) : two(k + 1) = two(k) \o moved[k + 1]
    BY <2>1, FlattenGrows
  <2> QED BY <2>2
<1>4. \A i \in 1..n : moved[i] = NormalizeEvents(parts[i])
  OBVIOUS
<1> HIDE DEF n, one, two
<1>5. 0 \in Same
  <2>1. EventsOK(<<>>) /\ Len(<<>>) = 0 /\ Owners(<<>>) = {}
    BY NoEvents DEF Owners
  <2>2. NormalizeEvents(<<>>) = <<>>
    <3>1. IsSeq(NormalizeEvents(<<>>)) /\ Len(NormalizeEvents(<<>>)) = 0
      BY <2>1, NormalizedIs
    <3> QED BY <3>1 DEF IsSeq
  <2> QED BY <1>2, <1>3, <2>1, <2>2
<1>6. ASSUME NEW k \in 0..(n - 1), k \in Same PROVE k + 1 \in Same
  <2>1. k \in Nat /\ k + 1 \in Nat /\ k + 1 \in 1..n /\ k + 1 \in 1..(k + 1)
    BY <1>1
  <2>2. two(k + 1) = two(k) \o moved[k + 1] /\ one(k + 1) = one(k) \o parts[k + 1]
    BY <1>2, <1>3
  <2> DEFINE a == one(k)
             b == parts[k + 1]
  <2>3. EventsOK(a) /\ EventsOK(b) /\ moved[k + 1] = NormalizeEvents(b) /\ two(k) = NormalizeEvents(a)
    BY <1>1, <1>4, <1>6, <2>1
  <2>4. Owners(a) \cap Owners(b) = {}
    <3> SUFFICES ASSUME NEW p \in Owners(a), p \in Owners(b) PROVE FALSE
      OBVIOUS
    <3>1. PICK i \in 1..k : p \in Owners(parts[i])
      BY <1>6
    <3>2. i \in 1..n /\ i # k + 1
      BY <1>1, <2>1
    <3> QED BY <1>1, <2>1, <3>1, <3>2
  <2>5. \A p \in Owners(a) : \E i \in 1..k : p \in Owners(parts[i])
    BY <1>6
  <2>6. \A p \in Owners(b) : p \in Owners(parts[k + 1])
    OBVIOUS
  <2>7. one(k + 1) = a \o b
    BY <2>2
  <2> HIDE DEF a, b
  <2>8. EventsOK(a \o b) /\ Owners(a \o b) = Owners(a) \cup Owners(b)
        /\ NormalizeEvents(a \o b) = NormalizeEvents(a) \o NormalizeEvents(b)
    <3>1. EventsOK(a \o b)
      BY ONLY <2>3, EventsJoin
    <3>2. Owners(a \o b) = Owners(a) \cup Owners(b)
      BY ONLY <2>3, OwnersJoin
    <3>3. NormalizeEvents(a \o b) = NormalizeEvents(a) \o NormalizeEvents(b)
      BY ONLY <2>3, <2>4, NormalizeJoins
    <3> QED BY <3>1, <3>2, <3>3
  <2>9. ASSUME NEW p \in Owners(one(k + 1)) PROVE \E i \in 1..(k + 1) : p \in Owners(parts[i])
    <3>1. CASE p \in Owners(a)
      <4>1. PICK i \in 1..k : p \in Owners(parts[i])
        BY <2>5, <3>1
      <4>2. i \in 1..(k + 1)
        BY <2>1
      <4> QED BY <4>1, <4>2
    <3>2. CASE p \in Owners(b)
      BY <2>1, <2>6, <3>2
    <3> QED BY <2>7, <2>8, <3>1, <3>2
  <2>10. EventsOK(one(k + 1)) /\ NormalizeEvents(one(k + 1)) = two(k + 1)
    BY <2>2, <2>3, <2>7, <2>8
  <2> QED BY <2>1, <2>9, <2>10
<1> HIDE DEF Same
<1>7. n \in Same
  <2>1. n \in 0..n
    BY <1>1
  <2> QED BY ONLY <1>1, <1>5, <1>6, <2>1, UpTo
<1> QED BY <1>2, <1>3, <1>7 DEF Same

-----------------------------------------------------------------------------
(* The two paths of combine. *)

(* A file that is normalised converts to its events, normalised. *)
LEMMA NormalizeConverts ==
  ASSUME NEW lines \in Seq(Line)
  PROVE  ConvertCapture(NormalizeLines(lines)) = NormalizeEvents(ConvertCapture(lines))
<1> DEFINE pids == PidOrder(lines)
           n == Len(pids)
           parts == PidParts(lines)
           moved == PidParts(NormalizeLines(lines))
<1>1. /\ IsSeq(pids) /\ \A k, m \in 1..n : pids[k] = pids[m] => k = m
      /\ \A k \in 1..n : pids[k] \in PidsOf(lines)
  BY PidOrderIs
<1>2. n \in Nat /\ DOMAIN pids = 1..n
  BY <1>1, SeqFacts
<1>3. /\ IsSeq(parts) /\ Len(parts) = n
      /\ \A i \in 1..n : /\ parts[i] = PidEvents(lines, pids[i])
                         /\ EventsOK(parts[i]) /\ IsSeq(parts[i]) /\ Owners(parts[i]) \subseteq {pids[i]}
  BY PidPartsAre
<1>4. moved = [i \in 1..n |-> PidEvents(NormalizeLines(lines), pids[i])]
  BY <1>2, SamePids DEF PidParts
<1>5. ConvertCapture(NormalizeLines(lines)) = FlattenSeq(moved) /\ ConvertCapture(lines) = FlattenSeq(parts)
  BY CaptureIs
<1> HIDE DEF pids, n, parts, moved
<1>6. IsSeq(moved) /\ Len(moved) = n
  <2>1. DOMAIN moved = 1..n /\ moved = [i \in 1..n |-> moved[i]]
    BY <1>4
  <2> QED BY <1>2, <2>1, MadeSeq
<1>7. ASSUME NEW i \in 1..n PROVE moved[i] = NormalizeEvents(parts[i])
  <2> DEFINE pid == pids[i]
             events == parts[i]
             low == Low(lines, pid)
  <2>1. /\ pid \in PidsOf(lines) /\ events = PidEvents(lines, pid)
        /\ EventsOK(events) /\ Owners(events) \subseteq {pid}
    BY <1>1, <1>3
  <2>2. moved[i] = PidEvents(NormalizeLines(lines), pid)
    BY <1>4
  <2> HIDE DEF pid, events
  <2>3. PidEvents(NormalizeLines(lines), pid) = Moved(events, low)
    BY <2>1, PidEventsMove
  <2>4. FirstAt(events, low)
    BY <2>1, PidStartsAt
  <2> HIDE DEF low
  <2>5. NormalizeEvents(events) = Moved(events, low)
    BY ONLY <2>1, <2>4, OwnNormalizes
  <2> QED BY <2>2, <2>3, <2>5 DEF events
<1>8. OwnedApart(parts)
  <2>1. ASSUME NEW i \in 1..n, NEW j \in 1..n, i # j
        PROVE  Owners(parts[i]) \cap Owners(parts[j]) = {}
    <3>1. pids[i] # pids[j]
      BY <1>1, <2>1
    <3> QED BY <1>3, <3>1
  <2> QED BY <1>3, <2>1 DEF OwnedApart
<1>9. Len(moved) = Len(parts) /\ \A i \in 1..Len(parts) : moved[i] = NormalizeEvents(parts[i])
  BY <1>3, <1>6, <1>7
<1>10. NormalizeEvents(FlattenSeq(parts)) = FlattenSeq(moved)
  BY ONLY <1>6, <1>8, <1>9, NormalizeFlattens
<1> QED BY <1>5, <1>10

LEMMA CaptureOwners ==
  ASSUME NEW lines \in Seq(Line)
  PROVE  Owners(ConvertCapture(lines)) \subseteq PidsOf(lines)
<1> DEFINE pids == PidOrder(lines)
           n == Len(pids)
           parts == PidParts(lines)
           events == FlattenSeq(parts)
<1>1. /\ IsSeq(parts) /\ Len(parts) = n /\ \A k \in 1..n : pids[k] \in PidsOf(lines)
      /\ \A i \in 1..n : IsSeq(parts[i]) /\ Owners(parts[i]) \subseteq {pids[i]}
  BY PidOrderIs, PidPartsAre
<1>2. ConvertCapture(lines) = events
  BY CaptureIs
<1> HIDE DEF pids, n, parts
<1>3. \A e : e \in ToSet(events) <=> \E i \in 1..n : e \in ToSet(parts[i])
  BY <1>1, FlattenElements
<1> HIDE DEF events
<1>4. ASSUME NEW e \in ToSet(events) PROVE Owner(e) \in PidsOf(lines)
  <2>1. PICK i \in 1..n : e \in ToSet(parts[i])
    BY <1>3
  <2>2. Owner(e) \in Owners(parts[i])
    BY <2>1 DEF ToSet, Owners
  <2> QED BY <1>1, <2>2
<1> QED BY <1>2, <1>4 DEF ToSet, Owners

(* One file's events, as combine to a trace has them. *)
LEMMA FilesNormalize ==
  ASSUME NEW files, Apart(files)
  PROVE  NormalizeEvents(FlattenSeq(Converted(files)))
           = FlattenSeq([i \in 1..Len(files) |-> NormalizeEvents(ConvertCapture(files[i]))])
<1> DEFINE n == Len(files)
           parts == Converted(files)
           moved == [i \in 1..n |-> NormalizeEvents(ConvertCapture(files[i]))]
<1>1. /\ n \in Nat /\ \A i \in 1..n : files[i] \in Seq(Line)
      /\ \A i, j \in 1..n : i # j => PidsOf(files[i]) \cap PidsOf(files[j]) = {}
  BY SeqFacts DEF Apart
<1>2. /\ IsSeq(parts) /\ Len(parts) = n
      /\ \A i \in 1..n : parts[i] = ConvertCapture(files[i]) /\ EventsOK(parts[i])
  BY ConvertedIs
<1> HIDE DEF n, parts
<1>3. DOMAIN moved = 1..n /\ moved = [i \in 1..n |-> moved[i]]
      /\ \A i \in 1..n : moved[i] = NormalizeEvents(parts[i])
  BY <1>2
<1> HIDE DEF moved
<1>4. IsSeq(moved) /\ Len(moved) = n
  BY <1>1, <1>3, MadeSeq
<1>5. \A i \in 1..n : Owners(parts[i]) \subseteq PidsOf(files[i])
  BY <1>1, <1>2, CaptureOwners
<1>6. OwnedApart(parts)
  BY <1>1, <1>2, <1>5 DEF OwnedApart
<1>7. Len(moved) = Len(parts) /\ \A i \in 1..Len(parts) : moved[i] = NormalizeEvents(parts[i])
  BY <1>2, <1>3, <1>4
<1>8. NormalizeEvents(FlattenSeq(parts)) = FlattenSeq(moved)
  BY ONLY <1>4, <1>6, <1>7, NormalizeFlattens
<1> QED BY <1>8 DEF parts, moved, n

LEMMA PathsMeet ==
  ASSUME NEW files \in Seq(Seq(Line)), PidsApart(files), NEW normalize \in BOOLEAN
  PROVE  ConvertCapture(CombineToJsonl(files, normalize)) = CombineToEvents(files, normalize)
<1> DEFINE n == Len(files)
           all == FlattenSeq(files)
           merged == MergeLines(files)
<1>1. Apart(files)
  <2>1. IsSeq(files) /\ DOMAIN files = 1..n /\ \A i \in 1..n : files[i] \in Seq(Line)
    BY SeqOfAny
  <2> QED BY <2>1 DEF Apart, PidsApart
<1>2. all \in Seq(Line) /\ ConvertCapture(all) = FlattenSeq(Converted(files))
  BY <1>1, ConvertsByPart
<1>3. merged \in Seq(Line) /\ ConvertCapture(merged) = ConvertCapture(all)
  BY <1>2, MergeConverts
<1>4. DOMAIN files = 1..n
  OBVIOUS
<1> HIDE DEF n, all, merged
<1>5. CASE ~normalize
  <2>1. CombineToJsonl(files, normalize) = merged
    BY <1>5 DEF CombineToJsonl, merged
  <2>2. CombineToEvents(files, normalize) = FlattenSeq(Converted(files))
    <3>1. [i \in DOMAIN files |-> IF normalize THEN NormalizeEvents(ConvertCapture(files[i]))
                                  ELSE ConvertCapture(files[i])] = Converted(files)
      BY <1>4, <1>5 DEF Converted, n
    <3> QED BY <3>1 DEF CombineToEvents
  <2> QED BY <1>2, <1>3, <2>1, <2>2
<1>6. CASE normalize
  <2>1. CombineToJsonl(files, normalize) = NormalizeLines(merged)
    BY <1>6 DEF CombineToJsonl, merged
  <2>2. CombineToEvents(files, normalize) = NormalizeEvents(FlattenSeq(Converted(files)))
    <3>1. [i \in DOMAIN files |-> IF normalize THEN NormalizeEvents(ConvertCapture(files[i]))
                                  ELSE ConvertCapture(files[i])]
            = [i \in 1..Len(files) |-> NormalizeEvents(ConvertCapture(files[i]))]
      BY <1>4, <1>6 DEF n
    <3>2. CombineToEvents(files, normalize)
            = FlattenSeq([i \in 1..Len(files) |-> NormalizeEvents(ConvertCapture(files[i]))])
      BY <3>1 DEF CombineToEvents
    <3> QED BY <1>1, <3>2, FilesNormalize
  <2>3. ConvertCapture(NormalizeLines(merged)) = NormalizeEvents(ConvertCapture(merged))
    BY <1>3, NormalizeConverts
  <2> QED BY <1>2, <1>3, <2>1, <2>2, <2>3
<1> QED BY <1>5, <1>6

(* What combine was given is files of lines, or nothing yet. *)
CaptureOK == capture.files \in Seq(Seq(Line))

LEMMA CaptureOKInit == Init => CaptureOK
BY DEF Init, CaptureOK, NoCapture

LEMMA CaptureOKStep == CaptureOK /\ [Next]_vars => CaptureOK'
<1> SUFFICES ASSUME CaptureOK, [Next]_vars PROVE CaptureOK'
  OBVIOUS
<1>1. ASSUME NEW files \in Captures, NEW normalize \in BOOLEAN, Combine(files, normalize) PROVE CaptureOK'
  <2>1. files \in Seq(Seq(Line))
    BY CapturesAssumption DEF Line
  <2>2. capture'.files = files
    BY <1>1 DEF Combine
  <2> QED BY <2>1, <2>2 DEF CaptureOK
<1>2. CASE UNCHANGED capture
  BY <1>2 DEF CaptureOK
<1>3. ASSUME NEW p \in Monitored, NEW item \in Collections \cup Losses, AddItem(p, item) PROVE CaptureOK'
  BY <1>2, <1>3 DEF AddItem, Hand
<1>4. ASSUME NEW p \in Monitored, AddRss(p) \/ Retire(p) PROVE CaptureOK'
  BY <1>2, <1>4 DEF AddRss, Retire, Hand
<1>5. ASSUME NEW p \in Monitored, NEW ts \in 0..MaxTime, AddInstant(p, ts) PROVE CaptureOK'
  BY <1>2, <1>5 DEF AddInstant, Hand
<1>6. ASSUME NEW live \in SUBSET Monitored, ReportLiveness(live) PROVE CaptureOK'
  BY <1>2, <1>6 DEF ReportLiveness, caller
<1>7. CASE Tick \/ Flush \/ Close
  BY <1>2, <1>7 DEF Tick, Flush, Close, caller
<1>8. CASE UNCHANGED vars
  BY <1>2, <1>8 DEF vars, caller
<1> QED BY <1>1, <1>3, <1>4, <1>5, <1>6, <1>7, <1>8 DEF Next

(***************************************************************************)
(* Whatever files combine is given, normalising their lines and drawing    *)
(* them comes to what drawing them and normalising the events does.        *)
(***************************************************************************)
THEOREM CombinedPathsAgree == Spec => []CombinePathsAgree
<1>1. CaptureOK => CombinePathsAgree
  BY PathsMeet DEF CaptureOK, CombinePathsAgree
<1> QED BY <1>1, CaptureOKInit, CaptureOKStep, PTL DEF Spec
=============================================================================
