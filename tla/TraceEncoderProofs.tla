-------------------------- MODULE TraceEncoderProofs --------------------------
(***************************************************************************)
(* What the Perfetto encoder writes, for any processes, items, captures    *)
(* and any way the batches fall: a row is described once and before it is  *)
(* named, pids and ranks are nobody else's, the bars of the departed are   *)
(* out and whole, and the spans nest.  The first part is about the         *)
(* sequences a file is built from.                                         *)
(***************************************************************************)
EXTENDS TraceEncoder, FiniteSetTheorems, SequenceTheorems, TLAPS

IsSeq(s) == s \in Seq(ToSet(s))

LEMMA SeqFacts ==
  ASSUME NEW s, IsSeq(s)
  PROVE  /\ Len(s) \in Nat /\ DOMAIN s = 1..Len(s) /\ s \in [1..Len(s) -> ToSet(s)]
         /\ \A i \in 1..Len(s) : s[i] \in ToSet(s)
BY DEF IsSeq, ToSet

LEMMA SeqOfAny ==
  ASSUME NEW S, NEW s \in Seq(S)
  PROVE  IsSeq(s) /\ ToSet(s) \subseteq S /\ \A i \in DOMAIN s : s[i] \in S
<1>1. s \in [1..Len(s) -> S] /\ Len(s) \in Nat
  OBVIOUS
<1>2. s \in [1..Len(s) -> ToSet(s)]
  BY <1>1 DEF ToSet
<1> QED BY <1>1, <1>2 DEF IsSeq, ToSet

LEMMA EmptyIsSeq == IsSeq(<<>>) /\ ToSet(<<>>) = {}
BY DEF IsSeq, ToSet

LEMMA ConcatFacts ==
  ASSUME NEW a, NEW b, IsSeq(a), IsSeq(b)
  PROVE  /\ IsSeq(a \o b) /\ Len(a \o b) = Len(a) + Len(b)
         /\ \A i \in 1..Len(a) : (a \o b)[i] = a[i]
         /\ \A i \in 1..Len(b) : (a \o b)[Len(a) + i] = b[i]
         /\ ToSet(a \o b) = ToSet(a) \cup ToSet(b)
<1> DEFINE S == ToSet(a) \cup ToSet(b)
<1>1. a \in Seq(S) /\ b \in Seq(S)
  <2>1. a \in [1..Len(a) -> S] /\ Len(a) \in Nat
    BY DEF IsSeq, ToSet
  <2>2. b \in [1..Len(b) -> S] /\ Len(b) \in Nat
    BY DEF IsSeq, ToSet
  <2> QED BY <2>1, <2>2
<1>2. /\ a \o b \in Seq(S) /\ Len(a \o b) = Len(a) + Len(b)
      /\ \A i \in 1..Len(a) : (a \o b)[i] = a[i]
      /\ \A i \in 1..Len(b) : (a \o b)[Len(a) + i] = b[i]
  <2> HIDE DEF S
  <2> QED BY <1>1
<1>3. IsSeq(a \o b) /\ ToSet(a \o b) \subseteq S
  <2> HIDE DEF S
  <2> QED BY <1>2, SeqOfAny
<1>4. S \subseteq ToSet(a \o b)
  <2>1. Len(a) \in Nat /\ Len(b) \in Nat /\ DOMAIN a = 1..Len(a) /\ DOMAIN b = 1..Len(b)
    BY SeqFacts
  <2>2. DOMAIN (a \o b) = 1..(Len(a) + Len(b))
    BY <1>2, <1>3, SeqFacts
  <2>3. ASSUME NEW i \in 1..Len(a) PROVE a[i] \in ToSet(a \o b)
    BY <1>2, <2>1, <2>2, <2>3 DEF ToSet
  <2>4. ASSUME NEW i \in 1..Len(b) PROVE b[i] \in ToSet(a \o b)
    <3>1. Len(a) + i \in DOMAIN (a \o b)
      BY <2>1, <2>2
    <3> QED BY <1>2, <3>1 DEF ToSet
  <2> QED BY <2>1, <2>3, <2>4 DEF ToSet
<1> QED BY <1>2, <1>3, <1>4

LEMMA AppendFacts ==
  ASSUME NEW s, IsSeq(s), NEW e
  PROVE  IsSeq(Append(s, e)) /\ ToSet(Append(s, e)) = ToSet(s) \cup {e}
<1> DEFINE S == ToSet(s) \cup {e}
           t == Append(s, e)
<1>1. s \in Seq(S) /\ e \in S
  <2>1. s \in [1..Len(s) -> S] /\ Len(s) \in Nat
    BY DEF IsSeq, ToSet
  <2> QED BY <2>1
<1>2. Len(s) \in Nat /\ DOMAIN s = 1..Len(s)
  BY SeqFacts
<1>3. /\ t \in Seq(S) /\ Len(t) = Len(s) + 1 /\ t[Len(s) + 1] = e
      /\ \A i \in 1..Len(s) : t[i] = s[i]
  <2> HIDE DEF S
  <2> QED BY <1>1
<1> HIDE DEF t
<1>4. IsSeq(t) /\ ToSet(t) \subseteq S
  <2> HIDE DEF S
  <2> QED BY <1>3, SeqOfAny
<1>5. DOMAIN t = 1..(Len(s) + 1)
  BY <1>3, <1>4, SeqFacts
<1>6. S \subseteq ToSet(t)
  BY <1>2, <1>3, <1>5 DEF ToSet
<1> QED BY <1>4, <1>6 DEF t

LEMMA ConcatAssociates ==
  ASSUME NEW a, NEW b, NEW c, IsSeq(a), IsSeq(b), IsSeq(c)
  PROVE  (a \o b) \o c = a \o (b \o c)
<1> DEFINE S == ToSet(a) \cup ToSet(b) \cup ToSet(c)
<1>1. \A s : IsSeq(s) /\ ToSet(s) \subseteq S => s \in Seq(S)
  <2> SUFFICES ASSUME NEW s, IsSeq(s), ToSet(s) \subseteq S PROVE s \in Seq(S)
    OBVIOUS
  <2>1. s \in [1..Len(s) -> ToSet(s)] /\ Len(s) \in Nat
    BY SeqFacts
  <2> HIDE DEF S
  <2> QED BY <2>1
<1>2. a \in Seq(S) /\ b \in Seq(S) /\ c \in Seq(S)
  BY <1>1
<1> HIDE DEF S
<1> QED BY <1>2

(* A sequence made element by element. *)
LEMMA MadeSeq ==
  ASSUME NEW n \in Nat, NEW s, DOMAIN s = 1..n, s = [i \in 1..n |-> s[i]]
  PROVE  IsSeq(s) /\ Len(s) = n
<1>1. s \in [1..n -> ToSet(s)]
  BY DEF ToSet
<1> QED BY <1>1 DEF IsSeq

LEMMA OneIsSeq == \A e : IsSeq(<<e>>) /\ ToSet(<<e>>) = {e} /\ Len(<<e>>) = 1 /\ <<e>>[1] = e
BY DEF IsSeq, ToSet

-----------------------------------------------------------------------------
(* Least members and inductions, over sets of what has been shown. *)

LEMMA LeastNatural ==
  ASSUME NEW S, S \subseteq Nat, S # {}
  PROVE  \E m \in S : \A n \in S : m <= n
<1>1. OpToRel(<, Nat) = {pair \in Nat \X Nat : pair[1] < pair[2]}
  BY DEF OpToRel
<1>2. PICK m \in S : \A n \in S : ~ (<<n, m>> \in OpToRel(<, Nat))
  BY NatLessThanWellFounded, WFMin
<1>3. \A n \in S : ~ (n < m)
  BY <1>1, <1>2
<1> QED BY <1>3

(* Whatever holds of 0, and of n + 1 if of n, holds up to any bound. *)
LEMMA UpTo ==
  ASSUME NEW bound \in Nat, NEW Shown, 0 \in Shown,
         \A n \in 0..(bound - 1) : n \in Shown => n + 1 \in Shown
  PROVE  \A n \in 0..bound : n \in Shown
<1> DEFINE Left == {n \in 0..bound : n \notin Shown}
<1> SUFFICES ASSUME Left # {} PROVE FALSE
  OBVIOUS
<1>1. Left \subseteq Nat
  OBVIOUS
<1>2. PICK m \in Left : \A n \in Left : m <= n
  <2> HIDE DEF Left
  <2> QED BY <1>1, LeastNatural
<1>3. m \in 1..bound /\ m - 1 \in 0..(bound - 1) /\ m \notin Shown
  BY <1>2
<1>4. m - 1 \notin Left
  BY <1>2, <1>3
<1>5. m - 1 \in Shown
  BY <1>3, <1>4
<1>6. (m - 1) + 1 = m
  BY <1>3
<1> QED BY <1>3, <1>5, <1>6

(* A finite set of integers has both ends. *)
LEMMA FiniteEnds ==
  ASSUME NEW S, IsFiniteSet(S), S \subseteq Int, S # {}
  PROVE  /\ Earliest(S) \in S /\ \A t \in S : Earliest(S) <= t
         /\ Latest(S) \in S /\ \A t \in S : Latest(S) >= t
<1> DEFINE N == Cardinality(S)
           Ended(T) == \E lo, hi \in T : \A t \in T : lo <= t /\ t <= hi
           Shown == {n \in Nat : \A T \in SUBSET S : Cardinality(T) = n + 1 => Ended(T)}
<1>1. N \in Nat /\ N # 0
  BY FS_CardinalityType, FS_EmptySet
<1>2. \A T \in SUBSET S : IsFiniteSet(T) /\ Cardinality(T) \in Nat
  BY FS_Subset, FS_CardinalityType
<1>3. 0 \in Shown
  <2> SUFFICES ASSUME NEW T \in SUBSET S, Cardinality(T) = 1 PROVE Ended(T)
    OBVIOUS
  <2>1. PICK x : T = {x}
    BY <1>2, FS_Singleton
  <2> QED BY <2>1
<1>4. ASSUME NEW n \in 0..(N - 1 - 1), n \in Shown PROVE n + 1 \in Shown
  <2> SUFFICES ASSUME NEW T \in SUBSET S, Cardinality(T) = n + 2 PROVE Ended(T)
    BY <1>1
  <2>1. T # {} /\ n \in Nat
    BY <1>2, FS_EmptySet, <1>1
  <2>2. PICK x \in T : TRUE
    BY <2>1
  <2>3. Cardinality(T \ {x}) = n + 1
    BY <1>2, <2>1, FS_RemoveElement
  <2>4. Ended(T \ {x})
    BY <1>4, <2>3
  <2>5. PICK lo, hi \in T \ {x} : \A t \in T \ {x} : lo <= t /\ t <= hi
    BY <2>4
  <2>6. x \in Int /\ lo \in Int /\ hi \in Int /\ T \subseteq Int /\ lo \in T /\ hi \in T
    BY <2>2, <2>5
  <2>7. PICK low \in T : low <= x /\ low <= lo
    BY <2>6
  <2>8. PICK high \in T : x <= high /\ hi <= high
    BY <2>6
  <2>9. \A t \in T : low <= t /\ t <= high
    BY <2>5, <2>6, <2>7, <2>8
  <2> QED BY <2>9
<1>5. Ended(S)
  <2> HIDE DEF Ended
  <2>1. N - 1 \in 0..(N - 1) /\ N - 1 \in Nat
    BY <1>1
  <2> HIDE DEF Shown
  <2>2. N - 1 \in Shown
    BY <1>3, <1>4, <2>1, UpTo
  <2> QED BY <1>1, <2>2 DEF Shown
<1>6. PICK lo, hi \in S : \A t \in S : lo <= t /\ t <= hi
  BY <1>5
<1> QED BY <1>6 DEF Earliest, Latest

(***************************************************************************)
(* The members of a finite set, when of any two one stands behind the      *)
(* other: each is the n-th for one n, and the n-th stands behind the rest. *)
(***************************************************************************)
LEMMA Ranking ==
  ASSUME NEW S, IsFiniteSet(S), NEW behind \in [S -> SUBSET S],
         \A x \in S : x \notin behind[x],
         \A x, y \in S : x # y => \/ behind[x] \cup {x} \subseteq behind[y]
                                 \/ behind[y] \cup {y} \subseteq behind[x]
  PROVE  /\ Cardinality(S) \in Nat
         /\ \A x \in S : Cardinality(behind[x]) \in 0..(Cardinality(S) - 1)
         /\ \A x, y \in S : Cardinality(behind[x]) = Cardinality(behind[y]) => x = y
         /\ \A n \in 0..(Cardinality(S) - 1) : \E x \in S : Cardinality(behind[x]) = n
         /\ \A x, y \in S : Cardinality(behind[x]) < Cardinality(behind[y]) <=> x \in behind[y]
<1> DEFINE N == Cardinality(S)
           Place(x) == Cardinality(behind[x])
<1>1. N \in Nat
  BY FS_CardinalityType
<1>2. \A x \in S : IsFiniteSet(behind[x]) /\ Place(x) \in Nat
  BY FS_Subset, FS_CardinalityType
<1>3. ASSUME NEW x \in S PROVE Place(x) \in 0..(N - 1)
  <2>1. Cardinality(behind[x]) <= N
    BY FS_Subset
  <2>2. Cardinality(behind[x]) # N
    <3>1. behind[x] # S
      OBVIOUS
    <3> QED BY <3>1, FS_Subset
  <2> QED BY <1>1, <1>2, <2>1, <2>2
<1>4. ASSUME NEW x \in S, NEW y \in S, behind[x] \cup {x} \subseteq behind[y]
      PROVE  Place(x) < Place(y)
  <2>1. Cardinality(behind[x] \cup {x}) = Place(x) + 1
    BY <1>2, FS_AddElement
  <2>2. Cardinality(behind[x] \cup {x}) <= Place(y)
    BY <1>2, <1>4, FS_Subset
  <2> QED BY <1>2, <2>1, <2>2
<1>5. \A x, y \in S : Place(x) = Place(y) => x = y
  <2> SUFFICES ASSUME NEW x \in S, NEW y \in S, x # y PROVE Place(x) # Place(y)
    OBVIOUS
  <2>1. Place(x) < Place(y) \/ Place(y) < Place(x)
    BY <1>4
  <2> QED BY <1>2, <2>1
<1>6. \A x, y \in S : Place(x) < Place(y) <=> x \in behind[y]
  <2> SUFFICES ASSUME NEW x \in S, NEW y \in S PROVE Place(x) < Place(y) <=> x \in behind[y]
    OBVIOUS
  <2>1. CASE x = y
    BY <1>2, <2>1
  <2>2. CASE x # y /\ behind[x] \cup {x} \subseteq behind[y]
    BY <2>2, <1>4
  <2>3. CASE x # y /\ behind[y] \cup {y} \subseteq behind[x]
    <3>1. Place(y) < Place(x)
      BY <2>3, <1>4
    <3>2. x \notin behind[y]
      BY <2>3
    <3> QED BY <1>2, <3>1, <3>2
  <2> QED BY <2>1, <2>2, <2>3
<1>7. \A n \in 0..(N - 1) : \E x \in S : Place(x) = n
  <2> DEFINE f == [x \in S |-> Place(x)]
             T == 0..(N - 1)
  <2>1. f \in Injection(S, T)
    BY <1>3, <1>5 DEF Injection, IsInjective
  <2>2. IsFiniteSet(T) /\ Cardinality(T) = N
    <3>1. N - 1 \in Int /\ 0 \in Int
      BY <1>1
    <3>2. IsFiniteSet(T) /\ Cardinality(T) = IF 0 > N - 1 THEN 0 ELSE (N - 1) - 0 + 1
      BY <3>1, FS_Interval
    <3> HIDE DEF N, T
    <3> QED BY <1>1, <3>2
  <2>3. f \in Surjection(S, T)
    <3> HIDE DEF f, T
    <3> QED BY <2>1, <2>2, FS_Injection
  <2> QED BY <2>3 DEF Surjection
<1> QED BY <1>1, <1>3, <1>5, <1>6, <1>7

(* What stands at some places of a sequence, in the order of the places. *)
LEMMA AtPlaces ==
  ASSUME NEW seq, NEW n \in Nat, NEW places \in SUBSET (1..n)
  PROVE  \E at \in [1..Cardinality(places) -> places] :
           /\ Cardinality(places) \in Nat
           /\ \A k, m \in 1..Cardinality(places) : k < m <=> at[k] < at[m]
           /\ \A i \in places : \E k \in 1..Cardinality(places) : at[k] = i
           /\ At(seq, places) = [k \in 1..Cardinality(places) |-> seq[at[k]]]
           /\ IsSeq(At(seq, places)) /\ Len(At(seq, places)) = Cardinality(places)
<1> DEFINE N == Cardinality(places)
           behind == [i \in places |-> {j \in places : j < i}]
           at == [k \in 1..N |-> CHOOSE i \in places : Cardinality({j \in places : j < i}) = k - 1]
<1>1. IsFiniteSet(places)
  <2>1. IsFiniteSet(1..n)
    BY FS_Interval
  <2> QED BY <2>1, FS_Subset
<1>2. /\ N \in Nat
      /\ \A x \in places : Cardinality(behind[x]) \in 0..(N - 1)
      /\ \A x, y \in places : Cardinality(behind[x]) = Cardinality(behind[y]) => x = y
      /\ \A k \in 0..(N - 1) : \E x \in places : Cardinality(behind[x]) = k
      /\ \A x, y \in places : Cardinality(behind[x]) < Cardinality(behind[y]) <=> x \in behind[y]
  <2>1. behind \in [places -> SUBSET places] /\ \A x \in places : x \notin behind[x]
    OBVIOUS
  <2>2. \A x, y \in places : x # y => \/ behind[x] \cup {x} \subseteq behind[y]
                                     \/ behind[y] \cup {y} \subseteq behind[x]
    <3> SUFFICES ASSUME NEW x \in places, NEW y \in places, x # y
                 PROVE  \/ behind[x] \cup {x} \subseteq behind[y]
                        \/ behind[y] \cup {y} \subseteq behind[x]
      BY Zenon
    <3>1. x \in Int /\ y \in Int /\ places \subseteq Int
      OBVIOUS
    <3>2. \A z \in places : behind[z] = {j \in places : j < z}
      OBVIOUS
    <3> HIDE DEF behind
    <3>3. ASSUME NEW u \in places, NEW v \in places, u < v
          PROVE  behind[u] \cup {u} \subseteq behind[v]
      <4> SUFFICES ASSUME NEW j \in behind[u] \cup {u} PROVE j \in behind[v]
        OBVIOUS
      <4>1. j \in places /\ (j < u \/ j = u)
        BY <3>2
      <4>2. j < v
        BY <3>1, <3>3, <4>1
      <4> QED BY <3>2, <4>1, <4>2
    <3>4. x < y \/ y < x
      BY <3>1
    <3> QED BY <3>3, <3>4
  <2> HIDE DEF behind
  <2> QED BY <1>1, <2>1, <2>2, Ranking
<1>3. \A k \in 1..N : at[k] \in places /\ Cardinality(behind[at[k]]) = k - 1
  <2> SUFFICES ASSUME NEW k \in 1..N
               PROVE  at[k] \in places /\ Cardinality(behind[at[k]]) = k - 1
    OBVIOUS
  <2>1. k - 1 \in 0..(N - 1)
    BY <1>2
  <2>2. PICK x \in places : Cardinality(behind[x]) = k - 1
    BY <1>2, <2>1
  <2>3. Cardinality({j \in places : j < x}) = k - 1
    BY <2>2
  <2>4. at[k] = CHOOSE i \in places : Cardinality({j \in places : j < i}) = k - 1
    OBVIOUS
  <2>5. at[k] \in places /\ Cardinality({j \in places : j < at[k]}) = k - 1
    <3> HIDE DEF at, behind
    <3> QED BY <2>3, <2>4
  <2>6. behind[at[k]] = {j \in places : j < at[k]}
    <3> HIDE DEF at
    <3> QED BY <2>5
  <2> QED BY <2>5, <2>6
<1> HIDE DEF at
<1>4. \A k, m \in 1..N : k < m <=> at[k] < at[m]
  <2> SUFFICES ASSUME NEW k \in 1..N, NEW m \in 1..N PROVE k < m <=> at[k] < at[m]
    OBVIOUS
  <2>1. at[k] \in places /\ at[m] \in places
    BY <1>3
  <2>2. at[k] < at[m] <=> at[k] \in behind[at[m]]
    BY <2>1
  <2>3. at[k] \in behind[at[m]] <=> k - 1 < m - 1
    <3> HIDE DEF behind
    <3>1. Cardinality(behind[at[k]]) < Cardinality(behind[at[m]]) <=> at[k] \in behind[at[m]]
      BY <1>2, <2>1
    <3>2. Cardinality(behind[at[k]]) = k - 1 /\ Cardinality(behind[at[m]]) = m - 1
      BY <1>3
    <3> QED BY <3>1, <3>2
  <2> QED BY <2>2, <2>3
<1>5. \A i \in places : \E k \in 1..N : at[k] = i
  <2> SUFFICES ASSUME NEW i \in places PROVE \E k \in 1..N : at[k] = i
    OBVIOUS
  <2> DEFINE c == Cardinality(behind[i])
  <2>1. c \in 0..(N - 1)
    BY <1>2
  <2>2. c + 1 \in 1..N /\ (c + 1) - 1 = c
    <3> HIDE DEF c, N
    <3> QED BY <1>2, <2>1
  <2>3. at[c + 1] \in places /\ Cardinality(behind[at[c + 1]]) = c
    <3> HIDE DEF c, behind
    <3> QED BY <1>3, <2>2
  <2>4. at[c + 1] = i
    <3> HIDE DEF behind
    <3> QED BY <1>2, <2>3
  <2> HIDE DEF c
  <2> QED BY <2>2, <2>4
<1>6. At(seq, places) = [k \in 1..N |-> seq[at[k]]]
  BY DEF At, SortedBy, at
<1>7. at \in [1..N -> places]
  BY <1>3 DEF at
<1>8. IsSeq(At(seq, places)) /\ Len(At(seq, places)) = N
  <2> DEFINE s == [k \in 1..N |-> seq[at[k]]]
  <2>1. DOMAIN s = 1..N /\ s = [k \in 1..N |-> s[k]]
    OBVIOUS
  <2> HIDE DEF s, N
  <2>2. IsSeq(s) /\ Len(s) = N
    BY <1>2, <2>1, MadeSeq
  <2> QED BY <1>6, <2>2 DEF s
<1> HIDE DEF N
<1>9. /\ N \in Nat
      /\ \A k, m \in 1..N : k < m <=> at[k] < at[m]
      /\ \A i \in places : \E k \in 1..N : at[k] = i
      /\ At(seq, places) = [k \in 1..N |-> seq[at[k]]]
      /\ IsSeq(At(seq, places)) /\ Len(At(seq, places)) = N
  BY <1>2, <1>4, <1>5, <1>6, <1>8
<1> QED BY <1>7, <1>9 DEF N

(* What is taken is what stood there. *)
Taken(seq, places) ==
  /\ IsSeq(At(seq, places)) /\ Len(At(seq, places)) \in Nat
  /\ DOMAIN At(seq, places) = 1..Len(At(seq, places))
  /\ \A k \in 1..Len(At(seq, places)) : \E i \in places : At(seq, places)[k] = seq[i]

LEMMA AtElements ==
  ASSUME NEW seq, NEW n \in Nat, NEW places \in SUBSET (1..n)
  PROVE  Taken(seq, places)
<1>1. PICK at \in [1..Cardinality(places) -> places] :
           /\ Cardinality(places) \in Nat
           /\ At(seq, places) = [k \in 1..Cardinality(places) |-> seq[at[k]]]
           /\ IsSeq(At(seq, places)) /\ Len(At(seq, places)) = Cardinality(places)
  BY AtPlaces
<1> QED BY <1>1 DEF Taken

-----------------------------------------------------------------------------
(* Flattening: each element of each part has its place, part after part. *)

(* h holds what the first parts come to. *)
IsFlatten(parts, h) ==
  h = [i \in 1..Len(parts) |-> IF i = 1 THEN parts[i] ELSE h[i - 1] \o parts[i]]

LEMMA FlattenExists ==
  ASSUME NEW parts, Len(parts) \in Nat
  PROVE  \E h : IsFlatten(parts, h)
<1> DEFINE N == Len(parts)
           Made(n, h) == h = [i \in 1..n |-> IF i = 1 THEN parts[i] ELSE h[i - 1] \o parts[i]]
           Shown == {n \in Nat : \E h : Made(n, h)}
<1>1. 0 \in Shown
  <2> DEFINE h == [i \in 1..0 |-> {}]
  <2>1. Made(0, h)
    OBVIOUS
  <2> QED BY <2>1
<1>2. ASSUME NEW n \in 0..(N - 1), n \in Shown PROVE n + 1 \in Shown
  <2>1. PICK h : Made(n, h)
    BY <1>2
  <2> DEFINE last == IF n = 0 THEN parts[1] ELSE h[n] \o parts[n + 1]
             k == [i \in 1..(n + 1) |-> IF i = n + 1 THEN last ELSE h[i]]
  <2>2. n \in Nat
    OBVIOUS
  <2>3. ASSUME NEW i \in 1..(n + 1)
        PROVE  k[i] = IF i = 1 THEN parts[i] ELSE k[i - 1] \o parts[i]
    <3>1. CASE i = n + 1 /\ n = 0
      BY <3>1
    <3>2. CASE i = n + 1 /\ n # 0
      <4>1. i - 1 \in 1..(n + 1) /\ i - 1 = n /\ i # 1 /\ n # n + 1
        BY <2>2, <3>2
      <4>2. k[i - 1] = h[n] /\ k[i] = h[n] \o parts[i]
        BY <3>2, <4>1
      <4> QED BY <4>1, <4>2
    <3>3. CASE i # n + 1
      <4>1. i \in 1..n /\ k[i] = h[i]
        BY <2>2, <3>3
      <4>2. h[i] = IF i = 1 THEN parts[i] ELSE h[i - 1] \o parts[i]
        BY <2>1, <4>1
      <4>3. i # 1 => k[i - 1] = h[i - 1]
        <5> SUFFICES ASSUME i # 1 PROVE k[i - 1] = h[i - 1]
          OBVIOUS
        <5>1. i - 1 \in 1..(n + 1) /\ i - 1 # n + 1
          BY <2>2, <4>1
        <5> QED BY <5>1
      <4> QED BY <4>1, <4>2, <4>3
    <3> QED BY <3>1, <3>2, <3>3
  <2>4. Made(n + 1, k)
    <3>1. k = [i \in 1..(n + 1) |-> k[i]]
      OBVIOUS
    <3> HIDE DEF k
    <3> QED BY <2>3, <3>1
  <2> HIDE DEF k, Made
  <2> QED BY <2>2, <2>4
<1>3. N \in Shown
  <2>1. N \in 0..N
    OBVIOUS
  <2> HIDE DEF Shown
  <2> QED BY <1>1, <1>2, <2>1, UpTo
<1> QED BY <1>3 DEF IsFlatten

LEMMA FlattenIs ==
  ASSUME NEW parts, Len(parts) \in Nat
  PROVE  /\ Len(parts) = 0 => FlattenSeq(parts) = parts
         /\ Len(parts) # 0 => \E h : IsFlatten(parts, h) /\ FlattenSeq(parts) = h[Len(parts)]
<1>1. Len(parts) = 0 => FlattenSeq(parts) = parts
  BY DEF FlattenSeq
<1>2. Len(parts) # 0 => FlattenSeq(parts) = (CHOOSE h : IsFlatten(parts, h))[Len(parts)]
  BY DEF FlattenSeq, IsFlatten
<1> DEFINE h == CHOOSE h : IsFlatten(parts, h)
<1>3. IsFlatten(parts, h)
  BY FlattenExists
<1> QED BY <1>1, <1>2, <1>3

LEMMA FlattenPlaces ==
  ASSUME NEW parts, IsSeq(parts), \A i \in 1..Len(parts) : IsSeq(parts[i])
  PROVE  \E start \in [1..Len(parts) -> Nat] :
           /\ IsSeq(FlattenSeq(parts))
           /\ \A i \in 1..Len(parts) : \A m \in 1..Len(parts[i]) :
                /\ start[i] + m \in 1..Len(FlattenSeq(parts))
                /\ FlattenSeq(parts)[start[i] + m] = parts[i][m]
           /\ \A k \in 1..Len(FlattenSeq(parts)) :
                \E i \in 1..Len(parts) : \E m \in 1..Len(parts[i]) : k = start[i] + m
           /\ \A i, j \in 1..Len(parts) : i < j => start[i] + Len(parts[i]) <= start[j]
<1> DEFINE N == Len(parts)
<1>1. N \in Nat /\ DOMAIN parts = 1..N
  BY SeqFacts
<1>2. CASE N = 0
  <2>1. FlattenSeq(parts) = parts
    BY <1>1, <1>2, FlattenIs
  <2> DEFINE start == [i \in 1..0 |-> 0]
  <2>2. start \in [1..Len(parts) -> Nat] /\ 1..Len(parts) = {}
    BY <1>2
  <2> HIDE DEF start
  <2> QED BY <2>1, <2>2
<1>3. CASE N # 0
  <2>1. PICK h : IsFlatten(parts, h) /\ FlattenSeq(parts) = h[N]
    BY <1>1, <1>3, FlattenIs
  <2>2. /\ h[1] = parts[1]
        /\ \A n \in 1..(N - 1) : h[n + 1] = h[n] \o parts[n + 1]
    <3>1. \A i \in 1..N : h[i] = IF i = 1 THEN parts[i] ELSE h[i - 1] \o parts[i]
      BY <2>1 DEF IsFlatten
    <3>2. ASSUME NEW n \in 1..(N - 1) PROVE h[n + 1] = h[n] \o parts[n + 1]
      <4>1. n + 1 \in 1..N /\ n + 1 # 1 /\ (n + 1) - 1 = n
        BY <1>1
      <4> QED BY <3>1, <4>1
    <3>3. 1 \in 1..N
      BY <1>1, <1>3
    <3>4. h[1] = parts[1]
      BY <3>1, <3>3
    <3> QED BY <3>2, <3>4
  <2> DEFINE start == [i \in 1..N |-> IF i = 1 THEN 0 ELSE Len(h[i - 1])]
             Laid(n) ==
               /\ IsSeq(h[n])
               /\ \A i \in 1..n : start[i] \in Nat
               /\ start[n] + Len(parts[n]) = Len(h[n])
               /\ \A i \in 1..n : \A m \in 1..Len(parts[i]) :
                    start[i] + m \in 1..Len(h[n]) /\ h[n][start[i] + m] = parts[i][m]
               /\ \A k \in 1..Len(h[n]) :
                    \E i \in 1..n : \E m \in 1..Len(parts[i]) : k = start[i] + m
               /\ \A i, j \in 1..n : i < j => start[i] + Len(parts[i]) <= start[j]
             Shown == {n \in Nat : Laid(n + 1)}
  <2>3. \A i \in 1..N : IsSeq(parts[i]) /\ Len(parts[i]) \in Nat
    BY SeqFacts
  <2>4. /\ start[1] = 0
        /\ \A n \in 1..(N - 1) : start[n + 1] = Len(h[n])
    <3>1. ASSUME NEW n \in 1..(N - 1) PROVE start[n + 1] = Len(h[n])
      <4>1. n + 1 \in 1..N /\ n + 1 # 1 /\ (n + 1) - 1 = n
        BY <1>1
      <4> QED BY <4>1
    <3> QED BY <1>1, <1>3, <3>1
  <2> HIDE DEF start
  <2>5. Laid(1)
    <3>1. h[1] = parts[1] /\ IsSeq(parts[1]) /\ start[1] = 0 /\ Len(parts[1]) \in Nat
      BY <1>1, <1>3, <2>2, <2>3, <2>4
    <3>2. 1..1 = {1}
      OBVIOUS
    <3>3. \A k \in 1..Len(h[1]) : k = start[1] + k /\ k \in 1..Len(parts[1])
      BY <3>1
    <3> QED BY <3>1, <3>2, <3>3
  <2>6. ASSUME NEW n \in 1..(N - 1), Laid(n) PROVE Laid(n + 1)
    <3> DEFINE part == parts[n + 1]
    <3>1. /\ n \in Nat /\ n + 1 \in 1..N /\ IsSeq(part) /\ Len(part) \in Nat
          /\ IsSeq(h[n]) /\ Len(h[n]) \in Nat
          /\ h[n + 1] = h[n] \o part /\ start[n + 1] = Len(h[n])
      <4>1. n \in Nat /\ n + 1 \in 1..N
        BY <1>1
      <4>2. IsSeq(h[n])
        BY <2>6
      <4>3. Len(h[n]) \in Nat
        BY <4>2, SeqFacts
      <4>4. IsSeq(part) /\ Len(part) \in Nat
        BY <2>3, <4>1
      <4> QED BY <2>2, <2>4, <4>1, <4>2, <4>3, <4>4
    <3> HIDE DEF part
    <3>2. /\ IsSeq(h[n + 1]) /\ Len(h[n + 1]) = Len(h[n]) + Len(part)
          /\ \A i \in 1..Len(h[n]) : h[n + 1][i] = h[n][i]
          /\ \A i \in 1..Len(part) : h[n + 1][Len(h[n]) + i] = part[i]
      BY <3>1, ConcatFacts
    <3>3. \A i \in 1..(n + 1) : i \in 1..n \/ i = n + 1
      BY <3>1
    <3>4. ASSUME NEW i \in 1..(n + 1), NEW m \in 1..Len(parts[i])
          PROVE  start[i] + m \in 1..Len(h[n + 1]) /\ h[n + 1][start[i] + m] = parts[i][m]
      <4>1. CASE i \in 1..n
        <5>1. start[i] + m \in 1..Len(h[n]) /\ h[n][start[i] + m] = parts[i][m]
          BY <2>6, <4>1
        <5> QED BY <3>1, <3>2, <5>1
      <4>2. CASE i = n + 1
        <5>1. m \in 1..Len(part) /\ parts[i][m] = part[m] /\ start[i] = Len(h[n])
          BY <3>1, <4>2 DEF part
        <5> QED BY <3>1, <3>2, <5>1
      <4> QED BY <3>3, <4>1, <4>2
    <3>5. ASSUME NEW k \in 1..Len(h[n + 1])
          PROVE  \E i \in 1..(n + 1) : \E m \in 1..Len(parts[i]) : k = start[i] + m
      <4>1. CASE k \in 1..Len(h[n])
        <5>1. PICK i \in 1..n : \E m \in 1..Len(parts[i]) : k = start[i] + m
          BY <2>6, <4>1
        <5>2. i \in 1..(n + 1)
          BY <3>1
        <5> QED BY <5>1, <5>2
      <4>2. CASE k \notin 1..Len(h[n])
        <5>1. k - Len(h[n]) \in 1..Len(part) /\ k = start[n + 1] + (k - Len(h[n]))
          BY <3>1, <3>2, <4>2
        <5>2. n + 1 \in 1..(n + 1)
          BY <3>1
        <5> QED BY <5>1, <5>2 DEF part
      <4> QED BY <4>1, <4>2
    <3>6. ASSUME NEW i \in 1..(n + 1), NEW j \in 1..(n + 1), i < j
          PROVE  start[i] + Len(parts[i]) <= start[j]
      <4>1. i \in 1..n
        BY <3>1, <3>6
      <4>2. CASE j \in 1..n
        BY <2>6, <3>6, <4>1, <4>2
      <4>3. CASE j = n + 1
        <5>1. start[i] + Len(parts[i]) <= Len(h[n])
          <6>1. CASE i = n
            <7>1. start[i] + Len(parts[i]) = Len(h[n])
              BY <2>6, <6>1
            <7> QED BY <3>1, <7>1
          <6>2. CASE i # n
            <7>1. n \in 1..n /\ i < n
              BY <3>1, <4>1, <6>2
            <7>2. start[i] + Len(parts[i]) <= start[n] /\ start[n] \in Nat /\ start[i] \in Nat
              BY <2>6, <4>1, <7>1
            <7>3. start[n] + Len(parts[n]) = Len(h[n]) /\ Len(parts[n]) \in Nat
                  /\ Len(parts[i]) \in Nat
              BY <2>3, <2>6, <4>1, <3>1
            <7> QED BY ONLY <7>2, <7>3, <3>1
          <6> QED BY <6>1, <6>2
        <5> QED BY <3>1, <4>3, <5>1
      <4> QED BY <3>3, <4>2, <4>3
    <3>7. \A i \in 1..(n + 1) : start[i] \in Nat
      BY <2>6, <3>1, <3>3
    <3>8. start[n + 1] + Len(parts[n + 1]) = Len(h[n + 1])
      BY <3>1, <3>2 DEF part
    <3> QED BY <3>2, <3>4, <3>5, <3>6, <3>7, <3>8
  <2>7. Laid(N)
    <3> HIDE DEF Laid
    <3>1. 0 \in Shown
      BY <2>5
    <3>2. ASSUME NEW n \in 0..(N - 1 - 1), n \in Shown PROVE n + 1 \in Shown
      <4>1. n + 1 \in 1..(N - 1) /\ n + 1 \in Nat
        BY <1>1
      <4>2. Laid(n + 1)
        BY <3>2
      <4>3. Laid((n + 1) + 1)
        BY <2>6, <4>1, <4>2
      <4> QED BY <4>1, <4>3
    <3>3. N - 1 \in Nat /\ N - 1 \in 0..(N - 1) /\ (N - 1) + 1 = N
      BY <1>1, <1>3
    <3> HIDE DEF Shown, N
    <3>4. N - 1 \in Shown
      BY <3>1, <3>2, <3>3, UpTo
    <3> QED BY <3>3, <3>4 DEF Shown
  <2>8. start \in [1..N -> Nat]
    <3>1. start = [i \in 1..N |-> start[i]]
      BY DEF start
    <3>2. \A i \in 1..N : start[i] \in Nat
      BY <2>7
    <3> QED BY <3>1, <3>2
  <2> HIDE DEF start
  <2>9. /\ IsSeq(FlattenSeq(parts))
        /\ \A i \in 1..N : \A m \in 1..Len(parts[i]) :
             /\ start[i] + m \in 1..Len(FlattenSeq(parts))
             /\ FlattenSeq(parts)[start[i] + m] = parts[i][m]
        /\ \A k \in 1..Len(FlattenSeq(parts)) :
             \E i \in 1..N : \E m \in 1..Len(parts[i]) : k = start[i] + m
        /\ \A i, j \in 1..N : i < j => start[i] + Len(parts[i]) <= start[j]
    BY <2>1, <2>7
  <2> QED BY <2>8, <2>9, Zenon
<1> QED BY <1>2, <1>3

(* Each element of each part is in the whole, at its place behind the start of its part. *)
Placed(start, parts, flat) ==
  /\ IsSeq(flat)
  /\ \A i \in 1..Len(parts) : \A m \in 1..Len(parts[i]) :
       start[i] + m \in 1..Len(flat) /\ flat[start[i] + m] = parts[i][m]
  /\ \A k \in 1..Len(flat) :
       \E i \in 1..Len(parts) : \E m \in 1..Len(parts[i]) :
         k = start[i] + m /\ flat[k] = parts[i][m]

LEMMA FlattenPlaced ==
  ASSUME NEW parts, IsSeq(parts), \A i \in 1..Len(parts) : IsSeq(parts[i])
  PROVE  \E start \in [1..Len(parts) -> Nat] : Placed(start, parts, FlattenSeq(parts))
<1> DEFINE flat == FlattenSeq(parts)
           Held(start) ==
             /\ IsSeq(flat)
             /\ \A i \in 1..Len(parts) : \A m \in 1..Len(parts[i]) :
                  /\ start[i] + m \in 1..Len(flat)
                  /\ flat[start[i] + m] = parts[i][m]
             /\ \A k \in 1..Len(flat) :
                  \E i \in 1..Len(parts) : \E m \in 1..Len(parts[i]) : k = start[i] + m
             /\ \A i, j \in 1..Len(parts) : i < j => start[i] + Len(parts[i]) <= start[j]
<1>1. \E start \in [1..Len(parts) -> Nat] : Held(start)
  BY FlattenPlaces, Zenon
<1>2. PICK start \in [1..Len(parts) -> Nat] : Held(start)
  BY <1>1
<1> HIDE DEF flat
<1>3. ASSUME NEW k \in 1..Len(flat)
      PROVE  \E i \in 1..Len(parts) : \E m \in 1..Len(parts[i]) :
               k = start[i] + m /\ flat[k] = parts[i][m]
  <2>1. PICK i \in 1..Len(parts) : \E m \in 1..Len(parts[i]) : k = start[i] + m
    BY <1>2
  <2>2. PICK m \in 1..Len(parts[i]) : k = start[i] + m
    BY <2>1
  <2>3. flat[k] = parts[i][m]
    BY <1>2, <2>2
  <2> QED BY <2>2, <2>3
<1>4. Placed(start, parts, flat)
  BY <1>2, <1>3 DEF Placed
<1> QED BY <1>4 DEF flat

(* What is in a flattened sequence is in a part of it, and the other way round. *)
LEMMA FlattenElements ==
  ASSUME NEW parts, IsSeq(parts), \A i \in 1..Len(parts) : IsSeq(parts[i])
  PROVE  /\ IsSeq(FlattenSeq(parts))
         /\ \A e : e \in ToSet(FlattenSeq(parts)) <=> \E i \in 1..Len(parts) : e \in ToSet(parts[i])
<1> DEFINE flat == FlattenSeq(parts)
<1>h. PICK start \in [1..Len(parts) -> Nat] : Placed(start, parts, flat)
  BY FlattenPlaced
<1> HIDE DEF flat
<1>1. /\ IsSeq(flat)
      /\ \A i \in 1..Len(parts) : \A m \in 1..Len(parts[i]) :
           start[i] + m \in 1..Len(flat) /\ flat[start[i] + m] = parts[i][m]
      /\ \A k \in 1..Len(flat) :
           \E i \in 1..Len(parts) : \E m \in 1..Len(parts[i]) :
             k = start[i] + m /\ flat[k] = parts[i][m]
  BY <1>h DEF Placed
<1>2. DOMAIN flat = 1..Len(flat) /\ \A i \in 1..Len(parts) : DOMAIN parts[i] = 1..Len(parts[i])
  BY <1>1, SeqFacts
<1>3. ASSUME NEW k \in 1..Len(flat)
      PROVE  \E i \in 1..Len(parts) : flat[k] \in ToSet(parts[i])
  <2>1. PICK i \in 1..Len(parts) : \E m \in 1..Len(parts[i]) : k = start[i] + m
    BY <1>1
  <2>2. PICK m \in 1..Len(parts[i]) : k = start[i] + m
    BY <2>1
  <2>3. flat[k] = parts[i][m]
    BY <1>1, <2>2
  <2> QED BY <1>2, <2>3 DEF ToSet
<1>4. ASSUME NEW i \in 1..Len(parts), NEW m \in 1..Len(parts[i])
      PROVE  parts[i][m] \in ToSet(flat)
  BY <1>1, <1>2 DEF ToSet
<1>5. ASSUME NEW e, e \in ToSet(flat) PROVE \E i \in 1..Len(parts) : e \in ToSet(parts[i])
  <2>1. PICK k \in 1..Len(flat) : e = flat[k]
    BY <1>2, <1>5 DEF ToSet
  <2> QED BY <1>3, <2>1
<1>6. ASSUME NEW e, NEW i \in 1..Len(parts), e \in ToSet(parts[i]) PROVE e \in ToSet(flat)
  <2>1. PICK m \in 1..Len(parts[i]) : e = parts[i][m]
    BY <1>2, <1>6 DEF ToSet
  <2> QED BY <1>4, <2>1
<1>7. IsSeq(flat) /\ \A e : e \in ToSet(flat) <=> \E i \in 1..Len(parts) : e \in ToSet(parts[i])
  BY <1>1, <1>5, <1>6
<1> QED BY <1>7 DEF flat

-----------------------------------------------------------------------------
(* Sums. *)

(* u holds the sums of the first n numbers. *)
Adds(numbers, n, u) ==
  /\ u[0] = 0
  /\ \A k \in 1..n : u[k] = u[k - 1] + numbers[k]

LEMMA SumExists ==
  ASSUME NEW numbers, NEW n \in Nat
  PROVE  \E u : u = [k \in 0..n |-> IF k = 0 THEN 0 ELSE u[k - 1] + numbers[k]]
<1> DEFINE Made(m, u) == u = [k \in 0..m |-> IF k = 0 THEN 0 ELSE u[k - 1] + numbers[k]]
           Summed == {m \in Nat : \E u : Made(m, u)}
<1>1. 0 \in Summed
  <2> DEFINE u == [k \in 0..0 |-> 0]
  <2>1. u = [k \in 0..0 |-> IF k = 0 THEN 0 ELSE u[k - 1] + numbers[k]]
    OBVIOUS
  <2> QED BY <2>1
<1>2. ASSUME NEW m \in 0..(n - 1), m \in Summed PROVE m + 1 \in Summed
  <2>1. PICK u : Made(m, u)
    BY <1>2
  <2>2. m \in Nat
    OBVIOUS
  <2> DEFINE w == [k \in 0..(m + 1) |-> IF k = m + 1 THEN u[m] + numbers[k] ELSE u[k]]
  <2>3. ASSUME NEW k \in 0..(m + 1)
        PROVE  w[k] = IF k = 0 THEN 0 ELSE w[k - 1] + numbers[k]
    <3>1. CASE k = m + 1
      <4>1. k - 1 \in 0..(m + 1) /\ k - 1 = m /\ k # 0 /\ m # m + 1
        BY <2>2, <3>1
      <4>2. w[k - 1] = u[m] /\ w[k] = u[m] + numbers[k]
        BY <3>1, <4>1
      <4> QED BY <4>1, <4>2
    <3>2. CASE k # m + 1
      <4>1. k \in 0..m /\ w[k] = u[k]
        BY <2>2, <3>2
      <4>2. u[k] = IF k = 0 THEN 0 ELSE u[k - 1] + numbers[k]
        BY <2>1, <4>1
      <4>3. k # 0 => w[k - 1] = u[k - 1]
        <5> SUFFICES ASSUME k # 0 PROVE w[k - 1] = u[k - 1]
          OBVIOUS
        <5>1. k - 1 \in 0..(m + 1) /\ k - 1 # m + 1
          BY <2>2, <4>1
        <5> QED BY <5>1
      <4> QED BY <4>1, <4>2, <4>3
    <3> QED BY <3>1, <3>2
  <2>4. Made(m + 1, w)
    <3>1. w = [k \in 0..(m + 1) |-> w[k]]
      OBVIOUS
    <3> HIDE DEF w
    <3> QED BY <2>3, <3>1
  <2> HIDE DEF w, Made
  <2> QED BY <2>2, <2>4
<1>3. n \in Summed
  <2>1. n \in 0..n
    OBVIOUS
  <2> HIDE DEF Summed
  <2> QED BY <1>1, <1>2, <2>1, UpTo
<1> QED BY <1>3

LEMMA SumUnrolls ==
  ASSUME NEW numbers, Len(numbers) \in Nat
  PROVE  \E u : Adds(numbers, Len(numbers), u) /\ SumOf(numbers) = u[Len(numbers)]
<1> DEFINE n == Len(numbers)
           u == CHOOSE u : u = [k \in 0..n |-> IF k = 0 THEN 0 ELSE u[k - 1] + numbers[k]]
<1>1. u = [k \in 0..n |-> IF k = 0 THEN 0 ELSE u[k - 1] + numbers[k]]
  BY SumExists
<1>2. SumOf(numbers) = u[n]
  BY DEF SumOf
<1> HIDE DEF u
<1>3. Adds(numbers, n, u)
  BY <1>1 DEF Adds
<1> QED BY <1>2, <1>3

(* Whatever adds the numbers up comes to their sum. *)
LEMMA SumIs ==
  ASSUME NEW numbers, Len(numbers) \in Nat, NEW v, Adds(numbers, Len(numbers), v)
  PROVE  SumOf(numbers) = v[Len(numbers)]
<1> DEFINE n == Len(numbers)
<1>1. PICK u : Adds(numbers, n, u) /\ SumOf(numbers) = u[n]
  BY SumUnrolls
<1> DEFINE Same == {k \in Nat : u[k] = v[k]}
<1>2. 0 \in Same
  BY <1>1 DEF Adds
<1>3. ASSUME NEW k \in 0..(n - 1), k \in Same PROVE k + 1 \in Same
  <2>1. k + 1 \in 1..n /\ (k + 1) - 1 = k /\ k + 1 \in Nat
    OBVIOUS
  <2>2. u[k + 1] = u[k] + numbers[k + 1] /\ v[k + 1] = v[k] + numbers[k + 1]
    <3> HIDE DEF Same
    <3> QED BY <1>1, <2>1 DEF Adds
  <2> QED BY <1>3, <2>1, <2>2
<1>4. n \in Same
  <2>1. n \in 0..n
    OBVIOUS
  <2> HIDE DEF Same
  <2> QED BY <1>2, <1>3, <2>1, UpTo
<1> QED BY <1>1, <1>4

LEMMA SumIsInt ==
  ASSUME NEW numbers, Len(numbers) \in Nat, \A i \in 1..Len(numbers) : numbers[i] \in Int
  PROVE  \E u : /\ Adds(numbers, Len(numbers), u) /\ SumOf(numbers) = u[Len(numbers)]
                /\ \A k \in 0..Len(numbers) : u[k] \in Int
<1> DEFINE n == Len(numbers)
<1>1. PICK u : Adds(numbers, n, u) /\ SumOf(numbers) = u[n]
  BY SumUnrolls
<1> DEFINE Whole == {k \in Nat : u[k] \in Int}
<1>2. 0 \in Whole
  BY <1>1 DEF Adds
<1>3. ASSUME NEW k \in 0..(n - 1), k \in Whole PROVE k + 1 \in Whole
  <2>1. k + 1 \in 1..n /\ (k + 1) - 1 = k /\ k + 1 \in Nat
    OBVIOUS
  <2>2. u[k + 1] = u[k] + numbers[k + 1] /\ numbers[k + 1] \in Int
    <3> HIDE DEF Whole
    <3> QED BY <1>1, <2>1 DEF Adds
  <2> QED BY <1>3, <2>1, <2>2
<1>4. \A k \in 0..n : k \in Whole
  <2> HIDE DEF Whole
  <2> QED BY <1>2, <1>3, UpTo
<1> QED BY <1>1, <1>4

LEMMA SumOfInts ==
  ASSUME NEW numbers, Len(numbers) \in Nat, \A i \in 1..Len(numbers) : numbers[i] \in Int
  PROVE  SumOf(numbers) \in Int
BY SumIsInt

LEMMA SumOfNone ==
  ASSUME NEW numbers, Len(numbers) \in Nat, \A i \in 1..Len(numbers) : numbers[i] = 0
  PROVE  SumOf(numbers) = 0
<1> DEFINE v == [k \in 0..Len(numbers) |-> 0]
<1>1. Adds(numbers, Len(numbers), v)
  BY DEF Adds
<1>2. v[Len(numbers)] = 0
  OBVIOUS
<1> HIDE DEF v
<1> QED BY <1>1, <1>2, SumIs

(* Counting is adding ones. *)
LEMMA SumCounts ==
  ASSUME NEW n \in Nat, NEW places \in SUBSET (1..n)
  PROVE  Cardinality(places) = SumOf([i \in 1..n |-> IF i \in places THEN 1 ELSE 0])
<1> DEFINE ones == [i \in 1..n |-> IF i \in places THEN 1 ELSE 0]
           below(k) == places \cap (1..k)
           v == [k \in 0..n |-> Cardinality(below(k))]
<1>1. Len(ones) = n
  <2>1. DOMAIN ones = 1..n /\ ones = [i \in 1..n |-> ones[i]]
    OBVIOUS
  <2> HIDE DEF ones
  <2> QED BY <2>1, MadeSeq
<1>2. v[0] = 0
  <2>1. below(0) = {}
    OBVIOUS
  <2> QED BY <2>1, FS_EmptySet
<1>3. ASSUME NEW k \in 1..n PROVE v[k] = v[k - 1] + ones[k]
  <2>1. k - 1 \in 0..n /\ k \in 0..n
    OBVIOUS
  <2>2. v[k] = Cardinality(below(k)) /\ v[k - 1] = Cardinality(below(k - 1))
    BY <2>1
  <2>3. IsFiniteSet(below(k - 1))
    <3>1. IsFiniteSet(1..(k - 1))
      BY FS_Interval
    <3> QED BY <3>1, FS_Subset
  <2>4. k \notin below(k - 1)
    OBVIOUS
  <2>5. k \in places => below(k) = below(k - 1) \cup {k}
    OBVIOUS
  <2>6. k \notin places => below(k) = below(k - 1)
    OBVIOUS
  <2> HIDE DEF below, v
  <2>7. k \in places => Cardinality(below(k)) = Cardinality(below(k - 1)) + 1
    BY <2>3, <2>4, <2>5, FS_AddElement
  <2>8. Cardinality(below(k - 1)) \in Nat
    BY <2>3, FS_CardinalityType
  <2> QED BY <2>2, <2>6, <2>7, <2>8
<1>4. Adds(ones, Len(ones), v)
  <2> HIDE DEF v, ones
  <2> QED BY <1>1, <1>2, <1>3 DEF Adds
<1>5. v[n] = Cardinality(places)
  <2>1. below(n) = places
    OBVIOUS
  <2> QED BY <2>1
<1> HIDE DEF v, ones
<1> QED BY <1>1, <1>4, <1>5, SumIs DEF ones

(* The sum of two sequences, one after the other. *)
LEMMA SumJoins ==
  ASSUME NEW a, NEW b, NEW c, Len(a) \in Nat, Len(b) \in Nat, Len(c) = Len(a) + Len(b),
         \A i \in 1..Len(a) : c[i] = a[i] /\ a[i] \in Int,
         \A i \in 1..Len(b) : c[Len(a) + i] = b[i] /\ b[i] \in Int
  PROVE  SumOf(c) = SumOf(a) + SumOf(b) /\ SumOf(a) \in Int /\ SumOf(b) \in Int
<1> DEFINE n == Len(a)
           m == Len(b)
<1>1. PICK u : Adds(a, n, u) /\ SumOf(a) = u[n] /\ \A k \in 0..n : u[k] \in Int
  BY SumIsInt
<1>2. PICK v : Adds(b, m, v) /\ SumOf(b) = v[m] /\ \A k \in 0..m : v[k] \in Int
  BY SumIsInt
<1> DEFINE w == [k \in 0..(n + m) |-> IF k <= n THEN u[k] ELSE u[n] + v[k - n]]
<1> HIDE DEF n, m
<1>3. n \in Nat /\ m \in Nat /\ Len(c) = n + m
  BY DEF n, m
<1>4. u[0] = 0 /\ v[0] = 0 /\ u[n] \in Int /\ v[m] \in Int
  BY <1>1, <1>2, <1>3 DEF Adds
<1>5. w[0] = 0
  BY <1>3, <1>4
<1>6. ASSUME NEW k \in 1..(n + m) PROVE w[k] = w[k - 1] + c[k]
  <2>1. k \in 0..(n + m) /\ k - 1 \in 0..(n + m)
    BY <1>3
  <2>2. CASE k <= n
    <3>1. k \in 1..n /\ k - 1 <= n
      BY <1>3, <2>2
    <3>2. w[k] = u[k] /\ w[k - 1] = u[k - 1]
      BY <2>1, <2>2, <3>1
    <3>3. u[k] = u[k - 1] + a[k] /\ c[k] = a[k]
      BY <1>1, <3>1 DEF Adds, n
    <3> QED BY <3>2, <3>3
  <2>3. CASE k = n + 1
    <3>1. 1 \in 1..m /\ k - n = 1 /\ k - 1 = n /\ ~(k <= n) /\ n + 1 = k /\ n <= n
      BY <1>3, <2>3
    <3>2. w[k] = u[n] + v[1] /\ w[k - 1] = u[n]
      BY <2>1, <3>1
    <3>3. v[1] = v[0] + b[1] /\ b[1] \in Int /\ c[k] = b[1]
      <4>1. v[1] = v[1 - 1] + b[1]
        BY <1>2, <3>1 DEF Adds
      <4>2. c[n + 1] = b[1] /\ b[1] \in Int
        BY <3>1 DEF n, m
      <4> QED BY <3>1, <4>1, <4>2
    <3> QED BY <1>4, <3>2, <3>3
  <2>4. CASE k > n + 1
    <3>1. k - n \in 1..m /\ (k - n) - 1 = (k - 1) - n /\ (k - n) - 1 \in 0..m /\ ~(k <= n) /\ ~(k - 1 <= n)
          /\ n + (k - n) = k
      BY <1>3, <2>4
    <3>2. w[k] = u[n] + v[k - n] /\ w[k - 1] = u[n] + v[(k - n) - 1]
      BY <2>1, <3>1
    <3> DEFINE j == k - n
    <3>3. v[j] = v[j - 1] + b[j] /\ v[j - 1] \in Int
      BY <1>2, <3>1 DEF Adds
    <3>4. c[n + j] = b[j] /\ b[j] \in Int
      <4> HIDE DEF j
      <4> QED BY <3>1 DEF n, m, j
    <3> HIDE DEF w
    <3> QED BY <1>4, <3>1, <3>2, <3>3, <3>4
  <2> QED BY <1>3, <2>2, <2>3, <2>4
<1>7. Adds(c, Len(c), w)
  <2> HIDE DEF w
  <2> QED BY <1>3, <1>5, <1>6 DEF Adds
<1>8. w[n + m] = u[n] + v[m]
  <2>1. n + m \in 0..(n + m) /\ (n + m) - n = m /\ (n + m <= n => m = 0 /\ n + m = n)
    BY <1>3
  <2>2. CASE n + m <= n
    BY <1>4, <2>1, <2>2
  <2>3. CASE ~(n + m <= n)
    BY <2>1, <2>3
  <2> QED BY <2>2, <2>3
<1> HIDE DEF w
<1>9. SumOf(c) = w[Len(c)]
  <2>1. Len(c) \in Nat
    BY <1>3
  <2> QED BY <1>7, <2>1, SumIs
<1> QED BY <1>1, <1>2, <1>3, <1>4, <1>8, <1>9

-----------------------------------------------------------------------------
(* First places: each wanted element once, behind what came before it. *)

FirstsIn(seq, wanted) == At(seq, {i \in Firsts(seq) : seq[i] \in wanted})

LEMMA FirstsInFacts ==
  ASSUME NEW seq, IsSeq(seq), NEW wanted
  PROVE  /\ IsSeq(FirstsIn(seq, wanted))
         /\ ToSet(FirstsIn(seq, wanted)) = ToSet(seq) \cap wanted
         /\ \A k, m \in 1..Len(FirstsIn(seq, wanted)) :
              FirstsIn(seq, wanted)[k] = FirstsIn(seq, wanted)[m] => k = m
         /\ \A k \in 1..Len(FirstsIn(seq, wanted)) :
              \E i \in 1..Len(seq) :
                /\ FirstsIn(seq, wanted)[k] = seq[i]
                /\ \A j \in 1..(i - 1) :
                     \/ seq[j] \notin wanted
                     \/ \E m \in 1..(k - 1) : FirstsIn(seq, wanted)[m] = seq[j]
<1> DEFINE places == {i \in Firsts(seq) : seq[i] \in wanted}
           N == Cardinality(places)
           firsts == FirstsIn(seq, wanted)
<1>1. Len(seq) \in Nat /\ DOMAIN seq = 1..Len(seq)
  BY SeqFacts
<1>2. places \subseteq 1..Len(seq)
  BY <1>1 DEF Firsts
<1>3. PICK at \in [1..N -> places] :
           /\ N \in Nat
           /\ \A k, m \in 1..N : k < m <=> at[k] < at[m]
           /\ \A i \in places : \E k \in 1..N : at[k] = i
           /\ At(seq, places) = [k \in 1..N |-> seq[at[k]]]
           /\ IsSeq(At(seq, places)) /\ Len(At(seq, places)) = N
  <2> HIDE DEF places
  <2> QED BY <1>1, <1>2, AtPlaces
<1>4. IsSeq(firsts) /\ Len(firsts) = N /\ \A k \in 1..N : firsts[k] = seq[at[k]]
  BY <1>3 DEF FirstsIn
<1>5. \A i, j \in places : seq[i] = seq[j] => i = j
  <2> SUFFICES ASSUME NEW i \in places, NEW j \in places, seq[i] = seq[j], i < j PROVE FALSE
    BY <1>1, <1>2
  <2>1. i \in 1..(j - 1)
    BY <1>1, <1>2
  <2>2. \A k \in 1..(j - 1) : seq[k] # seq[j]
    BY DEF Firsts
  <2> QED BY <2>1, <2>2
(* The first place of what is wanted is one of the places. *)
<1>6. ASSUME NEW i \in 1..Len(seq), seq[i] \in wanted
      PROVE  \E j \in places : j <= i /\ seq[j] = seq[i]
  <2> DEFINE same == {j \in 1..i : seq[j] = seq[i]}
  <2>1. same \subseteq Nat /\ same # {}
    BY <1>1
  <2>2. PICK j \in same : \A k \in same : j <= k
    <3> HIDE DEF same
    <3> QED BY <2>1, LeastNatural
  <2>3. j \in 1..Len(seq) /\ seq[j] = seq[i] /\ j <= i
    BY <1>1
  <2>4. \A k \in 1..(j - 1) : seq[k] # seq[j]
    <3> SUFFICES ASSUME NEW k \in 1..(j - 1), seq[k] = seq[j] PROVE FALSE
      OBVIOUS
    <3>1. k \in 1..i /\ k < j
      BY <2>3
    <3>2. k \in same
      BY <2>3, <3>1
    <3> QED BY <2>2, <2>3, <3>1, <3>2
  <2> QED BY <1>1, <1>6, <2>3, <2>4 DEF Firsts
<1> HIDE DEF places, firsts
<1>7. \A k, m \in 1..N : firsts[k] = firsts[m] => k = m
  <2> SUFFICES ASSUME NEW k \in 1..N, NEW m \in 1..N, firsts[k] = firsts[m], k # m PROVE FALSE
    OBVIOUS
  <2>1. at[k] \in places /\ at[m] \in places /\ seq[at[k]] = seq[at[m]]
    BY <1>3, <1>4
  <2>2. at[k] = at[m] /\ at[k] \in Nat
    <3>1. at[k] = at[m]
      BY <1>5, <2>1
    <3>2. at[k] \in Nat
      BY <1>1, <1>2, <2>1 DEF places
    <3> QED BY <3>1, <3>2
  <2>3. k < m \/ m < k
    BY <1>3
  <2> QED BY <1>3, <2>2, <2>3
<1>8. ToSet(firsts) = ToSet(seq) \cap wanted
  <2>1. DOMAIN firsts = 1..N
    BY <1>4, SeqFacts
  <2>2. ASSUME NEW k \in 1..N PROVE firsts[k] \in ToSet(seq) \cap wanted
    <3>1. at[k] \in places /\ firsts[k] = seq[at[k]]
      BY <1>3, <1>4
    <3>2. at[k] \in 1..Len(seq) /\ seq[at[k]] \in wanted
      BY <1>2, <3>1 DEF places
    <3> QED BY <1>1, <3>1, <3>2 DEF ToSet
  <2>3. ASSUME NEW i \in 1..Len(seq), seq[i] \in wanted PROVE \E k \in 1..N : firsts[k] = seq[i]
    <3>1. PICK j \in places : seq[j] = seq[i]
      BY <1>6, <2>3
    <3>2. PICK k \in 1..N : at[k] = j
      BY <1>3
    <3> QED BY <1>4, <3>1, <3>2
  <2> QED BY <1>1, <2>1, <2>2, <2>3 DEF ToSet
<1>9. ASSUME NEW k \in 1..N
      PROVE  \E i \in 1..Len(seq) :
               /\ firsts[k] = seq[i]
               /\ \A j \in 1..(i - 1) : seq[j] \notin wanted \/ \E m \in 1..(k - 1) : firsts[m] = seq[j]
  <2>1. at[k] \in places /\ at[k] \in 1..Len(seq) /\ firsts[k] = seq[at[k]]
    BY <1>2, <1>3, <1>4
  <2>2. ASSUME NEW j \in 1..(at[k] - 1), seq[j] \in wanted
        PROVE  \E m \in 1..(k - 1) : firsts[m] = seq[j]
    <3>1. j \in 1..Len(seq) /\ j < at[k]
      BY <1>1, <2>1
    <3>2. PICK i \in places : i <= j /\ seq[i] = seq[j]
      BY <1>6, <2>2, <3>1
    <3>3. PICK m \in 1..N : at[m] = i
      BY <1>3
    <3>4. at[m] < at[k]
      <4>1. i \in Nat /\ j \in Nat /\ at[k] \in Nat
        BY <1>1, <1>2, <2>1, <3>1
      <4> QED BY <3>1, <3>2, <3>3, <4>1
    <3>5. m < k
      BY <1>3, <3>4
    <3>6. m \in 1..(k - 1)
      BY <1>3, <3>5
    <3>7. firsts[m] = seq[j]
      BY <1>4, <3>2, <3>3
    <3> QED BY <3>6, <3>7
  <2> QED BY <2>1, <2>2
<1>10. /\ IsSeq(firsts)
       /\ ToSet(firsts) = ToSet(seq) \cap wanted
       /\ \A k, m \in 1..Len(firsts) : firsts[k] = firsts[m] => k = m
       /\ \A k \in 1..Len(firsts) : \E i \in 1..Len(seq) :
            /\ firsts[k] = seq[i]
            /\ \A j \in 1..(i - 1) : seq[j] \notin wanted \/ \E m \in 1..(k - 1) : firsts[m] = seq[j]
  BY <1>4, <1>7, <1>8, <1>9
<1> QED BY <1>10 DEF firsts

LEMMA FreshIs ==
  ASSUME NEW rows, IsSeq(rows), NEW done
  PROVE  Fresh(rows, done) = FirstsIn(rows, ToSet(rows) \ done)
<1>1. {i \in Firsts(rows) : rows[i] \notin done} = {i \in Firsts(rows) : rows[i] \in ToSet(rows) \ done}
  BY DEF Firsts, ToSet
<1> QED BY <1>1 DEF Fresh, FirstsIn

-----------------------------------------------------------------------------
(* Numbers given in turn: to each its own, and none that was given before. *)

(* f gives each of its members a number of its own, counted from `first`. *)
Numbering(f, first) ==
  /\ IsFiniteSet(DOMAIN f)
  /\ \A p \in DOMAIN f : f[p] \in first..(first + Cardinality(DOMAIN f) - 1)
  /\ \A p, q \in DOMAIN f : f[p] = f[q] => p = q

Extends(g, f) == DOMAIN f \subseteq DOMAIN g /\ \A p \in DOMAIN f : g[p] = f[p]

(* Each of those that come new has a turn. *)
Turns(turn, fresh) ==
  /\ \A p \in fresh : turn[p] \in 0..(Cardinality(fresh) - 1)
  /\ \A p, q \in fresh : turn[p] = turn[q] => p = q

(* g is f with numbers for those that come new, each after its turn. *)
GrowsBy(g, f, fresh, turn, first) ==
  /\ DOMAIN g = DOMAIN f \cup fresh
  /\ \A p \in DOMAIN f : g[p] = f[p]
  /\ \A p \in fresh : g[p] = first + Cardinality(DOMAIN f) + turn[p]

LEMMA NumberingGrows ==
  ASSUME NEW first \in Nat, NEW f, Numbering(f, first), NEW fresh, IsFiniteSet(fresh),
         fresh \cap DOMAIN f = {}, NEW turn, Turns(turn, fresh),
         NEW g, GrowsBy(g, f, fresh, turn, first)
  PROVE  Numbering(g, first) /\ Extends(g, f)
<1>h. /\ \A p \in fresh : turn[p] \in 0..(Cardinality(fresh) - 1)
      /\ \A p, q \in fresh : turn[p] = turn[q] => p = q
      /\ DOMAIN g = DOMAIN f \cup fresh
      /\ \A p \in DOMAIN f : g[p] = f[p]
      /\ \A p \in fresh : g[p] = first + Cardinality(DOMAIN f) + turn[p]
  BY DEF Turns, GrowsBy
<1> DEFINE old == Cardinality(DOMAIN f)
           new == Cardinality(fresh)
<1>1. old \in Nat /\ new \in Nat /\ IsFiniteSet(DOMAIN f)
  BY FS_CardinalityType DEF Numbering
<1>2. IsFiniteSet(DOMAIN g) /\ Cardinality(DOMAIN g) = old + new
  <2>1. Cardinality(DOMAIN f \cap fresh) = 0
    BY FS_EmptySet
  <2>2. /\ IsFiniteSet(DOMAIN f \cup fresh)
        /\ Cardinality(DOMAIN f \cup fresh) = old + new - Cardinality(DOMAIN f \cap fresh)
    BY <1>1, FS_Union
  <2> HIDE DEF old, new
  <2> QED BY <1>h, <1>1, <2>1, <2>2
<1> HIDE DEF old, new
<1>3. \A p \in DOMAIN f : g[p] \in first..(first + old - 1)
  BY <1>h DEF Numbering, old
<1>4. \A p \in fresh : turn[p] \in 0..(new - 1) /\ g[p] = first + old + turn[p]
  BY <1>h DEF old, new
<1>5. \A p \in DOMAIN g : g[p] \in first..(first + (old + new) - 1)
  <2>1. ASSUME NEW p \in DOMAIN f PROVE g[p] \in first..(first + (old + new) - 1)
    BY <1>1, <1>3
  <2>2. ASSUME NEW p \in fresh PROVE g[p] \in first..(first + (old + new) - 1)
    BY <1>1, <1>4
  <2> QED BY <1>h, <2>1, <2>2
<1>6. ASSUME NEW p \in DOMAIN g, NEW q \in DOMAIN g, g[p] = g[q] PROVE p = q
  <2>1. CASE p \in DOMAIN f /\ q \in DOMAIN f
    BY <1>6, <1>h, <2>1 DEF Numbering
  <2>2. CASE p \in fresh /\ q \in fresh
    <3>1. turn[p] = turn[q]
      <4>1. turn[p] \in Int /\ turn[q] \in Int
        BY <1>4, <2>2
      <4> QED BY <1>1, <1>4, <1>6, <2>2, <4>1
    <3> QED BY <1>h, <2>2, <3>1
  <2>3. ASSUME NEW x \in DOMAIN f, NEW y \in fresh PROVE g[x] # g[y]
    <3>1. g[x] \in first..(first + old - 1)
      BY <1>3
    <3>2. turn[y] \in 0..(new - 1) /\ g[y] = first + old + turn[y]
      BY <1>4
    <3> QED BY <1>1, <3>1, <3>2
  <2> QED BY <1>h, <1>6, <2>1, <2>2, <2>3
<1> QED BY <1>h, <1>2, <1>5, <1>6 DEF Numbering, Extends

LEMMA InTurnNumbers ==
  ASSUME NEW first \in Nat, NEW given, Numbering(given, first), NEW seq, IsSeq(seq),
         \A i, j \in 1..Len(seq) : seq[i] = seq[j] => i = j
  PROVE  /\ Numbering(InTurn(given, seq, first), first)
         /\ Extends(InTurn(given, seq, first), given)
         /\ DOMAIN InTurn(given, seq, first) = DOMAIN given \cup ToSet(seq)
<1> DEFINE places == {i \in DOMAIN seq : seq[i] \notin DOMAIN given}
           fresh == {seq[i] : i \in places}
           Turn(e) == CHOOSE i \in places : seq[i] = e
           turn == [e \in fresh |-> Cardinality({i \in places : i < Turn(e)})]
           g == InTurn(given, seq, first)
<1>1. Len(seq) \in Nat /\ DOMAIN seq = 1..Len(seq) /\ places \subseteq 1..Len(seq)
  BY SeqFacts
<1>2. IsFiniteSet(places)
  <2>1. IsFiniteSet(1..Len(seq))
    BY <1>1, FS_Interval
  <2> QED BY <1>1, <2>1, FS_Subset
<1>3. \A e \in fresh : Turn(e) \in places /\ seq[Turn(e)] = e
  OBVIOUS
<1>4. \A i \in places : Turn(seq[i]) = i
  BY <1>1
<1>5. IsFiniteSet(fresh) /\ Cardinality(fresh) = Cardinality(places)
  <2> DEFINE f == [i \in places |-> seq[i]]
  <2>1. f \in Bijection(places, fresh)
    BY <1>1 DEF Bijection, Injection, Surjection, IsInjective
  <2>2. ExistsBijection(places, fresh)
    BY <2>1 DEF ExistsBijection
  <2> QED BY <1>2, <2>2, FS_Bijection
<1>6. /\ \A e \in fresh : turn[e] \in 0..(Cardinality(fresh) - 1)
      /\ \A d, e \in fresh : turn[d] = turn[e] => d = e
  <2> DEFINE behind == [i \in places |-> {j \in places : j < i}]
  <2>1. behind \in [places -> SUBSET places] /\ \A i \in places : i \notin behind[i]
    BY <1>1
  <2>2. \A x, y \in places : x # y => \/ behind[x] \cup {x} \subseteq behind[y]
                                     \/ behind[y] \cup {y} \subseteq behind[x]
    <3> SUFFICES ASSUME NEW x \in places, NEW y \in places, x # y
                 PROVE  \/ behind[x] \cup {x} \subseteq behind[y]
                        \/ behind[y] \cup {y} \subseteq behind[x]
      BY Zenon
    <3>1. x \in Int /\ y \in Int /\ places \subseteq Int
      BY <1>1
    <3>2. \A z \in places : behind[z] = {j \in places : j < z}
      OBVIOUS
    <3> HIDE DEF behind, places
    <3>3. ASSUME NEW u \in places, NEW v \in places, u < v
          PROVE  behind[u] \cup {u} \subseteq behind[v]
      <4> SUFFICES ASSUME NEW j \in behind[u] \cup {u} PROVE j \in behind[v]
        OBVIOUS
      <4>1. j \in places /\ (j < u \/ j = u)
        BY <3>2
      <4>2. j < v
        BY <3>1, <3>3, <4>1
      <4> QED BY <3>2, <4>1, <4>2
    <3>4. x < y \/ y < x
      BY <3>1
    <3> QED BY <3>3, <3>4
  <2> HIDE DEF places
  <2>3. /\ \A x \in places : Cardinality(behind[x]) \in 0..(Cardinality(places) - 1)
        /\ \A x, y \in places : Cardinality(behind[x]) = Cardinality(behind[y]) => x = y
    <3> HIDE DEF behind
    <3> QED BY <1>2, <2>1, <2>2, Ranking
  <2>4. \A e \in fresh : Turn(e) \in places /\ seq[Turn(e)] = e
                         /\ turn[e] = Cardinality(behind[Turn(e)])
    BY <1>3
  <2> HIDE DEF behind, fresh, turn, Turn
  <2> QED BY <1>5, <2>3, <2>4
<1>7. /\ DOMAIN g = DOMAIN given \cup fresh
      /\ \A p \in DOMAIN given : g[p] = given[p]
      /\ \A p \in fresh : g[p] = first + Cardinality(DOMAIN given) + turn[p]
  BY DEF InTurn
<1>8. fresh \cap DOMAIN given = {} /\ DOMAIN given \cup fresh = DOMAIN given \cup ToSet(seq)
  BY DEF ToSet
<1> HIDE DEF places, fresh, turn, g
<1>9. Numbering(g, first) /\ Extends(g, given)
  <2>1. IsFiniteSet(fresh) /\ fresh \cap DOMAIN given = {}
    BY <1>5, <1>8
  <2>2. Turns(turn, fresh) /\ GrowsBy(g, given, fresh, turn, first)
    BY <1>6, <1>7 DEF Turns, GrowsBy
  <2> QED BY <2>1, <2>2, NumberingGrows
<1> QED BY <1>7, <1>8, <1>9 DEF g

-----------------------------------------------------------------------------
(* Spans, ranks and the order of the sweep. *)

SpansOK(known) ==
  /\ DOMAIN known \subseteq Processes
  /\ \A p \in DOMAIN known : known[p] \in [start : Int, stop : Int]

LEMMA ProcessesAreFinite ==
  /\ IsFiniteSet(Processes) /\ \A S \in SUBSET Processes : IsFiniteSet(S)
  /\ Processes \subseteq Int
<1>1. IsFiniteSet(Processes) /\ Processes \subseteq Int
  BY ProcessesAssumption
<1>2. \A S \in SUBSET Processes : IsFiniteSet(S)
  BY <1>1, FS_Subset
<1> QED BY <1>1, <1>2

LEMMA RankedNumbers ==
  ASSUME NEW old, Numbering(old, 0), NEW processes, NEW known, SpansOK(known)
  PROVE  /\ Numbering(Ranked(old, processes, known), 0)
         /\ Extends(Ranked(old, processes, known), old)
         /\ \A p : p \in DOMAIN Ranked(old, processes, known)
                     <=> p \in DOMAIN old \/ (p \in processes /\ p \in DOMAIN known)
<1> DEFINE fresh == {p \in processes \cap DOMAIN known : p \notin DOMAIN old}
           Before(p, q) == \/ known[p].start < known[q].start
                           \/ known[p].start = known[q].start /\ p < q
           behind == [p \in fresh |-> {q \in fresh : Before(q, p)}]
           turn == [p \in fresh |-> Cardinality(behind[p])]
           g == Ranked(old, processes, known)
<1>1. IsFiniteSet(fresh) /\ fresh \subseteq Int /\ \A p \in fresh : known[p].start \in Int
  BY ProcessesAreFinite DEF SpansOK
<1>2. behind \in [fresh -> SUBSET fresh] /\ \A p \in fresh : p \notin behind[p]
  BY <1>1
<1>3. \A x, y \in fresh : x # y => \/ behind[x] \cup {x} \subseteq behind[y]
                                  \/ behind[y] \cup {y} \subseteq behind[x]
  <2> SUFFICES ASSUME NEW x \in fresh, NEW y \in fresh, x # y
               PROVE  \/ behind[x] \cup {x} \subseteq behind[y]
                      \/ behind[y] \cup {y} \subseteq behind[x]
    BY Zenon
  <2>1. \A z \in fresh : behind[z] = {q \in fresh : Before(q, z)}
    OBVIOUS
  <2> HIDE DEF behind, fresh
  <2>2. ASSUME NEW u \in fresh, NEW v \in fresh, Before(u, v)
        PROVE  behind[u] \cup {u} \subseteq behind[v]
    <3> SUFFICES ASSUME NEW j \in behind[u] \cup {u} PROVE j \in behind[v]
      OBVIOUS
    <3>1. j \in fresh /\ (Before(j, u) \/ j = u)
      BY <2>1
    <3>2. Before(j, v)
      BY <1>1, <2>2, <3>1
    <3> QED BY <2>1, <3>1, <3>2
  <2>3. Before(x, y) \/ Before(y, x)
    BY <1>1
  <2> HIDE DEF Before
  <2> QED BY <2>2, <2>3
<1>4. Turns(turn, fresh)
  <2>1. /\ \A x \in fresh : Cardinality(behind[x]) \in 0..(Cardinality(fresh) - 1)
        /\ \A x, y \in fresh : Cardinality(behind[x]) = Cardinality(behind[y]) => x = y
    <3> HIDE DEF behind, fresh
    <3> QED BY <1>1, <1>2, <1>3, Ranking
  <2>2. \A x \in fresh : turn[x] = Cardinality(behind[x])
    OBVIOUS
  <2> HIDE DEF turn, behind, fresh
  <2> QED BY <2>1, <2>2 DEF Turns
<1>5. GrowsBy(g, old, fresh, turn, 0)
  <2>1. Cardinality(DOMAIN old) \in Nat
    BY FS_CardinalityType DEF Numbering
  <2>2. /\ DOMAIN g = DOMAIN old \cup fresh
        /\ \A p \in DOMAIN old : g[p] = old[p]
        /\ \A p \in fresh : g[p] = Cardinality(DOMAIN old) + turn[p]
    BY DEF Ranked
  <2> HIDE DEF g, fresh, turn
  <2>3. \A p \in fresh : turn[p] \in Nat
    BY <1>4 DEF Turns
  <2> QED BY <2>1, <2>2, <2>3 DEF GrowsBy
<1>6. fresh \cap DOMAIN old = {} /\ DOMAIN old \cup fresh = DOMAIN old \cup (processes \cap DOMAIN known)
  OBVIOUS
<1>7. DOMAIN g = DOMAIN old \cup fresh
  BY <1>5 DEF GrowsBy
<1> HIDE DEF fresh, turn, g
<1>8. Numbering(g, 0) /\ Extends(g, old)
  BY <1>1, <1>4, <1>5, <1>6, NumberingGrows
<1> QED BY <1>6, <1>7, <1>8 DEF g

(* The order the sweep takes the spans in. *)
SweptBefore(known, p, q) ==
  \/ known[p].start < known[q].start
  \/ known[p].start = known[q].start /\ known[p].stop > known[q].stop
  \/ known[p] = known[q] /\ p < q

LEMMA SweepTakesAll ==
  ASSUME NEW known, SpansOK(known)
  PROVE  /\ IsSeq(SweepOrder(known))
         /\ ToSet(SweepOrder(known)) = DOMAIN known
         /\ \A i, j \in 1..Len(SweepOrder(known)) : SweepOrder(known)[i] = SweepOrder(known)[j] => i = j
         /\ \A i, j \in 1..Len(SweepOrder(known)) :
              i < j => SweptBefore(known, SweepOrder(known)[i], SweepOrder(known)[j])
<1> DEFINE S == DOMAIN known
           N == Cardinality(S)
           Before(p, q) == SweptBefore(known, p, q)
           behind == [p \in S |-> {q \in S : Before(q, p)}]
           order == SweepOrder(known)
<1>1. /\ IsFiniteSet(S) /\ S \subseteq Int
      /\ \A p \in S : known[p] \in [start : Int, stop : Int]
  BY ProcessesAreFinite DEF SpansOK
<1>2. behind \in [S -> SUBSET S] /\ \A p \in S : p \notin behind[p]
  BY <1>1 DEF SweptBefore
<1>3. \A x, y \in S : x # y => \/ behind[x] \cup {x} \subseteq behind[y]
                              \/ behind[y] \cup {y} \subseteq behind[x]
  <2> SUFFICES ASSUME NEW x \in S, NEW y \in S, x # y
               PROVE  \/ behind[x] \cup {x} \subseteq behind[y]
                      \/ behind[y] \cup {y} \subseteq behind[x]
    BY Zenon
  <2>1. \A z \in S : behind[z] = {q \in S : Before(q, z)}
    OBVIOUS
  <2> HIDE DEF behind, S
  <2>2. ASSUME NEW u \in S, NEW v \in S, Before(u, v)
        PROVE  behind[u] \cup {u} \subseteq behind[v]
    <3> SUFFICES ASSUME NEW j \in behind[u] \cup {u} PROVE j \in behind[v]
      OBVIOUS
    <3>1. j \in S /\ (Before(j, u) \/ j = u)
      BY <2>1
    <3>2. Before(j, v)
      BY <1>1, <2>2, <3>1 DEF SweptBefore
    <3> QED BY <2>1, <3>1, <3>2
  <2>3. Before(x, y) \/ Before(y, x)
    BY <1>1 DEF SweptBefore
  <2> HIDE DEF Before
  <2> QED BY <2>2, <2>3
<1>4. /\ N \in Nat
      /\ \A x \in S : Cardinality(behind[x]) \in 0..(N - 1)
      /\ \A x, y \in S : Cardinality(behind[x]) = Cardinality(behind[y]) => x = y
      /\ \A n \in 0..(N - 1) : \E x \in S : Cardinality(behind[x]) = n
      /\ \A x, y \in S : Cardinality(behind[x]) < Cardinality(behind[y]) <=> x \in behind[y]
  <2> HIDE DEF behind, S
  <2> QED BY <1>1, <1>2, <1>3, Ranking
<1>5. order = [n \in 1..N |-> CHOOSE x \in S : Cardinality({y \in S : Before(y, x)}) = n - 1]
  BY DEF SweepOrder, SortedBy, SweptBefore
<1>6. \A n \in 1..N : order[n] \in S /\ Cardinality(behind[order[n]]) = n - 1
  <2> SUFFICES ASSUME NEW n \in 1..N PROVE order[n] \in S /\ Cardinality(behind[order[n]]) = n - 1
    OBVIOUS
  <2>1. n - 1 \in 0..(N - 1)
    BY <1>4
  <2>2. PICK x \in S : Cardinality(behind[x]) = n - 1
    BY <1>4, <2>1
  <2>3. \A z \in S : behind[z] = {y \in S : Before(y, z)}
    OBVIOUS
  <2>4. order[n] = CHOOSE z \in S : Cardinality({y \in S : Before(y, z)}) = n - 1
    <3> HIDE DEF order, Before, N
    <3> QED BY <1>5
  <2> HIDE DEF order, behind, Before, S
  <2>5. Cardinality({y \in S : Before(y, x)}) = n - 1
    BY <2>2, <2>3
  <2>6. order[n] \in S /\ Cardinality({y \in S : Before(y, order[n])}) = n - 1
    BY <2>4, <2>5
  <2> QED BY <2>3, <2>6
<1>7. IsSeq(order) /\ Len(order) = N /\ DOMAIN order = 1..N
  <2>1. DOMAIN order = 1..N /\ order = [n \in 1..N |-> order[n]]
    BY <1>5
  <2> HIDE DEF order, N
  <2> QED BY <1>4, <2>1, MadeSeq
<1> HIDE DEF order
<1>8. ASSUME NEW i \in 1..N, NEW j \in 1..N, i < j PROVE SweptBefore(known, order[i], order[j])
  <2>1. Cardinality(behind[order[i]]) = i - 1 /\ Cardinality(behind[order[j]]) = j - 1
        /\ order[i] \in S /\ order[j] \in S
    BY <1>6
  <2>2. i - 1 < j - 1
    BY <1>4, <1>8
  <2>3. \A z \in S : behind[z] = {y \in S : Before(y, z)}
    OBVIOUS
  <2> HIDE DEF behind, S
  <2>4. order[i] \in behind[order[j]]
    BY <1>4, <2>1, <2>2
  <2> QED BY <2>1, <2>3, <2>4
<1> HIDE DEF behind, S
<1>9. \A i, j \in 1..N : order[i] = order[j] => i = j
  <2> SUFFICES ASSUME NEW i \in 1..N, NEW j \in 1..N, order[i] = order[j] PROVE i = j
    OBVIOUS
  <2>1. Cardinality(behind[order[i]]) = i - 1 /\ Cardinality(behind[order[j]]) = j - 1
    BY <1>6
  <2>2. i - 1 = j - 1
    BY <2>1
  <2> HIDE DEF N
  <2> QED BY <1>4, <2>2
<1>10. ASSUME NEW p \in S PROVE \E n \in 1..N : order[n] = p
  <2> DEFINE c == Cardinality(behind[p])
  <2>1. c \in 0..(N - 1)
    BY <1>4
  <2> HIDE DEF c, N
  <2>2. c + 1 \in 1..N /\ (c + 1) - 1 = c
    BY <1>4, <2>1
  <2>3. order[c + 1] \in S /\ Cardinality(behind[order[c + 1]]) = c
    BY <1>6, <2>2
  <2>4. order[c + 1] = p
    BY <1>4, <2>3 DEF c
  <2> QED BY <2>2, <2>4
<1>11. ToSet(order) = S
  BY <1>6, <1>7, <1>10 DEF ToSet
<1> QED BY <1>7, <1>8, <1>9, <1>11 DEF order, S

LEMMA WidenSpans ==
  ASSUME NEW old, SpansOK(old), NEW seen, DOMAIN seen \subseteq Processes,
         \A p \in DOMAIN seen : IsFiniteSet(seen[p]) /\ seen[p] \subseteq Int
  PROVE  /\ SpansOK(Widen(old, seen))
         /\ DOMAIN Widen(old, seen) = DOMAIN old \cup {p \in DOMAIN seen : seen[p] # {}}
         /\ \A p \in DOMAIN old : /\ Widen(old, seen)[p].start <= old[p].start
                                  /\ old[p].stop <= Widen(old, seen)[p].stop
         /\ \A p \in DOMAIN seen : \A t \in seen[p] :
              Widen(old, seen)[p].start <= t /\ t <= Widen(old, seen)[p].stop
<1> DEFINE Instants(p) == (IF p \in DOMAIN old THEN Ends(old[p]) ELSE {})
                            \cup (IF p \in DOMAIN seen THEN seen[p] ELSE {})
           known == Widen(old, seen)
<1>1. /\ DOMAIN known = DOMAIN old \cup {p \in DOMAIN seen : seen[p] # {}}
      /\ \A p \in DOMAIN known : known[p] = [start |-> Earliest(Instants(p)), stop |-> Latest(Instants(p))]
  BY DEF Widen
<1>2. ASSUME NEW p \in DOMAIN known
      PROVE  IsFiniteSet(Instants(p)) /\ Instants(p) \subseteq Int /\ Instants(p) # {}
  <2> DEFINE A == IF p \in DOMAIN old THEN Ends(old[p]) ELSE {}
             B == IF p \in DOMAIN seen THEN seen[p] ELSE {}
  <2>1. IsFiniteSet(A) /\ A \subseteq Int
    <3>1. CASE p \in DOMAIN old
      <4>1. A = {old[p].start} \cup {old[p].stop} /\ old[p].start \in Int /\ old[p].stop \in Int
        BY <3>1 DEF Ends, SpansOK
      <4>2. IsFiniteSet({old[p].start} \cup {old[p].stop})
        <5>1. IsFiniteSet({old[p].start})
          BY FS_Singleton
        <5> QED BY <5>1, FS_AddElement
      <4> QED BY <4>1, <4>2
    <3>2. CASE p \notin DOMAIN old
      BY <3>2, FS_EmptySet
    <3> QED BY <3>1, <3>2
  <2>2. IsFiniteSet(B) /\ B \subseteq Int
    BY FS_EmptySet
  <2>3. A \cup B # {}
    BY <1>1 DEF Ends
  <2>4. Instants(p) = A \cup B
    OBVIOUS
  <2> HIDE DEF A, B
  <2> QED BY <2>1, <2>2, <2>3, <2>4, FS_Union
<1> HIDE DEF known
<1>3. ASSUME NEW p \in DOMAIN known
      PROVE  /\ known[p].start \in Int /\ known[p].stop \in Int
             /\ known[p] \in [start : Int, stop : Int]
             /\ \A t \in Instants(p) : known[p].start <= t /\ t <= known[p].stop
  <2>0. /\ IsFiniteSet(Instants(p)) /\ Instants(p) \subseteq Int /\ Instants(p) # {}
        /\ known[p] = [start |-> Earliest(Instants(p)), stop |-> Latest(Instants(p))]
    BY <1>1, <1>2
  <2> HIDE DEF Instants
  <2>1. /\ Earliest(Instants(p)) \in Instants(p) /\ \A t \in Instants(p) : Earliest(Instants(p)) <= t
        /\ Latest(Instants(p)) \in Instants(p) /\ \A t \in Instants(p) : Latest(Instants(p)) >= t
    BY <2>0, FiniteEnds
  <2>2. Earliest(Instants(p)) \in Int /\ Latest(Instants(p)) \in Int
    BY <2>0, <2>1
  <2>3. known[p].start = Earliest(Instants(p)) /\ known[p].stop = Latest(Instants(p))
    BY <2>0
  <2>4. \A t \in Instants(p) : t \in Int
    BY <2>0
  <2>5. \A t \in Instants(p) : known[p].start <= t /\ t <= known[p].stop
    BY <2>1, <2>2, <2>3, <2>4
  <2> QED BY <2>0, <2>2, <2>3, <2>5
<1>4. SpansOK(known)
  BY <1>1, <1>3 DEF SpansOK
<1>5. ASSUME NEW p \in DOMAIN old
      PROVE  known[p].start <= old[p].start /\ old[p].stop <= known[p].stop
  BY <1>1, <1>3 DEF Ends
<1>6. ASSUME NEW p \in DOMAIN seen, NEW t \in seen[p]
      PROVE  known[p].start <= t /\ t <= known[p].stop
  BY <1>1, <1>3
<1> QED BY <1>1, <1>4, <1>5, <1>6 DEF known

-----------------------------------------------------------------------------
(* Events: whatever is handed to the encoder is about a process there is. *)

EventOK(event) ==
  /\ event.type \in {"slice", "instant", "counter"}
  /\ event.row[1] \in {"process", "thread", "loss"} /\ event.row[2] \in Processes
  /\ event.row[1] = "process" => event.row = ProcessRow(event.row[2])
  /\ event.ts \in Int /\ "ts" \in DOMAIN event
  /\ event.type = "slice" =>
       /\ event.stop \in Int /\ "stop" \in DOMAIN event /\ event.row[1] # "process"
       /\ event.lost \in Int /\ event.pause \in Int
       /\ event.row[1] = "thread" => event.lost = 0 /\ event.pause = 0
       /\ event.row[1] = "loss" => event.name # "GC Pause"

EventsOK(events) == IsSeq(events) /\ \A i \in 1..Len(events) : EventOK(events[i])

LEMMA EventsJoin ==
  ASSUME NEW a, NEW b, EventsOK(a), EventsOK(b)
  PROVE  EventsOK(a \o b)
<1>1. /\ IsSeq(a) /\ IsSeq(b) /\ Len(a) \in Nat /\ Len(b) \in Nat
  BY SeqFacts DEF EventsOK
<1>2. /\ IsSeq(a \o b) /\ Len(a \o b) = Len(a) + Len(b)
      /\ \A i \in 1..Len(a) : (a \o b)[i] = a[i]
      /\ \A i \in 1..Len(b) : (a \o b)[Len(a) + i] = b[i]
  BY <1>1, ConcatFacts
<1>3. ASSUME NEW i \in 1..Len(a \o b) PROVE EventOK((a \o b)[i])
  <2>1. CASE i \in 1..Len(a)
    BY <1>2, <2>1 DEF EventsOK
  <2>2. CASE i \notin 1..Len(a)
    <3>1. i - Len(a) \in 1..Len(b) /\ i = Len(a) + (i - Len(a))
      BY <1>1, <1>2, <2>2
    <3>2. (a \o b)[i] = b[i - Len(a)]
      BY <1>2, <3>1
    <3> QED BY <3>1, <3>2 DEF EventsOK
  <2> QED BY <2>1, <2>2
<1> QED BY <1>2, <1>3 DEF EventsOK

Owners(events) == {Owner(events[i]) : i \in DOMAIN events}

LEMMA OwnersJoin ==
  ASSUME NEW a, NEW b, EventsOK(a), EventsOK(b)
  PROVE  Owners(a \o b) = Owners(a) \cup Owners(b)
<1> DEFINE c == a \o b
<1>1. /\ IsSeq(c) /\ Len(c) = Len(a) + Len(b)
      /\ \A i \in 1..Len(a) : c[i] = a[i]
      /\ \A i \in 1..Len(b) : c[Len(a) + i] = b[i]
  BY ConcatFacts DEF EventsOK
<1>2. /\ Len(a) \in Nat /\ DOMAIN a = 1..Len(a)
      /\ Len(b) \in Nat /\ DOMAIN b = 1..Len(b) /\ DOMAIN c = 1..Len(c)
  BY <1>1, SeqFacts DEF EventsOK
<1> HIDE DEF c
<1>3. ASSUME NEW i \in DOMAIN c PROVE Owner(c[i]) \in Owners(a) \cup Owners(b)
  <2>1. CASE i \in DOMAIN a
    BY <1>1, <1>2, <2>1 DEF Owners
  <2>2. CASE i \notin DOMAIN a
    <3>1. i - Len(a) \in 1..Len(b) /\ i = Len(a) + (i - Len(a))
      BY <1>1, <1>2, <2>2
    <3>2. c[i] = b[i - Len(a)]
      BY <1>1, <3>1
    <3> QED BY <1>2, <3>1, <3>2 DEF Owners
  <2> QED BY <2>1, <2>2
<1>4. ASSUME NEW i \in DOMAIN a PROVE Owner(a[i]) \in Owners(c)
  <2>1. i \in DOMAIN c /\ c[i] = a[i]
    BY <1>1, <1>2
  <2> QED BY <2>1 DEF Owners
<1>5. ASSUME NEW i \in DOMAIN b PROVE Owner(b[i]) \in Owners(c)
  <2>1. Len(a) + i \in DOMAIN c /\ c[Len(a) + i] = b[i]
    BY <1>1, <1>2
  <2> QED BY <2>1 DEF Owners
<1>6. Owners(c) = Owners(a) \cup Owners(b)
  BY <1>3, <1>4, <1>5 DEF Owners
<1> QED BY <1>6 DEF c

LEMMA EventsFlatten ==
  ASSUME NEW parts, IsSeq(parts), \A i \in 1..Len(parts) : EventsOK(parts[i])
  PROVE  EventsOK(FlattenSeq(parts))
<1> DEFINE flat == FlattenSeq(parts)
<1>1. \A i \in 1..Len(parts) : IsSeq(parts[i]) /\ DOMAIN parts[i] = 1..Len(parts[i])
  BY SeqFacts DEF EventsOK
<1>2. /\ IsSeq(flat)
      /\ \A e : e \in ToSet(flat) <=> \E i \in 1..Len(parts) : e \in ToSet(parts[i])
  BY <1>1, FlattenElements
<1> HIDE DEF flat
<1>3. ASSUME NEW k \in 1..Len(flat) PROVE EventOK(flat[k])
  <2>1. flat[k] \in ToSet(flat)
    BY <1>2, SeqFacts
  <2>2. PICK i \in 1..Len(parts) : flat[k] \in ToSet(parts[i])
    BY <1>2, <2>1
  <2>3. PICK m \in 1..Len(parts[i]) : flat[k] = parts[i][m]
    BY <1>1, <2>2 DEF ToSet
  <2> QED BY <2>3 DEF EventsOK
<1>4. EventsOK(flat)
  BY <1>2, <1>3 DEF EventsOK
<1> QED BY <1>4 DEF flat

LEMMA EventsMade ==
  ASSUME NEW n \in Nat, NEW s, DOMAIN s = 1..n, s = [i \in 1..n |-> s[i]],
         \A i \in 1..n : EventOK(s[i])
  PROVE  EventsOK(s)
BY MadeSeq DEF EventsOK

LEMMA EventsOne == \A event : EventOK(event) => EventsOK(<<event>>)
<1> SUFFICES ASSUME NEW event, EventOK(event) PROVE EventsOK(<<event>>)
  OBVIOUS
<1>1. Len(<<event>>) = 1 /\ <<event>>[1] = event /\ IsSeq(<<event>>)
  BY OneIsSeq
<1> QED BY <1>1 DEF EventsOK

LEMMA OwnersOne == \A event : Owners(<<event>>) = {Owner(event)}
BY DEF Owners

ItemOK(item) ==
  /\ item.kind \in {"gc", "loss", "instant"}
  /\ item.ts \in Int
  /\ item.kind # "instant" => item.stop \in Int
  /\ item.kind = "gc" => \A phase \in DOMAIN item.upto :
       PhaseStart(item, phase) \in Int /\ item.upto[phase] \in Int
  /\ item.kind = "loss" => item.gens \in Seq(GenLoss)

LEMMA ItemsAreOK == \A item \in Collections \cup Losses \cup Captured : ItemOK(item)
BY ItemsAssumption DEF ItemOK

LEMMA TotalsAreWhole ==
  ASSUME NEW item, ItemOK(item), item.kind = "loss", NEW measure \in {"lost", "pause"}
  PROVE  Total(item, measure) \in Int
<1> DEFINE numbers == [i \in DOMAIN item.gens |-> item.gens[i][measure]]
           n == Len(item.gens)
<1>1. n \in Nat /\ DOMAIN item.gens = 1..n /\ \A i \in 1..n : item.gens[i] \in GenLoss
  <2> DEFINE gens == item.gens
  <2>1. gens \in Seq(GenLoss)
    BY DEF ItemOK
  <2> HIDE DEF gens
  <2>2. Len(gens) \in Nat /\ DOMAIN gens = 1..Len(gens) /\ \A i \in DOMAIN gens : gens[i] \in GenLoss
    BY <2>1, SeqOfAny, SeqFacts
  <2> QED BY <2>2 DEF gens
<1>2. DOMAIN numbers = 1..n /\ numbers = [i \in 1..n |-> numbers[i]] /\ \A i \in 1..n : numbers[i] \in Int
  BY <1>1 DEF GenLoss
<1>3. Total(item, measure) = SumOf(numbers)
  BY DEF Total
<1> HIDE DEF numbers, n
<1> QED BY <1>1, <1>2, <1>3, MadeSeq, SumOfInts

LEMMA ConvertsToEvents ==
  ASSUME NEW p \in Processes, NEW item, ItemOK(item)
  PROVE  EventsOK(Convert(p, item)) /\ Owners(Convert(p, item)) \subseteq {p}
<1>1. CASE item.kind = "gc"
  <2> DEFINE row == ThreadRow(p, item.iid)
             places == {i \in DOMAIN PhaseOrder : Ran(item, PhaseOrder[i])}
             ran == At(PhaseOrder, places)
  <2>1. row[1] = "thread" /\ row[2] = p
    BY DEF ThreadRow
  <2> HIDE DEF row
  <2>2. EventsOK(<<PauseSlice(p, item)>>) /\ Owners(<<PauseSlice(p, item)>>) \subseteq {p}
    <3>1. EventOK(PauseSlice(p, item)) /\ Owner(PauseSlice(p, item)) = p
      BY <1>1, <2>1 DEF PauseSlice, Slice, EventOK, ItemOK, Owner, row
    <3> QED BY <3>1, EventsOne, OwnersOne
  <2>3. EventsOK(PhaseSlices(p, item)) /\ Owners(PhaseSlices(p, item)) \subseteq {p}
    <3>1. DOMAIN PhaseOrder = 1..8
      BY DEF PhaseOrder
    <3> DEFINE n == Len(ran)
               s == PhaseSlices(p, item)
    <3>2. n \in Nat /\ DOMAIN ran = 1..n /\ \A k \in 1..n : \E i \in places : ran[k] = PhaseOrder[i]
      <4>1. places \in SUBSET (1..8) /\ 8 \in Nat
        BY <3>1
      <4> HIDE DEF places
      <4>2. Taken(PhaseOrder, places)
        BY <4>1, AtElements
      <4> QED BY <4>2 DEF Taken
    <3>3. \A k \in 1..n : ran[k] \in DOMAIN item.upto
      <4> HIDE DEF ran
      <4> QED BY <3>2 DEF Ran
    <3>4. DOMAIN ran = 1..n
      BY <3>2
    <3>5. s = [i \in 1..n |-> Slice(row, ran[i], PhaseStart(item, ran[i]), item.upto[ran[i]], 0, 0)]
      BY <3>4 DEF PhaseSlices, row
    <3> HIDE DEF s, ran, places, n
    <3>6. ASSUME NEW k \in 1..n PROVE EventOK(s[k]) /\ Owner(s[k]) = p
      <4>1. s[k] = Slice(row, ran[k], PhaseStart(item, ran[k]), item.upto[ran[k]], 0, 0)
        BY <3>5
      <4>2. PhaseStart(item, ran[k]) \in Int /\ item.upto[ran[k]] \in Int
        BY <1>1, <3>3 DEF ItemOK
      <4>3. /\ s[k].type = "slice" /\ s[k].row = row /\ s[k].ts \in Int /\ s[k].stop \in Int
            /\ s[k].lost = 0 /\ s[k].pause = 0 /\ "ts" \in DOMAIN s[k] /\ "stop" \in DOMAIN s[k]
        BY <4>1, <4>2 DEF Slice
      <4>4. s[k].row[1] = "thread" /\ s[k].row[2] = p /\ p \in Processes /\ 0 \in Int
        BY <2>1, <4>3
      <4> HIDE DEF Slice
      <4> QED BY ONLY <4>3, <4>4 DEF EventOK, Owner
    <3>7. DOMAIN s = 1..n /\ s = [i \in 1..n |-> s[i]] /\ n \in Nat
      BY <3>2, <3>5
    <3>8. EventsOK(s) /\ Owners(s) \subseteq {p}
      BY <3>6, <3>7, EventsMade DEF Owners
    <3> QED BY <3>8 DEF s
  <2>4. EventsOK(Counters(p, item)) /\ Owners(Counters(p, item)) \subseteq {p}
    <3> DEFINE s == Counters(p, item)
               one == Counter(row, <<"collected", item.gen>>, item.ts)
               two == Counter(row, <<"heap_size", item.iid>>, item.ts)
    <3>1. s = <<one, two>>
      BY DEF Counters, row
    <3>2. EventOK(one) /\ EventOK(two) /\ Owner(one) = p /\ Owner(two) = p
      BY <2>1 DEF Counter, EventOK, ItemOK, Owner
    <3> HIDE DEF one, two, s
    <3>3. DOMAIN s = 1..2 /\ s = [i \in 1..2 |-> s[i]]
          /\ \A i \in 1..2 : EventOK(s[i]) /\ Owner(s[i]) = p
      BY <3>1, <3>2
    <3>4. EventsOK(s) /\ Owners(s) \subseteq {p}
      BY <3>3, EventsMade DEF Owners
    <3> QED BY <3>4 DEF s
  <2> HIDE DEF ran, places
  <2> DEFINE a == <<PauseSlice(p, item)>> \o PhaseSlices(p, item)
             b == Counters(p, item)
  <2>5. EventsOK(a) /\ Owners(a) \subseteq {p}
    BY <2>2, <2>3, EventsJoin, OwnersJoin
  <2>6. Convert(p, item) = a \o b
    BY <1>1 DEF Convert, ConvertItem
  <2> HIDE DEF a, b
  <2>7. EventsOK(b) /\ Owners(b) \subseteq {p}
    BY <2>4 DEF b
  <2> QED BY <2>5, <2>6, <2>7, EventsJoin, OwnersJoin
<1>2. CASE item.kind = "loss"
  <2> DEFINE row == LossRow(p, item.iid)
             one == Slice(row, "GC Loss", item.ts, item.stop, Total(item, "lost"), Total(item, "pause"))
  <2>1. row[1] = "loss" /\ row[2] = p
    BY DEF LossRow
  <2>2. Convert(p, item) = <<one>>
    BY <1>2 DEF Convert, ConvertLoss
  <2> HIDE DEF row
  <2>3. EventOK(one) /\ Owner(one) = p
    <3>1. Total(item, "lost") \in Int /\ Total(item, "pause") \in Int
      BY <1>2, TotalsAreWhole
    <3> QED BY <1>2, <2>1, <3>1 DEF Slice, EventOK, ItemOK, Owner
  <2> HIDE DEF one
  <2> QED BY <2>2, <2>3, EventsOne, OwnersOne
<1>3. CASE item.kind = "instant"
  <2>1. Convert(p, item) = <<Instant(p, item.ts)>>
    BY <1>3 DEF Convert
  <2>2. EventOK(Instant(p, item.ts)) /\ Owner(Instant(p, item.ts)) = p
    BY DEF Instant, EventOK, ProcessRow, ItemOK, Owner
  <2> QED BY <2>1, <2>2, EventsOne, OwnersOne
<1> QED BY <1>1, <1>2, <1>3 DEF ItemOK

LEMMA OtherEvents ==
  ASSUME NEW p \in Processes, NEW ts \in Int
  PROVE  /\ EventsOK(<<Counter(ProcessRow(p), <<"rss">>, ts)>>)
         /\ EventsOK(<<Instant(p, ts)>>)
         /\ Owners(<<Counter(ProcessRow(p), <<"rss">>, ts)>>) = {p}
         /\ Owners(<<Instant(p, ts)>>) = {p}
<1> DEFINE one == Counter(ProcessRow(p), <<"rss">>, ts)
           two == Instant(p, ts)
<1>1. EventOK(one) /\ EventOK(two) /\ Owner(one) = p /\ Owner(two) = p
  BY DEF Counter, Instant, EventOK, ProcessRow, Owner
<1> HIDE DEF one, two
<1>2. EventsOK(<<one>>) /\ EventsOK(<<two>>) /\ Owners(<<one>>) = {p} /\ Owners(<<two>>) = {p}
  BY <1>1, EventsOne, OwnersOne
<1> QED BY <1>2 DEF one, two

Line == [pid : Processes, item : Captured]

(* A pid's lines, and the order of the pids, are of lines and pids there are. *)
LEMMA LinesOfPid ==
  ASSUME NEW lines \in Seq(Line), NEW pid
  PROVE  /\ Len(ItemsOf(lines, pid)) \in Nat
         /\ DOMAIN ItemsOf(lines, pid) = 1..Len(ItemsOf(lines, pid))
         /\ \A i \in 1..Len(ItemsOf(lines, pid)) : ItemsOf(lines, pid)[i] \in Captured
<1> DEFINE places == {i \in DOMAIN lines : lines[i].pid = pid}
           own == At(lines, places)
           s == ItemsOf(lines, pid)
           n == Len(own)
<1>1. places \in SUBSET (1..Len(lines)) /\ Len(lines) \in Nat
  OBVIOUS
<1>2. /\ n \in Nat /\ DOMAIN own = 1..n
      /\ \A k \in 1..n : \E i \in places : own[k] = lines[i]
  <2> HIDE DEF places
  <2>1. Taken(lines, places)
    BY <1>1, AtElements
  <2> QED BY <2>1 DEF Taken
<1>3. \A k \in 1..n : own[k].item \in Captured
  <2> SUFFICES ASSUME NEW k \in 1..n PROVE own[k].item \in Captured
    OBVIOUS
  <2>1. PICK i \in places : own[k] = lines[i]
    BY <1>2
  <2>2. lines[i] \in Line
    OBVIOUS
  <2> QED BY <2>1, <2>2 DEF Line
<1>4. s = [i \in 1..n |-> own[i].item]
  BY <1>2 DEF ItemsOf
<1> HIDE DEF own, n, s
<1>5. DOMAIN s = 1..n /\ s = [i \in 1..n |-> s[i]]
  BY <1>4
<1>6. Len(s) = n
  BY <1>2, <1>5, MadeSeq
<1>7. Len(s) \in Nat /\ DOMAIN s = 1..Len(s) /\ \A i \in 1..Len(s) : s[i] \in Captured
  BY <1>2, <1>3, <1>4, <1>6
<1> QED BY <1>7 DEF s

LEMMA PidsOfLines ==
  ASSUME NEW lines \in Seq(Line)
  PROVE  /\ IsSeq(PidOrder(lines))
         /\ \A i \in 1..Len(PidOrder(lines)) : PidOrder(lines)[i] \in Processes
<1> DEFINE pids == [i \in DOMAIN lines |-> lines[i].pid]
           places == Firsts(pids)
           n == Len(lines)
<1>1. n \in Nat /\ DOMAIN pids = 1..n /\ places \in SUBSET (1..n)
  BY DEF Firsts
<1>2. \A i \in 1..n : pids[i] \in Processes
  <2> SUFFICES ASSUME NEW i \in 1..n PROVE pids[i] \in Processes
    OBVIOUS
  <2>1. lines[i] \in Line
    OBVIOUS
  <2> QED BY <2>1 DEF Line
<1> HIDE DEF places, pids, n
<1>3. /\ IsSeq(At(pids, places))
      /\ \A k \in 1..Len(At(pids, places)) : \E i \in places : At(pids, places)[k] = pids[i]
  <2>1. Taken(pids, places)
    BY <1>1, AtElements
  <2> QED BY <2>1 DEF Taken
<1>4. \A k \in 1..Len(At(pids, places)) : At(pids, places)[k] \in Processes
  BY <1>1, <1>2, <1>3
<1>5. PidOrder(lines) = At(pids, places)
  BY DEF PidOrder, Distinct, pids, places
<1> QED BY <1>3, <1>4, <1>5

(* Putting the loss records in order moves items about, and makes none. *)
LEMMA LossOrderKeeps ==
  ASSUME NEW items, NEW n \in Nat, DOMAIN items = 1..n, \A i \in 1..n : items[i] \in Captured
  PROVE  /\ DOMAIN LossInTimeOrder(items) = 1..n
         /\ LossInTimeOrder(items) = [i \in 1..n |-> LossInTimeOrder(items)[i]]
         /\ \A i \in 1..n : LossInTimeOrder(items)[i] \in Captured
<1> DEFINE places == {i \in DOMAIN items : items[i].kind = "loss"}
           N == Cardinality(places)
           Earlier(i, j) == items[i].ts < items[j].ts \/ (items[i].ts = items[j].ts /\ i < j)
           behind == [i \in places |-> {j \in places : Earlier(j, i)}]
           upto == [i \in places |-> {j \in places : j < i}]
           sorted == SortedBy(places, Earlier)
           s == LossInTimeOrder(items)
<1>1. IsFiniteSet(places) /\ places \subseteq 1..n /\ \A i \in places : items[i].ts \in Int
  <2>1. IsFiniteSet(1..n)
    BY FS_Interval
  <2>2. places \subseteq 1..n
    OBVIOUS
  <2>3. \A i \in 1..n : items[i].ts \in Int
    BY ItemsAreOK DEF ItemOK
  <2> QED BY <2>1, <2>2, <2>3, FS_Subset
<1>2. \A x \in places : \E k \in places : Cardinality({j \in places : Earlier(j, k)})
                                           = Cardinality({j \in places : j <= x}) - 1
  <2>1. /\ N \in Nat
        /\ \A k \in 0..(N - 1) : \E x \in places : Cardinality(behind[x]) = k
    <3>1. behind \in [places -> SUBSET places] /\ \A x \in places : x \notin behind[x]
      BY <1>1
    <3>2. \A x, y \in places : x # y => \/ behind[x] \cup {x} \subseteq behind[y]
                                       \/ behind[y] \cup {y} \subseteq behind[x]
      <4> SUFFICES ASSUME NEW x \in places, NEW y \in places, x # y
                   PROVE  \/ behind[x] \cup {x} \subseteq behind[y]
                          \/ behind[y] \cup {y} \subseteq behind[x]
        BY Zenon
      <4>1. \A z \in places : behind[z] = {j \in places : Earlier(j, z)}
        OBVIOUS
      <4> HIDE DEF behind, places
      <4>2. ASSUME NEW u \in places, NEW v \in places, Earlier(u, v)
            PROVE  behind[u] \cup {u} \subseteq behind[v]
        <5> SUFFICES ASSUME NEW j \in behind[u] \cup {u} PROVE j \in behind[v]
          OBVIOUS
        <5>1. j \in places /\ (Earlier(j, u) \/ j = u)
          BY <4>1
        <5>2. Earlier(j, v)
          BY <1>1, <4>2, <5>1
        <5> QED BY <4>1, <5>1, <5>2
      <4>3. Earlier(x, y) \/ Earlier(y, x)
        BY <1>1
      <4> HIDE DEF Earlier
      <4> QED BY <4>2, <4>3
    <3> HIDE DEF behind, places
    <3> QED BY <1>1, <3>1, <3>2, Ranking
  <2> SUFFICES ASSUME NEW x \in places
               PROVE  \E k \in places : Cardinality({j \in places : Earlier(j, k)})
                                         = Cardinality({j \in places : j <= x}) - 1
    OBVIOUS
  <2> DEFINE c == Cardinality({j \in places : j <= x})
  <2>2. c \in 1..N
    <3>1. /\ IsFiniteSet({j \in places : j <= x}) /\ c <= N
      BY <1>1, FS_Subset
    <3>2. x \in {j \in places : j <= x}
      BY <1>1
    <3>3. c \in Nat /\ c # 0
      BY <3>1, <3>2, FS_CardinalityType, FS_EmptySet
    <3> HIDE DEF c, N
    <3> QED BY <2>1, <3>1, <3>3
  <2> HIDE DEF c, N
  <2>3. c - 1 \in 0..(N - 1)
    BY <2>1, <2>2
  <2>4. PICK k \in places : Cardinality(behind[k]) = c - 1
    BY <2>1, <2>3
  <2>5. behind[k] = {j \in places : Earlier(j, k)}
    OBVIOUS
  <2> HIDE DEF behind, places, Earlier
  <2>6. Cardinality({j \in places : Earlier(j, k)}) = c - 1
    BY <2>4, <2>5
  <2> QED BY <2>6 DEF c
<1>3. ASSUME NEW x \in places
      PROVE  LET r == Cardinality({j \in places : j <= x})
             IN  r \in 1..N /\ sorted[r] \in places
  <2> DEFINE r == Cardinality({j \in places : j <= x})
  <2>1. r \in 1..N
    <3>1. /\ IsFiniteSet({j \in places : j <= x}) /\ r <= N
      BY <1>1, FS_Subset
    <3>2. x \in {j \in places : j <= x}
      BY <1>1
    <3>3. r \in Nat /\ r # 0 /\ N \in Nat
      BY <1>1, <3>1, <3>2, FS_CardinalityType, FS_EmptySet
    <3> HIDE DEF r, N
    <3> QED BY <3>1, <3>3
  <2>2. sorted[r] = CHOOSE k \in places : Cardinality({j \in places : Earlier(j, k)}) = r - 1
    <3>1. sorted = [m \in 1..N |-> CHOOSE k \in places : Cardinality({j \in places : Earlier(j, k)}) = m - 1]
      BY DEF SortedBy
    <3> HIDE DEF sorted, places, Earlier, r, N
    <3> QED BY <2>1, <3>1
  <2>3. \E k \in places : Cardinality({j \in places : Earlier(j, k)}) = r - 1
    BY <1>2
  <2> HIDE DEF sorted, places, Earlier
  <2>4. sorted[r] \in places
    <3> HIDE DEF r
    <3> QED BY <2>2, <2>3
  <2> QED BY <2>1, <2>4
<1>4. s = [i \in 1..n |-> IF i \in places THEN items[sorted[Cardinality({j \in places : j <= i})]] ELSE items[i]]
  BY DEF LossInTimeOrder
<1> HIDE DEF sorted, places, s
<1>5. \A i \in 1..n : s[i] \in Captured
  <2> SUFFICES ASSUME NEW i \in 1..n PROVE s[i] \in Captured
    OBVIOUS
  <2>1. CASE i \in places
    <3>1. s[i] = items[sorted[Cardinality({j \in places : j <= i})]]
      BY <1>4, <2>1
    <3>2. sorted[Cardinality({j \in places : j <= i})] \in 1..n
      BY <1>1, <1>3, <2>1
    <3> QED BY <3>1, <3>2
  <2>2. CASE i \notin places
    BY <1>4, <2>2
  <2> QED BY <2>1, <2>2
<1>6. DOMAIN s = 1..n /\ s = [i \in 1..n |-> s[i]]
  BY <1>4
<1> QED BY <1>5, <1>6 DEF s

LEMMA CaptureConverts ==
  ASSUME NEW lines \in Seq(Line)
  PROVE  EventsOK(ConvertCapture(lines))
<1> DEFINE items(pid) == LossInTimeOrder(ItemsOf(lines, pid))
           OfPid(pid) == FlattenSeq([i \in DOMAIN items(pid) |-> Convert(pid, items(pid)[i])])
           pids == PidOrder(lines)
           parts == [i \in DOMAIN pids |-> OfPid(pids[i])]
<1>1. ASSUME NEW pid \in Processes PROVE EventsOK(OfPid(pid))
  <2> DEFINE own == items(pid)
             n == Len(ItemsOf(lines, pid))
             converted == [i \in DOMAIN own |-> Convert(pid, own[i])]
  <2>1. /\ n \in Nat /\ DOMAIN ItemsOf(lines, pid) = 1..n
        /\ \A i \in 1..n : ItemsOf(lines, pid)[i] \in Captured
    BY LinesOfPid
  <2>2. DOMAIN own = 1..n /\ \A i \in 1..n : own[i] \in Captured
    <3> HIDE DEF n
    <3> QED BY <2>1, LossOrderKeeps
  <2> HIDE DEF own, n
  <2>3. DOMAIN converted = 1..n /\ converted = [i \in 1..n |-> converted[i]]
    BY <2>2
  <2>4. \A i \in 1..n : EventsOK(converted[i])
    <3> SUFFICES ASSUME NEW i \in 1..n PROVE EventsOK(converted[i])
      OBVIOUS
    <3>1. ItemOK(own[i]) /\ converted[i] = Convert(pid, own[i])
      BY <2>2, ItemsAreOK
    <3> QED BY <3>1, ConvertsToEvents
  <2> HIDE DEF converted
  <2>5. IsSeq(converted) /\ Len(converted) = n
    BY <2>1, <2>3, MadeSeq
  <2>6. EventsOK(FlattenSeq(converted))
    BY <2>4, <2>5, EventsFlatten
  <2> QED BY <2>6 DEF converted, own
<1> HIDE DEF OfPid
<1>2. IsSeq(pids) /\ \A i \in 1..Len(pids) : pids[i] \in Processes
  BY PidsOfLines
<1>3. Len(pids) \in Nat /\ DOMAIN pids = 1..Len(pids)
  BY <1>2, SeqFacts
<1> HIDE DEF pids
<1>4. DOMAIN parts = 1..Len(pids) /\ parts = [i \in 1..Len(pids) |-> parts[i]]
  BY <1>3
<1>5. \A i \in 1..Len(pids) : EventsOK(parts[i])
  BY <1>1, <1>2, <1>3
<1> HIDE DEF parts
<1>6. IsSeq(parts) /\ Len(parts) = Len(pids)
  BY <1>3, <1>4, MadeSeq
<1>7. EventsOK(FlattenSeq(parts))
  BY <1>5, <1>6, EventsFlatten
<1> QED BY <1>7 DEF ConvertCapture, parts, pids, OfPid

LEMMA NormalizingKeeps ==
  ASSUME NEW events, EventsOK(events)
  PROVE  EventsOK(NormalizeEvents(events))
<1> DEFINE n == Len(events)
           Own(p) == {i \in DOMAIN events : events[i].row[2] = p}
           Starts(p) == {events[j].ts : j \in Own(p)}
           s == NormalizeEvents(events)
<1>1. n \in Nat /\ DOMAIN events = 1..n /\ \A i \in 1..n : EventOK(events[i])
  BY SeqFacts DEF EventsOK
<1>2. ASSUME NEW i \in 1..n PROVE Earliest(Starts(events[i].row[2])) \in Int
  <2> DEFINE own == Own(events[i].row[2])
             starts == Starts(events[i].row[2])
             f == [j \in own |-> events[j].ts]
  <2>1. IsFiniteSet(own) /\ own \subseteq 1..n /\ i \in own
    <3>1. IsFiniteSet(1..n)
      BY <1>1, FS_Interval
    <3>2. own \subseteq 1..n /\ i \in own
      BY <1>1
    <3> QED BY <3>1, <3>2, FS_Subset
  <2>2. f \in Surjection(own, starts)
    BY DEF Surjection
  <2>3. IsFiniteSet(starts)
    <3> HIDE DEF f, own, starts
    <3> QED BY <2>1, <2>2, FS_Surjection
  <2>4. starts \subseteq Int /\ starts # {}
    BY <1>1, <2>1 DEF EventOK
  <2> HIDE DEF starts
  <2>5. Earliest(starts) \in Int
    BY <2>3, <2>4, FiniteEnds
  <2> QED BY <2>5 DEF starts
<1>3. s = [i \in 1..n |-> ShiftEvent(events[i], Earliest(Starts(events[i].row[2])))]
  BY <1>1 DEF NormalizeEvents
<1> HIDE DEF Starts, s
<1>4. ASSUME NEW i \in 1..n PROVE EventOK(s[i])
  <2> DEFINE by == Earliest(Starts(events[i].row[2]))
             e == events[i]
  <2>1. s[i] = ShiftEvent(e, by) /\ by \in Int /\ EventOK(e)
    BY <1>1, <1>2, <1>3
  <2> HIDE DEF by, e
  <2>2. CASE e.type = "slice"
    <3>1. s[i] = [e EXCEPT !.ts = @ - by, !.stop = @ - by]
      BY <2>1, <2>2 DEF ShiftEvent
    <3>2. /\ s[i].type = e.type /\ s[i].row = e.row /\ s[i].name = e.name
          /\ s[i].lost = e.lost /\ s[i].pause = e.pause /\ DOMAIN s[i] = DOMAIN e
      BY <3>1
    <3>3. s[i].ts \in Int /\ s[i].stop \in Int
      <4>1. "ts" \in DOMAIN e /\ e.ts \in Int /\ "stop" \in DOMAIN e /\ e.stop \in Int
        BY ONLY <2>1, <2>2 DEF EventOK
      <4>2. s[i].ts = e.ts - by /\ s[i].stop = e.stop - by
        BY <3>1, <4>1
      <4> QED BY <2>1, <4>1, <4>2
    <3> QED BY <2>1, <2>2, <3>2, <3>3 DEF EventOK
  <2>3. CASE e.type # "slice"
    <3>1. s[i] = [e EXCEPT !.ts = @ - by]
      BY <2>1, <2>3 DEF ShiftEvent
    <3>2. s[i].type = e.type /\ s[i].row = e.row /\ DOMAIN s[i] = DOMAIN e
      BY <3>1
    <3>3. s[i].ts \in Int
      <4>1. "ts" \in DOMAIN e /\ e.ts \in Int
        BY ONLY <2>1 DEF EventOK
      <4>2. s[i].ts = e.ts - by
        BY <3>1, <4>1
      <4> QED BY <2>1, <4>1, <4>2
    <3> QED BY <2>1, <2>3, <3>2, <3>3 DEF EventOK
  <2> QED BY <2>2, <2>3
<1>5. DOMAIN s = 1..n /\ s = [i \in 1..n |-> s[i]]
  BY <1>3
<1> HIDE DEF n
<1>6. EventsOK(s)
  BY <1>1, <1>4, <1>5, EventsMade
<1> QED BY <1>6 DEF s

LEMMA CapturesConvert ==
  ASSUME NEW files \in Captures, NEW normalize \in BOOLEAN
  PROVE  EventsOK(CombineToEvents(files, normalize))
<1> DEFINE n == Len(files)
           parts == [i \in DOMAIN files |->
                       IF normalize THEN NormalizeEvents(ConvertCapture(files[i]))
                       ELSE ConvertCapture(files[i])]
<1>1. files \in Seq(Seq(Line))
  BY CapturesAssumption DEF Line
<1>2. n \in Nat /\ DOMAIN files = 1..n /\ \A i \in 1..n : files[i] \in Seq(Line)
  BY <1>1
<1>3. \A i \in 1..n : EventsOK(parts[i])
  <2> SUFFICES ASSUME NEW i \in 1..n PROVE EventsOK(parts[i])
    OBVIOUS
  <2>1. EventsOK(ConvertCapture(files[i]))
    BY <1>2, CaptureConverts
  <2>2. EventsOK(NormalizeEvents(ConvertCapture(files[i])))
    BY <2>1, NormalizingKeeps
  <2>3. parts[i] = IF normalize THEN NormalizeEvents(ConvertCapture(files[i]))
                   ELSE ConvertCapture(files[i])
    BY <1>2
  <2> HIDE DEF parts
  <2> QED BY <2>1, <2>2, <2>3
<1>4. DOMAIN parts = 1..n /\ parts = [i \in 1..n |-> parts[i]]
  BY <1>2
<1> HIDE DEF parts, n
<1>5. IsSeq(parts) /\ Len(parts) = n
  BY <1>2, <1>4, MadeSeq
<1>6. EventsOK(FlattenSeq(parts))
  BY <1>3, <1>5, EventsFlatten
<1> QED BY <1>6 DEF CombineToEvents, parts

-----------------------------------------------------------------------------
(* The pre-pass: what the events of a batch are evidence of. *)

LEMMA EvidenceIs ==
  ASSUME NEW events, EventsOK(events)
  PROVE  /\ DOMAIN Evidence(events) = Processes
         /\ \A p \in Processes : /\ IsFiniteSet(Evidence(events)[p])
                                 /\ Evidence(events)[p] \subseteq Int
                                 /\ Evidence(events)[p] # {} <=> p \in Owners(events)
         /\ \A i \in 1..Len(events) :
              /\ events[i].ts \in Evidence(events)[Owner(events[i])]
              /\ events[i].type = "slice" => events[i].stop \in Evidence(events)[Owner(events[i])]
<1>1. /\ Len(events) \in Nat /\ DOMAIN events = 1..Len(events)
      /\ \A i \in 1..Len(events) : EventOK(events[i]) /\ Owner(events[i]) \in Processes
  BY SeqFacts DEF EventsOK, EventOK, Owner
<1> DEFINE own(p) == {i \in DOMAIN events : Owner(events[i]) = p}
           slices(p) == {i \in own(p) : events[i].type = "slice"}
           starts(p) == {events[i].ts : i \in own(p)}
           stops(p) == {events[i].stop : i \in slices(p)}
<1>2. /\ DOMAIN Evidence(events) = Processes
      /\ \A p \in Processes : Evidence(events)[p] = starts(p) \cup stops(p)
  BY DEF Evidence
<1>3. ASSUME NEW p \in Processes
      PROVE  /\ IsFiniteSet(starts(p) \cup stops(p))
             /\ starts(p) \cup stops(p) \subseteq Int
             /\ starts(p) \cup stops(p) # {} <=> p \in Owners(events)
  <2> DEFINE O == own(p)
             L == slices(p)
             A == starts(p)
             B == stops(p)
             f == [i \in O |-> events[i].ts]
             g == [i \in L |-> events[i].stop]
  <2>1. IsFiniteSet(O) /\ IsFiniteSet(L)
    <3>1. IsFiniteSet(1..Len(events))
      BY <1>1, FS_Interval
    <3>2. O \subseteq 1..Len(events) /\ L \subseteq 1..Len(events)
      BY <1>1
    <3> QED BY <3>1, <3>2, FS_Subset
  <2>2. f \in Surjection(O, A) /\ g \in Surjection(L, B)
    BY DEF Surjection
  <2>3. IsFiniteSet(A) /\ IsFiniteSet(B)
    <3> HIDE DEF f, g, O, L, A, B
    <3> QED BY <2>1, <2>2, FS_Surjection
  <2>4. A \subseteq Int /\ B \subseteq Int
    BY <1>1 DEF EventOK
  <2>5. A \cup B # {} <=> p \in Owners(events)
    BY DEF Owners
  <2>6. IsFiniteSet(A \cup B)
    <3> HIDE DEF A, B
    <3> QED BY <2>3, FS_Union
  <2> QED BY <2>4, <2>5, <2>6
<1>4. ASSUME NEW i \in 1..Len(events)
      PROVE  /\ events[i].ts \in starts(Owner(events[i]))
             /\ events[i].type = "slice" => events[i].stop \in stops(Owner(events[i]))
  BY <1>1
<1> HIDE DEF starts, stops
<1> QED BY <1>1, <1>2, <1>3, <1>4

(* After the pre-pass there is a span of whoever owns an event, and it covers it. *)
LEMMA PrePassKnows ==
  ASSUME NEW old, SpansOK(old), NEW events, EventsOK(events)
  PROVE  LET known == Widen(old, Evidence(events))
         IN  /\ SpansOK(known)
             /\ DOMAIN known = DOMAIN old \cup Owners(events)
             /\ \A p \in DOMAIN old : known[p].start <= old[p].start /\ old[p].stop <= known[p].stop
             /\ \A i \in 1..Len(events) :
                  /\ known[Owner(events[i])].start <= events[i].ts
                  /\ events[i].type = "slice" => events[i].stop <= known[Owner(events[i])].stop
<1> DEFINE seen == Evidence(events)
           known == Widen(old, seen)
<1>1. /\ DOMAIN seen = Processes
      /\ \A p \in Processes : /\ IsFiniteSet(seen[p]) /\ seen[p] \subseteq Int
                              /\ seen[p] # {} <=> p \in Owners(events)
      /\ \A i \in 1..Len(events) :
           /\ events[i].ts \in seen[Owner(events[i])]
           /\ events[i].type = "slice" => events[i].stop \in seen[Owner(events[i])]
  BY EvidenceIs
<1> HIDE DEF seen
<1>2. /\ SpansOK(known)
      /\ DOMAIN known = DOMAIN old \cup {p \in DOMAIN seen : seen[p] # {}}
      /\ \A p \in DOMAIN old : known[p].start <= old[p].start /\ old[p].stop <= known[p].stop
      /\ \A p \in DOMAIN seen : \A t \in seen[p] : known[p].start <= t /\ t <= known[p].stop
  BY <1>1, WidenSpans
<1>3. Owners(events) \subseteq Processes
      /\ \A i \in 1..Len(events) : Owner(events[i]) \in Processes
  BY SeqFacts DEF EventsOK, EventOK, Owner, Owners
<1>4. DOMAIN known = DOMAIN old \cup Owners(events)
  BY <1>1, <1>2, <1>3
<1>5. \A i \in 1..Len(events) :
         /\ known[Owner(events[i])].start <= events[i].ts
         /\ events[i].type = "slice" => events[i].stop <= known[Owner(events[i])].stop
  BY <1>1, <1>2, <1>3
<1> HIDE DEF known
<1>6. /\ SpansOK(known)
      /\ DOMAIN known = DOMAIN old \cup Owners(events)
      /\ \A p \in DOMAIN old : known[p].start <= old[p].start /\ old[p].stop <= known[p].stop
      /\ \A i \in 1..Len(events) :
           /\ known[Owner(events[i])].start <= events[i].ts
           /\ events[i].type = "slice" => events[i].stop <= known[Owner(events[i])].stop
  BY <1>2, <1>4, <1>5
<1> QED BY <1>6 DEF known, seen

-----------------------------------------------------------------------------
(* The rows of a file: each described once, behind what it hangs from. *)

DescribedBy(seq) == {seq[i].row : i \in {k \in 1..Len(seq) : seq[k].type = "descriptor"}}
Before(seq, n) == {seq[i].row : i \in {k \in 1..Len(seq) : seq[k].type = "descriptor" /\ k < n}}

(* What stands in the file ahead of a row's descriptor. *)
Needs(row) == Parent(row) \cup (IF row = RootRow THEN {} ELSE {RootRow})

(* The packets of seq may follow those that describe the rows `done`. *)
Sound(seq, done) ==
  \A i \in 1..Len(seq) :
    IF seq[i].type = "descriptor"
    THEN /\ seq[i].parent = Parent(seq[i].row)
         /\ Needs(seq[i].row) \subseteq done \cup Before(seq, i)
         /\ seq[i].row \notin done \cup Before(seq, i)
    ELSE seq[i].row \in done \cup Before(seq, i)

LEMMA JoinSound ==
  ASSUME NEW a, NEW b, NEW done, IsSeq(a), IsSeq(b),
         Sound(a, done), Sound(b, done \cup DescribedBy(a))
  PROVE  /\ Sound(a \o b, done)
         /\ DescribedBy(a \o b) = DescribedBy(a) \cup DescribedBy(b)
<1> DEFINE c == a \o b
<1>1. /\ Len(a) \in Nat /\ Len(b) \in Nat /\ Len(c) = Len(a) + Len(b)
      /\ \A i \in 1..Len(a) : c[i] = a[i]
      /\ \A i \in 1..Len(b) : c[Len(a) + i] = b[i]
  BY SeqFacts, ConcatFacts
<1> HIDE DEF c
<1>2. \A i \in 1..Len(c) : \/ i \in 1..Len(a)
                           \/ \E k \in 1..Len(b) : i = Len(a) + k
  <2> SUFFICES ASSUME NEW i \in 1..Len(c), i \notin 1..Len(a)
               PROVE  \E k \in 1..Len(b) : i = Len(a) + k
    OBVIOUS
  <2>1. i - Len(a) \in 1..Len(b) /\ i = Len(a) + (i - Len(a))
    BY <1>1
  <2> QED BY <2>1
<1>3. \A i \in 1..Len(a) : i \in 1..Len(c)
  BY <1>1
<1>4. \A i \in 1..Len(b) : Len(a) + i \in 1..Len(c)
  BY <1>1
<1>5. ASSUME NEW i \in 1..Len(a) PROVE Before(c, i) = Before(a, i)
  <2>1. \A k \in 1..Len(c) : k < i => k \in 1..Len(a)
    BY <1>1
  <2> QED BY <1>1, <1>3, <2>1 DEF Before
<1>6. DescribedBy(a) \subseteq DescribedBy(c) /\ DescribedBy(b) \subseteq DescribedBy(c)
  BY <1>1, <1>3, <1>4 DEF DescribedBy
<1>7. DescribedBy(c) \subseteq DescribedBy(a) \cup DescribedBy(b)
  <2> SUFFICES ASSUME NEW i \in 1..Len(c), c[i].type = "descriptor"
               PROVE  c[i].row \in DescribedBy(a) \cup DescribedBy(b)
    BY DEF DescribedBy
  <2>1. CASE i \in 1..Len(a)
    BY <1>1, <2>1 DEF DescribedBy
  <2>2. ASSUME NEW k \in 1..Len(b), i = Len(a) + k
        PROVE  c[i].row \in DescribedBy(b)
    <3>1. c[i] = b[k]
      BY <1>1, <2>2
    <3> QED BY <3>1 DEF DescribedBy
  <2> QED BY <1>2, <2>1, <2>2
<1>8. ASSUME NEW i \in 1..Len(b)
      PROVE  Before(c, Len(a) + i) = DescribedBy(a) \cup Before(b, i)
  <2>1. ASSUME NEW k \in 1..Len(c), c[k].type = "descriptor", k < Len(a) + i
        PROVE  c[k].row \in DescribedBy(a) \cup Before(b, i)
    <3>1. CASE k \in 1..Len(a)
      BY <1>1, <2>1, <3>1 DEF DescribedBy
    <3>2. CASE k \notin 1..Len(a)
      <4>1. PICK m \in 1..Len(b) : k = Len(a) + m
        BY <1>2, <3>2
      <4>2. m < i
        BY <1>1, <2>1, <4>1
      <4> QED BY <1>1, <2>1, <4>1, <4>2 DEF Before
    <3> QED BY <3>1, <3>2
  <2>2. ASSUME NEW k \in 1..Len(a), a[k].type = "descriptor"
        PROVE  a[k].row \in Before(c, Len(a) + i)
    <3>1. k < Len(a) + i /\ k \in 1..Len(c)
      BY <1>1
    <3> QED BY <1>1, <2>2, <3>1 DEF Before
  <2>3. ASSUME NEW k \in 1..Len(b), b[k].type = "descriptor", k < i
        PROVE  b[k].row \in Before(c, Len(a) + i)
    <3>1. Len(a) + k < Len(a) + i /\ Len(a) + k \in 1..Len(c)
      BY <1>1, <2>3
    <3> QED BY <1>1, <2>3, <3>1 DEF Before
  <2>4. Before(c, Len(a) + i) \subseteq DescribedBy(a) \cup Before(b, i)
    BY <2>1 DEF Before
  <2>5. DescribedBy(a) \subseteq Before(c, Len(a) + i)
    BY <2>2 DEF DescribedBy
  <2>6. Before(b, i) \subseteq Before(c, Len(a) + i)
    <3> SUFFICES ASSUME NEW e \in Before(b, i) PROVE e \in Before(c, Len(a) + i)
      OBVIOUS
    <3>1. PICK k \in 1..Len(b) : b[k].type = "descriptor" /\ k < i /\ e = b[k].row
      BY DEF Before
    <3> QED BY <2>3, <3>1
  <2> QED BY <2>4, <2>5, <2>6
<1>9. Sound(c, done)
  <2>1. ASSUME NEW i \in 1..Len(a)
        PROVE  IF c[i].type = "descriptor"
               THEN /\ c[i].parent = Parent(c[i].row)
                    /\ Needs(c[i].row) \subseteq done \cup Before(c, i)
                    /\ c[i].row \notin done \cup Before(c, i)
               ELSE c[i].row \in done \cup Before(c, i)
    <3>1. c[i] = a[i] /\ Before(c, i) = Before(a, i)
      BY <1>1, <1>5
    <3> QED BY <3>1 DEF Sound
  <2>2. ASSUME NEW m \in 1..Len(b), NEW i, i = Len(a) + m
        PROVE  IF c[i].type = "descriptor"
               THEN /\ c[i].parent = Parent(c[i].row)
                    /\ Needs(c[i].row) \subseteq done \cup Before(c, i)
                    /\ c[i].row \notin done \cup Before(c, i)
               ELSE c[i].row \in done \cup Before(c, i)
    <3>1. c[i] = b[m] /\ done \cup Before(c, i) = (done \cup DescribedBy(a)) \cup Before(b, m)
      BY <1>1, <1>8, <2>2
    <3> QED BY <3>1 DEF Sound
  <2> QED BY <1>2, <2>1, <2>2 DEF Sound
<1> QED BY <1>6, <1>7, <1>9 DEF c

LEMMA EmptySound == \A done : Sound(<<>>, done) /\ DescribedBy(<<>>) = {}
BY DEF Sound, DescribedBy

(* Packets on rows that are described already. *)
Quiet(seq, done) ==
  IsSeq(seq) /\ \A i \in 1..Len(seq) : seq[i].type # "descriptor" /\ seq[i].row \in done

LEMMA QuietIsSound ==
  ASSUME NEW seq, NEW done, Quiet(seq, done)
  PROVE  Sound(seq, done) /\ DescribedBy(seq) = {}
BY DEF Quiet, Sound, DescribedBy

LEMMA FlattenQuiet ==
  ASSUME NEW parts, NEW done, IsSeq(parts), \A i \in 1..Len(parts) : Quiet(parts[i], done)
  PROVE  Quiet(FlattenSeq(parts), done)
<1> DEFINE flat == FlattenSeq(parts)
<1>1. \A i \in 1..Len(parts) : IsSeq(parts[i]) /\ DOMAIN parts[i] = 1..Len(parts[i])
  BY SeqFacts DEF Quiet
<1>2. /\ IsSeq(flat)
      /\ \A e : e \in ToSet(flat) <=> \E i \in 1..Len(parts) : e \in ToSet(parts[i])
  BY <1>1, FlattenElements
<1> HIDE DEF flat
<1>3. ASSUME NEW k \in 1..Len(flat) PROVE flat[k].type # "descriptor" /\ flat[k].row \in done
  <2>1. flat[k] \in ToSet(flat)
    BY <1>2, SeqFacts
  <2>2. PICK i \in 1..Len(parts) : flat[k] \in ToSet(parts[i])
    BY <1>2, <2>1
  <2>3. PICK m \in 1..Len(parts[i]) : flat[k] = parts[i][m]
    BY <1>1, <2>2 DEF ToSet
  <2> QED BY <2>3 DEF Quiet
<1>4. Quiet(flat, done)
  BY <1>2, <1>3 DEF Quiet
<1> QED BY <1>4 DEF flat

-----------------------------------------------------------------------------
(* The rows a batch needs, in an order they can be described in. *)

Ahead(seq, n) == {seq[j] : j \in 1..(n - 1)}

(* Each row hangs from what is above, or from a row ahead of it. *)
Hangs(rows, above) == \A i \in 1..Len(rows) : Needs(rows[i]) \subseteq above \cup Ahead(rows, i)

LEMMA HangsOne ==
  ASSUME NEW row, NEW above, Needs(row) \subseteq above
  PROVE  Hangs(<<row>>, above)
<1>1. Len(<<row>>) = 1 /\ <<row>>[1] = row
  BY OneIsSeq
<1> QED BY <1>1 DEF Hangs

LEMMA HangsNone == \A above : Hangs(<<>>, above)
BY DEF Hangs

LEMMA HangsJoin ==
  ASSUME NEW a, NEW b, NEW above, IsSeq(a), IsSeq(b),
         Hangs(a, above), Hangs(b, above \cup ToSet(a))
  PROVE  Hangs(a \o b, above)
<1> DEFINE c == a \o b
<1>1. /\ Len(a) \in Nat /\ Len(b) \in Nat /\ Len(c) = Len(a) + Len(b)
      /\ DOMAIN a = 1..Len(a)
      /\ \A i \in 1..Len(a) : c[i] = a[i]
      /\ \A i \in 1..Len(b) : c[Len(a) + i] = b[i]
  BY SeqFacts, ConcatFacts
<1> HIDE DEF c
<1>2. ASSUME NEW i \in 1..Len(a) PROVE Needs(c[i]) \subseteq above \cup Ahead(c, i)
  <2>1. \A j \in 1..(i - 1) : c[j] = a[j]
    BY <1>1
  <2>2. Ahead(a, i) \subseteq Ahead(c, i)
    BY <2>1 DEF Ahead
  <2> QED BY <1>1, <2>2 DEF Hangs
<1>3. ASSUME NEW i \in 1..Len(b)
      PROVE  Needs(c[Len(a) + i]) \subseteq above \cup Ahead(c, Len(a) + i)
  <2>1. \A j \in 1..Len(a) : j \in 1..(Len(a) + i - 1) /\ c[j] = a[j]
    BY <1>1
  <2>2. ToSet(a) \subseteq Ahead(c, Len(a) + i)
    BY <1>1, <2>1 DEF Ahead, ToSet
  <2>3. \A j \in 1..(i - 1) : Len(a) + j \in 1..(Len(a) + i - 1) /\ c[Len(a) + j] = b[j]
    BY <1>1
  <2>4. Ahead(b, i) \subseteq Ahead(c, Len(a) + i)
    BY <2>3 DEF Ahead
  <2>5. Needs(b[i]) \subseteq above \cup ToSet(a) \cup Ahead(b, i)
    BY DEF Hangs
  <2>6. c[Len(a) + i] = b[i]
    BY <1>1
  <2> QED BY <2>2, <2>4, <2>5, <2>6
<1>4. ASSUME NEW i \in 1..Len(c) PROVE Needs(c[i]) \subseteq above \cup Ahead(c, i)
  <2>1. CASE i \in 1..Len(a)
    BY <1>2, <2>1
  <2>2. CASE i \notin 1..Len(a)
    <3>1. i - Len(a) \in 1..Len(b) /\ i = Len(a) + (i - Len(a))
      BY <1>1, <2>2
    <3> QED BY <1>3, <3>1
  <2> QED BY <2>1, <2>2
<1>5. Hangs(c, above)
  BY <1>4 DEF Hangs
<1> QED BY <1>5 DEF c

LEMMA HangsFlatten ==
  ASSUME NEW parts, NEW above, IsSeq(parts),
         \A i \in 1..Len(parts) : IsSeq(parts[i]) /\ Hangs(parts[i], above)
  PROVE  Hangs(FlattenSeq(parts), above)
<1> DEFINE flat == FlattenSeq(parts)
<1>h. PICK start \in [1..Len(parts) -> Nat] : Placed(start, parts, flat)
  BY FlattenPlaced
<1> HIDE DEF flat
<1>1. /\ IsSeq(flat)
      /\ \A i \in 1..Len(parts) : \A m \in 1..Len(parts[i]) :
           start[i] + m \in 1..Len(flat) /\ flat[start[i] + m] = parts[i][m]
      /\ \A k \in 1..Len(flat) :
           \E i \in 1..Len(parts) : \E m \in 1..Len(parts[i]) :
             k = start[i] + m /\ flat[k] = parts[i][m]
  BY <1>h DEF Placed
<1>2. ASSUME NEW k \in 1..Len(flat) PROVE Needs(flat[k]) \subseteq above \cup Ahead(flat, k)
  <2>1. PICK i \in 1..Len(parts) : \E m \in 1..Len(parts[i]) : k = start[i] + m
    BY <1>1
  <2>2. PICK m \in 1..Len(parts[i]) : k = start[i] + m
    BY <2>1
  <2>3. flat[k] = parts[i][m] /\ Needs(parts[i][m]) \subseteq above \cup Ahead(parts[i], m)
    BY <1>1, <2>2 DEF Hangs
  <2>4. Len(parts[i]) \in Nat /\ start[i] \in Nat
    BY SeqFacts
  <2>5. \A j \in 1..(m - 1) : /\ j \in 1..Len(parts[i])
                              /\ start[i] + j \in 1..(start[i] + m - 1)
    BY <2>4
  <2>6. \A j \in 1..(m - 1) : flat[start[i] + j] = parts[i][j]
    BY <1>1, <2>5
  <2>7. Ahead(parts[i], m) \subseteq Ahead(flat, k)
    <3> SUFFICES ASSUME NEW j \in 1..(m - 1) PROVE parts[i][j] \in Ahead(flat, k)
      BY DEF Ahead
    <3>1. start[i] + j \in 1..(k - 1)
      BY <2>2, <2>4, <2>5
    <3>2. flat[start[i] + j] = parts[i][j]
      BY <2>6
    <3> QED BY <3>1, <3>2 DEF Ahead
  <2> QED BY <2>3, <2>7
<1>3. Hangs(flat, above)
  BY <1>2 DEF Hangs
<1> QED BY <1>3 DEF flat

LEMMA WithRootHangs ==
  ASSUME NEW rows, NEW done, IsSeq(rows), Hangs(rows, {RootRow})
  PROVE  /\ IsSeq(WithRoot(rows, done)) /\ Hangs(WithRoot(rows, done), done)
         /\ ToSet(WithRoot(rows, done)) = ToSet(rows) \cup ({RootRow} \ done)
<1>1. CASE RootRow \in done
  <2>1. WithRoot(rows, done) = rows /\ {RootRow} \subseteq done
    BY <1>1 DEF WithRoot
  <2> QED BY <2>1 DEF Hangs
<1>2. CASE RootRow \notin done
  <2>1. WithRoot(rows, done) = <<RootRow>> \o rows
    BY <1>2 DEF WithRoot
  <2>2. IsSeq(<<RootRow>>) /\ ToSet(<<RootRow>>) = {RootRow}
    BY OneIsSeq
  <2>3. Needs(RootRow) = {}
    BY DEF Needs, Parent, RootRow
  <2>4. Hangs(<<RootRow>>, done)
    BY <2>3, HangsOne
  <2>5. Hangs(rows, done \cup ToSet(<<RootRow>>))
    BY <2>2 DEF Hangs
  <2> QED BY <1>2, <2>1, <2>2, <2>4, <2>5, HangsJoin, ConcatFacts
<1> QED BY <1>1, <1>2

LEMMA FreshHangs ==
  ASSUME NEW rows, NEW done, IsSeq(rows), Hangs(rows, done)
  PROVE  /\ IsSeq(Fresh(rows, done)) /\ Hangs(Fresh(rows, done), done)
         /\ ToSet(Fresh(rows, done)) = ToSet(rows) \ done
         /\ \A k, m \in 1..Len(Fresh(rows, done)) :
              Fresh(rows, done)[k] = Fresh(rows, done)[m] => k = m
<1> DEFINE wanted == ToSet(rows) \ done
           firsts == FirstsIn(rows, wanted)
<1>0. Fresh(rows, done) = firsts
  BY FreshIs
<1>1. /\ IsSeq(firsts) /\ ToSet(firsts) = ToSet(rows) \cap wanted
      /\ \A k, m \in 1..Len(firsts) : firsts[k] = firsts[m] => k = m
      /\ \A k \in 1..Len(firsts) : \E i \in 1..Len(rows) :
           /\ firsts[k] = rows[i]
           /\ \A j \in 1..(i - 1) :
                rows[j] \notin wanted \/ \E m \in 1..(k - 1) : firsts[m] = rows[j]
  <2> HIDE DEF wanted
  <2> QED BY FirstsInFacts
<1> HIDE DEF firsts
<1>2. Len(rows) \in Nat /\ DOMAIN rows = 1..Len(rows)
  BY SeqFacts
<1>3. ASSUME NEW k \in 1..Len(firsts) PROVE Needs(firsts[k]) \subseteq done \cup Ahead(firsts, k)
  <2>1. PICK i \in 1..Len(rows) :
           /\ firsts[k] = rows[i]
           /\ \A j \in 1..(i - 1) :
                rows[j] \notin wanted \/ \E m \in 1..(k - 1) : firsts[m] = rows[j]
    BY <1>1
  <2>2. Needs(firsts[k]) \subseteq done \cup Ahead(rows, i)
    BY <2>1 DEF Hangs
  <2>3. ASSUME NEW j \in 1..(i - 1) PROVE rows[j] \in done \cup Ahead(firsts, k)
    <3>1. j \in 1..Len(rows)
      BY <1>2
    <3>2. rows[j] \in ToSet(rows)
      BY <1>2, <3>1 DEF ToSet
    <3> QED BY <2>1, <3>2 DEF Ahead
  <2> QED BY <2>2, <2>3 DEF Ahead
<1>4. Hangs(firsts, done)
  BY <1>3 DEF Hangs
<1> QED BY <1>0, <1>1, <1>4

LEMMA DescriptorsSound ==
  ASSUME NEW rows, NEW done, IsSeq(rows), Hangs(rows, done), ToSet(rows) \cap done = {},
         \A k, m \in 1..Len(rows) : rows[k] = rows[m] => k = m,
         NEW pids, NEW given, NEW known
  PROVE  /\ IsSeq(Descriptors(rows, pids, given, known))
         /\ Len(Descriptors(rows, pids, given, known)) = Len(rows)
         /\ \A i \in 1..Len(rows) :
              Descriptors(rows, pids, given, known)[i] = Descriptor(rows[i], pids, given, known)
         /\ Sound(Descriptors(rows, pids, given, known), done)
         /\ DescribedBy(Descriptors(rows, pids, given, known)) = ToSet(rows)
<1> DEFINE s == Descriptors(rows, pids, given, known)
           n == Len(rows)
<1>1. n \in Nat /\ DOMAIN rows = 1..n /\ \A i \in 1..n : rows[i] \in ToSet(rows)
  BY SeqFacts
<1>2. s = [i \in 1..n |-> Descriptor(rows[i], pids, given, known)]
  BY <1>1 DEF Descriptors
<1> HIDE DEF s
<1>3. DOMAIN s = 1..n /\ s = [i \in 1..n |-> s[i]]
  BY <1>2
<1>4. IsSeq(s) /\ Len(s) = n
  <2> HIDE DEF n
  <2> QED BY <1>1, <1>3, MadeSeq
<1>5. \A i \in 1..n : /\ s[i] = Descriptor(rows[i], pids, given, known)
                      /\ s[i].type = "descriptor" /\ s[i].row = rows[i]
                      /\ s[i].parent = Parent(rows[i])
  BY <1>2 DEF Descriptor
<1>6. \A i \in 1..n : Before(s, i) = Ahead(rows, i)
  <2> SUFFICES ASSUME NEW i \in 1..n PROVE Before(s, i) = Ahead(rows, i)
    OBVIOUS
  <2>1. \A k \in 1..n : k < i <=> k \in 1..(i - 1)
    BY <1>1
  <2>2. \A k \in 1..(i - 1) : k \in 1..n
    BY <1>1
  <2> QED BY <1>4, <1>5, <2>1, <2>2 DEF Before, Ahead
<1>7. \A i \in 1..n : rows[i] \notin Ahead(rows, i)
  <2> SUFFICES ASSUME NEW i \in 1..n, NEW j \in 1..(i - 1), rows[i] = rows[j] PROVE FALSE
    BY DEF Ahead
  <2>1. j \in 1..n /\ j # i
    BY <1>1
  <2> QED BY <2>1
<1>8. Sound(s, done)
  BY <1>1, <1>4, <1>5, <1>6, <1>7 DEF Sound, Hangs
<1>9. DescribedBy(s) = ToSet(rows)
  BY <1>1, <1>4, <1>5 DEF DescribedBy, ToSet
<1> QED BY <1>4, <1>5, <1>8, <1>9 DEF s

(* What the rows of events and processes look like. *)
RowOK(row) ==
  /\ row # RootRow /\ row # LifetimesRow
  /\ row[1] = "process" => row[2] \in Processes /\ row = ProcessRow(row[2])

LEMMA ProcessRowIs ==
  ASSUME NEW p
  PROVE  /\ ProcessRow(p)[1] = "process" /\ ProcessRow(p)[2] = p
         /\ ProcessRow(p) # RootRow /\ ProcessRow(p) # LifetimesRow
         /\ Needs(ProcessRow(p)) = {RootRow}
         /\ p \in Processes => RowOK(ProcessRow(p))
<1>1. ProcessRow(p)[1] = "process" /\ ProcessRow(p)[2] = p
  BY DEF ProcessRow
<1>2. RootRow[1] = "root" /\ LifetimesRow[1] = "Processes"
  BY DEF RootRow, LifetimesRow
<1>3. ProcessRow(p) # RootRow /\ ProcessRow(p) # LifetimesRow
  BY <1>1, <1>2
<1>4. Needs(ProcessRow(p)) = {RootRow}
  BY <1>1, <1>3 DEF Needs, Parent
<1> QED BY <1>1, <1>3, <1>4 DEF RowOK

LEMMA RowsOfEvent ==
  ASSUME NEW event, EventOK(event)
  PROVE  /\ IsSeq(RowsOf(event)) /\ Hangs(RowsOf(event), {RootRow})
         /\ \A row \in ToSet(RowsOf(event)) :
              /\ RowOK(row) /\ (row[1] = "process" => row = ProcessRow(Owner(event)))
              /\ row[1] = "thread" => row = event.row
         /\ ProcessRow(Owner(event)) \in ToSet(RowsOf(event))
         /\ Quiet(PacketsOf(event), ToSet(RowsOf(event)))
<1> DEFINE p == Owner(event)
           P == ProcessRow(p)
           R == event.row
           G == GroupRow(R)
           C == CounterRow(R, event.display)
           second == IF R[1] = "process" THEN <<>> ELSE <<R>>
           third == IF event.type = "counter" THEN CounterRows(event) ELSE <<>>
           A == {RootRow} \cup {P}
           B == A \cup ToSet(second)
<1>1. p \in Processes /\ R[2] = p /\ R[1] \in {"process", "thread", "loss"}
      /\ (R[1] = "process" => R = P)
  BY DEF EventOK, Owner
<1>2. P[1] = "process" /\ RowOK(P) /\ Needs(P) = {RootRow}
  BY <1>1, ProcessRowIs
<1>3. G[1] = "group" /\ G[2] = R /\ C[1] = "counter" /\ C[2] = R /\ C[3] = event.display
  BY DEF GroupRow, CounterRow
<1>4. RootRow[1] = "root" /\ LifetimesRow[1] = "Processes"
  BY DEF RootRow, LifetimesRow
<1>5. RowOK(G) /\ RowOK(C) /\ (R[1] # "process" => RowOK(R))
  BY <1>1, <1>3, <1>4 DEF RowOK
<1>6. Parent(G) = {P}
  BY <1>1, <1>3 DEF Parent, ProcessOf
<1>7. Parent(C) = IF TopLevel(R, event.display) THEN {P} ELSE {G}
  BY <1>1, <1>3 DEF Parent, ProcessOf
<1>8. R[1] # "process" => Parent(R) = {P}
  BY <1>1 DEF Parent, ProcessOf
<1> HIDE DEF P, R, G, C
<1>9. IsSeq(<<P>>) /\ ToSet(<<P>>) = {P} /\ Hangs(<<P>>, {RootRow})
  BY <1>2, OneIsSeq, HangsOne
<1>10. /\ IsSeq(second) /\ Hangs(second, A)
       /\ ToSet(second) = IF R[1] = "process" THEN {} ELSE {R}
  <2>1. CASE R[1] = "process"
    BY <2>1, EmptyIsSeq, HangsNone
  <2>2. CASE R[1] # "process"
    <3>1. Needs(R) \subseteq A
      BY <1>8, <2>2 DEF Needs
    <3> HIDE DEF A
    <3> QED BY <2>2, <3>1, OneIsSeq, HangsOne
  <2> QED BY <2>1, <2>2
<1>11. /\ IsSeq(third) /\ Hangs(third, B)
       /\ ToSet(third) \subseteq {G, C}
       /\ event.type = "counter" => C \in ToSet(third)
  <2>1. CASE event.type # "counter"
    BY <2>1, EmptyIsSeq, HangsNone
  <2>2. CASE event.type = "counter" /\ TopLevel(R, event.display)
    <3>1. third = <<C>>
      BY <2>2 DEF CounterRows, C, R
    <3>2. Needs(C) \subseteq B
      BY <1>7, <2>2 DEF Needs
    <3> HIDE DEF B, third
    <3> QED BY <3>1, <3>2, OneIsSeq, HangsOne
  <2>3. CASE event.type = "counter" /\ ~TopLevel(R, event.display)
    <3>1. third = <<G, C>>
      BY <2>3 DEF CounterRows, C, G, R
    <3>2. Needs(G) \subseteq B
      BY <1>6 DEF Needs
    <3>3. Needs(C) \subseteq B \cup {G}
      BY <1>7, <2>3 DEF Needs
    <3> HIDE DEF B, third
    <3>4. Len(<<G, C>>) = 2 /\ <<G, C>>[1] = G /\ <<G, C>>[2] = C
          /\ IsSeq(<<G, C>>) /\ ToSet(<<G, C>>) = {G, C}
      BY DEF IsSeq, ToSet
    <3>5. 1..Len(<<G, C>>) = {1, 2} /\ G \in Ahead(<<G, C>>, 2)
      BY <3>4 DEF Ahead
    <3>6. Hangs(<<G, C>>, B)
      BY <3>2, <3>3, <3>4, <3>5 DEF Hangs
    <3> QED BY <3>1, <3>4, <3>6
  <2> QED BY <2>1, <2>2, <2>3
<1>12. RowsOf(event) = (<<P>> \o second) \o third
  BY DEF RowsOf, P, R
<1> HIDE DEF second, third
<1>13. /\ IsSeq(<<P>> \o second) /\ ToSet(<<P>> \o second) = {P} \cup ToSet(second)
       /\ Hangs(<<P>> \o second, {RootRow})
  BY <1>9, <1>10, ConcatFacts, HangsJoin
<1>14. /\ IsSeq(RowsOf(event)) /\ ToSet(RowsOf(event)) = {P} \cup ToSet(second) \cup ToSet(third)
       /\ Hangs(RowsOf(event), {RootRow})
  <2>1. Hangs(third, {RootRow} \cup ToSet(<<P>> \o second))
    <3>1. B = {RootRow} \cup ToSet(<<P>> \o second)
      BY <1>13
    <3> QED BY <1>11, <3>1
  <2> QED BY <1>11, <1>12, <1>13, <2>1, ConcatFacts, HangsJoin
<1>15. \A row \in ToSet(RowsOf(event)) :
         RowOK(row) /\ (row[1] = "process" => row = P) /\ (row[1] = "thread" => row = R)
  BY <1>2, <1>3, <1>5, <1>10, <1>11, <1>14
<1>16. Quiet(PacketsOf(event), ToSet(RowsOf(event)))
  <2>0. R \in ToSet(RowsOf(event))
    BY <1>1, <1>10, <1>14 DEF P, R
  <2>1. CASE event.type = "slice"
    <3> DEFINE one == [type |-> "begin", row |-> R, name |-> event.name, ts |-> event.ts,
                       stop |-> event.stop, args |-> [lost |-> event.lost, pause |-> event.pause]]
               two == [type |-> "end", row |-> R, name |-> {}, ts |-> event.stop]
    <3>1. PacketsOf(event) = <<one, two>>
      BY <2>1 DEF PacketsOf, Pair, R
    <3>2. one.type # "descriptor" /\ one.row = R /\ two.type # "descriptor" /\ two.row = R
      OBVIOUS
    <3> HIDE DEF one, two
    <3>3. IsSeq(<<one, two>>) /\ Len(<<one, two>>) = 2
          /\ <<one, two>>[1] = one /\ <<one, two>>[2] = two
      BY DEF IsSeq, ToSet
    <3> QED BY <2>0, <3>1, <3>2, <3>3 DEF Quiet
  <2>2. CASE event.type = "instant"
    <3>1. PacketsOf(event) = <<event>>
      BY <2>2 DEF PacketsOf
    <3>2. IsSeq(<<event>>) /\ Len(<<event>>) = 1 /\ <<event>>[1] = event
      BY OneIsSeq
    <3> QED BY <2>0, <2>2, <3>1, <3>2 DEF Quiet, R
  <2>3. CASE event.type = "counter"
    <3> DEFINE one == [type |-> "value", row |-> C, ts |-> event.ts]
    <3>1. PacketsOf(event) = <<one>>
      BY <2>3 DEF PacketsOf, C, R
    <3>2. IsSeq(<<one>>) /\ Len(<<one>>) = 1 /\ <<one>>[1] = one
      BY OneIsSeq
    <3>3. one.type # "descriptor" /\ one.row = C
      OBVIOUS
    <3>4. C \in ToSet(RowsOf(event))
      BY <1>11, <1>14, <2>3
    <3> HIDE DEF one
    <3> QED BY <3>1, <3>2, <3>3, <3>4 DEF Quiet
  <2> QED BY <2>1, <2>2, <2>3 DEF EventOK
<1> QED BY <1>14, <1>15, <1>16 DEF P, R

LEMMA FlattenSound ==
  ASSUME NEW parts, NEW done, IsSeq(parts),
         \A i \in 1..Len(parts) : IsSeq(parts[i]) /\ Sound(parts[i], done),
         \A i, j \in 1..Len(parts) :
           i # j => DescribedBy(parts[i]) \cap DescribedBy(parts[j]) = {}
  PROVE  /\ Sound(FlattenSeq(parts), done)
         /\ \A row : row \in DescribedBy(FlattenSeq(parts))
                       <=> \E i \in 1..Len(parts) : row \in DescribedBy(parts[i])
<1> DEFINE flat == FlattenSeq(parts)
<1>h. PICK start \in [1..Len(parts) -> Nat] : Placed(start, parts, flat)
  BY FlattenPlaced
<1> HIDE DEF flat
<1>1. /\ IsSeq(flat)
      /\ \A i \in 1..Len(parts) : \A m \in 1..Len(parts[i]) :
           start[i] + m \in 1..Len(flat) /\ flat[start[i] + m] = parts[i][m]
      /\ \A k \in 1..Len(flat) :
           \E i \in 1..Len(parts) : \E m \in 1..Len(parts[i]) :
             k = start[i] + m /\ flat[k] = parts[i][m]
  BY <1>h DEF Placed
<1>2. ASSUME NEW i \in 1..Len(parts), NEW m \in 1..Len(parts[i])
      PROVE  Before(parts[i], m) \subseteq Before(flat, start[i] + m)
  <2> SUFFICES ASSUME NEW j \in 1..Len(parts[i]), parts[i][j].type = "descriptor", j < m
               PROVE  parts[i][j].row \in Before(flat, start[i] + m)
    BY DEF Before
  <2>1. start[i] + j < start[i] + m
    BY SeqFacts
  <2>2. start[i] + j \in 1..Len(flat) /\ flat[start[i] + j] = parts[i][j]
    BY <1>1
  <2> QED BY <2>1, <2>2 DEF Before
<1>3. ASSUME NEW i \in 1..Len(parts), NEW m \in 1..Len(parts[i]), parts[i][m].type = "descriptor",
             parts[i][m].row \in Before(flat, start[i] + m)
      PROVE  parts[i][m].row \in Before(parts[i], m)
  <2>1. PICK k \in 1..Len(flat) : /\ flat[k].type = "descriptor" /\ k < start[i] + m
                                  /\ flat[k].row = parts[i][m].row
    BY <1>3 DEF Before
  <2>2. PICK j \in 1..Len(parts) : \E n \in 1..Len(parts[j]) : k = start[j] + n
    BY <1>1
  <2>3. PICK n \in 1..Len(parts[j]) : k = start[j] + n
    BY <2>2
  <2>4. flat[k] = parts[j][n]
    BY <1>1, <2>3
  <2>5. parts[i][m].row \in DescribedBy(parts[i]) /\ parts[i][m].row \in DescribedBy(parts[j])
    BY <1>3, <2>1, <2>4 DEF DescribedBy
  <2>6. i = j
    BY <2>5
  <2>7. n < m
    <3>1. start[i] \in Nat /\ Len(parts[i]) \in Nat /\ k = start[i] + n /\ k < start[i] + m
      BY <2>1, <2>3, <2>6, SeqFacts
    <3>2. n \in Nat /\ m \in Nat
      BY <2>6, <3>1
    <3> QED BY ONLY <3>1, <3>2
  <2> QED BY <2>1, <2>4, <2>6, <2>7 DEF Before
<1>4. ASSUME NEW k \in 1..Len(flat)
      PROVE  IF flat[k].type = "descriptor"
             THEN /\ flat[k].parent = Parent(flat[k].row)
                  /\ Needs(flat[k].row) \subseteq done \cup Before(flat, k)
                  /\ flat[k].row \notin done \cup Before(flat, k)
             ELSE flat[k].row \in done \cup Before(flat, k)
  <2>1. PICK i \in 1..Len(parts) : \E m \in 1..Len(parts[i]) : k = start[i] + m
    BY <1>1
  <2>2. PICK m \in 1..Len(parts[i]) : k = start[i] + m
    BY <2>1
  <2>3. flat[k] = parts[i][m] /\ Before(parts[i], m) \subseteq Before(flat, k)
    BY <1>1, <1>2, <2>2
  <2>4. IF parts[i][m].type = "descriptor"
        THEN /\ parts[i][m].parent = Parent(parts[i][m].row)
             /\ Needs(parts[i][m].row) \subseteq done \cup Before(parts[i], m)
             /\ parts[i][m].row \notin done \cup Before(parts[i], m)
        ELSE parts[i][m].row \in done \cup Before(parts[i], m)
    BY DEF Sound
  <2> QED BY <1>3, <2>2, <2>3, <2>4
<1>5. Sound(flat, done)
  BY <1>4 DEF Sound
<1>6. ASSUME NEW row, row \in DescribedBy(flat)
      PROVE  \E i \in 1..Len(parts) : row \in DescribedBy(parts[i])
  <2>1. PICK k \in 1..Len(flat) : flat[k].type = "descriptor" /\ flat[k].row = row
    BY <1>6 DEF DescribedBy
  <2>2. PICK i \in 1..Len(parts) : \E m \in 1..Len(parts[i]) : k = start[i] + m
    BY <1>1
  <2>3. PICK m \in 1..Len(parts[i]) : k = start[i] + m
    BY <2>2
  <2>4. flat[k] = parts[i][m]
    BY <1>1, <2>3
  <2> QED BY <2>1, <2>4 DEF DescribedBy
<1>7. ASSUME NEW row, NEW i \in 1..Len(parts), row \in DescribedBy(parts[i])
      PROVE  row \in DescribedBy(flat)
  <2>1. PICK m \in 1..Len(parts[i]) : parts[i][m].type = "descriptor" /\ parts[i][m].row = row
    BY <1>7 DEF DescribedBy
  <2>2. start[i] + m \in 1..Len(flat) /\ flat[start[i] + m] = parts[i][m]
    BY <1>1
  <2> QED BY <2>1, <2>2 DEF DescribedBy
<1>8. Sound(flat, done)
      /\ \A row : row \in DescribedBy(flat) <=> \E i \in 1..Len(parts) : row \in DescribedBy(parts[i])
  BY <1>5, <1>6, <1>7
<1> QED BY <1>8 DEF flat

-----------------------------------------------------------------------------
(* The numbers a process row carries. *)

LEMMA NumberedNumbers ==
  ASSUME NEW pids, Numbering(pids, 1), NEW rows, IsSeq(rows),
         \A k, m \in 1..Len(rows) : rows[k] = rows[m] => k = m,
         \A row \in ToSet(rows) : row[1] = "process" => row = ProcessRow(row[2])
  PROVE  /\ Numbering(Numbered(pids, rows), 1) /\ Extends(Numbered(pids, rows), pids)
         /\ \A p : p \in DOMAIN Numbered(pids, rows)
                     <=> p \in DOMAIN pids \/ ProcessRow(p) \in ToSet(rows)
<1> DEFINE n == Len(rows)
           places == {i \in DOMAIN rows : rows[i][1] = "process"}
           N == Cardinality(places)
           own == At(rows, places)
           seq == [i \in DOMAIN own |-> own[i][2]]
<1>1. n \in Nat /\ DOMAIN rows = 1..n /\ places \in SUBSET (1..n)
      /\ \A i \in 1..n : rows[i] \in ToSet(rows)
  BY SeqFacts
<1>2. PICK at \in [1..N -> places] :
           /\ N \in Nat
           /\ \A k, m \in 1..N : k < m <=> at[k] < at[m]
           /\ \A i \in places : \E k \in 1..N : at[k] = i
           /\ own = [k \in 1..N |-> rows[at[k]]]
  <2> HIDE DEF n, places
  <2>1. \E at \in [1..Cardinality(places) -> places] :
           /\ Cardinality(places) \in Nat
           /\ \A k, m \in 1..Cardinality(places) : k < m <=> at[k] < at[m]
           /\ \A i \in places : \E k \in 1..Cardinality(places) : at[k] = i
           /\ At(rows, places) = [k \in 1..Cardinality(places) |-> rows[at[k]]]
           /\ IsSeq(At(rows, places)) /\ Len(At(rows, places)) = Cardinality(places)
    BY <1>1, AtPlaces
  <2> QED BY <2>1
<1>3. /\ DOMAIN seq = 1..N /\ seq = [i \in 1..N |-> seq[i]]
      /\ \A k \in 1..N : seq[k] = rows[at[k]][2]
  <2> HIDE DEF own
  <2> QED BY <1>2
<1> HIDE DEF own, seq, N
<1>4. IsSeq(seq) /\ Len(seq) = N
  BY <1>2, <1>3, MadeSeq
<1>5. ASSUME NEW k \in 1..N
      PROVE  at[k] \in 1..n /\ rows[at[k]] = ProcessRow(seq[k])
  BY <1>1, <1>2, <1>3
<1>6. \A k, m \in 1..N : seq[k] = seq[m] => k = m
  <2> SUFFICES ASSUME NEW k \in 1..N, NEW m \in 1..N, seq[k] = seq[m], k # m PROVE FALSE
    OBVIOUS
  <2>1. at[k] = at[m] /\ at[k] \in 1..n
    BY <1>5
  <2>2. k < m \/ m < k
    BY <1>2
  <2> QED BY <1>1, <1>2, <2>1, <2>2
<1>7. \A p : p \in ToSet(seq) <=> ProcessRow(p) \in ToSet(rows)
  <2>1. ASSUME NEW k \in 1..N PROVE ProcessRow(seq[k]) \in ToSet(rows)
    BY <1>1, <1>5
  <2>2. ASSUME NEW p, ProcessRow(p) \in ToSet(rows) PROVE \E k \in 1..N : seq[k] = p
    <3>1. PICK i \in 1..n : rows[i] = ProcessRow(p)
      BY <1>1, <2>2 DEF ToSet
    <3>2. rows[i][1] = "process" /\ rows[i][2] = p
      BY <3>1, ProcessRowIs
    <3>3. PICK k \in 1..N : at[k] = i
      BY <1>1, <1>2, <3>2
    <3> QED BY <1>3, <3>2, <3>3
  <2> QED BY <1>3, <2>1, <2>2 DEF ToSet
<1>8. Numbered(pids, rows) = InTurn(pids, seq, 1)
  BY DEF Numbered, seq, own
<1>9. /\ Numbering(InTurn(pids, seq, 1), 1) /\ Extends(InTurn(pids, seq, 1), pids)
      /\ DOMAIN InTurn(pids, seq, 1) = DOMAIN pids \cup ToSet(seq)
  <2>1. 1 \in Nat /\ \A k, m \in 1..Len(seq) : seq[k] = seq[m] => k = m
    BY <1>4, <1>6
  <2>2. Numbering(pids, 1) /\ IsSeq(seq)
    BY <1>4
  <2> QED BY ONLY <2>1, <2>2, InTurnNumbers
<1> QED BY <1>7, <1>8, <1>9

(* What is known of the rows that are out, and of the numbers they carry. *)
RowsKnown(done, pids, given) ==
  /\ \A row \in done : row[1] = "process" => row[2] \in Processes /\ row = ProcessRow(row[2])
  /\ Numbering(pids, 1) /\ Numbering(given, 0)
  /\ \A p : ProcessRow(p) \in done <=> p \in DOMAIN pids
  /\ DOMAIN pids \subseteq DOMAIN given

Carries(seq, pids, given) ==
  \A i \in 1..Len(seq) : seq[i].type = "descriptor" /\ seq[i].row[1] = "process" =>
    LET p == seq[i].row[2]
    IN  p \in DOMAIN pids /\ p \in DOMAIN given /\ seq[i].pid = pids[p] /\ seq[i].rank = given[p]

LEMMA CarriesOn ==
  ASSUME NEW seq, NEW pids, NEW given, Carries(seq, pids, given),
         NEW morePids, Extends(morePids, pids), NEW moreGiven, Extends(moreGiven, given)
  PROVE  Carries(seq, morePids, moreGiven)
BY DEF Carries, Extends

LEMMA CarriesJoin ==
  ASSUME NEW a, NEW b, IsSeq(a), IsSeq(b), NEW pids, NEW given,
         Carries(a, pids, given), Carries(b, pids, given)
  PROVE  Carries(a \o b, pids, given)
<1> DEFINE c == a \o b
<1>1. /\ Len(a) \in Nat /\ Len(b) \in Nat /\ Len(c) = Len(a) + Len(b)
      /\ \A i \in 1..Len(a) : c[i] = a[i]
      /\ \A i \in 1..Len(b) : c[Len(a) + i] = b[i]
  BY SeqFacts, ConcatFacts
<1> HIDE DEF c
<1>2. ASSUME NEW i \in 1..Len(c)
      PROVE  (\E k \in 1..Len(a) : c[i] = a[k]) \/ (\E k \in 1..Len(b) : c[i] = b[k])
  <2>1. CASE i \in 1..Len(a)
    BY <1>1, <2>1
  <2>2. CASE i \notin 1..Len(a)
    <3>1. i - Len(a) \in 1..Len(b) /\ i = Len(a) + (i - Len(a))
      BY <1>1, <2>2
    <3> QED BY <1>1, <3>1
  <2> QED BY <2>1, <2>2
<1>3. Carries(c, pids, given)
  BY <1>2 DEF Carries
<1> QED BY <1>3 DEF c

LEMMA CarriesFlatten ==
  ASSUME NEW parts, IsSeq(parts), NEW pids, NEW given,
         \A i \in 1..Len(parts) : IsSeq(parts[i]) /\ Carries(parts[i], pids, given)
  PROVE  Carries(FlattenSeq(parts), pids, given)
<1> DEFINE flat == FlattenSeq(parts)
<1>1. /\ IsSeq(flat)
      /\ \A e : e \in ToSet(flat) <=> \E i \in 1..Len(parts) : e \in ToSet(parts[i])
  BY FlattenElements
<1> HIDE DEF flat
<1>2. ASSUME NEW k \in 1..Len(flat)
      PROVE  \E i \in 1..Len(parts) : \E m \in 1..Len(parts[i]) : flat[k] = parts[i][m]
  <2>1. PICK i \in 1..Len(parts) : flat[k] \in ToSet(parts[i])
    BY <1>1, SeqFacts
  <2>2. DOMAIN parts[i] = 1..Len(parts[i])
    BY SeqFacts
  <2> QED BY <2>1, <2>2 DEF ToSet
<1>3. Carries(flat, pids, given)
  BY <1>2 DEF Carries
<1> QED BY <1>3 DEF flat

LEMMA QuietCarries ==
  ASSUME NEW seq, NEW done, Quiet(seq, done), NEW pids, NEW given
  PROVE  Carries(seq, pids, given)
BY DEF Quiet, Carries

LEMMA DescriptorsCarry ==
  ASSUME NEW rows, IsSeq(rows), NEW pids, NEW given, NEW known,
         \A row \in ToSet(rows) : row[1] = "process" =>
           row[2] \in DOMAIN pids /\ row[2] \in DOMAIN given
  PROVE  Carries(Descriptors(rows, pids, given, known), pids, given)
<1> DEFINE s == Descriptors(rows, pids, given, known)
           n == Len(rows)
<1>1. n \in Nat /\ DOMAIN rows = 1..n /\ \A i \in 1..n : rows[i] \in ToSet(rows)
  BY SeqFacts
<1>2. s = [i \in 1..n |-> Descriptor(rows[i], pids, given, known)]
  BY <1>1 DEF Descriptors
<1> HIDE DEF s
<1>3. DOMAIN s = 1..n /\ s = [i \in 1..n |-> s[i]]
  BY <1>2
<1>4. Len(s) = n
  <2> HIDE DEF n
  <2> QED BY <1>1, <1>3, MadeSeq
<1>5. Carries(s, pids, given)
  BY <1>1, <1>2, <1>4 DEF Carries, Descriptor
<1> QED BY <1>5 DEF s

-----------------------------------------------------------------------------
(* One batch, in the parts write_events makes it of. *)

Known(events) == Widen(spans, Evidence(events))
Given(events) == Ranked(ranks, Owners(events), Known(events))
Needed(events) == FlattenSeq([i \in DOMAIN events |-> RowsOf(events[i])])
NewRows(events) == Fresh(WithRoot(Needed(events), described), described)
Shown(events) == described \cup ToSet(NewRows(events))
Left(events) == Due(Known(events))
LeftRows(events) == [i \in DOMAIN Left(events) |-> ProcessRow(Left(events)[i])]
Leaving(events) == Fresh(LeftRows(events), Shown(events))
Pids(events) == Numbered(row_pids, NewRows(events) \o Leaving(events))
After(events) == RankedInTurn(Given(events), Left(events))
Done(events) == Shown(events) \cup ToSet(Leaving(events))
Sums(events) == Counted(totals, events)

OwnRow(events, p) ==
  IF ProcessRow(p) \in ToSet(Leaving(events))
  THEN Descriptors(<<ProcessRow(p)>>, Pids(events), After(events), Known(events)) ELSE <<>>
OwnBar(events, p) == Bar(p, Known(events), Sums(events), Done(events))

RowPackets(events) == Descriptors(NewRows(events), Pids(events), Given(events), Known(events))
EventPackets(events) == FlattenSeq([i \in DOMAIN events |-> PacketsOf(events[i])])
LeftPackets(events) ==
  FlattenSeq([i \in DOMAIN Left(events) |->
                OwnRow(events, Left(events)[i]) \o OwnBar(events, Left(events)[i])])

LEMMA BatchIs ==
  ASSUME NEW events
  PROVE  WriteEvents(events) =
           [described |-> Done(events), row_pids |-> Pids(events), spans |-> Known(events),
            totals |-> Sums(events), ranks |-> After(events),
            drawn |-> drawn \cup ToSet(Left(events)),
            packets |-> (RowPackets(events) \o EventPackets(events)) \o LeftPackets(events)]
BY DEF WriteEvents, Done, Pids, Known, Sums, After, Left, RowPackets, EventPackets, LeftPackets,
       OwnRow, OwnBar, Given, Needed, NewRows, Shown, LeftRows, Leaving, Owners

(* Due takes each of the retired once. *)
LEMMA LeftIs ==
  ASSUME IsSeq(retired), NEW events
  PROVE  /\ IsSeq(Left(events))
         /\ ToSet(Left(events))
              = IF emitted THEN {} ELSE ToSet(retired) \cap (DOMAIN Known(events) \ drawn)
         /\ \A k, m \in 1..Len(Left(events)) : Left(events)[k] = Left(events)[m] => k = m
<1> DEFINE wanted == IF emitted THEN {} ELSE DOMAIN Known(events) \ drawn
<1>1. {i \in Firsts(retired) : retired[i] \in DOMAIN Known(events) \ drawn /\ ~emitted}
        = {i \in Firsts(retired) : retired[i] \in wanted}
  OBVIOUS
<1>2. Left(events) = FirstsIn(retired, wanted)
  BY <1>1 DEF Left, Due, FirstsIn
<1>3. wanted = IF emitted THEN {} ELSE DOMAIN Known(events) \ drawn
  OBVIOUS
<1> HIDE DEF wanted
<1>4. /\ IsSeq(FirstsIn(retired, wanted)) /\ ToSet(FirstsIn(retired, wanted)) = ToSet(retired) \cap wanted
      /\ \A k, m \in 1..Len(FirstsIn(retired, wanted)) :
           FirstsIn(retired, wanted)[k] = FirstsIn(retired, wanted)[m] => k = m
  BY FirstsInFacts
<1> QED BY <1>2, <1>3, <1>4

(* A sequence of process rows hangs from the root alone. *)
LEMMA ProcessRowsHang ==
  ASSUME NEW seq, IsSeq(seq), NEW rows, rows = [i \in DOMAIN seq |-> ProcessRow(seq[i])]
  PROVE  /\ IsSeq(rows) /\ Len(rows) = Len(seq) /\ Hangs(rows, {RootRow})
         /\ \A row : row \in ToSet(rows) <=> \E p \in ToSet(seq) : row = ProcessRow(p)
<1>1. Len(seq) \in Nat /\ DOMAIN seq = 1..Len(seq)
  BY SeqFacts
<1>2. DOMAIN rows = 1..Len(seq) /\ rows = [i \in 1..Len(seq) |-> rows[i]]
  BY <1>1
<1>3. IsSeq(rows) /\ Len(rows) = Len(seq)
  BY <1>1, <1>2, MadeSeq
<1>4. \A i \in 1..Len(seq) : rows[i] = ProcessRow(seq[i]) /\ Needs(rows[i]) = {RootRow}
  BY <1>1, ProcessRowIs
<1>5. Hangs(rows, {RootRow})
  BY <1>3, <1>4 DEF Hangs
<1>6. \A row : row \in ToSet(rows) <=> \E p \in ToSet(seq) : row = ProcessRow(p)
  BY <1>1, <1>2, <1>4 DEF ToSet
<1> QED BY <1>3, <1>5, <1>6

(* The rows of a batch: the root, those of its events, and of nothing else. *)
LEMMA NewRowsAre ==
  ASSUME NEW events, EventsOK(events)
  PROVE  /\ IsSeq(NewRows(events)) /\ Hangs(NewRows(events), described)
         /\ ToSet(NewRows(events)) \cap described = {}
         /\ \A k, m \in 1..Len(NewRows(events)) :
              NewRows(events)[k] = NewRows(events)[m] => k = m
         /\ RootRow \in Shown(events)
         /\ \A row \in ToSet(NewRows(events)) :
              /\ row # LifetimesRow
              /\ row[1] = "process" => /\ row[2] \in Processes /\ row[2] \in Owners(events)
                                       /\ row = ProcessRow(row[2])
              /\ row[1] = "thread" => \E i \in 1..Len(events) : row = events[i].row
         /\ \A i \in 1..Len(events) : ToSet(RowsOf(events[i])) \subseteq Shown(events)
<1> DEFINE parts == [i \in DOMAIN events |-> RowsOf(events[i])]
           n == Len(events)
<1>1. n \in Nat /\ DOMAIN events = 1..n /\ \A i \in 1..n : EventOK(events[i])
  BY SeqFacts DEF EventsOK
<1>2. DOMAIN parts = 1..n /\ parts = [i \in 1..n |-> parts[i]] /\ \A i \in 1..n : parts[i] = RowsOf(events[i])
  BY <1>1
<1> HIDE DEF parts, n
<1>3. IsSeq(parts) /\ Len(parts) = n
  BY <1>1, <1>2, MadeSeq
<1>4. \A i \in 1..n : IsSeq(parts[i]) /\ Hangs(parts[i], {RootRow})
  BY <1>1, <1>2, RowsOfEvent
<1>5. Needed(events) = FlattenSeq(parts)
  BY DEF Needed, parts
<1>6. /\ IsSeq(Needed(events)) /\ Hangs(Needed(events), {RootRow})
      /\ \A row : row \in ToSet(Needed(events)) <=> \E i \in 1..n : row \in ToSet(parts[i])
  <2>1. Hangs(FlattenSeq(parts), {RootRow})
    BY <1>3, <1>4, HangsFlatten
  <2>2. /\ IsSeq(FlattenSeq(parts))
        /\ \A e : e \in ToSet(FlattenSeq(parts)) <=> \E i \in 1..Len(parts) : e \in ToSet(parts[i])
    BY <1>3, <1>4, FlattenElements
  <2> QED BY <1>3, <1>5, <2>1, <2>2
<1> DEFINE rooted == WithRoot(Needed(events), described)
<1>7. /\ IsSeq(rooted) /\ Hangs(rooted, described)
      /\ ToSet(rooted) = ToSet(Needed(events)) \cup ({RootRow} \ described)
  BY <1>6, WithRootHangs
<1>8. NewRows(events) = Fresh(rooted, described)
  BY DEF NewRows
<1> HIDE DEF rooted
<1>9. /\ IsSeq(NewRows(events)) /\ Hangs(NewRows(events), described)
      /\ ToSet(NewRows(events)) = ToSet(rooted) \ described
      /\ \A k, m \in 1..Len(NewRows(events)) : NewRows(events)[k] = NewRows(events)[m] => k = m
  BY <1>7, <1>8, FreshHangs
<1>10. RootRow \in Shown(events)
  BY <1>7, <1>9 DEF Shown
<1>11. ASSUME NEW i \in 1..n, NEW row \in ToSet(parts[i])
       PROVE  /\ row # LifetimesRow
              /\ row[1] = "process" => /\ row[2] \in Processes /\ row[2] \in Owners(events)
                                       /\ row = ProcessRow(row[2])
              /\ row[1] = "thread" => row = events[i].row
  <2>1. /\ RowOK(row) /\ (row[1] = "process" => row = ProcessRow(Owner(events[i])))
        /\ row[1] = "thread" => row = events[i].row
    BY <1>1, <1>2, RowsOfEvent
  <2>2. Owner(events[i]) \in Owners(events)
    BY <1>1 DEF Owners
  <2> QED BY <2>1, <2>2, ProcessRowIs DEF RowOK
<1>12. RootRow # LifetimesRow /\ RootRow[1] = "root"
  BY DEF RootRow, LifetimesRow
<1>13. \A row \in ToSet(NewRows(events)) :
         /\ row # LifetimesRow
         /\ row[1] = "process" => /\ row[2] \in Processes /\ row[2] \in Owners(events)
                                  /\ row = ProcessRow(row[2])
         /\ row[1] = "thread" => \E i \in 1..n : row = events[i].row
  <2> SUFFICES ASSUME NEW row \in ToSet(NewRows(events))
               PROVE  /\ row # LifetimesRow
                      /\ row[1] = "process" => /\ row[2] \in Processes /\ row[2] \in Owners(events)
                                               /\ row = ProcessRow(row[2])
                      /\ row[1] = "thread" => \E i \in 1..n : row = events[i].row
    BY Zenon
  <2>1. row = RootRow \/ \E i \in 1..n : row \in ToSet(parts[i])
    BY <1>6, <1>7, <1>9
  <2> QED BY <1>11, <1>12, <2>1
<1>14. \A i \in 1..n : ToSet(RowsOf(events[i])) \subseteq Shown(events)
  BY <1>2, <1>6, <1>7, <1>9 DEF Shown
<1> QED BY <1>9, <1>10, <1>13, <1>14 DEF n

(* A pair of packets on a row that is out. *)
LEMMA PairIsQuiet ==
  ASSUME NEW row, NEW name, NEW endName, NEW ts, NEW stop, NEW args, NEW done, row \in done
  PROVE  Quiet(Pair(row, name, endName, ts, stop, args), done)
<1> DEFINE one == [type |-> "begin", row |-> row, name |-> name, ts |-> ts, stop |-> stop, args |-> args]
           two == [type |-> "end", row |-> row, name |-> endName, ts |-> stop]
<1>1. Pair(row, name, endName, ts, stop, args) = <<one, two>>
  BY DEF Pair
<1>2. one.type # "descriptor" /\ one.row = row /\ two.type # "descriptor" /\ two.row = row
  OBVIOUS
<1> HIDE DEF one, two
<1>3. IsSeq(<<one, two>>) /\ Len(<<one, two>>) = 2 /\ <<one, two>>[1] = one /\ <<one, two>>[2] = two
  BY DEF IsSeq, ToSet
<1> QED BY <1>1, <1>2, <1>3 DEF Quiet

(* The rows of the processes that left, each with its bar, follow those of the batch. *)
LEMMA LeftPacketsFollow ==
  ASSUME IsSeq(retired), NEW events, EventsOK(events),
         \A p \in ToSet(Left(events)) : p \in DOMAIN Pids(events) /\ p \in DOMAIN After(events)
  PROVE  /\ IsSeq(Leaving(events)) /\ ToSet(Leaving(events)) \cap Shown(events) = {}
         /\ \A k, m \in 1..Len(Leaving(events)) : Leaving(events)[k] = Leaving(events)[m] => k = m
         /\ \A row : row \in ToSet(Leaving(events)) <=>
              row \notin Shown(events) /\ \E p \in ToSet(Left(events)) : row = ProcessRow(p)
         /\ IsSeq(LeftPackets(events)) /\ Sound(LeftPackets(events), Shown(events))
         /\ DescribedBy(LeftPackets(events)) = ToSet(Leaving(events))
         /\ Carries(LeftPackets(events), Pids(events), After(events))
<1> DEFINE left == Left(events)
           leaving == Leaving(events)
           shown == Shown(events)
           n == Len(left)
           own(p) == OwnRow(events, p)
           bar(p) == OwnBar(events, p)
           parts == [i \in DOMAIN left |-> own(left[i]) \o bar(left[i])]
<1>1. /\ IsSeq(left) /\ \A k, m \in 1..n : left[k] = left[m] => k = m
  BY LeftIs
<1>2. n \in Nat /\ DOMAIN left = 1..n /\ \A i \in 1..n : left[i] \in ToSet(left)
  BY <1>1, SeqFacts
<1>3. RootRow \in shown
  BY NewRowsAre
<1>4. /\ IsSeq(LeftRows(events)) /\ Hangs(LeftRows(events), {RootRow})
      /\ \A row : row \in ToSet(LeftRows(events)) <=> \E p \in ToSet(left) : row = ProcessRow(p)
  <2>1. LeftRows(events) = [i \in DOMAIN left |-> ProcessRow(left[i])]
    BY DEF LeftRows
  <2> HIDE DEF left
  <2> QED BY <1>1, <2>1, ProcessRowsHang
<1>5. Hangs(LeftRows(events), shown)
  BY <1>3, <1>4 DEF Hangs
<1>6. /\ IsSeq(leaving) /\ ToSet(leaving) = ToSet(LeftRows(events)) \ shown
      /\ \A k, m \in 1..Len(leaving) : leaving[k] = leaving[m] => k = m
  <2>1. leaving = Fresh(LeftRows(events), shown)
    BY DEF Leaving
  <2> HIDE DEF leaving, shown
  <2> QED BY <1>4, <1>5, <2>1, FreshHangs
<1>7. \A row : row \in ToSet(leaving) <=> row \notin shown /\ \E p \in ToSet(left) : row = ProcessRow(p)
  BY <1>4, <1>6
<1> HIDE DEF left, leaving, shown
<1>8. ASSUME NEW p \in ToSet(left)
      PROVE  /\ IsSeq(own(p)) /\ Sound(own(p), shown)
             /\ DescribedBy(own(p)) = {ProcessRow(p)} \ shown
             /\ Carries(own(p), Pids(events), After(events))
  <2>1. CASE ProcessRow(p) \in shown
    <3>1. own(p) = <<>>
      BY <1>7, <2>1 DEF OwnRow, leaving
    <3> QED BY <2>1, <3>1, EmptyIsSeq, EmptySound DEF Carries
  <2>2. CASE ProcessRow(p) \notin shown
    <3> DEFINE one == <<ProcessRow(p)>>
    <3>1. own(p) = Descriptors(one, Pids(events), After(events), Known(events))
      BY <1>7, <2>2 DEF OwnRow, leaving
    <3>2. /\ IsSeq(one) /\ ToSet(one) = {ProcessRow(p)} /\ Len(one) = 1 /\ one[1] = ProcessRow(p)
      BY OneIsSeq
    <3>3. Hangs(one, shown)
      BY <1>3, ProcessRowIs, HangsOne
    <3>4. \A row \in ToSet(one) : row[1] = "process" =>
            row[2] \in DOMAIN Pids(events) /\ row[2] \in DOMAIN After(events)
      BY <3>2, ProcessRowIs DEF left
    <3> HIDE DEF one
    <3>5. ToSet(one) \cap shown = {} /\ \A k, m \in 1..Len(one) : one[k] = one[m] => k = m
      BY <2>2, <3>2
    <3>6. /\ IsSeq(own(p)) /\ Sound(own(p), shown) /\ DescribedBy(own(p)) = ToSet(one)
      BY <3>1, <3>2, <3>3, <3>5, DescriptorsSound
    <3>7. Carries(own(p), Pids(events), After(events))
      BY <3>1, <3>2, <3>4, DescriptorsCarry
    <3> QED BY <2>2, <3>2, <3>6, <3>7
  <2> QED BY <2>1, <2>2
<1>9. ASSUME NEW p \in ToSet(left), NEW done, ProcessRow(p) \in done
      PROVE  Quiet(bar(p), done)
  BY <1>9, PairIsQuiet DEF OwnBar, Bar
<1> HIDE DEF own, bar
<1>10. ASSUME NEW p \in ToSet(left)
       PROVE  /\ IsSeq(own(p) \o bar(p)) /\ Sound(own(p) \o bar(p), shown)
              /\ DescribedBy(own(p) \o bar(p)) = {ProcessRow(p)} \ shown
              /\ Carries(own(p) \o bar(p), Pids(events), After(events))
  <2>1. ProcessRow(p) \in shown \cup DescribedBy(own(p))
    BY <1>8
  <2> DEFINE done == shown \cup DescribedBy(own(p))
  <2>2. Quiet(bar(p), done)
    BY <1>9, <2>1
  <2>3. IsSeq(bar(p)) /\ Sound(bar(p), done) /\ DescribedBy(bar(p)) = {}
    <3> HIDE DEF done
    <3> QED BY <2>2, QuietIsSound DEF Quiet
  <2>4. Carries(bar(p), Pids(events), After(events))
    BY <2>2, QuietCarries
  <2>5. Sound(own(p) \o bar(p), shown) /\ DescribedBy(own(p) \o bar(p)) = {ProcessRow(p)} \ shown
    BY <1>8, <2>3, JoinSound
  <2> QED BY <1>8, <2>3, <2>4, <2>5, ConcatFacts, CarriesJoin
<1>11. DOMAIN parts = 1..n /\ parts = [i \in 1..n |-> parts[i]]
       /\ \A i \in 1..n : parts[i] = own(left[i]) \o bar(left[i])
  BY <1>2
<1>12. LeftPackets(events) = FlattenSeq(parts)
  BY DEF LeftPackets, left, own, bar
<1> HIDE DEF parts, n
<1>13. IsSeq(parts) /\ Len(parts) = n
  BY <1>2, <1>11, MadeSeq
<1>14. \A i \in 1..Len(parts) : /\ IsSeq(parts[i]) /\ Sound(parts[i], shown)
                                /\ DescribedBy(parts[i]) = {ProcessRow(left[i])} \ shown
                                /\ Carries(parts[i], Pids(events), After(events))
  BY <1>2, <1>10, <1>11, <1>13
<1>15. \A i, j \in 1..Len(parts) : i # j => DescribedBy(parts[i]) \cap DescribedBy(parts[j]) = {}
  <2> SUFFICES ASSUME NEW i \in 1..Len(parts), NEW j \in 1..Len(parts), i # j,
                      ProcessRow(left[i]) = ProcessRow(left[j])
               PROVE  FALSE
    BY <1>14
  <2>1. left[i] = left[j]
    BY ProcessRowIs
  <2> QED BY <1>1, <1>13, <2>1 DEF n
<1>16. IsSeq(FlattenSeq(parts))
  BY <1>13, <1>14, FlattenElements
<1>17. /\ Sound(FlattenSeq(parts), shown)
       /\ \A row : row \in DescribedBy(FlattenSeq(parts))
                     <=> \E i \in 1..Len(parts) : row \in DescribedBy(parts[i])
  BY <1>13, <1>14, <1>15, FlattenSound
<1>18. DescribedBy(FlattenSeq(parts)) = ToSet(leaving)
  <2>1. ASSUME NEW row, row \in DescribedBy(FlattenSeq(parts)) PROVE row \in ToSet(leaving)
    BY <1>2, <1>7, <1>13, <1>14, <1>17, <2>1
  <2>2. ASSUME NEW row \in ToSet(leaving) PROVE row \in DescribedBy(FlattenSeq(parts))
    <3>1. PICK p \in ToSet(left) : row = ProcessRow(p)
      BY <1>7
    <3>2. PICK i \in 1..n : left[i] = p
      BY <1>2 DEF ToSet
    <3> QED BY <1>7, <1>13, <1>14, <1>17, <3>1, <3>2
  <2> QED BY <2>1, <2>2
<1>19. Carries(FlattenSeq(parts), Pids(events), After(events))
  BY <1>13, <1>14, CarriesFlatten
<1> QED BY <1>6, <1>7, <1>12, <1>16, <1>17, <1>18, <1>19 DEF left, leaving, shown

(* The record s is what comes of rows `done`, with the numbers given so far. *)
Follows(s, done, pids, given) ==
  /\ IsSeq(s.packets) /\ Sound(s.packets, done)
  /\ s.described = done \cup DescribedBy(s.packets)
  /\ Carries(s.packets, s.row_pids, s.ranks)
  /\ Extends(s.row_pids, pids) /\ Extends(s.ranks, given)
  /\ RowsKnown(s.described, s.row_pids, s.ranks) /\ SpansOK(s.spans)

LEMMA ExtendsOn ==
  ASSUME NEW f, NEW g, NEW h, Extends(g, f), Extends(h, g)
  PROVE  Extends(h, f)
BY DEF Extends

LEMMA NumbersOfBatch ==
  ASSUME RowsKnown(described, row_pids, ranks), SpansOK(spans), IsSeq(retired),
         NEW events, EventsOK(events)
  PROVE  /\ SpansOK(Known(events)) /\ DOMAIN Known(events) = DOMAIN spans \cup Owners(events)
         /\ Numbering(Given(events), 0) /\ Extends(Given(events), ranks)
         /\ DOMAIN Given(events) = DOMAIN ranks \cup Owners(events)
         /\ Numbering(After(events), 0) /\ Extends(After(events), Given(events))
         /\ DOMAIN After(events) = DOMAIN Given(events) \cup ToSet(Left(events))
<1>1. SpansOK(Known(events)) /\ DOMAIN Known(events) = DOMAIN spans \cup Owners(events)
  BY PrePassKnows DEF Known
<1>2. Numbering(ranks, 0)
  BY DEF RowsKnown
<1>3. /\ Numbering(Given(events), 0) /\ Extends(Given(events), ranks)
      /\ DOMAIN Given(events) = DOMAIN ranks \cup (Owners(events) \cap DOMAIN Known(events))
  <2> DEFINE known == Known(events)
             owners == Owners(events)
  <2>1. Given(events) = Ranked(ranks, owners, known) /\ SpansOK(known)
    BY <1>1 DEF Given
  <2>2. Given(events) = Ranked(ranks, owners, known)
    BY <2>1
  <2> HIDE DEF known, owners
  <2>3. /\ Numbering(Ranked(ranks, owners, known), 0)
        /\ Extends(Ranked(ranks, owners, known), ranks)
        /\ DOMAIN Ranked(ranks, owners, known) = DOMAIN ranks \cup (owners \cap DOMAIN known)
    BY <1>2, <2>1, RankedNumbers
  <2> QED BY <2>2, <2>3 DEF known, owners
<1>4. DOMAIN Given(events) = DOMAIN ranks \cup Owners(events)
  BY <1>1, <1>3
<1>5. /\ IsSeq(Left(events))
      /\ \A k, m \in 1..Len(Left(events)) : Left(events)[k] = Left(events)[m] => k = m
  BY LeftIs
<1>6. /\ Numbering(After(events), 0) /\ Extends(After(events), Given(events))
      /\ DOMAIN After(events) = DOMAIN Given(events) \cup ToSet(Left(events))
  <2> DEFINE g == Given(events)
             left == Left(events)
  <2>1. After(events) = InTurn(g, left, 0)
    BY DEF After, RankedInTurn
  <2>2. /\ 0 \in Nat /\ Numbering(g, 0) /\ IsSeq(left)
        /\ \A k, m \in 1..Len(left) : left[k] = left[m] => k = m
    BY <1>3, <1>5
  <2> HIDE DEF g, left
  <2>3. /\ Numbering(InTurn(g, left, 0), 0) /\ Extends(InTurn(g, left, 0), g)
        /\ DOMAIN InTurn(g, left, 0) = DOMAIN g \cup ToSet(left)
    BY <2>2, InTurnNumbers
  <2> QED BY <2>1, <2>3 DEF g, left
<1> QED BY <1>1, <1>3, <1>4, <1>6

LEMMA PidsOfBatch ==
  ASSUME RowsKnown(described, row_pids, ranks), SpansOK(spans), IsSeq(retired),
         NEW events, EventsOK(events)
  PROVE  /\ Numbering(Pids(events), 1) /\ Extends(Pids(events), row_pids)
         /\ \A p : p \in DOMAIN Pids(events) <=> ProcessRow(p) \in Done(events)
<1> DEFINE rows == NewRows(events)
           leaving == Leaving(events)
           all == rows \o leaving
<1>1. /\ IsSeq(rows) /\ \A k, m \in 1..Len(rows) : rows[k] = rows[m] => k = m
      /\ \A row \in ToSet(rows) : row[1] = "process" => row = ProcessRow(row[2])
  BY NewRowsAre
<1>2. /\ IsSeq(Left(events)) /\ IsSeq(LeftRows(events)) /\ Hangs(LeftRows(events), {RootRow})
      /\ \A row : row \in ToSet(LeftRows(events)) <=> \E p \in ToSet(Left(events)) : row = ProcessRow(p)
  <2>1. IsSeq(Left(events))
    BY LeftIs
  <2>2. LeftRows(events) = [i \in DOMAIN Left(events) |-> ProcessRow(Left(events)[i])]
    BY DEF LeftRows
  <2> QED BY <2>1, <2>2, ProcessRowsHang
<1>3. Hangs(LeftRows(events), Shown(events))
  BY <1>2, NewRowsAre DEF Hangs
<1>4. /\ IsSeq(leaving) /\ ToSet(leaving) = ToSet(LeftRows(events)) \ Shown(events)
      /\ \A k, m \in 1..Len(leaving) : leaving[k] = leaving[m] => k = m
  <2>1. leaving = Fresh(LeftRows(events), Shown(events))
    BY DEF Leaving
  <2> HIDE DEF leaving
  <2> QED BY <1>2, <1>3, <2>1, FreshHangs
<1>5. \A row \in ToSet(leaving) : row = ProcessRow(row[2])
  BY <1>2, <1>4, ProcessRowIs
<1>6. ToSet(rows) \cap ToSet(leaving) = {}
  BY <1>4 DEF Shown
<1> HIDE DEF rows, leaving
<1>7. /\ IsSeq(all) /\ Len(all) = Len(rows) + Len(leaving)
      /\ \A i \in 1..Len(rows) : all[i] = rows[i]
      /\ \A i \in 1..Len(leaving) : all[Len(rows) + i] = leaving[i]
      /\ ToSet(all) = ToSet(rows) \cup ToSet(leaving)
      /\ Len(rows) \in Nat /\ Len(leaving) \in Nat
      /\ \A i \in 1..Len(rows) : rows[i] \in ToSet(rows)
      /\ \A i \in 1..Len(leaving) : leaving[i] \in ToSet(leaving)
  BY <1>1, <1>4, ConcatFacts, SeqFacts
<1> HIDE DEF all
<1>8. ASSUME NEW k \in 1..Len(all), NEW m \in 1..Len(all), all[k] = all[m] PROVE k = m
  <2>1. \A i \in 1..Len(all) : i \notin 1..Len(rows) =>
           i - Len(rows) \in 1..Len(leaving) /\ all[i] = leaving[i - Len(rows)]
    <3> SUFFICES ASSUME NEW i \in 1..Len(all), i \notin 1..Len(rows)
                 PROVE  i - Len(rows) \in 1..Len(leaving) /\ all[i] = leaving[i - Len(rows)]
      OBVIOUS
    <3>1. i - Len(rows) \in 1..Len(leaving) /\ Len(rows) + (i - Len(rows)) = i
      BY <1>7
    <3> QED BY <1>7, <3>1
  <2>2. CASE k \in 1..Len(rows) /\ m \in 1..Len(rows)
    BY <1>1, <1>7, <1>8, <2>2
  <2>3. CASE k \notin 1..Len(rows) /\ m \notin 1..Len(rows)
    <3>1. k - Len(rows) = m - Len(rows)
      BY <1>4, <1>8, <2>1, <2>3
    <3> QED BY <1>7, <3>1
  <2>4. CASE k \in 1..Len(rows) /\ m \notin 1..Len(rows)
    BY <1>6, <1>7, <1>8, <2>1, <2>4
  <2>5. CASE k \notin 1..Len(rows) /\ m \in 1..Len(rows)
    BY <1>6, <1>7, <1>8, <2>1, <2>5
  <2> QED BY <2>2, <2>3, <2>4, <2>5
<1>9. Pids(events) = Numbered(row_pids, all)
  BY DEF Pids, all, rows, leaving
<1>10. Numbering(row_pids, 1)
  BY DEF RowsKnown
<1>11. /\ Numbering(Pids(events), 1) /\ Extends(Pids(events), row_pids)
       /\ \A p : p \in DOMAIN Pids(events) <=> p \in DOMAIN row_pids \/ ProcessRow(p) \in ToSet(all)
  <2>1. \A row \in ToSet(all) : row[1] = "process" => row = ProcessRow(row[2])
    BY <1>1, <1>5, <1>7
  <2> QED BY <1>7, <1>8, <1>9, <1>10, <2>1, NumberedNumbers
<1>12. Done(events) = described \cup ToSet(all)
  BY <1>7 DEF Done, Shown, rows, leaving
<1> QED BY <1>11, <1>12 DEF RowsKnown

(* A batch keeps to the rules of the file. *)
LEMMA BatchFollows ==
  ASSUME RowsKnown(described, row_pids, ranks), SpansOK(spans), IsSeq(retired),
         NEW events, EventsOK(events)
  PROVE  Follows(WriteEvents(events), described, row_pids, ranks)
<1> DEFINE rows == NewRows(events)
           pids == Pids(events)
           after == After(events)
           R == RowPackets(events)
           E == EventPackets(events)
           L == LeftPackets(events)
           s == WriteEvents(events)
<1>1. /\ SpansOK(Known(events)) /\ DOMAIN Known(events) = DOMAIN spans \cup Owners(events)
      /\ Extends(Given(events), ranks)
      /\ DOMAIN Given(events) = DOMAIN ranks \cup Owners(events)
      /\ Numbering(after, 0) /\ Extends(after, Given(events))
      /\ DOMAIN after = DOMAIN Given(events) \cup ToSet(Left(events))
  BY NumbersOfBatch
<1>2. /\ Numbering(pids, 1) /\ Extends(pids, row_pids)
      /\ \A p : p \in DOMAIN pids <=> ProcessRow(p) \in Done(events)
  BY PidsOfBatch
<1>3. /\ IsSeq(rows) /\ Hangs(rows, described) /\ ToSet(rows) \cap described = {}
      /\ \A k, m \in 1..Len(rows) : rows[k] = rows[m] => k = m
      /\ \A row \in ToSet(rows) :
           row[1] = "process" => /\ row[2] \in Processes /\ row[2] \in Owners(events)
                                 /\ row = ProcessRow(row[2])
      /\ \A i \in 1..Len(events) : ToSet(RowsOf(events[i])) \subseteq Shown(events)
  BY NewRowsAre
<1>4. /\ IsSeq(R) /\ Sound(R, described) /\ DescribedBy(R) = ToSet(rows)
  BY <1>3, DescriptorsSound DEF RowPackets
<1>5. Carries(R, pids, Given(events))
  <2>1. \A row \in ToSet(rows) : row[1] = "process" =>
          row[2] \in DOMAIN pids /\ row[2] \in DOMAIN Given(events)
    BY <1>1, <1>2, <1>3 DEF Done, Shown
  <2> QED BY <1>3, <2>1, DescriptorsCarry DEF RowPackets
<1>6. Carries(R, pids, after)
  <2>1. Extends(pids, pids)
    BY DEF Extends
  <2> HIDE DEF pids, after, R
  <2> QED BY <1>1, <1>5, <2>1, CarriesOn
<1>7. Quiet(E, Shown(events))
  <2> DEFINE parts == [i \in DOMAIN events |-> PacketsOf(events[i])]
             n == Len(events)
  <2>1. n \in Nat /\ DOMAIN events = 1..n /\ \A i \in 1..n : EventOK(events[i])
    BY SeqFacts DEF EventsOK
  <2>2. DOMAIN parts = 1..n /\ parts = [i \in 1..n |-> parts[i]] /\ \A i \in 1..n : parts[i] = PacketsOf(events[i])
    BY <2>1
  <2>3. E = FlattenSeq(parts)
    BY DEF EventPackets
  <2> HIDE DEF parts, n, E
  <2>4. IsSeq(parts) /\ Len(parts) = n
    BY <2>1, <2>2, MadeSeq
  <2>5. \A i \in 1..n : Quiet(parts[i], Shown(events))
    <3> SUFFICES ASSUME NEW i \in 1..n PROVE Quiet(parts[i], Shown(events))
      OBVIOUS
    <3>1. Quiet(PacketsOf(events[i]), ToSet(RowsOf(events[i])))
      BY <2>1, RowsOfEvent
    <3>2. ToSet(RowsOf(events[i])) \subseteq Shown(events)
      BY <1>3 DEF n
    <3> QED BY <2>2, <3>1, <3>2 DEF Quiet
  <2> QED BY <2>3, <2>4, <2>5, FlattenQuiet
<1>8. /\ ToSet(Leaving(events)) \cap Shown(events) = {}
      /\ \A row : row \in ToSet(Leaving(events)) <=>
           row \notin Shown(events) /\ \E p \in ToSet(Left(events)) : row = ProcessRow(p)
      /\ IsSeq(L) /\ Sound(L, Shown(events)) /\ DescribedBy(L) = ToSet(Leaving(events))
      /\ Carries(L, pids, after)
  <2>1. \A p \in ToSet(Left(events)) : p \in DOMAIN pids /\ p \in DOMAIN after
    <3> SUFFICES ASSUME NEW p \in ToSet(Left(events)) PROVE p \in DOMAIN pids
      BY <1>1
    <3>1. IsSeq(Left(events)) /\ LeftRows(events) = [i \in DOMAIN Left(events) |-> ProcessRow(Left(events)[i])]
      BY LeftIs DEF LeftRows
    <3>2. /\ IsSeq(LeftRows(events)) /\ Hangs(LeftRows(events), {RootRow})
          /\ ProcessRow(p) \in ToSet(LeftRows(events))
      BY <3>1, ProcessRowsHang
    <3>3. Hangs(LeftRows(events), Shown(events))
      BY <3>2, NewRowsAre DEF Hangs
    <3>4. ToSet(Leaving(events)) = ToSet(LeftRows(events)) \ Shown(events)
      BY <3>2, <3>3, FreshHangs DEF Leaving
    <3> QED BY <1>2, <3>2, <3>4 DEF Done
  <2> QED BY <2>1, LeftPacketsFollow
<1>9. s.packets = (R \o E) \o L /\ s.described = Done(events) /\ s.row_pids = pids
      /\ s.ranks = after /\ s.spans = Known(events)
  BY BatchIs
<1> HIDE DEF rows, pids, after, R, E, L, s
<1>10. IsSeq(R \o E) /\ Sound(R \o E, described) /\ DescribedBy(R \o E) = ToSet(rows)
       /\ Carries(R \o E, pids, after)
  <2>1. described \cup DescribedBy(R) = Shown(events)
    BY <1>4 DEF Shown, rows
  <2>2. IsSeq(E) /\ Sound(E, Shown(events)) /\ DescribedBy(E) = {} /\ Carries(E, pids, after)
    BY <1>7, QuietIsSound, QuietCarries DEF Quiet
  <2>3. Sound(R \o E, described) /\ DescribedBy(R \o E) = DescribedBy(R) \cup DescribedBy(E)
    BY <1>4, <2>1, <2>2, JoinSound
  <2> QED BY <1>4, <1>6, <2>2, <2>3, ConcatFacts, CarriesJoin
<1>11. /\ IsSeq((R \o E) \o L) /\ Sound((R \o E) \o L, described)
       /\ DescribedBy((R \o E) \o L) = ToSet(rows) \cup ToSet(Leaving(events))
       /\ Carries((R \o E) \o L, pids, after)
  <2>1. described \cup DescribedBy(R \o E) = Shown(events)
    BY <1>10 DEF Shown, rows
  <2>2. /\ Sound((R \o E) \o L, described)
        /\ DescribedBy((R \o E) \o L) = DescribedBy(R \o E) \cup DescribedBy(L)
    BY <1>8, <1>10, <2>1, JoinSound
  <2> QED BY <1>8, <1>10, <2>2, ConcatFacts, CarriesJoin
<1>12. Done(events) = described \cup DescribedBy(s.packets)
  BY <1>9, <1>11 DEF Done, Shown, rows
<1>13. Extends(after, ranks)
  BY <1>1, ExtendsOn
<1>14. RowsKnown(Done(events), pids, after)
  <2>1. ASSUME NEW row \in Done(events), row[1] = "process"
        PROVE  row[2] \in Processes /\ row = ProcessRow(row[2])
    <3>1. CASE row \in described
      BY <2>1, <3>1 DEF RowsKnown
    <3>2. CASE row \in ToSet(rows)
      BY <1>3, <2>1, <3>2
    <3>3. CASE row \in ToSet(Leaving(events))
      <4>1. PICK p \in ToSet(Left(events)) : row = ProcessRow(p)
        BY <1>8, <3>3
      <4>2. p \in Processes
        BY <1>1, LeftIs DEF SpansOK
      <4> QED BY <4>1, <4>2, ProcessRowIs
    <3> QED BY <3>1, <3>2, <3>3 DEF Done, Shown, rows
  <2>2. DOMAIN pids \subseteq DOMAIN after
    <3> SUFFICES ASSUME NEW p \in DOMAIN pids PROVE p \in DOMAIN after
      OBVIOUS
    <3>1. ProcessRow(p) \in Done(events)
      BY <1>2
    <3>2. CASE ProcessRow(p) \in described
      BY <1>1, <3>2 DEF RowsKnown, Extends
    <3>3. CASE ProcessRow(p) \in ToSet(rows)
      <4>1. p \in Owners(events)
        BY <1>3, <3>3, ProcessRowIs
      <4> QED BY <1>1, <4>1
    <3>4. CASE ProcessRow(p) \in ToSet(Leaving(events))
      <4>1. PICK q \in ToSet(Left(events)) : ProcessRow(p) = ProcessRow(q)
        BY <1>8, <3>4
      <4>2. p = q
        BY <4>1, ProcessRowIs
      <4> QED BY <1>1, <4>2
    <3> QED BY <3>1, <3>2, <3>3, <3>4 DEF Done, Shown, rows
  <2> QED BY <1>1, <1>2, <2>1, <2>2 DEF RowsKnown
<1>15. Follows(s, described, row_pids, ranks)
  BY <1>1, <1>2, <1>9, <1>11, <1>12, <1>13, <1>14 DEF Follows
<1> QED BY <1>15 DEF s

LEMMA BatchLeavesLifetimes ==
  ASSUME IsSeq(retired), NEW events, EventsOK(events), LifetimesRow \notin described
  PROVE  LifetimesRow \notin WriteEvents(events).described
<1>1. LifetimesRow \notin Shown(events)
  BY NewRowsAre DEF Shown
<1>2. IsSeq(Left(events)) /\ LeftRows(events) = [i \in DOMAIN Left(events) |-> ProcessRow(Left(events)[i])]
  BY LeftIs DEF LeftRows
<1>3. /\ IsSeq(LeftRows(events)) /\ Hangs(LeftRows(events), {RootRow})
      /\ \A row : row \in ToSet(LeftRows(events)) <=> \E p \in ToSet(Left(events)) : row = ProcessRow(p)
  BY <1>2, ProcessRowsHang
<1>4. Hangs(LeftRows(events), Shown(events))
  BY <1>3, NewRowsAre DEF Hangs
<1>5. ToSet(Leaving(events)) = ToSet(LeftRows(events)) \ Shown(events)
  BY <1>3, <1>4, FreshHangs DEF Leaving
<1>6. LifetimesRow \notin Done(events)
  BY <1>1, <1>3, <1>5, ProcessRowIs DEF Done
<1> QED BY <1>6, BatchIs

-----------------------------------------------------------------------------
(* The closeout, in the parts finalize_perfetto_packets makes it of. *)

FinalNeeded(s) ==
  [i \in DOMAIN SweepOrder(s.spans) |-> ProcessRow(SweepOrder(s.spans)[i])]
FinalRows(s) == Fresh(WithRoot(FinalNeeded(s), s.described), s.described)
FinalShown(s) == s.described \cup ToSet(FinalRows(s))
FinalPids(s) == Numbered(s.row_pids, FinalRows(s))
FinalRanks(s) == Ranked(s.ranks, DOMAIN s.spans, s.spans)
FinalDone(s) == FinalShown(s) \cup {LifetimesRow}
FinalRowPackets(s) == Descriptors(FinalRows(s), FinalPids(s), FinalRanks(s), s.spans)
SharedRowPackets(s) == Descriptors(<<LifetimesRow>>, FinalPids(s), FinalRanks(s), s.spans)
OwedTo(s, p) == Owed(p, s, Clipped(s.spans), FinalDone(s))
OwedPackets(s) ==
  FlattenSeq([i \in DOMAIN SweepOrder(s.spans) |-> OwedTo(s, SweepOrder(s.spans)[i])])

LEMMA CloseoutIs ==
  ASSUME NEW s
  PROVE  Finalize(s) =
           [described |-> FinalDone(s), row_pids |-> FinalPids(s), spans |-> s.spans,
            totals |-> s.totals, ranks |-> FinalRanks(s), drawn |-> DOMAIN s.spans,
            packets |-> ((s.packets \o FinalRowPackets(s)) \o SharedRowPackets(s)) \o OwedPackets(s)]
BY DEF Finalize, FinalDone, FinalShown, FinalRows, FinalNeeded, FinalPids, FinalRanks,
       FinalRowPackets, SharedRowPackets, OwedPackets, OwedTo

LEMMA QuietJoin ==
  ASSUME NEW a, NEW b, NEW done, Quiet(a, done), Quiet(b, done)
  PROVE  Quiet(a \o b, done)
<1> DEFINE c == a \o b
<1>1. /\ IsSeq(c) /\ Len(a) \in Nat /\ Len(b) \in Nat /\ Len(c) = Len(a) + Len(b)
      /\ \A i \in 1..Len(a) : c[i] = a[i]
      /\ \A i \in 1..Len(b) : c[Len(a) + i] = b[i]
  BY SeqFacts, ConcatFacts DEF Quiet
<1> HIDE DEF c
<1>2. ASSUME NEW i \in 1..Len(c) PROVE c[i].type # "descriptor" /\ c[i].row \in done
  <2>1. CASE i \in 1..Len(a)
    BY <1>1, <2>1 DEF Quiet
  <2>2. CASE i \notin 1..Len(a)
    <3>1. i - Len(a) \in 1..Len(b) /\ i = Len(a) + (i - Len(a))
      BY <1>1, <2>2
    <3>2. c[i] = b[i - Len(a)]
      BY <1>1, <3>1
    <3> QED BY <3>1, <3>2 DEF Quiet
  <2> QED BY <2>1, <2>2
<1>3. Quiet(c, done)
  BY <1>1, <1>2 DEF Quiet
<1> QED BY <1>3 DEF c

(* The closeout has a row for every process there is a span of. *)
LEMMA FinalRowsAre ==
  ASSUME NEW s, SpansOK(s.spans)
  PROVE  /\ IsSeq(FinalRows(s)) /\ Hangs(FinalRows(s), s.described)
         /\ ToSet(FinalRows(s)) \cap s.described = {}
         /\ \A k, m \in 1..Len(FinalRows(s)) : FinalRows(s)[k] = FinalRows(s)[m] => k = m
         /\ RootRow \in FinalShown(s)
         /\ \A row \in ToSet(FinalRows(s)) :
              /\ row # LifetimesRow /\ row[1] # "thread"
              /\ row[1] = "process" => row[2] \in DOMAIN s.spans /\ row = ProcessRow(row[2])
         /\ \A p \in DOMAIN s.spans : ProcessRow(p) \in FinalShown(s)
<1> DEFINE order == SweepOrder(s.spans)
           needed == FinalNeeded(s)
           rooted == WithRoot(needed, s.described)
<1>1. IsSeq(order) /\ ToSet(order) = DOMAIN s.spans
  BY SweepTakesAll
<1>2. needed = [i \in DOMAIN order |-> ProcessRow(order[i])]
  BY DEF FinalNeeded
<1> HIDE DEF order, needed
<1>3. /\ IsSeq(needed) /\ Hangs(needed, {RootRow})
      /\ \A row : row \in ToSet(needed) <=> \E p \in ToSet(order) : row = ProcessRow(p)
  BY <1>1, <1>2, ProcessRowsHang
<1>4. /\ IsSeq(rooted) /\ Hangs(rooted, s.described)
      /\ ToSet(rooted) = ToSet(needed) \cup ({RootRow} \ s.described)
  BY <1>3, WithRootHangs
<1>5. FinalRows(s) = Fresh(rooted, s.described)
  BY DEF FinalRows, needed
<1> HIDE DEF rooted
<1>6. /\ IsSeq(FinalRows(s)) /\ Hangs(FinalRows(s), s.described)
      /\ ToSet(FinalRows(s)) = ToSet(rooted) \ s.described
      /\ \A k, m \in 1..Len(FinalRows(s)) : FinalRows(s)[k] = FinalRows(s)[m] => k = m
  BY <1>4, <1>5, FreshHangs
<1>7. RootRow \in FinalShown(s)
  BY <1>4, <1>6 DEF FinalShown
<1>8. RootRow # LifetimesRow /\ RootRow[1] = "root"
  BY DEF RootRow, LifetimesRow
<1>9. \A row \in ToSet(FinalRows(s)) :
         /\ row # LifetimesRow /\ row[1] # "thread"
         /\ row[1] = "process" => row[2] \in DOMAIN s.spans /\ row = ProcessRow(row[2])
  <2> SUFFICES ASSUME NEW row \in ToSet(FinalRows(s))
               PROVE  /\ row # LifetimesRow /\ row[1] # "thread"
                      /\ row[1] = "process" => row[2] \in DOMAIN s.spans /\ row = ProcessRow(row[2])
    OBVIOUS
  <2>1. row = RootRow \/ \E p \in DOMAIN s.spans : row = ProcessRow(p)
    BY <1>1, <1>3, <1>4, <1>6
  <2> QED BY <1>8, <2>1, ProcessRowIs
<1>10. \A p \in DOMAIN s.spans : ProcessRow(p) \in FinalShown(s)
  BY <1>1, <1>3, <1>4, <1>6 DEF FinalShown
<1> QED BY <1>6, <1>7, <1>9, <1>10

LEMMA CloseoutFollows ==
  ASSUME NEW s, NEW done, NEW pids, NEW given, Follows(s, done, pids, given),
         LifetimesRow \notin s.described
  PROVE  Follows(Finalize(s), done, pids, given)
<1> DEFINE P == s.packets
           R == FinalRowPackets(s)
           S == SharedRowPackets(s)
           O == OwedPackets(s)
           rows == FinalRows(s)
           more == FinalPids(s)
           after == FinalRanks(s)
           shown == FinalShown(s)
           f == Finalize(s)
           known == s.spans
<1>1. /\ IsSeq(P) /\ Sound(P, done) /\ s.described = done \cup DescribedBy(P)
      /\ Carries(P, s.row_pids, s.ranks)
      /\ Extends(s.row_pids, pids) /\ Extends(s.ranks, given)
      /\ RowsKnown(s.described, s.row_pids, s.ranks) /\ SpansOK(known)
  BY DEF Follows
<1>2. /\ IsSeq(rows) /\ Hangs(rows, s.described) /\ ToSet(rows) \cap s.described = {}
      /\ \A k, m \in 1..Len(rows) : rows[k] = rows[m] => k = m
      /\ RootRow \in shown
      /\ \A row \in ToSet(rows) :
           /\ row # LifetimesRow
           /\ row[1] = "process" => row[2] \in DOMAIN known /\ row = ProcessRow(row[2])
      /\ \A p \in DOMAIN known : ProcessRow(p) \in shown
  BY <1>1, FinalRowsAre
<1>3. shown = s.described \cup ToSet(rows)
  BY DEF FinalShown
<1>4. /\ Numbering(after, 0) /\ Extends(after, s.ranks)
      /\ \A p : p \in DOMAIN after <=> p \in DOMAIN s.ranks \/ p \in DOMAIN known
  <2> DEFINE old == s.ranks
             all == DOMAIN known
  <2>1. after = Ranked(old, all, known) /\ Numbering(old, 0)
    BY <1>1 DEF FinalRanks, RowsKnown
  <2> HIDE DEF old, all, after, known
  <2>2. /\ Numbering(after, 0) /\ Extends(after, old)
        /\ \A p : p \in DOMAIN after <=> p \in DOMAIN old \/ (p \in all /\ p \in DOMAIN known)
    BY <1>1, <2>1, RankedNumbers
  <2> QED BY <2>2 DEF old, all
<1>5. /\ Numbering(more, 1) /\ Extends(more, s.row_pids)
      /\ \A p : p \in DOMAIN more <=> p \in DOMAIN s.row_pids \/ ProcessRow(p) \in ToSet(rows)
  <2> DEFINE old == s.row_pids
  <2>1. more = Numbered(old, rows) /\ Numbering(old, 1)
    BY <1>1 DEF FinalPids, RowsKnown
  <2>2. \A row \in ToSet(rows) : row[1] = "process" => row = ProcessRow(row[2])
    BY <1>2
  <2> HIDE DEF old, rows, more
  <2>3. /\ Numbering(more, 1) /\ Extends(more, old)
        /\ \A p : p \in DOMAIN more <=> p \in DOMAIN old \/ ProcessRow(p) \in ToSet(rows)
    BY <1>2, <2>1, <2>2, NumberedNumbers
  <2> QED BY <2>3 DEF old
<1>6. /\ IsSeq(R) /\ Sound(R, s.described) /\ DescribedBy(R) = ToSet(rows)
  BY <1>2, DescriptorsSound DEF FinalRowPackets
<1>7. Carries(R, more, after)
  <2>1. \A row \in ToSet(rows) : row[1] = "process" =>
          row[2] \in DOMAIN more /\ row[2] \in DOMAIN after
    BY <1>2, <1>4, <1>5
  <2> QED BY <1>2, <2>1, DescriptorsCarry DEF FinalRowPackets
<1>8. /\ IsSeq(S) /\ Sound(S, shown) /\ DescribedBy(S) = {LifetimesRow} /\ Carries(S, more, after)
  <2> DEFINE one == <<LifetimesRow>>
  <2>1. S = Descriptors(one, more, after, known)
    BY DEF SharedRowPackets
  <2>2. IsSeq(one) /\ ToSet(one) = {LifetimesRow} /\ Len(one) = 1 /\ one[1] = LifetimesRow
    BY OneIsSeq
  <2>3. LifetimesRow[1] = "Processes" /\ Needs(LifetimesRow) \subseteq {RootRow}
    BY DEF LifetimesRow, Needs, Parent
  <2>4. Hangs(one, shown)
    BY <1>2, <2>3, HangsOne
  <2>5. ToSet(one) \cap shown = {} /\ \A k, m \in 1..Len(one) : one[k] = one[m] => k = m
    BY <1>2, <1>3, <2>2
  <2>6. \A row \in ToSet(one) : row[1] = "process" =>
          row[2] \in DOMAIN more /\ row[2] \in DOMAIN after
    BY <2>2, <2>3
  <2> HIDE DEF one, more, after, known, shown, S
  <2>7. /\ IsSeq(S) /\ Sound(S, shown) /\ DescribedBy(S) = ToSet(one)
    BY <2>1, <2>2, <2>4, <2>5, DescriptorsSound
  <2>8. Carries(S, more, after)
    BY <2>1, <2>2, <2>6, DescriptorsCarry
  <2> QED BY <2>2, <2>7, <2>8
<1>9. Quiet(O, FinalDone(s))
  <2> DEFINE order == SweepOrder(known)
             n == Len(order)
             parts == [i \in DOMAIN order |-> OwedTo(s, order[i])]
  <2>1. IsSeq(order) /\ ToSet(order) = DOMAIN known
    BY <1>1, SweepTakesAll
  <2>2. n \in Nat /\ DOMAIN order = 1..n /\ \A i \in 1..n : order[i] \in DOMAIN known
    BY <2>1, SeqFacts
  <2>3. DOMAIN parts = 1..n /\ parts = [i \in 1..n |-> parts[i]] /\ \A i \in 1..n : parts[i] = OwedTo(s, order[i])
    BY <2>2
  <2>4. O = FlattenSeq(parts)
    BY DEF OwedPackets
  <2> HIDE DEF parts, order, n, O
  <2>5. IsSeq(parts) /\ Len(parts) = n
    BY <2>2, <2>3, MadeSeq
  <2>6. ASSUME NEW p \in DOMAIN known PROVE Quiet(OwedTo(s, p), FinalDone(s))
    <3>1. LifetimesRow \in FinalDone(s) /\ ProcessRow(p) \in FinalDone(s)
      BY <1>2 DEF FinalDone
    <3> DEFINE span == LifetimeSlice(p, s.spans[p], Clipped(s.spans)[p])
               bar == Bar(p, s.spans, s.totals, FinalDone(s))
    <3>2. Quiet(span, FinalDone(s))
      BY <3>1, PairIsQuiet DEF LifetimeSlice
    <3>3. Quiet(bar, FinalDone(s))
      BY <3>1, PairIsQuiet DEF Bar
    <3>4. Quiet(<<>>, FinalDone(s))
      BY EmptyIsSeq DEF Quiet
    <3>5. OwedTo(s, p) = span \o (IF p \in s.drawn THEN <<>> ELSE bar)
      BY DEF OwedTo, Owed
    <3> HIDE DEF span, bar
    <3>6. Quiet(IF p \in s.drawn THEN <<>> ELSE bar, FinalDone(s))
      BY <3>3, <3>4
    <3> QED BY <3>2, <3>5, <3>6, QuietJoin
  <2>7. \A i \in 1..n : Quiet(parts[i], FinalDone(s))
    BY <2>2, <2>3, <2>6
  <2> QED BY <2>4, <2>5, <2>7, FlattenQuiet
<1>10. f.packets = ((P \o R) \o S) \o O /\ f.described = FinalDone(s) /\ f.row_pids = more
       /\ f.ranks = after /\ f.spans = known
  BY CloseoutIs
<1>0. FinalDone(s) = shown \cup {LifetimesRow}
  BY DEF FinalDone
<1> HIDE DEF rows, more, after, shown, P, R, S, O, f, known
<1>11. Carries(P, more, after)
  BY <1>1, <1>4, <1>5, CarriesOn
<1>12. /\ IsSeq(P \o R) /\ Sound(P \o R, done) /\ DescribedBy(P \o R) = DescribedBy(P) \cup ToSet(rows)
       /\ Carries(P \o R, more, after)
  <2>1. Sound(P \o R, done) /\ DescribedBy(P \o R) = DescribedBy(P) \cup DescribedBy(R)
    BY <1>1, <1>6, JoinSound
  <2> QED BY <1>1, <1>6, <1>7, <1>11, <2>1, ConcatFacts, CarriesJoin
<1>13. done \cup DescribedBy(P \o R) = shown
  BY <1>1, <1>3, <1>12
<1>14. /\ IsSeq((P \o R) \o S) /\ Sound((P \o R) \o S, done)
       /\ DescribedBy((P \o R) \o S) = DescribedBy(P \o R) \cup {LifetimesRow}
       /\ Carries((P \o R) \o S, more, after)
  <2>1. /\ Sound((P \o R) \o S, done)
        /\ DescribedBy((P \o R) \o S) = DescribedBy(P \o R) \cup DescribedBy(S)
    BY <1>8, <1>12, <1>13, JoinSound
  <2> QED BY <1>8, <1>12, <2>1, ConcatFacts, CarriesJoin
<1>15. done \cup DescribedBy((P \o R) \o S) = FinalDone(s)
  BY <1>0, <1>13, <1>14
<1>16. /\ IsSeq(f.packets) /\ Sound(f.packets, done) /\ FinalDone(s) = done \cup DescribedBy(f.packets)
       /\ Carries(f.packets, more, after)
  <2>1. IsSeq(O) /\ Sound(O, FinalDone(s)) /\ DescribedBy(O) = {} /\ Carries(O, more, after)
    BY <1>9, QuietIsSound, QuietCarries DEF Quiet
  <2>2. /\ Sound(((P \o R) \o S) \o O, done)
        /\ DescribedBy(((P \o R) \o S) \o O) = DescribedBy((P \o R) \o S) \cup DescribedBy(O)
    <3> DEFINE Q == (P \o R) \o S
    <3>1. IsSeq(Q) /\ Sound(Q, done) /\ Sound(O, done \cup DescribedBy(Q))
      BY <1>14, <1>15, <2>1
    <3> HIDE DEF Q
    <3>2. Sound(Q \o O, done) /\ DescribedBy(Q \o O) = DescribedBy(Q) \cup DescribedBy(O)
      BY <2>1, <3>1, JoinSound
    <3> QED BY <3>2 DEF Q
  <2> QED BY <1>10, <1>14, <1>15, <2>1, <2>2, ConcatFacts, CarriesJoin
<1>17. Extends(more, pids) /\ Extends(after, given)
  BY <1>1, <1>4, <1>5, ExtendsOn
<1>18. RowsKnown(FinalDone(s), more, after)
  <2>0. LifetimesRow[1] # "process"
    BY DEF LifetimesRow
  <2>1. \A row \in FinalDone(s) : row[1] = "process" => row[2] \in Processes /\ row = ProcessRow(row[2])
    BY <1>0, <1>1, <1>2, <1>3, <2>0 DEF RowsKnown, SpansOK
  <2>2. \A p : ProcessRow(p) \in FinalDone(s) <=> p \in DOMAIN more
    BY <1>0, <1>1, <1>3, <1>5, <2>0, ProcessRowIs DEF RowsKnown
  <2>3. DOMAIN more \subseteq DOMAIN after
    <3> SUFFICES ASSUME NEW p \in DOMAIN more PROVE p \in DOMAIN after
      OBVIOUS
    <3>1. CASE p \in DOMAIN s.row_pids
      BY <1>1, <1>4, <3>1 DEF RowsKnown
    <3>2. CASE ProcessRow(p) \in ToSet(rows)
      <4>1. p \in DOMAIN known
        BY <1>2, <3>2, ProcessRowIs
      <4> QED BY <1>4, <4>1
    <3> QED BY <1>5, <3>1, <3>2
  <2> QED BY <1>4, <1>5, <2>1, <2>2, <2>3 DEF RowsKnown
<1>19. Follows(f, done, pids, given)
  BY <1>1, <1>10, <1>16, <1>17, <1>18 DEF Follows
<1> QED BY <1>19 DEF f

-----------------------------------------------------------------------------
(* The invariant of the file. *)

FileInv ==
  /\ IsSeq(file) /\ Sound(file, {}) /\ described = DescribedBy(file)
  /\ Carries(file, row_pids, ranks) /\ RowsKnown(described, row_pids, ranks)
  /\ SpansOK(spans) /\ IsSeq(retired) /\ EventsOK(buffer) /\ clock \in Int
  /\ LifetimesRow \in described => emitted

LEMMA EmptyNumbering == \A first \in Nat : Numbering(<<>>, first)
<1>1. DOMAIN <<>> = {}
  OBVIOUS
<1> QED BY <1>1, FS_EmptySet DEF Numbering

LEMMA NoEvents == EventsOK(<<>>)
BY EmptyIsSeq DEF EventsOK

LEMMA FileInvInit == Init => FileInv
<1> SUFFICES ASSUME Init PROVE FileInv
  OBVIOUS
<1> USE DEF Init
<1>1. IsSeq(file) /\ IsSeq(retired) /\ EventsOK(buffer)
  BY EmptyIsSeq, NoEvents
<1>2. Sound(file, {}) /\ DescribedBy(file) = {} /\ Carries(file, row_pids, ranks)
  BY DEF Sound, DescribedBy, Carries
<1>3. RowsKnown(described, row_pids, ranks)
  <2>1. Numbering(row_pids, 1) /\ Numbering(ranks, 0)
    BY EmptyNumbering
  <2> QED BY <2>1 DEF RowsKnown
<1>4. SpansOK(spans)
  BY DEF SpansOK
<1> QED BY <1>1, <1>2, <1>3, <1>4 DEF FileInv

(* What follows from the rows of the file may be put behind it. *)
LEMMA FileGoesOn ==
  ASSUME FileInv, NEW s, Follows(s, described, row_pids, ranks), Become(s)
  PROVE  /\ IsSeq(file') /\ Sound(file', {}) /\ described' = DescribedBy(file')
         /\ Carries(file', row_pids', ranks') /\ RowsKnown(described', row_pids', ranks')
         /\ SpansOK(spans')
<1>1. /\ IsSeq(s.packets) /\ Sound(s.packets, described)
      /\ s.described = described \cup DescribedBy(s.packets)
      /\ Carries(s.packets, s.row_pids, s.ranks)
      /\ Extends(s.row_pids, row_pids) /\ Extends(s.ranks, ranks)
      /\ RowsKnown(s.described, s.row_pids, s.ranks) /\ SpansOK(s.spans)
  BY DEF Follows
<1>2. /\ described' = s.described /\ row_pids' = s.row_pids /\ ranks' = s.ranks /\ spans' = s.spans
      /\ file' = file \o s.packets
  BY DEF Become
<1> DEFINE P == s.packets
           pids == s.row_pids
           given == s.ranks
<1>3. IsSeq(file) /\ IsSeq(P) /\ Sound(file, {}) /\ Sound(P, {} \cup DescribedBy(file))
  BY <1>1 DEF FileInv
<1>4. Carries(file, row_pids, ranks) /\ Extends(pids, row_pids) /\ Extends(given, ranks)
      /\ Carries(P, pids, given)
  BY <1>1 DEF FileInv
<1> HIDE DEF P, pids, given
<1>5. /\ Sound(file \o P, {}) /\ DescribedBy(file \o P) = DescribedBy(file) \cup DescribedBy(P)
      /\ IsSeq(file \o P)
  BY <1>3, JoinSound, ConcatFacts
<1>6. Carries(file, pids, given)
  BY <1>4, CarriesOn
<1>7. Carries(file \o P, pids, given)
  BY <1>3, <1>4, <1>6, CarriesJoin
<1> QED BY <1>1, <1>2, <1>5, <1>7 DEF P, pids, given, FileInv

LEMMA UnwrittenFollows ==
  ASSUME FileInv
  PROVE  Follows(Unwritten, described, row_pids, ranks)
<1>1. /\ Unwritten.packets = <<>> /\ Unwritten.described = described /\ Unwritten.row_pids = row_pids
      /\ Unwritten.ranks = ranks /\ Unwritten.spans = spans
  BY DEF Unwritten
<1>2. IsSeq(<<>>) /\ Sound(<<>>, described) /\ DescribedBy(<<>>) = {} /\ Carries(<<>>, row_pids, ranks)
  BY EmptyIsSeq, EmptySound DEF Carries
<1>3. Extends(row_pids, row_pids) /\ Extends(ranks, ranks)
  BY DEF Extends
<1> QED BY <1>1, <1>2, <1>3 DEF Follows, FileInv

LEMMA FileInvFlush == FileInv /\ Flush => FileInv'
<1> SUFFICES ASSUME FileInv, Flush PROVE FileInv'
  OBVIOUS
<1> DEFINE s == WriteEvents(buffer)
<1>1. Become(s) /\ retired' = <<>> /\ buffer' = <<>> /\ emitted' = emitted /\ clock' = clock /\ ~emitted
  BY DEF Flush, caller
<1>2. Follows(s, described, row_pids, ranks)
  BY BatchFollows DEF FileInv
<1>3. LifetimesRow \notin s.described
  BY <1>1, BatchLeavesLifetimes DEF FileInv
<1> HIDE DEF s
<1>4. /\ IsSeq(file') /\ Sound(file', {}) /\ described' = DescribedBy(file')
      /\ Carries(file', row_pids', ranks') /\ RowsKnown(described', row_pids', ranks')
      /\ SpansOK(spans')
  BY <1>1, <1>2, FileGoesOn
<1>5. IsSeq(retired') /\ EventsOK(buffer') /\ clock' \in Int
  BY <1>1, EmptyIsSeq, NoEvents DEF FileInv
<1>6. LifetimesRow \notin described'
  BY <1>1, <1>3 DEF Become
<1> QED BY <1>4, <1>5, <1>6 DEF FileInv

(* The last batch, or that there is none. *)
LastBatch == IF buffer = <<>> THEN Unwritten ELSE WriteEvents(buffer)

LEMMA LastBatchFollows ==
  ASSUME FileInv, ~emitted
  PROVE  Follows(LastBatch, described, row_pids, ranks) /\ LifetimesRow \notin LastBatch.described
<1>1. Follows(WriteEvents(buffer), described, row_pids, ranks)
      /\ LifetimesRow \notin WriteEvents(buffer).described
  BY BatchFollows, BatchLeavesLifetimes DEF FileInv
<1>2. Follows(Unwritten, described, row_pids, ranks) /\ LifetimesRow \notin Unwritten.described
  BY UnwrittenFollows DEF FileInv, Unwritten
<1> QED BY <1>1, <1>2 DEF LastBatch

LEMMA FileInvClose == FileInv /\ Close => FileInv'
<1> SUFFICES ASSUME FileInv, Close PROVE FileInv'
  OBVIOUS
<1>1. /\ ~emitted /\ Become(Finalize(LastBatch)) /\ emitted' = TRUE
      /\ retired' = (IF buffer = <<>> THEN retired ELSE <<>>) /\ buffer' = <<>> /\ clock' = clock
  BY DEF Close, LastBatch, caller
<1>2. Follows(Finalize(LastBatch), described, row_pids, ranks)
  BY <1>1, LastBatchFollows, CloseoutFollows
<1>3. /\ IsSeq(file') /\ Sound(file', {}) /\ described' = DescribedBy(file')
      /\ Carries(file', row_pids', ranks') /\ RowsKnown(described', row_pids', ranks')
      /\ SpansOK(spans')
  BY <1>1, <1>2, FileGoesOn
<1>4. IsSeq(retired') /\ EventsOK(buffer') /\ clock' \in Int
  BY <1>1, EmptyIsSeq, NoEvents DEF FileInv
<1> QED BY <1>1, <1>3, <1>4 DEF FileInv

(* The run's own steps hand over events, and leave the file alone. *)
LEMMA FileInvHand ==
  ASSUME FileInv, NEW events, EventsOK(events), Hand(events)
  PROVE  FileInv'
<1>1. /\ buffer' = buffer \o events
      /\ UNCHANGED <<described, row_pids, spans, ranks, emitted, retired, file, clock>>
  BY DEF Hand, state
<1>2. EventsOK(buffer')
  BY <1>1, EventsJoin DEF FileInv
<1> QED BY <1>1, <1>2 DEF FileInv

LEMMA LivenessWidens ==
  ASSUME SpansOK(spans), clock \in Int, NEW live \in SUBSET Monitored
  PROVE  LET known == Widen(spans, [p \in live |-> {clock}])
         IN  /\ SpansOK(known) /\ DOMAIN known = DOMAIN spans \cup live
             /\ \A p \in DOMAIN spans : known[p].start <= spans[p].start /\ spans[p].stop <= known[p].stop
<1> DEFINE seen == [p \in live |-> {clock}]
<1>1. DOMAIN seen = live /\ live \subseteq Processes
  BY ProcessesAssumption
<1>2. \A p \in DOMAIN seen : IsFiniteSet(seen[p]) /\ seen[p] \subseteq Int /\ seen[p] # {}
  BY FS_Singleton
<1> HIDE DEF seen
<1>3. /\ SpansOK(Widen(spans, seen))
      /\ DOMAIN Widen(spans, seen) = DOMAIN spans \cup {p \in DOMAIN seen : seen[p] # {}}
      /\ \A p \in DOMAIN spans : /\ Widen(spans, seen)[p].start <= spans[p].start
                                 /\ spans[p].stop <= Widen(spans, seen)[p].stop
  BY <1>1, <1>2, WidenSpans
<1>4. DOMAIN Widen(spans, seen) = DOMAIN spans \cup live
  BY <1>1, <1>2, <1>3
<1> QED BY <1>3, <1>4 DEF seen

LEMMA FileInvStep == FileInv /\ [Next]_vars => FileInv'
<1> SUFFICES ASSUME FileInv, [Next]_vars PROVE FileInv'
  OBVIOUS
<1>1. ASSUME NEW p \in Monitored, NEW item \in Collections \cup Losses, AddItem(p, item) PROVE FileInv'
  <2>1. EventsOK(Convert(p, item))
    BY ItemsAreOK, ConvertsToEvents, ProcessesAssumption
  <2> QED BY <1>1, <2>1, FileInvHand DEF AddItem
<1>2. ASSUME NEW p \in Monitored, AddRss(p) PROVE FileInv'
  <2>1. EventsOK(<<Counter(ProcessRow(p), <<"rss">>, clock)>>)
    BY OtherEvents, ProcessesAssumption DEF FileInv
  <2> QED BY <1>2, <2>1, FileInvHand DEF AddRss
<1>3. ASSUME NEW p \in Monitored, NEW ts \in 0..MaxTime, AddInstant(p, ts) PROVE FileInv'
  <2>0. ts \in Int /\ p \in Processes
    BY ProcessesAssumption
  <2>1. EventsOK(<<Instant(p, ts)>>)
    BY <2>0, OtherEvents
  <2> QED BY <1>3, <2>1, FileInvHand DEF AddInstant
<1>4. ASSUME NEW live \in SUBSET Monitored, ReportLiveness(live) PROVE FileInv'
  <2>1. /\ spans' = Widen(spans, [p \in live |-> {clock}])
        /\ UNCHANGED <<described, row_pids, ranks, emitted, retired, file, buffer, clock>>
    BY <1>4 DEF ReportLiveness, caller
  <2>2. SpansOK(spans')
    BY <2>1, LivenessWidens DEF FileInv
  <2> QED BY <2>1, <2>2 DEF FileInv
<1>5. ASSUME NEW p \in Monitored, Retire(p) PROVE FileInv'
  <2>1. /\ retired' = Append(retired, p)
        /\ UNCHANGED <<described, row_pids, spans, ranks, emitted, file, buffer, clock>>
    BY <1>5 DEF Retire, state
  <2>2. IsSeq(Append(retired, p))
    BY AppendFacts DEF FileInv
  <2> QED BY <2>1, <2>2 DEF FileInv
<1>6. ASSUME NEW files \in Captures, NEW normalize \in BOOLEAN, Combine(files, normalize) PROVE FileInv'
  <2>1. /\ buffer' = CombineToEvents(files, normalize)
        /\ UNCHANGED <<described, row_pids, spans, ranks, emitted, retired, file, clock>>
    BY <1>6 DEF Combine, state
  <2> QED BY <2>1, CapturesConvert DEF FileInv
<1>7. CASE Tick
  BY <1>7 DEF Tick, FileInv, state
<1>8. CASE Flush
  BY <1>8, FileInvFlush
<1>9. CASE Close
  BY <1>9, FileInvClose
<1>10. CASE UNCHANGED vars
  BY <1>10 DEF vars, state, caller, FileInv
<1> QED BY <1>1, <1>2, <1>3, <1>4, <1>5, <1>6, <1>7, <1>8, <1>9, <1>10 DEF Next

THEOREM FileIsWellFormed == Spec => []FileInv
BY FileInvInit, FileInvStep, PTL DEF Spec

(* The numbers of process rows are nobody else's, and what stands in the file is in order. *)
LEMMA FileInvDescribes == FileInv => DescribedFirst
<1> SUFFICES ASSUME FileInv PROVE DescribedFirst
  OBVIOUS
<1>1. Len(file) \in Nat /\ DOMAIN file = 1..Len(file)
  BY SeqFacts DEF FileInv
<1>2. ASSUME NEW i \in DOMAIN file
      PROVE  {file[j].row : j \in {k \in Packets("descriptor") : k < i}} = Before(file, i)
  BY <1>1 DEF Packets, Before
<1>3. ASSUME NEW i \in DOMAIN file
      PROVE  LET before == {file[j].row : j \in {k \in Packets("descriptor") : k < i}}
             IN  IF file[i].type = "descriptor"
                 THEN /\ file[i].parent \subseteq before
                      /\ file[i].row = RootRow \/ RootRow \in before
                      /\ file[i].row \notin before
                 ELSE file[i].row \in before
  <2>1. IF file[i].type = "descriptor"
        THEN /\ file[i].parent = Parent(file[i].row)
             /\ Needs(file[i].row) \subseteq {} \cup Before(file, i)
             /\ file[i].row \notin {} \cup Before(file, i)
        ELSE file[i].row \in {} \cup Before(file, i)
    BY <1>1 DEF FileInv, Sound
  <2> QED BY <1>2, <2>1 DEF Needs
<1>4. ASSUME NEW i \in DescriptorsOf("process"), NEW j \in DescriptorsOf("process"), i # j
      PROVE  file[i].pid # file[j].pid /\ file[i].rank # file[j].rank
  <2>1. /\ i \in 1..Len(file) /\ file[i].type = "descriptor" /\ file[i].row[1] = "process"
        /\ j \in 1..Len(file) /\ file[j].type = "descriptor" /\ file[j].row[1] = "process"
    BY <1>1 DEF DescriptorsOf, Packets
  <2> DEFINE p == file[i].row[2]
             q == file[j].row[2]
  <2>2. /\ p \in DOMAIN row_pids /\ p \in DOMAIN ranks /\ file[i].pid = row_pids[p] /\ file[i].rank = ranks[p]
        /\ q \in DOMAIN row_pids /\ q \in DOMAIN ranks /\ file[j].pid = row_pids[q] /\ file[j].rank = ranks[q]
    BY <2>1 DEF FileInv, Carries
  <2>3. file[i].row \in described /\ file[j].row \in described
    BY <2>1 DEF FileInv, DescribedBy
  <2>4. file[i].row = ProcessRow(p) /\ file[j].row = ProcessRow(q)
    BY <2>1, <2>3 DEF FileInv, RowsKnown
  <2>5. file[i].row # file[j].row
    <3>1. \A k \in 1..Len(file) : file[k].type = "descriptor" => file[k].row \notin Before(file, k)
      BY DEF FileInv, Sound
    <3>2. i < j => file[i].row \in Before(file, j)
      BY <2>1 DEF Before
    <3>3. j < i => file[j].row \in Before(file, i)
      BY <2>1 DEF Before
    <3>4. i < j \/ j < i
      BY <1>1, <1>4, <2>1
    <3> QED BY <2>1, <3>1, <3>2, <3>3, <3>4
  <2>6. p # q
    BY <2>4, <2>5
  <2> QED BY <2>2, <2>6 DEF FileInv, RowsKnown, Numbering
<1> QED BY <1>3, <1>4 DEF DescribedFirst

(***************************************************************************)
(* Wherever a run is killed, and however the batches fall, no packet of    *)
(* the file names a row that is not described ahead of it, no row is       *)
(* described twice, and no two processes share a row's pid or a rank.      *)
(***************************************************************************)
THEOREM RowsAreDescribedFirst == Spec => []DescribedFirst
BY FileIsWellFormed, FileInvDescribes, PTL

-----------------------------------------------------------------------------
(* The bars of a file: each drawn once, for whom it should. *)

IsBar(packet) == packet.type = "begin" /\ packet.row[1] \in {"process", "Processes"}
IsRead(packet) == packet.type = "begin" /\ packet.row[1] \in {"thread", "loss"}
MarkOf(packet) == <<packet.row, packet.name>>

BarOf(p) == <<ProcessRow(p), "Lifetime">>
SpanOf(p) == <<LifetimesRow, p>>

(* The bars that seq draws are these, each once; it has reads of the readers alone. *)
Draws(seq, bars, readers) ==
  /\ IsSeq(seq)
  /\ \A bar \in bars : \E i \in 1..Len(seq) : IsBar(seq[i]) /\ MarkOf(seq[i]) = bar
  /\ \A i \in 1..Len(seq) : /\ IsBar(seq[i]) => MarkOf(seq[i]) \in bars
                            /\ IsRead(seq[i]) => seq[i].row[2] \in readers
  /\ \A i, j \in 1..Len(seq) :
       IsBar(seq[i]) /\ IsBar(seq[j]) /\ MarkOf(seq[i]) = MarkOf(seq[j]) => i = j

LEMMA DrawsNothing == \A readers : Draws(<<>>, {}, readers)
BY EmptyIsSeq DEF Draws

LEMMA DrawsJoin ==
  ASSUME NEW a, NEW b, NEW A, NEW B, NEW readers,
         Draws(a, A, readers), Draws(b, B, readers), A \cap B = {}
  PROVE  Draws(a \o b, A \cup B, readers)
<1> DEFINE c == a \o b
<1>1. /\ IsSeq(c) /\ Len(a) \in Nat /\ Len(b) \in Nat /\ Len(c) = Len(a) + Len(b)
      /\ \A i \in 1..Len(a) : c[i] = a[i]
      /\ \A i \in 1..Len(b) : c[Len(a) + i] = b[i]
  BY SeqFacts, ConcatFacts DEF Draws
<1> HIDE DEF c
<1>2. ASSUME NEW i \in 1..Len(c), i \notin 1..Len(a)
      PROVE  i - Len(a) \in 1..Len(b) /\ i = Len(a) + (i - Len(a)) /\ c[i] = b[i - Len(a)]
  <2>1. i - Len(a) \in 1..Len(b) /\ i = Len(a) + (i - Len(a))
    BY <1>1, <1>2
  <2> QED BY <1>1, <2>1
<1>3. \A i \in 1..Len(a) : i \in 1..Len(c)
  BY <1>1
<1>4. \A i \in 1..Len(b) : Len(a) + i \in 1..Len(c)
  BY <1>1
<1>5. ASSUME NEW bar \in A \cup B
      PROVE  \E i \in 1..Len(c) : IsBar(c[i]) /\ MarkOf(c[i]) = bar
  <2>1. CASE bar \in A
    BY <1>1, <1>3, <2>1 DEF Draws
  <2>2. CASE bar \in B
    <3>1. PICK i \in 1..Len(b) : IsBar(b[i]) /\ MarkOf(b[i]) = bar
      BY <2>2 DEF Draws
    <3> QED BY <1>1, <1>4, <3>1
  <2> QED BY <2>1, <2>2
<1>6. ASSUME NEW i \in 1..Len(c)
      PROVE  /\ IsBar(c[i]) => MarkOf(c[i]) \in A \cup B
             /\ IsRead(c[i]) => c[i].row[2] \in readers
             /\ IsBar(c[i]) => (i \in 1..Len(a) <=> MarkOf(c[i]) \in A)
  <2>1. CASE i \in 1..Len(a)
    BY <1>1, <2>1 DEF Draws
  <2>2. CASE i \notin 1..Len(a)
    BY <1>2, <2>2 DEF Draws
  <2> QED BY <2>1, <2>2
<1>7. ASSUME NEW i \in 1..Len(c), NEW j \in 1..Len(c),
             IsBar(c[i]), IsBar(c[j]), MarkOf(c[i]) = MarkOf(c[j])
      PROVE  i = j
  <2>1. i \in 1..Len(a) <=> j \in 1..Len(a)
    BY <1>6, <1>7
  <2>2. CASE i \in 1..Len(a) /\ j \in 1..Len(a)
    BY <1>1, <1>7, <2>2 DEF Draws
  <2>3. CASE i \notin 1..Len(a) /\ j \notin 1..Len(a)
    <3>1. i - Len(a) = j - Len(a)
      BY <1>2, <1>7, <2>3 DEF Draws
    <3> QED BY <1>2, <2>3, <3>1
  <2> QED BY <2>1, <2>2, <2>3
<1>8. Draws(c, A \cup B, readers)
  BY <1>1, <1>5, <1>6, <1>7 DEF Draws
<1> QED BY <1>8 DEF c

LEMMA DrawsFlatten ==
  ASSUME NEW parts, NEW bars, NEW all, NEW readers, IsSeq(parts),
         \A i \in 1..Len(parts) : Draws(parts[i], bars[i], readers),
         \A i, j \in 1..Len(parts) : i # j => bars[i] \cap bars[j] = {},
         \A bar : bar \in all <=> \E i \in 1..Len(parts) : bar \in bars[i]
  PROVE  Draws(FlattenSeq(parts), all, readers)
<1> DEFINE flat == FlattenSeq(parts)
<1>0. \A i \in 1..Len(parts) : IsSeq(parts[i])
  BY DEF Draws
<1>h. PICK start \in [1..Len(parts) -> Nat] : Placed(start, parts, flat)
  BY <1>0, FlattenPlaced
<1> HIDE DEF flat
<1>1. /\ IsSeq(flat)
      /\ \A i \in 1..Len(parts) : \A m \in 1..Len(parts[i]) :
           start[i] + m \in 1..Len(flat) /\ flat[start[i] + m] = parts[i][m]
      /\ \A k \in 1..Len(flat) :
           \E i \in 1..Len(parts) : \E m \in 1..Len(parts[i]) :
             k = start[i] + m /\ flat[k] = parts[i][m]
  BY <1>h DEF Placed
<1>2. \A k \in 1..Len(flat) :
        \E i \in 1..Len(parts) : \E m \in 1..Len(parts[i]) :
          k = start[i] + m /\ flat[k] = parts[i][m]
  BY <1>1
<1>3. ASSUME NEW bar \in all
      PROVE  \E k \in 1..Len(flat) : IsBar(flat[k]) /\ MarkOf(flat[k]) = bar
  <2>1. PICK i \in 1..Len(parts) : bar \in bars[i]
    OBVIOUS
  <2>2. PICK m \in 1..Len(parts[i]) : IsBar(parts[i][m]) /\ MarkOf(parts[i][m]) = bar
    BY <2>1 DEF Draws
  <2>3. start[i] + m \in 1..Len(flat) /\ flat[start[i] + m] = parts[i][m]
    BY <1>1
  <2> QED BY <2>2, <2>3
<1>4. ASSUME NEW k \in 1..Len(flat)
      PROVE  /\ IsBar(flat[k]) => MarkOf(flat[k]) \in all
             /\ IsRead(flat[k]) => flat[k].row[2] \in readers
  <2>1. PICK i \in 1..Len(parts) : \E m \in 1..Len(parts[i]) :
               k = start[i] + m /\ flat[k] = parts[i][m]
    BY <1>2
  <2>2. PICK m \in 1..Len(parts[i]) : k = start[i] + m /\ flat[k] = parts[i][m]
    BY <2>1
  <2> QED BY <2>2 DEF Draws
<1>5. ASSUME NEW k \in 1..Len(flat), NEW l \in 1..Len(flat),
             IsBar(flat[k]), IsBar(flat[l]), MarkOf(flat[k]) = MarkOf(flat[l])
      PROVE  k = l
  <2>1. PICK i \in 1..Len(parts) : \E m \in 1..Len(parts[i]) :
               k = start[i] + m /\ flat[k] = parts[i][m]
    BY <1>2
  <2>2. PICK m \in 1..Len(parts[i]) : k = start[i] + m /\ flat[k] = parts[i][m]
    BY <2>1
  <2>3. PICK j \in 1..Len(parts) : \E n \in 1..Len(parts[j]) :
               l = start[j] + n /\ flat[l] = parts[j][n]
    BY <1>2
  <2>4. PICK n \in 1..Len(parts[j]) : l = start[j] + n /\ flat[l] = parts[j][n]
    BY <2>3
  <2>5. MarkOf(flat[k]) \in bars[i] /\ MarkOf(flat[l]) \in bars[j]
    BY <1>5, <2>2, <2>4 DEF Draws
  <2>6. i = j
    BY <1>5, <2>5
  <2>7. m = n
    <3>1. /\ n \in 1..Len(parts[i]) /\ flat[k] = parts[i][m] /\ flat[l] = parts[i][n]
      BY <2>2, <2>4, <2>6
    <3>2. \A m1, n1 \in 1..Len(parts[i]) :
            /\ IsBar(parts[i][m1]) /\ IsBar(parts[i][n1])
            /\ MarkOf(parts[i][m1]) = MarkOf(parts[i][n1])
            => m1 = n1
      BY DEF Draws
    <3> QED BY <1>5, <3>1, <3>2
  <2> QED BY <2>2, <2>4, <2>6, <2>7
<1>6. Draws(flat, all, readers)
  BY <1>1, <1>3, <1>4, <1>5 DEF Draws
<1> QED BY <1>6 DEF flat

(* Descriptors draw nothing. *)
LEMMA DescriptorsDraw ==
  ASSUME NEW rows, IsSeq(rows), NEW pids, NEW given, NEW known, NEW readers
  PROVE  Draws(Descriptors(rows, pids, given, known), {}, readers)
<1> DEFINE s == Descriptors(rows, pids, given, known)
<1>1. Len(rows) \in Nat /\ DOMAIN rows = 1..Len(rows)
  BY SeqFacts
<1>2. /\ DOMAIN s = 1..Len(rows) /\ s = [i \in 1..Len(rows) |-> s[i]]
      /\ \A i \in 1..Len(rows) : s[i].type = "descriptor"
  BY <1>1 DEF Descriptors, Descriptor
<1> HIDE DEF s
<1>3. IsSeq(s) /\ Len(s) = Len(rows)
  BY <1>1, <1>2, MadeSeq
<1>4. \A i \in 1..Len(s) : ~IsBar(s[i]) /\ ~IsRead(s[i])
  BY <1>2, <1>3 DEF IsBar, IsRead
<1>5. Draws(s, {}, readers)
  BY <1>3, <1>4 DEF Draws
<1> QED BY <1>5 DEF s

LEMMA PairDraws ==
  ASSUME NEW row, NEW name, NEW endName, NEW ts, NEW stop, NEW args, NEW readers,
         row[1] \in {"thread", "loss"} => row[2] \in readers
  PROVE  Draws(Pair(row, name, endName, ts, stop, args),
               IF row[1] \in {"process", "Processes"} THEN {<<row, name>>} ELSE {}, readers)
<1> DEFINE one == [type |-> "begin", row |-> row, name |-> name, ts |-> ts, stop |-> stop, args |-> args]
           two == [type |-> "end", row |-> row, name |-> endName, ts |-> stop]
           s == <<one, two>>
<1>1. Pair(row, name, endName, ts, stop, args) = s
  BY DEF Pair
<1>2. one.type = "begin" /\ one.row = row /\ one.name = name /\ two.type = "end"
  OBVIOUS
<1> HIDE DEF one, two
<1>3. IsSeq(s) /\ Len(s) = 2 /\ s[1] = one /\ s[2] = two
  BY DEF IsSeq, ToSet
<1> HIDE DEF s
<1>4. ~IsBar(s[2]) /\ ~IsRead(s[2]) /\ MarkOf(s[1]) = <<row, name>>
      /\ (IsBar(s[1]) <=> row[1] \in {"process", "Processes"})
      /\ (IsRead(s[1]) <=> row[1] \in {"thread", "loss"}) /\ s[1].row = row
  BY <1>2, <1>3 DEF IsBar, IsRead, MarkOf
<1>5. \A i \in 1..Len(s) : i = 1 \/ i = 2
  BY <1>3
<1>6. 1 \in 1..Len(s)
  BY <1>3
<1> QED BY <1>1, <1>3, <1>4, <1>5, <1>6 DEF Draws

LEMMA EventDraws ==
  ASSUME NEW event, EventOK(event), NEW readers, Owner(event) \in readers
  PROVE  Draws(PacketsOf(event), {}, readers)
<1>1. CASE event.type = "slice"
  <2>1. event.row[1] \in {"thread", "loss"} /\ event.row[2] \in readers
    BY <1>1 DEF EventOK, Owner
  <2>2. PacketsOf(event) = Pair(event.row, event.name, {}, event.ts, event.stop,
                                [lost |-> event.lost, pause |-> event.pause])
    BY <1>1 DEF PacketsOf
  <2> QED BY <2>1, <2>2, PairDraws
<1>2. ASSUME NEW packet, packet.type # "begin" PROVE Draws(<<packet>>, {}, readers)
  <2>1. IsSeq(<<packet>>) /\ Len(<<packet>>) = 1 /\ <<packet>>[1] = packet
    BY OneIsSeq
  <2> QED BY <1>2, <2>1 DEF Draws, IsBar, IsRead
<1>3. CASE event.type = "instant"
  BY <1>2, <1>3 DEF PacketsOf
<1>4. CASE event.type = "counter"
  <2> DEFINE packet == [type |-> "value", row |-> CounterRow(event.row, event.display), ts |-> event.ts]
  <2>1. PacketsOf(event) = <<packet>> /\ packet.type = "value"
    BY <1>4 DEF PacketsOf
  <2> HIDE DEF packet
  <2> QED BY <1>2, <2>1
<1> QED BY <1>1, <1>3, <1>4 DEF EventOK

(* A bar of the process, and nothing else. *)
LEMMA BarDraws ==
  ASSUME NEW p, NEW known, NEW sum, NEW done, NEW readers
  PROVE  Draws(Bar(p, known, sum, done), {BarOf(p)}, readers)
<1>1. ProcessRow(p)[1] = "process"
  BY ProcessRowIs
<1> QED BY <1>1, PairDraws DEF Bar, BarOf

LEMMA SpanDraws ==
  ASSUME NEW p, NEW span, NEW stop, NEW readers
  PROVE  Draws(LifetimeSlice(p, span, stop), {SpanOf(p)}, readers)
<1>1. LifetimesRow[1] = "Processes"
  BY DEF LifetimesRow
<1> QED BY <1>1, PairDraws DEF LifetimeSlice, SpanOf

LEMMA BarsDiffer ==
  ASSUME NEW p, NEW q
  PROVE  /\ BarOf(p) # SpanOf(q)
         /\ BarOf(p) = BarOf(q) => p = q
         /\ SpanOf(p) = SpanOf(q) => p = q
<1>1. /\ ProcessRow(p) # LifetimesRow
      /\ ProcessRow(p) = ProcessRow(q) => p = q
  BY ProcessRowIs
<1> QED BY <1>1 DEF BarOf, SpanOf

(* A batch draws the bars of those that left, and has reads of its own events alone. *)
LEMMA BatchDraws ==
  ASSUME IsSeq(retired), NEW events, EventsOK(events)
  PROVE  Draws(WriteEvents(events).packets, {BarOf(p) : p \in ToSet(Left(events))}, Owners(events))
<1> DEFINE readers == Owners(events)
           left == Left(events)
           n == Len(events)
<1>1. Draws(RowPackets(events), {}, readers)
  BY NewRowsAre, DescriptorsDraw DEF RowPackets
<1>2. Draws(EventPackets(events), {}, readers)
  <2> DEFINE parts == [i \in DOMAIN events |-> PacketsOf(events[i])]
             none == [i \in DOMAIN events |-> {}]
  <2>1. n \in Nat /\ DOMAIN events = 1..n /\ \A i \in 1..n : EventOK(events[i])
    BY SeqFacts DEF EventsOK
  <2>2. /\ DOMAIN parts = 1..n /\ parts = [i \in 1..n |-> parts[i]]
        /\ \A i \in 1..n : parts[i] = PacketsOf(events[i]) /\ none[i] = {} /\ Owner(events[i]) \in readers
    BY <2>1 DEF Owners
  <2>3. EventPackets(events) = FlattenSeq(parts)
    BY DEF EventPackets
  <2> HIDE DEF parts, none, n, readers
  <2>4. IsSeq(parts) /\ Len(parts) = n
    BY <2>1, <2>2, MadeSeq
  <2>5. \A i \in 1..Len(parts) : Draws(parts[i], none[i], readers)
    <3> SUFFICES ASSUME NEW i \in 1..n PROVE Draws(parts[i], none[i], readers)
      BY <2>4
    <3>1. /\ EventOK(events[i]) /\ Owner(events[i]) \in readers
          /\ parts[i] = PacketsOf(events[i]) /\ none[i] = {}
      BY <2>1, <2>2
    <3>2. Draws(PacketsOf(events[i]), {}, readers)
      BY <3>1, EventDraws
    <3> QED BY <3>1, <3>2
  <2>6. \A i, j \in 1..Len(parts) : i # j => none[i] \cap none[j] = {}
    BY <2>2, <2>4
  <2>7. \A bar : bar \in {} <=> \E i \in 1..Len(parts) : bar \in none[i]
    BY <2>2, <2>4
  <2>8. Draws(FlattenSeq(parts), {}, readers)
    BY <2>4, <2>5, <2>6, <2>7, DrawsFlatten
  <2> QED BY <2>3, <2>8
<1>3. Draws(LeftPackets(events), {BarOf(p) : p \in ToSet(left)}, readers)
  <2> DEFINE own(p) == OwnRow(events, p)
             bar(p) == OwnBar(events, p)
             parts == [i \in DOMAIN left |-> own(left[i]) \o bar(left[i])]
             bars == [i \in DOMAIN left |-> {BarOf(left[i])}]
             all == {BarOf(p) : p \in ToSet(left)}
  <2>1. /\ IsSeq(left) /\ \A k, m \in 1..Len(left) : left[k] = left[m] => k = m
        /\ Len(left) \in Nat /\ DOMAIN left = 1..Len(left)
    BY LeftIs, SeqFacts
  <2>2. LeftPackets(events) = FlattenSeq(parts)
    BY DEF LeftPackets
  <2> HIDE DEF left, readers
  <2>3. ASSUME NEW p PROVE Draws(own(p) \o bar(p), {BarOf(p)}, readers)
    <3>1. Draws(own(p), {}, readers)
      <4>1. IsSeq(<<ProcessRow(p)>>)
        BY OneIsSeq
      <4>2. Draws(Descriptors(<<ProcessRow(p)>>, Pids(events), After(events), Known(events)), {}, readers)
        BY <4>1, DescriptorsDraw
      <4> QED BY <4>2, DrawsNothing DEF OwnRow
    <3>2. Draws(bar(p), {BarOf(p)}, readers)
      BY BarDraws DEF OwnBar
    <3> HIDE DEF own, bar
    <3>3. {} \cap {BarOf(p)} = {} /\ {} \cup {BarOf(p)} = {BarOf(p)}
      OBVIOUS
    <3>4. Draws(own(p) \o bar(p), {} \cup {BarOf(p)}, readers)
      BY <3>1, <3>2, <3>3, DrawsJoin
    <3> QED BY <3>3, <3>4
  <2>4. /\ DOMAIN parts = 1..Len(left) /\ parts = [i \in 1..Len(left) |-> parts[i]]
        /\ \A i \in 1..Len(left) : parts[i] = own(left[i]) \o bar(left[i]) /\ bars[i] = {BarOf(left[i])}
    BY <2>1
  <2>5. \A e : e \in all <=> \E i \in 1..Len(left) : e \in {BarOf(left[i])}
    BY <2>1 DEF ToSet
  <2> HIDE DEF own, bar, parts, bars, all
  <2>6. IsSeq(parts) /\ Len(parts) = Len(left)
    BY <2>1, <2>4, MadeSeq
  <2>7. \A i \in 1..Len(parts) : Draws(parts[i], bars[i], readers)
    BY <2>3, <2>4, <2>6
  <2>8. \A i, j \in 1..Len(parts) : i # j => bars[i] \cap bars[j] = {}
    <3> SUFFICES ASSUME NEW i \in 1..Len(left), NEW j \in 1..Len(left), i # j
                 PROVE  bars[i] \cap bars[j] = {}
      BY <2>6
    <3>1. left[i] # left[j]
      BY <2>1
    <3>2. BarOf(left[i]) # BarOf(left[j])
      BY <3>1, BarsDiffer
    <3> QED BY <2>4, <3>2
  <2>9. \A e : e \in all <=> \E i \in 1..Len(parts) : e \in bars[i]
    BY <2>4, <2>5, <2>6
  <2>10. Draws(FlattenSeq(parts), all, readers)
    BY <2>6, <2>7, <2>8, <2>9, DrawsFlatten
  <2> QED BY <2>2, <2>10 DEF all
<1> DEFINE R == RowPackets(events)
           E == EventPackets(events)
           L == LeftPackets(events)
           all == {BarOf(p) : p \in ToSet(left)}
<1>4. WriteEvents(events).packets = (R \o E) \o L
  BY BatchIs
<1> HIDE DEF R, E, L, all, readers
<1>5. {} \cup {} = {} /\ {} \cap {} = {} /\ {} \cap all = {} /\ {} \cup all = all
  OBVIOUS
<1>6. Draws(R \o E, {}, readers)
  <2>1. Draws(R \o E, {} \cup {}, readers)
    BY <1>1, <1>2, <1>5, DrawsJoin DEF R, E
  <2> QED BY <1>5, <2>1
<1>7. Draws((R \o E) \o L, all, readers)
  <2> DEFINE Q == R \o E
  <2>1. Draws(Q, {}, readers) /\ Draws(L, all, readers)
    BY <1>3, <1>6 DEF L, all
  <2> HIDE DEF Q
  <2>2. Draws(Q \o L, {} \cup all, readers)
    BY <1>5, <2>1, DrawsJoin
  <2> QED BY <1>5, <2>2 DEF Q
<1> QED BY <1>4, <1>7 DEF all, readers

(* The closeout draws the bars that are not out, and every span. *)
LEMMA CloseoutDraws ==
  ASSUME NEW s, NEW bars, NEW readers, SpansOK(s.spans), Draws(s.packets, bars, readers),
         \A bar \in bars : \E p \in s.drawn : bar = BarOf(p)
  PROVE  Draws(Finalize(s).packets,
               bars \cup ({BarOf(p) : p \in DOMAIN s.spans \ s.drawn}
                            \cup {SpanOf(p) : p \in DOMAIN s.spans}), readers)
<1> DEFINE order == SweepOrder(s.spans)
           n == Len(order)
           rest == {BarOf(p) : p \in DOMAIN s.spans \ s.drawn} \cup {SpanOf(p) : p \in DOMAIN s.spans}
           parts == [i \in DOMAIN order |-> OwedTo(s, order[i])]
           owed == [i \in DOMAIN order |->
                      {SpanOf(order[i])} \cup (IF order[i] \in s.drawn THEN {} ELSE {BarOf(order[i])})]
           F == FinalRowPackets(s)
           S == SharedRowPackets(s)
           O == OwedPackets(s)
           P == s.packets
<1>1. Draws(F, {}, readers)
  BY FinalRowsAre, DescriptorsDraw DEF FinalRowPackets
<1>2. Draws(S, {}, readers)
  BY OneIsSeq, DescriptorsDraw DEF SharedRowPackets
<1>3. /\ IsSeq(order) /\ ToSet(order) = DOMAIN s.spans
      /\ \A i, j \in 1..n : order[i] = order[j] => i = j
  BY SweepTakesAll
<1>4. n \in Nat /\ DOMAIN order = 1..n
  BY <1>3, SeqFacts
<1>5. O = FlattenSeq(parts)
  BY DEF OwedPackets
<1>6. ASSUME NEW p
      PROVE  Draws(OwedTo(s, p), {SpanOf(p)} \cup (IF p \in s.drawn THEN {} ELSE {BarOf(p)}), readers)
  <2> DEFINE span == LifetimeSlice(p, s.spans[p], Clipped(s.spans)[p])
             bar == Bar(p, s.spans, s.totals, FinalDone(s))
             more == IF p \in s.drawn THEN <<>> ELSE bar
             A == {SpanOf(p)}
             B == IF p \in s.drawn THEN {} ELSE {BarOf(p)}
  <2>1. Draws(span, A, readers)
    BY SpanDraws
  <2>2. Draws(bar, {BarOf(p)}, readers)
    BY BarDraws
  <2>3. OwedTo(s, p) = span \o more
    BY DEF OwedTo, Owed
  <2>4. A \cap B = {}
    BY BarsDiffer
  <2> HIDE DEF span, bar, A
  <2>5. Draws(more, B, readers)
    BY <2>2, DrawsNothing
  <2> HIDE DEF more, B
  <2>6. Draws(span \o more, A \cup B, readers)
    BY <2>1, <2>4, <2>5, DrawsJoin
  <2> QED BY <2>3, <2>6 DEF A, B
<1>7. /\ DOMAIN parts = 1..n /\ parts = [i \in 1..n |-> parts[i]]
      /\ \A i \in 1..n : parts[i] = OwedTo(s, order[i])
      /\ \A i \in 1..n : owed[i] = {SpanOf(order[i])} \cup (IF order[i] \in s.drawn THEN {} ELSE {BarOf(order[i])})
  BY <1>4
<1>8. \A bar : bar \in rest <=>
        \E p \in DOMAIN s.spans : bar \in {SpanOf(p)} \cup (IF p \in s.drawn THEN {} ELSE {BarOf(p)})
  OBVIOUS
<1> HIDE DEF order, n, rest, parts, owed, F, S, O
<1>9. \A bar : bar \in rest <=> \E i \in 1..n : bar \in owed[i]
  <2>1. \A p : p \in DOMAIN s.spans <=> \E i \in 1..n : p = order[i]
    BY <1>3, <1>4 DEF ToSet
  <2> QED BY <1>7, <1>8, <2>1
<1>10. IsSeq(parts) /\ Len(parts) = n
  BY <1>4, <1>7, MadeSeq
<1>11. Draws(O, rest, readers)
  <2>1. \A i \in 1..Len(parts) : Draws(parts[i], owed[i], readers)
    <3> SUFFICES ASSUME NEW i \in 1..n PROVE Draws(parts[i], owed[i], readers)
      BY <1>10
    <3> DEFINE p == order[i]
    <3>1. /\ parts[i] = OwedTo(s, p)
          /\ owed[i] = {SpanOf(p)} \cup (IF p \in s.drawn THEN {} ELSE {BarOf(p)})
      BY <1>7
    <3> HIDE DEF p
    <3> QED BY <1>6, <3>1
  <2>2. \A i, j \in 1..Len(parts) : i # j => owed[i] \cap owed[j] = {}
    <3> SUFFICES ASSUME NEW i \in 1..n, NEW j \in 1..n, i # j PROVE owed[i] \cap owed[j] = {}
      BY <1>10
    <3>1. order[i] # order[j]
      BY <1>3
    <3>2. /\ BarOf(order[i]) # BarOf(order[j]) /\ SpanOf(order[i]) # SpanOf(order[j])
          /\ BarOf(order[i]) # SpanOf(order[j]) /\ SpanOf(order[i]) # BarOf(order[j])
      BY <3>1, BarsDiffer
    <3> QED BY <1>7, <3>2
  <2>3. \A bar : bar \in rest <=> \E i \in 1..Len(parts) : bar \in owed[i]
    BY <1>9, <1>10
  <2>4. Draws(FlattenSeq(parts), rest, readers)
    BY <1>10, <2>1, <2>2, <2>3, DrawsFlatten
  <2> QED BY <1>5, <2>4
<1>12. bars \cap rest = {}
  <2> SUFFICES ASSUME NEW bar, bar \in bars, bar \in rest PROVE FALSE
    OBVIOUS
  <2>1. PICK p \in s.drawn : bar = BarOf(p)
    OBVIOUS
  <2>2. PICK q \in DOMAIN s.spans : bar \in {SpanOf(q)} \cup (IF q \in s.drawn THEN {} ELSE {BarOf(q)})
    BY <1>8
  <2> QED BY <2>1, <2>2, BarsDiffer
<1>13. bars \cap {} = {} /\ bars \cup {} = bars
  OBVIOUS
<1> HIDE DEF P
<1>14. Draws(P \o F, bars, readers)
  <2>1. Draws(P \o F, bars \cup {}, readers)
    BY <1>1, <1>13, DrawsJoin DEF P
  <2> QED BY <1>13, <2>1
<1>15. Draws((P \o F) \o S, bars, readers)
  <2> DEFINE Q == P \o F
  <2>1. Draws(Q, bars, readers)
    BY <1>14
  <2> HIDE DEF Q
  <2>2. Draws(Q \o S, bars \cup {}, readers)
    BY <1>2, <1>13, <2>1, DrawsJoin
  <2> QED BY <1>13, <2>2 DEF Q
<1>16. Draws(((P \o F) \o S) \o O, bars \cup rest, readers)
  <2> DEFINE Q == (P \o F) \o S
  <2>1. Draws(Q, bars, readers)
    BY <1>15
  <2> HIDE DEF Q
  <2>2. Draws(Q \o O, bars \cup rest, readers)
    BY <1>11, <1>12, <2>1, DrawsJoin
  <2> QED BY <2>2 DEF Q
<1>17. Finalize(s).packets = ((P \o F) \o S) \o O
  BY CloseoutIs DEF P, F, S, O
<1> QED BY <1>16, <1>17 DEF rest

(* The bars a file has. *)
BarsOut == {BarOf(p) : p \in drawn} \cup (IF emitted THEN {SpanOf(p) : p \in DOMAIN spans} ELSE {})

(***************************************************************************)
(* A process that was let go of and is owed nothing has its bar out, or    *)
(* was never observed and is not going to be.                              *)
(***************************************************************************)
BarsInv ==
  /\ Draws(file, BarsOut, DOMAIN spans)
  /\ drawn \subseteq DOMAIN spans
  /\ emitted => drawn = DOMAIN spans /\ \A p \in DOMAIN spans : ProcessRow(p) \in described
  /\ \A p \in gone \ ToSet(retired) : p \in drawn \/ p \notin DOMAIN spans \cup Owners(buffer)

LEMMA DrawsWiden ==
  ASSUME NEW seq, NEW bars, NEW few, NEW many, Draws(seq, bars, few), few \subseteq many
  PROVE  Draws(seq, bars, many)
BY DEF Draws

LEMMA BarsInvInit == Init => BarsInv
<1> SUFFICES ASSUME Init PROVE BarsInv
  OBVIOUS
<1>1. file = <<>> /\ drawn = {} /\ ~emitted /\ gone = {} /\ spans = <<>> /\ DOMAIN spans = {}
  BY DEF Init
<1>2. BarsOut = {}
  BY <1>1 DEF BarsOut
<1> QED BY <1>1, <1>2, DrawsNothing DEF BarsInv

(* What a batch is made of, as the closeout and a flush leave it. *)
LEMMA BatchBars ==
  ASSUME FileInv, BarsInv, ~emitted
  PROVE  LET s == WriteEvents(buffer)
         IN  /\ SpansOK(s.spans) /\ DOMAIN s.spans = DOMAIN spans \cup Owners(buffer)
             /\ s.drawn = drawn \cup (ToSet(retired) \cap (DOMAIN s.spans \ drawn))
             /\ Draws(s.packets, {BarOf(p) : p \in s.drawn \ drawn}, DOMAIN s.spans)
<1> DEFINE left == ToSet(Left(buffer))
           known == Known(buffer)
<1>1. SpansOK(known) /\ DOMAIN known = DOMAIN spans \cup Owners(buffer)
  BY PrePassKnows DEF FileInv, Known
<1>2. left = ToSet(retired) \cap (DOMAIN known \ drawn)
  BY LeftIs DEF FileInv
<1>3. /\ WriteEvents(buffer).spans = known /\ WriteEvents(buffer).drawn = drawn \cup left
  BY BatchIs
<1>4. Draws(WriteEvents(buffer).packets, {BarOf(p) : p \in left}, Owners(buffer))
  BY BatchDraws DEF FileInv
<1>5. {BarOf(p) : p \in left} = {BarOf(p) : p \in (drawn \cup left) \ drawn}
  <2>1. left = (drawn \cup left) \ drawn
    BY <1>2
  <2> QED BY <2>1
<1>6. Draws(WriteEvents(buffer).packets, {BarOf(p) : p \in (drawn \cup left) \ drawn}, DOMAIN known)
  BY <1>1, <1>4, <1>5, DrawsWiden
<1> QED BY <1>1, <1>2, <1>3, <1>6

LEMMA BarsInvFlush == FileInv /\ BarsInv /\ Flush => BarsInv'
<1> SUFFICES ASSUME FileInv, BarsInv, Flush PROVE BarsInv'
  OBVIOUS
<1> DEFINE s == WriteEvents(buffer)
           more == {BarOf(p) : p \in s.drawn \ drawn}
<1>1. /\ ~emitted /\ ~emitted' /\ retired' = <<>> /\ buffer' = <<>> /\ gone' = gone
      /\ spans' = s.spans /\ drawn' = s.drawn /\ file' = file \o s.packets
  BY DEF Flush, Become, caller
<1>2. /\ SpansOK(s.spans) /\ DOMAIN s.spans = DOMAIN spans \cup Owners(buffer)
      /\ s.drawn = drawn \cup (ToSet(retired) \cap (DOMAIN s.spans \ drawn))
      /\ Draws(s.packets, more, DOMAIN s.spans)
  BY <1>1, BatchBars
<1>3. /\ BarsOut = {BarOf(p) : p \in drawn} /\ BarsOut' = {BarOf(p) : p \in s.drawn}
  BY <1>1 DEF BarsOut
<1>4. BarsOut' = BarsOut \cup more
  BY <1>2, <1>3
<1>5. BarsOut \cap more = {}
  <2> SUFFICES ASSUME NEW p \in drawn, NEW q \in s.drawn \ drawn, BarOf(p) = BarOf(q) PROVE FALSE
    BY <1>3
  <2> QED BY BarsDiffer
<1>6. Draws(file, BarsOut, DOMAIN s.spans)
  BY <1>2, DrawsWiden DEF BarsInv
<1> HIDE DEF more
<1>7. Draws(file', BarsOut', DOMAIN spans')
  <2> DEFINE P == s.packets
             known == DOMAIN s.spans
  <2> HIDE DEF s
  <2>1. Draws(file, BarsOut, known) /\ Draws(P, more, known)
    BY <1>2, <1>6
  <2> HIDE DEF P, known
  <2>2. Draws(file \o P, BarsOut \cup more, known)
    BY <1>5, <2>1, DrawsJoin
  <2> QED BY <1>1, <1>4, <2>2 DEF P, known
<1>8. drawn' \subseteq DOMAIN spans'
  BY <1>1, <1>2 DEF BarsInv
<1>9. Owners(<<>>) = {} /\ ToSet(<<>>) = {}
  BY EmptyIsSeq DEF Owners
<1>10. \A p \in gone' \ ToSet(retired') : p \in drawn' \/ p \notin DOMAIN spans' \cup Owners(buffer')
  BY <1>1, <1>2, <1>9 DEF BarsInv
<1> QED BY <1>1, <1>7, <1>8, <1>10 DEF BarsInv

LEMMA BarsInvClose == FileInv /\ BarsInv /\ Close => BarsInv'
<1> SUFFICES ASSUME FileInv, BarsInv, Close PROVE BarsInv'
  OBVIOUS
<1> DEFINE s == LastBatch
           f == Finalize(s)
           late == {BarOf(p) : p \in s.drawn \ drawn}
           more == {BarOf(p) : p \in DOMAIN s.spans \ s.drawn} \cup {SpanOf(p) : p \in DOMAIN s.spans}
<1>1. /\ ~emitted /\ emitted' /\ buffer' = <<>>
      /\ spans' = f.spans /\ drawn' = f.drawn /\ described' = f.described /\ file' = file \o f.packets
  BY DEF Close, Become, LastBatch
<1>2. /\ f.spans = s.spans /\ f.drawn = DOMAIN s.spans /\ f.described = FinalDone(s)
  BY CloseoutIs
<1>3. /\ SpansOK(s.spans) /\ DOMAIN spans \subseteq DOMAIN s.spans
      /\ drawn \subseteq s.drawn /\ s.drawn \subseteq DOMAIN s.spans
      /\ Draws(s.packets, late, DOMAIN s.spans)
  <2>1. CASE buffer = <<>>
    <3>1. s.spans = spans /\ s.drawn = drawn /\ s.packets = <<>>
      BY <2>1 DEF LastBatch, Unwritten
    <3>2. late = {}
      BY <3>1
    <3> QED BY <3>1, <3>2, DrawsNothing DEF FileInv, BarsInv
  <2>2. CASE buffer # <<>>
    <3>1. s = WriteEvents(buffer)
      BY <2>2 DEF LastBatch
    <3>2. /\ SpansOK(s.spans) /\ DOMAIN s.spans = DOMAIN spans \cup Owners(buffer)
          /\ s.drawn = drawn \cup (ToSet(retired) \cap (DOMAIN s.spans \ drawn))
          /\ Draws(s.packets, late, DOMAIN s.spans)
      BY <1>1, <3>1, BatchBars
    <3> QED BY <3>2 DEF BarsInv
  <2> QED BY <2>1, <2>2
<1>4. \A bar \in late : \E p \in s.drawn : bar = BarOf(p)
  OBVIOUS
<1> HIDE DEF s, late
<1>5. Draws(f.packets, late \cup more, DOMAIN s.spans)
  BY <1>3, <1>4, CloseoutDraws
<1> HIDE DEF f
<1>6. BarsOut = {BarOf(p) : p \in drawn}
  BY <1>1 DEF BarsOut
<1>7. BarsOut' = BarsOut \cup (late \cup more)
  <2>1. BarsOut' = {BarOf(p) : p \in DOMAIN s.spans} \cup {SpanOf(p) : p \in DOMAIN s.spans}
    BY <1>1, <1>2 DEF BarsOut
  <2> QED BY <1>3, <1>6, <2>1 DEF late
<1>8. BarsOut \cap (late \cup more) = {}
  <2> SUFFICES ASSUME NEW p \in drawn, BarOf(p) \in late \cup more PROVE FALSE
    BY <1>6
  <2>1. CASE BarOf(p) \in late
    BY <2>1, BarsDiffer DEF late
  <2>2. CASE BarOf(p) \in more
    BY <1>3, <2>2, BarsDiffer
  <2> QED BY <2>1, <2>2
<1> HIDE DEF more
<1>9. Draws(file', BarsOut', DOMAIN spans')
  <2> DEFINE P == f.packets
             known == DOMAIN s.spans
             new == late \cup more
  <2>1. Draws(file, BarsOut, known)
    BY <1>3, DrawsWiden DEF BarsInv
  <2>2. Draws(P, new, known) /\ BarsOut \cap new = {}
    BY <1>5, <1>8
  <2> HIDE DEF P, known, new
  <2>3. Draws(file \o P, BarsOut \cup new, known)
    BY <2>1, <2>2, DrawsJoin
  <2> QED BY <1>1, <1>2, <1>7, <2>3 DEF P, known, new
<1>10. drawn' = DOMAIN spans' /\ \A p \in DOMAIN spans' : ProcessRow(p) \in described'
  <2>1. \A p \in DOMAIN s.spans : ProcessRow(p) \in FinalDone(s)
    BY <1>3, FinalRowsAre DEF FinalDone
  <2> QED BY <1>1, <1>2, <2>1
<1>11. Owners(buffer') = {}
  BY <1>1 DEF Owners
<1> QED BY <1>1, <1>9, <1>10, <1>11 DEF BarsInv

(* What the run hands over is of those it has not let go of, or has seen. *)
LEMMA BarsInvHand ==
  ASSUME FileInv, BarsInv, NEW events, EventsOK(events), Hand(events),
         \A p \in Owners(events) : p \notin gone \/ p \in DOMAIN spans \cup Owners(buffer)
  PROVE  BarsInv'
<1>1. /\ buffer' = buffer \o events
      /\ UNCHANGED <<described, spans, drawn, emitted, retired, file, gone>>
  BY DEF Hand, state
<1>2. Owners(buffer') = Owners(buffer) \cup Owners(events)
  BY <1>1, OwnersJoin DEF FileInv
<1>3. BarsOut' = BarsOut
  BY <1>1 DEF BarsOut
<1>4. \A p \in gone' \ ToSet(retired') : p \in drawn' \/ p \notin DOMAIN spans' \cup Owners(buffer')
  BY <1>1, <1>2 DEF BarsInv
<1> QED BY <1>1, <1>3, <1>4 DEF BarsInv

LEMMA BarsInvStep == FileInv /\ BarsInv /\ [Next]_vars => BarsInv'
<1> SUFFICES ASSUME FileInv, BarsInv, [Next]_vars PROVE BarsInv'
  OBVIOUS
<1>1. ASSUME NEW p \in Monitored, NEW item \in Collections \cup Losses, AddItem(p, item) PROVE BarsInv'
  <2> DEFINE events == Convert(p, item)
  <2>1. EventsOK(events) /\ Owners(events) \subseteq {p}
    BY ItemsAreOK, ConvertsToEvents, ProcessesAssumption
  <2>2. Hand(events) /\ p \notin gone
    BY <1>1 DEF AddItem
  <2> HIDE DEF events
  <2> QED BY <2>1, <2>2, BarsInvHand
<1>2. ASSUME NEW p \in Monitored, AddRss(p) PROVE BarsInv'
  <2> DEFINE events == <<Counter(ProcessRow(p), <<"rss">>, clock)>>
  <2>1. EventsOK(events) /\ Owners(events) = {p}
    BY OtherEvents, ProcessesAssumption DEF FileInv
  <2>2. Hand(events) /\ p \notin gone
    BY <1>2 DEF AddRss
  <2> HIDE DEF events
  <2> QED BY <2>1, <2>2, BarsInvHand
<1>3. ASSUME NEW p \in Monitored, NEW ts \in 0..MaxTime, AddInstant(p, ts) PROVE BarsInv'
  <2> DEFINE events == <<Instant(p, ts)>>
  <2>0. ts \in Int /\ p \in Processes
    BY ProcessesAssumption
  <2>1. EventsOK(events) /\ Owners(events) = {p}
    BY <2>0, OtherEvents
  <2>2. Hand(events) /\ p \in DOMAIN spans \cup Owners(buffer)
    BY <1>3 DEF AddInstant, Owners
  <2> HIDE DEF events
  <2> QED BY <2>1, <2>2, BarsInvHand
<1>4. ASSUME NEW live \in SUBSET Monitored, ReportLiveness(live) PROVE BarsInv'
  <2>1. /\ ~emitted /\ live \cap gone = {} /\ spans' = Widen(spans, [p \in live |-> {clock}])
        /\ UNCHANGED <<described, drawn, emitted, retired, file, buffer, gone>>
    BY <1>4 DEF ReportLiveness, Live, caller
  <2>2. DOMAIN spans' = DOMAIN spans \cup live
    BY <2>1, LivenessWidens DEF FileInv
  <2>3. BarsOut' = BarsOut
    BY <2>1 DEF BarsOut
  <2>4. Draws(file, BarsOut, DOMAIN spans')
    BY <2>2, DrawsWiden DEF BarsInv
  <2> QED BY <2>1, <2>2, <2>3, <2>4 DEF BarsInv
<1>5. ASSUME NEW p \in Monitored, Retire(p) PROVE BarsInv'
  <2>1. /\ gone' = gone \cup {p} /\ retired' = Append(retired, p)
        /\ UNCHANGED <<described, spans, drawn, emitted, file, buffer>>
    BY <1>5 DEF Retire, state
  <2>2. BarsOut' = BarsOut
    BY <2>1 DEF BarsOut
  <2>3. ToSet(retired') = ToSet(retired) \cup {p}
    BY <2>1, AppendFacts DEF FileInv
  <2> QED BY <2>1, <2>2, <2>3 DEF BarsInv
<1>6. ASSUME NEW files \in Captures, NEW normalize \in BOOLEAN, Combine(files, normalize) PROVE BarsInv'
  <2>1. /\ gone = {}
        /\ UNCHANGED <<described, spans, drawn, emitted, retired, file, gone>>
    BY <1>6 DEF Combine, state
  <2>2. BarsOut' = BarsOut
    BY <2>1 DEF BarsOut
  <2> QED BY <2>1, <2>2 DEF BarsInv
<1>7. CASE Tick
  <2>1. UNCHANGED <<described, spans, drawn, emitted, retired, file, buffer, gone>>
    BY <1>7 DEF Tick, state
  <2>2. BarsOut' = BarsOut
    BY <2>1 DEF BarsOut
  <2> QED BY <2>1, <2>2 DEF BarsInv, Owners
<1>8. CASE Flush
  BY <1>8, BarsInvFlush
<1>9. CASE Close
  BY <1>9, BarsInvClose
<1>10. CASE UNCHANGED vars
  <2>1. UNCHANGED <<described, spans, drawn, emitted, retired, file, buffer, gone>>
    BY <1>10 DEF vars, state, caller
  <2>2. BarsOut' = BarsOut
    BY <2>1 DEF BarsOut
  <2> QED BY <2>1, <2>2 DEF BarsInv, Owners
<1> QED BY <1>1, <1>2, <1>3, <1>4, <1>5, <1>6, <1>7, <1>8, <1>9, <1>10 DEF Next

(* A bar that is out is there, once. *)
LEMMA OneBarEach ==
  ASSUME FileInv, BarsInv
  PROVE  /\ \A p \in drawn : Cardinality(Begins(ProcessRow(p))) = 1 /\ Begins(ProcessRow(p)) # {}
         /\ emitted => \A p \in DOMAIN spans :
              Cardinality({i \in Begins(LifetimesRow) : file[i].name = p}) = 1
<1>1. DOMAIN file = 1..Len(file) /\ Draws(file, BarsOut, DOMAIN spans)
  BY SeqFacts DEF FileInv, BarsInv
<1>2. ASSUME NEW p \in drawn
      PROVE  Cardinality(Begins(ProcessRow(p))) = 1 /\ Begins(ProcessRow(p)) # {}
  <2>1. BarOf(p) \in BarsOut
    BY DEF BarsOut
  <2>2. PICK i \in 1..Len(file) : IsBar(file[i]) /\ MarkOf(file[i]) = BarOf(p)
    BY <1>1, <2>1 DEF Draws
  <2>3. ASSUME NEW j \in Begins(ProcessRow(p)) PROVE j = i
    <3>1. j \in 1..Len(file) /\ IsBar(file[j]) /\ file[j].row = ProcessRow(p)
      BY <1>1, ProcessRowIs DEF Begins, Packets, IsBar
    <3>2. MarkOf(file[j]) \in BarsOut
      BY <1>1, <3>1 DEF Draws
    <3>3. MarkOf(file[j]) = BarOf(p)
      <4>1. MarkOf(file[j])[1] = ProcessRow(p)
        BY <3>1 DEF MarkOf
      <4>2. \A q : BarOf(q)[1] = ProcessRow(q) /\ SpanOf(q)[1] = LifetimesRow
        BY DEF BarOf, SpanOf
      <4>3. \A q : MarkOf(file[j]) # SpanOf(q)
        BY <4>1, <4>2, ProcessRowIs
      <4>4. PICK q \in drawn : MarkOf(file[j]) = BarOf(q)
        BY <3>2, <4>3 DEF BarsOut
      <4>5. q = p
        BY <4>1, <4>2, <4>4, ProcessRowIs
      <4> QED BY <4>4, <4>5
    <3> QED BY <1>1, <2>2, <3>1, <3>3 DEF Draws
  <2>4. i \in Begins(ProcessRow(p))
    BY <1>1, <2>2 DEF Begins, Packets, IsBar, MarkOf, BarOf
  <2>5. Begins(ProcessRow(p)) = {i}
    BY <2>3, <2>4
  <2> QED BY <2>5, FS_Singleton
<1>3. ASSUME emitted, NEW p \in DOMAIN spans
      PROVE  Cardinality({i \in Begins(LifetimesRow) : file[i].name = p}) = 1
  <2> DEFINE S == {i \in Begins(LifetimesRow) : file[i].name = p}
  <2>0. LifetimesRow[1] = "Processes"
    BY DEF LifetimesRow
  <2>1. SpanOf(p) \in BarsOut
    BY <1>3 DEF BarsOut
  <2>2. PICK i \in 1..Len(file) : IsBar(file[i]) /\ MarkOf(file[i]) = SpanOf(p)
    BY <1>1, <2>1 DEF Draws
  <2>3. ASSUME NEW j \in S PROVE j = i
    <3>1. j \in 1..Len(file) /\ IsBar(file[j]) /\ MarkOf(file[j]) = SpanOf(p)
      BY <1>1, <2>0 DEF Begins, Packets, IsBar, MarkOf, SpanOf
    <3> QED BY <1>1, <2>2, <3>1 DEF Draws
  <2>4. i \in S
    BY <1>1, <2>2 DEF Begins, Packets, IsBar, MarkOf, SpanOf
  <2>5. S = {i}
    BY <2>3, <2>4
  <2> QED BY <2>5, FS_Singleton
<1> QED BY <1>2, <1>3

LEMMA BarsInvOut == FileInv /\ BarsInv => RowsAreOut
<1> SUFFICES ASSUME FileInv, BarsInv PROVE RowsAreOut
  OBVIOUS
<1>1. /\ \A p \in drawn : Cardinality(Begins(ProcessRow(p))) = 1 /\ Begins(ProcessRow(p)) # {}
      /\ emitted => \A p \in DOMAIN spans :
           Cardinality({i \in Begins(LifetimesRow) : file[i].name = p}) = 1
  BY OneBarEach
<1>2. ASSUME NEW p \in gone \ ToSet(retired), ReadsOf(p) # {} PROVE Begins(ProcessRow(p)) # {}
  <2>1. PICK i \in ReadsOf(p) : TRUE
    BY <1>2
  <2>2. i \in 1..Len(file) /\ IsRead(file[i]) /\ file[i].row[2] = p
    BY SeqFacts DEF ReadsOf, Packets, IsRead, FileInv
  <2>3. p \in DOMAIN spans
    BY <2>2 DEF BarsInv, Draws
  <2> QED BY <1>1, <2>3 DEF BarsInv
<1> QED BY <1>1, <1>2 DEF BarsInv, RowsAreOut

(***************************************************************************)
(* A process that was let go of, and has reads in the file, has its bar    *)
(* there, unless it left after the last batch; and a closed trace has the  *)
(* row, the bar and the span of every process there is evidence of, once.  *)
(***************************************************************************)
THEOREM DepartedRowsAreOut == Spec => []RowsAreOut
<1>1. Init => FileInv /\ BarsInv
  BY FileInvInit, BarsInvInit
<1>2. (FileInv /\ BarsInv) /\ [Next]_vars => (FileInv /\ BarsInv)'
  BY FileInvStep, BarsInvStep
<1>3. FileInv /\ BarsInv => RowsAreOut
  BY BarsInvOut
<1> QED BY <1>1, <1>2, <1>3, PTL DEF Spec

-----------------------------------------------------------------------------
(* The sweep: where a span is drawn to end. *)

(* The walk stops at a span that contains this one, and passed no such span. *)
StopsAt(w, sweep, span) ==
  /\ w \in 0..Len(sweep.open)
  /\ w # 0 => sweep.ends[sweep.open[w]] >= span.stop
  /\ \A d \in (w + 1)..Len(sweep.open) : ~(sweep.ends[sweep.open[d]] >= span.stop)

Passed(w, sweep, p) == \E d \in (w + 1)..Len(sweep.open) : sweep.open[d] = p

(* What the walk leaves, with the span that made it. *)
Leaves(w, sweep, p, span, next) ==
  /\ IsSeq(next.open) /\ Len(next.open) = w + 1
  /\ next.open[w + 1] = p /\ \A d \in 1..w : next.open[d] = sweep.open[d]
  /\ DOMAIN next.ends = DOMAIN sweep.ends \cup {p}
  /\ next.ends[p] = span.stop
  /\ \A q \in DOMAIN sweep.ends \ {p} :
       next.ends[q] = IF Passed(w, sweep, q) /\ sweep.ends[q] >= span.start
                      THEN span.start - 1 ELSE sweep.ends[q]

Within(sweep, span) ==
  SelectLastInSeq(sweep.open, LAMBDA outer : sweep.ends[outer] >= span.stop)

LEMMA WalkStops ==
  ASSUME NEW sweep, IsSeq(sweep.open), NEW span
  PROVE  StopsAt(Within(sweep, span), sweep, span)
<1> DEFINE n == Len(sweep.open)
           I == {i \in 1..n : sweep.ends[sweep.open[i]] >= span.stop}
           w == Within(sweep, span)
<1>1. n \in Nat
  BY SeqFacts
<1>2. w = IF I # {} THEN Latest(I) ELSE 0
  BY DEF Within, SelectLastInSeq, Max, Latest
<1>3. I \subseteq Int /\ I \subseteq 1..n /\ IsFiniteSet(I)
  <2>1. IsFiniteSet(1..n)
    BY <1>1, FS_Interval
  <2> QED BY <1>1, <2>1, FS_Subset
<1>4. I # {} => Latest(I) \in I /\ \A i \in I : Latest(I) >= i
  <2> HIDE DEF I
  <2> QED BY <1>3, FiniteEnds
<1>5. \A i \in 1..n : i \in I <=> sweep.ends[sweep.open[i]] >= span.stop
  OBVIOUS
<1> HIDE DEF w, I, n
<1>6. CASE I = {}
  <2>1. w = 0 /\ w \in 0..n
    BY <1>1, <1>2, <1>6
  <2>2. \A d \in (w + 1)..n : d \in 1..n
    BY <1>1, <2>1
  <2>3. \A d \in (w + 1)..n : ~(sweep.ends[sweep.open[d]] >= span.stop)
    BY <1>5, <1>6, <2>2
  <2> QED BY <2>1, <2>3 DEF StopsAt, n, w
<1>7. CASE I # {}
  <2>1. w \in I /\ \A i \in I : w >= i
    BY <1>2, <1>4, <1>7
  <2>2. w \in 1..n /\ w \in 0..n
    BY <1>1, <1>3, <2>1
  <2>3. \A d \in (w + 1)..n : d \in 1..n /\ ~(w >= d)
    BY <1>1, <2>2
  <2>4. \A d \in (w + 1)..n : ~(sweep.ends[sweep.open[d]] >= span.stop)
    BY <1>5, <2>1, <2>3
  <2>5. sweep.ends[sweep.open[w]] >= span.stop
    BY <1>5, <2>1, <2>2
  <2> QED BY <2>2, <2>4, <2>5 DEF StopsAt, n, w
<1> QED BY <1>6, <1>7

LEMMA WalkLeaves ==
  ASSUME NEW sweep, IsSeq(sweep.open), NEW p, NEW span
  PROVE  \E w : StopsAt(w, sweep, span) /\ Leaves(w, sweep, p, span, Swept(sweep, p, span))
<1> DEFINE n == Len(sweep.open)
           w == Within(sweep, span)
           passed == {sweep.open[d] : d \in (w + 1)..n}
           few == SubSeq(sweep.open, 1, w)
           cut == [q \in DOMAIN sweep.ends |->
                     IF q \in passed /\ sweep.ends[q] >= span.start THEN ClipAt(span) ELSE sweep.ends[q]]
           next == Swept(sweep, p, span)
<1>1. StopsAt(w, sweep, span)
  BY WalkStops
<1>2. /\ next.open = Append(few, p)
      /\ next.ends = [q \in DOMAIN cut \cup {p} |-> IF q = p THEN span.stop ELSE cut[q]]
  BY DEF Swept, WalkOut, Within
<1> HIDE DEF w, next
<1>3. n \in Nat /\ w \in 0..n
  BY <1>1, SeqFacts DEF StopsAt
<1>4. IsSeq(few) /\ Len(few) = w /\ \A d \in 1..w : few[d] = sweep.open[d]
  <2>1. \A i \in 1..w : sweep.open[i] \in ToSet(sweep.open)
    BY <1>3, SeqFacts
  <2>2. few \in Seq(ToSet(sweep.open)) /\ Len(few) = w /\ \A d \in 1..w : few[d] = sweep.open[d]
    BY <1>3, <2>1, SubSeqProperties
  <2> HIDE DEF few
  <2> QED BY <2>2, SeqOfAny
<1>5. /\ IsSeq(Append(few, p)) /\ Len(Append(few, p)) = w + 1 /\ Append(few, p)[w + 1] = p
      /\ \A d \in 1..w : Append(few, p)[d] = sweep.open[d]
  <2> HIDE DEF few
  <2>1. IsSeq(Append(few, p))
    BY <1>4, AppendFacts
  <2>2. DEFINE S == ToSet(few) \cup {p}
  <2>3. few \in Seq(S) /\ p \in S
    <3>1. few \in [1..w -> ToSet(few)]
      BY <1>4, SeqFacts
    <3> QED BY <1>3, <3>1
  <2> HIDE DEF S
  <2>4. Len(Append(few, p)) = w + 1 /\ Append(few, p)[w + 1] = p
        /\ \A d \in 1..w : Append(few, p)[d] = few[d]
    BY <1>3, <1>4, <2>3
  <2> QED BY <1>4, <2>1, <2>4
<1>6. \A q : q \in passed <=> Passed(w, sweep, q)
  BY DEF Passed
<1>7. ClipAt(span) = span.start - 1
  BY DEF ClipAt
<1>8. DOMAIN cut = DOMAIN sweep.ends /\ \A q \in DOMAIN sweep.ends :
        cut[q] = IF Passed(w, sweep, q) /\ sweep.ends[q] >= span.start
                 THEN span.start - 1 ELSE sweep.ends[q]
  BY <1>6, <1>7
<1> HIDE DEF cut, few, n
<1>9. DOMAIN next.ends = DOMAIN sweep.ends \cup {p} /\ next.ends[p] = span.stop
  BY <1>2, <1>8
<1>10. \A q \in DOMAIN sweep.ends \ {p} : next.ends[q] = cut[q]
  BY <1>2, <1>8
<1>11. Leaves(w, sweep, p, span, next)
  BY <1>2, <1>5, <1>8, <1>9, <1>10 DEF Leaves
<1> QED BY <1>1, <1>11 DEF next

(* A span no longer than it was, and cut short only by one that crosses it. *)
DrawnTo(known, seen, p, stop) ==
  /\ stop \in Int /\ known[p].start <= stop /\ stop <= known[p].stop
  /\ stop # known[p].stop =>
       \E q \in seen : /\ known[q].start = stop + 1
                       /\ known[q].start <= known[p].stop /\ known[p].stop < known[q].stop

(***************************************************************************)
(* Of the spans seen so far, those still open each contain the next, and   *)
(* are as long as they were; the others end before one that was seen.      *)
(***************************************************************************)
SweepInv(known, seen, sweep) ==
  /\ IsSeq(sweep.open) /\ \A d \in 1..Len(sweep.open) : sweep.open[d] \in seen
  /\ DOMAIN sweep.ends = seen
  /\ \A p \in seen : DrawnTo(known, seen, p, sweep.ends[p])
  /\ \A p, q \in seen : SweptBefore(known, p, q) =>
       sweep.ends[p] < known[q].start \/ sweep.ends[q] <= sweep.ends[p]
  /\ \A d \in 1..Len(sweep.open) : sweep.ends[sweep.open[d]] = known[sweep.open[d]].stop
  /\ \A d, e \in 1..Len(sweep.open) : d < e =>
       /\ SweptBefore(known, sweep.open[d], sweep.open[e])
       /\ sweep.ends[sweep.open[e]] <= sweep.ends[sweep.open[d]]
  /\ \A p \in seen : ~Passed(0, sweep, p) => \E q \in seen : sweep.ends[p] < known[q].start

(* The spans it is given each end where they start or later. *)
SpansLast(known) == \A p \in DOMAIN known : known[p].start <= known[p].stop

LEMMA SweepStep ==
  ASSUME NEW known, SpansOK(known), SpansLast(known),
         NEW seen \in SUBSET DOMAIN known, NEW sweep, SweepInv(known, seen, sweep),
         NEW r \in DOMAIN known, r \notin seen, \A q \in seen : SweptBefore(known, q, r)
  PROVE  SweepInv(known, seen \cup {r}, Swept(sweep, r, known[r]))
<1> DEFINE n == Len(sweep.open)
           next == Swept(sweep, r, known[r])
           all == seen \cup {r}
<1>1. PICK w : StopsAt(w, sweep, known[r]) /\ Leaves(w, sweep, r, known[r], next)
  BY WalkLeaves DEF SweepInv
<1> HIDE DEF next
<1>2. /\ n \in Nat /\ w \in 0..n
      /\ \A p \in DOMAIN known : known[p].start \in Int /\ known[p].stop \in Int
      /\ \A p \in seen : p \in Int /\ p \in DOMAIN known /\ sweep.ends[p] \in Int
      /\ r \in Int
  BY <1>1, SeqFacts, ProcessesAreFinite DEF SweepInv, StopsAt, SpansOK, DrawnTo
<1>3. \A q \in seen : known[q].start <= known[r].start
  BY <1>2 DEF SweptBefore
<1>4. \A q \in seen : known[q].stop < known[r].stop => known[q].start < known[r].start
  BY <1>2 DEF SweptBefore
(* The open ones stand once, those the walk passed end before this one stops. *)
<1>5. \A d, e \in 1..n : sweep.open[d] = sweep.open[e] => d = e
  <2> SUFFICES ASSUME NEW d \in 1..n, NEW e \in 1..n, d < e PROVE sweep.open[d] # sweep.open[e]
    BY <1>2
  <2>1. SweptBefore(known, sweep.open[d], sweep.open[e]) /\ sweep.open[d] \in seen
    BY DEF SweepInv
  <2> QED BY <1>2, <2>1 DEF SweptBefore
<1>6. ASSUME NEW p \in seen, Passed(w, sweep, p)
      PROVE  /\ sweep.ends[p] < known[r].stop /\ sweep.ends[p] = known[p].stop
             /\ known[p].start < known[r].start
             /\ \A d \in 1..w : sweep.open[d] # p
  <2>1. PICK d \in (w + 1)..n : sweep.open[d] = p
    BY <1>6 DEF Passed
  <2>2. d \in 1..n
    BY <1>2
  <2>3. ~(sweep.ends[p] >= known[r].stop)
    BY <1>1, <2>1 DEF StopsAt
  <2>4. sweep.ends[p] = known[p].stop
    BY <2>1, <2>2 DEF SweepInv
  <2>5. \A e \in 1..w : e \in 1..n /\ e # d
    BY <1>2
  <2>6. \A e \in 1..w : sweep.open[e] # p
    BY <1>5, <2>1, <2>2, <2>5
  <2> QED BY <1>2, <1>4, <2>3, <2>4, <2>6
<1>7. ASSUME NEW d \in 1..w
      PROVE  /\ d \in 1..n /\ sweep.open[d] \in seen
             /\ sweep.ends[sweep.open[d]] >= known[r].stop /\ ~Passed(w, sweep, sweep.open[d])
  <2>1. d \in 1..n /\ w \in 1..n /\ w # 0 /\ (d = w \/ d < w)
    BY <1>2
  <2>2. sweep.open[d] \in seen /\ sweep.open[w] \in seen
    BY <2>1 DEF SweepInv
  <2>3. sweep.ends[sweep.open[w]] >= known[r].stop
    BY <1>1, <2>1 DEF StopsAt
  <2>4. sweep.ends[sweep.open[w]] <= sweep.ends[sweep.open[d]]
    BY <1>2, <2>1, <2>2 DEF SweepInv
  <2> QED BY <1>2, <1>6, <2>1, <2>2, <2>3, <2>4
(* Where each ends now. *)
<1>8. /\ DOMAIN next.ends = all /\ next.ends[r] = known[r].stop
      /\ \A p \in seen : next.ends[p] = IF Passed(w, sweep, p) /\ sweep.ends[p] >= known[r].start
                                        THEN known[r].start - 1 ELSE sweep.ends[p]
  BY <1>1 DEF Leaves, SweepInv
<1>9. \A p \in seen : /\ next.ends[p] \in Int /\ next.ends[p] <= sweep.ends[p]
                      /\ Passed(w, sweep, p) => next.ends[p] < known[r].start
                      /\ ~Passed(w, sweep, p) => next.ends[p] = sweep.ends[p]
  BY <1>2, <1>8
(* Those the walk has left behind end before it starts. *)
<1>10. ASSUME NEW p \in seen, \A d \in 1..w : sweep.open[d] # p
       PROVE  next.ends[p] < known[r].start
  <2>1. CASE Passed(w, sweep, p)
    BY <1>9, <2>1
  <2>2. CASE ~Passed(w, sweep, p)
    <3>1. ~Passed(0, sweep, p)
      <4> SUFFICES ASSUME NEW d \in (0 + 1)..n, sweep.open[d] = p PROVE FALSE
        BY DEF Passed
      <4>1. d \in 1..w \/ d \in (w + 1)..n
        BY <1>2
      <4> QED BY <1>10, <2>2, <4>1 DEF Passed
    <3>2. PICK q \in seen : sweep.ends[p] < known[q].start
      BY <3>1 DEF SweepInv
    <3> QED BY <1>2, <1>3, <1>9, <2>2, <3>2
  <2> QED BY <2>1, <2>2
<1>11. /\ IsSeq(next.open) /\ Len(next.open) = w + 1 /\ next.open[w + 1] = r
       /\ \A d \in 1..w : next.open[d] = sweep.open[d]
  BY <1>1 DEF Leaves
<1>12. \A d \in 1..(w + 1) : d = w + 1 \/ d \in 1..w
  BY <1>2
<1>13. \A d \in 1..w : next.ends[next.open[d]] = sweep.ends[sweep.open[d]]
  BY <1>7, <1>9, <1>11
<1>14. ASSUME NEW p \in all PROVE DrawnTo(known, all, p, next.ends[p])
  <2>1. CASE p = r
    BY <1>2, <1>8, <2>1 DEF DrawnTo, SpansLast
  <2>2. CASE p \in seen /\ next.ends[p] = sweep.ends[p]
    BY <2>2 DEF SweepInv, DrawnTo
  <2>3. CASE p \in seen /\ next.ends[p] # sweep.ends[p]
    <3>1. Passed(w, sweep, p) /\ sweep.ends[p] >= known[r].start /\ next.ends[p] = known[r].start - 1
      BY <1>8, <2>3
    <3>2. sweep.ends[p] < known[r].stop /\ sweep.ends[p] = known[p].stop /\ known[p].start < known[r].start
      BY <1>6, <2>3, <3>1
    <3>3. p \in DOMAIN known
      BY <1>2, <2>3
    <3>4. known[r].start = next.ends[p] + 1
      BY <1>2, <3>1
    <3>5. /\ next.ends[p] \in Int /\ known[p].start <= next.ends[p] /\ next.ends[p] <= known[p].stop
          /\ known[r].start <= known[p].stop /\ known[p].stop < known[r].stop
      BY <1>2, <3>1, <3>2, <3>3
    <3>6. r \in all
      OBVIOUS
    <3> QED BY <3>4, <3>5, <3>6 DEF DrawnTo
  <2> QED BY <2>1, <2>2, <2>3
<1>15. ASSUME NEW p \in all, NEW q \in all, SweptBefore(known, p, q)
       PROVE  next.ends[p] < known[q].start \/ next.ends[q] <= next.ends[p]
  <2>1. CASE p = r
    <3>1. q \in seen => SweptBefore(known, q, r)
      OBVIOUS
    <3> QED BY <1>2, <1>15, <2>1, <3>1 DEF SweptBefore
  <2>2. CASE p \in seen /\ q = r
    <3>1. CASE \E d \in 1..w : sweep.open[d] = p
      BY <1>2, <1>7, <1>8, <1>9, <2>2, <3>1
    <3>2. CASE \A d \in 1..w : sweep.open[d] # p
      BY <1>10, <2>2, <3>2
    <3> QED BY <3>1, <3>2
  <2>3. CASE p \in seen /\ q \in seen /\ next.ends[p] = sweep.ends[p]
    <3>1. sweep.ends[p] < known[q].start \/ sweep.ends[q] <= sweep.ends[p]
      BY <1>15, <2>3 DEF SweepInv
    <3> QED BY <1>2, <1>9, <2>3, <3>1
  <2>4. CASE p \in seen /\ q \in seen /\ next.ends[p] # sweep.ends[p]
    <3>1. Passed(w, sweep, p) /\ next.ends[p] = known[r].start - 1
      BY <1>8, <2>4
    <3>2. \A d \in 1..w : sweep.open[d] # q
      <4> SUFFICES ASSUME NEW d \in 1..w, sweep.open[d] = q PROVE FALSE
        OBVIOUS
      <4>1. PICK e \in (w + 1)..n : sweep.open[e] = p
        BY <3>1 DEF Passed
      <4>2. d \in 1..n /\ e \in 1..n /\ d < e
        BY <1>2
      <4>3. SweptBefore(known, q, p)
        BY <4>1, <4>2 DEF SweepInv
      <4> QED BY <1>2, <1>15, <2>4, <4>3 DEF SweptBefore
    <3>3. next.ends[q] < known[r].start
      BY <1>10, <2>4, <3>2
    <3> QED BY <1>2, <1>9, <2>4, <3>1, <3>3
  <2> QED BY <2>1, <2>2, <2>3, <2>4
<1>16. ASSUME NEW d \in 1..(w + 1)
       PROVE  next.open[d] \in all /\ next.ends[next.open[d]] = known[next.open[d]].stop
  <2>1. CASE d = w + 1
    BY <1>8, <1>11, <2>1
  <2>2. CASE d \in 1..w
    <3>1. sweep.ends[sweep.open[d]] = known[sweep.open[d]].stop /\ sweep.open[d] \in seen
      BY <1>7, <2>2 DEF SweepInv
    <3> QED BY <1>11, <1>13, <2>2, <3>1
  <2> QED BY <1>12, <2>1, <2>2
<1>17. ASSUME NEW d \in 1..(w + 1), NEW e \in 1..(w + 1), d < e
       PROVE  /\ SweptBefore(known, next.open[d], next.open[e])
              /\ next.ends[next.open[e]] <= next.ends[next.open[d]]
  <2>1. d \in 1..w /\ next.open[d] = sweep.open[d]
    BY <1>2, <1>11, <1>17
  <2>2. CASE e = w + 1
    <3>1. SweptBefore(known, sweep.open[d], r)
      BY <1>7, <2>1
    <3>2. sweep.ends[sweep.open[d]] >= known[r].stop
      BY <1>7, <2>1
    <3>3. sweep.ends[sweep.open[d]] \in Int /\ known[r].stop \in Int
      BY <1>2, <1>7, <2>1
    <3>4. next.ends[next.open[d]] = sweep.ends[sweep.open[d]] /\ next.open[e] = r
      BY <1>11, <1>13, <2>1, <2>2
    <3> QED BY <1>8, <2>1, <3>1, <3>2, <3>3, <3>4
  <2>3. CASE e \in 1..w
    BY <1>7, <1>11, <1>13, <1>17, <2>1, <2>3 DEF SweepInv
  <2> QED BY <1>12, <2>2, <2>3
<1>18. ASSUME NEW p \in all, ~Passed(0, next, p)
       PROVE  \E q \in all : next.ends[p] < known[q].start
  <2>1. \A d \in 1..(w + 1) : next.open[d] # p
    BY <1>11, <1>18 DEF Passed
  <2>2. w + 1 \in 1..(w + 1) /\ \A d \in 1..w : d \in 1..(w + 1)
    BY <1>2
  <2>3. p # r /\ \A d \in 1..w : sweep.open[d] # p
    BY <1>11, <2>1, <2>2
  <2> QED BY <1>10, <2>3
<1> HIDE DEF all
<1>19. SweepInv(known, all, next)
  BY <1>8, <1>11, <1>14, <1>15, <1>16, <1>17, <1>18 DEF SweepInv
<1> QED BY <1>19 DEF all, next

(* How far the sweep is after so many spans. *)
SweepOf(known, h) ==
  h = [n \in 0..Len(SweepOrder(known)) |->
         IF n = 0 THEN [open |-> <<>>, ends |-> <<>>]
         ELSE Swept(h[n - 1], SweepOrder(known)[n], known[SweepOrder(known)[n]])]

LEMMA SweepExists ==
  ASSUME NEW known, SpansOK(known)
  PROVE  \E h : SweepOf(known, h)
<1> DEFINE order == SweepOrder(known)
           N == Len(order)
           Step(s, n) == Swept(s, order[n], known[order[n]])
           none == [open |-> <<>>, ends |-> <<>>]
           Made(n, h) == h = [i \in 0..n |-> IF i = 0 THEN none ELSE Step(h[i - 1], i)]
           Reached == {n \in Nat : \E h : Made(n, h)}
<1>0. N \in Nat
  BY SweepTakesAll, SeqFacts
<1> HIDE DEF N, order, none, Step
<1>1. 0 \in Reached
  <2> DEFINE h == [i \in 0..0 |-> none]
  <2>1. Made(0, h)
    OBVIOUS
  <2> QED BY <2>1
<1>2. ASSUME NEW n \in 0..(N - 1), n \in Reached PROVE n + 1 \in Reached
  <2>1. PICK h : Made(n, h)
    BY <1>2
  <2> DEFINE last == Step(h[n], n + 1)
             k == [i \in 0..(n + 1) |-> IF i = n + 1 THEN last ELSE h[i]]
  <2>2. n \in Nat
    OBVIOUS
  <2>3. ASSUME NEW i \in 0..(n + 1)
        PROVE  k[i] = IF i = 0 THEN none ELSE Step(k[i - 1], i)
    <3>1. CASE i = n + 1
      <4>1. i - 1 \in 0..(n + 1) /\ i - 1 = n /\ i # 0 /\ n # n + 1
        BY <2>2, <3>1
      <4>2. k[i - 1] = h[n] /\ k[i] = Step(h[n], i)
        BY <3>1, <4>1
      <4> QED BY <4>1, <4>2
    <3>2. CASE i # n + 1
      <4>1. i \in 0..n /\ k[i] = h[i]
        BY <2>2, <3>2
      <4>2. h[i] = IF i = 0 THEN none ELSE Step(h[i - 1], i)
        BY <2>1, <4>1
      <4>3. i # 0 => k[i - 1] = h[i - 1]
        <5> SUFFICES ASSUME i # 0 PROVE k[i - 1] = h[i - 1]
          OBVIOUS
        <5>1. i - 1 \in 0..(n + 1) /\ i - 1 # n + 1
          BY <2>2, <4>1
        <5> QED BY <5>1
      <4> QED BY <4>1, <4>2, <4>3
    <3> QED BY <3>1, <3>2
  <2>4. Made(n + 1, k)
    <3>1. k = [i \in 0..(n + 1) |-> k[i]]
      OBVIOUS
    <3> HIDE DEF k
    <3> QED BY <2>3, <3>1
  <2> HIDE DEF k, Made
  <2> QED BY <2>2, <2>4
<1>3. N \in Reached
  <2>1. N \in 0..N
    BY <1>0
  <2> HIDE DEF Reached
  <2> QED BY <1>0, <1>1, <1>2, <2>1, UpTo
<1>4. PICK h : Made(N, h)
  BY <1>3
<1>5. SweepOf(known, h)
  BY <1>4 DEF SweepOf, N, order, none, Step
<1> QED BY <1>5

LEMMA ClippedIs ==
  ASSUME NEW known, SpansOK(known)
  PROVE  \E h : SweepOf(known, h) /\ Clipped(known) = h[Len(SweepOrder(known))].ends
<1> DEFINE h == CHOOSE h : SweepOf(known, h)
<1>1. SweepOf(known, h)
  BY SweepExists
<1>2. Clipped(known) = h[Len(SweepOrder(known))].ends
  BY DEF Clipped, SweepOf
<1> QED BY <1>1, <1>2

LEMMA SweepHolds ==
  ASSUME NEW known, SpansOK(known), SpansLast(known), NEW h, SweepOf(known, h)
  PROVE  SweepInv(known, DOMAIN known, h[Len(SweepOrder(known))])
<1> DEFINE order == SweepOrder(known)
           N == Len(order)
           Seen(n) == {order[i] : i \in 1..n}
           Reached == {n \in Nat : SweepInv(known, Seen(n), h[n])}
<1>1. /\ IsSeq(order) /\ ToSet(order) = DOMAIN known
      /\ \A i, j \in 1..N : order[i] = order[j] => i = j
      /\ \A i, j \in 1..N : i < j => SweptBefore(known, order[i], order[j])
      /\ N \in Nat /\ DOMAIN order = 1..N
  BY SweepTakesAll, SeqFacts
<1>2. \A n \in 0..N : h[n] = IF n = 0 THEN [open |-> <<>>, ends |-> <<>>]
                             ELSE Swept(h[n - 1], order[n], known[order[n]])
  BY DEF SweepOf
<1> HIDE DEF order, N
<1>3. 0 \in Reached
  <2>1. h[0] = [open |-> <<>>, ends |-> <<>>] /\ Seen(0) = {}
    BY <1>1, <1>2
  <2>2. IsSeq(<<>>) /\ Len(<<>>) = 0 /\ DOMAIN <<>> = {}
    BY EmptyIsSeq
  <2>3. h[0].open = <<>> /\ h[0].ends = <<>>
    BY <2>1
  <2>4. SweepInv(known, {}, h[0])
    BY <2>2, <2>3 DEF SweepInv
  <2> QED BY <2>1, <2>4
<1>4. ASSUME NEW n \in 0..(N - 1), n \in Reached PROVE n + 1 \in Reached
  <2> DEFINE r == order[n + 1]
  <2>1. n \in Nat /\ n + 1 \in 1..N /\ n + 1 \in 0..N /\ n + 1 # 0 /\ (n + 1) - 1 = n
        /\ \A i \in 1..n : i \in 1..N /\ i < n + 1
    BY <1>1
  <2>2. h[n + 1] = Swept(h[n], r, known[r])
    BY <1>2, <2>1
  <2>3. r \in DOMAIN known /\ Seen(n) \in SUBSET DOMAIN known
    BY <1>1, <2>1, SeqFacts
  <2>4. r \notin Seen(n) /\ \A q \in Seen(n) : SweptBefore(known, q, r)
    <3>1. \A i \in 1..n : order[i] # r /\ SweptBefore(known, order[i], r)
      BY <1>1, <2>1
    <3> QED BY <3>1
  <2>5. Seen(n + 1) = Seen(n) \cup {r}
    <3>1. \A i : i \in 1..(n + 1) <=> i \in 1..n \/ i = n + 1
      BY <2>1
    <3> QED BY <3>1
  <2>6. SweepInv(known, Seen(n), h[n])
    BY <1>4
  <2> HIDE DEF r, Seen
  <2>7. SweepInv(known, Seen(n) \cup {r}, h[n + 1])
    BY <2>2, <2>3, <2>4, <2>6, SweepStep
  <2> QED BY <2>1, <2>5, <2>7 DEF Reached
<1>5. N \in Reached
  <2>1. N \in 0..N
    BY <1>1
  <2> HIDE DEF Reached
  <2> QED BY <1>1, <1>3, <1>4, <2>1, UpTo
<1>6. Seen(N) = DOMAIN known
  BY <1>1 DEF ToSet
<1>7. SweepInv(known, Seen(N), h[N])
  BY <1>5
<1> HIDE DEF Seen
<1> QED BY <1>6, <1>7 DEF N, order

(* Drawn to [start, stop], two spans are disjoint or one contains the other. *)
Laminar(start1, stop1, start2, stop2) ==
  \/ stop1 < start2 \/ stop2 < start1
  \/ start1 <= start2 /\ stop2 <= stop1
  \/ start2 <= start1 /\ stop1 <= stop2

(* What the sweep makes of any spans. *)
LEMMA ClippedSpans ==
  ASSUME NEW known, SpansOK(known), SpansLast(known)
  PROVE  /\ \A p \in DOMAIN known : DrawnTo(known, DOMAIN known, p, Clipped(known)[p])
         /\ \A p, q \in DOMAIN known :
              Laminar(known[p].start, Clipped(known)[p], known[q].start, Clipped(known)[q])
<1> DEFINE ends == Clipped(known)
<1>1. PICK h : SweepOf(known, h) /\ ends = h[Len(SweepOrder(known))].ends
  BY ClippedIs
<1> DEFINE sweep == h[Len(SweepOrder(known))]
<1>2. SweepInv(known, DOMAIN known, sweep) /\ ends = sweep.ends
  BY <1>1, SweepHolds
<1> HIDE DEF ends, sweep
<1>3. /\ \A p \in DOMAIN known : DrawnTo(known, DOMAIN known, p, ends[p])
      /\ \A p, q \in DOMAIN known : SweptBefore(known, p, q) => ends[p] < known[q].start \/ ends[q] <= ends[p]
  BY <1>2 DEF SweepInv
<1>4. \A p \in DOMAIN known : /\ known[p] \in [start : Int, stop : Int] /\ p \in Int
                              /\ known[p].start \in Int /\ known[p].stop \in Int /\ ends[p] \in Int
  BY <1>3, ProcessesAreFinite DEF SpansOK, DrawnTo
<1>5. ASSUME NEW p \in DOMAIN known, NEW q \in DOMAIN known
      PROVE  p = q \/ SweptBefore(known, p, q) \/ SweptBefore(known, q, p)
  BY <1>4 DEF SweptBefore
<1>6. ASSUME NEW p \in DOMAIN known, NEW q \in DOMAIN known
      PROVE  Laminar(known[p].start, ends[p], known[q].start, ends[q])
  <2>1. CASE p = q
    BY <1>4, <2>1 DEF Laminar
  <2>2. ASSUME NEW u \in DOMAIN known, NEW v \in DOMAIN known, SweptBefore(known, u, v)
        PROVE  known[u].start <= known[v].start
               /\ (ends[u] < known[v].start \/ ends[v] <= ends[u])
    BY <1>3, <1>4, <2>2 DEF SweptBefore
  <2>3. CASE SweptBefore(known, p, q)
    BY <2>2, <2>3 DEF Laminar
  <2>4. CASE SweptBefore(known, q, p)
    BY <2>2, <2>4 DEF Laminar
  <2> QED BY <1>5, <2>1, <2>3, <2>4
<1> QED BY <1>3, <1>6 DEF ends

LEMMA WidenLasts ==
  ASSUME NEW old, SpansOK(old), SpansLast(old), NEW seen, DOMAIN seen \subseteq Processes,
         \A p \in DOMAIN seen : IsFiniteSet(seen[p]) /\ seen[p] \subseteq Int
  PROVE  SpansLast(Widen(old, seen))
<1> DEFINE known == Widen(old, seen)
<1>1. /\ SpansOK(known)
      /\ DOMAIN known = DOMAIN old \cup {p \in DOMAIN seen : seen[p] # {}}
      /\ \A p \in DOMAIN old : known[p].start <= old[p].start /\ old[p].stop <= known[p].stop
      /\ \A p \in DOMAIN seen : \A t \in seen[p] : known[p].start <= t /\ t <= known[p].stop
  BY WidenSpans
<1> HIDE DEF known
<1>2. ASSUME NEW p \in DOMAIN known PROVE known[p].start <= known[p].stop
  <2>0. known[p].start \in Int /\ known[p].stop \in Int
    BY <1>1 DEF SpansOK
  <2>1. CASE p \in DOMAIN old
    <3>1. old[p].start <= old[p].stop /\ old[p].start \in Int /\ old[p].stop \in Int
      BY <2>1 DEF SpansOK, SpansLast
    <3> QED BY <1>1, <2>0, <2>1, <3>1
  <2>2. CASE p \notin DOMAIN old
    <3>1. PICK t \in seen[p] : t \in Int
      BY <1>1, <2>2
    <3> QED BY <1>1, <2>0, <2>2, <3>1
  <2> QED BY <2>1, <2>2
<1> QED BY <1>2 DEF SpansLast, known

-----------------------------------------------------------------------------
(* The spans of a file: those the sweep makes of what is known at the end. *)

IsSpan(packet) == packet.type = "begin" /\ packet.row = LifetimesRow
SpanBegin(p, known) == LifetimeSlice(p, known[p], Clipped(known)[p])[1]
SpansOf(known) == {SpanBegin(p, known) : p \in DOMAIN known}

(* The spans among the packets are these. *)
SpansWithin(seq, all) == IsSeq(seq) /\ \A packet \in ToSet(seq) : IsSpan(packet) => packet \in all

LEMMA SpansJoin ==
  ASSUME NEW a, NEW b, NEW all, SpansWithin(a, all), SpansWithin(b, all)
  PROVE  SpansWithin(a \o b, all)
BY ConcatFacts DEF SpansWithin

(* What draws no span of its own has none. *)
LEMMA BarsAreNoSpans ==
  ASSUME NEW seq, NEW bars, NEW readers, NEW all, Draws(seq, bars, readers),
         \A bar \in bars : \E p : bar = BarOf(p)
  PROVE  SpansWithin(seq, all)
<1>1. IsSeq(seq)
  BY DEF Draws
<1>2. ASSUME NEW i \in 1..Len(seq) PROVE ~IsSpan(seq[i])
  <2> SUFFICES ASSUME IsSpan(seq[i]) PROVE FALSE
    OBVIOUS
  <2>1. IsBar(seq[i]) /\ MarkOf(seq[i])[1] = LifetimesRow
    BY DEF IsSpan, IsBar, MarkOf, LifetimesRow
  <2>2. PICK p : MarkOf(seq[i]) = BarOf(p)
    BY <2>1 DEF Draws
  <2> QED BY <2>1, <2>2, ProcessRowIs DEF BarOf
<1> QED BY <1>1, <1>2, SeqFacts DEF SpansWithin, ToSet

LEMMA SliceIs ==
  ASSUME NEW p, NEW known
  PROVE  LET slice == LifetimeSlice(p, known[p], Clipped(known)[p])
         IN  /\ IsSeq(slice) /\ \A packet \in ToSet(slice) : IsSpan(packet) => packet = SpanBegin(p, known)
             /\ SpanBegin(p, known).type = "begin" /\ SpanBegin(p, known).row = LifetimesRow
             /\ SpanBegin(p, known).name = p
             /\ SpanBegin(p, known).ts = known[p].start /\ SpanBegin(p, known).stop = Clipped(known)[p]
             /\ SpanBegin(p, known).args =
                  [real_start |-> known[p].start, real_stop |-> known[p].stop,
                   clipped |-> Clipped(known)[p] # known[p].stop]
<1> DEFINE slice == LifetimeSlice(p, known[p], Clipped(known)[p])
           args == [real_start |-> known[p].start, real_stop |-> known[p].stop,
                    clipped |-> Clipped(known)[p] # known[p].stop]
           one == [type |-> "begin", row |-> LifetimesRow, name |-> p, ts |-> known[p].start,
                   stop |-> Clipped(known)[p], args |-> args]
           two == [type |-> "end", row |-> LifetimesRow, name |-> {p}, ts |-> Clipped(known)[p]]
<1>1. slice = <<one, two>>
  BY DEF LifetimeSlice, Pair
<1>2. /\ one.type = "begin" /\ one.row = LifetimesRow /\ one.name = p /\ one.ts = known[p].start
      /\ one.stop = Clipped(known)[p] /\ one.args = args /\ two.type = "end"
  OBVIOUS
<1> HIDE DEF slice, one, two
<1>3. IsSeq(<<one, two>>) /\ ToSet(<<one, two>>) = {one, two} /\ <<one, two>>[1] = one
  BY DEF IsSeq, ToSet
<1>4. SpanBegin(p, known) = one
  BY <1>1, <1>3 DEF SpanBegin, slice
<1>5. \A packet \in ToSet(slice) : IsSpan(packet) => packet = one
  BY <1>1, <1>2, <1>3 DEF IsSpan
<1>6. IsSeq(slice)
  BY <1>1, <1>3
<1> HIDE DEF args
<1> QED BY <1>2, <1>4, <1>5, <1>6 DEF args, slice

LEMMA CloseoutSpans ==
  ASSUME NEW s, SpansOK(s.spans), SpansWithin(s.packets, SpansOf(s.spans))
  PROVE  SpansWithin(Finalize(s).packets, SpansOf(s.spans))
<1> DEFINE known == s.spans
           order == SweepOrder(known)
           n == Len(order)
           all == SpansOf(known)
           parts == [i \in DOMAIN order |-> OwedTo(s, order[i])]
           F == FinalRowPackets(s)
           S == SharedRowPackets(s)
           O == OwedPackets(s)
           P == s.packets
<1>1. SpansWithin(F, all) /\ SpansWithin(S, all)
  <2>1. Draws(F, {}, {}) /\ Draws(S, {}, {})
    BY OneIsSeq, FinalRowsAre, DescriptorsDraw DEF FinalRowPackets, SharedRowPackets
  <2> HIDE DEF F, S, all
  <2> QED BY <2>1, BarsAreNoSpans
<1>2. IsSeq(order) /\ ToSet(order) = DOMAIN known /\ n \in Nat /\ DOMAIN order = 1..n
  BY SweepTakesAll, SeqFacts
<1>3. ASSUME NEW p \in DOMAIN known PROVE SpansWithin(OwedTo(s, p), all)
  <2> DEFINE slice == LifetimeSlice(p, known[p], Clipped(known)[p])
             bar == Bar(p, s.spans, s.totals, FinalDone(s))
             more == IF p \in s.drawn THEN <<>> ELSE bar
  <2>1. SpansWithin(slice, all)
    <3>1. IsSeq(slice) /\ \A packet \in ToSet(slice) : IsSpan(packet) => packet = SpanBegin(p, known)
      BY SliceIs
    <3>2. SpanBegin(p, known) \in all
      BY DEF SpansOf
    <3> HIDE DEF slice, all
    <3> QED BY <3>1, <3>2 DEF SpansWithin
  <2>2. SpansWithin(bar, all)
    <3>1. Draws(bar, {BarOf(p)}, {})
      BY BarDraws
    <3> HIDE DEF bar, all
    <3> QED BY <3>1, BarsAreNoSpans
  <2>3. SpansWithin(<<>>, all)
    BY EmptyIsSeq DEF SpansWithin
  <2>4. OwedTo(s, p) = slice \o more
    BY DEF OwedTo, Owed
  <2> HIDE DEF slice, bar, all
  <2>5. SpansWithin(more, all)
    BY <2>2, <2>3
  <2> HIDE DEF more
  <2> QED BY <2>1, <2>4, <2>5, SpansJoin
<1>4. O = FlattenSeq(parts)
  BY DEF OwedPackets
<1>5. /\ DOMAIN parts = 1..n /\ parts = [i \in 1..n |-> parts[i]]
      /\ \A i \in 1..n : parts[i] = OwedTo(s, order[i])
  BY <1>2
<1> HIDE DEF parts, all
<1>6. IsSeq(parts) /\ Len(parts) = n
  BY <1>2, <1>5, MadeSeq
<1>7. \A i \in 1..Len(parts) : SpansWithin(parts[i], all)
  <2>1. \A i \in 1..n : order[i] \in DOMAIN known
    BY <1>2, SeqFacts
  <2> QED BY <1>3, <1>5, <1>6, <2>1
<1>8. SpansWithin(O, all)
  <2>1. /\ IsSeq(FlattenSeq(parts))
        /\ \A e : e \in ToSet(FlattenSeq(parts)) <=> \E i \in 1..Len(parts) : e \in ToSet(parts[i])
    BY <1>6, <1>7, FlattenElements DEF SpansWithin
  <2> QED BY <1>4, <1>7, <2>1 DEF SpansWithin
<1>9. Finalize(s).packets = ((P \o F) \o S) \o O
  BY CloseoutIs
<1>10. SpansWithin(P, all)
  BY DEF all
<1> HIDE DEF P, F, S, O
<1>11. SpansWithin(P \o F, all)
  BY <1>1, <1>10, SpansJoin
<1>12. SpansWithin((P \o F) \o S, all)
  BY <1>1, <1>11, SpansJoin
<1>13. SpansWithin(((P \o F) \o S) \o O, all)
  BY <1>8, <1>12, SpansJoin
<1> QED BY <1>9, <1>13 DEF all

(***************************************************************************)
(* A file has spans only once it is closed, and then those that the sweep  *)
(* makes of all that was known.                                            *)
(***************************************************************************)
SpansInv ==
  /\ SpansLast(spans)
  /\ SpansWithin(file, IF emitted THEN SpansOf(spans) ELSE {})

LEMMA BatchSpans ==
  ASSUME FileInv, BarsInv, SpansInv, ~emitted, NEW all
  PROVE  LET s == WriteEvents(buffer)
         IN  SpansOK(s.spans) /\ SpansLast(s.spans) /\ SpansWithin(s.packets, all)
<1> DEFINE s == WriteEvents(buffer)
           seen == Evidence(buffer)
           bars == {BarOf(p) : p \in s.drawn \ drawn}
<1>1. SpansOK(s.spans) /\ Draws(s.packets, bars, DOMAIN s.spans)
  BY BatchBars
<1>2. \A bar \in bars : \E p : bar = BarOf(p)
  OBVIOUS
<1>3. DOMAIN seen \subseteq Processes /\ \A p \in DOMAIN seen : IsFiniteSet(seen[p]) /\ seen[p] \subseteq Int
  BY EvidenceIs DEF FileInv
<1>4. s.spans = Widen(spans, seen)
  BY BatchIs DEF Known
<1> HIDE DEF s, seen, bars
<1>5. SpansLast(s.spans)
  BY <1>3, <1>4, WidenLasts DEF FileInv, SpansInv
<1>6. SpansWithin(s.packets, all)
  BY <1>1, <1>2, BarsAreNoSpans
<1> QED BY <1>1, <1>5, <1>6 DEF s

LEMMA SpansInvFlush == FileInv /\ BarsInv /\ SpansInv /\ Flush => SpansInv'
<1> SUFFICES ASSUME FileInv, BarsInv, SpansInv, Flush PROVE SpansInv'
  OBVIOUS
<1> DEFINE s == WriteEvents(buffer)
<1>1. ~emitted /\ ~emitted' /\ spans' = s.spans /\ file' = file \o s.packets
  BY DEF Flush, Become
<1>2. SpansLast(s.spans) /\ SpansWithin(s.packets, {})
  BY <1>1, BatchSpans
<1>3. SpansWithin(file, {})
  BY <1>1 DEF SpansInv
<1> HIDE DEF s
<1>4. SpansWithin(file \o s.packets, {})
  BY <1>2, <1>3, SpansJoin
<1> QED BY <1>1, <1>2, <1>4 DEF SpansInv

LEMMA SpansInvClose == FileInv /\ BarsInv /\ SpansInv /\ Close => SpansInv'
<1> SUFFICES ASSUME FileInv, BarsInv, SpansInv, Close PROVE SpansInv'
  OBVIOUS
<1> DEFINE s == LastBatch
           f == Finalize(s)
           all == SpansOf(s.spans)
<1>1. ~emitted /\ emitted' /\ spans' = f.spans /\ file' = file \o f.packets
  BY DEF Close, Become, LastBatch
<1>2. f.spans = s.spans
  BY CloseoutIs
<1>3. SpansOK(s.spans) /\ SpansLast(s.spans) /\ SpansWithin(s.packets, all)
  <2>1. CASE buffer = <<>>
    <3>1. s.spans = spans /\ s.packets = <<>>
      BY <2>1 DEF LastBatch, Unwritten
    <3>2. SpansWithin(<<>>, all)
      BY EmptyIsSeq DEF SpansWithin
    <3> QED BY <3>1, <3>2 DEF FileInv, SpansInv
  <2>2. CASE buffer # <<>>
    <3>1. s = WriteEvents(buffer)
      BY <2>2 DEF LastBatch
    <3> HIDE DEF s, all
    <3> QED BY <1>1, <3>1, BatchSpans
  <2> QED BY <2>1, <2>2
<1> HIDE DEF s
<1>4. SpansWithin(f.packets, all)
  BY <1>3, CloseoutSpans
<1> HIDE DEF f
<1>5. SpansWithin(file, all)
  BY <1>1 DEF SpansInv, SpansWithin
<1>6. SpansWithin(file \o f.packets, all)
  <2> HIDE DEF all
  <2> QED BY <1>4, <1>5, SpansJoin
<1> QED BY <1>1, <1>2, <1>3, <1>6 DEF SpansInv

LEMMA SpansInvStep == FileInv /\ BarsInv /\ SpansInv /\ [Next]_vars => SpansInv'
<1> SUFFICES ASSUME FileInv, BarsInv, SpansInv, [Next]_vars PROVE SpansInv'
  OBVIOUS
<1>1. CASE UNCHANGED <<spans, file, emitted>>
  BY <1>1 DEF SpansInv
<1>2. ASSUME NEW p \in Monitored, NEW item \in Collections \cup Losses, AddItem(p, item) PROVE SpansInv'
  BY <1>1, <1>2 DEF AddItem, Hand, state
<1>3. ASSUME NEW p \in Monitored, AddRss(p) PROVE SpansInv'
  BY <1>1, <1>3 DEF AddRss, Hand, state
<1>4. ASSUME NEW p \in Monitored, NEW ts \in 0..MaxTime, AddInstant(p, ts) PROVE SpansInv'
  BY <1>1, <1>4 DEF AddInstant, Hand, state
<1>5. ASSUME NEW live \in SUBSET Monitored, ReportLiveness(live) PROVE SpansInv'
  <2> DEFINE seen == [p \in live |-> {clock}]
  <2>1. /\ ~emitted /\ spans' = Widen(spans, seen) /\ UNCHANGED <<emitted, file>>
    BY <1>5 DEF ReportLiveness, Live
  <2>2. DOMAIN seen \subseteq Processes /\ \A p \in DOMAIN seen : IsFiniteSet(seen[p]) /\ seen[p] \subseteq Int
    BY ProcessesAssumption, FS_Singleton DEF FileInv
  <2> HIDE DEF seen
  <2>3. SpansLast(spans')
    BY <2>1, <2>2, WidenLasts DEF FileInv, SpansInv
  <2> QED BY <2>1, <2>3 DEF SpansInv
<1>6. ASSUME NEW p \in Monitored, Retire(p) PROVE SpansInv'
  BY <1>1, <1>6 DEF Retire, state
<1>7. ASSUME NEW files \in Captures, NEW normalize \in BOOLEAN, Combine(files, normalize) PROVE SpansInv'
  BY <1>1, <1>7 DEF Combine, state
<1>8. CASE Tick
  BY <1>1, <1>8 DEF Tick, state
<1>9. CASE Flush
  BY <1>9, SpansInvFlush
<1>10. CASE Close
  BY <1>10, SpansInvClose
<1>11. CASE UNCHANGED vars
  BY <1>1, <1>11 DEF vars, state
<1> QED BY <1>2, <1>3, <1>4, <1>5, <1>6, <1>7, <1>8, <1>9, <1>10, <1>11 DEF Next

LEMMA SpansInvInit == Init => SpansInv
<1> SUFFICES ASSUME Init PROVE SpansInv
  OBVIOUS
<1>1. file = <<>> /\ ~emitted /\ DOMAIN spans = {}
  BY DEF Init
<1> QED BY <1>1, EmptyIsSeq DEF SpansInv, SpansWithin, SpansLast

LEMMA SpansInvLaminar == FileInv /\ BarsInv /\ SpansInv => SpansAreLaminar
<1> SUFFICES ASSUME FileInv, BarsInv, SpansInv PROVE SpansAreLaminar
  OBVIOUS
<1> DEFINE ends == Clipped(spans)
<1>0. SpansOK(spans) /\ SpansLast(spans) /\ DOMAIN file = 1..Len(file)
  BY SeqFacts DEF FileInv, SpansInv
<1>1. ASSUME NEW a \in Spans
      PROVE  emitted /\ \E p \in DOMAIN spans : a = SpanBegin(p, spans)
  <2>1. a \in ToSet(file) /\ IsSpan(a)
    BY DEF Spans, Begins, Packets, ToSet, IsSpan
  <2> QED BY <2>1 DEF SpansInv, SpansWithin, SpansOf
<1>2. ASSUME emitted, NEW p \in DOMAIN spans PROVE SpanBegin(p, spans) \in Spans
  <2>1. SpanOf(p) \in BarsOut
    BY <1>2 DEF BarsOut
  <2>2. PICK i \in 1..Len(file) : IsBar(file[i]) /\ MarkOf(file[i]) = SpanOf(p)
    BY <2>1 DEF BarsInv, Draws
  <2>3. file[i].type = "begin" /\ file[i].row = LifetimesRow /\ file[i].name = p
    BY <2>2 DEF IsBar, MarkOf, SpanOf
  <2>4. file[i] \in Spans
    BY <1>0, <2>3 DEF Spans, Begins, Packets
  <2>5. PICK q \in DOMAIN spans : file[i] = SpanBegin(q, spans)
    BY <1>1, <2>4
  <2>6. q = p
    <3>1. SpanBegin(q, spans).name = q
      BY SliceIs
    <3> QED BY <2>3, <2>5, <3>1
  <2> QED BY <2>4, <2>5, <2>6
<1>3. \A p \in DOMAIN spans :
        /\ SpanBegin(p, spans).ts = spans[p].start /\ SpanBegin(p, spans).stop = ends[p]
        /\ SpanBegin(p, spans).args.real_start = spans[p].start
        /\ SpanBegin(p, spans).args.real_stop = spans[p].stop
        /\ SpanBegin(p, spans).args.clipped = (ends[p] # spans[p].stop)
  <2> SUFFICES ASSUME NEW p \in DOMAIN spans
               PROVE  /\ SpanBegin(p, spans).ts = spans[p].start /\ SpanBegin(p, spans).stop = ends[p]
                      /\ SpanBegin(p, spans).args.real_start = spans[p].start
                      /\ SpanBegin(p, spans).args.real_stop = spans[p].stop
                      /\ SpanBegin(p, spans).args.clipped = (ends[p] # spans[p].stop)
    BY Zenon
  <2>1. /\ SpanBegin(p, spans).ts = spans[p].start /\ SpanBegin(p, spans).stop = ends[p]
        /\ SpanBegin(p, spans).args =
             [real_start |-> spans[p].start, real_stop |-> spans[p].stop,
              clipped |-> ends[p] # spans[p].stop]
    BY SliceIs
  <2> HIDE DEF ends
  <2> QED BY <2>1
<1>4. /\ \A p \in DOMAIN spans : DrawnTo(spans, DOMAIN spans, p, ends[p])
      /\ \A p, q \in DOMAIN spans : Laminar(spans[p].start, ends[p], spans[q].start, ends[q])
  BY <1>0, ClippedSpans
<1> HIDE DEF ends
<1>5. ASSUME NEW a \in Spans
      PROVE  /\ a.ts = a.args.real_start /\ a.ts <= a.stop /\ a.stop <= a.args.real_stop
             /\ a.args.clipped => \E b \in Spans : /\ b.ts = a.stop + 1
                                                   /\ b.ts <= a.args.real_stop
                                                   /\ a.args.real_stop < b.args.real_stop
  <2>1. emitted /\ \E p \in DOMAIN spans : a = SpanBegin(p, spans)
    BY <1>1
  <2>2. PICK p \in DOMAIN spans : a = SpanBegin(p, spans)
    BY <2>1
  <2>3. DrawnTo(spans, DOMAIN spans, p, ends[p])
    BY <1>4
  <2>4. a.ts = spans[p].start /\ a.stop = ends[p] /\ a.args.real_start = spans[p].start
        /\ a.args.real_stop = spans[p].stop /\ a.args.clipped = (ends[p] # spans[p].stop)
    BY <1>3, <2>2
  <2>5. a.args.clipped => \E b \in Spans : /\ b.ts = a.stop + 1
                                           /\ b.ts <= a.args.real_stop
                                           /\ a.args.real_stop < b.args.real_stop
    <3> SUFFICES ASSUME a.args.clipped
                 PROVE  \E b \in Spans : /\ b.ts = a.stop + 1
                                         /\ b.ts <= a.args.real_stop
                                         /\ a.args.real_stop < b.args.real_stop
      BY Zenon
    <3>1. ends[p] # spans[p].stop
      BY <2>4
    <3>2. PICK q \in DOMAIN spans : /\ spans[q].start = ends[p] + 1
                                    /\ spans[q].start <= spans[p].stop
                                    /\ spans[p].stop < spans[q].stop
      BY <2>3, <3>1 DEF DrawnTo
    <3>3. SpanBegin(q, spans) \in Spans
      BY <1>2, <2>1
    <3>4. SpanBegin(q, spans).ts = spans[q].start /\ SpanBegin(q, spans).args.real_stop = spans[q].stop
      BY <1>3
    <3> QED BY <2>4, <3>2, <3>3, <3>4
  <2> QED BY <2>3, <2>4, <2>5 DEF DrawnTo
<1>6. ASSUME NEW a \in Spans, NEW b \in Spans PROVE Laminar(a.ts, a.stop, b.ts, b.stop)
  <2>1. PICK p \in DOMAIN spans : a = SpanBegin(p, spans)
    BY <1>1
  <2>2. PICK q \in DOMAIN spans : b = SpanBegin(q, spans)
    BY <1>1
  <2> QED BY <1>3, <1>4, <2>1, <2>2
<1> QED BY <1>5, <1>6 DEF SpansAreLaminar, Laminar

(***************************************************************************)
(* On the shared row any two spans are disjoint or nested; each keeps its  *)
(* start, is never widened, and is cut short only by one that crosses it:  *)
(* whatever the processes were seen to do, and however many there are.     *)
(***************************************************************************)
THEOREM DrawnSpansAreLaminar == Spec => []SpansAreLaminar
<1>1. Init => FileInv /\ BarsInv /\ SpansInv
  BY FileInvInit, BarsInvInit, SpansInvInit
<1>2. (FileInv /\ BarsInv /\ SpansInv) /\ [Next]_vars => (FileInv /\ BarsInv /\ SpansInv)'
  BY FileInvStep, BarsInvStep, SpansInvStep
<1>3. FileInv /\ BarsInv /\ SpansInv => SpansAreLaminar
  BY SpansInvLaminar
<1> QED BY <1>1, <1>2, <1>3, PTL DEF Spec

-----------------------------------------------------------------------------
(* What the reads of a process come to, packet by packet. *)

Measures == {"sampled", "lost", "pause"}

Weight(packet, p, m) ==
  IF ~IsRead(packet) \/ packet.row[2] # p THEN 0
  ELSE IF m # "sampled" THEN packet.args[m]
  ELSE IF packet.name = "GC Pause" THEN 1 ELSE 0

Weights(seq, p, m) == [i \in DOMAIN seq |-> Weight(seq[i], p, m)]
Weigh(seq, p, m) == SumOf(Weights(seq, p, m))

(* A sequence of packets whose weights are numbers. *)
Weighed(seq, p, m) == IsSeq(seq) /\ \A i \in 1..Len(seq) : Weight(seq[i], p, m) \in Int

LEMMA WeightsAre ==
  ASSUME NEW seq, NEW p, NEW m, Weighed(seq, p, m)
  PROVE  /\ Len(seq) \in Nat /\ Len(Weights(seq, p, m)) = Len(seq)
         /\ \A i \in 1..Len(seq) : /\ Weights(seq, p, m)[i] = Weight(seq[i], p, m)
                                   /\ Weight(seq[i], p, m) \in Int
<1> DEFINE w == Weights(seq, p, m)
           n == Len(seq)
<1>1. n \in Nat /\ DOMAIN seq = 1..n
  BY SeqFacts DEF Weighed
<1>2. DOMAIN w = 1..n /\ w = [i \in 1..n |-> w[i]] /\ \A i \in 1..n : w[i] = Weight(seq[i], p, m)
  BY <1>1 DEF Weights
<1> HIDE DEF w, n
<1>3. Len(w) = n
  BY <1>1, <1>2, MadeSeq
<1> QED BY <1>1, <1>2, <1>3 DEF Weighed, w, n

LEMMA WeighJoins ==
  ASSUME NEW p, NEW m, NEW a, NEW b, Weighed(a, p, m), Weighed(b, p, m)
  PROVE  /\ Weighed(a \o b, p, m) /\ Weigh(a \o b, p, m) = Weigh(a, p, m) + Weigh(b, p, m)
         /\ Weigh(a, p, m) \in Int /\ Weigh(b, p, m) \in Int
<1> DEFINE c == a \o b
           A == Weights(a, p, m)
           B == Weights(b, p, m)
           C == Weights(c, p, m)
<1>1. /\ IsSeq(c) /\ Len(a) \in Nat /\ Len(b) \in Nat /\ Len(c) = Len(a) + Len(b)
      /\ \A i \in 1..Len(a) : c[i] = a[i]
      /\ \A i \in 1..Len(b) : c[Len(a) + i] = b[i]
  BY SeqFacts, ConcatFacts DEF Weighed
<1> HIDE DEF c
<1>2. Weighed(c, p, m)
  <2>1. ASSUME NEW i \in 1..Len(c) PROVE Weight(c[i], p, m) \in Int
    <3>1. CASE i \in 1..Len(a)
      BY <1>1, <3>1 DEF Weighed
    <3>2. CASE i \notin 1..Len(a)
      <4>1. i - Len(a) \in 1..Len(b) /\ i = Len(a) + (i - Len(a))
        BY <1>1, <3>2
      <4>2. c[i] = b[i - Len(a)]
        BY <1>1, <4>1
      <4> QED BY <4>1, <4>2 DEF Weighed
    <3> QED BY <3>1, <3>2
  <2> QED BY <1>1, <2>1 DEF Weighed
<1>3. /\ Len(A) = Len(a) /\ \A i \in 1..Len(a) : A[i] = Weight(a[i], p, m) /\ A[i] \in Int
      /\ Len(B) = Len(b) /\ \A i \in 1..Len(b) : B[i] = Weight(b[i], p, m) /\ B[i] \in Int
      /\ Len(C) = Len(c) /\ \A i \in 1..Len(c) : C[i] = Weight(c[i], p, m) /\ C[i] \in Int
  BY <1>2, WeightsAre
<1>4. \A i \in 1..Len(a) : C[i] = A[i]
  <2>1. \A i \in 1..Len(a) : i \in 1..Len(c)
    BY <1>1
  <2> HIDE DEF A, B, C
  <2> QED BY <1>1, <1>3, <2>1
<1>5. \A i \in 1..Len(b) : C[Len(a) + i] = B[i]
  <2>1. \A i \in 1..Len(b) : Len(a) + i \in 1..Len(c)
    BY <1>1
  <2> HIDE DEF A, B, C
  <2> QED BY <1>1, <1>3, <2>1
<1> HIDE DEF A, B, C
<1>6. SumOf(C) = SumOf(A) + SumOf(B) /\ SumOf(A) \in Int /\ SumOf(B) \in Int
  <2>1. Len(A) \in Nat /\ Len(B) \in Nat /\ Len(C) = Len(A) + Len(B)
    BY <1>1, <1>3
  <2>2. \A i \in 1..Len(A) : C[i] = A[i] /\ A[i] \in Int
    BY <1>3, <1>4
  <2>3. \A i \in 1..Len(B) : C[Len(A) + i] = B[i] /\ B[i] \in Int
    BY <1>3, <1>5
  <2> QED BY <2>1, <2>2, <2>3, SumJoins
<1> QED BY <1>2, <1>6 DEF A, B, C, Weigh, c

LEMMA WeighIsInt ==
  ASSUME NEW p, NEW m, NEW a, Weighed(a, p, m)
  PROVE  Weigh(a, p, m) \in Int
BY WeighJoins

(* What has no reads weighs nothing. *)
NoReads(seq) == IsSeq(seq) /\ \A packet \in ToSet(seq) : ~IsRead(packet)

LEMMA NoReadsWeigh ==
  ASSUME NEW p, NEW m, NEW seq, NoReads(seq)
  PROVE  Weighed(seq, p, m) /\ Weigh(seq, p, m) = 0
<1>1. \A i \in 1..Len(seq) : Weight(seq[i], p, m) = 0
  BY SeqFacts DEF NoReads, Weight
<1>2. Weighed(seq, p, m)
  BY <1>1 DEF Weighed, NoReads
<1>3. /\ Len(seq) \in Nat /\ Len(Weights(seq, p, m)) = Len(seq)
      /\ \A i \in 1..Len(seq) : Weights(seq, p, m)[i] = 0
  BY <1>1, <1>2, WeightsAre
<1> QED BY <1>2, <1>3, SumOfNone DEF Weigh

LEMMA NoReadsJoin ==
  ASSUME NEW a, NEW b, NoReads(a), NoReads(b)
  PROVE  NoReads(a \o b)
BY ConcatFacts DEF NoReads

LEMMA NoReadsDrawn ==
  ASSUME NEW seq, NEW bars, Draws(seq, bars, {})
  PROVE  NoReads(seq)
BY SeqFacts DEF Draws, NoReads, ToSet

LEMMA NoReadsFlatten ==
  ASSUME NEW parts, IsSeq(parts), \A i \in 1..Len(parts) : NoReads(parts[i])
  PROVE  NoReads(FlattenSeq(parts))
<1>1. /\ IsSeq(FlattenSeq(parts))
      /\ \A e : e \in ToSet(FlattenSeq(parts)) <=> \E i \in 1..Len(parts) : e \in ToSet(parts[i])
  BY FlattenElements DEF NoReads
<1> QED BY <1>1 DEF NoReads

(* Parts one after another weigh what they weigh together. *)
LEMMA WeighFlattens ==
  ASSUME NEW p, NEW m, NEW parts, IsSeq(parts), \A i \in 1..Len(parts) : Weighed(parts[i], p, m)
  PROVE  /\ Weighed(FlattenSeq(parts), p, m)
         /\ Weigh(FlattenSeq(parts), p, m) = SumOf([i \in 1..Len(parts) |-> Weigh(parts[i], p, m)])
<1> DEFINE n == Len(parts)
           numbers == [i \in 1..n |-> Weigh(parts[i], p, m)]
<1>1. n \in Nat /\ DOMAIN parts = 1..n
  BY SeqFacts
<1>2. Len(numbers) = n /\ \A i \in 1..n : numbers[i] = Weigh(parts[i], p, m)
  <2>1. DOMAIN numbers = 1..n /\ numbers = [i \in 1..n |-> numbers[i]]
        /\ \A i \in 1..n : numbers[i] = Weigh(parts[i], p, m)
    OBVIOUS
  <2> HIDE DEF numbers
  <2> QED BY <1>1, <2>1, MadeSeq
<1> HIDE DEF numbers
<1>3. CASE n = 0
  <2>1. FlattenSeq(parts) = parts
    BY <1>1, <1>3, FlattenIs
  <2>2. NoReads(parts)
    <3>1. ToSet(parts) = {}
      BY <1>1, <1>3 DEF ToSet
    <3> QED BY <3>1 DEF NoReads
  <2>3. Weighed(parts, p, m) /\ Weigh(parts, p, m) = 0
    BY <2>2, NoReadsWeigh
  <2>4. SumOf(numbers) = 0
    BY <1>1, <1>2, <1>3, SumOfNone
  <2> QED BY <2>1, <2>3, <2>4 DEF numbers
<1>4. CASE n # 0
  <2>1. PICK h : IsFlatten(parts, h) /\ FlattenSeq(parts) = h[n]
    BY <1>1, <1>4, FlattenIs
  <2> DEFINE v == [k \in 0..n |-> IF k = 0 THEN 0 ELSE Weigh(h[k], p, m)]
             Right == {k \in Nat : k = 0 \/ (Weighed(h[k], p, m) /\ v[k] = v[k - 1] + numbers[k])}
  <2>2. v[0] = 0 /\ \A k \in 1..n : v[k] = Weigh(h[k], p, m)
    BY <1>1
  <2>3. \A k \in 1..n : h[k] = IF k = 1 THEN parts[k] ELSE h[k - 1] \o parts[k]
    BY <2>1 DEF IsFlatten
  <2> HIDE DEF v
  <2>4. 0 \in Right
    OBVIOUS
  <2>5. ASSUME NEW k \in 0..(n - 1), k \in Right PROVE k + 1 \in Right
    <3> DEFINE j == k + 1
    <3>1. j \in 1..n /\ j - 1 = k /\ j \in Nat /\ k \in Nat
      BY <1>1
    <3>2. Weighed(parts[j], p, m) /\ Weigh(parts[j], p, m) \in Int
      BY <3>1, WeighIsInt
    <3>3. CASE k = 0
      <4>1. h[j] = parts[j]
        BY <2>3, <3>1, <3>3
      <4>2. v[j] = numbers[j] /\ numbers[j] \in Int /\ v[k] = 0
        BY <1>2, <2>2, <3>1, <3>2, <3>3, <4>1
      <4>3. v[j] = v[j - 1] + numbers[j]
        <5> HIDE DEF j
        <5> QED BY <3>1, <4>2
      <4> QED BY <3>1, <3>2, <4>1, <4>3
    <3>4. CASE k # 0
      <4>1. h[j] = h[k] \o parts[j] /\ k \in 1..n
        <5>1. j # 1 /\ k \in 1..n
          BY <1>1, <3>1, <3>4
        <5>2. h[j] = IF j = 1 THEN parts[j] ELSE h[j - 1] \o parts[j]
          BY <2>3, <3>1
        <5> QED BY <3>1, <5>1, <5>2
      <4>2. Weighed(h[k], p, m)
        BY <2>5, <3>4
      <4>3. Weighed(h[j], p, m) /\ Weigh(h[j], p, m) = Weigh(h[k], p, m) + Weigh(parts[j], p, m)
        <5> HIDE DEF j
        <5> QED BY <3>2, <4>1, <4>2, WeighJoins
      <4>4. v[j] = v[j - 1] + numbers[j]
        <5> HIDE DEF j
        <5> QED BY <1>2, <2>2, <3>1, <4>1, <4>3
      <4> QED BY <3>1, <4>3, <4>4
    <3> QED BY <3>3, <3>4
  <2>6. \A k \in 0..n : k \in Right
    <3> HIDE DEF Right
    <3> QED BY <1>1, <2>4, <2>5, UpTo
  <2>7. Adds(numbers, n, v)
    <3>1. \A k \in 1..n : k \in 0..n /\ k # 0
      BY <1>1
    <3> QED BY <2>2, <2>6, <3>1 DEF Adds
  <2>8. SumOf(numbers) = v[n]
    BY <1>1, <1>2, <2>7, SumIs
  <2>9. Weighed(h[n], p, m) /\ v[n] = Weigh(h[n], p, m)
    <3>1. n \in 0..n /\ n \in 1..n
      BY <1>1, <1>4
    <3> QED BY <1>4, <2>2, <2>6, <3>1
  <2> QED BY <2>1, <2>8, <2>9 DEF numbers
<1> QED BY <1>3, <1>4

-----------------------------------------------------------------------------
(* What a batch counts is what its packets weigh. *)

EventWeight(event, p, m) ==
  IF Owner(event) # p THEN 0
  ELSE IF m = "sampled" THEN IF IsPause(event) THEN 1 ELSE 0
  ELSE IF IsLoss(event) THEN event[m] ELSE 0

EventWeights(events, p, m) == [i \in 1..Len(events) |-> EventWeight(events[i], p, m)]

LEMMA PacketsWeigh ==
  ASSUME NEW event, EventOK(event), NEW p, NEW m \in Measures
  PROVE  /\ Weighed(PacketsOf(event), p, m)
         /\ Weigh(PacketsOf(event), p, m) = EventWeight(event, p, m)
<1> DEFINE seq == PacketsOf(event)
<1>1. CASE event.type = "slice"
  <2> DEFINE one == [type |-> "begin", row |-> event.row, name |-> event.name, ts |-> event.ts,
                     stop |-> event.stop, args |-> [lost |-> event.lost, pause |-> event.pause]]
             two == [type |-> "end", row |-> event.row, name |-> {}, ts |-> event.stop]
  <2>1. seq = <<one, two>>
    BY <1>1 DEF PacketsOf, Pair
  <2>2. /\ one.type = "begin" /\ one.row = event.row /\ one.name = event.name
        /\ one.args["lost"] = event.lost /\ one.args["pause"] = event.pause
    OBVIOUS
  <2>3. two.type = "end"
    OBVIOUS
  <2> HIDE DEF one, two
  <2>4. /\ event.row[1] \in {"thread", "loss"}
        /\ event.lost \in Int /\ event.pause \in Int
        /\ event.row[1] = "thread" => event.lost = 0 /\ event.pause = 0
        /\ event.row[1] = "loss" => event.name # "GC Pause"
    BY ONLY <1>1, EventOK(event) DEF EventOK
  <2>5. Weight(one, p, m) = EventWeight(event, p, m) /\ Weight(one, p, m) \in Int
    <3>1. IsRead(one)
      BY <2>2, <2>4 DEF IsRead
    <3>2. one.row[2] = Owner(event)
      BY <2>2 DEF Owner
    <3>3. CASE Owner(event) # p
      BY <3>2, <3>3 DEF Weight, EventWeight
    <3>4. CASE Owner(event) = p /\ m = "sampled"
      <4>1. one.name = "GC Pause" <=> IsPause(event)
        BY <1>1, <2>2, <2>4 DEF IsPause
      <4>2. Weight(one, p, m) = (IF one.name = "GC Pause" THEN 1 ELSE 0)
        BY <3>1, <3>2, <3>4 DEF Weight
      <4>3. EventWeight(event, p, m) = (IF IsPause(event) THEN 1 ELSE 0)
        BY <3>4 DEF EventWeight
      <4>4. CASE IsPause(event)
        <5>1. Weight(one, p, m) = 1 /\ EventWeight(event, p, m) = 1
          BY <4>1, <4>2, <4>3, <4>4, Zenon
        <5> QED BY <5>1
      <4>5. CASE ~IsPause(event)
        <5>1. Weight(one, p, m) = 0 /\ EventWeight(event, p, m) = 0
          BY <4>1, <4>2, <4>3, <4>5, Zenon
        <5> QED BY <5>1
      <4> QED BY <4>4, <4>5
    <3>5. CASE Owner(event) = p /\ m # "sampled"
      <4>1. Weight(one, p, m) = one.args[m] /\ EventWeight(event, p, m) = IF IsLoss(event) THEN event[m] ELSE 0
        BY <3>1, <3>2, <3>5 DEF Weight, EventWeight
      <4>2. m \in {"lost", "pause"} /\ one.args[m] = event[m] /\ event[m] \in Int
        BY <2>2, <2>4, <3>5 DEF Measures
      <4>3. IsLoss(event) \/ event[m] = 0
        BY <1>1, <2>4, <4>2 DEF IsLoss
      <4> QED BY <4>1, <4>2, <4>3
    <3> QED BY <3>3, <3>4, <3>5
  <2>6. Weight(two, p, m) = 0
    BY <2>3 DEF Weight, IsRead
  <2>7. IsSeq(seq) /\ Len(seq) = 2 /\ seq[1] = one /\ seq[2] = two
    BY <2>1 DEF IsSeq, ToSet
  <2> HIDE DEF seq
  <2>8. Weighed(seq, p, m)
    BY <2>5, <2>6, <2>7 DEF Weighed
  <2>9. /\ Len(Weights(seq, p, m)) = 2
        /\ Weights(seq, p, m)[1] = Weight(one, p, m) /\ Weights(seq, p, m)[2] = 0
    BY <2>6, <2>7, <2>8, WeightsAre
  <2> DEFINE v == [k \in 0..2 |-> IF k = 0 THEN 0 ELSE Weight(one, p, m)]
  <2>10. Adds(Weights(seq, p, m), 2, v) /\ v[2] = Weight(one, p, m)
    BY <2>5, <2>9 DEF Adds
  <2> HIDE DEF v
  <2>11. SumOf(Weights(seq, p, m)) = v[2]
    <3> DEFINE w == Weights(seq, p, m)
    <3>1. Len(w) \in Nat /\ Adds(w, Len(w), v) /\ Len(w) = 2
      BY <2>9, <2>10
    <3> HIDE DEF w
    <3>2. SumOf(w) = v[Len(w)]
      BY <3>1, SumIs
    <3> QED BY <3>1, <3>2 DEF w
  <2> QED BY <2>5, <2>8, <2>10, <2>11 DEF Weigh, seq
<1>2. CASE event.type # "slice"
  <2>1. EventWeight(event, p, m) = 0
    BY <1>2 DEF EventWeight, IsPause, IsLoss
  <2>2. \E packet : seq = <<packet>> /\ ~IsRead(packet)
    <3>1. CASE event.type = "instant"
      BY <3>1 DEF PacketsOf, IsRead
    <3>2. CASE event.type = "counter"
      BY <3>2 DEF PacketsOf, IsRead
    <3> QED BY <1>2, <3>1, <3>2 DEF EventOK
  <2> HIDE DEF seq
  <2>3. NoReads(seq)
    BY <2>2, OneIsSeq DEF NoReads
  <2> QED BY <2>1, <2>3, NoReadsWeigh DEF seq
<1> QED BY <1>1, <1>2

LEMMA CountedIs ==
  ASSUME NEW events, EventsOK(events), NEW sums, NEW p \in Processes, NEW m \in Measures
  PROVE  Counted(sums, events)[p][m] = sums[p][m] + SumOf(EventWeights(events, p, m))
<1> DEFINE n == Len(events)
           own == {i \in DOMAIN events : Owner(events[i]) = p}
<1>1. n \in Nat /\ DOMAIN events = 1..n
  BY SeqFacts DEF EventsOK
<1>2. Counted(sums, events)[p] =
        [sampled |-> sums[p].sampled + Cardinality({i \in own : IsPause(events[i])}),
         lost |-> sums[p].lost + InLosses(events, own, "lost"),
         pause |-> sums[p].pause + InLosses(events, own, "pause")]
  BY DEF Counted
<1>3. CASE m = "sampled"
  <2> DEFINE places == {i \in own : IsPause(events[i])}
  <2>1. Cardinality(places) = SumOf([i \in 1..n |-> IF i \in places THEN 1 ELSE 0])
    <3>1. places \in SUBSET (1..n)
      BY <1>1
    <3> HIDE DEF places, n
    <3> QED BY <1>1, <3>1, SumCounts
  <2>2. \A i \in 1..n : (IF i \in places THEN 1 ELSE 0) = EventWeight(events[i], p, m)
    BY <1>1, <1>3 DEF EventWeight
  <2>3. [i \in 1..n |-> IF i \in places THEN 1 ELSE 0] = EventWeights(events, p, m)
    <3> HIDE DEF places
    <3> QED BY <2>2 DEF EventWeights
  <2> HIDE DEF own
  <2> QED BY <1>2, <1>3, <2>1, <2>3
<1>4. CASE m # "sampled"
  <2>1. m \in {"lost", "pause"}
    BY <1>4 DEF Measures
  <2>2. \A i \in 1..n : (IF i \in own /\ IsLoss(events[i]) THEN events[i][m] ELSE 0)
                          = EventWeight(events[i], p, m)
    BY <1>1, <1>4 DEF EventWeight
  <2>3. [i \in DOMAIN events |-> IF i \in own /\ IsLoss(events[i]) THEN events[i][m] ELSE 0]
          = EventWeights(events, p, m)
    <3> HIDE DEF own
    <3> QED BY <1>1, <2>2 DEF EventWeights
  <2>4. InLosses(events, own, m) = SumOf(EventWeights(events, p, m))
    <3> HIDE DEF own
    <3> QED BY <2>3 DEF InLosses
  <2> HIDE DEF own
  <2> QED BY <1>2, <2>1, <2>4
<1> QED BY <1>3, <1>4

-----------------------------------------------------------------------------
(* The slices a sequence of packets begins on the rows of a process. *)

IsOwnBar(packet) == packet.type = "begin" /\ packet.row[1] = "process"

(* Its reads and its Lifetime bars are among these. *)
Begun(seq, reads, bars) ==
  /\ IsSeq(seq)
  /\ \A packet \in ToSet(seq) : /\ IsRead(packet) => packet \in reads
                                /\ IsOwnBar(packet) => packet \in bars

LEMMA BegunJoin ==
  ASSUME NEW a, NEW b, NEW reads, NEW bars, Begun(a, reads, bars), Begun(b, reads, bars)
  PROVE  Begun(a \o b, reads, bars)
BY ConcatFacts DEF Begun

LEMMA BegunFlatten ==
  ASSUME NEW parts, NEW reads, NEW bars, IsSeq(parts),
         \A i \in 1..Len(parts) : Begun(parts[i], reads, bars)
  PROVE  Begun(FlattenSeq(parts), reads, bars)
<1>1. /\ IsSeq(FlattenSeq(parts))
      /\ \A e : e \in ToSet(FlattenSeq(parts)) <=> \E i \in 1..Len(parts) : e \in ToSet(parts[i])
  BY FlattenElements DEF Begun
<1> QED BY <1>1 DEF Begun

LEMMA BegunByNone ==
  ASSUME NEW seq, Draws(seq, {}, {}), NEW reads, NEW bars
  PROVE  Begun(seq, reads, bars)
<1>1. IsSeq(seq) /\ \A i \in 1..Len(seq) : ~IsBar(seq[i]) /\ ~IsRead(seq[i])
  BY DEF Draws
<1>2. \A packet : IsOwnBar(packet) => IsBar(packet)
  BY DEF IsOwnBar, IsBar
<1> QED BY <1>1, <1>2, SeqFacts DEF Begun, ToSet

LEMMA BegunIsNoReads ==
  ASSUME NEW seq, NEW bars, Begun(seq, {}, bars)
  PROVE  NoReads(seq)
BY DEF Begun, NoReads

(* The packet that begins a slice, and a bar. *)
ReadBegin(event) ==
  [type |-> "begin", row |-> event.row, name |-> event.name, ts |-> event.ts, stop |-> event.stop,
   args |-> [lost |-> event.lost, pause |-> event.pause]]
BarBegin(p, known, sums, done) ==
  [type |-> "begin", row |-> ProcessRow(p), name |-> "Lifetime", ts |-> known[p].start,
   stop |-> known[p].stop,
   args |-> [interpreters |-> Cardinality({row \in done : row[1] = "thread" /\ row[2] = p}),
             totals |-> sums[p]]]

ReadsIn(events) == {ReadBegin(events[i]) : i \in {k \in 1..Len(events) : events[k].type = "slice"}}

LEMMA EventBegun ==
  ASSUME NEW event, EventOK(event), NEW reads, NEW bars,
         event.type = "slice" => ReadBegin(event) \in reads
  PROVE  Begun(PacketsOf(event), reads, bars)
<1>1. CASE event.type = "slice"
  <2> DEFINE one == ReadBegin(event)
             two == [type |-> "end", row |-> event.row, name |-> {}, ts |-> event.stop]
  <2>1. PacketsOf(event) = <<one, two>>
    BY <1>1 DEF PacketsOf, Pair, ReadBegin
  <2>2. two.type = "end" /\ one.row = event.row
    BY DEF ReadBegin
  <2>3. event.row[1] # "process"
    BY ONLY <1>1, EventOK(event) DEF EventOK
  <2> HIDE DEF one, two
  <2>4. IsSeq(<<one, two>>) /\ ToSet(<<one, two>>) = {one, two}
    BY DEF IsSeq, ToSet
  <2>5. one \in reads /\ ~IsOwnBar(one) /\ ~IsRead(two) /\ ~IsOwnBar(two)
    BY <1>1, <2>2, <2>3 DEF IsOwnBar, IsRead, one
  <2>6. Begun(<<one, two>>, reads, bars)
    BY <2>4, <2>5 DEF Begun
  <2> QED BY <2>1, <2>6
<1>2. CASE event.type # "slice"
  <2>1. \E packet : PacketsOf(event) = <<packet>> /\ ~IsRead(packet) /\ ~IsOwnBar(packet)
    <3>1. CASE event.type = "instant"
      BY <3>1 DEF PacketsOf, IsRead, IsOwnBar
    <3>2. CASE event.type = "counter"
      BY <3>2 DEF PacketsOf, IsRead, IsOwnBar
    <3> QED BY <1>2, <3>1, <3>2 DEF EventOK
  <2> QED BY <2>1, OneIsSeq DEF Begun
<1> QED BY <1>1, <1>2

LEMMA BarBegun ==
  ASSUME NEW p, NEW known, NEW sums, NEW done, NEW reads, NEW bars,
         BarBegin(p, known, sums, done) \in bars
  PROVE  Begun(Bar(p, known, sums, done), reads, bars)
<1> DEFINE one == BarBegin(p, known, sums, done)
           two == [type |-> "end", row |-> ProcessRow(p), name |-> {}, ts |-> known[p].stop]
<1>1. Bar(p, known, sums, done) = <<one, two>>
  BY DEF Bar, Pair, BarBegin
<1>2. two.type = "end" /\ one.row = ProcessRow(p)
  BY DEF BarBegin
<1> HIDE DEF one, two
<1>3. IsSeq(<<one, two>>) /\ ToSet(<<one, two>>) = {one, two}
  BY DEF IsSeq, ToSet
<1>4. one \in bars /\ ~IsRead(one) /\ ~IsRead(two) /\ ~IsOwnBar(two)
  BY <1>2, ProcessRowIs DEF IsOwnBar, IsRead, one
<1>5. Begun(<<one, two>>, reads, bars)
  BY <1>3, <1>4 DEF Begun
<1> QED BY <1>1, <1>5

LEMMA SpanBegun ==
  ASSUME NEW p, NEW span, NEW stop, NEW reads, NEW bars
  PROVE  Begun(LifetimeSlice(p, span, stop), reads, bars)
<1> DEFINE args == [real_start |-> span.start, real_stop |-> span.stop, clipped |-> stop # span.stop]
           one == [type |-> "begin", row |-> LifetimesRow, name |-> p, ts |-> span.start,
                   stop |-> stop, args |-> args]
           two == [type |-> "end", row |-> LifetimesRow, name |-> {p}, ts |-> stop]
<1>1. LifetimeSlice(p, span, stop) = <<one, two>>
  BY DEF LifetimeSlice, Pair
<1>2. two.type = "end" /\ one.row[1] = "Processes"
  BY DEF LifetimesRow
<1> HIDE DEF one, two
<1>3. IsSeq(<<one, two>>) /\ ToSet(<<one, two>>) = {one, two}
  BY DEF IsSeq, ToSet
<1>4. ~IsRead(one) /\ ~IsOwnBar(one) /\ ~IsRead(two) /\ ~IsOwnBar(two)
  BY <1>2 DEF IsOwnBar, IsRead
<1>5. Begun(<<one, two>>, reads, bars)
  BY <1>3, <1>4 DEF Begun
<1> QED BY <1>1, <1>5

BarsIn(events) ==
  {BarBegin(p, Known(events), Sums(events), Done(events)) : p \in ToSet(Left(events))}

LEMMA LeftBegun ==
  ASSUME IsSeq(retired), NEW events
  PROVE  Begun(LeftPackets(events), {}, BarsIn(events))
<1> DEFINE left == Left(events)
           bars == BarsIn(events)
           own(p) == OwnRow(events, p)
           bar(p) == OwnBar(events, p)
           parts == [i \in DOMAIN left |-> own(left[i]) \o bar(left[i])]
<1>1. IsSeq(left) /\ Len(left) \in Nat /\ DOMAIN left = 1..Len(left)
  BY LeftIs, SeqFacts
<1>2. LeftPackets(events) = FlattenSeq(parts)
  BY DEF LeftPackets
<1>3. ASSUME NEW p \in ToSet(left) PROVE Begun(own(p) \o bar(p), {}, bars)
  <2>1. Begun(own(p), {}, bars)
    <3>1. IsSeq(<<ProcessRow(p)>>)
      BY OneIsSeq
    <3>2. Draws(Descriptors(<<ProcessRow(p)>>, Pids(events), After(events), Known(events)), {}, {})
      BY <3>1, DescriptorsDraw
    <3>3. Draws(own(p), {}, {})
      BY <3>2, DrawsNothing DEF OwnRow
    <3> HIDE DEF own, bars
    <3> QED BY <3>3, BegunByNone
  <2>2. Begun(bar(p), {}, bars)
    <3>1. BarBegin(p, Known(events), Sums(events), Done(events)) \in bars
      BY <1>3 DEF BarsIn
    <3> HIDE DEF bars
    <3> QED BY <3>1, BarBegun DEF OwnBar
  <2> HIDE DEF own, bar, bars
  <2> QED BY <2>1, <2>2, BegunJoin
<1>4. /\ DOMAIN parts = 1..Len(left) /\ parts = [i \in 1..Len(left) |-> parts[i]]
      /\ \A i \in 1..Len(left) : parts[i] = own(left[i]) \o bar(left[i]) /\ left[i] \in ToSet(left)
  BY <1>1, SeqFacts
<1> HIDE DEF left, own, bar, parts, bars
<1>5. IsSeq(parts) /\ Len(parts) = Len(left)
  BY <1>1, <1>4, MadeSeq
<1>6. \A i \in 1..Len(parts) : Begun(parts[i], {}, bars)
  BY <1>3, <1>4, <1>5
<1>7. Begun(FlattenSeq(parts), {}, bars)
  BY <1>5, <1>6, BegunFlatten
<1> QED BY <1>2, <1>7 DEF bars

LEMMA EventsBegun ==
  ASSUME NEW events, EventsOK(events), NEW bars
  PROVE  Begun(EventPackets(events), ReadsIn(events), bars)
<1> DEFINE n == Len(events)
           reads == ReadsIn(events)
           parts == [i \in DOMAIN events |-> PacketsOf(events[i])]
<1>1. n \in Nat /\ DOMAIN events = 1..n /\ \A i \in 1..n : EventOK(events[i])
  BY SeqFacts DEF EventsOK
<1>2. EventPackets(events) = FlattenSeq(parts)
  BY DEF EventPackets
<1>3. /\ DOMAIN parts = 1..n /\ parts = [i \in 1..n |-> parts[i]]
      /\ \A i \in 1..n : parts[i] = PacketsOf(events[i])
  BY <1>1
<1>4. \A i \in 1..n : events[i].type = "slice" => ReadBegin(events[i]) \in reads
  BY DEF ReadsIn
<1> HIDE DEF parts, reads, n
<1>5. IsSeq(parts) /\ Len(parts) = n
  BY <1>1, <1>3, MadeSeq
<1>6. \A i \in 1..Len(parts) : Begun(parts[i], reads, bars)
  BY <1>1, <1>3, <1>4, <1>5, EventBegun
<1>7. Begun(FlattenSeq(parts), reads, bars)
  BY <1>5, <1>6, BegunFlatten
<1> QED BY <1>2, <1>7 DEF reads

LEMMA BatchBegun ==
  ASSUME IsSeq(retired), NEW events, EventsOK(events)
  PROVE  Begun(WriteEvents(events).packets, ReadsIn(events), BarsIn(events))
<1> DEFINE R == RowPackets(events)
           E == EventPackets(events)
           L == LeftPackets(events)
           reads == ReadsIn(events)
           bars == BarsIn(events)
<1>1. WriteEvents(events).packets = (R \o E) \o L
  BY BatchIs
<1>2. Begun(R, reads, bars)
  <2>1. Draws(R, {}, {})
    BY NewRowsAre, DescriptorsDraw DEF RowPackets
  <2> HIDE DEF R, reads, bars
  <2> QED BY <2>1, BegunByNone
<1>3. Begun(E, reads, bars)
  BY EventsBegun
<1>4. Begun(L, reads, bars)
  BY LeftBegun DEF Begun
<1> HIDE DEF R, E, L, reads, bars
<1>5. Begun(R \o E, reads, bars)
  BY <1>2, <1>3, BegunJoin
<1>6. Begun((R \o E) \o L, reads, bars)
  BY <1>4, <1>5, BegunJoin
<1> QED BY <1>1, <1>6 DEF reads, bars

LEMMA BatchWeighs ==
  ASSUME IsSeq(retired), NEW events, EventsOK(events), NEW p, NEW m \in Measures
  PROVE  /\ Weighed(WriteEvents(events).packets, p, m)
         /\ Weigh(WriteEvents(events).packets, p, m) = SumOf(EventWeights(events, p, m))
<1> DEFINE R == RowPackets(events)
           E == EventPackets(events)
           L == LeftPackets(events)
           n == Len(events)
           parts == [i \in DOMAIN events |-> PacketsOf(events[i])]
<1>1. WriteEvents(events).packets = (R \o E) \o L
  BY BatchIs
<1>2. NoReads(R)
  <2>1. Draws(R, {}, {})
    BY NewRowsAre, DescriptorsDraw DEF RowPackets
  <2> HIDE DEF R
  <2> QED BY <2>1, NoReadsDrawn
<1>3. NoReads(L)
  BY LeftBegun, BegunIsNoReads
<1>4. Weighed(E, p, m) /\ Weigh(E, p, m) = SumOf(EventWeights(events, p, m))
  <2>1. n \in Nat /\ DOMAIN events = 1..n /\ \A i \in 1..n : EventOK(events[i])
    BY SeqFacts DEF EventsOK
  <2>2. E = FlattenSeq(parts)
    BY DEF EventPackets
  <2>3. /\ DOMAIN parts = 1..n /\ parts = [i \in 1..n |-> parts[i]]
        /\ \A i \in 1..n : parts[i] = PacketsOf(events[i])
    BY <2>1
  <2> HIDE DEF parts, n, E
  <2>4. IsSeq(parts) /\ Len(parts) = n
    BY <2>1, <2>3, MadeSeq
  <2>5. \A i \in 1..n : /\ Weighed(parts[i], p, m)
                        /\ Weigh(parts[i], p, m) = EventWeight(events[i], p, m)
    BY <2>1, <2>3, PacketsWeigh
  <2>6. /\ Weighed(FlattenSeq(parts), p, m)
        /\ Weigh(FlattenSeq(parts), p, m) = SumOf([i \in 1..n |-> Weigh(parts[i], p, m)])
    BY <2>4, <2>5, WeighFlattens
  <2>7. [i \in 1..n |-> Weigh(parts[i], p, m)] = EventWeights(events, p, m)
    BY <2>5 DEF EventWeights, n
  <2> QED BY <2>2, <2>6, <2>7
<1> HIDE DEF R, E, L
<1>5. Weighed(R, p, m) /\ Weigh(R, p, m) = 0 /\ Weighed(L, p, m) /\ Weigh(L, p, m) = 0
  BY <1>2, <1>3, NoReadsWeigh
<1>6. Weighed(R \o E, p, m) /\ Weigh(R \o E, p, m) = Weigh(R, p, m) + Weigh(E, p, m) /\ Weigh(E, p, m) \in Int
  BY <1>4, <1>5, WeighJoins
<1> DEFINE Q == R \o E
<1>7. Weighed(Q, p, m) /\ Weigh(Q, p, m) = Weigh(E, p, m)
  BY <1>5, <1>6
<1> HIDE DEF Q
<1>8. Weighed(Q \o L, p, m) /\ Weigh(Q \o L, p, m) = Weigh(Q, p, m) + Weigh(L, p, m)
  BY <1>5, <1>7, WeighJoins
<1> QED BY <1>1, <1>4, <1>5, <1>6, <1>7, <1>8 DEF Q

(* The bars the closeout draws. *)
BarsLeft(s) == {BarBegin(p, s.spans, s.totals, FinalDone(s)) : p \in DOMAIN s.spans \ s.drawn}

LEMMA OwedBegun ==
  ASSUME NEW s, SpansOK(s.spans)
  PROVE  Begun(OwedPackets(s), {}, BarsLeft(s))
<1> DEFINE known == s.spans
           order == SweepOrder(known)
           n == Len(order)
           bars == BarsLeft(s)
           parts == [i \in DOMAIN order |-> OwedTo(s, order[i])]
<1>1. IsSeq(order) /\ ToSet(order) = DOMAIN known /\ n \in Nat /\ DOMAIN order = 1..n
  BY SweepTakesAll, SeqFacts
<1>2. ASSUME NEW p \in DOMAIN known PROVE Begun(OwedTo(s, p), {}, bars)
  <2> DEFINE slice == LifetimeSlice(p, known[p], Clipped(known)[p])
             bar == Bar(p, s.spans, s.totals, FinalDone(s))
             more == IF p \in s.drawn THEN <<>> ELSE bar
  <2>1. Begun(slice, {}, bars)
    BY SpanBegun
  <2>2. p \notin s.drawn => Begun(bar, {}, bars)
    <3> SUFFICES ASSUME p \notin s.drawn PROVE Begun(bar, {}, bars)
      OBVIOUS
    <3>1. BarBegin(p, s.spans, s.totals, FinalDone(s)) \in bars
      BY DEF BarsLeft
    <3> HIDE DEF bars
    <3> QED BY <3>1, BarBegun
  <2>3. Begun(<<>>, {}, bars)
    BY EmptyIsSeq DEF Begun
  <2>4. OwedTo(s, p) = slice \o more
    BY DEF OwedTo, Owed
  <2> HIDE DEF slice, bar, bars
  <2>5. Begun(more, {}, bars)
    BY <2>2, <2>3
  <2> HIDE DEF more
  <2> QED BY <2>1, <2>4, <2>5, BegunJoin
<1>3. OwedPackets(s) = FlattenSeq(parts)
  BY DEF OwedPackets
<1>4. /\ DOMAIN parts = 1..n /\ parts = [i \in 1..n |-> parts[i]]
      /\ \A i \in 1..n : parts[i] = OwedTo(s, order[i]) /\ order[i] \in DOMAIN known
  BY <1>1, SeqFacts
<1> HIDE DEF parts, bars, order
<1>5. IsSeq(parts) /\ Len(parts) = n
  BY <1>1, <1>4, MadeSeq
<1>6. \A i \in 1..Len(parts) : Begun(parts[i], {}, bars)
  BY <1>2, <1>4, <1>5
<1>7. Begun(FlattenSeq(parts), {}, bars)
  BY <1>5, <1>6, BegunFlatten
<1> QED BY <1>3, <1>7 DEF bars

(* The closeout adds no read, and the bars that are left. *)
LEMMA CloseoutBegun ==
  ASSUME NEW s, SpansOK(s.spans), NEW reads, NEW bars, Begun(s.packets, reads, bars)
  PROVE  /\ Begun(Finalize(s).packets, reads, bars \cup BarsLeft(s))
         /\ \A p, m : Weighed(s.packets, p, m) =>
              /\ Weighed(Finalize(s).packets, p, m)
              /\ Weigh(Finalize(s).packets, p, m) = Weigh(s.packets, p, m)
<1> DEFINE F == FinalRowPackets(s)
           S == SharedRowPackets(s)
           O == OwedPackets(s)
           P == s.packets
           all == bars \cup BarsLeft(s)
<1>1. Finalize(s).packets = ((P \o F) \o S) \o O
  BY CloseoutIs
<1>2. Draws(F, {}, {}) /\ Draws(S, {}, {})
  BY OneIsSeq, FinalRowsAre, DescriptorsDraw DEF FinalRowPackets, SharedRowPackets
<1>3. Begun(O, {}, BarsLeft(s))
  BY OwedBegun
<1> HIDE DEF F, S, O
<1>4. Begun(F, reads, all) /\ Begun(S, reads, all) /\ NoReads(F) /\ NoReads(S)
  <2> HIDE DEF all
  <2> QED BY <1>2, BegunByNone, NoReadsDrawn
<1>5. Begun(O, reads, all) /\ NoReads(O)
  BY <1>3 DEF Begun, NoReads
<1>6. Begun(P, reads, all)
  BY DEF Begun
<1> HIDE DEF P, all
<1>7. Begun(P \o F, reads, all)
  BY <1>4, <1>6, BegunJoin
<1>8. Begun((P \o F) \o S, reads, all)
  BY <1>4, <1>7, BegunJoin
<1>9. Begun(((P \o F) \o S) \o O, reads, all)
  BY <1>5, <1>8, BegunJoin
<1>10. ASSUME NEW p, NEW m, Weighed(P, p, m)
       PROVE  /\ Weighed(((P \o F) \o S) \o O, p, m)
              /\ Weigh(((P \o F) \o S) \o O, p, m) = Weigh(P, p, m)
  <2>1. /\ Weighed(F, p, m) /\ Weigh(F, p, m) = 0 /\ Weighed(S, p, m) /\ Weigh(S, p, m) = 0
        /\ Weighed(O, p, m) /\ Weigh(O, p, m) = 0
    BY <1>4, <1>5, NoReadsWeigh
  <2> DEFINE A == P \o F
             B == A \o S
  <2>2. Weighed(A, p, m) /\ Weigh(A, p, m) = Weigh(P, p, m) + Weigh(F, p, m) /\ Weigh(P, p, m) \in Int
    BY <1>10, <2>1, WeighJoins
  <2> HIDE DEF A
  <2>3. Weighed(B, p, m) /\ Weigh(B, p, m) = Weigh(A, p, m) + Weigh(S, p, m)
    BY <2>1, <2>2, WeighJoins
  <2> HIDE DEF B
  <2>4. Weighed(B \o O, p, m) /\ Weigh(B \o O, p, m) = Weigh(B, p, m) + Weigh(O, p, m)
    BY <2>1, <2>3, WeighJoins
  <2>5. Weigh(B \o O, p, m) = Weigh(P, p, m)
    BY ONLY <2>1, <2>2, <2>3, <2>4
  <2> QED BY <2>4, <2>5 DEF A, B
<1> QED BY <1>1, <1>9, <1>10 DEF P, all

-----------------------------------------------------------------------------
(* The interpreters of a process: its thread rows. *)

Threads(done, p) == {row \in done : row[1] = "thread" /\ row[2] = p}

(* A batch without rows of its own for a process finds no interpreter of it. *)
LEMMA BatchThreads ==
  ASSUME IsSeq(retired), NEW events, EventsOK(events), NEW p,
         \A i \in 1..Len(events) : Owner(events[i]) = p => events[i].row[1] = "process"
  PROVE  Threads(Done(events), p) = Threads(described, p)
<1>1. ASSUME NEW row \in ToSet(NewRows(events)) PROVE ~(row[1] = "thread" /\ row[2] = p)
  <2> SUFFICES ASSUME row[1] = "thread", row[2] = p PROVE FALSE
    OBVIOUS
  <2>1. PICK i \in 1..Len(events) : row = events[i].row
    BY NewRowsAre
  <2> QED BY <2>1 DEF Owner
<1>2. ASSUME NEW row \in ToSet(Leaving(events)) PROVE row[1] = "process"
  <2>1. IsSeq(LeftRows(events)) /\ \A r \in ToSet(LeftRows(events)) : r[1] = "process"
    <3>1. IsSeq(Left(events))
      BY LeftIs
    <3>2. LeftRows(events) = [i \in DOMAIN Left(events) |-> ProcessRow(Left(events)[i])]
      BY DEF LeftRows
    <3>3. /\ IsSeq(LeftRows(events))
          /\ \A r : r \in ToSet(LeftRows(events)) <=> \E q \in ToSet(Left(events)) : r = ProcessRow(q)
      BY <3>1, <3>2, ProcessRowsHang
    <3> QED BY <3>3, ProcessRowIs
  <2>2. ToSet(Leaving(events)) \subseteq ToSet(LeftRows(events))
    <3>1. Leaving(events) = FirstsIn(LeftRows(events), ToSet(LeftRows(events)) \ Shown(events))
      BY <2>1, FreshIs DEF Leaving
    <3> QED BY <2>1, <3>1, FirstsInFacts
  <2> QED BY <2>1, <2>2
<1> QED BY <1>1, <1>2 DEF Threads, Done, Shown

(* Nor does the closeout. *)
LEMMA CloseoutThreads ==
  ASSUME NEW s, SpansOK(s.spans), NEW p
  PROVE  Threads(FinalDone(s), p) = Threads(s.described, p)
<1>1. \A row \in ToSet(FinalRows(s)) : row[1] # "thread"
  BY FinalRowsAre
<1>2. LifetimesRow[1] = "Processes"
  BY DEF LifetimesRow
<1> QED BY <1>1, <1>2 DEF Threads, FinalDone, FinalShown

(* The rows that are out are as many as their descriptors. *)
LEMMA ThreadsAreOut ==
  ASSUME FileInv, NEW p
  PROVE  Cardinality(Threads(described, p))
           = Cardinality({i \in DescriptorsOf("thread") : file[i].row[2] = p})
<1> DEFINE places == {i \in DescriptorsOf("thread") : file[i].row[2] = p}
           rows == Threads(described, p)
           f == [i \in places |-> file[i].row]
<1>1. DOMAIN file = 1..Len(file) /\ Len(file) \in Nat /\ described = DescribedBy(file)
  BY SeqFacts DEF FileInv
<1>2. \A i \in places : i \in 1..Len(file) /\ file[i].type = "descriptor" /\ file[i].row \in rows
  BY <1>1 DEF DescriptorsOf, Packets, Threads, DescribedBy
<1>3. \A row \in rows : \E i \in places : file[i].row = row
  BY <1>1 DEF DescriptorsOf, Packets, Threads, DescribedBy
<1>4. ASSUME NEW i \in places, NEW j \in places, file[i].row = file[j].row PROVE i = j
  <2>1. ASSUME NEW k \in places, NEW m \in places, k < m PROVE file[k].row # file[m].row
    <3>1. /\ m \in 1..Len(file) /\ k \in 1..Len(file)
          /\ file[k].type = "descriptor" /\ file[m].type = "descriptor"
      BY <1>2
    <3>2. file[m].row \notin Before(file, m)
      BY <3>1 DEF FileInv, Sound
    <3>3. file[k].row \in Before(file, m)
      BY <2>1, <3>1 DEF Before
    <3> QED BY <3>2, <3>3
  <2>2. i \in Int /\ j \in Int
    BY <1>1, <1>2
  <2> QED BY <1>4, <2>1, <2>2
<1>5. IsFiniteSet(places)
  <2>1. places \subseteq 1..Len(file)
    BY <1>2
  <2>2. IsFiniteSet(1..Len(file))
    BY <1>1, FS_Interval
  <2> HIDE DEF places
  <2> QED BY <2>1, <2>2, FS_Subset
<1>6. f \in Bijection(places, rows)
  <2> HIDE DEF places, rows
  <2>1. f \in [places -> rows] /\ \A i \in places : f[i] = file[i].row
    BY <1>2
  <2> HIDE DEF f
  <2>2. \A i, j \in places : f[i] = f[j] => i = j
    BY <1>4, <2>1
  <2>3. \A row \in rows : \E i \in places : f[i] = row
    BY <1>3, <2>1
  <2> QED BY <2>1, <2>2, <2>3 DEF Bijection, Injection, IsInjective, Surjection
<1> HIDE DEF places, rows, f
<1>7. Cardinality(rows) = Cardinality(places)
  <2>1. ExistsBijection(places, rows)
    BY <1>6 DEF ExistsBijection
  <2> QED BY <1>5, <2>1, FS_Bijection
<1> QED BY <1>7 DEF places, rows

-----------------------------------------------------------------------------
(* What the packets of a file say of its processes, against what is known. *)

(* A read lies within the span of its process. *)
Spanned(read, known) ==
  /\ read.row[2] \in DOMAIN known /\ read.ts \in Int /\ read.stop \in Int
  /\ known[read.row[2]].start <= read.ts /\ read.stop <= known[read.row[2]].stop

(* A bar stands: it has counted and covers all that the packets have of its process. *)
Covers(bar, read) ==
  IsRead(read) /\ read.row[2] = bar.row[2] => bar.ts <= read.ts /\ read.stop <= bar.stop

Stands(bar, seq, s) ==
  /\ bar.row[2] \in s.drawn /\ bar.row = ProcessRow(bar.row[2])
  /\ bar.args.interpreters = Cardinality(Threads(s.described, bar.row[2]))
  /\ \A m \in Measures : bar.args.totals[m] = s.totals[bar.row[2]][m]
  /\ \A read \in ToSet(seq) : Covers(bar, read)

AddsUp(seq, sums) ==
  \A p \in Processes, m \in Measures : Weighed(seq, p, m) /\ sums[p][m] = Weigh(seq, p, m)

Whole(seq, s) ==
  /\ AddsUp(seq, s.totals)
  /\ \A packet \in ToSet(seq) : /\ IsRead(packet) => Spanned(packet, s.spans)
                                /\ IsOwnBar(packet) => Stands(packet, seq, s)

(***************************************************************************)
(* A bar is whole as long as nothing is read of its process any more: it   *)
(* is drawn for a process that was let go of, and what the buffer still    *)
(* gets of such a process is on its process row.                           *)
(***************************************************************************)
Parted(events, departed) ==
  \A i \in 1..Len(events) : Owner(events[i]) \in departed => events[i].row[1] = "process"

WholeInv ==
  /\ Whole(file, Unwritten)
  /\ ~emitted => drawn \subseteq gone /\ ToSet(retired) \subseteq gone /\ Parted(buffer, drawn)

LEMMA CloseoutWhole ==
  ASSUME NEW old, NEW s, IsSeq(old), IsSeq(s.packets), SpansOK(s.spans), s.drawn \subseteq DOMAIN s.spans,
         \A p \in Processes, m \in Measures : Weighed(old, p, m) /\ Weighed(s.packets, p, m),
         Whole(old \o s.packets, s)
  PROVE  Whole(old \o Finalize(s).packets, Finalize(s))
<1> DEFINE f == Finalize(s)
           P == s.packets
           Q == f.packets
           was == old \o P
           is == old \o Q
           all == ToSet(P) \cup BarsLeft(s)
<1>1. /\ f.spans = s.spans /\ f.totals = s.totals /\ f.drawn = DOMAIN s.spans /\ f.described = FinalDone(s)
  BY CloseoutIs
<1>2. Begun(P, ToSet(P), ToSet(P))
  BY DEF Begun
<1>3. /\ Begun(Q, ToSet(P), all)
      /\ \A p, m : Weighed(P, p, m) => Weighed(Q, p, m) /\ Weigh(Q, p, m) = Weigh(P, p, m)
  <2> HIDE DEF P
  <2> QED BY <1>2, CloseoutBegun DEF P
<1> HIDE DEF f
<1>4. IsSeq(Q)
  BY <1>3 DEF Begun
<1>5. ToSet(was) = ToSet(old) \cup ToSet(P) /\ ToSet(is) = ToSet(old) \cup ToSet(Q)
  BY <1>4, ConcatFacts
<1>6. AddsUp(is, f.totals)
  <2> SUFFICES ASSUME NEW p \in Processes, NEW m \in Measures
               PROVE  Weighed(is, p, m) /\ f.totals[p][m] = Weigh(is, p, m)
    BY DEF AddsUp
  <2>1. Weighed(old, p, m) /\ Weighed(P, p, m) /\ s.totals[p][m] = Weigh(was, p, m)
    BY DEF Whole, AddsUp
  <2>2. Weighed(Q, p, m) /\ Weigh(Q, p, m) = Weigh(P, p, m)
    BY <1>3, <2>1
  <2> HIDE DEF P, Q
  <2>3. Weigh(was, p, m) = Weigh(old, p, m) + Weigh(P, p, m)
    BY <2>1, WeighJoins
  <2>4. Weighed(is, p, m) /\ Weigh(is, p, m) = Weigh(old, p, m) + Weigh(Q, p, m)
    BY <2>1, <2>2, WeighJoins
  <2> QED BY <1>1, <2>1, <2>2, <2>3, <2>4
<1>7. ASSUME NEW packet \in ToSet(is), IsRead(packet)
      PROVE  packet \in ToSet(was) /\ Spanned(packet, f.spans)
  <2>1. packet \in ToSet(was)
    BY <1>3, <1>5, <1>7 DEF Begun
  <2> QED BY <1>1, <1>7, <2>1 DEF Whole
<1>8. ASSUME NEW packet \in ToSet(is), IsOwnBar(packet)
      PROVE  Stands(packet, is, f)
  <2>0. packet \in ToSet(was) \/ packet \in BarsLeft(s)
    BY <1>3, <1>5, <1>8 DEF Begun
  <2>1. CASE packet \in ToSet(was)
    <3>1. Stands(packet, was, s)
      BY <1>8, <2>1 DEF Whole
    <3>2. Threads(f.described, packet.row[2]) = Threads(s.described, packet.row[2])
      BY <1>1, CloseoutThreads
    <3>3. \A read \in ToSet(is) : Covers(packet, read)
      <4> SUFFICES ASSUME NEW read \in ToSet(is) PROVE Covers(packet, read)
        BY Zenon
      <4>1. CASE IsRead(read)
        BY <1>7, <3>1, <4>1 DEF Stands
      <4> QED BY <4>1 DEF Covers
    <3> QED BY <1>1, <3>1, <3>2, <3>3 DEF Stands
  <2>2. CASE packet \in BarsLeft(s)
    <3>1. PICK p \in DOMAIN s.spans \ s.drawn : packet = BarBegin(p, s.spans, s.totals, FinalDone(s))
      BY <2>2 DEF BarsLeft
    <3>2. /\ packet.row = ProcessRow(p) /\ packet.ts = s.spans[p].start /\ packet.stop = s.spans[p].stop
          /\ packet.args.interpreters = Cardinality(Threads(f.described, p))
          /\ packet.args.totals = f.totals[p]
      BY <1>1, <3>1 DEF BarBegin, Threads
    <3>3. packet.row[2] = p
      BY <3>2, ProcessRowIs
    <3>4. \A read \in ToSet(is) : Covers(packet, read)
      <4> SUFFICES ASSUME NEW read \in ToSet(is), IsRead(read), read.row[2] = p
                   PROVE  packet.ts <= read.ts /\ read.stop <= packet.stop
        BY <3>3 DEF Covers
      <4>1. Spanned(read, s.spans)
        BY <1>1, <1>7
      <4> QED BY <3>2, <4>1 DEF Spanned
    <3> QED BY <1>1, <3>1, <3>2, <3>3, <3>4 DEF Stands
  <2> QED BY <2>0, <2>1, <2>2
<1> HIDE DEF is
<1>9. Whole(is, f)
  BY <1>6, <1>7, <1>8 DEF Whole
<1> QED BY <1>9 DEF is, f

(* What is on the process row counts for nothing. *)
LEMMA NothingCounted ==
  ASSUME NEW events, EventsOK(events), NEW p, NEW m \in Measures,
         \A i \in 1..Len(events) : Owner(events[i]) = p => events[i].row[1] = "process"
  PROVE  SumOf(EventWeights(events, p, m)) = 0
<1> DEFINE w == EventWeights(events, p, m)
           n == Len(events)
<1>1. n \in Nat
  BY SeqFacts DEF EventsOK
<1>2. DOMAIN w = 1..n /\ w = [i \in 1..n |-> w[i]] /\ \A i \in 1..n : w[i] = EventWeight(events[i], p, m)
  BY DEF EventWeights
<1>3. \A i \in 1..n : EventWeight(events[i], p, m) = 0
  BY DEF EventWeight, IsPause, IsLoss
<1> HIDE DEF w, n
<1>4. Len(w) = n
  BY <1>1, <1>2, MadeSeq
<1>5. SumOf(w) = 0
  BY <1>1, <1>2, <1>3, <1>4, SumOfNone
<1> QED BY <1>5 DEF w

LEMMA BatchWhole ==
  ASSUME FileInv, BarsInv, WholeInv, ~emitted
  PROVE  /\ Whole(file \o WriteEvents(buffer).packets, WriteEvents(buffer))
         /\ IsSeq(WriteEvents(buffer).packets)
         /\ \A p \in Processes, m \in Measures :
              Weighed(file, p, m) /\ Weighed(WriteEvents(buffer).packets, p, m)
<1> DEFINE events == buffer
           s == WriteEvents(events)
           Q == s.packets
           is == file \o Q
           n == Len(events)
<1>1. /\ IsSeq(file) /\ IsSeq(retired) /\ SpansOK(spans) /\ EventsOK(events)
      /\ Parted(events, drawn) /\ Whole(file, Unwritten)
  BY DEF FileInv, WholeInv
<1>2. /\ s.spans = Known(events) /\ s.totals = Sums(events) /\ s.described = Done(events)
      /\ s.drawn = drawn \cup ToSet(Left(events))
  BY BatchIs
<1>3. /\ Unwritten.spans = spans /\ Unwritten.totals = totals /\ Unwritten.described = described
      /\ Unwritten.drawn = drawn
  BY DEF Unwritten
<1>4. Begun(Q, ReadsIn(events), BarsIn(events)) /\ IsSeq(Q)
  BY <1>1, BatchBegun DEF Begun
<1>5. /\ DOMAIN s.spans = DOMAIN spans \cup Owners(events)
      /\ \A p \in DOMAIN spans : s.spans[p].start <= spans[p].start /\ spans[p].stop <= s.spans[p].stop
      /\ \A i \in 1..n :
           /\ s.spans[Owner(events[i])].start <= events[i].ts
           /\ events[i].type = "slice" => events[i].stop <= s.spans[Owner(events[i])].stop
      /\ SpansOK(s.spans)
  BY <1>1, <1>2, PrePassKnows DEF Known
<1>6. n \in Nat /\ DOMAIN events = 1..n /\ \A i \in 1..n : EventOK(events[i])
  BY <1>1, SeqFacts DEF EventsOK
<1>7. ToSet(is) = ToSet(file) \cup ToSet(Q)
  BY <1>1, <1>4, ConcatFacts
<1>8. ASSUME NEW p \in Processes, NEW m \in Measures
      PROVE  /\ Weighed(file, p, m) /\ Weighed(Q, p, m) /\ Weighed(is, p, m)
             /\ s.totals[p][m] = Weigh(is, p, m)
             /\ s.totals[p][m] = totals[p][m] + SumOf(EventWeights(events, p, m))
             /\ totals[p][m] \in Int
  <2>1. Weighed(file, p, m) /\ totals[p][m] = Weigh(file, p, m)
    BY <1>1, <1>3 DEF Whole, AddsUp
  <2>2. Weighed(Q, p, m) /\ Weigh(Q, p, m) = SumOf(EventWeights(events, p, m))
    BY <1>1, BatchWeighs
  <2>3. s.totals[p][m] = totals[p][m] + SumOf(EventWeights(events, p, m))
    BY <1>1, <1>2, CountedIs DEF Sums
  <2> HIDE DEF s, Q
  <2>4. Weighed(is, p, m) /\ Weigh(is, p, m) = Weigh(file, p, m) + Weigh(Q, p, m) /\ Weigh(file, p, m) \in Int
    BY <2>1, <2>2, WeighJoins
  <2> QED BY <2>1, <2>2, <2>3, <2>4
<1> HIDE DEF s, is, n
<1>9. ASSUME NEW packet \in ToSet(Q), IsRead(packet)
      PROVE  /\ Spanned(packet, s.spans)
             /\ \E i \in 1..n : events[i].type = "slice" /\ packet.row = events[i].row
  <2>1. PICK i \in 1..n : events[i].type = "slice" /\ packet = ReadBegin(events[i])
    BY <1>4, <1>9 DEF Begun, ReadsIn, n
  <2>2. packet.row = events[i].row /\ packet.ts = events[i].ts /\ packet.stop = events[i].stop
    BY <2>1 DEF ReadBegin
  <2>3. packet.row[2] = Owner(events[i]) /\ Owner(events[i]) \in Owners(events)
    BY <1>6, <2>2 DEF Owner, Owners
  <2>4. events[i].ts \in Int /\ events[i].stop \in Int
    <3>1. EventOK(events[i])
      BY <1>6
    <3> QED BY ONLY <2>1, <3>1 DEF EventOK
  <2> QED BY <1>5, <2>1, <2>2, <2>3, <2>4 DEF Spanned
<1>10. ASSUME NEW packet \in ToSet(file), IsRead(packet) PROVE Spanned(packet, s.spans)
  <2> DEFINE p == packet.row[2]
  <2>1. Spanned(packet, spans)
    BY <1>1, <1>3, <1>10 DEF Whole
  <2>2. /\ p \in DOMAIN spans /\ packet.ts \in Int /\ packet.stop \in Int
        /\ spans[p].start <= packet.ts /\ packet.stop <= spans[p].stop
    BY <2>1 DEF Spanned
  <2>3. spans[p] \in [start : Int, stop : Int] /\ s.spans[p] \in [start : Int, stop : Int]
    BY <1>1, <1>5, <2>2 DEF SpansOK
  <2>4. s.spans[p].start <= packet.ts /\ packet.stop <= s.spans[p].stop
    <3>1. s.spans[p].start <= spans[p].start /\ spans[p].stop <= s.spans[p].stop
      BY <1>5, <2>2
    <3> QED BY ONLY <2>2, <2>3, <3>1
  <2> QED BY <1>5, <2>2, <2>4 DEF Spanned
<1>11. ASSUME NEW bar \in ToSet(file), IsOwnBar(bar) PROVE Stands(bar, is, s)
  <2> DEFINE p == bar.row[2]
  <2>1. Stands(bar, file, Unwritten)
    BY <1>1, <1>11 DEF Whole
  <2>2. p \in drawn /\ p \in Processes
    BY <1>1, <1>3, <2>1 DEF Stands, BarsInv, SpansOK
  <2>3. \A i \in 1..n : Owner(events[i]) = p => events[i].row[1] = "process"
    BY <1>1, <2>2 DEF Parted, n
  <2> HIDE DEF p
  <2>4. Threads(Done(events), p) = Threads(described, p)
    BY <1>1, <2>3, BatchThreads DEF n
  <2>5. ASSUME NEW m \in Measures PROVE s.totals[p][m] = totals[p][m]
    <3>1. SumOf(EventWeights(events, p, m)) = 0
      BY <1>1, <2>3, NothingCounted DEF n
    <3> QED BY <1>8, <2>2, <3>1
  <2>6. ASSUME NEW read \in ToSet(is) PROVE Covers(bar, read)
    <3> SUFFICES ASSUME IsRead(read), read.row[2] = p PROVE bar.ts <= read.ts /\ read.stop <= bar.stop
      BY DEF Covers, p
    <3>1. read \in ToSet(file)
      <4> SUFFICES ASSUME read \in ToSet(Q) PROVE FALSE
        BY <1>7
      <4>1. PICK i \in 1..n : events[i].type = "slice" /\ read.row = events[i].row
        BY <1>9
      <4>2. read.row[1] = "process"
        BY <2>3, <4>1 DEF Owner
      <4> QED BY <4>2 DEF IsRead
    <3> QED BY <2>1, <3>1 DEF Stands, Covers, p
  <2> QED BY <1>2, <1>3, <2>1, <2>2, <2>4, <2>5, <2>6 DEF Stands, p
<1>12. ASSUME NEW bar \in ToSet(Q), IsOwnBar(bar) PROVE Stands(bar, is, s)
  <2>1. PICK p \in ToSet(Left(events)) : bar = BarBegin(p, Known(events), Sums(events), Done(events))
    BY <1>4, <1>12 DEF Begun, BarsIn
  <2>2. /\ bar.row = ProcessRow(p) /\ bar.ts = s.spans[p].start /\ bar.stop = s.spans[p].stop
        /\ bar.args.interpreters = Cardinality(Threads(s.described, p))
        /\ bar.args.totals = s.totals[p]
    BY <1>2, <2>1 DEF BarBegin, Threads
  <2>3. bar.row[2] = p /\ p \in s.drawn
    BY <1>2, <2>2, ProcessRowIs
  <2>4. \A read \in ToSet(is) : Covers(bar, read)
    <3> SUFFICES ASSUME NEW read \in ToSet(is), IsRead(read), read.row[2] = p
                 PROVE  bar.ts <= read.ts /\ read.stop <= bar.stop
      BY <2>3 DEF Covers
    <3>1. Spanned(read, s.spans)
      BY <1>7, <1>9, <1>10
    <3> QED BY <2>2, <3>1 DEF Spanned
  <2> QED BY <2>2, <2>3, <2>4 DEF Stands
<1>13. Whole(is, s)
  <2>1. AddsUp(is, s.totals)
    BY <1>8 DEF AddsUp
  <2> QED BY <1>7, <1>9, <1>10, <1>11, <1>12, <2>1 DEF Whole
<1> QED BY <1>4, <1>8, <1>13 DEF is, s

LEMMA WholeInvInit == Init => WholeInv
<1> SUFFICES ASSUME Init PROVE WholeInv
  OBVIOUS
<1>1. /\ file = <<>> /\ drawn = {} /\ retired = <<>> /\ gone = {} /\ buffer = <<>>
      /\ totals = [p \in Processes |-> NoTotals]
  BY DEF Init
<1>2. IsSeq(<<>>) /\ ToSet(<<>>) = {}
  BY EmptyIsSeq
<1>3. NoReads(<<>>)
  BY <1>2 DEF NoReads
<1>4. ASSUME NEW p \in Processes, NEW m \in Measures
      PROVE  Weighed(<<>>, p, m) /\ totals[p][m] = Weigh(<<>>, p, m)
  <2>1. Weighed(<<>>, p, m) /\ Weigh(<<>>, p, m) = 0
    BY <1>3, NoReadsWeigh
  <2>2. totals[p][m] = 0
    BY <1>1 DEF NoTotals, Measures
  <2> QED BY <2>1, <2>2
<1>5. AddsUp(<<>>, Unwritten.totals)
  BY <1>4 DEF AddsUp, Unwritten
<1>6. Whole(file, Unwritten)
  BY <1>1, <1>2, <1>5 DEF Whole
<1>7. Parted(buffer, drawn)
  BY <1>1 DEF Parted
<1> QED BY <1>1, <1>2, <1>6, <1>7 DEF WholeInv

(* Whether packets are whole depends on these parts of a state alone. *)
LEMMA SameWhole ==
  ASSUME NEW seq, NEW s, NEW t, Whole(seq, s),
         t.spans = s.spans, t.totals = s.totals, t.drawn = s.drawn, t.described = s.described
  PROVE  Whole(seq, t)
<1>1. \A packet : Stands(packet, seq, s) => Stands(packet, seq, t)
  BY DEF Stands
<1> QED BY <1>1 DEF Whole

LEMMA WholeInvFlush == FileInv /\ BarsInv /\ WholeInv /\ Flush => WholeInv'
<1> SUFFICES ASSUME FileInv, BarsInv, WholeInv, Flush PROVE WholeInv'
  OBVIOUS
<1> DEFINE s == WriteEvents(buffer)
<1>1. /\ ~emitted /\ retired' = <<>> /\ buffer' = <<>> /\ gone' = gone
      /\ spans' = s.spans /\ totals' = s.totals /\ drawn' = s.drawn /\ described' = s.described
      /\ file' = file \o s.packets
  BY DEF Flush, Become, caller
<1>2. Whole(file \o s.packets, s)
  BY <1>1, BatchWhole
<1>3. s.drawn = drawn \cup (ToSet(retired) \cap (DOMAIN s.spans \ drawn))
  BY <1>1, BatchBars
<1> HIDE DEF s
<1>4. Whole(file', Unwritten')
  <2> DEFINE t == Unwritten'
  <2>1. /\ t.spans = s.spans /\ t.totals = s.totals /\ t.drawn = s.drawn /\ t.described = s.described
    BY <1>1 DEF Unwritten
  <2> HIDE DEF t
  <2>2. Whole(file', t)
    BY <1>1, <1>2, <2>1, SameWhole
  <2> QED BY <2>2 DEF t
<1>5. drawn' \subseteq gone' /\ ToSet(retired') \subseteq gone'
  BY <1>1, <1>3, EmptyIsSeq DEF WholeInv
<1>6. Parted(buffer', drawn')
  BY <1>1 DEF Parted
<1> QED BY <1>4, <1>5, <1>6 DEF WholeInv

LEMMA WholeInvClose == FileInv /\ BarsInv /\ WholeInv /\ Close => WholeInv'
<1> SUFFICES ASSUME FileInv, BarsInv, WholeInv, Close PROVE WholeInv'
  OBVIOUS
<1> DEFINE s == LastBatch
           f == Finalize(s)
<1>1. /\ ~emitted /\ emitted' /\ spans' = f.spans /\ totals' = f.totals /\ drawn' = f.drawn
      /\ described' = f.described /\ file' = file \o f.packets
  BY DEF Close, Become, LastBatch
<1>2. /\ Whole(file \o s.packets, s) /\ IsSeq(s.packets) /\ SpansOK(s.spans) /\ s.drawn \subseteq DOMAIN s.spans
      /\ \A p \in Processes, m \in Measures : Weighed(file, p, m) /\ Weighed(s.packets, p, m)
  <2>1. CASE buffer = <<>>
    <3>1. s = Unwritten /\ s.packets = <<>> /\ s.spans = spans /\ s.drawn = drawn
      BY <2>1 DEF LastBatch, Unwritten
    <3>2. file \o <<>> = file
      BY DEF FileInv, IsSeq
    <3>3. ASSUME NEW p \in Processes, NEW m \in Measures
          PROVE  Weighed(file, p, m) /\ Weighed(<<>>, p, m)
      <4>1. NoReads(<<>>)
        BY EmptyIsSeq DEF NoReads
      <4>2. Weighed(<<>>, p, m)
        BY <4>1, NoReadsWeigh
      <4> QED BY <4>2 DEF WholeInv, Whole, AddsUp
    <3> QED BY <3>1, <3>2, <3>3, EmptyIsSeq DEF WholeInv, FileInv, BarsInv
  <2>2. CASE buffer # <<>>
    <3>1. s = WriteEvents(buffer)
      BY <2>2 DEF LastBatch
    <3>2. /\ SpansOK(s.spans) /\ DOMAIN s.spans = DOMAIN spans \cup Owners(buffer)
          /\ s.drawn = drawn \cup (ToSet(retired) \cap (DOMAIN s.spans \ drawn))
      BY <1>1, <3>1, BatchBars
    <3>3. s.drawn \subseteq DOMAIN s.spans
      BY <3>2 DEF BarsInv
    <3> HIDE DEF s
    <3> QED BY <1>1, <3>1, <3>2, <3>3, BatchWhole
  <2> QED BY <2>1, <2>2
<1>3. Whole(file \o f.packets, f)
  <2> HIDE DEF s
  <2> QED BY <1>2, CloseoutWhole DEF FileInv
<1> HIDE DEF f
<1>4. Whole(file', Unwritten')
  <2> DEFINE t == Unwritten'
  <2>1. /\ t.spans = f.spans /\ t.totals = f.totals /\ t.drawn = f.drawn /\ t.described = f.described
    BY <1>1 DEF Unwritten
  <2> HIDE DEF t
  <2>2. Whole(file', t)
    BY <1>1, <1>3, <2>1, SameWhole
  <2> QED BY <2>2 DEF t
<1> QED BY <1>1, <1>4 DEF WholeInv

(* The run hands over nothing but instants of a process it has let go of. *)
LEMMA WholeInvHand ==
  ASSUME FileInv, WholeInv, NEW events, EventsOK(events), Hand(events), ~emitted, Parted(events, gone)
  PROVE  WholeInv'
<1>1. buffer' = buffer \o events /\ UNCHANGED <<state, retired, file, gone>>
  BY DEF Hand
<1>2. Unwritten' = Unwritten /\ drawn' = drawn
  BY <1>1 DEF Unwritten, state
<1>3. /\ Len(buffer) \in Nat /\ Len(events) \in Nat /\ Len(buffer') = Len(buffer) + Len(events)
      /\ \A i \in 1..Len(buffer) : buffer'[i] = buffer[i]
      /\ \A i \in 1..Len(events) : buffer'[Len(buffer) + i] = events[i]
  BY <1>1, SeqFacts, ConcatFacts DEF FileInv, EventsOK
<1>4. ASSUME NEW i \in 1..Len(buffer'), Owner(buffer'[i]) \in drawn PROVE buffer'[i].row[1] = "process"
  <2>1. CASE i \in 1..Len(buffer)
    BY <1>3, <1>4, <2>1 DEF WholeInv, Parted
  <2>2. CASE i \notin 1..Len(buffer)
    <3>1. i - Len(buffer) \in 1..Len(events) /\ i = Len(buffer) + (i - Len(buffer))
      BY <1>3, <2>2
    <3>2. buffer'[i] = events[i - Len(buffer)]
      BY <1>3, <3>1
    <3>3. Owner(buffer'[i]) \in gone
      BY <1>4 DEF WholeInv
    <3> QED BY <3>1, <3>2, <3>3 DEF Parted
  <2> QED BY <2>1, <2>2
<1>5. Parted(buffer', drawn')
  BY <1>2, <1>4 DEF Parted
<1> QED BY <1>1, <1>2, <1>5 DEF WholeInv

LEMMA WholeInvStep == FileInv /\ BarsInv /\ WholeInv /\ [Next]_vars => WholeInv'
<1> SUFFICES ASSUME FileInv, BarsInv, WholeInv, [Next]_vars PROVE WholeInv'
  OBVIOUS
<1>0. ASSUME UNCHANGED <<described, row_pids, spans, totals, ranks, drawn, emitted, retired, file, buffer, gone>>
      PROVE  WholeInv'
  <2>1. Unwritten' = Unwritten
    BY <1>0 DEF Unwritten
  <2> QED BY <1>0, <2>1 DEF WholeInv
<1>1. ASSUME NEW p \in Monitored, NEW item \in Collections \cup Losses, AddItem(p, item) PROVE WholeInv'
  <2> DEFINE events == Convert(p, item)
  <2>1. EventsOK(events) /\ Owners(events) \subseteq {p}
    BY ItemsAreOK, ConvertsToEvents, ProcessesAssumption
  <2>2. Hand(events) /\ p \notin gone /\ ~emitted
    BY <1>1 DEF AddItem, Calling, Live
  <2> HIDE DEF events
  <2>3. DOMAIN events = 1..Len(events)
    BY <2>1, SeqFacts DEF EventsOK
  <2>4. Parted(events, gone)
    BY <2>1, <2>2, <2>3 DEF Parted, Owners
  <2> QED BY <2>1, <2>2, <2>4, WholeInvHand
<1>2. ASSUME NEW p \in Monitored, AddRss(p) PROVE WholeInv'
  <2> DEFINE events == <<Counter(ProcessRow(p), <<"rss">>, clock)>>
  <2>1. EventsOK(events) /\ Owners(events) = {p}
    BY OtherEvents, ProcessesAssumption DEF FileInv
  <2>2. Hand(events) /\ p \notin gone /\ ~emitted
    BY <1>2 DEF AddRss, Calling, Live
  <2> HIDE DEF events
  <2>3. DOMAIN events = 1..Len(events)
    BY <2>1, SeqFacts DEF EventsOK
  <2>4. Parted(events, gone)
    BY <2>1, <2>2, <2>3 DEF Parted, Owners
  <2> QED BY <2>1, <2>2, <2>4, WholeInvHand
<1>3. ASSUME NEW p \in Monitored, NEW ts \in 0..MaxTime, AddInstant(p, ts) PROVE WholeInv'
  <2> DEFINE one == Instant(p, ts)
             events == <<one>>
  <2>0. ts \in Int /\ p \in Processes
    BY ProcessesAssumption
  <2>1. EventsOK(events)
    BY <2>0, OtherEvents
  <2>2. Hand(events) /\ ~emitted
    BY <1>3 DEF AddInstant, Calling, Live
  <2>3. one.row[1] = "process"
    BY ProcessRowIs DEF Instant
  <2> HIDE DEF one
  <2>4. Len(events) = 1 /\ events[1] = one
    BY OneIsSeq
  <2> HIDE DEF events
  <2>5. Parted(events, gone)
    BY <2>3, <2>4 DEF Parted
  <2> QED BY <2>1, <2>2, <2>5, WholeInvHand
<1>4. ASSUME NEW live \in SUBSET Monitored, ReportLiveness(live) PROVE WholeInv'
  <2>1. /\ ~emitted /\ spans' = Widen(spans, [p \in live |-> {clock}])
        /\ UNCHANGED <<described, totals, drawn, emitted, retired, file, buffer, gone>>
    BY <1>4 DEF ReportLiveness, Live, caller
  <2>2. /\ SpansOK(spans') /\ DOMAIN spans' = DOMAIN spans \cup live
        /\ \A p \in DOMAIN spans : spans'[p].start <= spans[p].start /\ spans[p].stop <= spans'[p].stop
    BY <2>1, LivenessWidens DEF FileInv
  <2>3. /\ Unwritten.spans = spans /\ Unwritten.totals = totals /\ Unwritten.drawn = drawn
        /\ Unwritten.described = described
    BY DEF Unwritten
  <2> DEFINE t == Unwritten'
  <2>4. /\ t.spans = spans' /\ t.totals = totals /\ t.drawn = drawn /\ t.described = described
    BY <2>1 DEF Unwritten
  <2> HIDE DEF t
  <2>5. ASSUME NEW read \in ToSet(file), Spanned(read, spans) PROVE Spanned(read, spans')
    <3> DEFINE p == read.row[2]
    <3>1. /\ p \in DOMAIN spans /\ read.ts \in Int /\ read.stop \in Int
          /\ spans[p].start <= read.ts /\ read.stop <= spans[p].stop
      BY <2>5 DEF Spanned
    <3>2. spans[p] \in [start : Int, stop : Int] /\ spans'[p] \in [start : Int, stop : Int]
      BY <2>2, <3>1 DEF SpansOK, FileInv
    <3>3. spans'[p].start <= spans[p].start /\ spans[p].stop <= spans'[p].stop
      BY <2>2, <3>1
    <3>4. spans'[p].start <= read.ts /\ read.stop <= spans'[p].stop
      BY ONLY <3>1, <3>2, <3>3
    <3> QED BY <2>2, <3>1, <3>4 DEF Spanned
  <2>6. \A packet : Stands(packet, file, Unwritten) => Stands(packet, file, t)
    BY <2>3, <2>4 DEF Stands
  <2>7. Whole(file, t)
    BY <2>3, <2>4, <2>5, <2>6 DEF Whole, WholeInv
  <2> QED BY <2>1, <2>7 DEF WholeInv, t
<1>5. ASSUME NEW p \in Monitored, Retire(p) PROVE WholeInv'
  <2>1. /\ gone' = gone \cup {p} /\ retired' = Append(retired, p) /\ UNCHANGED <<state, file, buffer>>
    BY <1>5 DEF Retire
  <2>2. Unwritten' = Unwritten /\ drawn' = drawn /\ emitted' = emitted
    BY <2>1 DEF Unwritten, state
  <2>3. ToSet(retired') = ToSet(retired) \cup {p}
    BY <2>1, AppendFacts DEF FileInv
  <2> QED BY <2>1, <2>2, <2>3 DEF WholeInv
<1>6. ASSUME NEW files \in Captures, NEW normalize \in BOOLEAN, Combine(files, normalize) PROVE WholeInv'
  <2>1. spans = <<>> /\ UNCHANGED <<state, retired, file, gone>>
    BY <1>6 DEF Combine
  <2>2. Unwritten' = Unwritten /\ drawn' = drawn /\ emitted' = emitted
    BY <2>1 DEF Unwritten, state
  <2>3. drawn = {}
    BY <2>1 DEF BarsInv
  <2> QED BY <2>1, <2>2, <2>3 DEF WholeInv, Parted
<1>7. CASE Tick
  BY <1>0, <1>7 DEF Tick, state
<1>8. CASE Flush
  BY <1>8, WholeInvFlush
<1>9. CASE Close
  BY <1>9, WholeInvClose
<1>10. CASE UNCHANGED vars
  BY <1>0, <1>10 DEF vars, state, caller
<1> QED BY <1>1, <1>2, <1>3, <1>4, <1>5, <1>6, <1>7, <1>8, <1>9, <1>10 DEF Next

(* Such a bar is the only one of its process, and says what the file holds of it. *)
LEMMA WholeInvBars == FileInv /\ BarsInv /\ WholeInv => BarIsWhole
<1> SUFFICES ASSUME FileInv, BarsInv, WholeInv,
                    NEW b \in Packets("begin"), file[b].row[1] = "process"
             PROVE  LET p == file[b].row[2]
                        bar == file[b].args
                    IN  /\ Cardinality(Begins(ProcessRow(p))) = 1
                        /\ bar.totals.sampled = Cardinality({i \in ReadsOf(p) : file[i].name = "GC Pause"})
                        /\ bar.totals.lost = Carried(ReadsOf(p), "lost")
                        /\ bar.totals.pause = Carried(ReadsOf(p), "pause")
                        /\ bar.interpreters = Cardinality({i \in DescriptorsOf("thread") : file[i].row[2] = p})
                        /\ \A i \in ReadsOf(p) : file[b].ts <= file[i].ts /\ file[i].stop <= file[b].stop
  BY Zenon DEF BarIsWhole
<1> DEFINE p == file[b].row[2]
           bar == file[b].args
           n == Len(file)
<1>1. DOMAIN file = 1..n /\ n \in Nat /\ \A i \in DOMAIN file : file[i] \in ToSet(file)
  BY SeqFacts DEF FileInv, ToSet
<1>2. b \in DOMAIN file /\ file[b].type = "begin"
  BY DEF Packets
<1>3. Stands(file[b], file, Unwritten)
  BY <1>1, <1>2 DEF WholeInv, Whole, IsOwnBar
<1>4. /\ Unwritten.described = described /\ Unwritten.totals = totals /\ Unwritten.drawn = drawn
  BY DEF Unwritten
<1>5. p \in drawn /\ p \in Processes
  BY <1>3, <1>4 DEF Stands, BarsInv, FileInv, SpansOK
<1>6. /\ bar.totals.sampled = totals[p]["sampled"] /\ bar.totals.lost = totals[p]["lost"]
      /\ bar.totals.pause = totals[p]["pause"]
  BY <1>3, <1>4 DEF Stands, Measures
<1>7. \A m \in Measures : Weighed(file, p, m) /\ totals[p][m] = Weigh(file, p, m)
  BY <1>4, <1>5 DEF WholeInv, Whole, AddsUp
<1>8. bar.interpreters = Cardinality({i \in DescriptorsOf("thread") : file[i].row[2] = p})
  BY <1>3, <1>4, ThreadsAreOut DEF Stands
<1>9. ReadsOf(p) = {i \in 1..n : IsRead(file[i]) /\ file[i].row[2] = p}
  BY <1>1 DEF ReadsOf, Packets, IsRead
<1>10. \A i \in ReadsOf(p) : file[b].ts <= file[i].ts /\ file[i].stop <= file[b].stop
  BY <1>1, <1>3, <1>9 DEF Stands, Covers
<1>11. Cardinality(Begins(ProcessRow(p))) = 1
  BY <1>5, OneBarEach
<1> HIDE DEF p, bar, n
<1>12. totals[p]["sampled"] = Cardinality({i \in ReadsOf(p) : file[i].name = "GC Pause"})
  <2> DEFINE places == {i \in ReadsOf(p) : file[i].name = "GC Pause"}
  <2>1. places \in SUBSET (1..n)
    BY <1>9
  <2>2. \A i \in 1..n : Weight(file[i], p, "sampled") = IF i \in places THEN 1 ELSE 0
    BY <1>9 DEF Weight
  <2> HIDE DEF places
  <2>3. Weights(file, p, "sampled") = [i \in 1..n |-> IF i \in places THEN 1 ELSE 0]
    BY <1>1, <2>2 DEF Weights
  <2>4. Cardinality(places) = Weigh(file, p, "sampled")
    BY <1>1, <2>1, <2>3, SumCounts DEF Weigh
  <2>5. totals[p]["sampled"] = Weigh(file, p, "sampled")
    BY <1>7 DEF Measures
  <2> QED BY <2>4, <2>5 DEF places
<1>13. ASSUME NEW m \in {"lost", "pause"} PROVE totals[p][m] = Carried(ReadsOf(p), m)
  <2> DEFINE places == ReadsOf(p)
  <2>1. \A i \in 1..n : Weight(file[i], p, m) = IF i \in places THEN file[i].args[m] ELSE 0
    BY <1>9 DEF Weight
  <2> HIDE DEF places
  <2>2. Weights(file, p, m) = [i \in DOMAIN file |-> IF i \in places THEN file[i].args[m] ELSE 0]
    BY <1>1, <2>1 DEF Weights
  <2>3. Carried(places, m) = Weigh(file, p, m)
    BY <2>2 DEF Carried, Weigh
  <2>4. totals[p][m] = Weigh(file, p, m)
    BY <1>7 DEF Measures
  <2> QED BY <2>3, <2>4 DEF places
<1>14. bar.totals.lost = Carried(ReadsOf(p), "lost") /\ bar.totals.pause = Carried(ReadsOf(p), "pause")
  BY <1>6, <1>13
<1> QED BY <1>6, <1>8, <1>10, <1>11, <1>12, <1>14 DEF p, bar

(***************************************************************************)
(* The bar a process leaves on its own row counts every pause and every    *)
(* loss of it that is in the file, numbers its interpreters and spans what *)
(* was read of it, however the batches were cut, and whatever else is      *)
(* drawn after it.                                                         *)
(***************************************************************************)
THEOREM BarsAreWhole == Spec => []BarIsWhole
<1>1. Init => FileInv /\ BarsInv /\ WholeInv
  BY FileInvInit, BarsInvInit, WholeInvInit
<1>2. (FileInv /\ BarsInv /\ WholeInv) /\ [Next]_vars => (FileInv /\ BarsInv /\ WholeInv)'
  BY FileInvStep, BarsInvStep, WholeInvStep
<1>3. FileInv /\ BarsInv /\ WholeInv => BarIsWhole
  BY WholeInvBars
<1> QED BY <1>1, <1>2, <1>3, PTL DEF Spec
=============================================================================
