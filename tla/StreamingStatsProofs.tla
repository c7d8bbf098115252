------------------------ MODULE StreamingStatsProofs ------------------------
(***************************************************************************)
(* For any number of processes, interpreters, generations and slots: the   *)
(* slot count is exact and bounded, a running ring belongs to a process    *)
(* that is there, a ring samples all of its stretch or none, what is       *)
(* settled stays as it is, the totals add up to the target's own counters, *)
(* and poor coverage is spoken of.  The totals are folds over the rings,   *)
(* so the module carries what it needs to know of sums.                    *)
(***************************************************************************)
EXTENDS StreamingStats, FiniteSetTheorems, TLAPS

(* The bound's count, and what makes it a number at all. *)
Slots ==
  /\ IsFiniteSet(Measured)
  /\ SlotsAreCounted

(* A record handed over has a ring that took it. *)
Traced ==
  \A key \in Keys : fed[key] # Nothing => key \in DOMAIN running \cup DOMAIN settled

IInv == TypeOK /\ Slots /\ RingsFollowLives /\ SampledWhole /\ Traced

-----------------------------------------------------------------------------

LEMMA NothingType == Nothing \in Counts
BY DEF Nothing, Counts

LEMMA NewRingType == NewRing \in Ring
BY NothingType DEF NewRing, Ring

(* A ring that is looked up has its type, opened for the occasion or not. *)
LEMMA OpenRingType ==
  ASSUME TypeOK, NEW key
  PROVE  OpenRing(key) \in Ring
BY NewRingType DEF OpenRing, TypeOK

(* What _admit leaves: never measured and declined at once from then on. *)
LEMMA AdmitType ==
  ASSUME NEW ring \in Ring
  PROVE  /\ Admit(ring) \in Ring
         /\ Admit(ring).sampled = ring.sampled
         /\ Admit(ring).metrics <=> ring.metrics \/ Admissible(ring)
         /\ Admit(ring).metrics => Admit(ring).declined = ring.declined
         /\ ~Admit(ring).metrics => Admit(ring).declined
         /\ ring.metrics => Admit(ring) = [ring EXCEPT !.metrics = TRUE]
BY DEF Admit, Ring

LEMMA CountUp ==
  ASSUME NEW f \in Counts, NEW g \in Gens
  PROVE  [f EXCEPT ![g] = @ + 1] \in Counts
BY DEF Counts

THEOREM InitIInv == Init => IInv
<1> SUFFICES ASSUME Init PROVE IInv
  OBVIOUS
<1> USE DEF Init
<1>1. DOMAIN running = {} /\ DOMAIN settled = {}
  OBVIOUS
<1>2. Measured = {} /\ Declined = {}
  BY <1>1 DEF Measured, Declined
<1>3. Cardinality({}) = 0 /\ IsFiniteSet({})
  BY FS_EmptySet
<1>4. TypeOK
  <2>1. reading \subseteq live /\ Cardinality(reading) <= 1
    BY <1>3
  <2>2. running \in [DOMAIN running -> Ring] /\ settled \in [DOMAIN settled -> Ring]
    BY <1>1
  <2>3. /\ fed \in [Keys -> Counts] /\ missed \in [Keys -> Counts] /\ unread \in [Keys -> Counts]
        /\ fresh \in [Iids -> Counts]
    BY NothingType
  <2> QED
    BY <1>1, <2>1, <2>2, <2>3, NothingType DEF TypeOK
<1>5. Slots
  BY <1>2, <1>3, MaxRingsAssumption DEF Slots, SlotsAreCounted
<1>6. RingsFollowLives /\ SampledWhole
  BY <1>1 DEF RingsFollowLives, SampledWhole
<1>7. Traced
  BY DEF Traced
<1> QED
  BY <1>4, <1>5, <1>6, <1>7 DEF IInv

-----------------------------------------------------------------------------
(* Update, of a process that is there. *)

LEMMA UpdateKeeps ==
  ASSUME IInv, NEW key \in Keys, NEW g \in Gens, key[1] \in live,
         Update(key, g), UNCHANGED <<live, left, missed, unread, reading, coverage_warned>>,
         fresh' \in [Iids -> Counts]
  PROVE  IInv'
<1> USE DEF IInv
<1> DEFINE ring == OpenRing(key)
           given == Admit(ring)
           grown == IF given.metrics THEN [given EXCEPT !.sampled[g] = @ + 1] ELSE given
<1>1. key \notin DOMAIN settled /\ ~Refused(key)
  BY DEF RingsFollowLives, TypeOK, Refused
<1>2. /\ running' = PutRing(key, grown)
      /\ admitted' = IF given.metrics /\ ~ring.metrics THEN admitted + 1 ELSE admitted
      /\ open' = open \cup {key[1]}
      /\ total' = [total EXCEPT ![g] = @ + 1]
      /\ fed' = [fed EXCEPT ![key][g] = @ + 1]
      /\ settled' = settled
  BY <1>1 DEF Update
<1>3. ring \in Ring
  BY OpenRingType
<1>4. given \in Ring
  BY <1>3, AdmitType
<1>5. /\ grown \in Ring
      /\ grown.metrics = given.metrics /\ grown.declined = given.declined
      /\ given.metrics => grown.sampled = [ring.sampled EXCEPT ![g] = @ + 1]
      /\ ~given.metrics => grown.sampled = ring.sampled
  <2>1. given.sampled = ring.sampled /\ given.sampled \in Counts
    BY <1>3, <1>4, AdmitType DEF Ring
  <2>2. [given.sampled EXCEPT ![g] = @ + 1] \in Counts
    BY <2>1, CountUp
  <2>3. CASE given.metrics
    <3>1. grown = [given EXCEPT !.sampled = [given.sampled EXCEPT ![g] = @ + 1]]
      BY <1>4, <2>3 DEF Ring
    <3> QED
      BY <1>4, <2>1, <2>2, <2>3, <3>1 DEF Ring
  <2>4. CASE ~given.metrics
    BY <1>4, <2>1, <2>4
  <2> QED
    BY <2>3, <2>4
<1>6. /\ DOMAIN running' = DOMAIN running \cup {key}
      /\ running'[key] = grown
      /\ \A k \in DOMAIN running \ {key} : running'[k] = running[k]
  BY <1>2 DEF PutRing
<1>7. fed' \in [Keys -> Counts] /\ fed'[key] = [fed[key] EXCEPT ![g] = @ + 1]
      /\ \A k \in Keys \ {key} : fed'[k] = fed[k]
  <2>1. fed[key] \in Counts /\ [fed[key] EXCEPT ![g] = @ + 1] \in Counts
    BY CountUp DEF TypeOK
  <2> QED
    BY <1>2, <2>1 DEF TypeOK
<1>8. TypeOK'
  <2>1. total' \in Counts
    BY <1>2, CountUp DEF TypeOK
  <2>2. DOMAIN running' \subseteq Keys /\ running' \in [DOMAIN running' -> Ring]
    BY <1>2, <1>5, <1>6 DEF TypeOK, PutRing
  <2>3. admitted' \in Nat
    BY <1>2 DEF TypeOK
  <2>4. open' \subseteq Processes
    BY <1>2 DEF TypeOK, Keys
  <2> QED
    BY <1>2, <1>7, <2>1, <2>2, <2>3, <2>4 DEF TypeOK
<1>9. Slots'
  <2>1. CASE given.metrics /\ ~ring.metrics
    <3>1. Admissible(ring) /\ key \notin Measured
      BY <1>3, <2>1, AdmitType DEF Measured, OpenRing
    <3>2. Measured' = Measured \cup {key}
      BY <1>5, <1>6, <2>1 DEF Measured
    <3>3. IsFiniteSet(Measured') /\ Cardinality(Measured') = Cardinality(Measured) + 1
      BY <3>1, <3>2, FS_AddElement DEF Slots
    <3>4. admitted' = admitted + 1 /\ admitted + 1 <= MaxRings
      BY <1>2, <2>1, <3>1, MaxRingsAssumption DEF Admissible, TypeOK
    <3> QED
      BY <3>3, <3>4 DEF Slots, SlotsAreCounted
  <2>2. CASE ~(given.metrics /\ ~ring.metrics)
    <3>1. given.metrics = ring.metrics
      BY <1>3, <1>4, <2>2, AdmitType DEF Ring
    <3>2. ring.metrics <=> key \in Measured
      BY DEF Measured, OpenRing, NewRing
    <3>3. Measured' = Measured
      BY <1>5, <1>6, <3>1, <3>2 DEF Measured
    <3> QED
      BY <1>2, <2>2, <3>3 DEF Slots, SlotsAreCounted
  <2> QED
    BY <2>1, <2>2
<1>10. RingsFollowLives'
  BY <1>1, <1>2, <1>6 DEF RingsFollowLives
<1>11. SampledWhole'
  <2>1. WholeOrNothing(key, running[key]) \/ key \notin DOMAIN running
    BY DEF SampledWhole
  <2>2. ring.sampled = (IF ring.metrics THEN fed[key] ELSE Nothing)
    BY <2>1 DEF OpenRing, NewRing, WholeOrNothing
  <2>3. given.metrics => grown.sampled = fed'[key] /\ ~grown.declined
    <3>1. ASSUME given.metrics PROVE ring.sampled = fed[key] /\ ~ring.declined
      <4>1. CASE ring.metrics
        BY <2>1, <2>2, <4>1 DEF OpenRing, NewRing, WholeOrNothing
      <4>2. CASE ~ring.metrics
        <5>1. Admissible(ring)
          BY <1>3, <3>1, <4>2, AdmitType
        <5>2. fed[key] = Nothing
          BY <1>1, <2>1, <4>2, <5>1 DEF OpenRing, NewRing, WholeOrNothing, Admissible, Traced
        <5> QED
          BY <2>2, <4>2, <5>1, <5>2 DEF Admissible
      <4> QED
        BY <4>1, <4>2
    <3> QED
      BY <1>3, <1>5, <1>7, <3>1, AdmitType
  <2>4. ~given.metrics => grown.sampled = Nothing /\ grown.declined
    BY <1>3, <1>5, <2>2, AdmitType
  <2>6. \A k \in DOMAIN running' : WholeOrNothing(k, running[k])'
    <3> SUFFICES ASSUME NEW k \in DOMAIN running' PROVE WholeOrNothing(k, running[k])'
      OBVIOUS
    <3>1. CASE k = key
      BY <1>5, <1>6, <2>3, <2>4, <3>1 DEF WholeOrNothing, Nothing
    <3>2. CASE k # key
      BY <1>6, <1>7, <3>2 DEF SampledWhole, WholeOrNothing, Nothing, TypeOK
    <3> QED
      BY <3>1, <3>2
  <2>7. \A k \in DOMAIN settled' : WholeOrNothing(k, settled[k])'
    BY <1>1, <1>2, <1>7 DEF SampledWhole, WholeOrNothing, Nothing, TypeOK
  <2> QED
    BY <2>6, <2>7 DEF SampledWhole
<1>12. Traced'
  BY <1>2, <1>6, <1>7 DEF Traced, Nothing
<1> QED
  BY <1>8, <1>9, <1>10, <1>11, <1>12

-----------------------------------------------------------------------------
(* Settling every ring of the processes that leave. *)

LEMMA SettleKeeps ==
  ASSUME IInv, NEW gone \in SUBSET Processes, NEW listed \in SUBSET live,
         Settle(gone), open \cap gone = open \ listed,
         live' = listed, left' = left \cup (live \ listed),
         reading' = {}, fresh' \in [Iids -> Counts], unread' \in [Keys -> Counts],
         UNCHANGED <<coverage_warned, fed, missed>>
  PROVE  IInv'
<1> USE DEF IInv
<1> DEFINE keys == KeysOf(gone \cap open)
<1>1. /\ open' = open \ gone
      /\ admitted' = admitted - Cardinality(keys \cap Measured)
      /\ settled' = [k \in DOMAIN settled \cup keys |->
                       IF k \in keys THEN running[k] ELSE settled[k]]
      /\ running' = [k \in DOMAIN running \ keys |-> running[k]]
      /\ total' = total /\ fed' = fed /\ missed' = missed
  BY DEF Settle, Freed
<1>2. keys \subseteq DOMAIN running
  BY DEF KeysOf
<1>3. /\ DOMAIN running' = DOMAIN running \ keys
      /\ DOMAIN settled' = DOMAIN settled \cup keys
      /\ \A k \in DOMAIN running' : running'[k] = running[k]
      /\ \A k \in keys : settled'[k] = running[k]
      /\ \A k \in DOMAIN settled \ keys : settled'[k] = settled[k]
  BY <1>1
<1>4. Slots'
  <2>1. Measured' = Measured \ (keys \cap Measured)
    BY <1>3 DEF Measured
  <2>2. /\ IsFiniteSet(keys \cap Measured)
        /\ Cardinality(keys \cap Measured) \in Nat
        /\ Cardinality(keys \cap Measured) <= Cardinality(Measured)
    BY FS_Subset, FS_CardinalityType DEF Slots
  <2>3. /\ IsFiniteSet(Measured')
        /\ Cardinality(Measured') = Cardinality(Measured) - Cardinality(Measured \cap (keys \cap Measured))
    BY <2>1, FS_Difference DEF Slots
  <2>4. Measured \cap (keys \cap Measured) = keys \cap Measured
    OBVIOUS
  <2>5. Cardinality(Measured) \in Nat
    BY FS_CardinalityType DEF Slots
  <2>6. admitted = Cardinality(Measured) /\ Cardinality(Measured) <= MaxRings
    BY DEF Slots, SlotsAreCounted
  <2> DEFINE freed == Cardinality(keys \cap Measured)
             left_over == Cardinality(Measured')
  <2>7. admitted' = admitted - freed /\ left_over = Cardinality(Measured) - freed
    BY <1>1, <2>3, <2>4
  <2>8. freed \in Nat
    BY <2>2
  <2> HIDE DEF freed, left_over
  <2>9. admitted' = left_over /\ admitted' <= MaxRings
    BY <2>5, <2>6, <2>7, <2>8, MaxRingsAssumption
  <2> QED
    BY <2>3, <2>9 DEF Slots, SlotsAreCounted, left_over
<1>5. TypeOK'
  <2>1. DOMAIN running' \subseteq Keys /\ running' \in [DOMAIN running' -> Ring]
    BY <1>1, <1>3 DEF TypeOK
  <2>2. DOMAIN settled' \subseteq Keys /\ settled' \in [DOMAIN settled' -> Ring]
    <3>1. \A k \in DOMAIN settled' : settled'[k] \in Ring
      BY <1>2, <1>3 DEF TypeOK
    <3> QED
      BY <1>1, <1>2, <1>3, <3>1 DEF TypeOK
  <2>3. admitted' \in Nat
    <3>1. IsFiniteSet(Measured') /\ Cardinality(Measured') \in Nat /\ admitted' = Cardinality(Measured')
      BY <1>4, FS_CardinalityType DEF Slots, SlotsAreCounted
    <3> QED
      BY <3>1
  <2>4. reading' \subseteq live' /\ Cardinality(reading') <= 1
    BY FS_EmptySet
  <2>5. live' \subseteq Processes /\ left' \subseteq Processes /\ live' \cap left' = {} /\ open' \subseteq Processes
    BY <1>1 DEF TypeOK
  <2> QED
    BY <1>1, <2>1, <2>2, <2>3, <2>4, <2>5 DEF TypeOK
<1>6. RingsFollowLives'
  <2>1. \A key \in DOMAIN running' : key[1] \in live' \cap open'
    BY <1>1, <1>2, <1>3 DEF RingsFollowLives, KeysOf
  <2>2. \A key \in keys : key[1] \in left'
    BY DEF RingsFollowLives, KeysOf
  <2> QED
    BY <1>1, <1>3, <2>1, <2>2 DEF RingsFollowLives
<1>7. SampledWhole'
  <2>1. \A k \in DOMAIN running' : WholeOrNothing(k, running[k])'
    BY <1>1, <1>3 DEF SampledWhole, WholeOrNothing, Nothing
  <2>2. \A k \in DOMAIN settled' : WholeOrNothing(k, settled[k])'
    <3> SUFFICES ASSUME NEW k \in DOMAIN settled' PROVE WholeOrNothing(k, settled[k])'
      OBVIOUS
    <3>1. CASE k \in keys
      <4>1. settled'[k] = running[k] /\ WholeOrNothing(k, running[k])
        BY <1>2, <1>3, <3>1 DEF SampledWhole
      <4> HIDE DEF keys
      <4> QED
        BY <1>1, <4>1 DEF WholeOrNothing, Nothing
    <3>2. CASE k \notin keys
      <4>1. settled'[k] = settled[k] /\ WholeOrNothing(k, settled[k])
        BY <1>3, <3>2 DEF SampledWhole
      <4> HIDE DEF keys
      <4> QED
        BY <1>1, <4>1 DEF WholeOrNothing, Nothing
    <3> QED
      BY <3>1, <3>2
  <2> QED
    BY <2>1, <2>2 DEF SampledWhole
<1>8. Traced'
  BY <1>1, <1>3 DEF Traced, Nothing
<1> QED
  BY <1>4, <1>5, <1>6, <1>7, <1>8

(* A read counted: rings may be opened, no sample buffer is given yet. *)
LEMMA IngestKeeps ==
  ASSUME IInv, NEW process \in Processes,
         NEW gained \in [Iids -> [Gens -> 0..MaxRuns]], NEW skipped \in [Iids -> [Gens -> 0..MaxRuns]],
         Ingest(process, gained, skipped)
  PROVE  IInv'
<1> USE DEF IInv
<1> DEFINE keys == {process} \X {iid \in Iids : \E g \in Gens : gained[iid][g] > 0}
           lost(key) == [g \in Gens |-> IF Seeded(key, g) THEN skipped[key[2]][g] ELSE 0]
           earlier(key) == [g \in Gens |-> IF Seeded(key, g) THEN 0 ELSE skipped[key[2]][g]]
           counted(key) ==
             [OpenRing(key) EXCEPT
                !.cumulative = [g \in Gens |-> @[g] + gained[key[2]][g] + skipped[key[2]][g]],
                !.lost = [g \in Gens |-> @[g] + lost(key)[g]]]
<1>1. /\ process \in live
      /\ running' = [key \in DOMAIN running \cup keys |->
                       IF key \in keys THEN counted(key) ELSE running[key]]
      /\ open' = IF keys = {} THEN open ELSE open \cup {process}
      /\ missed' = [key \in Keys |-> IF key \in keys
                                     THEN [g \in Gens |-> missed[key][g] + lost(key)[g]]
                                     ELSE missed[key]]
      /\ unread' = [key \in Keys |-> IF key \in keys
                                     THEN [g \in Gens |-> unread[key][g] + earlier(key)[g]]
                                     ELSE unread[key]]
      /\ reading' = {process} /\ fresh' = gained
      /\ UNCHANGED <<settled, admitted, total, live, left, coverage_warned, fed>>
  BY DEF Ingest, CountGains, Opens
<1>2. keys \subseteq Keys /\ \A key \in keys : key[1] = process /\ key[2] \in Iids
  BY DEF Keys
<1>3. 0..MaxRuns \subseteq Nat
  BY StatsAssumption
<1>l. ASSUME NEW key \in keys
      PROVE  /\ lost(key) \in Counts /\ earlier(key) \in Counts
             /\ \A g \in Gens : lost(key)[g] + earlier(key)[g] = skipped[key[2]][g]
  BY <1>2, <1>3 DEF Counts
<1> HIDE DEF lost, earlier
<1>4. ASSUME NEW key \in keys
      PROVE  /\ counted(key) \in Ring
             /\ counted(key).metrics = OpenRing(key).metrics
             /\ counted(key).declined = OpenRing(key).declined
             /\ counted(key).sampled = OpenRing(key).sampled
  <2>1. OpenRing(key) \in Ring
    BY OpenRingType
  <2>2. /\ [g \in Gens |-> OpenRing(key).cumulative[g] + gained[key[2]][g] + skipped[key[2]][g]] \in Counts
        /\ [g \in Gens |-> OpenRing(key).lost[g] + lost(key)[g]] \in Counts
    BY <1>2, <1>3, <1>l, <2>1 DEF Ring, Counts
  <2>3. counted(key) = [OpenRing(key) EXCEPT
           !.cumulative = [g \in Gens |-> OpenRing(key).cumulative[g] + gained[key[2]][g] + skipped[key[2]][g]],
           !.lost = [g \in Gens |-> OpenRing(key).lost[g] + lost(key)[g]]]
    BY <2>1 DEF Ring
  <2> QED
    BY <2>1, <2>2, <2>3 DEF Ring
<1>5. /\ DOMAIN running' = DOMAIN running \cup keys
      /\ \A key \in keys : running'[key] = counted(key)
      /\ \A key \in DOMAIN running \ keys : running'[key] = running[key]
  BY <1>1
<1> HIDE DEF counted
<1>6. TypeOK'
  <2>1. running' \in [DOMAIN running' -> Ring]
    <3>1. \A key \in DOMAIN running' : running'[key] \in Ring
      BY <1>4, <1>5 DEF TypeOK
    <3> QED
      BY <1>1, <3>1
  <2>2. missed' \in [Keys -> Counts] /\ unread' \in [Keys -> Counts]
    <3>1. ASSUME NEW key \in keys
          PROVE  /\ [g \in Gens |-> missed[key][g] + lost(key)[g]] \in Counts
                 /\ [g \in Gens |-> unread[key][g] + earlier(key)[g]] \in Counts
      BY <1>2, <1>l DEF TypeOK, Counts
    <3> QED
      BY <1>1, <3>1 DEF TypeOK
  <2>3. fresh' \in [Iids -> Counts]
    BY <1>1, <1>3 DEF Counts
  <2>4. reading' \subseteq live' /\ Cardinality(reading') <= 1
    <3>1. Cardinality({process}) = 1
      BY FS_Singleton
    <3> QED
      BY <1>1, <3>1
  <2>5. DOMAIN running' \subseteq Keys /\ open' \subseteq Processes
    BY <1>1, <1>2, <1>5 DEF TypeOK
  <2> QED
    BY <1>1, <2>1, <2>2, <2>3, <2>4, <2>5 DEF TypeOK
<1>7. Slots'
  <2>1. \A key \in keys : running'[key].metrics <=> key \in Measured
    BY <1>4, <1>5 DEF Measured, OpenRing, NewRing
  <2>2. Measured' = {key \in DOMAIN running' : running'[key].metrics}
    BY DEF Measured
  <2>3. Measured' = Measured
    BY <1>5, <2>1, <2>2 DEF Measured
  <2> QED
    BY <1>1, <2>3 DEF Slots, SlotsAreCounted
<1>8. RingsFollowLives'
  BY <1>1, <1>2, <1>5 DEF RingsFollowLives
<1>9. SampledWhole'
  <2>1. ASSUME NEW key \in keys PROVE WholeOrNothing(key, running[key])'
    <3>1. key \notin DOMAIN settled
      BY <1>1, <1>2 DEF RingsFollowLives, TypeOK
    <3>2. key \notin DOMAIN running => fed[key] = Nothing
      BY <1>2, <3>1 DEF Traced
    <3>3. WholeOrNothing(key, OpenRing(key))
      BY <3>2 DEF SampledWhole, WholeOrNothing, OpenRing, NewRing
    <3>4. /\ running'[key].metrics = OpenRing(key).metrics
          /\ running'[key].declined = OpenRing(key).declined
          /\ running'[key].sampled = OpenRing(key).sampled
      BY <1>4, <1>5
    <3> QED
      BY <1>1, <3>3, <3>4 DEF WholeOrNothing, Nothing
  <2>2. ASSUME NEW key \in DOMAIN running \ keys PROVE WholeOrNothing(key, running[key])'
    BY <1>1, <1>5 DEF SampledWhole, WholeOrNothing, Nothing
  <2>3. \A key \in DOMAIN settled' : WholeOrNothing(key, settled[key])'
    BY <1>1 DEF SampledWhole, WholeOrNothing, Nothing
  <2> QED
    BY <1>5, <2>1, <2>2, <2>3 DEF SampledWhole
<1>10. Traced'
  BY <1>1, <1>5 DEF Traced, Nothing
<1> QED
  BY <1>6, <1>7, <1>8, <1>9, <1>10

-----------------------------------------------------------------------------

(* A step that leaves the class and its history alone. *)
LEMMA CallerKeeps ==
  ASSUME IInv, TypeOK', UNCHANGED <<stats, fed>>, live \subseteq live', left' = left
  PROVE  IInv'
BY DEF IInv, stats, Slots, SlotsAreCounted, Measured, RingsFollowLives, SampledWhole,
       WholeOrNothing, Traced, Nothing

THEOREM NextIInv == IInv /\ [Next]_statsVars => IInv'
<1> SUFFICES ASSUME IInv, [Next]_statsVars PROVE IInv'
  OBVIOUS
<1>1. TypeOK
  BY DEF IInv
<1>2. ASSUME NEW process \in Processes, Appear(process) PROVE IInv'
  <2>1. TypeOK'
    BY <1>1, <1>2 DEF Appear, TypeOK, stats, history
  <2> QED
    BY <1>2, <2>1, CallerKeeps DEF Appear, history
<1>3. ASSUME NEW process \in Processes, EndRead(process) PROVE IInv'
  <2>1. TypeOK'
    <3>1. Cardinality({}) <= 1 /\ coverage_warned' \in BOOLEAN
      BY <1>1, <1>3, FS_EmptySet DEF EndRead, TypeOK
    <3> QED
      BY <1>1, <1>3, <3>1 DEF EndRead, TypeOK, stats, history
  <2> QED
    BY <1>3, <2>1, CallerKeeps DEF EndRead, history
<1>4. ASSUME NEW process \in Processes, Forget(process) PROVE IInv'
  <2>1. open \cap {process} = open \ (live \ {process})
    BY DEF IInv, RingsFollowLives
  <2>2. fresh' \in [Iids -> Counts]
    BY <1>4, NothingType DEF Forget
  <2>3. left' = left \cup (live \ (live \ {process}))
    BY <1>4 DEF Forget
  <2>4. unread' \in [Keys -> Counts]
    <3>1. \A key \in Keys, g \in Gens : unread[key][g] \in Nat /\ Waiting(key)[g] \in Nat
      BY <1>1 DEF TypeOK, Keys, Counts, Waiting, Nothing
    <3> QED
      BY <1>4, <3>1 DEF Forget, Counts
  <2> QED
    BY <1>4, <2>1, <2>2, <2>3, <2>4, SettleKeeps DEF Forget, Materialize
<1>5. ASSUME NEW process \in Processes,
             NEW gained \in [Iids -> [Gens -> 0..MaxRuns]], NEW skipped \in [Iids -> [Gens -> 0..MaxRuns]],
             Ingest(process, gained, skipped)
      PROVE  IInv'
  BY <1>5, IngestKeeps
<1>6. ASSUME NEW process \in Processes, NEW iid \in Iids, NEW g \in Gens, fresh[iid][g] > 0
      PROVE  [fresh EXCEPT ![iid][g] = @ - 1] \in [Iids -> Counts]
  BY <1>1, <1>6 DEF TypeOK, Counts
<1>7. ASSUME NEW process \in Processes, NEW iid \in Iids, NEW g \in Gens, HandOver(process, iid, g)
      PROVE  IInv'
  <2> DEFINE key == <<process, iid>>
  <2>1. key \in Keys /\ key[1] = process /\ process \in live
    BY <1>1, <1>7 DEF HandOver, TypeOK, Keys
  <2>2. fresh' \in [Iids -> Counts]
    BY <1>6, <1>7 DEF HandOver
  <2>3. Update(key, g) /\ UNCHANGED <<live, left, missed, unread, reading, coverage_warned>>
    BY <1>7 DEF HandOver
  <2> HIDE DEF key
  <2> QED
    BY <2>1, <2>2, <2>3, UpdateKeeps
<1>8. ASSUME NEW process \in Processes, NEW iid \in Iids, NEW g \in Gens, DropReread(process, iid, g)
      PROVE  IInv'
  <2>1. fresh' \in [Iids -> Counts]
    BY <1>6, <1>8 DEF DropReread
  <2>2. unread' \in [Keys -> Counts]
    <3>1. unread[<<process, iid>>] \in Counts
      BY <1>1 DEF TypeOK, Keys
    <3>2. [unread[<<process, iid>>] EXCEPT ![g] = @ + 1] \in Counts
      BY <3>1, CountUp
    <3> QED
      BY <1>1, <1>8, <3>2 DEF DropReread, TypeOK
  <2>3. TypeOK'
    BY <1>1, <1>8, <2>1, <2>2 DEF DropReread, TypeOK, stats
  <2> QED
    BY <1>8, <2>3, CallerKeeps DEF DropReread
<1>10. ASSUME NEW listed \in SUBSET live, RetainListed(listed) PROVE IInv'
  <2>1. open \subseteq Processes /\ open \cap (open \ listed) = open \ listed
    BY <1>1 DEF TypeOK
  <2>2. reading' = {} /\ fresh' \in [Iids -> Counts]
    BY <1>1, <1>10 DEF RetainListed, TypeOK
  <2>3. unread' \in [Keys -> Counts] /\ UNCHANGED <<coverage_warned, fed, missed>>
    BY <1>1, <1>10 DEF RetainListed, TypeOK, history
  <2> QED
    BY <1>10, <2>1, <2>2, <2>3, SettleKeeps DEF RetainListed, Retain
<1>11. CASE UNCHANGED statsVars
  <2>1. TypeOK'
    BY <1>1, <1>11 DEF statsVars, stats, caller, history, TypeOK
  <2> QED
    BY <1>11, <2>1, CallerKeeps DEF statsVars, stats, caller, history
<1> QED
  BY <1>2, <1>3, <1>4, <1>5, <1>7, <1>8, <1>10, <1>11 DEF Next

THEOREM Inductive == Spec => []IInv
BY InitIInv, NextIInv, PTL DEF Spec

(* Every value has its type: TypeOK of StreamingStats. *)
THEOREM TypeCorrect == Spec => []TypeOK
<1>1. IInv => TypeOK
  BY DEF IInv
<1> QED
  BY <1>1, Inductive, PTL

(* The bound of streaming_stats.py:266 is held against the exact number. *)
THEOREM SlotsAreExact == Spec => []SlotsAreCounted
<1>1. IInv => SlotsAreCounted
  BY DEF IInv, Slots
<1> QED
  BY <1>1, Inductive, PTL

(* Running rings are those of processes that are there, so no slot leaks. *)
THEOREM NoSlotLeaks == Spec => []RingsFollowLives
<1>1. IInv => RingsFollowLives
  BY DEF IInv
<1> QED
  BY <1>1, Inductive, PTL

(* A ring's samples are of one unbroken stretch. *)
THEOREM StretchIsWhole == Spec => []SampledWhole
<1>1. IInv => SampledWhole
  BY DEF IInv
<1> QED
  BY <1>1, Inductive, PTL

(* Nothing that settled changes, whatever arrives for it later. *)
THEOREM SettledStays == Spec => SettledIsFinal
<1> DEFINE Final == \A key \in DOMAIN settled :
                      key \in DOMAIN settled' \ DOMAIN running' /\ settled'[key] = settled[key]
<1>1. IInv /\ IInv' /\ [Next]_statsVars => [Final]_statsVars
  <2> SUFFICES ASSUME IInv, IInv', [Next]_statsVars PROVE Final
    OBVIOUS
  <2>1. \A key \in DOMAIN settled : key \notin DOMAIN running
    BY DEF IInv, RingsFollowLives, TypeOK
  <2>2. settled' = settled \/ \E processes : Settle(processes)
    <3>1. ASSUME NEW process \in Processes, Appear(process) \/ EndRead(process)
          PROVE  settled' = settled
      BY <3>1 DEF Appear, EndRead, stats
    <3>2. ASSUME NEW process \in Processes, Forget(process)
          PROVE  \E processes : Settle(processes)
      BY <3>2 DEF Forget, Materialize
    <3>3. ASSUME NEW process \in Processes, NEW gained, NEW lost, Ingest(process, gained, lost)
          PROVE  settled' = settled
      BY <3>3 DEF Ingest, CountGains
    <3>4. ASSUME NEW process \in Processes, NEW iid \in Iids, NEW g \in Gens,
                 HandOver(process, iid, g) \/ DropReread(process, iid, g)
          PROVE  settled' = settled
      BY <3>4 DEF HandOver, DropReread, Update, stats
    <3>5. ASSUME NEW listed \in SUBSET live, RetainListed(listed)
          PROVE  \E processes : Settle(processes)
      BY <3>5 DEF RetainListed, Retain
    <3>6. CASE UNCHANGED statsVars
      BY <3>6 DEF statsVars, stats
    <3> QED
      BY <3>1, <3>2, <3>3, <3>4, <3>5, <3>6 DEF Next
  <2>3. ASSUME NEW processes, Settle(processes)
        PROVE  \A key \in DOMAIN settled : key \in DOMAIN settled' /\ settled'[key] = settled[key]
    BY <2>1, <2>3 DEF Settle, KeysOf
  <2>4. \A key \in DOMAIN settled : key \in DOMAIN settled' /\ settled'[key] = settled[key]
    BY <2>2, <2>3
  <2>5. \A key \in DOMAIN settled' : key \notin DOMAIN running'
    BY DEF IInv, RingsFollowLives, TypeOK
  <2> QED
    BY <2>4, <2>5
<1> QED
  BY <1>1, Inductive, PTL DEF Spec, SettledIsFinal

-----------------------------------------------------------------------------
(***************************************************************************)
(* Sums.  The fold behind Sum takes the members of its domain in the order *)
(* CHOOSE gives them; over a finite domain the order does not matter.  An  *)
(* induction is over the members of a set, Good, of what has been shown.   *)
(***************************************************************************)

(* A set of naturals that is not empty has a least member. *)
LEMMA LeastOf ==
  ASSUME NEW S, S \subseteq Nat, S # {}
  PROVE  \E m \in S : \A n \in S : m <= n
<1>1. OpToRel(<, Nat) = {pair \in Nat \X Nat : pair[1] < pair[2]}
  BY DEF OpToRel
<1>2. PICK m \in S : \A n \in S : ~ (<<n, m>> \in OpToRel(<, Nat))
  BY NatLessThanWellFounded, WFMin
<1>3. \A n \in S : ~ (n < m)
  BY <1>1, <1>2
<1> QED
  BY <1>3

(* Induction over the naturals. *)
LEMMA NatsAreGood ==
  ASSUME NEW Good, 0 \in Good, \A n \in Nat : n \in Good => n + 1 \in Good
  PROVE  Nat \subseteq Good
<1> SUFFICES ASSUME Nat \ Good # {} PROVE FALSE
  OBVIOUS
<1>1. PICK m \in Nat \ Good : \A n \in Nat \ Good : m <= n
  BY LeastOf
<1>2. m # 0
  BY <1>1
<1>3. m - 1 \in Nat
  BY <1>1, <1>2
<1>4. m - 1 \in Good
  <2>1. ~ (m <= m - 1)
    BY <1>1
  <2> QED BY <1>1, <1>3, <2>1
<1>5. (m - 1) + 1 = m
  BY <1>1
<1> QED
  BY <1>1, <1>3, <1>4, <1>5

(* Induction over the subsets of a finite set, a member at a time. *)
LEMMA SubsetInduction ==
  ASSUME NEW S, IsFiniteSet(S), NEW Good, {} \in Good,
         \A s \in SUBSET S : s # {} /\ (\A x \in s : s \ {x} \in Good) => s \in Good
  PROVE  SUBSET S \subseteq Good
<1> DEFINE Upto == {n \in Nat : \A s \in SUBSET S : Cardinality(s) = n => s \in Good}
<1>1. \A s \in SUBSET S : IsFiniteSet(s) /\ Cardinality(s) \in Nat
  BY FS_Subset, FS_CardinalityType
<1>2. 0 \in Upto
  BY <1>1, FS_EmptySet
<1>3. ASSUME NEW n \in Nat, n \in Upto
      PROVE  n + 1 \in Upto
  <2> SUFFICES ASSUME NEW s \in SUBSET S, Cardinality(s) = n + 1
               PROVE  s \in Good
    OBVIOUS
  <2>1. s # {}
    BY <1>1, FS_EmptySet
  <2>2. ASSUME NEW x \in s PROVE s \ {x} \in Good
    <3>1. Cardinality(s \ {x}) = n
      BY <1>1, FS_RemoveElement
    <3> QED BY <3>1, <1>3
  <2> QED BY <2>1, <2>2
<1>4. Nat \subseteq Upto
  <2> HIDE DEF Upto
  <2> QED BY <1>2, <1>3, NatsAreGood
<1> QED
  BY <1>1, <1>4

Pick(s) == CHOOSE x \in s : TRUE

(* h is the fold of f over the subsets of S. *)
IsFold(f, S, h) ==
  h = [s \in SUBSET S |-> IF s = {} THEN 0 ELSE f[Pick(s)] + h[s \ {Pick(s)}]]

LEMMA SumIsFold == \A f : Sum(f) = (CHOOSE h : IsFold(f, DOMAIN f, h))[DOMAIN f]
BY DEF Sum, FoldFunction, FoldFunctionOnSet, MapThenFoldSet, IsFold, Pick

(* The recursion behind Sum has a solution. *)
LEMMA FoldExists ==
  ASSUME NEW f, NEW S, IsFiniteSet(S)
  PROVE  \E h : IsFold(f, S, h)
<1> DEFINE Small(n) == {s \in SUBSET S : Cardinality(s) <= n}
           Solves(n, h) == h = [s \in Small(n) |->
                                  IF s = {} THEN 0 ELSE f[Pick(s)] + h[s \ {Pick(s)}]]
           Good == {n \in Nat : \E h : Solves(n, h)}
<1>1. \A s \in SUBSET S : IsFiniteSet(s) /\ Cardinality(s) \in Nat
  BY FS_Subset, FS_CardinalityType
<1>2. 0 \in Good
  <2> DEFINE h0 == [s \in Small(0) |-> 0]
  <2>1. \A s \in Small(0) : s = {}
    BY <1>1, FS_EmptySet
  <2>2. Solves(0, h0)
    <3>1. h0 = [s \in Small(0) |-> IF s = {} THEN 0 ELSE f[Pick(s)] + h0[s \ {Pick(s)}]]
      BY <2>1
    <3> QED BY <3>1
  <2> QED BY <2>2
<1>3. ASSUME NEW n \in Nat, n \in Good
      PROVE  n + 1 \in Good
  <2>1. PICK h : Solves(n, h)
    BY <1>3
  <2> DEFINE more == [s \in Small(n + 1) |->
                        IF s \in Small(n) THEN h[s] ELSE f[Pick(s)] + h[s \ {Pick(s)}]]
  <2>2. ASSUME NEW s \in Small(n + 1), s # {}
        PROVE  s \ {Pick(s)} \in Small(n)
    <3>1. Pick(s) \in s
      BY <2>2 DEF Pick
    <3>2. Cardinality(s \ {Pick(s)}) = Cardinality(s) - 1
      BY <1>1, <3>1, FS_RemoveElement
    <3> QED BY <1>1, <3>2
  <2>3. Small(n) \subseteq Small(n + 1)
    BY <1>1
  <2>4. {} \in Small(n)
    BY FS_EmptySet
  <2>5. \A s \in Small(n) : more[s] = h[s]
    BY <2>3
  <2>6. \A s \in Small(n + 1) :
          more[s] = IF s = {} THEN 0 ELSE f[Pick(s)] + more[s \ {Pick(s)}]
    <3> SUFFICES ASSUME NEW s \in Small(n + 1)
                 PROVE  more[s] = IF s = {} THEN 0 ELSE f[Pick(s)] + more[s \ {Pick(s)}]
      OBVIOUS
    <3> HIDE DEF Small
    <3>1. \A t \in Small(n) : h[t] = IF t = {} THEN 0 ELSE f[Pick(t)] + h[t \ {Pick(t)}]
      BY <2>1
    <3>2. CASE s = {}
      BY <3>1, <3>2, <2>4, <2>5
    <3>3. CASE s # {}
      <4>1. more[s \ {Pick(s)}] = h[s \ {Pick(s)}]
        BY <2>2, <2>5, <3>3
      <4>2. more[s] = f[Pick(s)] + h[s \ {Pick(s)}]
        BY <3>1, <3>3
      <4> QED BY <4>1, <4>2, <3>3
    <3> QED BY <3>2, <3>3
  <2>7. Solves(n + 1, more)
    <3> HIDE DEF Small
    <3>1. DOMAIN more = Small(n + 1) /\ more = [s \in Small(n + 1) |-> more[s]]
      OBVIOUS
    <3> HIDE DEF more
    <3> QED BY <2>6, <3>1
  <2>8. n + 1 \in Nat
    OBVIOUS
  <2> HIDE DEF Solves
  <2> QED BY <2>7, <2>8
<1>4. Nat \subseteq Good
  <2> HIDE DEF Good
  <2> QED BY <1>2, <1>3, NatsAreGood
<1>5. PICK h : Solves(Cardinality(S), h)
  BY <1>1, <1>4
<1>6. Small(Cardinality(S)) = SUBSET S
  BY <1>1, FS_Subset
<1> HIDE DEF Small
<1> QED
  BY <1>5, <1>6 DEF IsFold

(* Two functions that agree on the smaller of two domains fold alike on it. *)
LEMMA FoldsAgree ==
  ASSUME NEW f, NEW g, NEW S, NEW R, IsFiniteSet(R), R \subseteq S,
         \A x \in R : f[x] = g[x],
         NEW h, IsFold(f, S, h), NEW k, IsFold(g, R, k)
  PROVE  h[R] = k[R]
<1> DEFINE Good == {s \in SUBSET R : h[s] = k[s]}
<1>1. \A s \in SUBSET R :
        /\ h[s] = IF s = {} THEN 0 ELSE f[Pick(s)] + h[s \ {Pick(s)}]
        /\ k[s] = IF s = {} THEN 0 ELSE g[Pick(s)] + k[s \ {Pick(s)}]
  BY DEF IsFold
<1>2. {} \in Good
  BY <1>1
<1>3. ASSUME NEW s \in SUBSET R, s # {}, \A x \in s : s \ {x} \in Good
      PROVE  s \in Good
  <2>1. Pick(s) \in s
    BY <1>3 DEF Pick
  <2> QED BY <1>1, <1>3, <2>1
<1>4. SUBSET R \subseteq Good
  <2> HIDE DEF Good
  <2> QED BY <1>2, <1>3, SubsetInduction
<1> QED BY <1>4

(* Any member of a set can be taken out of its fold first. *)
LEMMA FoldPeels ==
  ASSUME NEW f, NEW S, IsFiniteSet(S), \A x \in S : f[x] \in Int,
         NEW h, IsFold(f, S, h)
  PROVE  /\ \A s \in SUBSET S : h[s] \in Int
         /\ \A s \in SUBSET S : \A y \in s : h[s] = f[y] + h[s \ {y}]
<1>1. /\ h[{}] = 0
      /\ \A s \in SUBSET S : s # {} => h[s] = f[Pick(s)] + h[s \ {Pick(s)}]
  BY DEF IsFold
<1>p. \A s \in SUBSET S : s # {} => Pick(s) \in s
  BY DEF Pick
<1> DEFINE Whole == {s \in SUBSET S : h[s] \in Int}
           Good == {s \in SUBSET S : \A y \in s : h[s] = f[y] + h[s \ {y}]}
<1>2. {} \in Whole /\ {} \in Good
  BY <1>1
<1>3. ASSUME NEW s \in SUBSET S, s # {}, \A x \in s : s \ {x} \in Whole
      PROVE  s \in Whole
  <2>1. PICK x \in s : h[s] = f[x] + h[s \ {x}]
    BY <1>1, <1>p, <1>3
  <2>2. h[s \ {x}] \in Int /\ f[x] \in Int
    <3>1. s \ {x} \in Whole /\ x \in S
      BY <1>3
    <3> QED BY <3>1
  <2>3. h[s] \in Int
    BY ONLY <2>1, <2>2
  <2> QED BY <2>3
<1>4. SUBSET S \subseteq Whole
  <2> HIDE DEF Whole
  <2> QED BY <1>2, <1>3, SubsetInduction
<1>5. \A s \in SUBSET S : h[s] \in Int
  BY <1>4
<1>6. ASSUME NEW s \in SUBSET S, s # {}, \A x \in s : s \ {x} \in Good
      PROVE  s \in Good
  <2>1. PICK x \in s : h[s] = f[x] + h[s \ {x}]
    BY <1>1, <1>p, <1>6
  <2>2. ASSUME NEW y \in s, y # x
        PROVE  h[s] = f[y] + h[s \ {y}]
    <3>1. h[s \ {x}] = f[y] + h[(s \ {x}) \ {y}]
      BY <1>6, <2>2
    <3>2. h[s \ {y}] = f[x] + h[(s \ {y}) \ {x}]
      BY <1>6, <2>2
    <3>3. (s \ {x}) \ {y} = (s \ {y}) \ {x}
      OBVIOUS
    <3>4. h[(s \ {x}) \ {y}] \in Int
      <4>1. (s \ {x}) \ {y} \in SUBSET S
        OBVIOUS
      <4> QED BY ONLY <4>1, <1>5
    <3>5. f[x] \in Int /\ f[y] \in Int
      OBVIOUS
    <3>6. h[s] = f[x] + (f[y] + h[(s \ {x}) \ {y}])
      BY ONLY <2>1, <3>1
    <3>7. h[s \ {y}] = f[x] + h[(s \ {x}) \ {y}]
      BY ONLY <3>2, <3>3
    <3> QED BY ONLY <3>4, <3>5, <3>6, <3>7
  <2> QED BY <2>1, <2>2
<1>7. SUBSET S \subseteq Good
  <2> HIDE DEF Good
  <2> QED BY <1>2, <1>6, SubsetInduction
<1> QED BY <1>5, <1>7

(* The sum of no terms is zero, and any sum takes its terms in any order. *)
LEMMA SumSteps ==
  ASSUME NEW S, IsFiniteSet(S), NEW f \in [S -> Int]
  PROVE  /\ Sum(f) \in Int
         /\ S = {} => Sum(f) = 0
         /\ \A y \in S : Sum(f) = f[y] + Sum([x \in S \ {y} |-> f[x]])
<1> DEFINE h == CHOOSE h : IsFold(f, S, h)
<1>1. IsFold(f, S, h)
  BY FoldExists
<1>2. Sum(f) = h[S]
  BY SumIsFold
<1> HIDE DEF h
<1>3. S = {} => h[S] = 0
  BY <1>1 DEF IsFold
<1>4. h[S] \in Int /\ \A y \in S : h[S] = f[y] + h[S \ {y}]
  <2>1. \A x \in S : f[x] \in Int
    OBVIOUS
  <2>2. /\ \A s \in SUBSET S : h[s] \in Int
        /\ \A s \in SUBSET S : \A y \in s : h[s] = f[y] + h[s \ {y}]
    BY ONLY IsFiniteSet(S), <2>1, <1>1, FoldPeels
  <2> QED BY ONLY <2>2
<1>5. ASSUME NEW y \in S
      PROVE  h[S \ {y}] = Sum([x \in S \ {y} |-> f[x]])
  <2> DEFINE g == [x \in S \ {y} |-> f[x]]
             k == CHOOSE k : IsFold(g, S \ {y}, k)
  <2>1. IsFiniteSet(S \ {y})
    BY FS_RemoveElement
  <2>2. IsFold(g, S \ {y}, k)
    <3> HIDE DEF g
    <3> QED BY <2>1, FoldExists
  <2>3. Sum(g) = k[S \ {y}]
    <3>1. DOMAIN g = S \ {y}
      OBVIOUS
    <3> HIDE DEF g
    <3> QED BY <3>1, SumIsFold
  <2>4. \A x \in S \ {y} : f[x] = g[x]
    OBVIOUS
  <2> HIDE DEF g, k
  <2>5. h[S \ {y}] = k[S \ {y}]
    BY <1>1, <2>1, <2>2, <2>4, FoldsAgree
  <2> QED BY <2>3, <2>5 DEF g
<1> QED BY <1>2, <1>3, <1>4, <1>5

On(f, s) == [x \in s |-> f[x]]

(* The same of the sum over a part of the domain. *)
LEMMA SumOfPart ==
  ASSUME NEW S, IsFiniteSet(S), NEW f, \A x \in S : f[x] \in Int, NEW s \in SUBSET S
  PROVE  /\ Sum(On(f, s)) \in Int
         /\ s = {} => Sum(On(f, s)) = 0
         /\ \A y \in s : Sum(On(f, s)) = f[y] + Sum(On(f, s \ {y}))
<1> DEFINE part == On(f, s)
<1>1. IsFiniteSet(s)
  BY FS_Subset
<1>2. part \in [s -> Int]
  BY DEF On
<1>3. \A y \in s : part[y] = f[y] /\ [x \in s \ {y} |-> part[x]] = On(f, s \ {y})
  BY DEF On
<1> HIDE DEF part
<1>4. /\ Sum(part) \in Int
      /\ s = {} => Sum(part) = 0
      /\ \A y \in s : Sum(part) = part[y] + Sum([x \in s \ {y} |-> part[x]])
  BY <1>1, <1>2, SumSteps
<1> QED BY <1>3, <1>4 DEF part

(* A sum of sums, term by term. *)
LEMMA SumPlus ==
  ASSUME NEW S, IsFiniteSet(S), NEW f \in [S -> Int], NEW g \in [S -> Int]
  PROVE  Sum([x \in S |-> f[x] + g[x]]) = Sum(f) + Sum(g)
<1> DEFINE both == [x \in S |-> f[x] + g[x]]
           Good == {s \in SUBSET S :
                      Sum(On(both, s)) = Sum(On(f, s)) + Sum(On(g, s))}
<1>1. \A x \in S : both[x] \in Int /\ f[x] \in Int /\ g[x] \in Int
                   /\ both[x] = f[x] + g[x]
  OBVIOUS
<1>e. both = On(both, S) /\ f = On(f, S) /\ g = On(g, S)
  BY DEF On
<1> HIDE DEF both
<1>2. {} \in Good
  <2>1. /\ Sum(On(both, {})) = 0
        /\ Sum(On(f, {})) = 0
        /\ Sum(On(g, {})) = 0
    BY <1>1, SumOfPart
  <2> QED BY <2>1
<1>3. ASSUME NEW s \in SUBSET S, s # {}, \A x \in s : s \ {x} \in Good
      PROVE  s \in Good
  <2>1. PICK y \in s : TRUE
    BY <1>3
  <2>2. PICK a \in Int, b \in Int, c \in Int :
          /\ a = Sum(On(both, s \ {y}))
          /\ b = Sum(On(f, s \ {y}))
          /\ c = Sum(On(g, s \ {y}))
    <3>1. s \ {y} \in SUBSET S
      OBVIOUS
    <3> QED BY <1>1, <3>1, SumOfPart
  <2>3. a = b + c
    <3>1. s \ {y} \in Good
      BY <1>3, <2>1
    <3> QED BY <2>2, <3>1
  <2>4. /\ Sum(On(both, s)) = both[y] + a
        /\ Sum(On(f, s)) = f[y] + b
        /\ Sum(On(g, s)) = g[y] + c
    <3>1. Sum(On(both, s)) = both[y] + Sum(On(both, s \ {y}))
      BY <1>1, <2>1, SumOfPart
    <3>2. Sum(On(f, s)) = f[y] + Sum(On(f, s \ {y}))
      BY <1>1, <2>1, SumOfPart
    <3>3. Sum(On(g, s)) = g[y] + Sum(On(g, s \ {y}))
      BY <1>1, <2>1, SumOfPart
    <3> QED BY <2>2, <3>1, <3>2, <3>3
  <2>5. both[y] = f[y] + g[y] /\ f[y] \in Int /\ g[y] \in Int
    BY <1>1
  <2>6. both[y] + a = (f[y] + b) + (g[y] + c)
    BY ONLY <2>2, <2>3, <2>5
  <2> QED BY <2>4, <2>6
<1>4. SUBSET S \subseteq Good
  <2> HIDE DEF Good
  <2> QED BY <1>2, <1>3, SubsetInduction
<1>5. S \in Good
  BY <1>4
<1> QED BY <1>5, <1>e DEF both

(* Terms that are zero add nothing. *)
LEMMA SumExtends ==
  ASSUME NEW S, IsFiniteSet(S), NEW R \in SUBSET S, NEW f \in [R -> Int]
  PROVE  Sum(f) = Sum([x \in S |-> IF x \in R THEN f[x] ELSE 0])
<1> DEFINE g == [x \in S |-> IF x \in R THEN f[x] ELSE 0]
           Good == {s \in SUBSET S :
                      Sum(On(f, s \cap R)) = Sum(On(g, s))}
<1>1. /\ \A x \in S : g[x] \in Int
      /\ \A x \in R : f[x] \in Int /\ g[x] = f[x]
      /\ \A x \in S \ R : g[x] = 0
      /\ IsFiniteSet(R)
  BY FS_Subset
<1>e. f = On(f, S \cap R) /\ g = On(g, S)
  BY DEF On
<1> HIDE DEF g
<1>2. {} \in Good
  <2>1. Sum(On(f, {})) = 0 /\ Sum(On(g, {})) = 0
    BY <1>1, SumOfPart
  <2>2. {} \cap R = {}
    OBVIOUS
  <2> QED BY <2>1, <2>2
<1>3. ASSUME NEW s \in SUBSET S, s # {}, \A x \in s : s \ {x} \in Good
      PROVE  s \in Good
  <2>1. PICK y \in s : TRUE
    BY <1>3
  <2>2. PICK b \in Int, c \in Int :
          /\ b = Sum(On(f, (s \ {y}) \cap R))
          /\ c = Sum(On(g, s \ {y}))
    <3>1. s \ {y} \in SUBSET S /\ (s \ {y}) \cap R \in SUBSET R
      OBVIOUS
    <3> QED BY <1>1, <3>1, SumOfPart
  <2>3. b = c
    <3>1. s \ {y} \in Good
      BY <1>3, <2>1
    <3> QED BY <2>2, <3>1
  <2>4. Sum(On(g, s)) = g[y] + c
    BY <1>1, <2>1, <2>2, SumOfPart
  <2>5. CASE y \in R
    <3>1. s \cap R \in SUBSET R /\ y \in s \cap R
      BY <2>5
    <3>2. (s \cap R) \ {y} = (s \ {y}) \cap R
      OBVIOUS
    <3>3. Sum(On(f, s \cap R)) = f[y] + Sum(On(f, (s \cap R) \ {y}))
      BY <1>1, <3>1, SumOfPart
    <3>4. Sum(On(f, s \cap R)) = f[y] + b
      BY <3>2, <3>3, <2>2
    <3> QED BY <1>1, <2>3, <2>4, <2>5, <3>4
  <2>6. CASE y \notin R
    <3>1. s \cap R = (s \ {y}) \cap R
      BY <2>6
    <3>2. g[y] = 0
      BY <1>1, <2>6
    <3>3. g[y] + c = c
      BY <3>2, <2>2
    <3> QED BY <2>2, <2>3, <2>4, <3>1, <3>3
  <2> QED BY <2>5, <2>6
<1>4. SUBSET S \subseteq Good
  <2> HIDE DEF Good
  <2> QED BY <1>2, <1>3, SubsetInduction
<1>5. S \in Good
  BY <1>4
<1> QED BY <1>5, <1>e DEF g

(* One term larger by one makes the sum larger by one. *)
LEMMA SumBumps ==
  ASSUME NEW S, IsFiniteSet(S), NEW f \in [S -> Int], NEW g \in [S -> Int], NEW y \in S,
         g[y] = f[y] + 1, \A x \in S \ {y} : g[x] = f[x]
  PROVE  Sum(g) = Sum(f) + 1
<1>1. On(f, S \ {y}) = On(g, S \ {y})
  BY DEF On
<1>2. PICK rest \in Int : rest = Sum(On(f, S \ {y}))
  BY SumOfPart
<1>3. Sum(f) = f[y] + rest /\ Sum(g) = g[y] + rest
  BY <1>1, <1>2, SumSteps DEF On
<1>4. f[y] \in Int
  OBVIOUS
<1> QED BY ONLY <1>2, <1>3, <1>4, g[y] = f[y] + 1

(* Nothing but zeros sums to zero. *)
LEMMA SumOfZeros ==
  ASSUME NEW S, IsFiniteSet(S)
  PROVE  Sum([x \in S |-> 0]) = 0
<1> DEFINE zero == [x \in S |-> 0]
<1>1. zero \in [S -> Int]
  OBVIOUS
<1>2. [x \in S |-> zero[x] + zero[x]] = zero
  OBVIOUS
<1> HIDE DEF zero
<1>3. Sum(zero) = Sum(zero) + Sum(zero) /\ Sum(zero) \in Int
  BY <1>1, <1>2, SumPlus, SumSteps
<1> QED BY <1>3 DEF zero

-----------------------------------------------------------------------------
(***************************************************************************)
(* The books: what each ring holds against what was handed over, which the *)
(* run's totals add up, and what the advisory has spoken of.               *)
(***************************************************************************)

Balanced ==
  \A key \in Keys, g \in Gens :
    /\ FindRing(key).lost[g] = missed[key][g]
    /\ FindRing(key).cumulative[g]
         = fed[key][g] + missed[key][g] + unread[key][g] + Waiting(key)[g]

TotalOfFed ==
  \A g \in Gens : total[g] = Sum([key \in Keys |-> fed[key][g]])

(* A poorly read ring was spoken of at the latest when its last read ended. *)
Said ==
  \A key \in DOMAIN running \ Declined :
    key[1] \notin reading /\ PoorlyRead(key) => coverage_warned

BooksInv == Balanced /\ TotalOfFed /\ Said

LEMMA KeysAreFinite == IsFiniteSet(Keys)
BY ProcessesAssumption, FS_Product DEF Keys

LEMMA FindRingType ==
  ASSUME TypeOK, NEW key \in Keys
  PROVE  /\ FindRing(key) \in Ring
         /\ \A g \in Gens : /\ FindRing(key).lost[g] \in Nat /\ FindRing(key).cumulative[g] \in Nat
                            /\ fed[key][g] \in Nat /\ missed[key][g] \in Nat
                            /\ Waiting(key)[g] \in Nat /\ fresh[key[2]][g] \in Nat
                            /\ unread[key][g] \in Nat
<1>1. FindRing(key) \in Ring
  BY NewRingType DEF FindRing, TypeOK
<1>2. key[2] \in Iids
  BY DEF Keys
<1>3. /\ fed[key] \in Counts /\ missed[key] \in Counts /\ unread[key] \in Counts
      /\ fresh[key[2]] \in Counts
  BY <1>2 DEF TypeOK
<1>4. Waiting(key) \in Counts
  BY <1>3, NothingType DEF Waiting
<1> QED
  BY <1>1, <1>3, <1>4 DEF Ring, Counts

THEOREM InitBooks == Init => BooksInv
<1> SUFFICES ASSUME Init PROVE BooksInv
  OBVIOUS
<1>1. Balanced
  BY DEF Init, Balanced, FindRing, Waiting, NewRing, Nothing
<1>2. TotalOfFed
  <2> SUFFICES ASSUME NEW g \in Gens PROVE total[g] = Sum([key \in Keys |-> fed[key][g]])
    BY DEF TotalOfFed
  <2>1. [key \in Keys |-> fed[key][g]] = [key \in Keys |-> 0]
    BY DEF Init, Nothing
  <2>2. total[g] = 0
    BY DEF Init, Nothing
  <2>3. Sum([key \in Keys |-> 0]) = 0
    BY KeysAreFinite, SumOfZeros
  <2> QED BY <2>1, <2>2, <2>3
<1>3. Said
  BY DEF Init, Said
<1> QED BY <1>1, <1>2, <1>3 DEF BooksInv

(* A record handed over to a process that is there. *)
LEMMA HandOverBooks ==
  ASSUME IInv, IInv', BooksInv, NEW process \in Processes, NEW iid \in Iids, NEW g \in Gens,
         HandOver(process, iid, g)
  PROVE  BooksInv'
<1> DEFINE key == <<process, iid>>
           ring == OpenRing(key)
           given == Admit(ring)
           grown == IF given.metrics THEN [given EXCEPT !.sampled[g] = @ + 1] ELSE given
<1>t. TypeOK /\ TypeOK'
  BY DEF IInv
<1>k. key \in Keys /\ key[1] = process /\ key[2] = iid
  BY DEF Keys
<1>1. reading = {process} /\ process \in live
  BY <1>t DEF HandOver, TypeOK
<1>2. key \notin DOMAIN settled /\ ~Refused(key)
  BY <1>1, <1>k, <1>t DEF IInv, RingsFollowLives, TypeOK, Refused
<1>3. /\ running' = PutRing(key, grown)
      /\ total' = [total EXCEPT ![g] = @ + 1]
      /\ fed' = [fed EXCEPT ![key][g] = @ + 1]
      /\ settled' = settled
      /\ fresh' = [fresh EXCEPT ![iid][g] = @ - 1]
      /\ fresh[iid][g] > 0
      /\ UNCHANGED <<live, left, reading, coverage_warned, missed, unread>>
  BY <1>2 DEF HandOver, Update
<1>4. ring \in Ring /\ given \in Ring
  BY <1>t, OpenRingType, AdmitType
<1>5. grown.lost = ring.lost /\ grown.cumulative = ring.cumulative
  <2>1. given.lost = ring.lost /\ given.cumulative = ring.cumulative
    BY <1>4 DEF Admit, Ring
  <2>2. grown.lost = given.lost /\ grown.cumulative = given.cumulative
    BY <1>4 DEF Ring
  <2> QED BY <2>1, <2>2
<1>6. /\ DOMAIN running' = DOMAIN running \cup {key}
      /\ running'[key] = grown
      /\ \A k \in DOMAIN running \ {key} : running'[k] = running[k]
  BY <1>3 DEF PutRing
<1>7. /\ fed' \in [Keys -> Counts]
      /\ fed'[key][g] = fed[key][g] + 1
      /\ \A x \in Gens \ {g} : fed'[key][x] = fed[key][x]
      /\ \A k \in Keys \ {key} : fed'[k] = fed[k]
  <2>1. fed \in [Keys -> Counts] /\ fed' \in [Keys -> Counts]
    BY <1>t DEF TypeOK
  <2>2. fed[key] \in Counts
    BY <1>k, <2>1
  <2>3. fed'[key] = [fed[key] EXCEPT ![g] = @ + 1] /\ \A k \in Keys \ {key} : fed'[k] = fed[k]
    BY <1>k, <1>3, <2>1
  <2> QED BY <2>1, <2>2, <2>3 DEF Counts
<1>8. /\ FindRing(key)' = grown /\ FindRing(key) = ring
      /\ \A k \in Keys \ {key} : FindRing(k)' = FindRing(k)
  BY <1>2, <1>3, <1>6 DEF FindRing, OpenRing
<1>9. /\ Waiting(key)[g]' = Waiting(key)[g] - 1
      /\ \A x \in Gens \ {g} : Waiting(key)[x]' = Waiting(key)[x]
      /\ \A k \in Keys \ {key} : Waiting(k)' = Waiting(k)
  <2>1. fresh[iid] \in Counts
    BY <1>t DEF TypeOK
  <2>2. /\ fresh'[iid][g] = fresh[iid][g] - 1
        /\ \A x \in Gens \ {g} : fresh'[iid][x] = fresh[iid][x]
        /\ \A i \in Iids \ {iid} : fresh'[i] = fresh[i]
    BY <1>t, <1>3, <2>1 DEF TypeOK, Counts
  <2>3. Waiting(key) = fresh[iid] /\ Waiting(key)' = fresh'[iid]
    BY <1>1, <1>3, <1>k DEF Waiting
  <2>4. ASSUME NEW k \in Keys, k # key
        PROVE  Waiting(k)' = Waiting(k)
    <3>1. k[1] = process => k[2] # iid /\ k[2] \in Iids
      BY <2>4 DEF Keys
    <3> QED BY <3>1, <2>2, <1>1, <1>3 DEF Waiting, Nothing
  <2> QED BY <2>2, <2>3, <2>4
<1> HIDE DEF key, ring, given, grown
<1>10. Balanced'
  <2> SUFFICES ASSUME NEW k \in Keys, NEW x \in Gens
               PROVE  /\ FindRing(k)'.lost[x] = missed'[k][x]
                      /\ FindRing(k)'.cumulative[x]
                           = fed'[k][x] + missed'[k][x] + unread'[k][x] + Waiting(k)'[x]
    BY DEF Balanced
  <2>1. /\ FindRing(k).lost[x] = missed[k][x]
        /\ FindRing(k).cumulative[x]
             = fed[k][x] + missed[k][x] + unread[k][x] + Waiting(k)[x]
    BY DEF BooksInv, Balanced
  <2>2. /\ FindRing(k).cumulative[x] \in Nat /\ fed[k][x] \in Nat /\ missed[k][x] \in Nat
        /\ unread[k][x] \in Nat
        /\ Waiting(k)[x] \in Nat
    BY <1>t, FindRingType
  <2>3. CASE k # key
    BY <2>1, <2>3, <1>3, <1>7, <1>8, <1>9
  <2>4. CASE k = key /\ x # g
    BY <2>1, <2>4, <1>3, <1>5, <1>7, <1>8, <1>9
  <2>5. CASE k = key /\ x = g
    BY <2>1, <2>2, <2>5, <1>3, <1>5, <1>7, <1>8, <1>9
  <2> QED BY <2>3, <2>4, <2>5
<1>11. TotalOfFed'
  <2> SUFFICES ASSUME NEW x \in Gens
               PROVE  total'[x] = Sum([k \in Keys |-> fed'[k][x]])
    BY DEF TotalOfFed
  <2> DEFINE before == [k \in Keys |-> fed[k][x]]
             after == [k \in Keys |-> fed'[k][x]]
  <2>1. total[x] = Sum(before)
    BY DEF BooksInv, TotalOfFed
  <2>2. CASE x # g
    <3>1. after = before
      BY <2>2, <1>7
    <3>2. total'[x] = total[x]
      BY <2>2, <1>3, <1>t DEF TypeOK, Counts
    <3> QED BY <3>1, <3>2, <2>1
  <2>3. CASE x = g
    <3>1. /\ before \in [Keys -> Int] /\ after \in [Keys -> Int]
          /\ after[key] = before[key] + 1
          /\ \A k \in Keys \ {key} : after[k] = before[k]
      <4>1. \A k \in Keys : fed[k][x] \in Nat /\ fed'[k][x] \in Nat
        BY <1>t, <1>7 DEF TypeOK, Counts
      <4> QED BY <4>1, <2>3, <1>7, <1>k
    <3>2. total'[x] = total[x] + 1
      BY <2>3, <1>3, <1>t DEF TypeOK, Counts
    <3> HIDE DEF before, after
    <3>3. Sum(after) = Sum(before) + 1
      BY <3>1, <1>k, KeysAreFinite, SumBumps
    <3> QED BY <3>2, <3>3, <2>1 DEF after
  <2> QED BY <2>2, <2>3
<1>12. Said'
  <2> SUFFICES ASSUME NEW k \in DOMAIN running', ~running'[k].declined,
                      k[1] \notin reading', PoorlyRead(k)'
               PROVE  coverage_warned'
    BY DEF Said, Declined
  <2>1. k # key /\ k \in DOMAIN running /\ running'[k] = running[k]
    BY <1>1, <1>3, <1>6, <1>k
  <2>2. k \in Keys /\ fed'[k] = fed[k] /\ missed'[k] = missed[k]
    BY <2>1, <1>3, <1>7, <1>t DEF TypeOK
  <2>3. PoorlyRead(k)
    BY <2>2 DEF PoorlyRead
  <2> QED BY <2>1, <2>3, <1>3 DEF BooksInv, Said, Declined
<1> QED BY <1>10, <1>11, <1>12 DEF BooksInv

(* Rings that settle keep what they hold, and what has left is not asked for. *)
LEMMA SettleBooks ==
  ASSUME IInv, BooksInv, NEW gone \in SUBSET Processes, NEW listed \in SUBSET live,
         Settle(gone), open \cap gone = open \ listed,
         reading' = {}, reading \cap listed = {},
         UNCHANGED <<coverage_warned, fed, missed>>,
         \A key \in Keys, g \in Gens : unread'[key][g] = unread[key][g] + Waiting(key)[g]
  PROVE  BooksInv'
<1> DEFINE keys == KeysOf(gone \cap open)
<1>t. TypeOK
  BY DEF IInv
<1>1. /\ settled' = [k \in DOMAIN settled \cup keys |->
                       IF k \in keys THEN running[k] ELSE settled[k]]
      /\ running' = [k \in DOMAIN running \ keys |-> running[k]]
      /\ total' = total /\ fed' = fed /\ missed' = missed
      /\ coverage_warned' = coverage_warned
  BY DEF Settle
<1>2. keys \subseteq DOMAIN running /\ DOMAIN running \cap DOMAIN settled = {}
  <2>1. \A key \in DOMAIN running : key \notin DOMAIN settled
    BY <1>t DEF IInv, RingsFollowLives, TypeOK
  <2> QED BY <2>1 DEF KeysOf
<1>3. /\ DOMAIN running' = DOMAIN running \ keys
      /\ DOMAIN settled' = DOMAIN settled \cup keys
      /\ \A k \in DOMAIN running' : running'[k] = running[k]
      /\ \A k \in keys : settled'[k] = running[k]
      /\ \A k \in DOMAIN settled \ keys : settled'[k] = settled[k]
  BY <1>1
<1>4. \A key \in DOMAIN running' : key[1] \in listed
  BY <1>3 DEF IInv, RingsFollowLives, KeysOf
<1> HIDE DEF keys
<1>5. \A key \in Keys : FindRing(key)' = FindRing(key)
  BY <1>2, <1>3 DEF FindRing
<1>6. Balanced'
  <2> SUFFICES ASSUME NEW k \in Keys, NEW x \in Gens
               PROVE  /\ FindRing(k)'.lost[x] = missed'[k][x]
                      /\ FindRing(k)'.cumulative[x]
                           = fed'[k][x] + missed'[k][x] + unread'[k][x] + Waiting(k)'[x]
    BY DEF Balanced
  <2>1. /\ FindRing(k).lost[x] = missed[k][x]
        /\ FindRing(k).cumulative[x]
             = fed[k][x] + missed[k][x] + unread[k][x] + Waiting(k)[x]
    BY DEF BooksInv, Balanced
  <2>2. /\ FindRing(k).cumulative[x] \in Nat /\ fed[k][x] \in Nat /\ missed[k][x] \in Nat
        /\ unread[k][x] \in Nat
        /\ Waiting(k)[x] \in Nat
    BY <1>t, FindRingType
  <2>3. Waiting(k)'[x] = 0
    BY DEF Waiting, Nothing
  <2>4. FindRing(k)' = FindRing(k) /\ fed' = fed /\ missed' = missed
    BY <1>1, <1>5
  <2>5. unread'[k][x] = unread[k][x] + Waiting(k)[x]
    OBVIOUS
  <2> QED BY <2>1, <2>2, <2>3, <2>4, <2>5
<1>7. TotalOfFed'
  BY <1>1 DEF BooksInv, TotalOfFed
<1>8. Said'
  <2> SUFFICES ASSUME NEW k \in DOMAIN running', ~running'[k].declined, PoorlyRead(k)'
               PROVE  coverage_warned'
    BY DEF Said, Declined
  <2>1. k \in DOMAIN running /\ running'[k] = running[k] /\ k[1] \notin reading
    BY <1>3, <1>4
  <2>2. PoorlyRead(k)
    BY <1>1 DEF PoorlyRead
  <2> QED BY <2>1, <2>2, <1>1 DEF BooksInv, Said, Declined
<1> QED BY <1>6, <1>7, <1>8 DEF BooksInv

(* A read counts its records and its losses before it hands any over. *)
LEMMA IngestBooks ==
  ASSUME IInv, IInv', BooksInv, NEW process \in Processes,
         NEW gained \in [Iids -> [Gens -> 0..MaxRuns]], NEW skipped \in [Iids -> [Gens -> 0..MaxRuns]],
         Ingest(process, gained, skipped)
  PROVE  BooksInv'
<1> DEFINE keys == {process} \X {iid \in Iids : \E g \in Gens : gained[iid][g] > 0}
           lost(key) == [g \in Gens |-> IF Seeded(key, g) THEN skipped[key[2]][g] ELSE 0]
           earlier(key) == [g \in Gens |-> IF Seeded(key, g) THEN 0 ELSE skipped[key[2]][g]]
           counted(key) ==
             [OpenRing(key) EXCEPT
                !.cumulative = [g \in Gens |-> @[g] + gained[key[2]][g] + skipped[key[2]][g]],
                !.lost = [g \in Gens |-> @[g] + lost(key)[g]]]
<1>t. TypeOK /\ TypeOK'
  BY DEF IInv
<1>1. /\ process \in live /\ reading = {}
      /\ running' = [key \in DOMAIN running \cup keys |->
                       IF key \in keys THEN counted(key) ELSE running[key]]
      /\ missed' = [key \in Keys |-> IF key \in keys
                                     THEN [g \in Gens |-> missed[key][g] + lost(key)[g]]
                                     ELSE missed[key]]
      /\ unread' = [key \in Keys |-> IF key \in keys
                                     THEN [g \in Gens |-> unread[key][g] + earlier(key)[g]]
                                     ELSE unread[key]]
      /\ reading' = {process} /\ fresh' = gained
      /\ UNCHANGED <<settled, total, coverage_warned, fed>>
  BY DEF Ingest, CountGains
<1>2. keys \subseteq Keys /\ \A key \in keys : key[1] = process /\ key[2] \in Iids
  BY DEF Keys
<1>3. ASSUME NEW iid \in Iids, NEW g \in Gens
      PROVE  gained[iid][g] \in Nat /\ skipped[iid][g] \in Nat
  <2>1. gained[iid][g] \in 0..MaxRuns /\ skipped[iid][g] \in 0..MaxRuns
    OBVIOUS
  <2> QED BY ONLY <2>1, StatsAssumption
<1>l. ASSUME NEW key \in keys
      PROVE  /\ lost(key) \in Counts /\ earlier(key) \in Counts
             /\ \A g \in Gens : lost(key)[g] + earlier(key)[g] = skipped[key[2]][g]
  BY <1>2, <1>3 DEF Counts
<1> HIDE DEF lost, earlier
<1>4. /\ DOMAIN running' = DOMAIN running \cup keys
      /\ \A key \in keys : running'[key] = counted(key)
      /\ \A key \in DOMAIN running \ keys : running'[key] = running[key]
  BY <1>1
<1>5. ASSUME NEW key \in keys, NEW g \in Gens
      PROVE  /\ FindRing(key)'.lost[g] = FindRing(key).lost[g] + lost(key)[g]
             /\ FindRing(key)'.cumulative[g]
                  = FindRing(key).cumulative[g] + gained[key[2]][g] + skipped[key[2]][g]
  <2>1. OpenRing(key) \in Ring
    BY <1>t, OpenRingType
  <2>2. counted(key) = [OpenRing(key) EXCEPT
           !.cumulative = [x \in Gens |-> OpenRing(key).cumulative[x] + gained[key[2]][x] + skipped[key[2]][x]],
           !.lost = [x \in Gens |-> OpenRing(key).lost[x] + lost(key)[x]]]
    BY <2>1 DEF Ring
  <2>3. /\ counted(key).lost[g] = OpenRing(key).lost[g] + lost(key)[g]
        /\ counted(key).cumulative[g]
             = OpenRing(key).cumulative[g] + gained[key[2]][g] + skipped[key[2]][g]
    BY <2>1, <2>2 DEF Ring
  <2>4. key \notin DOMAIN settled
    BY <1>1, <1>2, <1>t DEF IInv, RingsFollowLives, TypeOK
  <2>5. FindRing(key) = OpenRing(key)
    BY <2>4 DEF FindRing, OpenRing
  <2>6. FindRing(key)' = counted(key)
    BY <1>4 DEF FindRing
  <2> HIDE DEF counted
  <2> QED BY <2>3, <2>5, <2>6
<1>6. \A key \in Keys \ keys : /\ FindRing(key)' = FindRing(key)
                               /\ missed'[key] = missed[key] /\ unread'[key] = unread[key]
  BY <1>1, <1>4 DEF FindRing
<1>7. \A key \in keys, g \in Gens : /\ missed'[key][g] = missed[key][g] + lost(key)[g]
                                    /\ unread'[key][g] = unread[key][g] + earlier(key)[g]
  BY <1>1, <1>2
<1>8. \A key \in Keys, g \in Gens : Waiting(key)[g] = 0
  BY <1>1 DEF Waiting, Nothing
<1>9. /\ \A key \in keys, g \in Gens : Waiting(key)'[g] = gained[key[2]][g]
      /\ \A key \in Keys \ keys, g \in Gens : Waiting(key)'[g] = 0
  <2>1. \A key \in keys, g \in Gens : Waiting(key)'[g] = gained[key[2]][g]
    BY <1>1, <1>2 DEF Waiting
  <2>2. ASSUME NEW key \in Keys, key \notin keys, NEW g \in Gens
        PROVE  Waiting(key)'[g] = 0
    <3>1. CASE key[1] # process
      BY <3>1, <1>1 DEF Waiting, Nothing
    <3>2. CASE key[1] = process
      <4>1. key[2] \in Iids /\ ~ (gained[key[2]][g] > 0)
        BY <3>2, <2>2 DEF Keys
      <4>2. gained[key[2]][g] = 0
        BY <4>1, <1>3
      <4>3. Waiting(key)' = gained[key[2]]
        BY <3>2, <1>1 DEF Waiting
      <4> QED BY <4>2, <4>3
    <3> QED BY <3>1, <3>2
  <2> QED BY <2>1, <2>2
<1> HIDE DEF keys, counted
<1>10. Balanced'
  <2> SUFFICES ASSUME NEW k \in Keys, NEW x \in Gens
               PROVE  /\ FindRing(k)'.lost[x] = missed'[k][x]
                      /\ FindRing(k)'.cumulative[x]
                           = fed'[k][x] + missed'[k][x] + unread'[k][x] + Waiting(k)'[x]
    BY DEF Balanced
  <2>1. /\ FindRing(k).lost[x] = missed[k][x]
        /\ FindRing(k).cumulative[x]
             = fed[k][x] + missed[k][x] + unread[k][x] + Waiting(k)[x]
    BY DEF BooksInv, Balanced
  <2>2. /\ FindRing(k).cumulative[x] \in Nat /\ fed[k][x] \in Nat /\ missed[k][x] \in Nat
        /\ unread[k][x] \in Nat
    BY <1>t, FindRingType
  <2>3. CASE k \in keys
    <3>1. /\ gained[k[2]][x] \in Nat /\ lost(k)[x] \in Nat /\ earlier(k)[x] \in Nat
          /\ skipped[k[2]][x] = lost(k)[x] + earlier(k)[x]
      BY <1>2, <1>3, <1>l, <2>3 DEF Counts
    <3> QED BY <2>1, <2>2, <2>3, <3>1, <1>1, <1>5, <1>7, <1>8, <1>9
  <2>4. CASE k \notin keys
    BY <2>1, <2>2, <2>4, <1>1, <1>6, <1>8, <1>9
  <2> QED BY <2>3, <2>4
<1>11. TotalOfFed'
  BY <1>1 DEF BooksInv, TotalOfFed
<1>12. Said'
  <2> SUFFICES ASSUME NEW k \in DOMAIN running', ~running'[k].declined,
                      k[1] \notin reading', PoorlyRead(k)'
               PROVE  coverage_warned'
    BY DEF Said, Declined
  <2>1. k \notin keys /\ k \in DOMAIN running /\ running'[k] = running[k]
    BY <1>1, <1>2, <1>4
  <2>2. k \in Keys /\ fed'[k] = fed[k] /\ missed'[k] = missed[k] /\ k[1] \notin reading
    BY <2>1, <1>1, <1>6, <1>t DEF TypeOK
  <2>3. PoorlyRead(k)
    BY <2>2 DEF PoorlyRead
  <2> QED BY <2>1, <2>2, <2>3, <1>1 DEF BooksInv, Said, Declined
<1> QED BY <1>10, <1>11, <1>12 DEF BooksInv

(* A read that ends well asks LowCoverage of every ring of its process. *)
LEMMA EndReadBooks ==
  ASSUME IInv, BooksInv, NEW process \in Processes, EndRead(process)
  PROVE  BooksInv'
<1>t. TypeOK
  BY DEF IInv
<1>1. /\ UNCHANGED <<running, settled, total, fed, missed, unread, fresh>>
      /\ reading = {process} /\ reading' = {}
      /\ fresh = [iid \in Iids |-> Nothing]
      /\ coverage_warned' = (coverage_warned \/ LowCoverage(process))
  BY DEF EndRead, stats, history
<1>2. Balanced'
  <2>1. \A key \in Keys : FindRing(key)' = FindRing(key)
    BY <1>1 DEF FindRing
  <2>2. \A key \in Keys : Waiting(key)' = Waiting(key)
    <3>1. \A key \in Keys : key[2] \in Iids
      BY DEF Keys
    <3> QED BY <1>1, <3>1 DEF Waiting, Nothing
  <2> QED BY <1>1, <2>1, <2>2 DEF BooksInv, Balanced
<1>3. TotalOfFed'
  BY <1>1 DEF BooksInv, TotalOfFed
<1>4. Said'
  <2> SUFFICES ASSUME NEW k \in DOMAIN running, ~running[k].declined, PoorlyRead(k)
               PROVE  coverage_warned'
    BY <1>1 DEF Said, Declined, PoorlyRead
  <2>1. CASE k[1] # process
    BY <2>1, <1>1 DEF BooksInv, Said, Declined
  <2>2. CASE k[1] = process
    <3>1. k \in Keys
      BY <1>t DEF TypeOK
    <3>2. PICK g \in Gens :
            /\ missed[k][g] > 0
            /\ 100 * fed[k][g] < Advisory * (fed[k][g] + missed[k][g])
      BY DEF PoorlyRead
    <3>3. running[k].lost[g] = missed[k][g]
      BY <3>1 DEF BooksInv, Balanced, FindRing
    <3>4. running[k].sampled = fed[k]
      BY DEF IInv, SampledWhole, WholeOrNothing
    <3>5. k \in KeysOf({process})
      BY <2>2 DEF KeysOf
    <3>6. LowCoverage(process)
      BY <3>2, <3>3, <3>4, <3>5 DEF LowCoverage
    <3> QED BY <3>6, <1>1
  <2> QED BY <2>1, <2>2
<1> QED BY <1>2, <1>3, <1>4 DEF BooksInv

(* A step of the caller's that leaves the read and what came of it alone. *)
LEMMA CallerBooks ==
  ASSUME BooksInv, UNCHANGED <<stats, history, reading, fresh, coverage_warned>>
  PROVE  BooksInv'
BY DEF BooksInv, Balanced, FindRing, Waiting, Nothing, TotalOfFed, Said, Declined, PoorlyRead,
       stats, history

(* A re-read that is dropped was counted all the same. *)
LEMMA DropRereadBooks ==
  ASSUME IInv, BooksInv, NEW process \in Processes, NEW iid \in Iids, NEW g \in Gens,
         DropReread(process, iid, g)
  PROVE  BooksInv'
<1> DEFINE key == <<process, iid>>
<1>t. TypeOK
  BY DEF IInv
<1>k. key \in Keys /\ key[1] = process /\ key[2] = iid
  BY DEF Keys
<1>1. /\ UNCHANGED <<running, settled, total, fed, missed, reading, coverage_warned>>
      /\ reading = {process}
      /\ fresh' = [fresh EXCEPT ![iid][g] = @ - 1]
      /\ unread' = [unread EXCEPT ![key][g] = @ + 1]
  BY DEF DropReread, stats
<1>2. /\ fresh'[iid][g] = fresh[iid][g] - 1
      /\ \A x \in Gens \ {g} : fresh'[iid][x] = fresh[iid][x]
      /\ \A i \in Iids \ {iid} : fresh'[i] = fresh[i]
  BY <1>t, <1>1 DEF TypeOK, Counts
<1>3. /\ unread'[key][g] = unread[key][g] + 1
      /\ \A x \in Gens \ {g} : unread'[key][x] = unread[key][x]
      /\ \A k \in Keys \ {key} : unread'[k] = unread[k]
  BY <1>t, <1>k, <1>1 DEF TypeOK, Counts
<1> HIDE DEF key
<1>4. /\ Waiting(key) = fresh[iid] /\ Waiting(key)' = fresh'[iid]
      /\ \A k \in Keys \ {key} : Waiting(k)' = Waiting(k)
  <2>1. Waiting(key) = fresh[iid] /\ Waiting(key)' = fresh'[iid]
    BY <1>1, <1>k DEF Waiting
  <2>2. ASSUME NEW k \in Keys \ {key} PROVE Waiting(k)' = Waiting(k)
    <3>1. k[1] = process => k[2] # iid /\ k[2] \in Iids
      BY DEF Keys, key
    <3> QED BY <3>1, <1>1, <1>2 DEF Waiting, Nothing
  <2> QED BY <2>1, <2>2
<1>5. Balanced'
  <2> SUFFICES ASSUME NEW k \in Keys, NEW x \in Gens
               PROVE  /\ FindRing(k)'.lost[x] = missed'[k][x]
                      /\ FindRing(k)'.cumulative[x]
                           = fed'[k][x] + missed'[k][x] + unread'[k][x] + Waiting(k)'[x]
    BY DEF Balanced
  <2>1. /\ FindRing(k).lost[x] = missed[k][x]
        /\ FindRing(k).cumulative[x]
             = fed[k][x] + missed[k][x] + unread[k][x] + Waiting(k)[x]
    BY DEF BooksInv, Balanced
  <2>2. /\ fed[k][x] \in Nat /\ missed[k][x] \in Nat
        /\ unread[k][x] \in Nat /\ Waiting(k)[x] \in Nat
    BY <1>t, FindRingType
  <2>3. FindRing(k)' = FindRing(k) /\ fed' = fed /\ missed' = missed
    BY <1>1 DEF FindRing
  <2>4. CASE k # key \/ x # g
    BY <2>1, <2>3, <2>4, <1>2, <1>3, <1>4
  <2>5. CASE k = key /\ x = g
    BY <2>1, <2>2, <2>3, <2>5, <1>2, <1>3, <1>4
  <2> QED BY <2>4, <2>5
<1>6. TotalOfFed'
  BY <1>1 DEF BooksInv, TotalOfFed
<1>7. Said'
  BY <1>1 DEF BooksInv, Said, Declined, PoorlyRead
<1> QED BY <1>5, <1>6, <1>7 DEF BooksInv

(* Every step keeps the books. *)
THEOREM NextBooks == IInv /\ IInv' /\ BooksInv /\ [Next]_statsVars => BooksInv'
<1> SUFFICES ASSUME IInv, IInv', BooksInv, [Next]_statsVars PROVE BooksInv'
  OBVIOUS
<1>1. TypeOK /\ TypeOK'
  BY DEF IInv
<1>2. ASSUME NEW process \in Processes, Appear(process) PROVE BooksInv'
  BY <1>2, CallerBooks DEF Appear
<1>3. ASSUME NEW process \in Processes, EndRead(process) PROVE BooksInv'
  BY <1>3, EndReadBooks
<1>4. ASSUME NEW process \in Processes, Forget(process) PROVE BooksInv'
  <2>1. open \cap {process} = open \ (live \ {process})
    BY DEF IInv, RingsFollowLives
  <2>2. reading \cap (live \ {process}) = {} /\ reading' = {}
    BY <1>4 DEF Forget
  <2>3. \A key \in Keys, g \in Gens : unread'[key][g] = unread[key][g] + Waiting(key)[g]
    BY <1>4 DEF Forget
  <2> QED
    BY <1>4, <2>1, <2>2, <2>3, SettleBooks DEF Forget, Materialize
<1>5. ASSUME NEW process \in Processes,
             NEW gained \in [Iids -> [Gens -> 0..MaxRuns]], NEW skipped \in [Iids -> [Gens -> 0..MaxRuns]],
             Ingest(process, gained, skipped)
      PROVE  BooksInv'
  BY <1>5, IngestBooks
<1>7. ASSUME NEW process \in Processes, NEW iid \in Iids, NEW g \in Gens, HandOver(process, iid, g)
      PROVE  BooksInv'
  BY <1>7, HandOverBooks
<1>8. ASSUME NEW process \in Processes, NEW iid \in Iids, NEW g \in Gens, DropReread(process, iid, g)
      PROVE  BooksInv'
  BY <1>8, DropRereadBooks
<1>10. ASSUME NEW listed \in SUBSET live, RetainListed(listed) PROVE BooksInv'
  <2>1. open \ listed \subseteq Processes /\ open \cap (open \ listed) = open \ listed
    BY <1>1 DEF TypeOK
  <2>2. reading = {} /\ reading' = {}
    BY <1>10 DEF RetainListed
  <2>3. \A key \in Keys, g \in Gens : unread'[key][g] = unread[key][g] + Waiting(key)[g]
    <3>1. \A key \in Keys, g \in Gens : unread[key][g] \in Nat /\ Waiting(key)[g] = 0
      BY <1>1, <2>2, FindRingType DEF Waiting, Nothing
    <3> QED
      BY <1>10, <3>1 DEF RetainListed, history
  <2>4. UNCHANGED <<coverage_warned, fed, missed>>
    BY <1>10 DEF RetainListed, history
  <2> QED
    BY <1>10, <2>1, <2>2, <2>3, <2>4, SettleBooks DEF RetainListed, Retain
<1>11. CASE UNCHANGED statsVars
  BY <1>11, CallerBooks DEF statsVars, caller
<1> QED
  BY <1>2, <1>3, <1>4, <1>5, <1>7, <1>8, <1>10, <1>11 DEF Next

THEOREM BooksAreKept == Spec => []BooksInv
<1>1. Init => BooksInv
  BY InitBooks
<1>2. IInv /\ IInv' /\ BooksInv /\ [Next]_statsVars => BooksInv'
  BY NextBooks
<1> QED
  BY <1>1, <1>2, Inductive, PTL DEF Spec

(* The rings a reader is given, running and settled, are those of all keys. *)
LEMMA AllRingsOfKeys ==
  ASSUME IInv, NEW field \in {"lost", "cumulative"}, NEW g \in Gens
  PROVE  AllRings(field, g) = Sum([key \in Keys |-> FindRing(key)[field][g]])
<1>t. TypeOK
  BY DEF IInv
<1> DEFINE inRunning == [key \in DOMAIN running |-> running[key][field][g]]
           inSettled == [key \in DOMAIN settled |-> settled[key][field][g]]
           ofRunning == [key \in Keys |-> IF key \in DOMAIN running THEN inRunning[key] ELSE 0]
           ofSettled == [key \in Keys |-> IF key \in DOMAIN settled THEN inSettled[key] ELSE 0]
           ofAll == [key \in Keys |-> FindRing(key)[field][g]]
<1>1. DOMAIN running \in SUBSET Keys /\ DOMAIN settled \in SUBSET Keys
  BY <1>t DEF TypeOK
<1>2. \A ring \in Ring : ring[field][g] \in Int
  BY DEF Ring, Counts
<1>3. inRunning \in [DOMAIN running -> Int] /\ inSettled \in [DOMAIN settled -> Int]
  BY <1>2, <1>t DEF TypeOK
<1>4. ofRunning \in [Keys -> Int] /\ ofSettled \in [Keys -> Int]
  <2> HIDE DEF inRunning, inSettled
  <2> QED BY <1>3
<1>5. \A key \in Keys : ofAll[key] = ofRunning[key] + ofSettled[key]
  <2> SUFFICES ASSUME NEW key \in Keys
               PROVE  FindRing(key)[field][g] = ofRunning[key] + ofSettled[key]
    OBVIOUS
  <2>1. CASE key \in DOMAIN running
    <3>1. key \notin DOMAIN settled
      BY <2>1, <1>t DEF IInv, RingsFollowLives, TypeOK
    <3>2. ofRunning[key] = running[key][field][g] /\ ofSettled[key] = 0
      BY <2>1, <3>1
    <3>3. ofRunning[key] \in Int
      BY <1>4
    <3> QED BY <2>1, <3>2, <3>3 DEF FindRing
  <2>2. CASE key \notin DOMAIN running /\ key \in DOMAIN settled
    <3>1. ofRunning[key] = 0 /\ ofSettled[key] = settled[key][field][g]
      BY <2>2
    <3>2. ofSettled[key] \in Int
      BY <1>4
    <3> QED BY <2>2, <3>1, <3>2 DEF FindRing
  <2>3. CASE key \notin DOMAIN running /\ key \notin DOMAIN settled
    BY <2>3 DEF FindRing, NewRing, Nothing
  <2> QED BY <2>1, <2>2, <2>3
<1>6. ofAll = [key \in Keys |-> ofRunning[key] + ofSettled[key]]
  <2> HIDE DEF ofRunning, ofSettled
  <2> QED BY <1>5
<1>7. Sum(inRunning) = Sum(ofRunning) /\ Sum(inSettled) = Sum(ofSettled)
  <2> HIDE DEF inRunning, inSettled
  <2>1. Sum(inRunning) = Sum(ofRunning)
    BY <1>1, <1>3, KeysAreFinite, SumExtends
  <2>2. Sum(inSettled) = Sum(ofSettled)
    BY <1>1, <1>3, KeysAreFinite, SumExtends
  <2> QED BY <2>1, <2>2
<1>8. Sum(ofAll) = Sum(ofRunning) + Sum(ofSettled)
  <2> HIDE DEF ofRunning, ofSettled, ofAll
  <2> QED BY <1>4, <1>6, KeysAreFinite, SumPlus
<1> QED BY <1>7, <1>8 DEF AllRings

(***************************************************************************)
(* Between reads pause_totals_by_gen and pause_totals add up to the        *)
(* target's own counters (cumulative_totals_by_gen), whichever rings were  *)
(* declined, settled or are still running: what is neither sampled nor     *)
(* lost was before a first read, dropped as a re-read, or left in a read   *)
(* that failed.                                                            *)
(***************************************************************************)
THEOREM TotalsHold == Spec => []TotalsAreWhole
<1>1. IInv /\ BooksInv => TotalsAreWhole
  <2> SUFFICES ASSUME IInv, BooksInv, reading = {}, NEW g \in Gens
               PROVE  /\ total[g] + AllRings("lost", g)
                           = AllRings("cumulative", g) - Sum([key \in Keys |-> unread[key][g]])
                      /\ \A key \in Keys :
                           FindRing(key).metrics =>
                             FindRing(key).sampled[g] + FindRing(key).lost[g]
                               = FindRing(key).cumulative[g] - unread[key][g]
    BY DEF TotalsAreWhole, PauseTotalsByGen, CumulativeByGen, PauseTotals
  <2> DEFINE taken == [key \in Keys |-> fed[key][g]]
             reported == [key \in Keys |-> missed[key][g]]
             known == [key \in Keys |-> taken[key] + reported[key]]
             others == [key \in Keys |-> unread[key][g]]
             gained == [key \in Keys |-> FindRing(key)["cumulative"][g]]
  <2>t. TypeOK
    BY DEF IInv
  <2>b. ASSUME NEW key \in Keys
        PROVE  /\ fed[key][g] \in Nat /\ missed[key][g] \in Nat /\ unread[key][g] \in Nat
               /\ FindRing(key).lost[g] = missed[key][g]
               /\ FindRing(key).cumulative[g] = fed[key][g] + missed[key][g] + unread[key][g]
    <3>1. Waiting(key)[g] = 0
      BY DEF Waiting, Nothing
    <3>2. FindRing(key).cumulative[g]
            = fed[key][g] + missed[key][g] + unread[key][g] + Waiting(key)[g]
      BY DEF BooksInv, Balanced
    <3>3. FindRing(key).lost[g] = missed[key][g]
      BY DEF BooksInv, Balanced
    <3>4. fed[key][g] \in Nat /\ missed[key][g] \in Nat /\ unread[key][g] \in Nat
      BY <2>t, FindRingType
    <3> QED BY <3>1, <3>2, <3>3, <3>4
  <2>1. total[g] = Sum(taken)
    BY DEF BooksInv, TotalOfFed
  <2>2. AllRings("lost", g) = Sum(reported)
    <3>1. [key \in Keys |-> FindRing(key)["lost"][g]] = reported
      BY <2>b
    <3> QED BY <3>1, AllRingsOfKeys
  <2>3. AllRings("cumulative", g) = Sum(gained)
    BY AllRingsOfKeys
  <2>4. /\ taken \in [Keys -> Int] /\ reported \in [Keys -> Int]
        /\ known \in [Keys -> Int] /\ others \in [Keys -> Int]
        /\ gained = [key \in Keys |-> known[key] + others[key]]
    BY <2>b
  <2>5. Sum(known) = Sum(taken) + Sum(reported)
    <3> HIDE DEF taken, reported
    <3> QED BY <2>4, KeysAreFinite, SumPlus
  <2>6. Sum(gained) = Sum(known) + Sum(others)
    <3> HIDE DEF known, others, gained
    <3> QED BY <2>4, KeysAreFinite, SumPlus
  <2>7. Sum(taken) \in Int /\ Sum(reported) \in Int /\ Sum(others) \in Int
    <3> HIDE DEF taken, reported, others
    <3> QED BY <2>4, KeysAreFinite, SumSteps
  <2>8. total[g] + AllRings("lost", g) = AllRings("cumulative", g) - Sum(others)
    <3> HIDE DEF taken, reported, known, others, gained
    <3> QED BY <2>1, <2>2, <2>3, <2>5, <2>6, <2>7
  <2>9. ASSUME NEW key \in Keys, FindRing(key).metrics
        PROVE  FindRing(key).sampled[g] + FindRing(key).lost[g]
                 = FindRing(key).cumulative[g] - unread[key][g]
    <3>1. FindRing(key).sampled = fed[key]
      BY <2>9 DEF IInv, SampledWhole, WholeOrNothing, FindRing, NewRing
    <3> QED BY <3>1, <2>b
  <2> QED BY <2>8, <2>9
<1> QED
  BY <1>1, Inductive, BooksAreKept, PTL

(***************************************************************************)
(* Between reads, a measured ring that was read too little of has been     *)
(* spoken of, whichever reads failed and whatever left in the meantime.    *)
(***************************************************************************)
THEOREM PoorReadsAreSaid == Spec => []LowCoverageIsSaid
<1>1. BooksInv => LowCoverageIsSaid
  BY DEF BooksInv, Said, LowCoverageIsSaid
<1> QED
  BY <1>1, BooksAreKept, PTL
=============================================================================
