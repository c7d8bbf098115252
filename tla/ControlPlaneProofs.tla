-------------------------- MODULE ControlPlaneProofs -------------------------
(***************************************************************************)
(* The registry and the control plane that asks it whose a message is.     *)
(*                                                                         *)
(* First the registry by itself: the names it gives out and the answers of *)
(* at(), for any pids and any number of departures.  Then the control      *)
(* plane, for any number of clients, threads, messages and connections:    *)
(* types, the one connection a client has, the processes its messages are  *)
(* filed under, and what the drain leaves.                                 *)
(***************************************************************************)
EXTENDS ControlPlane, WellFoundedInduction, TLAPS

-----------------------------------------------------------------------------
(* The registry. *)

IInv == TypeOK /\ EpochsCount

(* A non-empty set of positions of a sequence has a smallest one. *)
LEMMA SmallestIndex ==
  ASSUME NEW S, S \subseteq Nat, S # {}
  PROVE  \E m \in S : \A n \in S : m <= n
<1>1. OpToRel(<, Nat) = {pair \in Nat \X Nat : pair[1] < pair[2]}
  BY DEF OpToRel
<1>2. PICK m \in S : \A n \in S : ~ (<<n, m>> \in OpToRel(<, Nat))
  BY NatLessThanWellFounded, WFMin
<1>3. \A n \in S : ~ (n < m)
  BY <1>1, <1>2
<1> QED
  BY <1>3

(***************************************************************************)
(* at() by epoch: the least one that left at ts or after, else the newest. *)
(***************************************************************************)
ByEpoch(pid, ts) ==
  /\ LeftAfter(pid, ts) # {} =>
       /\ At(pid, ts).epoch \in LeftAfter(pid, ts)
       /\ \A j \in LeftAfter(pid, ts) : At(pid, ts).epoch <= j
       /\ At(pid, ts) = [pid |-> pid, epoch |-> At(pid, ts).epoch]
  /\ LeftAfter(pid, ts) = {} =>
       At(pid, ts).epoch = Len(retired[pid]) + (IF Held(pid) THEN 1 ELSE 0)

(* at() answers with an epoch, which the departures up to the instant decide. *)
LEMMA AtByEpoch == IInv => \A pid \in Pids, ts \in 0..MaxTime : ByEpoch(pid, ts)
<1> SUFFICES ASSUME IInv, NEW pid \in Pids, NEW ts \in 0..MaxTime
             PROVE  ByEpoch(pid, ts)
  OBVIOUS
<1> DEFINE n == Len(retired[pid])
<1>1. n \in Nat /\ LeftAfter(pid, ts) \subseteq 1..n
  BY DEF IInv, TypeOK, LeftAfter
<1>2. ASSUME LeftAfter(pid, ts) # {}
      PROVE  /\ At(pid, ts).epoch \in LeftAfter(pid, ts)
             /\ \A j \in LeftAfter(pid, ts) : At(pid, ts).epoch <= j
             /\ At(pid, ts) = [pid |-> pid, epoch |-> At(pid, ts).epoch]
  <2> DEFINE first == CHOOSE i \in LeftAfter(pid, ts) : \A j \in LeftAfter(pid, ts) : i <= j
  <2>1. \E i \in LeftAfter(pid, ts) : \A j \in LeftAfter(pid, ts) : i <= j
    BY <1>1, <1>2, SmallestIndex
  <2>2. first \in LeftAfter(pid, ts) /\ \A j \in LeftAfter(pid, ts) : first <= j
    BY <2>1
  <2>3. At(pid, ts) = retired[pid][first].process
    BY <1>2 DEF At
  <2> HIDE DEF first
  <2>4. At(pid, ts) = [pid |-> pid, epoch |-> first]
    BY <1>1, <2>2, <2>3 DEF IInv, EpochsCount
  <2>5. At(pid, ts).epoch = first
    BY <2>4
  <2> QED
    BY <2>2, <2>4, <2>5
<1>3. ASSUME LeftAfter(pid, ts) = {}
      PROVE  At(pid, ts).epoch = n + (IF Held(pid) THEN 1 ELSE 0)
  <2>1. CASE Held(pid)
    <3>1. At(pid, ts) = live[pid]
      BY <1>3, <2>1 DEF At
    <3>2. live[pid] = [pid |-> pid, epoch |-> n + 1]
      BY <2>1 DEF IInv, EpochsCount
    <3>3. At(pid, ts).epoch = n + 1
      BY <3>1, <3>2
    <3> QED
      BY <2>1, <3>3
  <2>2. CASE ~Held(pid) /\ n = 0
    <3>1. retired[pid] = <<>>
      BY <2>2 DEF IInv, TypeOK
    <3>2. At(pid, ts) = NoProcess
      BY <1>3, <2>2, <3>1 DEF At
    <3> QED
      BY <2>2, <3>2 DEF NoProcess
  <2>3. CASE ~Held(pid) /\ n # 0
    <3>1. retired[pid] # <<>>
      BY <2>3
    <3>2. At(pid, ts) = retired[pid][n].process
      BY <1>3, <2>3, <3>1 DEF At
    <3>3. n \in 1..n
      BY <1>1, <2>3
    <3>4. retired[pid][n].process = [pid |-> pid, epoch |-> n]
      BY <3>3 DEF IInv, EpochsCount
    <3>5. At(pid, ts).epoch = n
      BY <3>2, <3>4
    <3> QED
      BY <1>1, <2>3, <3>5
  <2> QED
    BY <2>1, <2>2, <2>3
<1> QED
  BY <1>2, <1>3 DEF ByEpoch

-----------------------------------------------------------------------------
(* The steps. *)

LEMMA InitIInv == Init => IInv
<1> SUFFICES ASSUME Init PROVE IInv
  OBVIOUS
<1>1. TypeOK
  BY DEF Init, TypeOK
<1>2. EpochsCount
  BY DEF Init, EpochsCount, Held
<1> QED
  BY <1>1, <1>2 DEF IInv

(* What a step does to one pid: nothing, or it appends to one of its books. *)
LEMMA CreateIInv == \A pid \in Pids : IInv /\ Create(pid) => IInv'
<1> SUFFICES ASSUME NEW pid \in Pids, IInv, Create(pid) PROVE IInv'
  OBVIOUS
<1> DEFINE p == NextProcess(pid)
<1>1. p \in Process /\ p = [pid |-> pid, epoch |-> Len(retired[pid]) + 1]
  BY DEF IInv, TypeOK, NextProcess, Process
<1>2. /\ DOMAIN live' = DOMAIN live \cup {pid}
      /\ live'[pid] = p
      /\ \A q \in DOMAIN live : q # pid => live'[q] = live[q]
      /\ live' = [q \in DOMAIN live' |-> live'[q]]
      /\ retired' = retired /\ now' = now
  BY DEF Create
<1>3. TypeOK'
  <2>1. \A q \in DOMAIN live' : live'[q] \in Process
    BY <1>1, <1>2 DEF IInv, TypeOK
  <2>2. live' \in [DOMAIN live' -> Process]
    BY <1>2, <2>1
  <2> QED
    BY <2>2, <1>2 DEF IInv, TypeOK
<1>4. EpochsCount'
  BY <1>1, <1>2 DEF IInv, EpochsCount, Held
<1> QED
  BY <1>3, <1>4 DEF IInv

(* What a retirement leaves of one pid: its book as it was, or one entry longer. *)
LEMMA RetireAllEffect ==
  ASSUME IInv, NEW leaving, NEW ts \in Nat, RetireAll(leaving, ts), NEW pid \in Pids
  PROVE  /\ pid \in leaving /\ Held(pid) =>
              /\ ~Held(pid)'
              /\ retired'[pid] = Append(retired[pid], [process |-> live[pid], ts |-> ts])
              /\ live[pid] \in Process
         /\ ~(pid \in leaving /\ Held(pid)) =>
              /\ retired'[pid] = retired[pid]
              /\ Held(pid)' <=> Held(pid)
              /\ Held(pid) => live'[pid] = live[pid]
BY DEF RetireAll, Held, IInv, TypeOK

(* Retiring whoever holds the pids that left keeps the books straight. *)
LEMMA RetireAllIInv ==
  ASSUME IInv, NEW leaving, NEW ts \in Nat, RetireAll(leaving, ts)
  PROVE  IInv'
<1>1. TypeOK'
  <2>1. DOMAIN live' = DOMAIN live \ leaving /\ live' \in [DOMAIN live' -> Process]
    BY DEF RetireAll, IInv, TypeOK
  <2>2. \A pid \in Pids : retired'[pid] \in Seq(Departure)
    <3> SUFFICES ASSUME NEW pid \in Pids
                 PROVE  retired'[pid] \in Seq(Departure)
      OBVIOUS
    <3>1. retired[pid] \in Seq(Departure)
      BY DEF IInv, TypeOK
    <3>2. CASE pid \in leaving /\ Held(pid)
      <4>1. [process |-> live[pid], ts |-> ts] \in Departure
        BY <3>2, RetireAllEffect DEF Departure
      <4>2. retired'[pid] = Append(retired[pid], [process |-> live[pid], ts |-> ts])
        BY <3>2, RetireAllEffect
      <4> QED
        BY <3>1, <4>1, <4>2
    <3> QED
      BY <3>1, <3>2, RetireAllEffect
  <2>3. retired' \in [Pids -> Seq(Departure)]
    BY <2>2 DEF RetireAll
  <2> QED
    BY <2>1, <2>3 DEF RetireAll, IInv, TypeOK
<1>2. EpochsCount'
  <2> SUFFICES ASSUME NEW pid \in Pids
               PROVE  (/\ \A i \in 1..Len(retired[pid]) :
                            retired[pid][i].process = [pid |-> pid, epoch |-> i]
                       /\ Held(pid) => live[pid] = [pid |-> pid,
                                                    epoch |-> Len(retired[pid]) + 1])'
    BY DEF EpochsCount
  <2>1. /\ retired[pid] \in Seq(Departure)
        /\ \A i \in 1..Len(retired[pid]) : retired[pid][i].process = [pid |-> pid, epoch |-> i]
        /\ Held(pid) => live[pid] = [pid |-> pid, epoch |-> Len(retired[pid]) + 1]
    BY DEF IInv, TypeOK, EpochsCount
  <2>2. CASE pid \in leaving /\ Held(pid)
    <3> DEFINE d == [process |-> live[pid], ts |-> ts]
    <3>1. d \in Departure /\ retired'[pid] = Append(retired[pid], d) /\ ~Held(pid)'
      BY <2>2, RetireAllEffect DEF Departure
    <3>2. d.process = [pid |-> pid, epoch |-> Len(retired[pid]) + 1]
      BY <2>1, <2>2
    <3> HIDE DEF d
    <3> QED
      BY <2>1, <3>1, <3>2
  <2>3. CASE ~(pid \in leaving /\ Held(pid))
    <3>1. /\ retired'[pid] = retired[pid]
          /\ Held(pid)' <=> Held(pid)
          /\ Held(pid) => live'[pid] = live[pid]
      BY <2>3, RetireAllEffect
    <3> QED
      BY <2>1, <3>1
  <2> QED
    BY <2>2, <2>3
<1> QED
  BY <1>1, <1>2 DEF IInv

(* Every operation of the registry keeps its books straight. *)
LEMMA StepIInv == IInv /\ [Next]_registryVars => IInv'
<1> SUFFICES ASSUME IInv, [Next]_registryVars PROVE IInv'
  OBVIOUS
<1>n. now \in Nat
  BY DEF IInv, TypeOK
<1>1. ASSUME NEW instant \in now..MaxTime, Advance(instant)
      PROVE  IInv'
  <2>1. instant \in Nat
    BY <1>1, <1>n, MaxTimeAssumption
  <2> QED
    BY <1>1, <2>1 DEF Advance, IInv, TypeOK, EpochsCount, Held
<1>2. ASSUME NEW pid \in Pids, Create(pid)
      PROVE  IInv'
  BY <1>2, CreateIInv
<1>3. ASSUME NEW pid \in Pids, Retire(pid, now)
      PROVE  IInv'
  BY <1>3, <1>n, RetireAllIInv DEF Retire
<1>4. ASSUME NEW pids \in SUBSET Pids, Retain(pids, now)
      PROVE  IInv'
  BY <1>4, <1>n, RetireAllIInv DEF Retain
<1>5. CASE UNCHANGED registryVars
  BY <1>5 DEF registryVars, IInv, TypeOK, EpochsCount, Held
<1> QED
  BY <1>1, <1>2, <1>3, <1>4, <1>5 DEF Next

(* Names are unique in every history of the registry, and its books hold processes. *)
THEOREM NamesAreUnique == Spec => [](TypeOK /\ EpochsCount)
<1>1. Init => IInv
  BY InitIInv
<1>2. IInv /\ [Next]_registryVars => IInv'
  BY StepIInv
<1> QED
  BY <1>1, <1>2, PTL DEF Spec, IInv

(* Of two instants of one pid, at() never files the later under the earlier process. *)
LEMMA Monotone == IInv => AtIsMonotone
<1> SUFFICES ASSUME IInv, NEW pid \in Pids, NEW s \in 0..MaxTime, NEW t \in 0..MaxTime, s <= t
             PROVE  At(pid, s).epoch <= At(pid, t).epoch
  BY DEF AtIsMonotone
<1>1. retired[pid] \in Seq(Departure) /\ Len(retired[pid]) \in Nat
  BY DEF IInv, TypeOK
<1>2. LeftAfter(pid, t) \subseteq LeftAfter(pid, s) /\ LeftAfter(pid, s) \subseteq 1..Len(retired[pid])
  <2>1. \A i \in 1..Len(retired[pid]) : retired[pid][i].ts \in Nat
    <3>1. \A i \in 1..Len(retired[pid]) : retired[pid][i] \in Departure
      BY <1>1
    <3> QED
      BY <3>1 DEF Departure
  <2>2. s \in Int /\ t \in Int
    BY MaxTimeAssumption
  <2> QED
    BY <2>1, <2>2 DEF LeftAfter
<1>3. CASE LeftAfter(pid, t) # {}
  <2>1. /\ At(pid, t).epoch \in LeftAfter(pid, t)
        /\ \A j \in LeftAfter(pid, s) : At(pid, s).epoch <= j
    BY <1>2, <1>3, AtByEpoch DEF ByEpoch
  <2> QED
    BY <1>2, <2>1
<1>4. CASE LeftAfter(pid, t) = {} /\ LeftAfter(pid, s) # {}
  <2>1. At(pid, s).epoch \in 1..Len(retired[pid])
    BY <1>2, <1>4, AtByEpoch DEF ByEpoch
  <2>2. At(pid, t).epoch = Len(retired[pid]) + (IF Held(pid) THEN 1 ELSE 0)
    BY <1>4, AtByEpoch DEF ByEpoch
  <2>3. At(pid, t).epoch \in Nat /\ At(pid, t).epoch >= Len(retired[pid])
    <3>1. CASE Held(pid)
      BY <1>1, <2>2, <3>1
    <3>2. CASE ~Held(pid)
      BY <1>1, <2>2, <3>2
    <3> QED
      BY <3>1, <3>2
  <2> QED
    BY <1>1, <2>1, <2>3
<1>5. CASE LeftAfter(pid, t) = {} /\ LeftAfter(pid, s) = {}
  <2>1. /\ At(pid, s).epoch = Len(retired[pid]) + (IF Held(pid) THEN 1 ELSE 0)
        /\ At(pid, t).epoch = Len(retired[pid]) + (IF Held(pid) THEN 1 ELSE 0)
    BY <1>5, AtByEpoch DEF ByEpoch
  <2>2. CASE Held(pid)
    BY <1>1, <2>1, <2>2
  <2>3. CASE ~Held(pid)
    BY <1>1, <2>1, <2>3
  <2> QED
    BY <2>2, <2>3
<1> QED
  BY <1>3, <1>4, <1>5

(* And so in every history of the registry. *)
THEOREM MonotoneAnswers == Spec => []AtIsMonotone
<1>1. Spec => []IInv
  BY NamesAreUnique, PTL DEF IInv
<1> QED
  BY <1>1, Monotone, PTL

LEMMA AtByEpochNext == IInv' => (\A pid \in Pids, ts \in 0..MaxTime : ByEpoch(pid, ts))'
  BY AtByEpoch, PTL

(* One step of the registry leaves what at() says of a closed life, and moves nothing back. *)
LEMMA StepAnswers ==
  ASSUME IInv, IInv', [Next]_registryVars, NEW pid \in Pids, NEW ts \in 0..MaxTime
  PROVE  /\ LeftAfter(pid, ts) # {} => At(pid, ts)' = At(pid, ts)
         /\ At(pid, ts)'.epoch >= At(pid, ts).epoch
<1> DEFINE n == Len(retired[pid])
<1>n. /\ n \in Nat /\ now \in Nat /\ retired[pid] \in Seq(Departure)
      /\ LeftAfter(pid, ts) \subseteq 1..n
  BY DEF IInv, TypeOK, LeftAfter
<1>a. ByEpoch(pid, ts)
  BY AtByEpoch
<1>b. ByEpoch(pid, ts)'
  BY AtByEpochNext
<1>1. \/ /\ retired'[pid] = retired[pid]
         /\ Held(pid) => Held(pid)'
      \/ /\ Held(pid) /\ ~Held(pid)'
         /\ \E d \in Departure : retired'[pid] = Append(retired[pid], d)
  <2>1. ASSUME NEW leaving, NEW date \in Nat, RetireAll(leaving, date)
        PROVE  \/ /\ retired'[pid] = retired[pid]
                  /\ Held(pid) => Held(pid)'
               \/ /\ Held(pid) /\ ~Held(pid)'
                  /\ \E d \in Departure : retired'[pid] = Append(retired[pid], d)
    <3>1. CASE pid \in leaving /\ Held(pid)
      <4>1. [process |-> live[pid], ts |-> date] \in Departure
        BY <2>1, <3>1, RetireAllEffect DEF Departure
      <4> QED
        BY <2>1, <3>1, <4>1, RetireAllEffect
    <3> QED
      BY <2>1, <3>1, RetireAllEffect
  <2>2. ASSUME NEW instant \in now..MaxTime, Advance(instant)
        PROVE  retired'[pid] = retired[pid] /\ (Held(pid) => Held(pid)')
    BY <2>2 DEF Advance, Held
  <2>3. ASSUME NEW q \in Pids, Create(q)
        PROVE  retired'[pid] = retired[pid] /\ (Held(pid) => Held(pid)')
    BY <2>3 DEF Create, Held
  <2>4. ASSUME NEW q \in Pids, Retire(q, now)
        PROVE  RetireAll({q}, now)
    BY <2>4 DEF Retire
  <2>5. ASSUME NEW pids \in SUBSET Pids, Retain(pids, now)
        PROVE  RetireAll(Pids \ pids, now)
    BY <2>5 DEF Retain
  <2>6. CASE UNCHANGED registryVars
    BY <2>6 DEF registryVars, Held
  <2> QED
    BY <1>n, <2>1, <2>2, <2>3, <2>4, <2>5, <2>6 DEF Next
<1>2. CASE retired'[pid] = retired[pid] /\ (Held(pid) => Held(pid)')
  <2>1. LeftAfter(pid, ts)' = LeftAfter(pid, ts)
    BY <1>2 DEF LeftAfter
  <2>2. CASE LeftAfter(pid, ts) # {}
    <3>1. At(pid, ts)' = At(pid, ts)
      BY <1>2, <2>1, <2>2 DEF At
    <3>2. At(pid, ts).epoch \in Nat
      BY <1>n, <2>2, <1>a DEF ByEpoch
    <3> QED
      BY <3>1, <3>2
  <2>3. CASE LeftAfter(pid, ts) = {}
    <3>1. At(pid, ts).epoch = n + (IF Held(pid) THEN 1 ELSE 0)
      BY <2>3, <1>a DEF ByEpoch
    <3>2. At(pid, ts)'.epoch = n + (IF Held(pid)' THEN 1 ELSE 0)
      BY <1>2, <2>1, <2>3, <1>b DEF ByEpoch
    <3>3. CASE Held(pid)
      BY <1>2, <1>n, <2>3, <3>1, <3>2, <3>3
    <3>4. CASE ~Held(pid) /\ Held(pid)'
      BY <1>n, <2>3, <3>1, <3>2, <3>4
    <3>5. CASE ~Held(pid) /\ ~Held(pid)'
      BY <1>n, <2>3, <3>1, <3>2, <3>5
    <3> QED
      BY <2>3, <3>3, <3>4, <3>5
  <2> QED
    BY <2>2, <2>3
<1>3. CASE /\ Held(pid) /\ ~Held(pid)'
           /\ \E d \in Departure : retired'[pid] = Append(retired[pid], d)
  <2>1. PICK d \in Departure : retired'[pid] = Append(retired[pid], d)
    BY <1>3
  <2>2. /\ Len(retired'[pid]) = n + 1
        /\ \A i \in 1..n : retired'[pid][i] = retired[pid][i]
    BY <1>n, <2>1
  <2>3. /\ LeftAfter(pid, ts) \subseteq LeftAfter(pid, ts)'
        /\ LeftAfter(pid, ts)' \subseteq LeftAfter(pid, ts) \cup {n + 1}
    BY <1>n, <2>2 DEF LeftAfter
  <2>4. CASE LeftAfter(pid, ts) # {}
    <3>1. /\ At(pid, ts).epoch \in LeftAfter(pid, ts)
          /\ \A j \in LeftAfter(pid, ts) : At(pid, ts).epoch <= j
          /\ At(pid, ts) = [pid |-> pid, epoch |-> At(pid, ts).epoch]
      BY <2>4, <1>a DEF ByEpoch
    <3>2. /\ At(pid, ts)'.epoch \in LeftAfter(pid, ts)'
          /\ \A j \in LeftAfter(pid, ts)' : At(pid, ts)'.epoch <= j
          /\ At(pid, ts)' = [pid |-> pid, epoch |-> At(pid, ts)'.epoch]
      BY <2>3, <2>4, <1>b DEF ByEpoch
    <3>3. At(pid, ts)'.epoch = At(pid, ts).epoch
      BY <1>n, <2>3, <3>1, <3>2
    <3> QED
      BY <1>n, <3>1, <3>2, <3>3
  <2>5. CASE LeftAfter(pid, ts) = {}
    <3>1. At(pid, ts).epoch = n + 1
      BY <1>3, <2>5, <1>a DEF ByEpoch
    <3>2. At(pid, ts)'.epoch = n + 1
      <4>1. CASE LeftAfter(pid, ts)' = {}
        BY <1>3, <1>n, <2>2, <4>1, <1>b DEF ByEpoch
      <4>2. CASE LeftAfter(pid, ts)' # {}
        BY <2>3, <2>5, <4>2, <1>b DEF ByEpoch
      <4> QED
        BY <4>1, <4>2
    <3> QED
      BY <1>n, <2>5, <3>1, <3>2
  <2> QED
    BY <2>4, <2>5
<1> QED
  BY <1>1, <1>2, <1>3

(***************************************************************************)
(* A closed life stands: its instants are filed under the same process in  *)
(* every later state, and no instant moves to an earlier process.          *)
(***************************************************************************)
THEOREM AnswersStand == Spec => ClosedLivesStand
<1>1. IInv /\ IInv' /\ [Next]_registryVars
        => [\A pid \in Pids, ts \in 0..MaxTime :
              /\ LeftAfter(pid, ts) # {} => At(pid, ts)' = At(pid, ts)
              /\ At(pid, ts)'.epoch >= At(pid, ts).epoch]_registryVars
  BY StepAnswers
<1>2. Spec => []IInv
  BY NamesAreUnique, PTL DEF IInv
<1> QED
  BY <1>1, <1>2, PTL DEF Spec, ClosedLivesStand

-----------------------------------------------------------------------------
(* What the steps do to the connections. *)

LEMMA Bounds ==
  /\ Script \in Seq(SUBSET Kinds) /\ MaxCalls \in Nat /\ MaxLinks \in Nat
  /\ "gcmon" \notin Pids /\ MaxTime \in Nat
  BY ControlAssumption, MaxTimeAssumption DEF MaxCalls

(* A sequence of connections whose entries are replaced is one of the same length. *)
LEMMA Relinked ==
  ASSUME NEW s \in Seq(Link), NEW t \in [DOMAIN s -> Link]
  PROVE  t \in Seq(Link) /\ DOMAIN t = DOMAIN s /\ Len(t) = Len(s)
<1>1. Len(s) \in Nat /\ DOMAIN s = 1..Len(s)
  OBVIOUS
<1>2. t \in [1..Len(s) -> Link]
  BY <1>1
<1>3. t \in Seq(Link)
  BY <1>1, <1>2
<1> QED BY <1>1, <1>2, <1>3

LEMMA Linked ==
  ASSUME links \in Seq(Link)
  PROVE  /\ \A id \in DOMAIN links : links[id] \in Link
         /\ Len(links) \in Nat /\ DOMAIN links = 1..Len(links)
  OBVIOUS

(***************************************************************************)
(* A new connection comes last, with nothing queued.                       *)
(***************************************************************************)
LEMMA LinkMade ==
  ASSUME links \in Seq(Link), NEW pid \in Pids \cup {"gcmon"}, NEW open \in BOOLEAN,
         links' = Append(links, NewLink(pid, open))
  PROVE  /\ links' \in Seq(Link) /\ DOMAIN links' = DOMAIN links \cup {Len(links) + 1}
         /\ \A id \in DOMAIN links : links'[id] = links[id]
         /\ links'[Len(links) + 1] = NewLink(pid, open) /\ Len(links) + 1 \notin DOMAIN links
<1>1. NewLink(pid, open) \in Link
  BY DEF NewLink, Link
<1> QED BY <1>1, Linked

(* One connection is changed, and stays its client's. *)
LEMMA LinkChanged ==
  ASSUME links \in Seq(Link), NEW id \in DOMAIN links, NEW l \in Link,
         links' = [links EXCEPT ![id] = l]
  PROVE  /\ links' \in Seq(Link) /\ DOMAIN links' = DOMAIN links
         /\ \A other \in DOMAIN links : other # id => links'[other] = links[other]
         /\ links'[id] = l
<1>1. links' \in [DOMAIN links -> Link]
  BY Linked
<1>2. links' \in Seq(Link) /\ DOMAIN links' = DOMAIN links
  BY <1>1, Relinked
<1> QED BY <1>2

(* What a queue holds, and what is left of it once its first is taken. *)
Within(q) == {q[i] : i \in DOMAIN q}

LEMMA Appended ==
  ASSUME NEW S, NEW q \in Seq(S), NEW m \in S
  PROVE  Append(q, m) \in Seq(S) /\ Within(Append(q, m)) = Within(q) \cup {m}
<1>1. /\ Append(q, m) \in Seq(S) /\ DOMAIN Append(q, m) = 1..(Len(q) + 1)
      /\ \A i \in 1..Len(q) : Append(q, m)[i] = q[i]
      /\ Append(q, m)[Len(q) + 1] = m /\ DOMAIN q = 1..Len(q) /\ Len(q) \in Nat
  OBVIOUS
<1> DEFINE r == Append(q, m)
<1> HIDE DEF r
<1>2. /\ DOMAIN r = 1..(Len(q) + 1) /\ \A i \in 1..Len(q) : r[i] = q[i]
      /\ r[Len(q) + 1] = m /\ DOMAIN q = 1..Len(q) /\ Len(q) \in Nat
  BY <1>1 DEF r
<1>3. Within(r) = Within(q) \cup {m}
  BY <1>2 DEF Within
<1> QED BY <1>1, <1>3 DEF r

LEMMA Taken ==
  ASSUME NEW S, NEW q \in Seq(S), q # <<>>
  PROVE  /\ Tail(q) \in Seq(S) /\ q[1] \in S
         /\ Within(q) = Within(Tail(q)) \cup {q[1]}
<1>1. /\ Tail(q) \in Seq(S) /\ q[1] \in S /\ DOMAIN Tail(q) = 1..(Len(q) - 1)
      /\ \A i \in 1..(Len(q) - 1) : Tail(q)[i] = q[i + 1]
      /\ DOMAIN q = 1..Len(q) /\ Len(q) \in Nat \ {0}
  OBVIOUS
<1> DEFINE r == Tail(q)
<1> HIDE DEF r
<1>2. /\ DOMAIN r = 1..(Len(q) - 1) /\ \A i \in 1..(Len(q) - 1) : r[i] = q[i + 1]
      /\ DOMAIN q = 1..Len(q) /\ Len(q) \in Nat \ {0}
  BY <1>1 DEF r
<1>3. Within(q) \subseteq Within(r) \cup {q[1]}
  <2> SUFFICES ASSUME NEW i \in DOMAIN q, i # 1 PROVE q[i] \in Within(r)
    BY DEF Within
  <2>1. i - 1 \in 1..(Len(q) - 1) /\ q[i] = r[i - 1]
    BY <1>2
  <2> QED BY <1>2, <2>1 DEF Within
<1>4. Within(r) \cup {q[1]} \subseteq Within(q)
  <2>1. \A i \in DOMAIN r : i + 1 \in DOMAIN q /\ r[i] = q[i + 1]
    BY <1>2
  <2>2. 1 \in DOMAIN q
    BY <1>2
  <2> QED BY <2>1, <2>2 DEF Within
<1> QED BY <1>1, <1>3, <1>4 DEF r

-----------------------------------------------------------------------------
(* The first layer: types, and whose connection and message each is.        *)

MsgOf(pid) == {m \in Msg : m.pid = pid}

Owned ==
  /\ \A pid \in Pids : \A id \in conn[pid] : links[id].pid = pid
  /\ \A s \in Senders :
       /\ \A id \in got[s] : links[id].pid = s[1]
       /\ to_send[s] \subseteq MsgOf(s[1])
  /\ \A id \in DOMAIN links : links[id].queue \in Seq(MsgOf(links[id].pid))
  /\ \A i \in DOMAIN handled :
       handled[i].link \in DOMAIN links /\ handled[i].msg.pid = links[handled[i].link].pid

ControlInv == ControlTypeOK /\ EpochsCount /\ Owned

(* A step that makes no message and handles none. *)
Onward ==
  /\ links' \in Seq(Link) /\ DOMAIN links \subseteq DOMAIN links'
  /\ \A id \in DOMAIN links : links'[id].pid = links[id].pid
  /\ \A id \in DOMAIN links' : links'[id].queue \in Seq(MsgOf(links'[id].pid))

LEMMA AtIsProcess ==
  IInv => \A pid \in Pids, ts \in 0..MaxTime : At(pid, ts) \in Process \cup {NoProcess}
<1> SUFFICES ASSUME IInv, NEW pid \in Pids, NEW ts \in 0..MaxTime
             PROVE  At(pid, ts) \in Process \cup {NoProcess}
  OBVIOUS
<1> DEFINE left == LeftAfter(pid, ts)
           past == retired[pid]
           first == CHOOSE i \in left : \A j \in left : i <= j
<1>1. past \in Seq(Departure) /\ Len(past) \in Nat /\ left \subseteq 1..Len(past)
  BY DEF IInv, TypeOK, LeftAfter
<1>2. \A i \in 1..Len(past) : past[i].process \in Process
  <2>1. \A i \in 1..Len(past) : past[i] \in Departure
    BY <1>1
  <2> QED BY <2>1 DEF Departure
<1>3. CASE left # {}
  <2>1. left \subseteq Nat
    BY <1>1
  <2>2. first \in left
    <3>1. \E i \in left : \A j \in left : i <= j
      <4> HIDE DEF left
      <4> QED BY <1>3, <2>1, SmallestIndex
    <3> QED BY <3>1
  <2>3. At(pid, ts) = past[first].process
    BY <1>3 DEF At
  <2> HIDE DEF first, left
  <2> QED BY <1>1, <1>2, <2>2, <2>3
<1>4. CASE left = {} /\ Held(pid)
  <2>1. live[pid] \in Process
    BY <1>4 DEF IInv, TypeOK, Held
  <2> QED BY <1>4, <2>1 DEF At
<1>5. CASE left = {} /\ ~Held(pid) /\ past # <<>>
  <2>1. Len(past) \in 1..Len(past)
    BY <1>1, <1>5
  <2> QED BY <1>2, <1>5, <2>1 DEF At
<1>6. CASE left = {} /\ ~Held(pid) /\ past = <<>>
  BY <1>6 DEF At
<1> QED BY <1>3, <1>4, <1>5, <1>6

LEMMA ControlInvInit == ControlInit => ControlInv
<1> SUFFICES ASSUME ControlInit PROVE ControlInv
  OBVIOUS
<1>1. IInv
  BY InitIInv DEF ControlInit
<1>2. /\ conn = [pid \in Pids |-> {}] /\ calls = 0 /\ links = <<>> /\ handled = <<>> /\ sent = <<>>
      /\ step = [s \in Senders |-> "idle"] /\ got = [s \in Senders |-> {}]
      /\ to_send = [s \in Senders |-> {}]
  BY DEF ControlInit
<1>3. ControlTypeOK
  <2>1. <<>> \in Seq(Link) /\ <<>> \in Seq([msg : Msg, link : Nat]) /\ <<>> \in Seq(Entry)
    OBVIOUS
  <2>2. /\ conn \in [Pids -> SUBSET DOMAIN links] /\ got \in [Senders -> SUBSET DOMAIN links]
        /\ step \in [Senders -> {"idle", "connect", "reread", "send"}]
        /\ to_send \in [Senders -> SUBSET Msg] /\ calls \in 0..MaxCalls
    BY <1>2, Bounds
  <2> QED BY <1>1, <1>2, <2>1, <2>2 DEF ControlInit, ControlTypeOK, IInv
<1>4. Owned
  BY <1>2 DEF Owned
<1> QED BY <1>1, <1>3, <1>4 DEF ControlInv, IInv

(* What is left alone by a step that touches neither registry nor what was handled. *)
LEMMA BooksStill ==
  ASSUME ControlInv, UNCHANGED registryVars
  PROVE  TypeOK' /\ EpochsCount'
BY DEF ControlInv, ControlTypeOK, registryVars, TypeOK, EpochsCount, Held

LEMMA OwnedStill ==
  ASSUME ControlInv, Onward, handled' = handled,
         \A pid \in Pids : \A id \in conn'[pid] : links'[id].pid = pid,
         \A s \in Senders : /\ \A id \in got'[s] : links'[id].pid = s[1]
                            /\ to_send'[s] \subseteq MsgOf(s[1])
  PROVE  Owned'
BY DEF Owned, ControlInv, Onward, MsgOf

LEMMA LinksStill ==
  ASSUME ControlInv, links' = links
  PROVE  Onward
BY DEF Onward, ControlInv, ControlTypeOK, Owned

(***************************************************************************)
(* The steps that leave the connections alone.                             *)
(***************************************************************************)
LEMMA InvCall ==
  ASSUME ControlInv, NEW s \in Senders, NEW kind \in Kinds, NEW ts \in 0..MaxTime, Call(s, kind, ts)
  PROVE  ControlInv'
<1> DEFINE msg == [pid |-> s[1], kind |-> kind, ts |-> ts, n |-> calls + 1]
<1>1. calls + 1 \in 1..MaxCalls /\ s[1] \in Pids
  BY Bounds DEF Call, ControlInv, ControlTypeOK, Senders
<1>2. msg \in MsgOf(s[1])
  BY <1>1 DEF MsgOf, Msg
<1>3. to_send' = [to_send EXCEPT ![s] = {msg}] /\ calls' = calls + 1
      /\ step' = [step EXCEPT ![s] = IF conn[s[1]] = {} THEN "connect" ELSE "reread"]
      /\ UNCHANGED <<registryVars, conn, got, links, acceptThread, connections, stopped, readerThread,
                     closing, sent, in_time, handled>>
  BY DEF Call, Goto
<1>4. ControlTypeOK'
  <2>1. TypeOK'
    BY <1>3, BooksStill
  <2>2. to_send' \in [Senders -> SUBSET Msg]
    BY <1>2, <1>3 DEF ControlInv, ControlTypeOK, MsgOf
  <2> HIDE DEF msg
  <2> QED BY <1>1, <1>3, <2>1, <2>2
         DEF ControlInv, ControlTypeOK, acceptThread, readerThread
<1>5. Owned'
  <2>1. Onward
    BY <1>3, LinksStill
  <2>2. \A t \in Senders : to_send'[t] \subseteq MsgOf(t[1])
    BY <1>2, <1>3 DEF ControlInv, ControlTypeOK, Owned
  <2> HIDE DEF msg
  <2> QED BY <1>3, <2>1, <2>2, OwnedStill DEF ControlInv, Owned
<1> QED BY <1>3, <1>4, <1>5, BooksStill DEF ControlInv

LEMMA InvReread ==
  ASSUME ControlInv, NEW s \in Senders, Reread(s)
  PROVE  ControlInv'
<1>1. /\ got' = [got EXCEPT ![s] = conn[s[1]]] /\ s[1] \in Pids
      /\ to_send' = [to_send EXCEPT ![s] = IF conn[s[1]] = {} THEN {} ELSE @]
      /\ step' = [step EXCEPT ![s] = IF conn[s[1]] = {} THEN "idle" ELSE "send"]
      /\ UNCHANGED <<registryVars, conn, calls, links, acceptThread, connections, stopped,
                     readerThread, closing, sent, in_time, handled>>
  BY DEF Reread, Goto, Senders
<1>2. ControlTypeOK'
  BY <1>1, BooksStill DEF ControlInv, ControlTypeOK, acceptThread, readerThread
<1>3. Owned'
  <2>1. Onward
    BY <1>1, LinksStill
  <2> QED BY <1>1, <2>1, OwnedStill DEF ControlInv, ControlTypeOK, Owned
<1> QED BY <1>1, <1>2, <1>3, BooksStill DEF ControlInv

(* A connection waits that the accept thread may take. *)
LEMMA BacklogIsMade == Backlog \subseteq DOMAIN links
  BY DEF Backlog, Served

LEMMA InvThreads ==
  ASSUME ControlInv, Accept \/ AddConnection \/ AcceptFails \/ BeginPass \/ BeginDrain \/ Stop
  PROVE  ControlInv'
<1>1. UNCHANGED <<registryVars, clients, links, handled, sent, stopped, to_remove, any_data>>
  BY DEF Accept, AddConnection, AcceptFails, BeginPass, BeginDrain, Stop, readerElse,
     readerThread
<1>2. ControlTypeOK'
  <2>1. TypeOK'
    BY <1>1, BooksStill
  <2>2. CASE Accept \/ AddConnection \/ AcceptFails
    BY <1>1, <2>1, <2>2, BacklogIsMade
       DEF Accept, AddConnection, AcceptFails, ControlInv, ControlTypeOK, clients, readerThread
  <2>3. CASE BeginPass \/ BeginDrain
    BY <1>1, <2>1, <2>3
       DEF BeginPass, BeginDrain, Ready, ControlInv, ControlTypeOK, clients, acceptThread, readerElse
  <2>4. CASE Stop
    <3>1. in_time' \subseteq Msg
      <4>1. ASSUME NEW id \in connections, NEW i \in DOMAIN links[id].queue
            PROVE  links[id].queue[i] \in Msg
        <5>1. links[id].queue \in Seq(Msg)
          BY Linked DEF ControlInv, ControlTypeOK, Link
        <5> QED BY <5>1
      <4> QED BY <2>4, <4>1 DEF Stop
    <3> QED BY <1>1, <2>1, <2>4, <3>1
           DEF Stop, ControlInv, ControlTypeOK, clients, acceptThread, readerThread
  <2> QED BY <2>2, <2>3, <2>4
<1>3. Owned'
  <2>1. Onward
    BY <1>1, LinksStill
  <2> QED BY <1>1, <2>1, OwnedStill DEF ControlInv, Owned, clients
<1> QED BY <1>1, <1>2, <1>3, BooksStill DEF ControlInv

LEMMA InvMonitor == ControlInv /\ Monitor => ControlInv'
<1> SUFFICES ASSUME ControlInv, Monitor PROVE ControlInv'
  OBVIOUS
<1>1. /\ [Next]_registryVars
      /\ UNCHANGED <<clients, links, acceptThread, connections, stopped, readerThread, closing, sent,
                     in_time, handled>>
  BY DEF Monitor
<1>2. TypeOK' /\ EpochsCount'
  BY <1>1, StepIInv DEF ControlInv, ControlTypeOK, IInv
<1>3. ControlTypeOK'
  BY <1>1, <1>2 DEF ControlInv, ControlTypeOK, clients, acceptThread, readerThread
<1>4. Owned'
  BY <1>1 DEF ControlInv, Owned, clients
<1> QED BY <1>2, <1>3, <1>4 DEF ControlInv

(***************************************************************************)
(* The steps that make, fill, empty or end a connection.                   *)
(***************************************************************************)
LEMMA MadeOnward ==
  ASSUME ControlInv, NEW pid \in Pids \cup {"gcmon"}, NEW open \in BOOLEAN,
         links' = Append(links, NewLink(pid, open))
  PROVE  Onward
<1>1. links \in Seq(Link)
  BY DEF ControlInv, ControlTypeOK
<1>2. NewLink(pid, open).pid = pid /\ NewLink(pid, open).queue = <<>>
  BY DEF NewLink
<1>3. <<>> \in Seq(MsgOf(pid))
  OBVIOUS
<1>4. /\ links' \in Seq(Link) /\ DOMAIN links' = DOMAIN links \cup {Len(links) + 1}
      /\ \A id \in DOMAIN links : links'[id] = links[id]
      /\ links'[Len(links) + 1] = NewLink(pid, open)
  BY <1>1, LinkMade
<1>5. \A id \in DOMAIN links : links[id].queue \in Seq(MsgOf(links[id].pid))
  BY DEF ControlInv, Owned
<1>6. ASSUME NEW id \in DOMAIN links' PROVE links'[id].queue \in Seq(MsgOf(links'[id].pid))
  <2>1. CASE id \in DOMAIN links
    BY <1>4, <1>5, <2>1
  <2>2. CASE id = Len(links) + 1
    BY <1>2, <1>3, <1>4, <2>2
  <2> QED BY <1>4, <2>1, <2>2
<1> QED BY <1>4, <1>6 DEF Onward

LEMMA ChangedOnward ==
  ASSUME ControlInv, NEW id \in DOMAIN links, NEW l \in Link, l.pid = links[id].pid,
         l.queue \in Seq(MsgOf(l.pid)), links' = [links EXCEPT ![id] = l]
  PROVE  Onward
<1>1. links \in Seq(Link)
  BY DEF ControlInv, ControlTypeOK
<1> QED BY <1>1, LinkChanged DEF Onward, ControlInv, Owned

(* The links of a step that changes how much of each is served. *)
LEMMA ServedOnward ==
  ASSUME ControlInv, NEW S,
         links' = [id \in DOMAIN links |-> [links[id] EXCEPT !.served = @ /\ id \notin S]]
  PROVE  /\ Onward /\ DOMAIN links' = DOMAIN links
         /\ \A id \in DOMAIN links : /\ links'[id].queue = links[id].queue
                                     /\ links'[id].open = links[id].open
                                     /\ links'[id].pid = links[id].pid
                                     /\ links'[id].served <=> links[id].served /\ id \notin S
<1>1. links \in Seq(Link) /\ \A id \in DOMAIN links : links[id] \in Link
  BY Linked DEF ControlInv, ControlTypeOK
<1>2. ASSUME NEW id \in DOMAIN links
      PROVE  /\ links'[id] \in Link
             /\ links'[id].queue = links[id].queue /\ links'[id].open = links[id].open
             /\ links'[id].pid = links[id].pid
             /\ links'[id].served <=> links[id].served /\ id \notin S
  <2>1. links'[id] = [links[id] EXCEPT !.served = links[id].served /\ id \notin S]
    OBVIOUS
  <2>2. links[id] \in Link
    BY <1>1
  <2> QED BY <2>1, <2>2 DEF Link
<1>3. links' \in [DOMAIN links -> Link]
  BY <1>2
<1>4. links' \in Seq(Link) /\ DOMAIN links' = DOMAIN links
  BY <1>1, <1>3, Relinked
<1> QED BY <1>2, <1>4 DEF Onward, ControlInv, Owned

LEMMA ClientTypes ==
  ASSUME ControlInv, Onward,
         conn' \in [Pids -> SUBSET DOMAIN links'], got' \in [Senders -> SUBSET DOMAIN links'],
         to_send' \in [Senders -> SUBSET Msg],
         step' \in [Senders -> {"idle", "connect", "reread", "send"}],
         sent' \in Seq([msg : Msg, link : Nat]),
         UNCHANGED <<registryVars, calls, acceptThread, connections, stopped, readerThread, closing,
                     in_time, handled>>
  PROVE  ControlTypeOK'
<1>1. TypeOK'
  BY BooksStill
<1> QED BY <1>1 DEF ControlInv, ControlTypeOK, Onward, acceptThread, readerThread

LEMMA InvConnect ==
  ASSUME ControlInv, NEW s \in Senders, Connect(s)
  PROVE  ControlInv'
<1>1. /\ s[1] \in Pids /\ step' = [step EXCEPT ![s] = "reread"]
      /\ UNCHANGED <<registryVars, got, to_send, calls, acceptThread, connections, stopped,
                     readerThread, closing, sent, in_time, handled>>
  BY DEF Connect, Goto, Senders
<1>2. CASE UNCHANGED <<links, conn>>
  <2>1. Onward
    BY <1>2, LinksStill
  <2>2. ControlTypeOK'
    BY <1>1, <1>2, <2>1, ClientTypes DEF ControlInv, ControlTypeOK
  <2> QED BY <1>1, <1>2, <2>1, <2>2, OwnedStill, BooksStill DEF ControlInv, Owned
<1>3. CASE /\ links' = Append(links, NewLink(s[1], TRUE))
           /\ conn' = [conn EXCEPT ![s[1]] = {Len(links) + 1}]
  <2>1. Onward
    BY <1>1, <1>3, MadeOnward
  <2>2. /\ DOMAIN links' = DOMAIN links \cup {Len(links) + 1}
        /\ links'[Len(links) + 1].pid = s[1]
        /\ Len(links) + 1 \notin DOMAIN links
    BY <1>1, <1>3, LinkMade DEF ControlInv, ControlTypeOK, NewLink
  <2>3. ControlTypeOK'
    BY <1>1, <1>3, <2>1, <2>2, ClientTypes DEF ControlInv, ControlTypeOK
  <2>4. /\ \A pid \in Pids : \A id \in conn'[pid] : links'[id].pid = pid
        /\ \A t \in Senders : \A id \in got[t] : links'[id].pid = t[1]
    BY <1>1, <1>3, <2>1, <2>2 DEF ControlInv, ControlTypeOK, Owned, Onward
  <2> QED BY <1>1, <2>1, <2>3, <2>4, OwnedStill, BooksStill DEF ControlInv, Owned
<1> QED BY <1>2, <1>3 DEF Connect

(* What a send may do to the connection it got, and to the client's idea of it. *)
LEMMA SendEffect ==
  ASSUME ControlInv, NEW s \in Senders, Send(s)
  PROVE  /\ s[1] \in Pids /\ step[s] = "send"
         /\ \E id \in got[s], msg \in to_send[s] :
              /\ id \in DOMAIN links /\ msg \in MsgOf(links[id].pid) /\ links[id].pid = s[1]
              /\ \/ UNCHANGED <<conn, links, sent>>
                 \/ /\ links' = [links EXCEPT ![id] = [links[id] EXCEPT !.queue = Append(@, msg)]]
                    /\ links[id].open /\ links[id].served
                    /\ sent' = Append(sent, [msg |-> msg, link |-> id])
                    /\ conn' = conn
                 \/ /\ links' = [links EXCEPT ![id] = [links[id] EXCEPT !.open = FALSE]]
                    /\ conn[s[1]] = got[s]
                    /\ conn' = [conn EXCEPT ![s[1]] = {}]
                    /\ sent' = sent
         /\ got' = [got EXCEPT ![s] = {}] /\ to_send' = [to_send EXCEPT ![s] = {}]
         /\ step' = [step EXCEPT ![s] = "idle"]
         /\ UNCHANGED <<registryVars, calls, acceptThread, connections, stopped, readerThread,
                        closing, in_time, handled>>
<1>1. PICK id \in got[s], msg \in to_send[s] :
        \/ /\ ~Takes(s)
           /\ UNCHANGED <<conn, links, sent>>
        \/ /\ Takes(s) /\ links[id].open /\ links[id].served
           /\ links' = [links EXCEPT ![id].queue = Append(@, msg)]
           /\ sent' = Append(sent, [msg |-> msg, link |-> id])
           /\ UNCHANGED conn
        \/ /\ Takes(s) /\ ~(links[id].open /\ links[id].served)
           /\ conn' = [conn EXCEPT ![s[1]] = {}]
           /\ links' = [links EXCEPT ![id].open = FALSE]
           /\ UNCHANGED sent
  BY DEF Send
<1>2. s[1] \in Pids /\ id \in DOMAIN links /\ links[id].pid = s[1] /\ msg \in MsgOf(s[1])
  BY DEF ControlInv, ControlTypeOK, Owned, Senders
<1> QED BY <1>1, <1>2 DEF Send, Takes, Goto

LEMMA InvSend ==
  ASSUME ControlInv, NEW s \in Senders, Send(s)
  PROVE  ControlInv'
<1>1. /\ s[1] \in Pids
      /\ got' = [got EXCEPT ![s] = {}] /\ to_send' = [to_send EXCEPT ![s] = {}]
      /\ step' = [step EXCEPT ![s] = "idle"]
      /\ UNCHANGED <<registryVars, calls, acceptThread, connections, stopped, readerThread,
                     closing, in_time, handled>>
  BY SendEffect
<1>2. PICK id \in got[s], msg \in to_send[s] :
        /\ id \in DOMAIN links /\ msg \in MsgOf(links[id].pid) /\ links[id].pid = s[1]
        /\ \/ UNCHANGED <<conn, links, sent>>
           \/ /\ links' = [links EXCEPT ![id] = [links[id] EXCEPT !.queue = Append(@, msg)]]
              /\ links[id].open /\ links[id].served
              /\ sent' = Append(sent, [msg |-> msg, link |-> id])
              /\ conn' = conn
           \/ /\ links' = [links EXCEPT ![id] = [links[id] EXCEPT !.open = FALSE]]
              /\ conn[s[1]] = got[s]
              /\ conn' = [conn EXCEPT ![s[1]] = {}]
              /\ sent' = sent
  BY SendEffect
<1>3. links \in Seq(Link) /\ links[id] \in Link /\ links[id].queue \in Seq(MsgOf(links[id].pid))
      /\ msg \in Msg
  BY <1>2, Linked DEF ControlInv, ControlTypeOK, Owned, MsgOf
<1>4. Onward /\ DOMAIN links' = DOMAIN links
  <2>1. CASE links' = links
    BY <2>1, LinksStill
  <2>2. CASE links' = [links EXCEPT ![id] = [links[id] EXCEPT !.queue = Append(@, msg)]]
    <3> DEFINE l == [links[id] EXCEPT !.queue = Append(@, msg)]
    <3>1. l.queue = Append(links[id].queue, msg) /\ l.pid = links[id].pid
      BY <1>3 DEF Link
    <3>2. l.queue \in Seq(MsgOf(l.pid))
      BY <1>2, <1>3, <3>1
    <3>3. l \in Link
      <4>1. Append(links[id].queue, msg) \in Seq(Msg)
        BY <1>3 DEF Link
      <4> QED BY <1>3, <4>1 DEF Link
    <3> HIDE DEF l
    <3> QED BY <1>2, <1>3, <2>2, <3>1, <3>2, <3>3, ChangedOnward, LinkChanged DEF l
  <2>3. CASE links' = [links EXCEPT ![id] = [links[id] EXCEPT !.open = FALSE]]
    <3> DEFINE l == [links[id] EXCEPT !.open = FALSE]
    <3>1. l \in Link /\ l.queue = links[id].queue /\ l.pid = links[id].pid
      BY <1>3 DEF Link
    <3> HIDE DEF l
    <3> QED BY <1>2, <1>3, <2>3, <3>1, ChangedOnward, LinkChanged DEF l
  <2> QED BY <1>2, <2>1, <2>2, <2>3
<1>5. sent' \in Seq([msg : Msg, link : Nat])
  <2>1. id \in Nat
    BY <1>2, Linked DEF ControlInv, ControlTypeOK
  <2>2. [msg |-> msg, link |-> id] \in [msg : Msg, link : Nat]
    BY <1>3, <2>1
  <2>3. sent \in Seq([msg : Msg, link : Nat])
    BY DEF ControlInv, ControlTypeOK
  <2>4. CASE sent' = sent
    BY <2>3, <2>4
  <2>5. CASE sent' = Append(sent, [msg |-> msg, link |-> id])
    BY <2>2, <2>3, <2>5
  <2> QED BY <1>2, <2>4, <2>5
<1>6. conn' \in [Pids -> SUBSET DOMAIN links'] /\ \A pid \in Pids : conn'[pid] \subseteq conn[pid]
  BY <1>1, <1>2, <1>4 DEF ControlInv, ControlTypeOK
<1>7. ControlTypeOK'
  <2>1. /\ got' \in [Senders -> SUBSET DOMAIN links'] /\ to_send' \in [Senders -> SUBSET Msg]
        /\ step' \in [Senders -> {"idle", "connect", "reread", "send"}]
    BY <1>1, <1>4 DEF ControlInv, ControlTypeOK
  <2> QED BY <1>1, <1>4, <1>5, <1>6, <2>1, ClientTypes
<1>8. Owned'
  <2>1. \A pid \in Pids : \A jd \in conn'[pid] : links'[jd].pid = pid
    BY <1>4, <1>6 DEF ControlInv, ControlTypeOK, Owned, Onward
  <2>2. \A t \in Senders : /\ \A jd \in got'[t] : links'[jd].pid = t[1]
                           /\ to_send'[t] \subseteq MsgOf(t[1])
    BY <1>1, <1>4 DEF ControlInv, ControlTypeOK, Owned, Onward
  <2> QED BY <1>1, <1>4, <2>1, <2>2, OwnedStill
<1> QED BY <1>1, <1>7, <1>8, BooksStill DEF ControlInv

LEMMA InvCloseClient ==
  ASSUME ControlInv, NEW pid \in Pids, CloseClient(pid)
  PROVE  ControlInv'
<1>1. PICK id \in conn[pid] : links' = [links EXCEPT ![id] = [links[id] EXCEPT !.open = FALSE]]
  BY DEF CloseClient
<1>2. /\ conn' = [conn EXCEPT ![pid] = {}]
      /\ UNCHANGED <<registryVars, step, got, to_send, calls, acceptThread, connections, stopped,
                     readerThread, closing, sent, in_time, handled>>
  BY DEF CloseClient
<1>3. id \in DOMAIN links
  BY DEF ControlInv, ControlTypeOK
<1>4. links \in Seq(Link) /\ links[id] \in Link /\ links[id].queue \in Seq(MsgOf(links[id].pid))
  BY <1>3, Linked DEF ControlInv, ControlTypeOK, Owned
<1>5. Onward /\ DOMAIN links' = DOMAIN links
  <2> DEFINE l == [links[id] EXCEPT !.open = FALSE]
  <2>1. l \in Link /\ l.queue = links[id].queue /\ l.pid = links[id].pid
    BY <1>4 DEF Link
  <2> HIDE DEF l
  <2> QED BY <1>1, <1>3, <1>4, <2>1, ChangedOnward, LinkChanged DEF l
<1>6. conn' \in [Pids -> SUBSET DOMAIN links'] /\ \A p \in Pids : conn'[p] \subseteq conn[p]
  BY <1>2, <1>5 DEF ControlInv, ControlTypeOK
<1>7. ControlTypeOK'
  BY <1>2, <1>5, <1>6, ClientTypes DEF ControlInv, ControlTypeOK
<1>8. Owned'
  <2>1. \A p \in Pids : \A jd \in conn'[p] : links'[jd].pid = p
    BY <1>5, <1>6 DEF ControlInv, ControlTypeOK, Owned, Onward
  <2>2. \A t \in Senders : /\ \A jd \in got'[t] : links'[jd].pid = t[1]
                           /\ to_send'[t] \subseteq MsgOf(t[1])
    BY <1>2, <1>5 DEF ControlInv, ControlTypeOK, Owned, Onward
  <2> QED BY <1>2, <1>5, <2>1, <2>2, OwnedStill
<1> QED BY <1>2, <1>7, <1>8, BooksStill DEF ControlInv

(***************************************************************************)
(* What a receive does: it takes the head of one queue and files it, or    *)
(* finds the end.                                                          *)
(***************************************************************************)
Filed(id) ==
  LET msg == links[id].queue[1]
  IN  /\ links[id].queue # <<>>
      /\ msg \in MsgOf(links[id].pid)
      /\ links' = [links EXCEPT ![id] = [links[id] EXCEPT !.queue = Tail(@)]]
      /\ handled' = Append(handled, [msg |-> msg, link |-> id, process |-> At(msg.pid, msg.ts)])
      /\ stopped' = StoppedBy(msg)
      /\ to_remove' = to_remove

LEMMA ReceiveEffect ==
  ASSUME ControlInv, NEW id \in todo, Visit(id) \/ DrainVisit(id)
  PROVE  /\ id \in DOMAIN links
         /\ todo' = todo \ {id} /\ any_data' \in BOOLEAN
         /\ UNCHANGED <<registryVars, clients, acceptThread, connections, reader, closing, sent,
                        in_time>>
         /\ \/ Filed(id)
            \/ /\ links[id].queue = <<>> /\ to_remove' = to_remove \cup {id}
               /\ UNCHANGED <<links, stopped, handled>>
            \/ /\ links[id].queue = <<>> /\ links[id].open
               /\ UNCHANGED <<links, stopped, to_remove, handled>>
<1>1. id \in DOMAIN links /\ links[id].queue \in Seq(MsgOf(links[id].pid))
  BY DEF ControlInv, ControlTypeOK, Owned
<1>2. links[id].queue # <<>> => Head(links[id].queue) \in MsgOf(links[id].pid)
                                /\ Head(links[id].queue) = links[id].queue[1]
  BY <1>1
<1>3. Recv(id) => \/ Filed(id)
                  \/ /\ links[id].queue = <<>> /\ to_remove' = to_remove \cup {id}
                     /\ UNCHANGED <<links, stopped, handled>>
  BY <1>2 DEF Recv, Handle, Filed
<1>4. CASE Visit(id)
  BY <1>1, <1>3, <1>4 DEF Visit, readerElse, ControlInv, ControlTypeOK
<1>5. CASE DrainVisit(id)
  <2>1. any_data' \in BOOLEAN
    BY <1>5 DEF DrainVisit, ControlInv, ControlTypeOK
  <2> QED BY <1>1, <1>3, <1>5, <2>1 DEF DrainVisit, readerElse, Readable, ControlInv, ControlTypeOK, Owned
<1> QED BY <1>4, <1>5

LEMMA FiledOnward ==
  ASSUME ControlInv, NEW id \in DOMAIN links, Filed(id)
  PROVE  /\ Onward /\ DOMAIN links' = DOMAIN links /\ stopped' \subseteq Pids
         /\ handled' \in Seq(Entry) /\ Len(handled') = Len(handled) + 1
         /\ \A i \in 1..Len(handled) : handled'[i] = handled[i]
         /\ handled'[Len(handled) + 1] = [msg |-> links[id].queue[1], link |-> id,
              process |-> At(links[id].queue[1].pid, links[id].queue[1].ts)]
<1> DEFINE msg == links[id].queue[1]
           l == [links[id] EXCEPT !.queue = Tail(@)]
<1>1. links \in Seq(Link) /\ links[id] \in Link /\ links[id].queue \in Seq(MsgOf(links[id].pid))
  BY Linked DEF ControlInv, ControlTypeOK, Owned
<1>2. msg \in MsgOf(links[id].pid) /\ links' = [links EXCEPT ![id] = l]
      /\ links[id].queue # <<>>
      /\ handled' = Append(handled, [msg |-> msg, link |-> id, process |-> At(msg.pid, msg.ts)])
      /\ stopped' = StoppedBy(msg)
  BY DEF Filed
<1>3. msg \in Msg /\ msg.pid \in Pids /\ msg.ts \in 0..MaxTime
  BY <1>2 DEF MsgOf, Msg
<1>4. Onward /\ DOMAIN links' = DOMAIN links
  <2>1. l.queue = Tail(links[id].queue) /\ l.pid = links[id].pid
    BY <1>1 DEF Link
  <2>2. l.queue \in Seq(MsgOf(l.pid))
    <3>1. Tail(links[id].queue) \in Seq(MsgOf(links[id].pid))
      BY <1>1, <1>2, Taken
    <3> HIDE DEF l
    <3> QED BY <2>1, <3>1
  <2>3. l \in Link
    <3>1. Tail(links[id].queue) \in Seq(Msg)
      BY <1>1, <1>2 DEF Link
    <3> QED BY <1>1, <3>1 DEF Link
  <2> HIDE DEF l
  <2> QED BY <1>1, <1>2, <2>1, <2>2, <2>3, ChangedOnward, LinkChanged
<1>5. stopped' \subseteq Pids
  BY <1>2, <1>3 DEF StoppedBy, ControlInv, ControlTypeOK
<1>6. [msg |-> msg, link |-> id, process |-> At(msg.pid, msg.ts)] \in Entry
  <2>1. At(msg.pid, msg.ts) \in Process \cup {NoProcess}
    BY <1>3, AtIsProcess DEF ControlInv, ControlTypeOK, IInv
  <2>2. id \in Nat
    BY <1>1, Linked
  <2> HIDE DEF msg
  <2> QED BY <1>3, <2>1, <2>2 DEF Entry
<1>7. handled \in Seq(Entry)
  BY DEF ControlInv, ControlTypeOK
<1> HIDE DEF msg
<1>8. /\ handled' \in Seq(Entry) /\ Len(handled') = Len(handled) + 1
      /\ \A i \in 1..Len(handled) : handled'[i] = handled[i]
      /\ handled'[Len(handled) + 1] = [msg |-> msg, link |-> id, process |-> At(msg.pid, msg.ts)]
  BY <1>2, <1>6, <1>7
<1> QED BY <1>4, <1>5, <1>8 DEF msg

LEMMA InvReceive ==
  ASSUME ControlInv, NEW id \in todo, Visit(id) \/ DrainVisit(id)
  PROVE  ControlInv'
<1>1. /\ id \in DOMAIN links
      /\ todo' = todo \ {id} /\ any_data' \in BOOLEAN
      /\ UNCHANGED <<registryVars, clients, acceptThread, connections, reader, closing, sent,
                     in_time>>
  BY ReceiveEffect
<1>2. CASE Filed(id)
  <2>1. /\ Onward /\ DOMAIN links' = DOMAIN links /\ stopped' \subseteq Pids
        /\ handled' \in Seq(Entry) /\ to_remove' = to_remove
    BY <1>1, <1>2, FiledOnward DEF Filed
  <2>2. ControlTypeOK'
    BY <1>1, <2>1, BooksStill DEF ControlInv, ControlTypeOK, Onward, clients, acceptThread
  <2>3. Owned'
    <3>1. /\ Len(handled') = Len(handled) + 1 /\ Len(handled) \in Nat
          /\ DOMAIN handled = 1..Len(handled) /\ DOMAIN handled' = 1..(Len(handled) + 1)
          /\ \A i \in 1..Len(handled) : handled'[i] = handled[i]
          /\ handled'[Len(handled) + 1].link = id
          /\ handled'[Len(handled) + 1].msg = links[id].queue[1]
      <4>1. /\ Len(handled') = Len(handled) + 1 /\ \A i \in 1..Len(handled) : handled'[i] = handled[i]
            /\ handled'[Len(handled) + 1] = [msg |-> links[id].queue[1], link |-> id,
                 process |-> At(links[id].queue[1].pid, links[id].queue[1].ts)]
        BY <1>1, <1>2, FiledOnward
      <4>2. handled \in Seq(Entry)
        BY DEF ControlInv, ControlTypeOK
      <4>3. Len(handled) \in Nat /\ DOMAIN handled = 1..Len(handled)
        BY <4>2
      <4>4. DOMAIN handled' = 1..Len(handled')
        BY <2>1
      <4> QED BY <4>1, <4>3, <4>4
    <3>2. links[id].queue[1].pid = links'[id].pid
      BY <1>1, <1>2, <2>1 DEF Filed, MsgOf, Onward
    <3>3. \A i \in 1..Len(handled) :
            handled[i].link \in DOMAIN links /\ handled[i].msg.pid = links[handled[i].link].pid
      BY <3>1 DEF ControlInv, Owned
    <3>4. \A i \in DOMAIN handled' :
            handled'[i].link \in DOMAIN links' /\ handled'[i].msg.pid = links'[handled'[i].link].pid
      <4>1. ASSUME NEW i \in 1..Len(handled)
            PROVE  handled'[i].link \in DOMAIN links' /\ handled'[i].msg.pid = links'[handled'[i].link].pid
        BY <2>1, <3>1, <3>3 DEF Onward
      <4> QED BY <1>1, <2>1, <3>1, <3>2, <4>1
    <3>5. /\ \A pid \in Pids : \A jd \in conn'[pid] : links'[jd].pid = pid
          /\ \A t \in Senders : /\ \A jd \in got'[t] : links'[jd].pid = t[1]
                                /\ to_send'[t] \subseteq MsgOf(t[1])
      BY <1>1, <2>1 DEF ControlInv, ControlTypeOK, Owned, Onward, clients
    <3> QED BY <2>1, <3>4, <3>5 DEF Owned, Onward, MsgOf
  <2> QED BY <1>1, <2>2, <2>3, BooksStill DEF ControlInv
<1>3. ASSUME UNCHANGED <<links, stopped, handled>>, to_remove' \subseteq to_remove \cup {id}
      PROVE  ControlInv'
  <2>1. ControlTypeOK'
    BY <1>1, <1>3, BooksStill DEF ControlInv, ControlTypeOK, clients, acceptThread
  <2>2. Onward
    BY <1>3, LinksStill
  <2>3. Owned'
    BY <1>1, <1>3, <2>2, OwnedStill DEF ControlInv, Owned, clients
  <2> QED BY <1>1, <2>1, <2>3, BooksStill DEF ControlInv
<1> QED BY <1>2, <1>3, ReceiveEffect

LEMMA InvServed ==
  ASSUME ControlInv, EndPass \/ EndDrainPass \/ FinishClose
  PROVE  ControlInv'
<1>1. /\ Onward /\ DOMAIN links' = DOMAIN links
      /\ UNCHANGED <<registryVars, clients, acceptThread, sent, in_time, handled>>
  <2>1. CASE EndPass \/ EndDrainPass
    BY <2>1, ServedOnward DEF EndPass, EndDrainPass, RemoveConnections, readerElse
  <2>2. CASE FinishClose
    BY <2>2, ServedOnward DEF FinishClose
  <2> QED BY <2>1, <2>2
<1>2. ControlTypeOK'
  <2>1. CASE EndPass \/ EndDrainPass
    BY <1>1, <2>1, BooksStill DEF EndPass, EndDrainPass, RemoveConnections, readerElse,
       ControlInv, ControlTypeOK, Onward, clients, acceptThread
  <2>2. CASE FinishClose
    BY <1>1, <2>2, BooksStill DEF FinishClose, ControlInv, ControlTypeOK, Onward, clients,
       acceptThread, readerThread
  <2> QED BY <2>1, <2>2
<1>3. Owned'
  <2>1. /\ \A pid \in Pids : \A jd \in conn'[pid] : links'[jd].pid = pid
        /\ \A t \in Senders : /\ \A jd \in got'[t] : links'[jd].pid = t[1]
                              /\ to_send'[t] \subseteq MsgOf(t[1])
    BY <1>1 DEF ControlInv, ControlTypeOK, Owned, Onward, clients
  <2> QED BY <1>1, <2>1, OwnedStill
<1> QED BY <1>1, <1>2, <1>3, BooksStill DEF ControlInv

LEMMA InvPoke ==
  ASSUME ControlInv, Poke
  PROVE  ControlInv'
<1>1. /\ links' = Append(links, NewLink("gcmon", FALSE)) /\ closing' = "poked"
      /\ UNCHANGED <<registryVars, clients, acceptThread, connections, stopped, readerThread, sent,
                     in_time, handled>>
  BY DEF Poke
<1>2. Onward
  BY <1>1, MadeOnward
<1>3. ControlTypeOK'
  BY <1>1, <1>2, BooksStill
     DEF ControlInv, ControlTypeOK, Onward, clients, acceptThread, readerThread
<1>4. Owned'
  <2>1. /\ \A pid \in Pids : \A jd \in conn'[pid] : links'[jd].pid = pid
        /\ \A t \in Senders : /\ \A jd \in got'[t] : links'[jd].pid = t[1]
                              /\ to_send'[t] \subseteq MsgOf(t[1])
    BY <1>1, <1>2 DEF ControlInv, ControlTypeOK, Owned, Onward, clients
  <2> QED BY <1>1, <1>2, <2>1, OwnedStill
<1> QED BY <1>1, <1>3, <1>4, BooksStill DEF ControlInv

LEMMA ControlStep == ControlInv /\ [ControlNext]_controlVars => ControlInv'
<1> SUFFICES ASSUME ControlInv, [ControlNext]_controlVars PROVE ControlInv'
  OBVIOUS
<1>1. CASE Monitor
  BY <1>1, InvMonitor
<1>2. ASSUME NEW s \in Senders, NEW kind \in Kinds, NEW ts \in 0..MaxTime, Call(s, kind, ts)
      PROVE  ControlInv'
  BY <1>2, InvCall
<1>3. ASSUME NEW s \in Senders, Client(s)
      PROVE  ControlInv'
  BY <1>3, InvConnect, InvReread, InvSend DEF Client
<1>4. ASSUME NEW pid \in Pids, CloseClient(pid)
      PROVE  ControlInv'
  BY <1>4, InvCloseClient
<1>5. CASE Accept \/ AddConnection \/ AcceptFails \/ BeginPass \/ BeginDrain \/ Stop
  BY <1>5, InvThreads
<1>6. ASSUME NEW id \in todo, Visit(id) \/ DrainVisit(id)
      PROVE  ControlInv'
  BY <1>6, InvReceive
<1>7. CASE EndPass \/ EndDrainPass \/ FinishClose
  BY <1>7, InvServed
<1>8. CASE Poke
  BY <1>8, InvPoke
<1>9. CASE UNCHANGED controlVars
  <2>1. Onward
    BY <1>9, LinksStill DEF controlVars
  <2>2. Owned'
    BY <1>9, <2>1, OwnedStill DEF controlVars, clients, ControlInv, Owned
  <2> QED BY <1>9, <2>2, BooksStill DEF controlVars, clients, acceptThread, readerThread,
             ControlInv, ControlTypeOK
<1> QED BY <1>1, <1>2, <1>3, <1>4, <1>5, <1>6, <1>7, <1>8, <1>9
       DEF ControlNext, AcceptThread, ReaderThread, MainThread

(***************************************************************************)
(* Every thread of the control plane is where it may be, a connection      *)
(* carries messages of one pid only, and every message is filed under a    *)
(* process the registry has given out, or under none.                      *)
(***************************************************************************)
THEOREM ControlTypesCorrect == ControlSpec => []ControlTypeOK
<1>1. ControlInit => ControlInv
  BY ControlInvInit
<1>2. ControlInv /\ [ControlNext]_controlVars => ControlInv'
  BY ControlStep
<1>3. ControlInv => ControlTypeOK
  BY DEF ControlInv
<1> QED BY <1>1, <1>2, <1>3, PTL DEF ControlSpec

-----------------------------------------------------------------------------
(* The registry under the control plane is the one ProcessRegistry specifies. *)

LEMMA DrivesRegistry == [ControlNext]_controlVars => [Next]_registryVars
<1> SUFFICES ASSUME [ControlNext]_controlVars PROVE [Next]_registryVars
  OBVIOUS
<1>1. Monitor \/ UNCHANGED controlVars => [Next]_registryVars
  BY DEF Monitor, controlVars
<1>2. ASSUME ~ Monitor, ControlNext
      PROVE  UNCHANGED registryVars
  BY <1>2 DEF ControlNext, Call, Client, Connect, Reread, Send, CloseClient, AcceptThread, Accept,
     AddConnection, AcceptFails, ReaderThread, BeginPass, EndPass, BeginDrain, EndDrainPass, Visit,
     DrainVisit, readerElse, Stop, MainThread, Poke, FinishClose
<1> QED BY <1>1, <1>2

(***************************************************************************)
(* Whatever the control plane asks of the registry and whenever: an        *)
(* instant up to a departure keeps the process it is filed under, and no   *)
(* answer ever moves to an earlier one.                                    *)
(***************************************************************************)
THEOREM LivesStand == ControlSpec => ClosedLivesStand
<1>1. ControlSpec => Spec
  <2>1. ControlInit => Init
    BY DEF ControlInit
  <2> QED BY <2>1, DrivesRegistry, PTL DEF ControlSpec, Spec
<1> QED BY <1>1, AnswersStand, PTL

-----------------------------------------------------------------------------
(* A client's one open connection. *)

(* An open connection is the one its client, never gcmon, holds. *)
OpenInv ==
  \A id \in DOMAIN links :
    links[id].open => links[id].pid \in Pids /\ conn[links[id].pid] = {id}

(* No connection opens, and none stops being its client's. *)
LEMMA OpenStays ==
  ASSUME OpenInv, conn' = conn,
         \A id \in DOMAIN links' :
           links'[id].open => /\ id \in DOMAIN links /\ links[id].open
                              /\ links'[id].pid = links[id].pid
  PROVE  OpenInv'
BY DEF OpenInv

(* The client drops its connection, and the end it drops closes. *)
LEMMA OpenDropped ==
  ASSUME ControlInv, OpenInv, NEW pid \in Pids, NEW id \in conn[pid],
         links' = [links EXCEPT ![id] = [links[id] EXCEPT !.open = FALSE]],
         conn' = [conn EXCEPT ![pid] = {}]
  PROVE  OpenInv'
<1>1. id \in DOMAIN links /\ links[id] \in Link /\ links[id].pid = pid
  BY Linked DEF ControlInv, ControlTypeOK, Owned
<1>2. DOMAIN links' = DOMAIN links /\ ~ links'[id].open
      /\ \A other \in DOMAIN links : other # id => links'[other] = links[other]
  BY <1>1 DEF Link
<1>3. ASSUME NEW other \in DOMAIN links', links'[other].open
      PROVE  links'[other].pid \in Pids /\ conn'[links'[other].pid] = {other}
  <2>1. other # id /\ other \in DOMAIN links /\ links'[other] = links[other]
    BY <1>2, <1>3
  <2>2. links[other].pid \in Pids /\ conn[links[other].pid] = {other}
    BY <1>3, <2>1 DEF OpenInv
  <2>3. links[other].pid # pid
    BY <2>1, <2>2
  <2>4. conn'[links[other].pid] = conn[links[other].pid]
    BY <2>2, <2>3 DEF ControlInv, ControlTypeOK
  <2> QED BY <2>1, <2>2, <2>4
<1> QED BY <1>3 DEF OpenInv

(* A client connects only while it holds no connection. *)
LEMMA OpenConnect ==
  ASSUME ControlInv, OpenInv, NEW s \in Senders, Connect(s)
  PROVE  OpenInv'
<1>1. s[1] \in Pids
  BY DEF Senders
<1>2. CASE UNCHANGED <<links, conn>>
  BY <1>2 DEF OpenInv
<1>3. CASE /\ conn[s[1]] = {}
           /\ links' = Append(links, NewLink(s[1], TRUE))
           /\ conn' = [conn EXCEPT ![s[1]] = {Len(links) + 1}]
  <2>1. /\ DOMAIN links' = DOMAIN links \cup {Len(links) + 1}
        /\ \A id \in DOMAIN links : links'[id] = links[id]
        /\ links'[Len(links) + 1].pid = s[1]
    BY <1>1, <1>3, LinkMade DEF ControlInv, ControlTypeOK, NewLink
  <2>2. ASSUME NEW id \in DOMAIN links', links'[id].open
        PROVE  links'[id].pid \in Pids /\ conn'[links'[id].pid] = {id}
    <3>1. CASE id \in DOMAIN links
      <4>1. links[id].pid \in Pids /\ conn[links[id].pid] = {id} /\ links'[id] = links[id]
        BY <2>1, <2>2, <3>1 DEF OpenInv
      <4>2. links[id].pid # s[1]
        BY <1>3, <4>1
      <4>3. conn'[links[id].pid] = conn[links[id].pid]
        BY <1>3, <4>1, <4>2 DEF ControlInv, ControlTypeOK
      <4> QED BY <4>1, <4>3
    <3>2. CASE id = Len(links) + 1
      BY <1>1, <1>3, <2>1, <3>2 DEF ControlInv, ControlTypeOK
    <3> QED BY <2>1, <3>1, <3>2
  <2> QED BY <2>2 DEF OpenInv
<1> QED BY <1>2, <1>3 DEF Connect

LEMMA OpenSend ==
  ASSUME ControlInv, OpenInv, NEW s \in Senders, Send(s)
  PROVE  OpenInv'
<1>1. s[1] \in Pids
  BY DEF Senders
<1>2. PICK id \in got[s], msg \in to_send[s] :
        /\ id \in DOMAIN links /\ msg \in MsgOf(links[id].pid) /\ links[id].pid = s[1]
        /\ \/ UNCHANGED <<conn, links, sent>>
           \/ /\ links' = [links EXCEPT ![id] = [links[id] EXCEPT !.queue = Append(@, msg)]]
              /\ links[id].open /\ links[id].served
              /\ sent' = Append(sent, [msg |-> msg, link |-> id])
              /\ conn' = conn
           \/ /\ links' = [links EXCEPT ![id] = [links[id] EXCEPT !.open = FALSE]]
              /\ conn[s[1]] = got[s]
              /\ conn' = [conn EXCEPT ![s[1]] = {}]
              /\ sent' = sent
  BY SendEffect
<1>3. CASE UNCHANGED <<conn, links>>
  BY <1>3 DEF OpenInv
<1>4. CASE /\ links' = [links EXCEPT ![id] = [links[id] EXCEPT !.queue = Append(@, msg)]]
           /\ conn' = conn
  <2>1. links[id] \in Link
    BY <1>2, Linked DEF ControlInv, ControlTypeOK
  <2>2. /\ DOMAIN links' = DOMAIN links
        /\ \A jd \in DOMAIN links : links'[jd].open = links[jd].open /\ links'[jd].pid = links[jd].pid
    BY <1>2, <1>4, <2>1 DEF Link
  <2> QED BY <1>4, <2>2, OpenStays
<1>5. CASE /\ links' = [links EXCEPT ![id] = [links[id] EXCEPT !.open = FALSE]]
           /\ conn[s[1]] = got[s]
           /\ conn' = [conn EXCEPT ![s[1]] = {}]
  BY <1>1, <1>2, <1>5, OpenDropped
<1> QED BY <1>2, <1>3, <1>4, <1>5

(* What the threads of gcmon do opens no connection. *)
LEMMA OpenServer ==
  ASSUME ControlInv, OpenInv,
         \/ Monitor \/ UNCHANGED controlVars
         \/ \E s \in Senders, kind \in Kinds, ts \in 0..MaxTime : Call(s, kind, ts)
         \/ \E s \in Senders : Reread(s)
         \/ Accept \/ AddConnection \/ AcceptFails \/ ReaderThread \/ Stop \/ MainThread
  PROVE  OpenInv'
<1>1. CASE \/ Monitor \/ UNCHANGED controlVars
           \/ \E s \in Senders, kind \in Kinds, ts \in 0..MaxTime : Call(s, kind, ts)
           \/ \E s \in Senders : Reread(s)
           \/ Accept \/ AddConnection \/ AcceptFails \/ BeginPass \/ BeginDrain \/ Stop
  BY <1>1 DEF OpenInv, Monitor, controlVars, clients, Call, Reread, Accept, AddConnection,
     AcceptFails, BeginPass, BeginDrain, Stop, readerElse
<1>2. ASSUME NEW id \in todo, Visit(id) \/ DrainVisit(id)
      PROVE  OpenInv'
  <2>1. id \in DOMAIN links /\ conn' = conn /\ (Filed(id) \/ links' = links)
    BY <1>2, ReceiveEffect DEF clients
  <2>2. links[id] \in Link
    BY <2>1, Linked DEF ControlInv, ControlTypeOK
  <2>3. /\ DOMAIN links' = DOMAIN links
        /\ \A jd \in DOMAIN links : links'[jd].open = links[jd].open /\ links'[jd].pid = links[jd].pid
    BY <2>1, <2>2 DEF Filed, Link
  <2> QED BY <2>1, <2>3, OpenStays
<1>3. CASE EndPass \/ EndDrainPass \/ FinishClose
  <2>1. conn' = conn
        /\ \/ links' = [id \in DOMAIN links |-> [links[id] EXCEPT !.served = @ /\ id \notin to_remove]]
           \/ links' = [id \in DOMAIN links |->
                          [links[id] EXCEPT !.served = @ /\ id \notin connections \cup Backlog]]
    BY <1>3 DEF EndPass, EndDrainPass, FinishClose, RemoveConnections, readerElse, clients
  <2>2. /\ DOMAIN links' = DOMAIN links
        /\ \A jd \in DOMAIN links : links'[jd].open = links[jd].open /\ links'[jd].pid = links[jd].pid
    <3>1. ASSUME NEW S,
                 links' = [id \in DOMAIN links |-> [links[id] EXCEPT !.served = @ /\ id \notin S]]
          PROVE  /\ DOMAIN links' = DOMAIN links
                 /\ \A jd \in DOMAIN links : /\ links'[jd].open = links[jd].open
                                              /\ links'[jd].pid = links[jd].pid
      BY <3>1, ServedOnward
    <3> QED BY <2>1, <3>1
  <2> QED BY <2>1, <2>2, OpenStays
<1>4. CASE Poke
  <2>1. /\ DOMAIN links' = DOMAIN links \cup {Len(links) + 1}
        /\ \A id \in DOMAIN links : links'[id] = links[id]
        /\ ~ links'[Len(links) + 1].open /\ conn' = conn
    BY <1>4, LinkMade DEF Poke, clients, ControlInv, ControlTypeOK, NewLink
  <2> QED BY <2>1, OpenStays
<1> QED BY <1>1, <1>2, <1>3, <1>4 DEF ReaderThread, MainThread

(***************************************************************************)
(* However the threads that share a client connect, send, fail and close   *)
(* between one another's steps, it has at most one connection open, and    *)
(* that is the one they all send on.                                       *)
(***************************************************************************)
THEOREM OneConnection == ControlSpec => []OpenIsCurrent
<1>1. ControlInit => ControlInv /\ OpenInv
  BY ControlInvInit DEF ControlInit, OpenInv
<1>2. ControlInv /\ OpenInv /\ [ControlNext]_controlVars => (ControlInv /\ OpenInv)'
  <2> SUFFICES ASSUME ControlInv, OpenInv, [ControlNext]_controlVars PROVE OpenInv'
    BY ControlStep
  <2>1. ASSUME NEW pid \in Pids, CloseClient(pid) PROVE OpenInv'
    BY <2>1, OpenDropped DEF CloseClient
  <2>2. ASSUME NEW s \in Senders, Connect(s) PROVE OpenInv'
    BY <2>2, OpenConnect
  <2>3. ASSUME NEW s \in Senders, Send(s) PROVE OpenInv'
    BY <2>3, OpenSend
  <2> QED BY <2>1, <2>2, <2>3, OpenServer DEF ControlNext, Client, AcceptThread
<1>3. OpenInv => OpenIsCurrent
  BY DEF OpenInv, OpenIsCurrent
<1> QED BY <1>1, <1>2, <1>3, PTL DEF ControlSpec

-----------------------------------------------------------------------------
(* The order messages are filed in. *)

(* The registry's answer for what has been filed has only moved on since. *)
Reached ==
  \A pid \in Pids, ts \in 0..MaxTime : \A i \in DOMAIN handled :
    handled[i].msg.pid = pid /\ handled[i].msg.ts = ts
      => handled[i].process.epoch \in Nat /\ handled[i].process.epoch <= At(pid, ts).epoch

MarksInv == Reached /\ MarksStayInOrder

LEMMA EpochIsNat ==
  ControlInv => \A pid \in Pids, ts \in 0..MaxTime : At(pid, ts).epoch \in Nat
BY AtIsProcess DEF ControlInv, ControlTypeOK, IInv, Process, NoProcess

LEMMA EpochIsNatNext ==
  ControlInv' => (\A pid \in Pids, ts \in 0..MaxTime : At(pid, ts).epoch \in Nat)'
BY EpochIsNat, PTL

LEMMA MovesOn ==
  ASSUME ControlInv, [ControlNext]_controlVars, NEW pid \in Pids, NEW ts \in 0..MaxTime
  PROVE  At(pid, ts)'.epoch >= At(pid, ts).epoch
<1>1. IInv /\ IInv' /\ [Next]_registryVars
  BY ControlStep, DrivesRegistry DEF ControlInv, ControlTypeOK, IInv
<1> QED BY <1>1, StepAnswers

LEMMA MarksStep == ControlInv /\ MarksInv /\ [ControlNext]_controlVars => MarksInv'
<1> SUFFICES ASSUME ControlInv, MarksInv, [ControlNext]_controlVars PROVE MarksInv'
  OBVIOUS
<1>1. \A pid \in Pids, ts \in 0..MaxTime :
        /\ At(pid, ts)'.epoch >= At(pid, ts).epoch
        /\ At(pid, ts).epoch \in Nat /\ At(pid, ts)'.epoch \in Nat
  BY MovesOn, EpochIsNat, EpochIsNatNext, ControlStep
<1>2. CASE handled' = handled
  <2>1. Reached'
    BY <1>1, <1>2 DEF MarksInv, Reached
  <2> QED BY <1>2, <2>1 DEF MarksInv, MarksStayInOrder
<1>3. ASSUME NEW id \in todo, Visit(id) \/ DrainVisit(id), Filed(id)
      PROVE  MarksInv'
  <2> DEFINE msg == links[id].queue[1]
             last == Len(handled) + 1
  <2>1. /\ id \in DOMAIN links /\ Len(handled') = last /\ handled' \in Seq(Entry)
        /\ \A i \in 1..Len(handled) : handled'[i] = handled[i]
        /\ handled'[last] = [msg |-> msg, link |-> id, process |-> At(msg.pid, msg.ts)]
    BY <1>3, ReceiveEffect, FiledOnward
  <2>2. Len(handled) \in Nat /\ DOMAIN handled = 1..Len(handled) /\ DOMAIN handled' = 1..last
    BY <2>1 DEF ControlInv, ControlTypeOK
  <2>3. msg \in Msg /\ msg.pid = links[id].pid /\ msg.pid \in Pids /\ msg.ts \in 0..MaxTime
    BY <1>3 DEF Filed, MsgOf, Msg
  <2> HIDE DEF msg
  <2>4. PICK pid \in Pids, ts \in 0..MaxTime : pid = msg.pid /\ ts = msg.ts
    BY <2>3
  <2>5. handled'[last].process = At(pid, ts) /\ handled'[last].msg = msg /\ handled'[last].link = id
    BY <2>1, <2>4
  <2>6. Reached'
    <3> SUFFICES ASSUME NEW q \in Pids, NEW t \in 0..MaxTime, NEW i \in DOMAIN handled',
                        handled'[i].msg.pid = q, handled'[i].msg.ts = t
                 PROVE  /\ handled'[i].process.epoch \in Nat
                        /\ handled'[i].process.epoch <= At(q, t)'.epoch
      BY DEF Reached
    <3>1. CASE i \in DOMAIN handled
      BY <1>1, <2>1, <2>2, <3>1 DEF MarksInv, Reached
    <3>2. CASE i = last
      BY <1>1, <2>4, <2>5, <3>2
    <3> QED BY <2>2, <3>1, <3>2
  <2>7. MarksStayInOrder'
    <3> SUFFICES ASSUME NEW i \in DOMAIN handled', NEW j \in DOMAIN handled', i < j,
                        handled'[i].link = handled'[j].link,
                        handled'[i].msg.ts <= handled'[j].msg.ts
                 PROVE  handled'[i].process.epoch <= handled'[j].process.epoch
      BY DEF MarksStayInOrder
    <3>1. i \in DOMAIN handled /\ handled'[i] = handled[i] /\ i \in 1..Len(handled)
      BY <2>1, <2>2
    <3>2. CASE j \in DOMAIN handled
      BY <2>1, <2>2, <3>1, <3>2 DEF MarksInv, MarksStayInOrder
    <3>3. CASE j = last
      <4>1. handled[i].msg.pid = msg.pid
        BY <2>3, <2>5, <3>1, <3>3 DEF ControlInv, Owned
      <4>2. handled[i] \in Entry
        BY <3>1 DEF ControlInv, ControlTypeOK
      <4>3. PICK t \in 0..MaxTime : t = handled[i].msg.ts
        BY <4>2 DEF Entry, Msg
      <4>4. handled[i].process.epoch <= At(pid, t).epoch /\ handled[i].process.epoch \in Nat
        BY <2>4, <3>1, <4>1, <4>3 DEF MarksInv, Reached
      <4>5. t <= ts
        BY <2>4, <2>5, <3>1, <3>3, <4>3
      <4>6. At(pid, t).epoch <= At(pid, ts).epoch
        <5>1. AtIsMonotone
          BY Monotone DEF ControlInv, ControlTypeOK, IInv
        <5> QED BY <4>5, <5>1 DEF AtIsMonotone
      <4> QED BY <1>1, <2>5, <3>1, <3>3, <4>4, <4>6
    <3> QED BY <2>2, <3>2, <3>3
  <2> QED BY <2>6, <2>7 DEF MarksInv
<1>4. \/ handled' = handled
      \/ \E id \in todo : (Visit(id) \/ DrainVisit(id)) /\ Filed(id)
  <2>1. ASSUME NEW id \in todo, Visit(id) \/ DrainVisit(id)
        PROVE  handled' = handled \/ Filed(id)
    BY <2>1, ReceiveEffect
  <2>2. ASSUME ControlNext, ~ \E id \in todo : Visit(id) \/ DrainVisit(id)
        PROVE  handled' = handled
    BY <2>2 DEF ControlNext, Monitor, Call, Client, Connect, Reread, Send, CloseClient, AcceptThread,
       Accept, AddConnection, AcceptFails, ReaderThread, BeginPass, EndPass, BeginDrain,
       EndDrainPass, Stop, MainThread, Poke, FinishClose
  <2> QED BY <2>1, <2>2 DEF controlVars
<1> QED BY <1>2, <1>3, <1>4

(***************************************************************************)
(* Of two messages a connection carried, the one with the later instant is *)
(* never filed under the earlier process of its pid, whatever the monitor  *)
(* does between the two: at() is ordered, and its answers only move on.    *)
(***************************************************************************)
THEOREM MarksInOrder == ControlSpec => []MarksStayInOrder
<1>1. ControlInit => ControlInv /\ MarksInv
  BY ControlInvInit DEF ControlInit, MarksInv, Reached, MarksStayInOrder
<1>2. ControlInv /\ MarksInv /\ [ControlNext]_controlVars => (ControlInv /\ MarksInv)'
  BY ControlStep, MarksStep
<1> QED BY <1>1, <1>2, PTL DEF ControlSpec, MarksInv

-----------------------------------------------------------------------------
(* What the drain leaves. *)

(* A message is on one thread or on one connection, and is numbered by its call. *)
Fresh ==
  /\ \A s \in Senders : \A m \in to_send[s] :
       /\ m.n <= calls /\ m \notin in_time
       /\ \A id \in DOMAIN links : m \notin Within(links[id].queue)
       /\ \A t \in Senders : t # s => m \notin to_send[t]
  /\ \A m \in in_time : m.n <= calls
  /\ \A id \in DOMAIN links : \A m \in Within(links[id].queue) :
       /\ m.n <= calls
       /\ \A other \in DOMAIN links : other # id => m \notin Within(links[other].queue)

(* Where the reader is while close() goes on, and the ends it has found. *)
Ends ==
  /\ \A id \in to_remove : links[id].queue = <<>> /\ ~ links[id].open
  /\ reader = "pass" => \A id \in todo : Readable(id)
  /\ closing = "open" => reader \in {"top", "pass"}
  /\ closing \in {"poked", "closed"} => ReaderJoined

(* What was in time is handled or still queued, where the drain has yet to look. *)
Seen(id) == id \notin connections \/ (reader = "drain" /\ ~ any_data /\ id \notin todo)
Kept ==
  /\ closing # "closed" =>
       /\ \A m \in in_time :
            m \in HandledMessages \/ \E id \in connections : m \in Within(links[id].queue)
       /\ \A id \in DOMAIN links : Seen(id) => Within(links[id].queue) \cap in_time = {}
  /\ reader = "ended" => in_time \subseteq HandledMessages

DrainInv == Fresh /\ Ends /\ Kept

LEMMA DrainInvInit == ControlInit => DrainInv
BY DEF ControlInit, DrainInv, Fresh, Ends, Kept, Senders

(* Queues that a step leaves alone, and connections that it leaves with none. *)
Quiet ==
  /\ DOMAIN links \subseteq DOMAIN links'
  /\ \A id \in DOMAIN links : links'[id].queue = links[id].queue
  /\ \A id \in DOMAIN links : links'[id].open => links[id].open
  /\ \A id \in DOMAIN links' : id \notin DOMAIN links => links'[id].queue = <<>>
  /\ handled' = handled

LEMMA QuietMade ==
  ASSUME ControlInv, NEW pid \in Pids \cup {"gcmon"}, NEW open \in BOOLEAN,
         links' = Append(links, NewLink(pid, open)), handled' = handled
  PROVE  Quiet
<1>1. /\ DOMAIN links' = DOMAIN links \cup {Len(links) + 1}
      /\ \A id \in DOMAIN links : links'[id] = links[id]
      /\ links'[Len(links) + 1].queue = <<>>
  BY LinkMade DEF ControlInv, ControlTypeOK, NewLink
<1> QED BY <1>1 DEF Quiet

LEMMA QuietClosed ==
  ASSUME ControlInv, NEW id \in DOMAIN links, handled' = handled,
         links' = [links EXCEPT ![id] = [links[id] EXCEPT !.open = FALSE]]
  PROVE  Quiet /\ DOMAIN links' = DOMAIN links
<1>1. links[id] \in Link
  BY Linked DEF ControlInv, ControlTypeOK
<1> QED BY <1>1 DEF Quiet, Link

(* A client's message goes on a connection that is open. *)
Sends(s, id, msg) ==
  /\ id \in DOMAIN links /\ msg \in to_send[s] /\ links[id].open
  /\ DOMAIN links' = DOMAIN links
  /\ \A other \in DOMAIN links :
       /\ links'[other].open = links[other].open
       /\ other # id => links'[other].queue = links[other].queue
  /\ Within(links'[id].queue) = Within(links[id].queue) \cup {msg}
  /\ links'[id].queue # <<>>
  /\ to_send' = [to_send EXCEPT ![s] = {}] /\ handled' = handled

LEMMA SendQueues ==
  ASSUME ControlInv, NEW s \in Senders, Send(s)
  PROVE  Quiet \/ \E id \in got[s], msg \in to_send[s] : Sends(s, id, msg)
<1>1. PICK id \in got[s], msg \in to_send[s] :
        /\ id \in DOMAIN links /\ msg \in MsgOf(links[id].pid) /\ links[id].pid = s[1]
        /\ \/ UNCHANGED <<conn, links, sent>>
           \/ /\ links' = [links EXCEPT ![id] = [links[id] EXCEPT !.queue = Append(@, msg)]]
              /\ links[id].open /\ links[id].served
              /\ sent' = Append(sent, [msg |-> msg, link |-> id])
              /\ conn' = conn
           \/ /\ links' = [links EXCEPT ![id] = [links[id] EXCEPT !.open = FALSE]]
              /\ conn[s[1]] = got[s]
              /\ conn' = [conn EXCEPT ![s[1]] = {}]
              /\ sent' = sent
  BY SendEffect
<1>2. handled' = handled /\ to_send' = [to_send EXCEPT ![s] = {}]
  BY SendEffect
<1>3. CASE links' = links
  BY <1>2, <1>3 DEF Quiet
<1>4. CASE links[id].open
           /\ links' = [links EXCEPT ![id] = [links[id] EXCEPT !.queue = Append(@, msg)]]
  <2>1. links[id] \in Link /\ links[id].queue \in Seq(MsgOf(links[id].pid))
    BY <1>1, Linked DEF ControlInv, ControlTypeOK, Owned
  <2>2. /\ DOMAIN links' = DOMAIN links /\ links'[id].queue = Append(links[id].queue, msg)
        /\ \A other \in DOMAIN links :
             /\ links'[other].open = links[other].open
             /\ other # id => links'[other].queue = links[other].queue
    BY <1>1, <1>4, <2>1 DEF Link
  <2>3. Within(links'[id].queue) = Within(links[id].queue) \cup {msg}
    BY <1>1, <2>1, <2>2, Appended
  <2>4. links'[id].queue # <<>>
    BY <1>1, <2>1, <2>2
  <2> QED BY <1>1, <1>2, <1>4, <2>2, <2>3, <2>4 DEF Sends
<1>5. CASE links' = [links EXCEPT ![id] = [links[id] EXCEPT !.open = FALSE]]
  BY <1>1, <1>2, <1>5, QuietClosed
<1> QED BY <1>1, <1>3, <1>4, <1>5

LEMMA QuietServed ==
  ASSUME ControlInv, EndPass \/ EndDrainPass \/ FinishClose
  PROVE  Quiet /\ DOMAIN links' = DOMAIN links
<1>1. handled' = handled
      /\ \/ links' = [id \in DOMAIN links |-> [links[id] EXCEPT !.served = @ /\ id \notin to_remove]]
         \/ links' = [id \in DOMAIN links |->
                        [links[id] EXCEPT !.served = @ /\ id \notin connections \cup Backlog]]
  BY DEF EndPass, EndDrainPass, FinishClose, RemoveConnections
<1>2. ASSUME NEW S,
             links' = [id \in DOMAIN links |-> [links[id] EXCEPT !.served = @ /\ id \notin S]]
      PROVE  Quiet /\ DOMAIN links' = DOMAIN links
  BY <1>1, <1>2, ServedOnward DEF Quiet
<1> QED BY <1>1, <1>2

(* What the clients, the accept thread and the monitor do is out of the reader's sight. *)
Outside ==
  /\ UNCHANGED <<readerThread, closing, in_time, handled>>
  /\ connections \subseteq connections' /\ connections' \subseteq connections \cup DOMAIN links

LEMMA OutsideSteps ==
  ASSUME ControlInv,
         \/ Monitor \/ UNCHANGED controlVars
         \/ \E s \in Senders, kind \in Kinds, ts \in 0..MaxTime : Call(s, kind, ts)
         \/ \E s \in Senders : Client(s)
         \/ \E pid \in Pids : CloseClient(pid)
         \/ AcceptThread \/ AcceptFails
  PROVE  /\ Outside
         /\ Quiet \/ \E s \in Senders, id \in DOMAIN links : \E msg \in to_send[s] : Sends(s, id, msg)
<1>1. CASE Monitor \/ UNCHANGED controlVars
  BY <1>1 DEF Monitor, controlVars, Outside, Quiet
<1>2. ASSUME NEW s \in Senders, NEW kind \in Kinds, NEW ts \in 0..MaxTime, Call(s, kind, ts)
      PROVE  Outside /\ Quiet
  BY <1>2 DEF Call, Outside, Quiet
<1>3. ASSUME NEW s \in Senders, Connect(s) \/ Reread(s)
      PROVE  Outside /\ Quiet
  <2>1. Outside /\ handled' = handled
    BY <1>3 DEF Connect, Reread, Outside
  <2>2. Quiet
    <3>1. CASE links' = links
      BY <2>1, <3>1 DEF Quiet
    <3>2. CASE links' = Append(links, NewLink(s[1], TRUE))
      <4>1. s[1] \in Pids \cup {"gcmon"}
        BY DEF Senders
      <4> QED BY <2>1, <3>2, <4>1, QuietMade
    <3> QED BY <1>3, <3>1, <3>2 DEF Connect, Reread
  <2> QED BY <2>1, <2>2
<1>4. ASSUME NEW s \in Senders, Send(s)
      PROVE  /\ Outside
             /\ Quiet \/ \E id \in DOMAIN links : \E msg \in to_send[s] : Sends(s, id, msg)
  <2>1. Outside
    BY <1>4 DEF Send, Outside
  <2>2. Quiet \/ \E id \in got[s], msg \in to_send[s] : Sends(s, id, msg)
    BY <1>4, SendQueues
  <2> QED BY <2>1, <2>2 DEF Sends
<1>5. ASSUME NEW pid \in Pids, CloseClient(pid)
      PROVE  Outside /\ Quiet
  <2>1. Outside /\ handled' = handled
    BY <1>5 DEF CloseClient, Outside
  <2>2. PICK id \in conn[pid] : links' = [links EXCEPT ![id] = [links[id] EXCEPT !.open = FALSE]]
    BY <1>5 DEF CloseClient
  <2> QED BY <2>1, <2>2, QuietClosed DEF ControlInv, ControlTypeOK
<1>6. CASE AcceptThread \/ AcceptFails
  BY <1>6 DEF AcceptThread, Accept, AddConnection, AcceptFails, Outside, Quiet, ControlInv,
     ControlTypeOK
<1> QED BY <1>1, <1>2, <1>3, <1>4, <1>5, <1>6 DEF Client

(***************************************************************************)
(* No message is on two connections, or sent twice.                        *)
(***************************************************************************)
LEMMA FreshLess ==
  ASSUME ControlInv, Fresh, calls' = calls,
         \A s \in Senders : to_send'[s] \subseteq to_send[s],
         DOMAIN links \subseteq DOMAIN links',
         \A id \in DOMAIN links : Within(links'[id].queue) \subseteq Within(links[id].queue),
         \A id \in DOMAIN links' : id \notin DOMAIN links => Within(links'[id].queue) = {},
         \A m \in in_time' : m \in in_time \/ \E id \in DOMAIN links : m \in Within(links[id].queue)
  PROVE  Fresh'
<1>1. ASSUME NEW s \in Senders, NEW m \in to_send'[s]
      PROVE  /\ m.n <= calls' /\ m \notin in_time'
             /\ \A id \in DOMAIN links' : m \notin Within(links'[id].queue)
             /\ \A t \in Senders : t # s => m \notin to_send'[t]
  <2>1. /\ m.n <= calls /\ m \notin in_time
        /\ \A id \in DOMAIN links : m \notin Within(links[id].queue)
        /\ \A t \in Senders : t # s => m \notin to_send[t]
    BY <1>1 DEF Fresh
  <2> QED BY <2>1
<1>2. ASSUME NEW m \in in_time'
      PROVE  m.n <= calls'
  BY DEF Fresh
<1>3. ASSUME NEW id \in DOMAIN links', NEW m \in Within(links'[id].queue)
      PROVE  /\ m.n <= calls'
             /\ \A other \in DOMAIN links' : other # id => m \notin Within(links'[other].queue)
  <2>1. id \in DOMAIN links /\ m \in Within(links[id].queue)
    BY <1>3
  <2>2. /\ m.n <= calls
        /\ \A other \in DOMAIN links : other # id => m \notin Within(links[other].queue)
    BY <2>1 DEF Fresh
  <2> QED BY <2>2
<1> QED BY <1>1, <1>2, <1>3 DEF Fresh

LEMMA FreshQuiet ==
  ASSUME ControlInv, Fresh, Quiet, calls' = calls,
         \A s \in Senders : to_send'[s] \subseteq to_send[s],
         \A m \in in_time' : m \in in_time \/ \E id \in DOMAIN links : m \in Within(links[id].queue)
  PROVE  Fresh'
<1>1. /\ DOMAIN links \subseteq DOMAIN links'
      /\ \A id \in DOMAIN links : Within(links'[id].queue) = Within(links[id].queue)
      /\ \A id \in DOMAIN links' : id \notin DOMAIN links => Within(links'[id].queue) = {}
  <2>1. Within(<<>>) = {}
    BY DEF Within
  <2>2. \A id \in DOMAIN links : Within(links'[id].queue) = Within(links[id].queue)
    <3>1. \A id \in DOMAIN links : links'[id].queue = links[id].queue
      BY DEF Quiet
    <3> QED BY <3>1
  <2>3. \A id \in DOMAIN links' : id \notin DOMAIN links => Within(links'[id].queue) = {}
    BY DEF Quiet, Within
  <2> QED BY <2>2, <2>3 DEF Quiet
<1> QED BY <1>1, FreshLess

LEMMA FreshCall ==
  ASSUME ControlInv, Fresh, NEW s \in Senders, NEW kind \in Kinds, NEW ts \in 0..MaxTime,
         Call(s, kind, ts)
  PROVE  Fresh'
<1> DEFINE msg == [pid |-> s[1], kind |-> kind, ts |-> ts, n |-> calls + 1]
<1>1. to_send' = [to_send EXCEPT ![s] = {msg}] /\ calls' = calls + 1 /\ msg.n = calls + 1
      /\ UNCHANGED <<links, in_time>>
  BY DEF Call
<1>2. calls \in Nat /\ to_send \in [Senders -> SUBSET Msg] /\ in_time \subseteq Msg
      /\ \A id \in DOMAIN links : Within(links[id].queue) \subseteq Msg
  <2>1. ASSUME NEW id \in DOMAIN links, NEW i \in DOMAIN links[id].queue
        PROVE  links[id].queue[i] \in Msg
    <3>1. links[id].queue \in Seq(Msg)
      BY Linked DEF ControlInv, ControlTypeOK, Link
    <3> QED BY <3>1
  <2> QED BY <2>1, Bounds DEF ControlInv, ControlTypeOK, Within
<1>3. \A m \in Msg : m.n \in Nat
  BY DEF Msg
<1> HIDE DEF msg
<1>4. ASSUME NEW t \in Senders, NEW m \in to_send'[t]
      PROVE  /\ m.n <= calls' /\ m \notin in_time'
             /\ \A id \in DOMAIN links' : m \notin Within(links'[id].queue)
             /\ \A u \in Senders : u # t => m \notin to_send'[u]
  <2>1. CASE t = s
    <3>1. m = msg
      BY <1>1, <1>2, <1>4, <2>1
    <3>2. \A u \in Senders : u # s => to_send'[u] = to_send[u]
      BY <1>1, <1>2
    <3>3. \A u \in Senders : msg \notin to_send[u]
      BY <1>1, <1>2, <1>3 DEF Fresh
    <3>4. msg \notin in_time /\ \A id \in DOMAIN links : msg \notin Within(links[id].queue)
      BY <1>1, <1>2, <1>3 DEF Fresh
    <3> QED BY <1>1, <1>2, <2>1, <3>1, <3>2, <3>3, <3>4
  <2>2. CASE t # s
    <3>1. m \in to_send[t] /\ m \in Msg
      BY <1>1, <1>2, <1>4, <2>2
    <3>2. /\ m.n <= calls /\ m \notin in_time
          /\ \A id \in DOMAIN links : m \notin Within(links[id].queue)
          /\ \A u \in Senders : u # t => m \notin to_send[u]
      BY <3>1 DEF Fresh
    <3>3. m # msg /\ m.n <= calls + 1
      BY <1>1, <1>2, <1>3, <3>1, <3>2
    <3> QED BY <1>1, <1>2, <3>2, <3>3
  <2> QED BY <2>1, <2>2
<1>5. \A m \in in_time' : m.n <= calls'
  BY <1>1, <1>2, <1>3 DEF Fresh
<1>6. ASSUME NEW id \in DOMAIN links', NEW m \in Within(links'[id].queue)
      PROVE  /\ m.n <= calls'
             /\ \A other \in DOMAIN links' : other # id => m \notin Within(links'[other].queue)
  <2>1. /\ m.n <= calls /\ m \in Msg
        /\ \A other \in DOMAIN links : other # id => m \notin Within(links[other].queue)
    BY <1>1, <1>2, <1>6 DEF Fresh
  <2> QED BY <1>1, <1>2, <1>3, <2>1
<1> QED BY <1>4, <1>5, <1>6 DEF Fresh

LEMMA FreshSend ==
  ASSUME ControlInv, Fresh, NEW s \in Senders, NEW id \in DOMAIN links, NEW msg \in to_send[s],
         Sends(s, id, msg), calls' = calls, in_time' = in_time
  PROVE  Fresh'
<1>1. to_send' = [to_send EXCEPT ![s] = {}] /\ to_send \in [Senders -> SUBSET Msg]
      /\ DOMAIN links' = DOMAIN links
      /\ Within(links'[id].queue) = Within(links[id].queue) \cup {msg}
  BY DEF Sends, ControlInv, ControlTypeOK
<1>w. \A other \in DOMAIN links : other # id => Within(links'[other].queue) = Within(links[other].queue)
  BY DEF Sends, Within
<1>2. /\ msg.n <= calls
      /\ \A other \in DOMAIN links : msg \notin Within(links[other].queue)
      /\ \A t \in Senders : t # s => msg \notin to_send[t]
  BY DEF Fresh
<1>3. ASSUME NEW t \in Senders, NEW m \in to_send'[t]
      PROVE  /\ m.n <= calls' /\ m \notin in_time'
             /\ \A other \in DOMAIN links' : m \notin Within(links'[other].queue)
             /\ \A u \in Senders : u # t => m \notin to_send'[u]
  <2>1. t # s /\ m \in to_send[t]
    BY <1>1, <1>3
  <2>2. /\ m.n <= calls /\ m \notin in_time /\ m # msg
        /\ \A other \in DOMAIN links : m \notin Within(links[other].queue)
        /\ \A u \in Senders : u # t => m \notin to_send[u]
    BY <1>2, <2>1 DEF Fresh
  <2>3. ASSUME NEW other \in DOMAIN links' PROVE m \notin Within(links'[other].queue)
    BY <1>1, <1>w, <2>2
  <2> QED BY <1>1, <2>2, <2>3
<1>4. \A m \in in_time' : m.n <= calls'
  BY DEF Fresh
<1>5. ASSUME NEW jd \in DOMAIN links', NEW m \in Within(links'[jd].queue)
      PROVE  /\ m.n <= calls'
             /\ \A other \in DOMAIN links' : other # jd => m \notin Within(links'[other].queue)
  <2>1. CASE m = msg
    <3>1. jd = id
      BY <1>1, <1>w, <1>2, <1>5, <2>1
    <3> QED BY <1>1, <1>w, <1>2, <2>1, <3>1
  <2>2. CASE m # msg
    <3>1. m \in Within(links[jd].queue) /\ jd \in DOMAIN links
      BY <1>1, <1>w, <1>5, <2>2
    <3>2. /\ m.n <= calls
          /\ \A other \in DOMAIN links : other # jd => m \notin Within(links[other].queue)
      BY <3>1 DEF Fresh
    <3> QED BY <1>1, <1>w, <2>2, <3>2
  <2> QED BY <2>1, <2>2
<1> QED BY <1>3, <1>4, <1>5 DEF Fresh

LEMMA FreshStep == ControlInv /\ Fresh /\ [ControlNext]_controlVars => Fresh'
<1> SUFFICES ASSUME ControlInv, Fresh, [ControlNext]_controlVars PROVE Fresh'
  OBVIOUS
<1>1. ASSUME NEW s \in Senders, NEW kind \in Kinds, NEW ts \in 0..MaxTime, Call(s, kind, ts)
      PROVE  Fresh'
  BY <1>1, FreshCall
<1>2. ASSUME NEW s \in Senders, Send(s)
      PROVE  Fresh'
  <2>1. /\ UNCHANGED <<calls, in_time>> /\ to_send' = [to_send EXCEPT ![s] = {}]
        /\ to_send \in [Senders -> SUBSET Msg] /\ got \in [Senders -> SUBSET DOMAIN links]
    BY <1>2, SendEffect DEF ControlInv, ControlTypeOK
  <2>2. CASE Quiet
    BY <2>1, <2>2, FreshQuiet
  <2>3. ASSUME NEW id \in got[s], NEW msg \in to_send[s], Sends(s, id, msg)
        PROVE  Fresh'
    <3>1. id \in DOMAIN links
      BY <2>1
    <3> QED BY <2>1, <2>3, <3>1, FreshSend
  <2> QED BY <1>2, <2>2, <2>3, SendQueues
<1>3. ASSUME NEW id \in todo, Visit(id) \/ DrainVisit(id)
      PROVE  Fresh'
  <2>1. id \in DOMAIN links /\ UNCHANGED <<calls, to_send, in_time>> /\ (Filed(id) \/ links' = links)
    BY <1>3, ReceiveEffect DEF clients
  <2>2. CASE Filed(id)
    <3>1. /\ DOMAIN links' = DOMAIN links /\ links[id].queue \in Seq(MsgOf(links[id].pid))
          /\ links[id].queue # <<>> /\ links'[id].queue = Tail(links[id].queue)
          /\ \A other \in DOMAIN links : other # id => links'[other] = links[other]
      <4>1. links[id] \in Link /\ links[id].queue \in Seq(MsgOf(links[id].pid))
        BY <2>1, Linked DEF ControlInv, ControlTypeOK, Owned
      <4> QED BY <2>1, <2>2, <4>1 DEF Filed, Link
    <3>2. Within(Tail(links[id].queue)) \subseteq Within(links[id].queue)
      BY <3>1, Taken
    <3>3. Within(links'[id].queue) \subseteq Within(links[id].queue)
      BY <3>1, <3>2
    <3>4. \A other \in DOMAIN links : other # id => Within(links'[other].queue) \subseteq Within(links[other].queue)
      BY <3>1
    <3> QED BY <2>1, <3>1, <3>3, <3>4, FreshLess
  <2>3. CASE links' = links
    BY <2>1, <2>3, FreshLess
  <2> QED BY <2>1, <2>2, <2>3
<1>4. CASE Stop
  <2>1. links' = links /\ UNCHANGED <<calls, to_send>>
        /\ in_time' = UNION {{links[id].queue[i] : i \in DOMAIN links[id].queue} : id \in connections}
        /\ connections \subseteq DOMAIN links
    BY <1>4 DEF Stop, clients, ControlInv, ControlTypeOK
  <2>2. \A m \in in_time' : \E id \in DOMAIN links : m \in Within(links[id].queue)
    BY <2>1 DEF Within
  <2> QED BY <2>1, <2>2, FreshLess
<1>5. CASE EndPass \/ EndDrainPass \/ FinishClose
  <2>1. Quiet /\ UNCHANGED <<calls, to_send, in_time>>
    BY <1>5, QuietServed DEF EndPass, EndDrainPass, FinishClose, readerElse, clients
  <2> QED BY <2>1, FreshQuiet
<1>6. CASE Poke
  <2>1. Quiet /\ UNCHANGED <<calls, to_send, in_time>>
    BY <1>6, QuietMade DEF Poke, clients
  <2> QED BY <2>1, FreshQuiet
<1>7. ASSUME NEW s \in Senders, Connect(s) \/ Reread(s)
      PROVE  Fresh'
  <2>2. /\ UNCHANGED <<calls, in_time, handled>>
        /\ \A t \in Senders : to_send'[t] \subseteq to_send[t]
    BY <1>7 DEF Connect, Reread, ControlInv, ControlTypeOK
  <2>3. Quiet
    <3>1. CASE links' = links
      BY <2>2, <3>1 DEF Quiet
    <3>2. CASE links' = Append(links, NewLink(s[1], TRUE))
      <4>1. s[1] \in Pids \cup {"gcmon"}
        BY DEF Senders
      <4> QED BY <2>2, <3>2, <4>1, QuietMade
    <3> QED BY <1>7, <3>1, <3>2 DEF Connect, Reread
  <2> QED BY <2>2, <2>3, FreshQuiet
<1>8. ASSUME NEW pid \in Pids, CloseClient(pid)
      PROVE  Fresh'
  <2>1. PICK id \in conn[pid] : links' = [links EXCEPT ![id] = [links[id] EXCEPT !.open = FALSE]]
    BY <1>8 DEF CloseClient
  <2>2. id \in DOMAIN links /\ UNCHANGED <<calls, to_send, in_time, handled>>
    BY <1>8 DEF CloseClient, ControlInv, ControlTypeOK
  <2> QED BY <2>1, <2>2, QuietClosed, FreshQuiet
<1>9. CASE \/ Monitor \/ UNCHANGED controlVars \/ AcceptThread \/ AcceptFails
           \/ BeginPass \/ BeginDrain
  <2>1. Quiet /\ UNCHANGED <<calls, to_send, in_time>>
    BY <1>9 DEF Monitor, controlVars, AcceptThread, Accept, AddConnection, AcceptFails, BeginPass,
       BeginDrain, readerElse, clients, Quiet
  <2> QED BY <2>1, FreshQuiet
<1> QED BY <1>1, <1>2, <1>3, <1>4, <1>5, <1>6, <1>7, <1>8, <1>9
       DEF ControlNext, Client, ReaderThread, MainThread

(***************************************************************************)
(* An end the reader has found is the end.                                 *)
(***************************************************************************)
OutsideStep ==
  /\ Outside
  /\ Quiet \/ \E s \in Senders, id \in DOMAIN links : \E msg \in to_send[s] : Sends(s, id, msg)

LEMMA EndsStay ==
  ASSUME ControlInv, Ends, NEW id \in DOMAIN links,
         \/ Quiet
         \/ \E s \in Senders, jd \in DOMAIN links : \E msg \in to_send[s] : Sends(s, jd, msg)
  PROVE  /\ id \in to_remove => links'[id].queue = <<>> /\ ~ links'[id].open
         /\ Readable(id) => Readable(id)'
<1>1. CASE Quiet
  BY <1>1 DEF Quiet, Ends, Readable
<1>2. ASSUME NEW s \in Senders, NEW jd \in DOMAIN links, NEW msg \in to_send[s], Sends(s, jd, msg)
      PROVE  /\ id \in to_remove => links'[id].queue = <<>> /\ ~ links'[id].open
             /\ Readable(id) => Readable(id)'
  BY <1>2 DEF Sends, Ends, Readable
<1> QED BY <1>1, <1>2

LEMMA EndsOutside ==
  ASSUME ControlInv, Ends, OutsideStep
  PROVE  Ends'
<1>1. UNCHANGED <<reader, todo, to_remove, any_data, closing>>
  BY DEF OutsideStep, Outside, readerThread
<1>2. to_remove \subseteq DOMAIN links /\ todo \subseteq DOMAIN links
  BY DEF ControlInv, ControlTypeOK
<1>3. \A id \in DOMAIN links :
        /\ id \in to_remove => links'[id].queue = <<>> /\ ~ links'[id].open
        /\ Readable(id) => Readable(id)'
  BY EndsStay DEF OutsideStep
<1>4. \A id \in to_remove' : links'[id].queue = <<>> /\ ~ links'[id].open
  BY <1>1, <1>2, <1>3
<1>5. reader' = "pass" => \A id \in todo' : Readable(id)'
  BY <1>1, <1>2, <1>3 DEF Ends
<1> QED BY <1>1, <1>4, <1>5 DEF Ends, ReaderJoined

LEMMA EndsReceive ==
  ASSUME ControlInv, Ends, NEW id \in todo, Visit(id) \/ DrainVisit(id)
  PROVE  Ends'
<1>1. /\ id \in DOMAIN links /\ todo' = todo \ {id} /\ UNCHANGED <<reader, closing>>
      /\ to_remove \subseteq DOMAIN links /\ todo \subseteq DOMAIN links
  BY ReceiveEffect DEF ControlInv, ControlTypeOK
<1>2. CASE Filed(id)
  <2>1. /\ \A other \in DOMAIN links : other # id => links'[other] = links[other]
        /\ to_remove' = to_remove /\ links[id].queue # <<>>
    BY <1>1, <1>2 DEF Filed
  <2>2. id \notin to_remove
    BY <2>1 DEF Ends
  <2>3. \A other \in to_remove' : links'[other].queue = <<>> /\ ~ links'[other].open
    BY <1>1, <2>1, <2>2 DEF Ends
  <2>4. reader' = "pass" => \A other \in todo' : Readable(other)'
    BY <1>1, <2>1 DEF Ends, Readable
  <2> QED BY <1>1, <2>3, <2>4 DEF Ends, ReaderJoined
<1>3. CASE links' = links
  <2>1. to_remove' \subseteq to_remove \cup {id}
        /\ (id \in to_remove' => id \in to_remove \/ (links[id].queue = <<>> /\ ~ links[id].open))
    <3>1. Filed(id) => to_remove' = to_remove
      BY DEF Filed
    <3>2. CASE Visit(id)
      <4>1. Readable(id)
        BY <3>2 DEF Visit, Ends
      <4> QED BY <3>1, <3>2, <4>1, ReceiveEffect DEF Readable
    <3>3. CASE DrainVisit(id)
      <4>1. CASE Readable(id)
        BY <3>1, <3>3, <4>1, ReceiveEffect DEF Readable
      <4>2. CASE ~ Readable(id)
        BY <3>3, <4>2 DEF DrainVisit
      <4> QED BY <4>1, <4>2
    <3> QED BY <3>2, <3>3
  <2>2. \A other \in to_remove' : links'[other].queue = <<>> /\ ~ links'[other].open
    BY <1>3, <2>1 DEF Ends
  <2>3. reader' = "pass" => \A other \in todo' : Readable(other)'
    BY <1>1, <1>3 DEF Ends, Readable
  <2> QED BY <1>1, <2>2, <2>3 DEF Ends, ReaderJoined
<1> QED BY <1>2, <1>3, ReceiveEffect

LEMMA EndsServer ==
  ASSUME ControlInv, Ends,
         BeginPass \/ BeginDrain \/ EndPass \/ EndDrainPass \/ Stop \/ Poke \/ FinishClose
  PROVE  Ends'
<1>1. CASE BeginPass
  <2>1. closing' = closing /\ closing = "open" /\ reader' = "pass" /\ todo' = Ready
        /\ UNCHANGED <<links, to_remove>>
    BY <1>1 DEF BeginPass, Stopping, readerElse
  <2> QED BY <2>1 DEF Ends, Ready, Readable
<1>2. CASE BeginDrain
  <2>1. closing' = closing /\ reader \in {"top", "again"} /\ reader' \in {"drain", "ended", "overdue"}
        /\ UNCHANGED <<links, to_remove>> /\ (reader = "top" => closing # "open")
    BY <1>2 DEF BeginDrain, Stopping, readerElse
  <2> QED BY <2>1 DEF Ends, ReaderJoined, Readable
<1>3. CASE EndPass \/ EndDrainPass
  <2>1. /\ closing' = closing /\ to_remove' = {}
        /\ \/ reader = "pass" /\ reader' = "top"
           \/ reader = "drain" /\ reader' \in {"again", "ended"}
    BY <1>3 DEF EndPass, EndDrainPass, RemoveConnections, readerElse
  <2> QED BY <2>1 DEF Ends, ReaderJoined
<1>4. CASE Stop
  BY <1>4 DEF Stop, readerThread, Ends, Readable
<1>5. CASE Poke \/ FinishClose
  <2>1. UNCHANGED <<reader, todo, to_remove>> /\ closing' \in {"poked", "closed"} /\ ReaderJoined
    BY <1>5 DEF Poke, FinishClose, readerThread, Ends
  <2>2. Quiet
    BY <1>5, QuietMade, QuietServed DEF Poke
  <2>3. to_remove \subseteq DOMAIN links
    BY DEF ControlInv, ControlTypeOK
  <2>4. \A id \in to_remove' : links'[id].queue = <<>> /\ ~ links'[id].open
    BY <2>1, <2>2, <2>3 DEF Ends, Quiet
  <2> QED BY <2>1, <2>4 DEF Ends, ReaderJoined
<1> QED BY <1>1, <1>2, <1>3, <1>4, <1>5

(***************************************************************************)
(* The drain looks at every connection that may hold something in time.    *)
(***************************************************************************)
LEMMA KeptOutside ==
  ASSUME ControlInv, Fresh, Kept, OutsideStep
  PROVE  Kept'
<1>1. /\ UNCHANGED <<reader, todo, to_remove, any_data, closing, in_time, handled>>
      /\ connections \subseteq connections' /\ connections \subseteq DOMAIN links
  BY DEF OutsideStep, Outside, readerThread, ControlInv, ControlTypeOK
<1>2. /\ DOMAIN links \subseteq DOMAIN links'
      /\ \A id \in DOMAIN links :
           /\ Within(links[id].queue) \subseteq Within(links'[id].queue)
           /\ Within(links'[id].queue) \cap in_time = Within(links[id].queue) \cap in_time
      /\ \A id \in DOMAIN links' : id \notin DOMAIN links => Within(links'[id].queue) = {}
  <2>1. CASE Quiet
    <3>1. \A id \in DOMAIN links : links'[id].queue = links[id].queue
      BY <2>1 DEF Quiet
    <3>2. \A id \in DOMAIN links' : id \notin DOMAIN links => Within(links'[id].queue) = {}
      BY <2>1 DEF Quiet, Within
    <3> QED BY <2>1, <3>1, <3>2 DEF Quiet
  <2>2. ASSUME NEW s \in Senders, NEW id \in DOMAIN links, NEW msg \in to_send[s], Sends(s, id, msg)
        PROVE  /\ DOMAIN links' = DOMAIN links
               /\ \A jd \in DOMAIN links :
                    /\ Within(links[jd].queue) \subseteq Within(links'[jd].queue)
                    /\ Within(links'[jd].queue) \cap in_time = Within(links[jd].queue) \cap in_time
    <3>1. msg \notin in_time
      BY DEF Fresh
    <3>2. /\ DOMAIN links' = DOMAIN links
          /\ \A other \in DOMAIN links : other # id => links'[other].queue = links[other].queue
          /\ Within(links'[id].queue) = Within(links[id].queue) \cup {msg}
      BY <2>2 DEF Sends
    <3>3. \A other \in DOMAIN links : other # id => Within(links'[other].queue) = Within(links[other].queue)
      BY <3>2
    <3> QED BY <3>1, <3>2, <3>3
  <2> QED BY <2>1, <2>2 DEF OutsideStep
<1>3. HandledMessages' = HandledMessages
  BY <1>1 DEF HandledMessages
<1>4. \A id \in DOMAIN links' : Seen(id)' /\ id \in DOMAIN links => Seen(id)
  BY <1>1 DEF Seen
<1>5. ASSUME closing # "closed"
      PROVE  /\ \A m \in in_time' : \/ m \in HandledMessages'
                                     \/ \E id \in connections' : m \in Within(links'[id].queue)
             /\ \A id \in DOMAIN links' : Seen(id)' => Within(links'[id].queue) \cap in_time' = {}
  <2>1. /\ \A m \in in_time :
             m \in HandledMessages \/ \E id \in connections : m \in Within(links[id].queue)
        /\ \A id \in DOMAIN links : Seen(id) => Within(links[id].queue) \cap in_time = {}
    BY <1>5 DEF Kept
  <2>2. \A m \in in_time' : \/ m \in HandledMessages'
                            \/ \E id \in connections' : m \in Within(links'[id].queue)
    BY <1>1, <1>2, <1>3, <2>1
  <2>3. \A id \in DOMAIN links' : Seen(id)' => Within(links'[id].queue) \cap in_time' = {}
    BY <1>1, <1>2, <1>4, <2>1
  <2> QED BY <2>2, <2>3
<1>6. reader' = "ended" => in_time' \subseteq HandledMessages'
  BY <1>1, <1>3 DEF Kept
<1> QED BY <1>1, <1>5, <1>6 DEF Kept

LEMMA KeptReceive ==
  ASSUME ControlInv, Ends, Kept, NEW id \in todo, Visit(id) \/ DrainVisit(id)
  PROVE  Kept'
<1>1. /\ id \in DOMAIN links /\ todo' = todo \ {id}
      /\ UNCHANGED <<connections, reader, in_time>> /\ connections \subseteq DOMAIN links
      /\ reader \in {"pass", "drain"}
      /\ reader = "drain" => any_data' = (any_data \/ links[id].queue # <<>>)
      /\ closing # "closed"
  BY ReceiveEffect DEF ControlInv, ControlTypeOK, Visit, DrainVisit, Ends, ReaderJoined
<1>2. /\ \A m \in in_time :
           m \in HandledMessages \/ \E jd \in connections : m \in Within(links[jd].queue)
      /\ \A jd \in DOMAIN links : Seen(jd) => Within(links[jd].queue) \cap in_time = {}
  BY <1>1 DEF Kept
<1>3. \A jd \in DOMAIN links :
        Seen(jd)' => Seen(jd) \/ (jd = id /\ links[id].queue = <<>>)
  BY <1>1 DEF Seen
<1>4. Within(<<>>) = {}
  BY DEF Within
<1>5. CASE Filed(id)
  <2> DEFINE msg == links[id].queue[1]
  <2>1. links[id].queue \in Seq(MsgOf(links[id].pid)) /\ links[id].queue # <<>> /\ links[id] \in Link
    BY <1>1, <1>5, Linked DEF Filed, ControlInv, ControlTypeOK, Owned
  <2>2. /\ DOMAIN links' = DOMAIN links /\ links'[id].queue = Tail(links[id].queue)
        /\ \A other \in DOMAIN links : other # id => links'[other] = links[other]
    BY <1>1, <1>5, <2>1 DEF Filed, Link
  <2>3. Within(links[id].queue) = Within(links'[id].queue) \cup {msg}
    <3>1. Within(links[id].queue) = Within(Tail(links[id].queue)) \cup {links[id].queue[1]}
      BY <2>1, Taken
    <3> QED BY <2>2, <3>1
  <2>4. \A other \in DOMAIN links : other # id => Within(links'[other].queue) = Within(links[other].queue)
    BY <2>2
  <2>5. HandledMessages' = HandledMessages \cup {msg}
    <3>1. /\ Len(handled') = Len(handled) + 1 /\ handled' \in Seq(Entry)
          /\ \A i \in 1..Len(handled) : handled'[i] = handled[i]
          /\ handled'[Len(handled) + 1].msg = msg
      <4>1. handled'[Len(handled) + 1] = [msg |-> links[id].queue[1], link |-> id,
                 process |-> At(links[id].queue[1].pid, links[id].queue[1].ts)]
        BY <1>1, <1>5, FiledOnward
      <4>2. handled'[Len(handled) + 1].msg = msg
        BY <4>1
      <4> QED BY <1>1, <1>5, <4>2, FiledOnward
    <3>2. Len(handled) \in Nat /\ DOMAIN handled = 1..Len(handled)
          /\ DOMAIN handled' = 1..(Len(handled) + 1)
      BY <3>1 DEF ControlInv, ControlTypeOK
    <3> HIDE DEF msg
    <3> QED BY <3>1, <3>2 DEF HandledMessages
  <2> HIDE DEF msg
  <2>6. \A m \in in_time' : \/ m \in HandledMessages'
                            \/ \E jd \in connections' : m \in Within(links'[jd].queue)
    <3> SUFFICES ASSUME NEW m \in in_time, m \notin HandledMessages, m # msg
                 PROVE  \E jd \in connections : m \in Within(links'[jd].queue)
      BY <1>1, <2>5
    <3>1. PICK jd \in connections : m \in Within(links[jd].queue)
      BY <1>2
    <3>2. m \in Within(links'[jd].queue)
      BY <1>1, <2>3, <2>4, <3>1
    <3> QED BY <3>1, <3>2
  <2>7. \A jd \in DOMAIN links' : Seen(jd)' => Within(links'[jd].queue) \cap in_time' = {}
    <3> SUFFICES ASSUME NEW jd \in DOMAIN links, Seen(jd)'
                 PROVE  Within(links'[jd].queue) \cap in_time = {}
      BY <1>1, <2>2
    <3>1. Seen(jd)
      BY <1>3, <2>1
    <3>2. Within(links'[jd].queue) \subseteq Within(links[jd].queue)
      BY <2>3, <2>4
    <3> QED BY <1>2, <3>1, <3>2
  <2> QED BY <1>1, <2>6, <2>7 DEF Kept
<1>6. CASE UNCHANGED <<links, handled>>
  <2>1. HandledMessages' = HandledMessages
    BY <1>6 DEF HandledMessages
  <2>2. \A m \in in_time' : \/ m \in HandledMessages'
                            \/ \E jd \in connections' : m \in Within(links'[jd].queue)
    BY <1>1, <1>2, <1>6, <2>1
  <2>3. \A jd \in DOMAIN links' : Seen(jd)' => Within(links'[jd].queue) \cap in_time' = {}
    <3> SUFFICES ASSUME NEW jd \in DOMAIN links, Seen(jd)'
                 PROVE  Within(links[jd].queue) \cap in_time = {}
      BY <1>1, <1>6
    <3>1. CASE Seen(jd)
      BY <1>2, <3>1
    <3>2. CASE links[jd].queue = <<>>
      BY <1>4, <3>2
    <3> QED BY <1>3, <3>1, <3>2
  <2> QED BY <1>1, <2>2, <2>3 DEF Kept
<1> QED BY <1>5, <1>6, ReceiveEffect

LEMMA KeptServer ==
  ASSUME ControlInv, Fresh, Ends, Kept,
         BeginPass \/ BeginDrain \/ EndPass \/ EndDrainPass \/ Stop \/ Poke \/ FinishClose
  PROVE  Kept'
<1>1. Within(<<>>) = {} /\ connections \subseteq DOMAIN links
  BY DEF Within, ControlInv, ControlTypeOK
<1>2. closing # "closed" =>
        /\ \A m \in in_time :
             m \in HandledMessages \/ \E id \in connections : m \in Within(links[id].queue)
        /\ \A id \in DOMAIN links : Seen(id) => Within(links[id].queue) \cap in_time = {}
  BY DEF Kept
<1>3. CASE BeginPass \/ BeginDrain
  <2>1. /\ UNCHANGED <<links, connections, closing, in_time, handled>> /\ closing # "closed"
        /\ \/ reader' \in {"pass", "overdue"}
           \/ reader' = "ended" /\ connections = {}
           \/ reader' = "drain" /\ todo' = connections
    BY <1>3 DEF BeginPass, BeginDrain, readerElse, Ends, ReaderJoined
  <2>2. HandledMessages' = HandledMessages
    BY <2>1 DEF HandledMessages
  <2>3. \A id \in DOMAIN links : Seen(id)' => Seen(id)
    BY <2>1 DEF Seen
  <2> QED BY <1>2, <2>1, <2>2, <2>3 DEF Kept
<1>4. CASE EndPass \/ EndDrainPass
  <2>1. /\ UNCHANGED <<closing, in_time, handled>> /\ connections' = connections \ to_remove
        /\ closing # "closed"
        /\ reader \in {"pass", "drain"} /\ reader' \in {"top", "again", "ended"}
        /\ reader' = "ended" => reader = "drain" /\ todo = {} /\ ~ any_data
    BY <1>4 DEF EndPass, EndDrainPass, RemoveConnections, readerElse, DrainGoesOn, Ends, ReaderJoined
  <2>2. HandledMessages' = HandledMessages
    BY <2>1 DEF HandledMessages
  <2>3. DOMAIN links' = DOMAIN links /\ \A id \in DOMAIN links : Within(links'[id].queue) = Within(links[id].queue)
    <3>1. DOMAIN links' = DOMAIN links /\ \A id \in DOMAIN links : links'[id].queue = links[id].queue
      BY <1>4, QuietServed DEF Quiet
    <3> QED BY <3>1
  <2>4. \A id \in to_remove : Within(links[id].queue) = {}
    BY <1>1 DEF Ends
  <2>5. reader' = "ended" => in_time \subseteq HandledMessages
    <3>1. reader' = "ended" => \A id \in connections : Within(links[id].queue) \cap in_time = {}
      BY <1>1, <1>2, <2>1 DEF Seen
    <3> QED BY <1>2, <2>1, <3>1
  <2>6. \A m \in in_time' : \/ m \in HandledMessages'
                            \/ \E id \in connections' : m \in Within(links'[id].queue)
    BY <1>1, <1>2, <2>1, <2>2, <2>3, <2>4
  <2>7. \A id \in DOMAIN links' : Seen(id)' => Within(links'[id].queue) \cap in_time' = {}
    <3> SUFFICES ASSUME NEW id \in DOMAIN links, Seen(id)'
                 PROVE  Within(links[id].queue) \cap in_time = {}
      BY <2>1, <2>3
    <3>1. Seen(id) \/ id \in to_remove
      BY <2>1 DEF Seen
    <3> QED BY <1>2, <2>1, <2>4, <3>1
  <2> QED BY <2>1, <2>2, <2>5, <2>6, <2>7 DEF Kept
<1>5. CASE Stop
  <2>1. /\ UNCHANGED <<links, connections, reader, todo, any_data, handled>> /\ reader \in {"top", "pass"}
        /\ in_time' = UNION {{links[id].queue[i] : i \in DOMAIN links[id].queue} : id \in connections}
    BY <1>5 DEF Stop, readerThread, Ends
  <2>2. in_time' = UNION {Within(links[id].queue) : id \in connections}
    BY <2>1 DEF Within
  <2>3. \A m \in in_time' : \E id \in connections' : m \in Within(links'[id].queue)
    BY <2>1, <2>2
  <2>4. \A id \in DOMAIN links' : Seen(id)' => Within(links'[id].queue) \cap in_time' = {}
    <3> SUFFICES ASSUME NEW id \in DOMAIN links, id \notin connections, NEW m \in Within(links[id].queue)
                 PROVE  m \notin in_time'
      BY <2>1 DEF Seen
    <3>1. \A other \in connections : m \notin Within(links[other].queue)
      BY <1>1 DEF Fresh
    <3> QED BY <2>2, <3>1
  <2> QED BY <2>1, <2>3, <2>4 DEF Kept
<1>6. CASE Poke
  <2>1. /\ UNCHANGED <<connections, reader, todo, any_data, in_time, handled>> /\ closing # "closed"
        /\ Quiet
    BY <1>6, QuietMade DEF Poke, readerThread
  <2>2. HandledMessages' = HandledMessages
    BY <2>1 DEF HandledMessages
  <2>3. /\ DOMAIN links \subseteq DOMAIN links'
        /\ \A id \in DOMAIN links : Within(links'[id].queue) = Within(links[id].queue)
        /\ \A id \in DOMAIN links' : id \notin DOMAIN links => Within(links'[id].queue) = {}
    BY <1>1, <2>1 DEF Quiet
  <2>4. \A id \in DOMAIN links : Seen(id)' => Seen(id)
    BY <2>1 DEF Seen
  <2> QED BY <1>1, <1>2, <2>1, <2>2, <2>3, <2>4 DEF Kept
<1>7. CASE FinishClose
  <2>1. UNCHANGED <<reader, in_time, handled>> /\ closing' = "closed"
    BY <1>7 DEF FinishClose, readerThread
  <2> QED BY <2>1 DEF Kept, HandledMessages
<1> QED BY <1>3, <1>4, <1>5, <1>6, <1>7

LEMMA DrainStep == ControlInv /\ DrainInv /\ [ControlNext]_controlVars => DrainInv'
<1> SUFFICES ASSUME ControlInv, DrainInv, [ControlNext]_controlVars PROVE DrainInv'
  OBVIOUS
<1>1. Fresh'
  BY FreshStep DEF DrainInv
<1>2. ASSUME NEW id \in todo, Visit(id) \/ DrainVisit(id)
      PROVE  Ends' /\ Kept'
  BY <1>2, EndsReceive, KeptReceive DEF DrainInv
<1>3. ASSUME BeginPass \/ BeginDrain \/ EndPass \/ EndDrainPass \/ Stop \/ Poke \/ FinishClose
      PROVE  Ends' /\ Kept'
  BY <1>3, EndsServer, KeptServer DEF DrainInv
<1>4. ASSUME \/ Monitor \/ UNCHANGED controlVars
             \/ \E s \in Senders, kind \in Kinds, ts \in 0..MaxTime : Call(s, kind, ts)
             \/ \E s \in Senders : Client(s)
             \/ \E pid \in Pids : CloseClient(pid)
             \/ AcceptThread \/ AcceptFails
      PROVE  Ends' /\ Kept'
  <2>1. OutsideStep
    BY <1>4, OutsideSteps DEF OutsideStep
  <2> QED BY <2>1, EndsOutside, KeptOutside DEF DrainInv
<1> QED BY <1>1, <1>2, <1>3, <1>4 DEF DrainInv, ControlNext, ReaderThread, MainThread

(***************************************************************************)
(* However a close() falls among passes, accepts, sends and disconnects,   *)
(* a message that a held connection was carrying at the stop is handled or *)
(* waits on a connection still held; a drain that its deadline does not    *)
(* cut short has handled them all.                                         *)
(***************************************************************************)
THEOREM DrainIsComplete == ControlSpec => []DrainLeavesNothing
<1>1. ControlInit => ControlInv /\ DrainInv
  BY ControlInvInit, DrainInvInit
<1>2. ControlInv /\ DrainInv /\ [ControlNext]_controlVars => (ControlInv /\ DrainInv)'
  BY ControlStep, DrainStep
<1>3. DrainInv => DrainLeavesNothing
  BY DEF DrainInv, Kept, DrainLeavesNothing, Within
<1> QED BY <1>1, <1>2, <1>3, PTL DEF ControlSpec

-----------------------------------------------------------------------------
(* The order of a connection: what was sent on it is handled or queued, and the *)
(* queue goes on where the handled messages end.                                *)

SentOnce ==
  /\ \A k \in DOMAIN sent :
       sent[k].msg.n <= calls /\ \A s \in Senders : sent[k].msg \notin to_send[s]
  /\ \A k, l \in DOMAIN sent : sent[k].msg = sent[l].msg => k = l

IsSent(m, id) == \E k \in DOMAIN sent : sent[k].msg = m /\ sent[k].link = id

Delivered ==
  \A k \in DOMAIN sent :
    /\ sent[k].link \in DOMAIN links
    /\ \/ \E i \in DOMAIN handled : SameMessage(handled[i], sent[k])
       \/ sent[k].msg \in Within(links[sent[k].link].queue)

Carried ==
  \A id \in DOMAIN links : \A m \in Within(links[id].queue) :
    IsSent(m, id) /\ m \notin HandledMessages

Lanes == Delivered /\ Carried

QueuedInOrder ==
  \A id \in DOMAIN links : \A p, q \in DOMAIN links[id].queue, k, l \in DOMAIN sent :
    (sent[k].msg = links[id].queue[p] /\ sent[l].msg = links[id].queue[q]) => (k < l <=> p < q)

(* A pid is told to stop when the last start or stop handled of it was a stop. *)
Order(j, pid) == handled[j].msg.pid = pid /\ handled[j].msg.kind # "mark"
LastIsStop(pid) ==
  \E j \in DOMAIN handled :
    /\ Order(j, pid) /\ handled[j].msg.kind = "stop"
    /\ \A i \in DOMAIN handled : Order(i, pid) => i <= j
Obeyed == closing # "closed" => \A pid \in Pids : pid \in stopped <=> LastIsStop(pid)

OrderInv == SentOnce /\ Lanes /\ QueuedInOrder /\ HandledInOrder /\ Obeyed

LEMMA OrderInit == ControlInit => OrderInv
<1> SUFFICES ASSUME ControlInit PROVE OrderInv
  OBVIOUS
<1>1. /\ sent = <<>> /\ handled = <<>> /\ links = <<>> /\ stopped = {} /\ closing = "open"
      /\ accepted = {}
  BY DEF ControlInit
<1>2. DOMAIN sent = {} /\ DOMAIN handled = {} /\ DOMAIN links = {}
  BY <1>1
<1>3. SentOnce /\ Lanes /\ QueuedInOrder /\ HandledInOrder
  BY <1>2 DEF SentOnce, Lanes, Delivered, Carried, QueuedInOrder, HandledInOrder
<1>4. Obeyed
  BY <1>1, <1>2 DEF Obeyed, LastIsStop
<1> QED BY <1>3, <1>4 DEF OrderInv

(* A step that sends and handles nothing. *)
Idles ==
  /\ Quiet /\ sent' = sent
  /\ stopped' = stopped \/ closing' = "closed"
  /\ calls <= calls'
  /\ \A s \in Senders : \A m \in to_send'[s] : m \in to_send[s] \/ m.n > calls

(* A message is put on a connection. *)
Puts(s, id, msg) ==
  /\ id \in DOMAIN links /\ msg \in to_send[s] /\ links[id].queue \in Seq(Msg)
  /\ DOMAIN links' = DOMAIN links
  /\ \A other \in DOMAIN links : other # id => links'[other].queue = links[other].queue
  /\ links'[id].queue = Append(links[id].queue, msg)
  /\ sent' = Append(sent, [msg |-> msg, link |-> id])
  /\ to_send' = [to_send EXCEPT ![s] = {}]
  /\ UNCHANGED <<calls, stopped, handled>>

(* A message is taken off a connection and handled. *)
TakesOff(id) ==
  /\ id \in DOMAIN links /\ Filed(id) /\ UNCHANGED <<sent, calls, to_send>>

LEMMA PutOrIdle ==
  ASSUME ControlInv, NEW s \in Senders, Send(s)
  PROVE  Idles \/ \E id \in got[s], msg \in to_send[s] : Puts(s, id, msg)
<1>1. PICK id \in got[s], msg \in to_send[s] :
        /\ id \in DOMAIN links /\ msg \in MsgOf(links[id].pid) /\ links[id].pid = s[1]
        /\ \/ UNCHANGED <<conn, links, sent>>
           \/ /\ links' = [links EXCEPT ![id] = [links[id] EXCEPT !.queue = Append(@, msg)]]
              /\ links[id].open /\ links[id].served
              /\ sent' = Append(sent, [msg |-> msg, link |-> id])
              /\ conn' = conn
           \/ /\ links' = [links EXCEPT ![id] = [links[id] EXCEPT !.open = FALSE]]
              /\ conn[s[1]] = got[s]
              /\ conn' = [conn EXCEPT ![s[1]] = {}]
              /\ sent' = sent
  BY SendEffect
<1>2. /\ to_send' = [to_send EXCEPT ![s] = {}] /\ UNCHANGED <<calls, stopped, handled, closing>>
      /\ to_send \in [Senders -> SUBSET Msg] /\ calls \in Nat
  BY SendEffect, Bounds DEF ControlInv, ControlTypeOK
<1>3. \A t \in Senders : to_send'[t] \subseteq to_send[t]
  BY <1>2
<1>4. CASE UNCHANGED <<links, sent>>
  BY <1>2, <1>3, <1>4 DEF Idles, Quiet
<1>5. CASE /\ links' = [links EXCEPT ![id] = [links[id] EXCEPT !.queue = Append(@, msg)]]
           /\ sent' = Append(sent, [msg |-> msg, link |-> id])
  <2>1. links[id] \in Link /\ links[id].queue \in Seq(Msg)
    BY <1>1, Linked DEF ControlInv, ControlTypeOK, Link
  <2>2. /\ DOMAIN links' = DOMAIN links /\ links'[id].queue = Append(links[id].queue, msg)
        /\ \A other \in DOMAIN links : other # id => links'[other].queue = links[other].queue
    BY <1>1, <1>5, <2>1 DEF Link
  <2> QED BY <1>1, <1>2, <1>5, <2>1, <2>2 DEF Puts
<1>6. CASE /\ links' = [links EXCEPT ![id] = [links[id] EXCEPT !.open = FALSE]]
           /\ sent' = sent
  <2>1. Quiet
    BY <1>1, <1>2, <1>6, QuietClosed
  <2> QED BY <1>2, <1>3, <1>6, <2>1 DEF Idles
<1> QED BY <1>1, <1>4, <1>5, <1>6

LEMMA OrderSteps ==
  ASSUME ControlInv, [ControlNext]_controlVars
  PROVE  \/ Idles
         \/ \E s \in Senders : \E id \in got[s], msg \in to_send[s] : Puts(s, id, msg)
         \/ \E id \in todo : TakesOff(id)
<1>0. calls \in Nat /\ to_send \in [Senders -> SUBSET Msg]
  BY Bounds DEF ControlInv, ControlTypeOK
<1>1. ASSUME NEW s \in Senders, NEW kind \in Kinds, NEW ts \in 0..MaxTime, Call(s, kind, ts)
      PROVE  Idles
  <2>1. /\ calls' = calls + 1 /\ UNCHANGED <<links, sent, stopped, handled>>
        /\ to_send' = [to_send EXCEPT ![s] =
             {[pid |-> s[1], kind |-> kind, ts |-> ts, n |-> calls + 1]}]
    BY <1>1 DEF Call
  <2>2. \A t \in Senders : \A m \in to_send'[t] : m \in to_send[t] \/ m.n > calls
    BY <1>0, <2>1
  <2> QED BY <1>0, <2>1, <2>2 DEF Idles, Quiet
<1>2. ASSUME NEW s \in Senders, Connect(s) \/ Reread(s)
      PROVE  Idles
  <2>1. /\ UNCHANGED <<calls, sent, stopped, handled>>
        /\ \A t \in Senders : to_send'[t] \subseteq to_send[t]
    BY <1>0, <1>2 DEF Connect, Reread
  <2>2. Quiet
    <3>1. CASE links' = links
      BY <2>1, <3>1 DEF Quiet
    <3>2. CASE links' = Append(links, NewLink(s[1], TRUE))
      <4>1. s[1] \in Pids \cup {"gcmon"}
        BY DEF Senders
      <4> QED BY <2>1, <3>2, <4>1, QuietMade
    <3> QED BY <1>2, <3>1, <3>2 DEF Connect, Reread
  <2> QED BY <1>0, <2>1, <2>2 DEF Idles
<1>3. ASSUME NEW pid \in Pids, CloseClient(pid)
      PROVE  Idles
  <2>1. PICK id \in conn[pid] : links' = [links EXCEPT ![id] = [links[id] EXCEPT !.open = FALSE]]
    BY <1>3 DEF CloseClient
  <2>2. id \in DOMAIN links /\ UNCHANGED <<calls, to_send, sent, stopped, handled>>
    BY <1>3 DEF CloseClient, ControlInv, ControlTypeOK
  <2>3. Quiet
    BY <2>1, <2>2, QuietClosed
  <2> QED BY <1>0, <2>2, <2>3 DEF Idles
<1>4. CASE EndPass \/ EndDrainPass \/ FinishClose
  <2>1. Quiet
    BY <1>4, QuietServed
  <2>2. UNCHANGED <<calls, to_send, sent>> /\ (stopped' = stopped \/ closing' = "closed")
    BY <1>4 DEF EndPass, EndDrainPass, FinishClose, readerElse, clients
  <2> QED BY <1>0, <2>1, <2>2 DEF Idles
<1>5. CASE Poke
  <2>1. Quiet /\ UNCHANGED <<calls, to_send, sent, stopped>>
    BY <1>5, QuietMade DEF Poke, clients
  <2> QED BY <1>0, <2>1 DEF Idles
<1>6. ASSUME NEW id \in todo, Visit(id) \/ DrainVisit(id)
      PROVE  Idles \/ TakesOff(id)
  <2>1. /\ id \in DOMAIN links /\ UNCHANGED <<sent, calls, to_send>>
        /\ Filed(id) \/ UNCHANGED <<links, stopped, handled>>
    BY <1>6, ReceiveEffect DEF clients
  <2> QED BY <1>0, <2>1 DEF Idles, TakesOff, Quiet
<1>7. CASE \/ Monitor \/ UNCHANGED controlVars \/ AcceptThread \/ AcceptFails
           \/ BeginPass \/ BeginDrain \/ Stop
  <2>1. UNCHANGED <<links, calls, to_send, sent, stopped, handled>>
    BY <1>7 DEF Monitor, controlVars, AcceptThread, Accept, AddConnection, AcceptFails, BeginPass,
       BeginDrain, Stop, readerElse, clients
  <2> QED BY <1>0, <2>1 DEF Idles, Quiet
<1>8. ASSUME NEW s \in Senders, Send(s)
      PROVE  Idles \/ \E id \in got[s], msg \in to_send[s] : Puts(s, id, msg)
  BY <1>8, PutOrIdle
<1> QED BY <1>1, <1>2, <1>3, <1>4, <1>5, <1>6, <1>7, <1>8
       DEF ControlNext, Client, ReaderThread, MainThread

LEMMA EntriesOf ==
  ASSUME NEW S, NEW s \in Seq(S)
  PROVE  Len(s) \in Nat /\ DOMAIN s = 1..Len(s) /\ \A i \in DOMAIN s : s[i] \in S
  OBVIOUS

LEMMA SentEntries ==
  ASSUME ControlInv
  PROVE  /\ sent \in Seq([msg : Msg, link : Nat]) /\ Len(sent) \in Nat /\ DOMAIN sent = 1..Len(sent)
         /\ \A k \in DOMAIN sent : sent[k].msg \in Msg
         /\ handled \in Seq(Entry) /\ Len(handled) \in Nat /\ DOMAIN handled = 1..Len(handled)
         /\ calls \in Nat /\ \A m \in Msg : m.n \in Nat
<1>1. sent \in Seq([msg : Msg, link : Nat]) /\ handled \in Seq(Entry) /\ calls \in Nat
  BY Bounds DEF ControlInv, ControlTypeOK
<1>2. \A k \in DOMAIN sent : sent[k] \in [msg : Msg, link : Nat]
  BY <1>1, EntriesOf
<1>3. \A k \in DOMAIN sent : sent[k].msg \in Msg
  BY <1>2
<1>4. Len(sent) \in Nat /\ DOMAIN sent = 1..Len(sent)
      /\ Len(handled) \in Nat /\ DOMAIN handled = 1..Len(handled)
  BY <1>1
<1>5. \A m \in Msg : m.n \in Nat
  BY DEF Msg
<1> QED BY <1>1, <1>3, <1>4, <1>5

LEMMA OrderIdles ==
  ASSUME ControlInv, ControlInv', OrderInv, Idles
  PROVE  SentOnce' /\ Lanes' /\ QueuedInOrder' /\ HandledInOrder'
<1>1. /\ sent' = sent /\ handled' = handled /\ calls <= calls' /\ calls \in Nat
      /\ DOMAIN links \subseteq DOMAIN links'
      /\ \A id \in DOMAIN links : links'[id].queue = links[id].queue
      /\ \A id \in DOMAIN links' : id \notin DOMAIN links => links'[id].queue = <<>>
      /\ HandledMessages' = HandledMessages
  BY SentEntries DEF Idles, Quiet, HandledMessages
<1>2. SentOnce'
  <2>1. ASSUME NEW k \in DOMAIN sent
        PROVE  sent[k].msg.n <= calls' /\ \A s \in Senders : sent[k].msg \notin to_send'[s]
    <3>1. sent[k].msg \in Msg /\ sent[k].msg.n \in Nat /\ sent[k].msg.n <= calls
          /\ \A s \in Senders : sent[k].msg \notin to_send[s]
      BY SentEntries DEF OrderInv, SentOnce
    <3>2. ASSUME NEW s \in Senders, sent[k].msg \in to_send'[s]
          PROVE  FALSE
      <4>1. sent[k].msg \in to_send[s] \/ sent[k].msg.n > calls
        BY <3>2 DEF Idles
      <4> QED BY <1>1, <3>1, <4>1
    <3>3. calls' \in Int => sent[k].msg.n <= calls'
      BY <1>1, <3>1
    <3>4. calls' \in Int
      BY Bounds DEF ControlInv, ControlTypeOK
    <3> QED BY <3>2, <3>3, <3>4
  <2> QED BY <1>1, <2>1 DEF OrderInv, SentOnce
<1>3. \A id \in DOMAIN links : Within(links'[id].queue) = Within(links[id].queue)
  BY <1>1
<1>4. \A id \in DOMAIN links' : id \notin DOMAIN links => Within(links'[id].queue) = {}
  BY <1>1 DEF Within
<1>5. Lanes'
  <2>1. ASSUME NEW k \in DOMAIN sent
        PROVE  /\ sent[k].link \in DOMAIN links'
               /\ \/ \E i \in DOMAIN handled : SameMessage(handled[i], sent[k])
                  \/ sent[k].msg \in Within(links'[sent[k].link].queue)
    <3>1. /\ sent[k].link \in DOMAIN links
          /\ \/ \E i \in DOMAIN handled : SameMessage(handled[i], sent[k])
             \/ sent[k].msg \in Within(links[sent[k].link].queue)
      BY DEF OrderInv, Lanes, Delivered, Carried
    <3> QED BY <1>1, <1>3, <3>1
  <2>2. ASSUME NEW id \in DOMAIN links', NEW m \in Within(links'[id].queue)
        PROVE  IsSent(m, id)' /\ m \notin HandledMessages'
    <3>1. id \in DOMAIN links /\ m \in Within(links[id].queue)
      BY <1>3, <1>4, <2>2
    <3>2. IsSent(m, id) /\ m \notin HandledMessages
      BY <3>1 DEF OrderInv, Lanes, Delivered, Carried
    <3> QED BY <1>1, <3>2 DEF IsSent
  <2>3. \A k \in DOMAIN sent, i \in DOMAIN handled :
          SameMessage(handled[i], sent[k])' <=> SameMessage(handled[i], sent[k])
    BY <1>1 DEF SameMessage
  <2> QED BY <1>1, <2>1, <2>2, <2>3 DEF Lanes, Delivered, Carried, SameMessage
<1>6. QueuedInOrder'
  <2> SUFFICES ASSUME NEW id \in DOMAIN links', NEW p \in DOMAIN links'[id].queue,
                      NEW q \in DOMAIN links'[id].queue, NEW k \in DOMAIN sent, NEW l \in DOMAIN sent,
                      sent[k].msg = links'[id].queue[p], sent[l].msg = links'[id].queue[q]
               PROVE  k < l <=> p < q
    BY <1>1 DEF QueuedInOrder
  <2>1. CASE id \in DOMAIN links
    BY <1>1, <2>1 DEF OrderInv, QueuedInOrder
  <2>2. CASE id \notin DOMAIN links
    <3>1. DOMAIN links'[id].queue = {}
      BY <1>1, <2>2
    <3> QED BY <3>1
  <2> QED BY <2>1, <2>2
<1>7. HandledInOrder'
  BY <1>1 DEF OrderInv, HandledInOrder, SameMessage
<1> QED BY <1>2, <1>5, <1>6, <1>7

LEMMA OrderPuts ==
  ASSUME ControlInv, Fresh, OrderInv, NEW s \in Senders, NEW id \in DOMAIN links,
         NEW msg \in to_send[s], Puts(s, id, msg)
  PROVE  SentOnce' /\ Lanes' /\ QueuedInOrder' /\ HandledInOrder'
<1> DEFINE N == Len(sent) + 1
           q == links[id].queue
<1>1. /\ q \in Seq(Msg) /\ DOMAIN links' = DOMAIN links
      /\ \A other \in DOMAIN links : other # id => links'[other].queue = links[other].queue
      /\ links'[id].queue = Append(q, msg)
      /\ sent' = Append(sent, [msg |-> msg, link |-> id])
      /\ to_send' = [to_send EXCEPT ![s] = {}] /\ to_send \in [Senders -> SUBSET Msg]
      /\ UNCHANGED <<calls, handled>>
      /\ HandledMessages' = HandledMessages
  BY DEF Puts, ControlInv, ControlTypeOK, HandledMessages
<1>2. /\ Len(sent) \in Nat /\ DOMAIN sent = 1..Len(sent) /\ DOMAIN sent' = 1..N
      /\ \A k \in DOMAIN sent : sent'[k] = sent[k]
      /\ sent'[N].msg = msg /\ sent'[N].link = id
  <2>1. sent \in Seq([msg : Msg, link : Nat]) /\ [msg |-> msg, link |-> id] \in [msg : Msg, link : Nat]
    <3>1. msg \in Msg /\ id \in Nat
      BY <1>1, Linked DEF ControlInv, ControlTypeOK
    <3> QED BY <3>1, SentEntries
  <2> DEFINE e == [msg |-> msg, link |-> id]
  <2>2. e.msg = msg /\ e.link = id
    OBVIOUS
  <2> HIDE DEF e
  <2>3. /\ Len(sent) \in Nat /\ DOMAIN sent = 1..Len(sent) /\ DOMAIN sent' = 1..N
        /\ \A k \in DOMAIN sent : sent'[k] = sent[k]
        /\ sent'[N] = e
    BY <1>1, <2>1 DEF e
  <2> QED BY <2>2, <2>3
<1>3. /\ Len(q) \in Nat /\ DOMAIN q = 1..Len(q) /\ DOMAIN links'[id].queue = 1..(Len(q) + 1)
      /\ \A p \in 1..Len(q) : links'[id].queue[p] = q[p]
      /\ links'[id].queue[Len(q) + 1] = msg
  BY <1>1
<1>4. /\ msg.n <= calls /\ \A t \in Senders : t # s => msg \notin to_send[t]
      /\ \A other \in DOMAIN links : msg \notin Within(links[other].queue)
  BY DEF Fresh
<1>5. \A k \in DOMAIN sent : sent[k].msg # msg
  BY DEF OrderInv, SentOnce
<1>6. \A i \in DOMAIN handled : handled[i].msg # msg
  BY <1>5 DEF OrderInv, HandledInOrder, SameMessage
<1>7. \A k \in DOMAIN sent' : k \in DOMAIN sent \/ k = N
  BY <1>2
<1>8. /\ N \notin DOMAIN sent /\ \A k \in DOMAIN sent : k < N
      /\ N \in DOMAIN sent' /\ \A k \in DOMAIN sent : k \in DOMAIN sent'
  BY <1>2
<1>9. /\ Within(links'[id].queue) = Within(links[id].queue) \cup {msg}
      /\ \A other \in DOMAIN links : other # id => Within(links'[other].queue) = Within(links[other].queue)
  <2>1. msg \in Msg
    BY <1>1
  <2>2. Within(Append(q, msg)) = Within(q) \cup {msg}
    BY <1>1, <2>1, Appended
  <2>3. \A other \in DOMAIN links : other # id => Within(links'[other].queue) = Within(links[other].queue)
    BY <1>1
  <2> QED BY <1>1, <2>2, <2>3
<1> HIDE DEF N, q
<1>10. SentOnce'
  <2>1. ASSUME NEW k \in DOMAIN sent'
        PROVE  sent'[k].msg.n <= calls /\ \A t \in Senders : sent'[k].msg \notin to_send'[t]
    <3>1. CASE k \in DOMAIN sent
      <4>1. sent'[k] = sent[k] /\ sent[k].msg.n <= calls
            /\ \A t \in Senders : sent[k].msg \notin to_send[t]
        BY <1>2, <3>1 DEF OrderInv, SentOnce
      <4> QED BY <1>1, <4>1
    <3>2. CASE k = N
      BY <1>1, <1>2, <1>4, <3>2
    <3> QED BY <1>7, <3>1, <3>2
  <2>2. ASSUME NEW k \in DOMAIN sent', NEW l \in DOMAIN sent', sent'[k].msg = sent'[l].msg
        PROVE  k = l
    BY <1>2, <1>5, <1>7, <2>2 DEF OrderInv, SentOnce
  <2> QED BY <1>1, <2>1, <2>2 DEF SentOnce
<1>11. Lanes'
  <2>1. ASSUME NEW k \in DOMAIN sent'
        PROVE  /\ sent'[k].link \in DOMAIN links
               /\ \/ \E i \in DOMAIN handled : SameMessage(handled[i], sent'[k])
                  \/ sent'[k].msg \in Within(links'[sent'[k].link].queue)
    <3>1. CASE k \in DOMAIN sent
      <4>1. /\ sent[k].link \in DOMAIN links
            /\ \/ \E i \in DOMAIN handled : SameMessage(handled[i], sent[k])
               \/ sent[k].msg \in Within(links[sent[k].link].queue)
        BY <3>1 DEF OrderInv, Lanes, Delivered, Carried
      <4> QED BY <1>2, <1>9, <3>1, <4>1
    <3>2. CASE k = N
      BY <1>2, <1>9, <3>2
    <3> QED BY <1>7, <3>1, <3>2
  <2>2. ASSUME NEW jd \in DOMAIN links, NEW m \in Within(links'[jd].queue)
        PROVE  /\ \E k \in DOMAIN sent' : sent'[k].msg = m /\ sent'[k].link = jd
               /\ m \notin HandledMessages
    <3>1. CASE m \in Within(links[jd].queue)
      <4>1. IsSent(m, jd) /\ m \notin HandledMessages
        BY <3>1 DEF OrderInv, Lanes, Delivered, Carried
      <4> QED BY <1>2, <1>8, <4>1 DEF IsSent
    <3>2. CASE m = msg /\ jd = id
      <4>1. msg \notin HandledMessages
        BY <1>6 DEF HandledMessages
      <4> QED BY <1>2, <1>8, <3>2, <4>1
    <3>3. m \in Within(links[jd].queue) \/ (m = msg /\ jd = id)
      <4>1. CASE jd = id
        BY <1>9, <2>2, <4>1
      <4>2. CASE jd # id
        BY <1>9, <2>2, <4>2
      <4> QED BY <4>1, <4>2
    <3> QED BY <3>1, <3>2, <3>3
  <2>3. Delivered'
    BY <1>1, <2>1 DEF Delivered, SameMessage
  <2>4. Carried'
    BY <1>1, <2>2 DEF Carried, IsSent
  <2> QED BY <2>3, <2>4 DEF Lanes
<1>12. QueuedInOrder'
  <2> SUFFICES ASSUME NEW jd \in DOMAIN links, NEW p \in DOMAIN links'[jd].queue,
                      NEW r \in DOMAIN links'[jd].queue, NEW k \in DOMAIN sent', NEW l \in DOMAIN sent',
                      sent'[k].msg = links'[jd].queue[p], sent'[l].msg = links'[jd].queue[r]
               PROVE  k < l <=> p < r
    BY <1>1 DEF QueuedInOrder
  <2>1. CASE jd # id
    <3>1. links'[jd].queue = links[jd].queue
      BY <1>1, <2>1
    <3>2. \A t \in DOMAIN links[jd].queue : links[jd].queue[t] # msg
      BY <1>4 DEF Within
    <3>3. k \in DOMAIN sent /\ l \in DOMAIN sent
      BY <1>2, <1>7, <3>1, <3>2
    <3> QED BY <1>2, <3>1, <3>3 DEF OrderInv, QueuedInOrder
  <2>2. CASE jd = id
    <3>1. \A t \in 1..Len(q) : q[t] # msg
      BY <1>3, <1>4 DEF Within, q
    <3>2. (p \in 1..Len(q) \/ p = Len(q) + 1) /\ (r \in 1..Len(q) \/ r = Len(q) + 1)
      BY <1>3, <2>2
    <3>3. /\ p \in 1..Len(q) <=> k \in DOMAIN sent
          /\ p = Len(q) + 1 <=> k = N
          /\ r \in 1..Len(q) <=> l \in DOMAIN sent
          /\ r = Len(q) + 1 <=> l = N
      <4>1. p \in 1..Len(q) => k \in DOMAIN sent /\ k # N
        BY <1>2, <1>3, <1>7, <1>8, <2>2, <3>1
      <4>2. p = Len(q) + 1 => k = N /\ k \notin DOMAIN sent
        BY <1>2, <1>3, <1>5, <1>7, <1>8, <2>2
      <4>3. r \in 1..Len(q) => l \in DOMAIN sent /\ l # N
        BY <1>2, <1>3, <1>7, <1>8, <2>2, <3>1
      <4>4. r = Len(q) + 1 => l = N /\ l \notin DOMAIN sent
        BY <1>2, <1>3, <1>5, <1>7, <1>8, <2>2
      <4> QED BY <3>2, <4>1, <4>2, <4>3, <4>4
    <3>4. CASE p \in 1..Len(q) /\ r \in 1..Len(q)
      <4>1. sent[k].msg = q[p] /\ sent[l].msg = q[r] /\ k \in DOMAIN sent /\ l \in DOMAIN sent
            /\ p \in DOMAIN q /\ r \in DOMAIN q
        BY <1>2, <1>3, <2>2, <3>3, <3>4
      <4> QED BY <2>2, <4>1 DEF OrderInv, QueuedInOrder, q
    <3>5. CASE p = Len(q) + 1 \/ r = Len(q) + 1
      BY <1>2, <1>3, <1>8, <3>2, <3>3, <3>5 DEF N
    <3> QED BY <3>2, <3>4, <3>5
  <2> QED BY <2>1, <2>2
<1>13. HandledInOrder'
  <2>1. ASSUME NEW i \in DOMAIN handled
        PROVE  \E k \in DOMAIN sent' : SameMessage(handled[i], sent'[k])
    <3>1. PICK k \in DOMAIN sent : SameMessage(handled[i], sent[k])
      BY DEF OrderInv, HandledInOrder
    <3> QED BY <1>2, <1>8, <3>1
  <2>2. ASSUME NEW k \in DOMAIN sent', NEW l \in DOMAIN sent', NEW j \in DOMAIN handled,
               k < l, sent'[k].link = sent'[l].link, SameMessage(handled[j], sent'[l])
        PROVE  \E i \in 1..(j - 1) : SameMessage(handled[i], sent'[k])
    <3>1. l \in DOMAIN sent
      BY <1>2, <1>6, <1>7, <2>2 DEF SameMessage
    <3>2. k \in DOMAIN sent
      BY <1>2, <1>7, <2>2, <3>1 DEF N
    <3> QED BY <1>2, <2>2, <3>1, <3>2 DEF OrderInv, HandledInOrder
  <2>3. \A i, j \in DOMAIN handled : handled[i].msg = handled[j].msg => i = j
    BY DEF OrderInv, HandledInOrder
  <2> QED BY <1>1, <2>1, <2>2, <2>3 DEF HandledInOrder, SameMessage
<1> QED BY <1>10, <1>11, <1>12, <1>13

LEMMA OrderTakes ==
  ASSUME ControlInv, OrderInv, NEW id \in todo, TakesOff(id)
  PROVE  SentOnce' /\ Lanes' /\ QueuedInOrder' /\ HandledInOrder'
<1> DEFINE N == Len(handled) + 1
           q == links[id].queue
           msg == q[1]
<1>1. /\ id \in DOMAIN links /\ Filed(id) /\ UNCHANGED <<sent, calls, to_send>>
  BY DEF TakesOff
<1>2. /\ q \in Seq(Msg) /\ q # <<>> /\ DOMAIN links' = DOMAIN links /\ links'[id].queue = Tail(q)
      /\ \A other \in DOMAIN links : other # id => links'[other].queue = links[other].queue
  <2>1. links[id] \in Link /\ links[id].queue \in Seq(Msg)
    BY <1>1, Linked DEF ControlInv, ControlTypeOK, Link
  <2> QED BY <1>1, <2>1 DEF Filed, Link
<1>3. /\ Len(handled) \in Nat /\ DOMAIN handled = 1..Len(handled) /\ DOMAIN handled' = 1..N
      /\ \A i \in DOMAIN handled : handled'[i] = handled[i]
      /\ handled'[N].msg = msg /\ handled'[N].link = id
  <2>1. /\ handled' \in Seq(Entry) /\ Len(handled') = Len(handled) + 1
        /\ \A i \in 1..Len(handled) : handled'[i] = handled[i]
        /\ handled'[N] = [msg |-> msg, link |-> id, process |-> At(msg.pid, msg.ts)]
    BY <1>1, FiledOnward
  <2>2. handled'[N].msg = msg /\ handled'[N].link = id
    BY <2>1
  <2> HIDE DEF msg
  <2> QED BY <2>1, <2>2, SentEntries, EntriesOf
<1>4. /\ Len(q) \in Nat /\ DOMAIN q = 1..Len(q) /\ 1 \in DOMAIN q
      /\ DOMAIN links'[id].queue = 1..(Len(q) - 1)
      /\ \A p \in 1..(Len(q) - 1) : links'[id].queue[p] = q[p + 1] /\ p + 1 \in DOMAIN q
  BY <1>2
<1>5. PICK l \in DOMAIN sent : sent[l].msg = msg /\ sent[l].link = id
  <2>1. msg \in Within(links[id].queue)
    BY <1>4 DEF Within
  <2> QED BY <1>1, <2>1 DEF OrderInv, Lanes, Delivered, Carried, IsSent
<1>6. \A i \in DOMAIN handled : handled[i].msg # msg
  <2>1. msg \in Within(links[id].queue)
    BY <1>4 DEF Within
  <2>2. msg \notin HandledMessages
    BY <1>1, <2>1 DEF OrderInv, Lanes, Delivered, Carried
  <2> QED BY <2>2 DEF HandledMessages
<1>7. /\ \A i \in DOMAIN handled' : i \in DOMAIN handled \/ i = N
      /\ N \notin DOMAIN handled /\ \A i \in DOMAIN handled : i < N
      /\ N \in DOMAIN handled' /\ \A i \in DOMAIN handled : i \in DOMAIN handled'
  BY <1>3
<1>8. HandledMessages' = HandledMessages \cup {msg}
  <2> HIDE DEF N, msg
  <2> QED BY <1>3, <1>7 DEF HandledMessages
<1>9. /\ \A other \in DOMAIN links : other # id => Within(links'[other].queue) = Within(links[other].queue)
      /\ Within(links[id].queue) = Within(links'[id].queue) \cup {msg}
  BY <1>2, Taken
(* The first of a queue is not in it again, nor on another connection. *)
<1>10. \A jd \in DOMAIN links : msg \notin Within(links'[jd].queue)
  <2> SUFFICES ASSUME NEW jd \in DOMAIN links, msg \in Within(links'[jd].queue) PROVE FALSE
    OBVIOUS
  <2>1. CASE jd # id
    <3>1. msg \in Within(links[jd].queue)
      BY <1>9, <2>1
    <3>2. PICK k \in DOMAIN sent : sent[k].msg = msg /\ sent[k].link = jd
      BY <3>1 DEF OrderInv, Lanes, Delivered, Carried, IsSent
    <3> QED BY <1>5, <2>1, <3>2 DEF OrderInv, SentOnce
  <2>2. CASE jd = id
    <3>1. PICK p \in 1..(Len(q) - 1) : msg = q[p + 1]
      BY <1>4, <2>2 DEF Within
    <3>2. p + 1 \in DOMAIN q /\ 1 < p + 1
      BY <1>4
    <3>3. l < l <=> 1 < p + 1
      BY <1>1, <1>4, <1>5, <3>1, <3>2 DEF OrderInv, QueuedInOrder
    <3> QED BY <1>5, <3>2, <3>3, SentEntries
  <2> QED BY <2>1, <2>2
<1> HIDE DEF N, msg, q
<1>11. SentOnce'
  BY <1>1 DEF OrderInv, SentOnce
<1>12. Lanes'
  <2>1. ASSUME NEW k \in DOMAIN sent
        PROVE  /\ sent[k].link \in DOMAIN links
               /\ \/ \E i \in DOMAIN handled' : SameMessage(handled'[i], sent[k])
                  \/ sent[k].msg \in Within(links'[sent[k].link].queue)
    <3>1. /\ sent[k].link \in DOMAIN links
          /\ \/ \E i \in DOMAIN handled : SameMessage(handled[i], sent[k])
             \/ sent[k].msg \in Within(links[sent[k].link].queue)
      BY DEF OrderInv, Lanes, Delivered, Carried
    <3>2. CASE \E i \in DOMAIN handled : SameMessage(handled[i], sent[k])
      BY <1>3, <1>7, <3>1, <3>2
    <3>3. CASE sent[k].msg \in Within(links[sent[k].link].queue)
      <4>1. CASE sent[k].msg \in Within(links'[sent[k].link].queue)
        BY <3>1, <4>1
      <4>2. CASE sent[k].msg = msg /\ sent[k].link = id
        <5>1. SameMessage(handled'[N], sent[k])
          BY <1>3, <4>2 DEF SameMessage
        <5> QED BY <1>7, <3>1, <5>1
      <4> QED BY <1>9, <3>1, <3>3, <4>1, <4>2
    <3> QED BY <3>1, <3>2, <3>3
  <2>2. ASSUME NEW jd \in DOMAIN links, NEW m \in Within(links'[jd].queue)
        PROVE  IsSent(m, jd) /\ m \notin HandledMessages'
    <3>1. m \in Within(links[jd].queue) /\ m # msg
      <4>1. CASE jd = id
        BY <1>9, <1>10, <2>2, <4>1
      <4>2. CASE jd # id
        BY <1>9, <1>10, <2>2, <4>2
      <4> QED BY <4>1, <4>2
    <3>2. IsSent(m, jd) /\ m \notin HandledMessages
      BY <3>1 DEF OrderInv, Lanes, Delivered, Carried
    <3> QED BY <1>8, <3>1, <3>2
  <2>3. Delivered'
    BY <1>1, <1>2, <2>1 DEF Delivered, SameMessage
  <2>4. Carried'
    BY <1>1, <1>2, <2>2 DEF Carried, IsSent
  <2> QED BY <2>3, <2>4 DEF Lanes
<1>13. QueuedInOrder'
  <2> SUFFICES ASSUME NEW jd \in DOMAIN links, NEW p \in DOMAIN links'[jd].queue,
                      NEW r \in DOMAIN links'[jd].queue, NEW k \in DOMAIN sent, NEW m \in DOMAIN sent,
                      sent[k].msg = links'[jd].queue[p], sent[m].msg = links'[jd].queue[r]
               PROVE  k < m <=> p < r
    BY <1>1, <1>2 DEF QueuedInOrder
  <2>1. CASE jd # id
    BY <1>2, <2>1 DEF OrderInv, QueuedInOrder
  <2>2. CASE jd = id
    <3>1. /\ p \in 1..(Len(q) - 1) /\ r \in 1..(Len(q) - 1)
          /\ sent[k].msg = q[p + 1] /\ sent[m].msg = q[r + 1]
          /\ p + 1 \in DOMAIN q /\ r + 1 \in DOMAIN q
      BY <1>4, <2>2
    <3>2. k < m <=> p + 1 < r + 1
      BY <2>2, <3>1 DEF OrderInv, QueuedInOrder, q
    <3> QED BY <1>4, <3>1, <3>2
  <2> QED BY <2>1, <2>2
<1>14. HandledInOrder'
  <2>1. \A i, j \in DOMAIN handled' : handled'[i].msg = handled'[j].msg => i = j
    <3> SUFFICES ASSUME NEW i \in DOMAIN handled', NEW j \in DOMAIN handled',
                        handled'[i].msg = handled'[j].msg
                 PROVE  i = j
      OBVIOUS
    <3>1. CASE i = N \/ j = N
      BY <1>3, <1>6, <1>7, <3>1
    <3>2. CASE i \in DOMAIN handled /\ j \in DOMAIN handled
      BY <1>3, <3>2 DEF OrderInv, HandledInOrder
    <3> QED BY <1>7, <3>1, <3>2
  <2>2. ASSUME NEW i \in DOMAIN handled'
        PROVE  \E k \in DOMAIN sent : SameMessage(handled'[i], sent[k])
    <3>1. CASE i = N
      BY <1>3, <1>5, <3>1 DEF SameMessage
    <3>2. CASE i \in DOMAIN handled
      BY <1>3, <3>2 DEF OrderInv, HandledInOrder
    <3> QED BY <1>7, <3>1, <3>2
  <2>3. ASSUME NEW k \in DOMAIN sent, NEW m \in DOMAIN sent, NEW j \in DOMAIN handled',
               k < m, sent[k].link = sent[m].link, SameMessage(handled'[j], sent[m])
        PROVE  \E i \in 1..(j - 1) : SameMessage(handled'[i], sent[k])
    <3>1. CASE j \in DOMAIN handled
      <4>1. PICK i \in 1..(j - 1) : SameMessage(handled[i], sent[k])
        BY <1>3, <2>3, <3>1 DEF OrderInv, HandledInOrder
      <4>2. i \in DOMAIN handled
        BY <1>3, <3>1, <4>1
      <4> QED BY <1>3, <4>1, <4>2
    <3>2. CASE j = N
      <4>1. m = l /\ sent[k].link = id
        BY <1>3, <1>5, <2>3, <3>2 DEF SameMessage, OrderInv, SentOnce
      <4>2. ~(sent[k].msg \in Within(links[id].queue))
        <5> SUFFICES ASSUME NEW p \in DOMAIN links[id].queue, sent[k].msg = links[id].queue[p]
                     PROVE  FALSE
          BY DEF Within
        <5>1. sent[l].msg = links[id].queue[1] /\ 1 \in DOMAIN links[id].queue
          BY <1>4, <1>5 DEF q, msg
        <5>2. k < l <=> p < 1
          BY <1>1, <5>1 DEF OrderInv, QueuedInOrder
        <5>3. p \in Nat /\ p >= 1
          BY <1>4 DEF q
        <5> QED BY <2>3, <4>1, <5>2, <5>3
      <4>3. PICK i \in DOMAIN handled : SameMessage(handled[i], sent[k])
        BY <4>1, <4>2 DEF OrderInv, Lanes, Delivered, Carried
      <4>4. i \in 1..(j - 1)
        BY <1>3, <3>2, <4>3 DEF N
      <4> QED BY <1>3, <4>3, <4>4
    <3> QED BY <1>7, <3>1, <3>2
  <2> QED BY <1>1, <2>1, <2>2, <2>3 DEF HandledInOrder
<1> QED BY <1>11, <1>12, <1>13, <1>14

LEMMA HandledNext ==
  ASSUME ControlInv, NEW id \in todo, TakesOff(id)
  PROVE  \E msg \in Msg :
           /\ stopped' = StoppedBy(msg)
           /\ Len(handled) + 1 \in DOMAIN handled' /\ handled'[Len(handled) + 1].msg = msg
           /\ DOMAIN handled' = DOMAIN handled \cup {Len(handled) + 1}
           /\ \A i \in DOMAIN handled : i < Len(handled) + 1 /\ handled'[i] = handled[i]
<1> DEFINE msg == links[id].queue[1]
<1>1. /\ handled' \in Seq(Entry) /\ Len(handled') = Len(handled) + 1
      /\ \A i \in 1..Len(handled) : handled'[i] = handled[i]
      /\ handled'[Len(handled) + 1] = [msg |-> msg, link |-> id, process |-> At(msg.pid, msg.ts)]
  BY FiledOnward DEF TakesOff
<1>2. handled'[Len(handled) + 1].msg = msg
  BY <1>1
<1>3. Len(handled) \in Nat /\ DOMAIN handled = 1..Len(handled) /\ DOMAIN handled' = 1..(Len(handled) + 1)
  BY <1>1, SentEntries, EntriesOf
<1>4. msg \in Msg /\ stopped' = StoppedBy(msg)
  BY DEF TakesOff, Filed, MsgOf
<1> HIDE DEF msg
<1>5. /\ Len(handled) + 1 \in DOMAIN handled'
      /\ DOMAIN handled' = DOMAIN handled \cup {Len(handled) + 1}
      /\ \A i \in DOMAIN handled : i < Len(handled) + 1 /\ handled'[i] = handled[i]
  BY <1>1, <1>3
<1> QED BY <1>2, <1>4, <1>5

LEMMA ObeyedHandles ==
  ASSUME ControlInv, Obeyed, closing' # "closed" => closing # "closed", NEW id \in todo, TakesOff(id)
  PROVE  Obeyed'
<1>0. PICK N : N = Len(handled) + 1
  OBVIOUS
<1>1. PICK msg \in Msg :
        /\ stopped' = StoppedBy(msg) /\ N \in DOMAIN handled' /\ handled'[N].msg = msg
        /\ DOMAIN handled' = DOMAIN handled \cup {N}
        /\ \A i \in DOMAIN handled : i < N /\ handled'[i] = handled[i]
  BY <1>0, HandledNext
<1>2. N \in Nat /\ \A i \in DOMAIN handled : i \in Nat
  BY <1>0, SentEntries
<1>3. msg.kind \in Kinds /\ "start" # "stop" /\ "mark" # "stop" /\ "start" # "mark"
  BY DEF Msg
<1>4. ASSUME NEW pid \in Pids, closing # "closed"
      PROVE  pid \in stopped' <=> LastIsStop(pid)'
  <2>1. pid \in stopped <=> LastIsStop(pid)
    BY <1>4 DEF Obeyed
  <2>2. \A i \in DOMAIN handled : Order(i, pid)' <=> Order(i, pid)
    BY <1>1 DEF Order
  <2>3. Order(N, pid)' <=> msg.pid = pid /\ msg.kind # "mark"
    <3>1. Order(N, pid)' <=> handled'[N].msg.pid = pid /\ handled'[N].msg.kind # "mark"
      BY DEF Order
    <3> QED BY <1>1, <3>1
  <2>4. CASE msg.pid = pid /\ msg.kind # "mark"
    <3>1. pid \in stopped' <=> msg.kind = "stop"
      BY <1>1, <1>3, <2>4 DEF StoppedBy, Kinds
    <3>2. LastIsStop(pid)' <=> msg.kind = "stop"
      <4>1. ASSUME msg.kind = "stop" PROVE LastIsStop(pid)'
        <5>1. \A i \in DOMAIN handled' : i <= N
          BY <1>1, <1>2
        <5>2. N \in DOMAIN handled' /\ Order(N, pid)' /\ handled'[N].msg.kind = "stop"
          BY <1>1, <2>3, <2>4, <4>1
        <5> QED BY <5>1, <5>2 DEF LastIsStop, Order
      <4>2. ASSUME LastIsStop(pid)' PROVE msg.kind = "stop"
        <5>1. PICK j \in DOMAIN handled' :
                /\ handled'[j].msg.kind = "stop"
                /\ \A i \in DOMAIN handled' : Order(i, pid)' => i <= j
          BY <4>2 DEF LastIsStop, Order
        <5>2. N <= j
          BY <1>1, <2>3, <2>4, <5>1
        <5>3. j = N
          BY <1>1, <1>2, <5>2
        <5> QED BY <1>1, <5>1, <5>3
      <4> QED BY <4>1, <4>2
    <3> QED BY <3>1, <3>2
  <2>5. CASE ~(msg.pid = pid /\ msg.kind # "mark")
    <3>1. pid \in stopped' <=> pid \in stopped
      BY <1>1, <1>3, <2>5 DEF StoppedBy, Kinds
    <3>2. LastIsStop(pid)' <=> LastIsStop(pid)
      <4>1. ASSUME LastIsStop(pid) PROVE LastIsStop(pid)'
        <5>1. PICK j \in DOMAIN handled :
                /\ Order(j, pid) /\ handled[j].msg.kind = "stop"
                /\ \A i \in DOMAIN handled : Order(i, pid) => i <= j
          BY <4>1 DEF LastIsStop
        <5>2. /\ j \in DOMAIN handled' /\ Order(j, pid)' /\ handled'[j].msg.kind = "stop"
              /\ \A i \in DOMAIN handled' : Order(i, pid)' => i <= j
          BY <1>1, <2>2, <2>3, <2>5, <5>1
        <5> QED BY <5>2 DEF LastIsStop, Order
      <4>2. ASSUME LastIsStop(pid)' PROVE LastIsStop(pid)
        <5>1. PICK j \in DOMAIN handled' :
                /\ Order(j, pid)' /\ handled'[j].msg.kind = "stop"
                /\ \A i \in DOMAIN handled' : Order(i, pid)' => i <= j
          BY <4>2 DEF LastIsStop, Order
        <5>2. /\ j \in DOMAIN handled /\ Order(j, pid) /\ handled[j].msg.kind = "stop"
              /\ \A i \in DOMAIN handled : Order(i, pid) => i <= j
          BY <1>1, <2>2, <2>3, <2>5, <5>1
        <5> QED BY <5>2 DEF LastIsStop
      <4> QED BY <4>1, <4>2
    <3> QED BY <2>1, <3>1, <3>2
  <2> QED BY <2>4, <2>5
<1> QED BY <1>4 DEF Obeyed

LEMMA ClosedForGood ==
  ASSUME [ControlNext]_controlVars, closing' # "closed"
  PROVE  closing # "closed"
BY DEF ControlNext, Monitor, Call, Client, Connect, Reread, Send, CloseClient, AcceptThread, Accept,
   AddConnection, AcceptFails, ReaderThread, BeginPass, EndPass, BeginDrain, EndDrainPass, Visit,
   DrainVisit, Stop, MainThread, Poke, FinishClose, readerElse, controlVars

LEMMA OrderStep ==
  ControlInv /\ ControlInv' /\ Fresh /\ OrderInv /\ [ControlNext]_controlVars => OrderInv'
<1> SUFFICES ASSUME ControlInv, ControlInv', Fresh, OrderInv, [ControlNext]_controlVars
             PROVE  OrderInv'
  OBVIOUS
<1>1. closing' # "closed" => closing # "closed"
  BY ClosedForGood
<1>2. ASSUME handled' = handled, stopped' = stopped \/ closing' = "closed"
      PROVE  Obeyed'
  <2>1. \A pid \in Pids : LastIsStop(pid)' <=> LastIsStop(pid)
    BY <1>2 DEF LastIsStop, Order
  <2> QED BY <1>1, <1>2, <2>1 DEF OrderInv, Obeyed
<1>3. CASE Idles
  BY <1>2, <1>3, OrderIdles DEF OrderInv, Idles, Quiet
<1>4. ASSUME NEW s \in Senders, NEW id \in got[s], NEW msg \in to_send[s], Puts(s, id, msg)
      PROVE  OrderInv'
  <2>1. id \in DOMAIN links /\ handled' = handled /\ stopped' = stopped
    BY <1>4 DEF Puts
  <2>2. SentOnce' /\ Lanes' /\ QueuedInOrder' /\ HandledInOrder'
    BY <1>4, <2>1, OrderPuts
  <2>3. Obeyed'
    BY <1>2, <2>1
  <2> QED BY <2>2, <2>3 DEF OrderInv
<1>5. ASSUME NEW id \in todo, TakesOff(id)
      PROVE  OrderInv'
  <2>1. SentOnce' /\ Lanes' /\ QueuedInOrder' /\ HandledInOrder'
    BY <1>5, OrderTakes
  <2>2. Obeyed'
    BY <1>1, <1>5, ObeyedHandles DEF OrderInv
  <2> QED BY <2>1, <2>2 DEF OrderInv
<1> QED BY <1>3, <1>4, <1>5, OrderSteps

LEMMA OrderInvariance == ControlSpec => [](ControlInv /\ DrainInv /\ OrderInv)
<1>1. ControlInit => ControlInv /\ DrainInv /\ OrderInv
  BY ControlInvInit, DrainInvInit, OrderInit
<1>2. ControlInv /\ DrainInv /\ OrderInv /\ [ControlNext]_controlVars
        => (ControlInv /\ DrainInv /\ OrderInv)'
  <2> SUFFICES ASSUME ControlInv, DrainInv, OrderInv, [ControlNext]_controlVars
               PROVE  ControlInv' /\ DrainInv' /\ OrderInv'
    OBVIOUS
  <2>1. ControlInv' /\ DrainInv'
    BY ControlStep, DrainStep
  <2>2. Fresh
    BY DEF DrainInv
  <2>3. OrderInv'
    BY <2>1, <2>2, OrderStep
  <2> QED BY <2>1, <2>3
<1> QED BY <1>1, <1>2, PTL DEF ControlSpec

(***************************************************************************)
(* ControlServer handles what a connection carries in the order the        *)
(* threads of a client sent it, each message once and none skipped, however*)
(* passes, the drain and a close fall among the sends.                     *)
(***************************************************************************)
THEOREM MessagesInOrder == ControlSpec => []HandledInOrder
<1>1. OrderInv => HandledInOrder
  BY DEF OrderInv
<1> QED BY <1>1, OrderInvariance, PTL

(* The last of some places in a sequence. *)
LEMMA LargestIndex ==
  ASSUME NEW n \in Nat, NEW S, S \subseteq 1..n, S # {}
  PROVE  \E m \in S : \A i \in S : i <= m
<1> DEFINE Mirror == {n - i : i \in S}
<1>1. Mirror \subseteq Nat /\ Mirror # {}
  <2>1. \A i \in S : n - i \in Nat
    OBVIOUS
  <2>2. PICK i \in S : TRUE
    OBVIOUS
  <2>3. n - i \in Mirror
    OBVIOUS
  <2> QED BY <2>1, <2>3
<1>2. PICK r \in Mirror : \A k \in Mirror : r <= k
  <2> HIDE DEF Mirror
  <2> QED BY <1>1, SmallestIndex
<1>3. PICK m \in S : r = n - m
  OBVIOUS
<1>4. ASSUME NEW i \in S PROVE i <= m
  <2>1. n - i \in Mirror
    OBVIOUS
  <2>2. n - m <= n - i
    BY <1>2, <1>3, <2>1
  <2>3. i \in Nat /\ m \in Nat
    OBVIOUS
  <2> HIDE DEF Mirror
  <2> QED BY <2>2, <2>3
<1> QED BY <1>4

(***************************************************************************)
(* A pid whose messages went over one connection is polled or not as the   *)
(* last start or stop it sent asks, once the server has handled them:      *)
(* marks, other pids and the registry have no say in it.                   *)
(***************************************************************************)
THEOREM SuppressionIsObeyed == ControlSpec => []SuppressionFollows
<1>1. ControlInv /\ OrderInv => SuppressionFollows
  <2> SUFFICES ASSUME ControlInv, OrderInv, NEW pid \in Pids
               PROVE  LET orders == {i \in DOMAIN sent : sent[i].msg.pid = pid /\ sent[i].msg.kind # "mark"}
                          last == CHOOSE i \in orders : \A j \in orders : j <= i
                      IN  (/\ closing # "closed"
                           /\ \A i, j \in orders : sent[i].link = sent[j].link
                           /\ \A i \in orders : sent[i].msg \in HandledMessages)
                            => (pid \in stopped <=> (orders # {} /\ sent[last].msg.kind = "stop"))
    BY DEF SuppressionFollows
  <2> DEFINE orders == {i \in DOMAIN sent : sent[i].msg.pid = pid /\ sent[i].msg.kind # "mark"}
             last == CHOOSE i \in orders : \A j \in orders : j <= i
  <2> SUFFICES ASSUME closing # "closed",
                      \A i, j \in orders : sent[i].link = sent[j].link,
                      \A i \in orders : sent[i].msg \in HandledMessages
               PROVE  pid \in stopped <=> (orders # {} /\ sent[last].msg.kind = "stop")
    OBVIOUS
  <2>1. pid \in stopped <=> LastIsStop(pid)
    BY DEF OrderInv, Obeyed
  <2>2. \A j \in DOMAIN handled : Order(j, pid) =>
          \E k \in orders : SameMessage(handled[j], sent[k])
    BY DEF OrderInv, HandledInOrder, Order, SameMessage
  <2>3. CASE orders = {}
    BY <2>1, <2>2, <2>3 DEF LastIsStop
  <2>4. CASE orders # {}
    <3>1. \E m \in orders : \A i \in orders : i <= m
      <4>1. orders \subseteq 1..Len(sent) /\ Len(sent) \in Nat
        BY SentEntries
      <4> HIDE DEF orders
      <4> QED BY <2>4, <4>1, LargestIndex
    <3>2. last \in orders /\ \A i \in orders : i <= last
      <4> HIDE DEF orders
      <4> QED BY <3>1
    <3> HIDE DEF last
    <3>3. PICK j \in DOMAIN handled : handled[j].msg = sent[last].msg
      BY <3>2 DEF HandledMessages
    <3>4. SameMessage(handled[j], sent[last])
      BY <3>2, <3>3 DEF OrderInv, HandledInOrder, SentOnce, SameMessage
    <3>5. Order(j, pid)
      BY <3>2, <3>3 DEF Order
    <3>6. ASSUME NEW i \in DOMAIN handled, Order(i, pid)
          PROVE  i <= j
      <4>1. PICK k \in orders : SameMessage(handled[i], sent[k])
        BY <2>2, <3>6
      <4>2. CASE k = last
        <5>1. i = j
          BY <3>3, <4>1, <4>2 DEF OrderInv, HandledInOrder, SameMessage
        <5> QED BY <5>1, SentEntries
      <4>3. CASE k # last
        <5>1. k < last /\ k \in DOMAIN sent /\ last \in DOMAIN sent
          BY <3>2, <4>3, SentEntries
        <5>2. PICK h \in 1..(j - 1) : SameMessage(handled[h], sent[k])
          BY <3>2, <3>4, <5>1 DEF OrderInv, HandledInOrder
        <5>3. h \in DOMAIN handled /\ h < j
          BY SentEntries
        <5>4. h = i
          BY <4>1, <5>2, <5>3 DEF OrderInv, HandledInOrder, SameMessage
        <5> QED BY <5>3, <5>4, SentEntries
      <4> QED BY <4>2, <4>3
    <3>7. LastIsStop(pid) <=> sent[last].msg.kind = "stop"
      <4>1. ASSUME LastIsStop(pid) PROVE sent[last].msg.kind = "stop"
        <5>1. PICK i \in DOMAIN handled :
                /\ Order(i, pid) /\ handled[i].msg.kind = "stop"
                /\ \A h \in DOMAIN handled : Order(h, pid) => h <= i
          BY <4>1 DEF LastIsStop
        <5>2. i = j
          BY <3>5, <3>6, <5>1, SentEntries
        <5> QED BY <3>3, <5>1, <5>2
      <4>2. ASSUME sent[last].msg.kind = "stop" PROVE LastIsStop(pid)
        BY <3>3, <3>5, <3>6, <4>2 DEF LastIsStop
      <4> QED BY <4>1, <4>2
    <3> QED BY <2>1, <2>4, <3>7
  <2> QED BY <2>3, <2>4
<1> QED BY <1>1, OrderInvariance, PTL

-----------------------------------------------------------------------------
(* Who can go on while close() waits.                                           *)

Woken ==
  /\ accepting # "add" => accepted = {}
  /\ closing = "poked" /\ accepting = "accept" => Backlog # {}
  /\ closing \in {"poked", "closed"} => ReaderJoined
  /\ closing = "closed" => accepting = "ended" /\ Served = {}

LEMMA ServedStill ==
  ASSUME ControlInv, [ControlNext]_controlVars, ReaderJoined, closing' = closing
  PROVE  Served \subseteq Served' /\ (closing = "closed" => Served' = Served)
<1>1. ASSUME NEW s \in Senders, Connect(s)
      PROVE  Served \subseteq Served' /\ (closing = "closed" => Served' = Served)
  <2>1. CASE links' = links
    BY <2>1 DEF Served
  <2>2. CASE closing # "closed" /\ links' = Append(links, NewLink(s[1], TRUE))
    <3>1. s[1] \in Pids \cup {"gcmon"}
      BY DEF Senders
    <3>2. DOMAIN links' = DOMAIN links \cup {Len(links) + 1}
          /\ \A id \in DOMAIN links : links'[id] = links[id]
      BY <2>2, <3>1, LinkMade DEF ControlInv, ControlTypeOK
    <3> QED BY <2>2, <3>2 DEF Served
  <2> QED BY <1>1, <2>1, <2>2 DEF Connect
<1>2. ASSUME NEW id \in DOMAIN links, NEW l \in Link, l.served = links[id].served,
             links' = [links EXCEPT ![id] = l]
      PROVE  Served' = Served
  BY <1>2, LinkChanged DEF Served, ControlInv, ControlTypeOK
<1>3. ASSUME NEW id \in DOMAIN links
      PROVE  /\ [links[id] EXCEPT !.open = FALSE] \in Link
             /\ [links[id] EXCEPT !.open = FALSE].served = links[id].served
             /\ \A msg \in Msg : /\ [links[id] EXCEPT !.queue = Append(@, msg)] \in Link
                                  /\ [links[id] EXCEPT !.queue = Append(@, msg)].served = links[id].served
  <2>1. links[id] \in Link
    BY Linked DEF ControlInv, ControlTypeOK
  <2>2. ASSUME NEW msg \in Msg
        PROVE  /\ [links[id] EXCEPT !.queue = Append(@, msg)] \in Link
               /\ [links[id] EXCEPT !.queue = Append(@, msg)].served = links[id].served
    <3>1. Append(links[id].queue, msg) \in Seq(Msg)
      BY <2>1 DEF Link
    <3> QED BY <2>1, <3>1 DEF Link
  <2>3. /\ [links[id] EXCEPT !.open = FALSE] \in Link
        /\ [links[id] EXCEPT !.open = FALSE].served = links[id].served
    BY <2>1 DEF Link
  <2> QED BY <2>2, <2>3
<1>4. ASSUME NEW s \in Senders, Send(s)
      PROVE  Served' = Served
  <2>1. PICK id \in got[s], msg \in to_send[s] :
        /\ id \in DOMAIN links /\ msg \in MsgOf(links[id].pid) /\ links[id].pid = s[1]
        /\ \/ UNCHANGED <<conn, links, sent>>
           \/ /\ links' = [links EXCEPT ![id] = [links[id] EXCEPT !.queue = Append(@, msg)]]
              /\ links[id].open /\ links[id].served
              /\ sent' = Append(sent, [msg |-> msg, link |-> id])
              /\ conn' = conn
           \/ /\ links' = [links EXCEPT ![id] = [links[id] EXCEPT !.open = FALSE]]
              /\ conn[s[1]] = got[s]
              /\ conn' = [conn EXCEPT ![s[1]] = {}]
              /\ sent' = sent
    BY <1>4, SendEffect
  <2>2. msg \in Msg
    BY <2>1 DEF MsgOf
  <2>3. CASE links' = links
    BY <2>3 DEF Served
  <2>4. CASE links' = [links EXCEPT ![id] = [links[id] EXCEPT !.queue = Append(@, msg)]]
    BY <1>2, <1>3, <2>1, <2>2, <2>4
  <2>5. CASE links' = [links EXCEPT ![id] = [links[id] EXCEPT !.open = FALSE]]
    BY <1>2, <1>3, <2>1, <2>5
  <2> QED BY <2>1, <2>3, <2>4, <2>5
<1>5. ASSUME NEW pid \in Pids, CloseClient(pid)
      PROVE  Served' = Served
  <2>1. PICK id \in conn[pid] : links' = [links EXCEPT ![id] = [links[id] EXCEPT !.open = FALSE]]
    BY <1>5 DEF CloseClient
  <2>2. id \in DOMAIN links
    BY DEF ControlInv, ControlTypeOK
  <2> QED BY <1>2, <1>3, <2>1, <2>2
<1>6. ASSUME links' = links PROVE Served' = Served
  BY <1>6 DEF Served
<1>7. ~ReaderThread /\ ~Stop /\ ~MainThread
  BY DEF ReaderJoined, ReaderThread, BeginPass, EndPass, BeginDrain, EndDrainPass, Visit, DrainVisit, Stop,
         MainThread, Poke, FinishClose
<1>8. CASE \/ Monitor \/ UNCHANGED controlVars \/ AcceptThread \/ AcceptFails
           \/ \E s \in Senders, kind \in Kinds, ts \in 0..MaxTime : Call(s, kind, ts)
           \/ \E s \in Senders : Reread(s)
  <2>1. links' = links
    BY <1>8 DEF Monitor, controlVars, AcceptThread, Accept, AddConnection, AcceptFails, Call, Reread
  <2> QED BY <1>6, <2>1
<1> QED BY <1>1, <1>4, <1>5, <1>7, <1>8 DEF ControlNext, Client

LEMMA WokenStep == ControlInv /\ Woken /\ [ControlNext]_controlVars => Woken'
<1> SUFFICES ASSUME ControlInv, Woken, [ControlNext]_controlVars PROVE Woken'
  OBVIOUS
<1> DEFINE clientStep ==
             \/ Monitor \/ UNCHANGED controlVars
             \/ \E s \in Senders, kind \in Kinds, ts \in 0..MaxTime : Call(s, kind, ts)
             \/ \E s \in Senders : Client(s)
             \/ \E pid \in Pids : CloseClient(pid)
           passStep == \/ BeginPass \/ EndPass \/ BeginDrain \/ EndDrainPass
                       \/ \E id \in todo : Visit(id) \/ DrainVisit(id)
<1>1. CASE clientStep
  <2>1. UNCHANGED <<accepting, accepted, connections, reader, closing>>
    BY <1>1 DEF Monitor, controlVars, Call, Client, Connect, Reread, Send, CloseClient, acceptThread,
                readerThread
  <2>2. ReaderJoined => Served \subseteq Served' /\ (closing = "closed" => Served' = Served)
    BY <2>1, ServedStill
  <2>3. ReaderJoined => Backlog \subseteq Backlog'
    BY <2>1, <2>2 DEF Backlog
  <2> QED BY <2>1, <2>2, <2>3 DEF Woken, ReaderJoined
<1>2. CASE AcceptThread \/ AcceptFails
  <2>1. /\ UNCHANGED <<reader, closing, links>> /\ accepting \in {"accept", "add"}
        /\ \/ accepting' = "add"
           \/ accepting' = "accept" /\ ~Stopping /\ accepted' = {}
           \/ accepting' = "ended" /\ accepted' = {}
    BY <1>2 DEF AcceptThread, Accept, AddConnection, AcceptFails, readerThread, Woken
  <2>2. Served' = Served
    BY <2>1 DEF Served
  <2> QED BY <2>1, <2>2 DEF Woken, Stopping, ReaderJoined
<1>3. CASE passStep
  <2>1. /\ UNCHANGED <<accepting, accepted, closing>> /\ ~ReaderJoined
    BY <1>3 DEF BeginPass, EndPass, BeginDrain, EndDrainPass, Visit, DrainVisit, readerElse, acceptThread,
                ReaderJoined
  <2>2. closing \notin {"poked", "closed"}
    BY <2>1 DEF Woken
  <2> QED BY <2>1, <2>2 DEF Woken
<1>4. CASE Stop
  BY <1>4 DEF Stop, Woken, acceptThread
<1>5. CASE Poke
  <2>1. /\ ReaderJoined' /\ closing' = "poked" /\ UNCHANGED <<accepting, accepted, connections>>
        /\ links' = Append(links, NewLink("gcmon", FALSE))
    BY <1>5 DEF Poke, ReaderJoined, readerThread, acceptThread
  <2>2. /\ Len(links) + 1 \in DOMAIN links' /\ Len(links) + 1 \notin DOMAIN links
        /\ links'[Len(links) + 1].served
    BY <2>1, LinkMade DEF ControlInv, ControlTypeOK, NewLink
  <2>3. connections \cup accepted \subseteq DOMAIN links
    BY DEF ControlInv, ControlTypeOK
  <2>4. Backlog' # {}
    BY <2>1, <2>2, <2>3 DEF Backlog, Served
  <2> QED BY <2>1, <2>4 DEF Woken
<1>6. CASE FinishClose
  <2>1. /\ UNCHANGED <<accepting, accepted, reader>> /\ closing = "poked" /\ closing' = "closed"
        /\ accepting = "ended"
    BY <1>6 DEF FinishClose, AcceptJoined, readerThread, acceptThread
  <2>2. Served' = {}
    <3>1. DOMAIN links' = DOMAIN links
          /\ \A id \in DOMAIN links : links'[id].served <=> links[id].served /\ id \notin connections \cup Backlog
      BY <1>6, ServedOnward DEF FinishClose
    <3>2. accepted = {}
      BY <2>1 DEF Woken
    <3> QED BY <3>1, <3>2 DEF Served, Backlog
  <2> QED BY <2>1, <2>2 DEF Woken, ReaderJoined
<1> QED BY <1>1, <1>2, <1>3, <1>4, <1>5, <1>6 DEF ControlNext, ReaderThread, MainThread

(* The guards of the steps that one of the joined threads, or close() itself, has left. *)
SomebodyGoesOn ==
  \/ reader = "top" /\ Stopping
  \/ reader \in {"pass", "drain", "again"}
  \/ closing = "stopping" /\ ReaderJoined
  \/ closing = "poked" /\ AcceptJoined
  \/ accepting = "add"
  \/ accepting = "accept" /\ \E id \in Backlog : \A other \in Backlog : id <= other

(***************************************************************************)
(* ControlServer.close is never left waiting: the reader has a step of the *)
(* pass or the drain to take, or close() its own, or the accept thread the *)
(* connection made to wake it; and once it has returned it serves nobody.  *)
(* CloseNeverHangs says the first half with ENABLED: these are the guards. *)
(***************************************************************************)
THEOREM CloseGoesOn ==
  ControlSpec => []( /\ Stopping /\ closing # "closed" => SomebodyGoesOn
                     /\ closing = "closed" => Served = {} )
<1>1. ControlInit => ControlInv /\ Woken
  <2>1. ControlInit => Woken
    BY DEF ControlInit, Woken
  <2> QED BY <2>1, ControlInvInit
<1>2. ControlInv /\ Woken /\ [ControlNext]_controlVars => (ControlInv /\ Woken)'
  BY ControlStep, WokenStep
<1>3. ControlInv /\ Woken => /\ Stopping /\ closing # "closed" => SomebodyGoesOn
                             /\ closing = "closed" => Served = {}
  <2> SUFFICES ASSUME ControlInv, Woken, Stopping, closing # "closed" PROVE SomebodyGoesOn
    BY DEF Woken
  <2>1. /\ closing \in {"stopping", "poked"} /\ accepting \in {"accept", "add", "ended"}
        /\ reader \in {"top", "pass", "drain", "again"} \/ ReaderJoined
    BY DEF ControlInv, ControlTypeOK, Stopping, ReaderJoined
  <2>2. CASE closing = "poked" /\ accepting = "accept"
    <3>1. Backlog # {}
      BY <2>2 DEF Woken
    <3>2. Backlog \subseteq Nat
      BY BacklogIsMade, Linked DEF ControlInv, ControlTypeOK
    <3> QED BY <2>2, <3>1, <3>2, SmallestIndex DEF SomebodyGoesOn
  <2> QED BY <2>1, <2>2 DEF SomebodyGoesOn, AcceptJoined
<1> QED BY <1>1, <1>2, <1>3, PTL DEF ControlSpec
=============================================================================
