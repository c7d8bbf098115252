--------------------------- MODULE MCTraceEncoder ---------------------------
(***************************************************************************)
(* TraceEncoder on two processes, a few collections and missed intervals,  *)
(* and the captures that come of every order of some lines.                *)
(***************************************************************************)
EXTENDS TraceEncoder

Pause(iid, ts, stop, from, upto) ==
  [kind |-> "gc", iid |-> iid, gen |-> 0, ts |-> ts, stop |-> stop, from |-> from, upto |-> upto]
Missed(ts, stop, lost) ==
  [kind |-> "loss", iid |-> 0, ts |-> ts, stop |-> stop,
   gens |-> <<[lost |-> 0, pause |-> 0], [lost |-> lost, pause |-> lost]>>]
Mark(ts) == [kind |-> "instant", ts |-> ts]

(* A bare pause; one whose phases touch each other and both its ends; one of a sub-interpreter. *)
MCCollections ==
  { Pause(0, 0, 1, <<>>, <<>>),
    Pause(0, 0, 2, [mark_alive |-> 0, weakrefs |-> 1],
                   [mark_alive |-> 1, weakrefs |-> 1, finalize |-> 2, resurrect |-> 2]),
    Pause(1, 1, 2, [delete |-> 1], [delete |-> 2]) }
MCLosses == { Missed(0, 1, 2), Missed(1, 2, 1) }

Lines == << [pid |-> 1, item |-> Missed(3, 4, 1)], [pid |-> 1, item |-> Missed(2, 3, 2)],
            [pid |-> 2, item |-> Pause(0, 1, 3, [deduce |-> 2], [deduce |-> 3])],
            [pid |-> 1, item |-> Mark(4)] >>
Orders == {order \in [1..4 -> 1..4] : \A i, j \in 1..4 : order[i] = order[j] => i = j}
InOrder(order) == [i \in 1..4 |-> Lines[order[i]]]
MCCaptured == {Lines[i].item : i \in DOMAIN Lines} \cup {Mark(ts) : ts \in 0..3}
OfPid(lines, pid) == SelectSeq(lines, LAMBDA line : line.pid = pid)

(* Three processes, each marked twice: every way three spans may lie. *)
Intervals == {interval \in (0..3) \X (0..3) : interval[1] <= interval[2]}
Marked(intervals) ==
  FlattenSeq([p \in 1..3 |-> << [pid |-> p, item |-> Mark(intervals[p][1])],
                                [pid |-> p, item |-> Mark(intervals[p][2])] >>])

(* One file of all the lines, a file per process, or one of marks. *)
MCCaptures ==
  {<<Marked(intervals)>> : intervals \in [1..3 -> Intervals]} \cup
  {<<InOrder(order)>> : order \in Orders}
    \cup {<<OfPid(InOrder(order), 2), OfPid(InOrder(order), 1)>> : order \in Orders}

ASSUME CapturesAreInOrder == CapturesInOrder
=============================================================================
