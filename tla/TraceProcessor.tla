--------------------------- MODULE TraceProcessor ---------------------------
(***************************************************************************)
(* What a Perfetto trace processor makes of one row's slice events, as     *)
(* docs/adr/0011-process-lifetime-and-ordering.md relies on it: it sorts   *)
(* by timestamp, leaves ties in file order and keeps a stack.  An END with *)
(* a name closes the slice of that name and forces closed all above it; an *)
(* END without one closes the top.  The program is not in the repository.  *)
(***************************************************************************)
EXTENDS Integers, Sequences, SequencesExt, Sorting

(* An event has a type, "begin" or "end", and a ts.  A BEGIN has a name, an END a set of at most one. *)

InTimeOrder(events) ==
  LET Before(i, j) == events[i].ts < events[j].ts \/ (events[i].ts = events[j].ts /\ i < j)
  IN  SortedBy(DOMAIN events, Before)

(* How deep in the stack the slice an END closes is; 0 when it closes none. *)
Matched(events, stack, end) ==
  IF end.name = {} THEN Len(stack)
  ELSE SelectLastInSeq(stack, LAMBDA i : events[i].name \in end.name)

(* One event, with the slices still open in the stack and the stops of those closed. *)
Consumed(events, read, i) ==
  IF events[i].type = "begin" THEN [stack |-> Append(read.stack, i), stops |-> read.stops]
  ELSE LET depth == Matched(events, read.stack, events[i])
           keep == IF depth = 0 THEN Len(read.stack) ELSE depth - 1
           closing == {read.stack[d] : d \in (keep + 1)..Len(read.stack)}
       IN  [stack |-> SubSeq(read.stack, 1, keep),
            stops |-> [b \in DOMAIN read.stops \cup closing |->
                         IF b \in closing THEN events[i].ts ELSE read.stops[b]]]

(* The stop of every BEGIN that is closed, by its place among the events. *)
Stops(events) ==
  LET order == InTimeOrder(events)
      read[n \in 0..Len(order)] ==
        IF n = 0 THEN [stack |-> <<>>, stops |-> <<>>] ELSE Consumed(events, read[n - 1], order[n])
  IN  read[Len(order)].stops
=============================================================================
