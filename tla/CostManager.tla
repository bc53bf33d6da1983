----------------------------- MODULE CostManager -----------------------------
(***************************************************************************)
(* The CostManager of src/enc/backward_references_cost_enc.c: the least    *)
(* cost of reaching each pixel, when a copy offers a cost to all the       *)
(* pixels that follow it.  Offers of the same cost are kept as intervals,  *)
(* which do not overlap, and reach the array of costs when their pixels    *)
(* are processed.                                                          *)
(*                                                                         *)
(* A manager is a record: costs and dist (costs_, dist_array_), functions  *)
(* of the pixels, and intervals, the list in the order of start.  Costs    *)
(* are integers.  A failed allocation does what a full list does.          *)
(***************************************************************************)
EXTENDS Integers, SequencesExt

CONSTANTS
  MaxIntervals,   \* COST_CACHE_INTERVAL_SIZE_MAX, 500 in the code
  SkipDistance,   \* kSkipDistance, 10 in the code
  FltMax          \* more than any cost

ASSUME CostAssumption == MaxIntervals \in Nat /\ SkipDistance \in Nat /\ FltMax \in Nat

\* CostManagerInit()
NewManager(pixels) ==
  [costs |-> [i \in pixels |-> FltMax], dist |-> [i \in pixels |-> 0], intervals |-> <<>>]

\* UpdateCostPerInterval(), and UpdateCost() for one pixel: the cost and the
\* length of a copy from position are kept where they are better.
UpdateCosts(m, start, end, position, cost) ==
  LET better == {i \in DOMAIN m.costs : i \in start..(end - 1) /\ m.costs[i] > cost}
  IN  [m EXCEPT !.costs = [i \in DOMAIN @ |-> IF i \in better THEN cost ELSE @[i]],
                !.dist = [i \in DOMAIN @ |-> IF i \in better THEN i - position + 1 ELSE @[i]]]

\* InsertInterval(): an interval that cannot be stored is written down.
InsertInterval(m, cost, position, start, end) ==
  LET v == [cost |-> cost, index |-> position, start |-> start, end |-> end]
      before == SelectSeq(m.intervals, LAMBDA u : u.start < start)
  IN  IF start >= end THEN m
      ELSE IF Len(m.intervals) >= MaxIntervals THEN UpdateCosts(m, start, end, position, cost)
      ELSE [m EXCEPT !.intervals =
              before \o <<v>> \o SubSeq(@, Len(before) + 1, Len(@))]

PopInterval(m, v) == [m EXCEPT !.intervals = SelectSeq(@, LAMBDA u : u # v)]

Trimmed(m, v, start, end) ==
  [m EXCEPT !.intervals = [k \in DOMAIN @ |->
     IF @[k] = v THEN [v EXCEPT !.start = start, !.end = end] ELSE @[k]]]

\* The cost_cache_ as pieces of equal cost (cache_intervals_), by increasing
\* start.  lengthCost[k] is cost_cache_[k - 1], GetLengthCost(k - 1).
CacheIntervals(lengthCost) ==
  LET n == Len(lengthCost)
      starts == SelectSeq([k \in 1..n |-> k],
                          LAMBDA k : k = 1 \/ lengthCost[k] # lengthCost[k - 1])
  IN  [p \in DOMAIN starts |->
         [start |-> starts[p] - 1, cost |-> lengthCost[starts[p]],
          end |-> IF p = Len(starts) THEN n ELSE starts[p + 1] - 1]]

\* (faulty) the remainder of an interval that contains the new one is lost
NoSplit(m, v, start, end) == Trimmed(m, v, v.start, start)

\* An old interval that contains the new one, start .. end - 1, is split.
Split(m, v, start, end) ==
  InsertInterval(Trimmed(m, v, v.start, start), v.cost, v.index, end, v.end)

\* A piece of the new offer meets the old interval v: the better of them is
\* kept where they overlap.  s has the manager, and where the piece starts.
Meet(s, v, end, position, cost) ==
  IF s.start >= end \/ s.start >= v.end \/ v.start >= end THEN s
  ELSE IF cost >= v.cost
  THEN [m |-> InsertInterval(s.m, cost, position, s.start, v.start), start |-> v.end]
  ELSE [s EXCEPT !.m =
          CASE s.start <= v.start /\ v.end <= end -> PopInterval(@, v)
            [] s.start <= v.start /\ v.end > end -> Trimmed(@, v, end, v.end)
            [] s.start > v.start /\ end < v.end -> Split(@, v, s.start, end)
            [] s.start > v.start /\ end >= v.end -> Trimmed(@, v, v.start, s.start)]

\* PushInterval(): a copy of up to len pixels from position.
PushInterval(m, distanceCost, position, len, lengthCost) ==
  LET pieces == SelectSeq(CacheIntervals(lengthCost), LAMBDA c : c.start < len)
      pixel(n, k) == UpdateCosts(n, position + k - 1, position + k, position,
                                 distanceCost + lengthCost[k])
      push(n, c) ==
        LET end == position + (IF c.end > len THEN len ELSE c.end)
            cost == distanceCost + c.cost
            s == FoldLeft(LAMBDA t, v : Meet(t, v, end, position, cost),
                          [m |-> n, start |-> position + c.start], n.intervals)
        IN  InsertInterval(s.m, cost, position, s.start, end)
  IN  IF len < SkipDistance THEN FoldLeft(pixel, m, [k \in 1..len |-> k])
      ELSE FoldLeft(push, m, pieces)

\* UpdateCostAtIndex(): the interval of pixel i gives it its cost; those that
\* end before it may be dropped.
UpdateCostAtIndex(m, i, clean) ==
  LET update(n, v) == IF i \in v.start..(v.end - 1)
                      THEN UpdateCosts(n, i, i + 1, v.index, v.cost) ELSE n
      updated == FoldLeft(update, m, m.intervals)
  IN  IF clean THEN [updated EXCEPT !.intervals = SelectSeq(@, LAMBDA v : v.end > i)]
      ELSE updated
=============================================================================
