---------------------------- MODULE NestedRanges ----------------------------
(***************************************************************************)
(* What ContainedRangeMap promises (contained_range_map.h): a set of       *)
(* ranges of which any two are apart or nested, and none is stored twice.  *)
(***************************************************************************)
EXTENDS Integers, FiniteSets

CONSTANTS Max, Entries, MaxRanges

VARIABLE ranges

\* A range that may be stored beside another.
Compatible(low, high, r) ==
    \/ high < r.low \/ r.high < low
    \/ r.low <= low /\ high <= r.high /\ ~(r.low = low /\ r.high = high)
    \/ low <= r.low /\ r.high <= high /\ ~(r.low = low /\ r.high = high)

Acceptable(low, high) == low <= high /\ \A r \in ranges : Compatible(low, high, r)

Init == ranges = {}

Store(low, high, entry) ==
    /\ Cardinality(ranges) < MaxRanges
    /\ Acceptable(low, high)
    /\ ranges' = ranges \cup {[low |-> low, high |-> high, entry |-> entry]}

Clear == ranges' = {}

Next == (\E low, high \in 0..Max, entry \in Entries : Store(low, high, entry)) \/ Clear

Spec == Init /\ [][Next]_ranges
=============================================================================
