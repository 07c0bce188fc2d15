-------------------------- MODULE ContainedRangeMap --------------------------
(***************************************************************************)
(* processor/contained_range_map-inl.h: ranges that may contain one        *)
(* another, kept as a tree in which every node holds its children in a     *)
(* std::map by their high addresses; the root stands for all addresses.    *)
(* The processor keeps the STACK WIN lines of a symbol file in it.         *)
(***************************************************************************)
EXTENDS Integers, FiniteSets

CONSTANTS
    Max,     \* the highest address
    Entries, \* what a range stands for
    NoEntry, \* the entry of the root
    MaxStored \* ranges stored at once

VARIABLES
    root,  \* [base, entry, map]: map is high address -> child
    last   \* the last call of StoreRange and its result

vars == <<root, last>>

Address == 0..Max
End == Max + 1

First(keys) == IF keys = {} THEN End ELSE CHOOSE h \in keys : \A g \in keys : h <= g
lower_bound(m, address) == First({h \in DOMAIN m : h >= address})

\* The map's keys from one iterator up to, not including, another.
Between(m, from, to) == {h \in DOMAIN m : from <= h /\ h < to}

Node(base, entry, map) == [base |-> base, entry |-> entry, map |-> map]
Only(m, keys) == [h \in keys |-> m[h]]

-----------------------------------------------------------------------------
High(base, size) == (base + size - 1) % (Max + 1)

\* The new range lies within one child.
WithinChild(m, base, high) ==
    LET b == lower_bound(m, base)
    IN  b = lower_bound(m, high) /\ b # End /\ (b # End => base >= m[b].base)

SameGeometry(m, b, base, high) == m[b].base = base /\ b = high

ContainsHigh(m, high) == lower_bound(m, high) # End /\ high >= m[lower_bound(m, high)].base

\* A child is contained in part.
PartiallyContains(m, base, high) ==
    \/ lower_bound(m, base) # End /\ base > m[lower_bound(m, base)].base
    \/ ContainsHigh(m, high) /\ high < lower_bound(m, high)

\* Mutant: the child at the upper end stays where it is.
ChildrenBelow(m, base, high) == Between(m, lower_bound(m, base), lower_bound(m, high))

\* The children that move into the new range.
ChildrenOf(m, base, high) ==
    Between(m, lower_bound(m, base),
            IF ContainsHigh(m, high) THEN lower_bound(m, high) + 1 ELSE lower_bound(m, high))

\* StoreRange below a node whose children are m: the new children and whether
\* the range was stored.
RECURSIVE StoreIn(_, _, _, _)
StoreIn(m, base, high, entry) ==
    IF WithinChild(m, base, high)
    THEN LET b == lower_bound(m, base)
             below == StoreIn(m[b].map, base, high, entry)
         IN  IF SameGeometry(m, b, base, high) THEN [result |-> FALSE, map |-> m]
             ELSE [result |-> below.result, map |-> [m EXCEPT ![b].map = below.map]]
    ELSE IF PartiallyContains(m, base, high) THEN [result |-> FALSE, map |-> m]
    ELSE LET moved == ChildrenOf(m, base, high)
             new == Node(base, entry, Only(m, moved))
         IN  [result |-> TRUE,
              map |-> [h \in (DOMAIN m \ moved) \cup {high} |-> IF h = high THEN new ELSE m[h]]]

UndersizeOrOverflow(base, size) == size <= 0 \/ High(base, size) < base

RECURSIVE Count(_)
Count(m) == Cardinality(DOMAIN m) +
            (LET RECURSIVE SumOver(_)
                 SumOver(s) == IF s = {} THEN 0
                               ELSE LET h == CHOOSE h \in s : TRUE IN Count(m[h].map) + SumOver(s \ {h})
             IN  SumOver(DOMAIN m))

StoreRange(base, size, entry) ==
    /\ Count(root.map) < MaxStored
    /\ LET done == IF UndersizeOrOverflow(base, size) THEN [result |-> FALSE, map |-> root.map]
                   ELSE StoreIn(root.map, base, High(base, size), entry)
       IN  /\ root' = [root EXCEPT !.map = done.map]
           /\ last' = [op |-> "store", base |-> base, size |-> size, entry |-> entry, result |-> done.result]

Clear ==
    /\ root' = [root EXCEPT !.map = << >>]
    /\ last' = [op |-> "clear", base |-> 0, size |-> 0, entry |-> NoEntry, result |-> FALSE]

\* Mutant: the child's own entry wins over its descendants'.
RECURSIVE RetrieveOuter(_, _)
RetrieveOuter(m, address) ==
    LET i == lower_bound(m, address)
    IN  IF i = End \/ (i # End /\ address < m[i].base) THEN NoEntry ELSE m[i].entry

\* RetrieveRange: the entry of the innermost range, or none.
RECURSIVE RetrieveRange(_, _)
RetrieveRange(m, address) ==
    LET i == lower_bound(m, address)
    IN  IF i = End \/ (i # End /\ address < m[i].base) THEN NoEntry
        ELSE LET inner == RetrieveRange(m[i].map, address)
             IN  IF inner = NoEntry THEN m[i].entry ELSE inner

Init ==
    /\ root = Node(0, NoEntry, << >>)
    /\ last = [op |-> "none", base |-> 0, size |-> 0, entry |-> NoEntry, result |-> FALSE]

Next ==
    \/ \E base, size \in Address, entry \in Entries : StoreRange(base, size, entry)
    \/ Clear

Spec == Init /\ [][Next]_vars

-----------------------------------------------------------------------------
(* The abstract map: a set of ranges. *)

\* The ranges in a tree.
RECURSIVE Ranges(_)
Ranges(m) ==
    {[low |-> m[h].base, high |-> h, entry |-> m[h].entry] : h \in DOMAIN m}
    \cup UNION {Ranges(m[h].map) : h \in DOMAIN m}

stored == Ranges(root.map)

Abstract == INSTANCE NestedRanges WITH ranges <- stored, MaxRanges <- MaxStored

\* The tree implements a set of nested ranges: StoreRange adds only a range that
\* may be stored beside all others, and loses or changes none of them when it
\* moves children into the new one.
ImplementsNestedRanges == Abstract!Spec

-----------------------------------------------------------------------------
(* Properties. *)

RECURSIVE WellFormed(_, _, _)
WellFormed(m, low, high) ==
    \A h \in DOMAIN m :
        /\ low <= m[h].base /\ m[h].base <= h /\ h <= high
        /\ \A g \in DOMAIN m : g < h => g < m[h].base
        /\ WellFormed(m[h].map, m[h].base, h)

\* Every node's children lie within it and do not meet: the tree that StoreRange
\* keeps by moving children into a new range.
TreeIsNested == WellFormed(root.map, 0, Max)

\* RetrieveRange returns the entry of the smallest stored range with the address.
RetrievesInnermost ==
    \A address \in Address :
        LET holding == {r \in stored : r.low <= address /\ address <= r.high}
        IN  IF holding = {} THEN RetrieveRange(root.map, address) = NoEntry
            ELSE LET inner == CHOOSE r \in holding :
                                \A q \in holding : q.low <= r.low /\ r.high <= q.high
                 IN  RetrieveRange(root.map, address) = inner.entry
=============================================================================
