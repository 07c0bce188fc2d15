--------------------------- MODULE RangeMapProofs ---------------------------
(***************************************************************************)
(* Proofs about RangeMap, for every size of the address space and every    *)
(* set of entries.  The inductive invariant is TypeOK /\ Disjoint: with    *)
(* the ranges disjoint, the order of their high addresses, which the map   *)
(* sorts by, is the order of their bases, so the one range that            *)
(* lower_bound finds is the only one that can hold an address.             *)
(***************************************************************************)
EXTENDS RangeMap, TLAPS, WellFoundedInduction

\* A set of natural numbers that is not empty has a least element.
LEMMA LeastExists ==
    ASSUME NEW keys \in SUBSET Nat, keys # {}
    PROVE  \E h \in keys : \A g \in keys : h <= g
<1> DEFINE R == OpToRel(<, Nat)
<1>1. IsWellFoundedOn(R, Nat)
  BY NatLessThanWellFounded
<1> HIDE DEF R
<1>2. PICK h \in keys : \A g \in keys : ~(<<g, h>> \in R)
  BY <1>1, WFMin
<1>3. \A g \in keys : <<g, h>> \notin R => h <= g
  BY <1>2 DEF R, OpToRel
<1> QED
  BY <1>2, <1>3

\* What std::map's bounds return: the least of the keys, if there is one.
LEMMA FirstIsLeast ==
    ASSUME NEW keys \in SUBSET Address
    PROVE  /\ keys = {} <=> First(keys) = End
           /\ keys # {} => First(keys) \in keys /\ \A g \in keys : First(keys) <= g
<1>1. CASE keys = {}
  BY <1>1 DEF First
<1>2. CASE keys # {}
  <2>1. keys \in SUBSET Nat
    BY MaxAssumption DEF Address
  <2>2. \E h \in keys : \A g \in keys : h <= g
    BY <1>2, <2>1, LeastExists
  <2>3. First(keys) \in keys /\ \A g \in keys : First(keys) <= g
    BY <1>2, <2>2 DEF First
  <2>4. First(keys) \in Address
    BY <2>3
  <2>5. First(keys) # End
    BY <2>4, MaxAssumption DEF End, Address
  <2> QED
    BY <1>2, <2>3, <2>5
<1> QED
  BY <1>1, <1>2

\* lower_bound, stated by the keys of the map.
LEMMA LowerBound ==
    ASSUME NEW m, DOMAIN m \subseteq Address, NEW a \in Address
    PROVE  /\ lower_bound(m, a) = End \/ lower_bound(m, a) \in DOMAIN m
           /\ lower_bound(m, a) = End => \A h \in DOMAIN m : h < a
           /\ lower_bound(m, a) # End =>
                 lower_bound(m, a) >= a /\ \A h \in DOMAIN m : h >= a => lower_bound(m, a) <= h
<1> DEFINE keys == {h \in DOMAIN m : h >= a}
<1>1. keys \in SUBSET Address
  OBVIOUS
<1>2. lower_bound(m, a) = First(keys)
  BY DEF lower_bound
<1>3. /\ keys = {} <=> First(keys) = End
      /\ keys # {} => First(keys) \in keys /\ \A g \in keys : First(keys) <= g
  BY <1>1, FirstIsLeast
<1> QED
  BY <1>2, <1>3, MaxAssumption DEF Address, End

-----------------------------------------------------------------------------
\* The test by two lower bounds and one base is the test that the new range
\* meets no stored one.
LEMMA StorableIsAcceptable ==
    ASSUME NEW m, DOMAIN m \subseteq Address, \A h \in DOMAIN m : m[h] \in Range,
           \A h \in DOMAIN m : m[h].base <= h,
           \A g, h \in DOMAIN m : g < h => g < m[h].base,
           NEW base \in Address, NEW size \in Address
    PROVE  Storable(m, base, size) <=> Acceptable(m, base, size)
<1> DEFINE high == High(base, size)
<1>1. UndersizeOrOverflow(base, size) <=> ~(size > 0 /\ base + size - 1 <= Max)
  <2>1. CASE size = 0
    BY <2>1 DEF UndersizeOrOverflow
  <2>2. CASE size > 0 /\ base + size - 1 <= Max
    <3>1. High(base, size) = base + size - 1
      BY <2>2, MaxAssumption DEF High, Address
    <3> QED
      BY <2>2, <3>1, MaxAssumption DEF UndersizeOrOverflow, Address
  <2>3. CASE size > 0 /\ base + size - 1 > Max
    <3>1. base + size - 1 - (Max + 1) \in 0..Max
      BY <2>3, MaxAssumption DEF Address
    <3>2. High(base, size) = base + size - 1 - (Max + 1)
      BY <2>3, <3>1, MaxAssumption DEF High, Address
    <3> QED
      BY <2>3, <3>2, MaxAssumption DEF UndersizeOrOverflow, Address
  <2> QED
    BY <2>1, <2>2, <2>3, MaxAssumption DEF Address
<1>2. SUFFICES ASSUME size > 0, base + size - 1 <= Max
               PROVE  Storable(m, base, size) <=> Acceptable(m, base, size)
  BY <1>1 DEF Storable, Acceptable
<1>3. high = base + size - 1 /\ high \in Address /\ base <= high
  BY <1>2, MaxAssumption DEF High, Address
<1> DEFINE lb == lower_bound(m, base)
           lh == lower_bound(m, high)
<1>4. /\ lb = End \/ lb \in DOMAIN m
      /\ lb = End => \A h \in DOMAIN m : h < base
      /\ lb # End => lb >= base /\ \A h \in DOMAIN m : h >= base => lb <= h
  BY LowerBound
<1>5. /\ lh = End \/ lh \in DOMAIN m
      /\ lh = End => \A h \in DOMAIN m : h < high
      /\ lh # End => lh >= high /\ \A h \in DOMAIN m : h >= high => lh <= h
  BY <1>3, LowerBound
<1>6. Storable(m, base, size) <=> lb = lh /\ ~(lh # End /\ m[lh].base <= high)
  BY <1>1, <1>2 DEF Storable, RangeEndsWithin, RangeAboveOverlaps
<1>7. Acceptable(m, base, size) <=> \A h \in DOMAIN m : h < base \/ m[h].base > high
  BY <1>2, <1>3 DEF Acceptable
<1> HIDE DEF high, lb, lh
<1>8. ASSUME lb = lh, ~(lh # End /\ m[lh].base <= high), NEW h \in DOMAIN m, ~(h < base)
      PROVE  m[h].base > high
  <2>1. lb # End /\ lb <= h
    BY <1>4, <1>8, MaxAssumption DEF Address
  <2>2. m[lb].base > high
    BY <1>8, <2>1, <1>4, <1>3, MaxAssumption DEF Range, Address
  <2>3. CASE h = lb
    BY <2>2, <2>3
  <2>4. CASE h > lb
    BY <2>1, <2>2, <2>4, <1>4, <1>3, <1>5, <1>8, MaxAssumption DEF Range, Address
  <2> QED
    BY <2>1, <2>3, <2>4, <1>4, MaxAssumption DEF Address
<1>9. ASSUME \A h \in DOMAIN m : h < base \/ m[h].base > high
      PROVE  lb = lh /\ ~(lh # End /\ m[lh].base <= high)
  <2>1. CASE lb = End
    <3>1. lh = End
      BY <2>1, <1>4, <1>5, <1>3, MaxAssumption DEF Address
    <3> QED
      BY <2>1, <3>1
  <2>2. CASE lb # End
    <3>1. lb \in DOMAIN m /\ lb >= base /\ m[lb].base > high
      BY <2>2, <1>4, <1>9, MaxAssumption DEF Address
    <3>2. lb >= high
      BY <3>1, <1>3, MaxAssumption DEF Range, Address
    <3>3. lh # End /\ lh <= lb
      BY <3>1, <3>2, <1>5, <1>3, MaxAssumption DEF Address
    <3>4. lh >= base
      BY <3>3, <1>5, <1>3, MaxAssumption DEF Address
    <3>5. lb <= lh
      BY <3>3, <3>4, <1>5, <1>4, <2>2
    <3>6. lb = lh
      BY <3>3, <3>5, <3>1, <1>5, MaxAssumption DEF Address
    <3> QED
      BY <3>1, <3>6, <1>3, MaxAssumption DEF Range, Address
  <2> QED
    BY <2>1, <2>2
<1> QED
  BY <1>6, <1>7, <1>8, <1>9
-----------------------------------------------------------------------------
\* The inductive invariant.
IInv == TypeOK /\ Disjoint

LEMMA InitIInv == Init => IInv
<1> SUFFICES ASSUME Init PROVE IInv
  OBVIOUS
<1>1. DOMAIN map_ = {}
  BY DEF Init
<1>2. last \in [op : {"none", "store", "clear"}, base : Address, size : Address, entry : Entries,
                result : BOOLEAN]
  BY MaxAssumption, EntriesAssumption DEF Init, NoCall, Address
<1> QED
  BY <1>1, <1>2 DEF IInv, TypeOK, Disjoint

\* What StoreRange leaves in the map.
LEMMA StoreRangeKeepsIInv ==
    ASSUME IInv, NEW base \in Address, NEW size \in Address, NEW entry \in Entries,
           StoreRange(base, size, entry)
    PROVE  IInv'
<1>1. last' \in [op : {"none", "store", "clear"}, base : Address, size : Address, entry : Entries,
                 result : BOOLEAN]
  BY DEF StoreRange, Storable, UndersizeOrOverflow
<1>2. CASE ~Storable(map_, base, size)
  BY <1>1, <1>2 DEF IInv, TypeOK, Disjoint, StoreRange
<1>3. CASE Storable(map_, base, size)
  <2>1. Acceptable(map_, base, size)
    BY <1>3, StorableIsAcceptable DEF IInv, TypeOK, Disjoint
  <2> DEFINE high == High(base, size)
             range == [base |-> base, entry |-> entry]
  <2>2. high = base + size - 1 /\ high \in Address /\ base <= high
    BY <2>1, MaxAssumption DEF Acceptable, High, Address
  <2>3. map_' = Insert(map_, high, range)
    BY <1>3 DEF StoreRange
  <2> HIDE DEF high
  <2>4. DOMAIN map_' = DOMAIN map_ \cup {high}
    BY <2>3 DEF Insert
  <2>5. high \notin DOMAIN map_
    BY <2>1, <2>2, MaxAssumption DEF Acceptable, IInv, TypeOK, Disjoint, Address, Range
  <2>6. /\ \A h \in DOMAIN map_ : map_'[h] = map_[h]
        /\ map_'[high] = range
    BY <2>3, <2>5 DEF Insert
  <2>7. \A h \in DOMAIN map_ : h < base \/ map_[h].base > high
    BY <2>1, <2>2 DEF Acceptable
  <2>8. TypeOK'
    BY <1>1, <2>2, <2>4, <2>6 DEF IInv, TypeOK, Range
  <2>9. \A h \in DOMAIN map_' : map_'[h].base <= h
    BY <2>2, <2>4, <2>6 DEF IInv, Disjoint
  <2>10. ASSUME NEW g \in DOMAIN map_', NEW h \in DOMAIN map_', g < h
         PROVE  g < map_'[h].base
    <3>1. CASE g = high /\ h \in DOMAIN map_
      <4>1. ~(h < base)
        BY <3>1, <2>10, <2>2, MaxAssumption DEF IInv, TypeOK, Address
      <4> QED
        BY <3>1, <4>1, <2>6, <2>7, MaxAssumption, <2>2 DEF IInv, TypeOK, Address, Range
    <3>2. CASE g \in DOMAIN map_ /\ h = high
      <4>1. map_'[h].base = base
        BY <3>2, <2>6
      <4>2. map_[g].base <= g /\ map_[g].base \in Address /\ g \in Address
        BY <3>2 DEF IInv, TypeOK, Disjoint, Range
      <4>3. ~(map_[g].base > high)
        BY <3>2, <4>2, <2>10, <2>2, MaxAssumption DEF Address
      <4> QED
        BY <3>2, <4>1, <4>3, <2>7
    <3>3. CASE g \in DOMAIN map_ /\ h \in DOMAIN map_
      BY <3>3, <2>10, <2>6 DEF IInv, Disjoint
    <3>4. CASE g = high /\ h = high
      BY <3>4, <2>10, <2>2, MaxAssumption DEF Address
    <3> QED
      BY <3>1, <3>2, <3>3, <3>4, <2>4
  <2> QED
    BY <2>8, <2>9, <2>10 DEF IInv, Disjoint
<1> QED
  BY <1>2, <1>3

LEMMA NextKeepsIInv == IInv /\ [Next]_vars => IInv'
<1> SUFFICES ASSUME IInv, [Next]_vars PROVE IInv'
  OBVIOUS
<1>1. ASSUME NEW base \in Address, NEW size \in Address, NEW entry \in Entries,
             StoreRange(base, size, entry)
      PROVE  IInv'
  BY <1>1, StoreRangeKeepsIInv
<1>2. CASE Clear
  <2>1. DOMAIN map_' = {}
    BY <1>2 DEF Clear
  <2>2. last' \in [op : {"none", "store", "clear"}, base : Address, size : Address, entry : Entries,
                   result : BOOLEAN]
    BY <1>2, MaxAssumption, EntriesAssumption DEF Clear, NoCall, Address
  <2> QED
    BY <2>1, <2>2 DEF IInv, TypeOK, Disjoint
<1>3. CASE UNCHANGED vars
  BY <1>3 DEF IInv, TypeOK, Disjoint, vars
<1> QED
  BY <1>1, <1>2, <1>3 DEF Next

\* In every reachable state the map is well typed and no two stored ranges
\* share an address, whatever StoreRange was called with.
THEOREM RangesDisjoint == Spec => [](TypeOK /\ Disjoint)
<1>1. Spec => []IInv
  BY InitIInv, NextKeepsIInv, PTL DEF Spec
<1> QED
  BY <1>1, PTL DEF IInv

\* In a disjoint map the range that lower_bound finds is the only one that can
\* hold the address.
LEMMA IInvRetrieves == IInv => RetrievesHolder
<1> SUFFICES ASSUME IInv, NEW a \in Address
             PROVE  LET r == RetrieveRange(map_, a)
                    IN  IF r = End THEN \A h \in DOMAIN map_ : ~Holds(map_, h, a)
                                   ELSE r \in DOMAIN map_ /\ Holds(map_, r, a)
  BY DEF RetrievesHolder
<1> DEFINE l == lower_bound(map_, a)
<1>1. /\ l = End \/ l \in DOMAIN map_
      /\ l = End => \A h \in DOMAIN map_ : h < a
      /\ l # End => l >= a /\ \A h \in DOMAIN map_ : h >= a => l <= h
  BY LowerBound DEF IInv, TypeOK
<1>2. RetrieveRange(map_, a) = IF l = End \/ (l # End /\ a < map_[l].base) THEN End ELSE l
  BY DEF RetrieveRange
<1> HIDE DEF l
<1>3. CASE l = End
  BY <1>1, <1>2, <1>3, MaxAssumption DEF Holds, IInv, TypeOK, Address
<1>4. CASE l # End /\ a < map_[l].base
  <2>1. ASSUME NEW h \in DOMAIN map_, Holds(map_, h, a) PROVE FALSE
    <3>1. l <= h /\ map_[h].base <= a /\ l \in DOMAIN map_
      BY <2>1, <1>1, <1>4 DEF Holds
    <3>2. l # h
      BY <3>1, <1>4, MaxAssumption DEF IInv, TypeOK, Range, Address
    <3>3. l < map_[h].base
      BY <3>1, <3>2, MaxAssumption DEF IInv, TypeOK, Disjoint, Address
    <3> QED
      BY <3>1, <3>3, <1>1, <1>4, MaxAssumption DEF IInv, TypeOK, Range, Address
  <2> QED
    BY <1>2, <1>4, <2>1
<1>5. CASE l # End /\ ~(a < map_[l].base)
  BY <1>1, <1>2, <1>5, MaxAssumption DEF Holds, IInv, TypeOK, Range, Address
<1> QED
  BY <1>3, <1>4, <1>5

\* RetrieveRange finds the range that holds an address exactly when one does.
THEOREM RetrieveCorrect == Spec => []RetrievesHolder
BY InitIInv, NextKeepsIInv, IInvRetrieves, PTL DEF Spec

\* After every sequence of calls of StoreRange and Clear, the map partitions
\* the addresses it covers and RetrieveRange finds the part of an address.
THEOREM MapIsExact == Spec => []RangesAreExact
<1>1. RangesAreExact <=> Disjoint /\ RetrievesHolder
  BY DEF RangesAreExact
<1> QED
  BY <1>1, RangesDisjoint, RetrieveCorrect, PTL

\* StoreRange stores exactly the ranges that are not empty, do not wrap and meet
\* no stored range, and leaves the others out and the map as it was.
THEOREM StoreCorrect == Spec => StoresIffFree
<1> DEFINE A == last'.op = "store" =>
                  LET base == last'.base
                      high == last'.base + last'.size - 1
                  IN  /\ last'.result = Acceptable(map_, base, last'.size)
                      /\ last'.result => /\ DOMAIN map_' = DOMAIN map_ \cup {high}
                                         /\ map_'[high] = [base |-> base, entry |-> last'.entry]
                                         /\ \A h \in DOMAIN map_ : map_'[h] = map_[h]
                      /\ ~last'.result => map_' = map_
<1>1. ASSUME IInv, [Next]_vars PROVE [A]_vars
  <2>1. ASSUME NEW base \in Address, NEW size \in Address, NEW entry \in Entries,
               StoreRange(base, size, entry)
        PROVE  A
    <3>1. /\ last'.base = base /\ last'.size = size /\ last'.entry = entry
          /\ last'.result = Storable(map_, base, size)
      BY <2>1 DEF StoreRange
    <3>2. Storable(map_, base, size) = Acceptable(map_, base, size)
      <4>1. Storable(map_, base, size) <=> Acceptable(map_, base, size)
        BY <1>1, StorableIsAcceptable DEF IInv, TypeOK, Disjoint
      <4>2. Storable(map_, base, size) \in BOOLEAN /\ Acceptable(map_, base, size) \in BOOLEAN
        BY DEF Storable, Acceptable
      <4> QED
        BY <4>1, <4>2
    <3>3. CASE ~Storable(map_, base, size)
      <4>1. map_' = map_
        BY <2>1, <3>3 DEF StoreRange
      <4> QED
        BY <3>1, <3>2, <3>3, <4>1
    <3>4. CASE Storable(map_, base, size)
      <4> DEFINE high == base + size - 1
      <4>1. Acceptable(map_, base, size)
        BY <3>2, <3>4
      <4>2. High(base, size) = high
        BY <4>1, MaxAssumption DEF Acceptable, High, Address
      <4>3. map_' = Insert(map_, high, [base |-> base, entry |-> entry])
        BY <2>1, <3>4, <4>2 DEF StoreRange
      <4>4. high \notin DOMAIN map_
        BY <4>1, <1>1, MaxAssumption DEF Acceptable, IInv, TypeOK, Disjoint, Address, Range
      <4> HIDE DEF high
      <4>5. /\ DOMAIN map_' = DOMAIN map_ \cup {high}
            /\ map_'[high] = [base |-> base, entry |-> entry]
            /\ \A h \in DOMAIN map_ : map_'[h] = map_[h]
        BY <4>3, <4>4 DEF Insert
      <4> QED
        BY <3>1, <3>2, <3>4, <4>5 DEF high
    <3> QED
      BY <3>3, <3>4
  <2>2. CASE Clear
    BY <2>2 DEF Clear, NoCall
  <2> QED
    BY <1>1, <2>1, <2>2 DEF Next
<1>2. Spec => []IInv
  BY InitIInv, NextKeepsIInv, PTL DEF Spec
<1>3. Spec => [][A]_vars
  BY <1>1, <1>2, PTL DEF Spec
<1> QED
  BY <1>3 DEF StoresIffFree
=============================================================================
