------------------------------ MODULE RangeMap ------------------------------
(***************************************************************************)
(* processor/range_map{.h,-inl.h}: the map from address ranges to entries  *)
(* (modules, memory regions, functions, source lines) that the processor   *)
(* keeps.  A range is stored under its highest address in a std::map.      *)
(* Addresses are unsigned and wrap: AddressType is 0..Max, and base + size *)
(* is taken modulo Max + 1.                                                *)
(***************************************************************************)
EXTENDS Integers, FiniteSets

CONSTANTS
    Max,     \* the highest address
    Entries  \* what a range stands for

ASSUME MaxAssumption == Max \in Nat
ASSUME EntriesAssumption == Entries # {}

VARIABLES
    map_,  \* high address -> [base, entry]
    last   \* the last call and its result

vars == <<map_, last>>

Address == 0..Max

Range == [base : Address, entry : Entries]

NoCall(op) == [op |-> op, base |-> 0, size |-> 0, entry |-> CHOOSE e \in Entries : TRUE, result |-> FALSE]

\* map_.end()
End == Max + 1

\* The least of the keys, or end().
First(keys) == IF keys = {} THEN End ELSE CHOOSE h \in keys : \A g \in keys : h <= g

\* std::map::lower_bound and upper_bound.
lower_bound(m, address) == First({h \in DOMAIN m : h >= address})
upper_bound(m, address) == First({h \in DOMAIN m : h > address})

-----------------------------------------------------------------------------
(* StoreRange. *)

High(base, size) == (base + size - 1) % (Max + 1)

UndersizeOrOverflow(base, size) == size <= 0 \/ High(base, size) < base

\* Mutant: only the range above is looked at.
NoneBegins(m, base, high) == FALSE

\* A range ends in the space of the new one, below its last address.
RangeEndsWithin(m, base, high) == lower_bound(m, base) # lower_bound(m, high)

\* The range that ends at or after the new one's last address begins before it.
RangeAboveOverlaps(m, high) ==
    lower_bound(m, high) # End /\ m[lower_bound(m, high)].base <= high

Storable(m, base, size) ==
    /\ ~UndersizeOrOverflow(base, size)
    /\ ~RangeEndsWithin(m, base, High(base, size))
    /\ ~RangeAboveOverlaps(m, High(base, size))

\* map_.insert, which leaves a key that is there as it is.
Insert(m, high, range) ==
    [h \in DOMAIN m \cup {high} |-> IF h \in DOMAIN m THEN m[h] ELSE range]

StoreRange(base, size, entry) ==
    /\ map_' = IF Storable(map_, base, size)
               THEN Insert(map_, High(base, size), [base |-> base, entry |-> entry])
               ELSE map_
    /\ last' = [op |-> "store", base |-> base, size |-> size, entry |-> entry, 
                result |-> Storable(map_, base, size)]

Clear == map_' = << >> /\ last' = NoCall("clear")

-----------------------------------------------------------------------------
(* The queries: the key of the range that the caller is given, or end(). *)

RetrieveRange(m, address) ==
    LET iterator == lower_bound(m, address)
    IN  IF iterator = End \/ (iterator # End /\ address < m[iterator].base) THEN End ELSE iterator

\* The iterator decremented: the greatest key below it.
Before(m, iterator) ==
    CHOOSE h \in DOMAIN m : h < iterator /\ \A g \in DOMAIN m : g < iterator => g <= h

RetrieveNearestRange(m, address) ==
    IF RetrieveRange(m, address) # End THEN RetrieveRange(m, address)
    ELSE IF \A h \in DOMAIN m : h >= upper_bound(m, address) THEN End   \* begin()
    ELSE Before(m, upper_bound(m, address))

GetCount(m) == Cardinality(DOMAIN m)

\* The key reached after index increments of begin().
AtIndex(m, index) ==
    CHOOSE h \in DOMAIN m : Cardinality({g \in DOMAIN m : g < h}) = index

RetrieveRangeAtIndex(m, index) == IF index >= GetCount(m) THEN End ELSE AtIndex(m, index)

-----------------------------------------------------------------------------
Init == map_ = << >> /\ last = NoCall("none")

Next ==
    \/ \E base \in Address, size \in Address, entry \in Entries : StoreRange(base, size, entry)
    \/ Clear

Spec == Init /\ [][Next]_vars

-----------------------------------------------------------------------------
(* Properties. *)

Holds(m, h, address) == m[h].base <= address /\ address <= h

TypeOK ==
    /\ DOMAIN map_ \subseteq Address
    /\ \A h \in DOMAIN map_ : map_[h] \in Range
    /\ last \in [op : {"none", "store", "clear"}, base : Address, size : Address, entry : Entries,
                 result : BOOLEAN]

\* No address is in two of the stored ranges, and none of them is empty or goes
\* over the end of the address space, whatever was offered to StoreRange in
\* whatever order.
Disjoint ==
    /\ \A h \in DOMAIN map_ : map_[h].base <= h
    /\ \A g, h \in DOMAIN map_ : g < h => g < map_[h].base

\* RetrieveRange finds the range that holds an address exactly when there is one.
RetrievesHolder ==
    \A address \in Address :
        LET r == RetrieveRange(map_, address)
        IN  IF r = End THEN \A h \in DOMAIN map_ : ~Holds(map_, h, address)
                       ELSE r \in DOMAIN map_ /\ Holds(map_, r, address)

\* The map is a partition of the addresses it covers, and looking one up finds
\* its part: what StoreRange promises of every sequence of calls, and what
\* RetrieveRange needs of it (range_map-inl.h:45-145).
RangesAreExact == Disjoint /\ RetrievesHolder

\* RetrieveNearestRange finds the range that holds an address or else the nearest
\* one below it, and refuses only when there is neither.
RetrievesNearest ==
    \A address \in Address :
        LET r == RetrieveNearestRange(map_, address)
        IN  IF r = End THEN \A h \in DOMAIN map_ : map_[h].base > address
                       ELSE /\ r \in DOMAIN map_ /\ map_[r].base <= address
                            /\ \A h \in DOMAIN map_ : map_[h].base <= address => h <= r

\* RetrieveRangeAtIndex walks the ranges in the order of their addresses and
\* reaches every one of them.
IndexIsAddressOrder ==
    LET count == GetCount(map_)
        at(i) == RetrieveRangeAtIndex(map_, i)
    IN  /\ {at(i) : i \in 0..(count - 1)} = DOMAIN map_
        /\ \A i \in 1..(count - 1) : at(i - 1) < map_[at(i)].base

\* The ranges [base, base + size) that meet no stored range and fit.
Acceptable(m, base, size) ==
    /\ size > 0 /\ base + size - 1 <= Max
    /\ \A h \in DOMAIN m : h < base \/ m[h].base > base + size - 1

\* StoreRange returns true, and stores the range, exactly when the range is not
\* empty, does not wrap and meets no stored one; otherwise nothing changes.
StoresIffFree ==
    [][last'.op = "store" =>
          LET base == last'.base
              high == last'.base + last'.size - 1
          IN  /\ last'.result = Acceptable(map_, base, last'.size)
              /\ last'.result => /\ DOMAIN map_' = DOMAIN map_ \cup {high}
                                 /\ map_'[high] = [base |-> base, entry |-> last'.entry]
                                 /\ \A h \in DOMAIN map_ : map_'[h] = map_[h]
              /\ ~last'.result => map_' = map_
      ]_vars
=============================================================================
