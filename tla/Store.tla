-------------------------------- MODULE Store --------------------------------
(***************************************************************************)
(* The object table of one resource kind (internal/cluster/store.go): one  *)
(* insertion-ordered bucket per namespace, with tombstones, a name index   *)
(* and compaction, and the sorted list of namespaces that have a bucket.   *)
(*                                                                         *)
(* Namespaces are numbers in the order of their names.  Slots and          *)
(* positions are counted from 1, where the code counts from 0.             *)
(***************************************************************************)
EXTENDS Integers, Sequences, FiniteSets

CONSTANTS
    Namespaces,
    Names,
    Vals,        \* what distinguishes two objects of one name
    Tomb,        \* a tombstone: the nil object
    CompactAt    \* tombstones a bucket must have before it is compacted

ASSUME StoreAssumption ==
    /\ Namespaces \subseteq Nat
    /\ CompactAt \in Nat \ {0}
    /\ Tomb \notin [name : Names, val : Vals] /\ Tomb \notin Vals

VARIABLES
    order,   \* sorted names of the namespaces that have a bucket
    slots,   \* slots[ns]: the bucket's objects and tombstones
    index,   \* index[ns][name]: its slot, or 0
    dead,    \* dead[ns]: tombstones in the bucket
    total    \* live objects

storeVars == <<order, slots, index, dead, total>>

Objects == [name : Names, val : Vals]

StoreInit ==
    /\ order = <<>>
    /\ slots = [ns \in Namespaces |-> <<>>]
    /\ index = [ns \in Namespaces |-> [n \in Names |-> 0]]
    /\ dead = [ns \in Namespaces |-> 0]
    /\ total = 0

Buckets == {order[i] : i \in 1 .. Len(order)}

\* Where bucketFor inserts ns: before the first larger name.
PlaceOf(ns) == 1 + Cardinality({x \in Buckets : x < ns})

\* bucketFor(ns, true): the sorted list after it.
WithBucket(ns) ==
    IF ns \in Buckets THEN order
    ELSE SubSeq(order, 1, PlaceOf(ns) - 1) \o <<ns>>
            \o SubSeq(order, PlaceOf(ns), Len(order))

\* Fault: an object that is there already gets a new slot.
PutLast(ns, o) ==
    /\ order' = WithBucket(ns)
    /\ slots' = [slots EXCEPT ![ns] = Append(@, o)]
    /\ index' = [index EXCEPT ![ns][o.name] = Len(slots[ns]) + 1]
    /\ total' = total + (IF index[ns][o.name] = 0 THEN 1 ELSE 0)
    /\ UNCHANGED dead

\* An object that is there already is replaced in its slot.
Put(ns, o) ==
    /\ order' = WithBucket(ns)
    /\ LET i == index[ns][o.name]
       IN IF i # 0
          THEN /\ slots' = [slots EXCEPT ![ns][i] = o]
               /\ UNCHANGED <<index, total>>
          ELSE /\ slots' = [slots EXCEPT ![ns] = Append(@, o)]
               /\ index' = [index EXCEPT ![ns][o.name] = Len(slots[ns]) + 1]
               /\ total' = total + 1
    /\ UNCHANGED dead

\* Positions of the live objects of a bucket.
LiveOf(q) == {i \in DOMAIN q : q[i] # Tomb}

\* What compaction keeps of a bucket: the live objects, in their order.
Kept(q) ==
    LET Rank(i) == Cardinality({j \in LiveOf(q) : j <= i})
    IN [k \in 1 .. Cardinality(LiveOf(q)) |-> q[CHOOSE i \in LiveOf(q) : Rank(i) = k]]

\* The index of a compacted bucket.
Reindex(q) ==
    [n \in Names |-> IF \E i \in DOMAIN q : q[i].name = n
                     THEN CHOOSE i \in DOMAIN q : q[i].name = n ELSE 0]

\* Fault: compaction does not reset the tombstone count.
DeadKept(d, compacts) == d

DeadAfter(d, compacts) == IF compacts THEN 0 ELSE d

\* maybeCompact goes ahead with d tombstones among n slots.
Compacts(d, n) == d >= CompactAt /\ d * 2 >= n

Delete(ns, n) ==
    /\ index[ns][n] # 0
    /\ LET q    == [slots[ns] EXCEPT ![index[ns][n]] = Tomb]
           was  == [index[ns] EXCEPT ![n] = 0]
           d    == dead[ns] + 1
           go   == Compacts(d, Len(q))
       IN /\ slots' = [slots EXCEPT ![ns] = IF go THEN Kept(q) ELSE q]
          /\ index' = [index EXCEPT ![ns] = IF go THEN Reindex(Kept(q)) ELSE was]
          /\ dead' = [dead EXCEPT ![ns] = DeadAfter(d, go)]
    /\ total' = total - 1
    /\ UNCHANGED order

-----------------------------------------------------------------------------
(* Properties.                                                             *)

\* Positions of live objects in a bucket.
LiveIn(ns) == LiveOf(slots[ns])

\* Types of the variables.
StoreTypeOK ==
    /\ order \in Seq(Namespaces)
    /\ \A ns \in Namespaces :
        /\ \A i \in DOMAIN slots[ns] : slots[ns][i] \in Objects \cup {Tomb}
        /\ index[ns] \in [Names -> 0 .. Len(slots[ns])]
        /\ dead[ns] \in 0 .. Len(slots[ns])
    /\ total \in Nat

\* The index and the slots say the same: an indexed name is found in its slot,
\* and every live object is indexed, whatever was deleted, put and compacted.
IndexIsExact ==
    \A ns \in Namespaces :
        /\ \A n \in Names : index[ns][n] # 0 =>
              /\ index[ns][n] \in LiveIn(ns)
              /\ slots[ns][index[ns][n]].name = n
        /\ \A i \in LiveIn(ns) : index[ns][slots[ns][i].name] = i

\* Len and LenNS, which are computed without a scan, are what a scan finds.
CountsAreExact ==
    /\ \A ns \in Namespaces : Len(slots[ns]) - dead[ns] = Cardinality(LiveIn(ns))
    /\ total = Cardinality({x \in Namespaces \X Names : index[x[1]][x[2]] # 0})

\* Namespaces are listed once, in name order (a LIST depends on it).
NamespacesSorted == \A i, j \in DOMAIN order : i < j => order[i] < order[j]

\* Get
Lookup(ns, n) == IF index[ns][n] = 0 THEN Tomb ELSE slots[ns][index[ns][n]].val

Table == INSTANCE ObjectMap WITH
    None <- Tomb,
    map  <- [ns \in Namespaces |-> [n \in Names |-> Lookup(ns, n)]]

\* The store implements a map from names to objects: no compaction, tombstone
\* or replacement is visible through Get.
ImplementsMap == Table!MapSpec
=============================================================================
