------------------------------ MODULE StoreProofs ------------------------------
(***************************************************************************)
(* The object table keeps its index, its counts and its order through any  *)
(* puts, replacements, deletions and compactions, for every set of names   *)
(* and namespaces, and implements a map from names to objects.             *)
(*                                                                         *)
(* The invariant is one condition per bucket, Sound, which each of the     *)
(* three things that happen to a bucket keeps.                             *)
(***************************************************************************)
EXTENDS ListPages, FiniteSetTheorems, SequenceTheorems, TLAPS

Slots == Objects \cup {Tomb}

\* A bucket whose index and tombstone count tell the truth.
Sound(q, idx, d) ==
    /\ q \in Seq(Slots)
    /\ idx \in [Names -> 0 .. Len(q)]
    /\ \A n \in Names : idx[n] # 0 => idx[n] \in LiveOf(q) /\ q[idx[n]].name = n
    /\ \A i \in LiveOf(q) : idx[q[i].name] = i
    /\ d \in Nat
    /\ Len(q) - d = Cardinality(LiveOf(q))

\* The names that are indexed.
Used == {x \in Namespaces \X Names : index[x[1]][x[2]] # 0}

StoreInv ==
    /\ order \in Seq(Namespaces)
    /\ NamespacesSorted
    /\ slots \in [Namespaces -> Seq(Slots)]
    /\ index \in [Namespaces -> [Names -> Nat]]
    /\ dead \in [Namespaces -> Nat]
    /\ \A ns \in Namespaces : Sound(slots[ns], index[ns], dead[ns])
    /\ IsFiniteSet(Used)
    /\ total = Cardinality(Used)

-----------------------------------------------------------------------------
(* Buckets.                                                                *)

\* A live slot holds an object, and the slots are finitely many.
LEMMA LiveSlots ==
    ASSUME NEW q \in Seq(Slots)
    PROVE  /\ LiveOf(q) \subseteq 1 .. Len(q)
           /\ \A i \in LiveOf(q) : q[i] \in Objects /\ q[i].name \in Names
           /\ IsFiniteSet(LiveOf(q))
           /\ Cardinality(LiveOf(q)) \in 0 .. Len(q)
<1>1. Len(q) \in Nat /\ DOMAIN q = 1 .. Len(q) /\ q \in [1 .. Len(q) -> Slots]
  BY LenProperties
<1>2. LiveOf(q) \subseteq 1 .. Len(q)
  BY <1>1 DEF LiveOf
<1>3. \A i \in LiveOf(q) : q[i] \in Objects /\ q[i].name \in Names
  BY <1>1 DEF LiveOf, Slots, Objects
<1>4. IsFiniteSet(1 .. Len(q)) /\ Cardinality(1 .. Len(q)) = Len(q)
  BY <1>1, FS_Interval
<1>5. /\ IsFiniteSet(LiveOf(q))
      /\ Cardinality(LiveOf(q)) <= Len(q)
      /\ Cardinality(LiveOf(q)) \in Nat
  BY <1>2, <1>4, FS_Subset, FS_CardinalityType
<1> QED
  BY <1>1, <1>2, <1>3, <1>5

\* A tombstone is no object.
LEMMA TombIsNoObject == Tomb \notin Objects
  BY StoreAssumption DEF Objects

\* An empty bucket is sound.
LEMMA EmptyIsSound == Sound(<<>>, [n \in Names |-> 0], 0)
<1>1. <<>> \in Seq(Slots) /\ Len(<<>>) = 0
  BY EmptySeq
<1>2. LiveOf(<<>>) = {}
  BY DEF LiveOf
<1>3. Cardinality(LiveOf(<<>>)) = 0
  BY <1>2, FS_EmptySet
<1> QED
  BY <1>1, <1>2, <1>3 DEF Sound

\* A replaced object stays in its slot.
LEMMA ReplaceIsSound ==
    ASSUME NEW q, NEW idx, NEW d, Sound(q, idx, d),
           NEW o \in Objects, idx[o.name] # 0
    PROVE  Sound([q EXCEPT ![idx[o.name]] = o], idx, d)
<1> DEFINE i == idx[o.name]
           r == [q EXCEPT ![i] = o]
<1>1. o.name \in Names /\ o # Tomb /\ o \in Slots
  BY TombIsNoObject DEF Objects, Slots
<1>2. i \in LiveOf(q) /\ q[i].name = o.name /\ i \in 1 .. Len(q)
  BY <1>1, LiveSlots DEF Sound
<1>3. /\ r \in Seq(Slots) /\ Len(r) = Len(q)
      /\ \A j \in 1 .. Len(q) : r[j] = IF j = i THEN o ELSE q[j]
  BY <1>1, <1>2, ExceptSeq DEF Sound
<1>4. DOMAIN r = 1 .. Len(q) /\ DOMAIN q = 1 .. Len(q)
  BY <1>3, LenProperties DEF Sound
<1>5. LiveOf(r) = LiveOf(q)
  BY <1>1, <1>2, <1>3, <1>4 DEF LiveOf
<1>6. \A j \in LiveOf(q) : r[j].name = q[j].name
  BY <1>2, <1>3, LiveSlots DEF Sound
<1> HIDE DEF r, i
<1>7. Sound(r, idx, d)
  BY <1>3, <1>5, <1>6 DEF Sound
<1> QED
  BY <1>7 DEF r, i

\* A new object goes into a slot of its own.
LEMMA AppendIsSound ==
    ASSUME NEW q, NEW idx, NEW d, Sound(q, idx, d),
           NEW o \in Objects, idx[o.name] = 0
    PROVE  Sound(Append(q, o), [idx EXCEPT ![o.name] = Len(q) + 1], d)
<1> DEFINE r == Append(q, o)
           t == [idx EXCEPT ![o.name] = Len(q) + 1]
<1>1. o.name \in Names /\ o # Tomb /\ o \in Slots
  BY TombIsNoObject DEF Objects, Slots
<1>2. /\ r \in Seq(Slots) /\ Len(r) = Len(q) + 1 /\ Len(q) \in Nat
      /\ \A j \in 1 .. Len(q) : r[j] = q[j]
      /\ r[Len(q) + 1] = o
  BY <1>1, AppendProperties, LenProperties DEF Sound
<1>3. DOMAIN r = 1 .. Len(q) + 1 /\ DOMAIN q = 1 .. Len(q)
  BY <1>2, LenProperties DEF Sound
<1>4. LiveOf(r) = LiveOf(q) \cup {Len(q) + 1}
  BY <1>1, <1>2, <1>3 DEF LiveOf
<1>5. /\ LiveOf(q) \subseteq 1 .. Len(q)
      /\ \A j \in LiveOf(q) : q[j].name \in Names
      /\ IsFiniteSet(LiveOf(q)) /\ Cardinality(LiveOf(q)) \in Nat
  BY LiveSlots DEF Sound
<1> HIDE DEF r
<1>6. Cardinality(LiveOf(r)) = Cardinality(LiveOf(q)) + 1
  <2> DEFINE new == Len(q) + 1
  <2>1. new \notin LiveOf(q)
    BY <1>2, <1>5
  <2> HIDE DEF new
  <2>2. Cardinality(LiveOf(q) \cup {new}) = Cardinality(LiveOf(q)) + 1
    BY <1>5, <2>1, FS_AddElement
  <2> QED
    BY <1>4, <2>2 DEF new
<1>7. t \in [Names -> 0 .. Len(r)]
  BY <1>1, <1>2 DEF Sound
<1>8. \A n \in Names : t[n] = IF n = o.name THEN Len(q) + 1 ELSE idx[n]
  BY <1>1 DEF Sound
<1> HIDE DEF t
<1>9. \A n \in Names : t[n] # 0 => t[n] \in LiveOf(r) /\ r[t[n]].name = n
  BY <1>1, <1>2, <1>4, <1>5, <1>8 DEF Sound
<1>10. \A j \in LiveOf(q) : q[j].name # o.name
  BY <1>5 DEF Sound
<1>11. \A j \in LiveOf(r) : t[r[j].name] = j
  BY <1>1, <1>2, <1>4, <1>5, <1>8, <1>10 DEF Sound
<1>12. Sound(r, t, d)
  BY <1>2, <1>5, <1>6, <1>7, <1>9, <1>11 DEF Sound
<1> QED
  BY <1>12 DEF r, t

\* A deleted object leaves a tombstone.
LEMMA TombIsSound ==
    ASSUME NEW q, NEW idx, NEW d, Sound(q, idx, d),
           NEW n \in Names, idx[n] # 0
    PROVE  Sound([q EXCEPT ![idx[n]] = Tomb], [idx EXCEPT ![n] = 0], d + 1)
<1> DEFINE i == idx[n]
           r == [q EXCEPT ![i] = Tomb]
           t == [idx EXCEPT ![n] = 0]
<1>1. Tomb \in Slots
  BY DEF Slots
<1>2. i \in LiveOf(q) /\ q[i].name = n /\ i \in 1 .. Len(q)
  BY LiveSlots DEF Sound
<1>3. /\ r \in Seq(Slots) /\ Len(r) = Len(q) /\ Len(q) \in Nat
      /\ \A j \in 1 .. Len(q) : r[j] = IF j = i THEN Tomb ELSE q[j]
  BY <1>1, <1>2, ExceptSeq, LenProperties DEF Sound
<1>4. DOMAIN r = 1 .. Len(q) /\ DOMAIN q = 1 .. Len(q)
  BY <1>3, LenProperties DEF Sound
<1>5. LiveOf(r) = LiveOf(q) \ {i}
  BY <1>2, <1>3, <1>4 DEF LiveOf
<1>6. /\ IsFiniteSet(LiveOf(q)) /\ Cardinality(LiveOf(q)) \in Nat
      /\ \A j \in LiveOf(q) : q[j].name \in Names /\ j \in 1 .. Len(q)
  BY LiveSlots DEF Sound
<1>7. Cardinality(LiveOf(r)) = Cardinality(LiveOf(q)) - 1
  BY <1>2, <1>5, <1>6, FS_RemoveElement
<1>8. t \in [Names -> 0 .. Len(q)]
  BY <1>3 DEF Sound
<1>9. \A m \in Names : t[m] = IF m = n THEN 0 ELSE idx[m]
  BY DEF Sound
<1>10. \A j \in LiveOf(r) : r[j] = q[j] /\ j \in LiveOf(q) /\ q[j].name # n
  BY <1>2, <1>3, <1>5, <1>6 DEF Sound
<1> HIDE DEF r, t, i
<1>11. \A m \in Names : t[m] # 0 => t[m] \in LiveOf(r) /\ r[t[m]].name = m
  <2> SUFFICES ASSUME NEW m \in Names, t[m] # 0
               PROVE  t[m] \in LiveOf(r) /\ r[t[m]].name = m
    OBVIOUS
  <2>1. m # n /\ t[m] = idx[m] /\ idx[m] \in LiveOf(q) /\ q[idx[m]].name = m
    BY <1>9 DEF Sound
  <2>2. idx[m] # i
    BY <1>2, <2>1
  <2> QED
    BY <1>5, <1>10, <2>1, <2>2
<1>12. \A j \in LiveOf(r) : t[r[j].name] = j
  BY <1>6, <1>9, <1>10 DEF Sound
<1>13. Sound(r, t, d + 1)
  BY <1>3, <1>6, <1>7, <1>8, <1>11, <1>12 DEF Sound
<1> QED
  BY <1>13 DEF r, t, i

\* Compaction keeps every live object once: its slots are the live slots of
\* the old bucket, in a one-to-one correspondence that keeps their order.
LEMMA KeptFacts ==
    ASSUME NEW q \in Seq(Slots)
    PROVE  \E g \in [1 .. Cardinality(LiveOf(q)) -> LiveOf(q)] :
             /\ \A k \in DOMAIN g : Kept(q)[k] = q[g[k]]
             /\ \A j, k \in DOMAIN g : g[j] = g[k] => j = k
             /\ \A i \in LiveOf(q) : \E k \in DOMAIN g : g[k] = i
             /\ \A k \in DOMAIN g : Cardinality({j \in LiveOf(q) : j <= g[k]}) = k
<1> DEFINE L == LiveOf(q)
           n == Cardinality(L)
           Upto(i) == {j \in L : j <= i}
           r == [i \in L |-> Cardinality(Upto(i))]
           g == [k \in 1 .. n |-> CHOOSE i \in L : Cardinality(Upto(i)) = k]
<1>1. L \subseteq Nat /\ IsFiniteSet(L) /\ n \in Nat
  BY LiveSlots, LenProperties
<1> HIDE DEF L
<1>2. /\ \A i \in L : Upto(i) \in SUBSET L /\ i \in Upto(i)
      /\ \A i, j \in L : i < j => Upto(i) \in SUBSET Upto(j) /\ j \notin Upto(i)
  <2>1. \A i \in L : Upto(i) \in SUBSET L
    OBVIOUS
  <2>2. \A i \in L : i \in Upto(i)
    BY <1>1
  <2>3. \A i, j \in L : i < j => Upto(i) \subseteq Upto(j) /\ j \notin Upto(i)
    <3> SUFFICES ASSUME NEW i \in L, NEW j \in L, i < j
                 PROVE  Upto(i) \subseteq Upto(j) /\ j \notin Upto(i)
      OBVIOUS
    <3>1. i \in Nat /\ j \in Nat
      BY <1>1
    <3>2. \A k \in L : k <= i => k <= j
      BY <1>1, <3>1
    <3>3. Upto(i) \subseteq Upto(j)
      BY <3>2, Zenon
    <3>4. ~ (j <= i)
      BY <3>1
    <3> QED
      BY <3>3, <3>4, Zenon
  <2> QED
    BY <2>1, <2>2, <2>3
<1> HIDE DEF Upto
<1>14. \A i \in L : IsFiniteSet(Upto(i)) /\ Cardinality(Upto(i)) \in 1 .. n
  <2> SUFFICES ASSUME NEW i \in L
               PROVE  IsFiniteSet(Upto(i)) /\ Cardinality(Upto(i)) \in 1 .. n
    OBVIOUS
  <2>2. IsFiniteSet(Upto(i)) /\ Cardinality(Upto(i)) <= n
    BY <1>1, <1>2, FS_Subset
  <2>3. Cardinality(Upto(i)) \in Nat
    BY <2>2, FS_CardinalityType
  <2>4. Cardinality(Upto(i)) # 0
    BY <1>2, <2>2, FS_EmptySet
  <2> QED
    BY <1>1, <2>2, <2>3, <2>4
<1>3. \A i, j \in L : i < j => Cardinality(Upto(i)) < Cardinality(Upto(j))
  <2> SUFFICES ASSUME NEW i \in L, NEW j \in L, i < j
               PROVE  Cardinality(Upto(i)) < Cardinality(Upto(j))
    OBVIOUS
  <2>1. Upto(i) \in SUBSET Upto(j) /\ Upto(i) # Upto(j)
    BY <1>2
  <2>2. /\ Cardinality(Upto(i)) <= Cardinality(Upto(j))
        /\ Cardinality(Upto(i)) # Cardinality(Upto(j))
    BY <1>14, <2>1, FS_Subset
  <2> QED
    BY <1>14, <2>2
<1>4. \A i, j \in L : Cardinality(Upto(i)) = Cardinality(Upto(j)) => i = j
  BY <1>1, <1>14, <1>3
<1>5. r \in Injection(L, 1 .. n)
  BY <1>14, <1>4 DEF Injection, IsInjective
<1>6. r \in Surjection(L, 1 .. n)
  BY <1>1, <1>5, FS_Injection, FS_Interval
<1>7. \A k \in 1 .. n : \E i \in L : Cardinality(Upto(i)) = k
  BY <1>6 DEF Surjection
<1>8. \A k \in 1 .. n : g[k] \in L /\ Cardinality(Upto(g[k])) = k
  BY <1>7
<1>9. g \in [1 .. n -> L] /\ DOMAIN g = 1 .. n
  BY <1>8
<1>10. \A i \in L : g[Cardinality(Upto(i))] = i
  BY <1>14, <1>4, <1>8
<1>11. \A k \in 1 .. n : Kept(q)[k] = q[g[k]]
  BY DEF Kept, L, Upto
<1> HIDE DEF g
<1>12. \A j, k \in 1 .. n : g[j] = g[k] => j = k
  BY <1>8
<1>13. \A i \in L : \E k \in 1 .. n : g[k] = i
  BY <1>14, <1>10
<1> HIDE DEF n, r
<1>15. /\ g \in [1 .. n -> L]
       /\ \A k \in DOMAIN g : Kept(q)[k] = q[g[k]]
       /\ \A j, k \in DOMAIN g : g[j] = g[k] => j = k
       /\ \A i \in L : \E k \in DOMAIN g : g[k] = i
       /\ \A k \in DOMAIN g : Cardinality(Upto(g[k])) = k
  BY <1>8, <1>9, <1>11, <1>12, <1>13
<1> QED
  BY <1>15 DEF L, n, Upto

\* Compaction loses no name, and indexes every object where it is now.
LEMMA CompactIsSound ==
    ASSUME NEW q, NEW idx, NEW d, Sound(q, idx, d)
    PROVE  /\ Sound(Kept(q), Reindex(Kept(q)), 0)
           /\ \A n \in Names :
                /\ Reindex(Kept(q))[n] # 0 <=> idx[n] # 0
                /\ idx[n] # 0 => Kept(q)[Reindex(Kept(q))[n]] = q[idx[n]]
<1> DEFINE K == Kept(q)
           m == Cardinality(LiveOf(q))
           t == Reindex(K)
<1>1. /\ LiveOf(q) \subseteq 1 .. Len(q) /\ m \in Nat
      /\ \A i \in LiveOf(q) : q[i] \in Objects /\ q[i].name \in Names
  BY LiveSlots DEF Sound
<1>2. PICK g \in [1 .. m -> LiveOf(q)] :
        /\ \A k \in DOMAIN g : K[k] = q[g[k]]
        /\ \A j, k \in DOMAIN g : g[j] = g[k] => j = k
        /\ \A i \in LiveOf(q) : \E k \in DOMAIN g : g[k] = i
  BY KeptFacts DEF Sound
<1>3. DOMAIN g = 1 .. m
  OBVIOUS
<1>4. DOMAIN K = 1 .. m
  BY DEF Kept
<1>5. \A k \in 1 .. m : K[k] \in Objects /\ K[k].name \in Names /\ K[k] # Tomb
  BY <1>1, <1>2, <1>3, TombIsNoObject
<1>6. K = [k \in 1 .. m |-> K[k]]
  BY DEF Kept
<1>7. K \in Seq(Slots)
  <2>1. K \in [1 .. m -> Slots]
    BY <1>5, <1>6 DEF Slots
  <2> QED
    BY <1>1, <2>1, SeqDef
<1>8. Len(K) = m
  BY <1>1, <1>4, <1>7, LenProperties
<1>9. LiveOf(K) = 1 .. m
  BY <1>4, <1>5 DEF LiveOf
<1>10. Cardinality(LiveOf(K)) = m
  BY <1>1, <1>9, FS_Interval
<1>11. \A j, k \in 1 .. m : K[j].name = K[k].name => j = k
  <2> SUFFICES ASSUME NEW j \in 1 .. m, NEW k \in 1 .. m, K[j].name = K[k].name
               PROVE  j = k
    OBVIOUS
  <2>1. q[g[j]].name = q[g[k]].name /\ g[j] \in LiveOf(q) /\ g[k] \in LiveOf(q)
    BY <1>2, <1>3
  <2>2. g[j] = g[k]
    BY <2>1 DEF Sound
  <2> QED
    BY <1>2, <1>3, <2>2
<1>12. t = [n \in Names |-> IF \E i \in 1 .. m : K[i].name = n
                            THEN CHOOSE i \in 1 .. m : K[i].name = n ELSE 0]
  BY <1>4 DEF Reindex
<1> HIDE DEF K, t
<1>13. t \in [Names -> 0 .. m]
  <2>1. \A n \in Names : t[n] \in 0 .. m
    BY <1>1, <1>12
  <2> QED
    BY <1>12, <2>1
<1>14. \A n \in Names : t[n] # 0 => t[n] \in 1 .. m /\ K[t[n]].name = n
  BY <1>1, <1>12
<1>15. \A i \in 1 .. m : t[K[i].name] = i
  BY <1>5, <1>11, <1>12
<1>16. Sound(K, t, 0)
  BY <1>1, <1>7, <1>8, <1>9, <1>10, <1>13, <1>14, <1>15 DEF Sound
<1>17. \A n \in Names : idx[n] # 0 => t[n] # 0 /\ K[t[n]] = q[idx[n]]
  <2> SUFFICES ASSUME NEW n \in Names, idx[n] # 0
               PROVE  t[n] # 0 /\ K[t[n]] = q[idx[n]]
    OBVIOUS
  <2>1. idx[n] \in LiveOf(q) /\ q[idx[n]].name = n
    BY DEF Sound
  <2>2. PICK k \in 1 .. m : g[k] = idx[n]
    BY <1>2, <1>3, <2>1
  <2>3. K[k] = q[idx[n]]
    BY <1>2, <1>3, <2>2
  <2>4. t[n] = k
    BY <1>15, <2>1, <2>3
  <2> QED
    BY <1>1, <2>3, <2>4
<1>18. \A n \in Names : t[n] # 0 => idx[n] # 0
  <2> SUFFICES ASSUME NEW n \in Names, t[n] # 0
               PROVE  idx[n] # 0
    OBVIOUS
  <2>1. t[n] \in 1 .. m /\ K[t[n]].name = n
    BY <1>14
  <2>2. g[t[n]] \in LiveOf(q) /\ q[g[t[n]]].name = n
    BY <1>2, <1>3, <2>1
  <2>3. idx[n] = g[t[n]]
    BY <2>2 DEF Sound
  <2> QED
    BY <1>1, <2>2, <2>3
<1> QED
  BY <1>16, <1>17, <1>18 DEF K, t

-----------------------------------------------------------------------------
(* The list of namespaces.                                                 *)

\* PlaceOf finds the place: the names before it are smaller, and the names
\* from it on are larger.
LEMMA PlaceSplits ==
    ASSUME order \in Seq(Namespaces), NamespacesSorted,
           NEW ns \in Namespaces, ns \notin Buckets
    PROVE  /\ PlaceOf(ns) \in 1 .. Len(order) + 1
           /\ \A i \in 1 .. Len(order) : i < PlaceOf(ns) => order[i] < ns
           /\ \A i \in 1 .. Len(order) : i >= PlaceOf(ns) => ns < order[i]
<1> DEFINE D == 1 .. Len(order)
           T == {i \in D : order[i] < ns}
           S == {x \in Buckets : x < ns}
           f == [i \in T |-> order[i]]
           c == Cardinality(T)
<1>1. /\ Len(order) \in Nat /\ DOMAIN order = D
      /\ \A i \in D : order[i] \in Nat /\ order[i] \in Buckets
  BY StoreAssumption, LenProperties DEF Buckets
<1>2. ns \in Nat /\ \A i \in D : order[i] # ns
  BY <1>1, StoreAssumption DEF Buckets
<1>3. \A i, j \in D : i < j => order[i] < order[j]
  BY <1>1 DEF NamespacesSorted
<1>4. IsFiniteSet(D) /\ Cardinality(D) = Len(order)
  BY <1>1, FS_Interval
<1>5. T \in SUBSET D
  OBVIOUS
<1>6. IsFiniteSet(T) /\ c \in Nat /\ c <= Len(order)
  BY <1>4, <1>5, FS_Subset, FS_CardinalityType
<1>7. f \in Bijection(T, S)
  <2>1. f \in [T -> S]
    BY <1>1
  <2>2. \A i, j \in T : f[i] = f[j] => i = j
    BY <1>1, <1>3
  <2>3. \A x \in S : \E i \in T : f[i] = x
    BY DEF Buckets
  <2> QED
    BY <2>1, <2>2, <2>3 DEF Bijection, Injection, Surjection, IsInjective
<1>8. Cardinality(S) = c
  BY <1>6, <1>7, FS_Bijection DEF ExistsBijection
<1>9. PlaceOf(ns) = c + 1
  BY <1>6, <1>8 DEF PlaceOf
<1> HIDE DEF c, f, S
<1>10. \A i \in T : i <= c
  <2> SUFFICES ASSUME NEW i \in T PROVE i <= c
    OBVIOUS
  <2>1. i \in Nat /\ i \in D /\ order[i] < ns
    BY <1>1
  <2>2. 1 .. i \in SUBSET T
    BY <1>1, <1>2, <1>3, <2>1
  <2>3. Cardinality(1 .. i) = i
    BY <2>1, FS_Interval
  <2> HIDE DEF T
  <2> QED
    BY <1>6, <2>2, <2>3, FS_Subset DEF c
<1>11. \A i \in D \ T : c < i
  <2> SUFFICES ASSUME NEW i \in D \ T PROVE c < i
    OBVIOUS
  <2>1. i \in Nat /\ i >= 1 /\ ns < order[i]
    BY <1>1, <1>2
  <2>2. T \in SUBSET (1 .. i - 1)
    BY <1>1, <1>2, <1>3, <2>1
  <2>3. IsFiniteSet(1 .. i - 1) /\ Cardinality(1 .. i - 1) = i - 1
    <3> DEFINE k == i - 1
    <3>1. k \in Nat
      BY <2>1
    <3> HIDE DEF k
    <3>3. 1 \in Int /\ k \in Int
      BY <3>1
    <3>4. /\ IsFiniteSet(1 .. k)
          /\ Cardinality(1 .. k) = IF 1 > k THEN 0 ELSE k - 1 + 1
      BY <3>3, FS_Interval, Zenon
    <3>2. IsFiniteSet(1 .. k) /\ Cardinality(1 .. k) = k
      BY <3>1, <3>4
    <3> QED
      BY <3>2 DEF k
  <2> HIDE DEF T
  <2>4. c <= i - 1
    BY <2>2, <2>3, FS_Subset DEF c
  <2> QED
    BY <1>6, <2>1, <2>4
<1>12. \A i \in D : i < c + 1 => i \in T
  BY <1>1, <1>6, <1>11
<1>13. \A i \in D : i >= c + 1 => i \notin T
  BY <1>1, <1>6, <1>10
<1>14. \A i \in D : i \notin T => ns < order[i]
  BY <1>1, <1>2
<1> QED
  BY <1>1, <1>6, <1>9, <1>12, <1>13, <1>14

\* A new bucket goes between the others: what was from its place on is one
\* place further.
LEMMA BucketShifts ==
    ASSUME order \in Seq(Namespaces), NamespacesSorted,
           NEW ns \in Namespaces, ns \notin Buckets
    PROVE  /\ WithBucket(ns) \in Seq(Namespaces)
           /\ Len(WithBucket(ns)) = Len(order) + 1
           /\ \A i \in 1 .. Len(order) + 1 :
                 WithBucket(ns)[i] = IF i < PlaceOf(ns) THEN order[i]
                                     ELSE IF i = PlaceOf(ns) THEN ns ELSE order[i - 1]
<1> DEFINE w == WithBucket(ns)
           p == PlaceOf(ns)
           n == Len(order)
           a == SubSeq(order, 1, p - 1)
           z == SubSeq(order, p, n)
<1>1. p \in 1 .. n + 1 /\ n \in Nat
  BY PlaceSplits, LenProperties
<1>2. /\ DOMAIN order = 1 .. n
      /\ \A i \in 1 .. n : order[i] \in Namespaces
  BY LenProperties
<1> HIDE DEF p, n
<1>3. /\ a \in Seq(Namespaces) /\ Len(a) = p - 1
      /\ \A i \in 1 .. p - 1 : a[i] = order[i]
  <2>1. \A i \in 1 .. p - 1 : order[i] \in Namespaces
    BY <1>1, <1>2
  <2>2. p - 1 \in Int /\ 1 \in Int
    BY <1>1
  <2>3. /\ a \in Seq(Namespaces)
        /\ Len(a) = IF 1 <= p - 1 THEN p - 1 - 1 + 1 ELSE 0
        /\ \A i \in 1 .. p - 1 - 1 + 1 : a[i] = order[1 + i - 1]
    BY <2>1, <2>2, SubSeqProperties
  <2> HIDE DEF a
  <2> QED
    BY <1>1, <2>3
<1>4. /\ z \in Seq(Namespaces) /\ Len(z) = n - p + 1
      /\ \A i \in 1 .. n - p + 1 : z[i] = order[p + i - 1]
  <2>1. \A i \in p .. n : order[i] \in Namespaces
    BY <1>1, <1>2
  <2>2. p \in Int /\ n \in Int
    BY <1>1
  <2>3. /\ z \in Seq(Namespaces)
        /\ Len(z) = IF p <= n THEN n - p + 1 ELSE 0
        /\ \A i \in 1 .. n - p + 1 : z[i] = order[p + i - 1]
    BY <2>1, <2>2, SubSeqProperties
  <2> HIDE DEF z
  <2> QED
    BY <1>1, <2>3
<1>5. w = a \o <<ns>> \o z
  BY DEF WithBucket, p, n
<1> HIDE DEF a, z, w
<1>6. /\ <<ns>> \in Seq(Namespaces) /\ Len(<<ns>>) = 1 /\ <<ns>>[1] = ns
  OBVIOUS
<1> DEFINE b == a \o <<ns>>
<1>7. /\ b \in Seq(Namespaces) /\ Len(b) = p
      /\ \A i \in 1 .. p : b[i] = IF i < p THEN order[i] ELSE ns
  <2>1. /\ b \in Seq(Namespaces) /\ Len(b) = p - 1 + 1
        /\ \A i \in 1 .. p - 1 + 1 :
              b[i] = IF i <= p - 1 THEN a[i] ELSE <<ns>>[i - (p - 1)]
    BY <1>3, <1>6, ConcatProperties
  <2> HIDE DEF b
  <2>2. p - 1 + 1 = p /\ p \in Nat
    BY <1>1
  <2>3. \A i \in 1 .. p : b[i] = IF i <= p - 1 THEN a[i] ELSE <<ns>>[i - (p - 1)]
    BY <2>1, <2>2
  <2>4. \A i \in 1 .. p : i < p => b[i] = order[i]
    BY <1>3, <2>2, <2>3
  <2>5. b[p] = ns
    <3>1. p \in 1 .. p /\ ~ (p <= p - 1) /\ p - (p - 1) = 1
      BY <1>1
    <3> QED
      BY <1>6, <2>3, <3>1
  <2>6. \A i \in 1 .. p : ~ (i < p) => i = p
    BY <2>2
  <2> QED
    BY <2>1, <2>2, <2>4, <2>5, <2>6
<1> HIDE DEF b
<1>8. /\ b \o z \in Seq(Namespaces) /\ Len(b \o z) = n + 1
      /\ \A i \in 1 .. n + 1 :
            (b \o z)[i] = IF i < p THEN order[i]
                          ELSE IF i = p THEN ns ELSE order[i - 1]
  <2>1. /\ b \o z \in Seq(Namespaces) /\ Len(b \o z) = p + (n - p + 1)
        /\ \A i \in 1 .. p + (n - p + 1) :
              (b \o z)[i] = IF i <= p THEN b[i] ELSE z[i - p]
    <3>1. /\ b \o z \in Seq(Namespaces) /\ Len(b \o z) = Len(b) + Len(z)
          /\ \A i \in 1 .. Len(b) + Len(z) :
                (b \o z)[i] = IF i <= Len(b) THEN b[i] ELSE z[i - Len(b)]
      BY <1>4, <1>7, ConcatProperties
    <3> QED
      BY <1>4, <1>7, <3>1
  <2>2. p + (n - p + 1) = n + 1
    BY <1>1
  <2>3. ASSUME NEW i \in 1 .. n + 1
        PROVE  (b \o z)[i] = IF i < p THEN order[i]
                             ELSE IF i = p THEN ns ELSE order[i - 1]
    <3>1. CASE i <= p
      BY <1>1, <1>7, <2>1, <2>2, <3>1
    <3>2. CASE i > p
      <4>1. i - p \in 1 .. n - p + 1 /\ p + (i - p) - 1 = i - 1
        BY <1>1, <3>2
      <4>2. (b \o z)[i] = z[i - p]
        BY <1>1, <2>1, <2>2, <3>2
      <4> QED
        BY <1>1, <1>4, <3>2, <4>1, <4>2
    <3>3. i <= p \/ i > p
      BY <1>1
    <3> QED
      BY <3>1, <3>2, <3>3, Zenon
  <2> QED
    BY <2>1, <2>2, <2>3
<1>9. w = b \o z
  BY <1>5 DEF b
<1> QED
  BY <1>8, <1>9 DEF w, p, n

\* bucketFor keeps the namespaces sorted.
LEMMA BucketKeepsOrder ==
    ASSUME order \in Seq(Namespaces), NamespacesSorted, NEW ns \in Namespaces
    PROVE  LET w == WithBucket(ns)
           IN  /\ w \in Seq(Namespaces)
               /\ \A i, j \in DOMAIN w : i < j => w[i] < w[j]
<1> DEFINE w == WithBucket(ns)
           p == PlaceOf(ns)
           n == Len(order)
<1>1. CASE ns \in Buckets
  BY <1>1 DEF WithBucket, NamespacesSorted
<1>2. CASE ns \notin Buckets
  <2>1. /\ p \in 1 .. n + 1 /\ n \in Nat
        /\ \A i \in 1 .. n : i < p => order[i] < ns
        /\ \A i \in 1 .. n : i >= p => ns < order[i]
    BY <1>2, PlaceSplits, LenProperties
  <2>2. /\ DOMAIN order = 1 .. n
        /\ \A i \in 1 .. n : order[i] \in Namespaces
    BY LenProperties
  <2>3. ns \in Nat /\ \A i \in 1 .. n : order[i] \in Nat
    BY <2>2, StoreAssumption
  <2>4. \A i, j \in 1 .. n : i < j => order[i] < order[j]
    BY <2>2 DEF NamespacesSorted
  <2>5. /\ w \in Seq(Namespaces) /\ Len(w) = n + 1
        /\ \A i \in 1 .. n + 1 :
              w[i] = IF i < p THEN order[i] ELSE IF i = p THEN ns ELSE order[i - 1]
    BY <1>2, BucketShifts
  <2> HIDE DEF p, n, w
  <2>6. DOMAIN w = 1 .. n + 1
    BY <2>1, <2>5, LenProperties
  <2>7. ASSUME NEW i \in 1 .. n + 1, NEW j \in 1 .. n + 1, i < j
         PROVE  w[i] < w[j]
    <3>1. /\ w[i] = IF i < p THEN order[i] ELSE IF i = p THEN ns ELSE order[i - 1]
          /\ w[j] = IF j < p THEN order[j] ELSE IF j = p THEN ns ELSE order[j - 1]
      BY <2>5
    <3>2. CASE j < p
      BY <2>1, <2>3, <2>4, <2>7, <3>1, <3>2
    <3>3. CASE j = p
      BY <2>1, <2>3, <2>7, <3>1, <3>3
    <3>4. CASE j > p /\ i < p
      <4>1. i \in 1 .. n /\ j - 1 \in 1 .. n /\ i < j - 1
        BY <2>1, <2>7, <3>4
      <4>2. w[i] = order[i] /\ w[j] = order[j - 1]
        BY <2>1, <3>1, <3>4
      <4> QED
        BY <2>4, <4>1, <4>2
    <3>5. CASE j > p /\ i = p
      BY <2>1, <3>1, <3>5
    <3>6. CASE j > p /\ i > p
      <4>1. i - 1 \in 1 .. n /\ j - 1 \in 1 .. n /\ i - 1 < j - 1
        BY <2>1, <2>7, <3>6
      <4>2. w[i] = order[i - 1] /\ w[j] = order[j - 1]
        BY <2>1, <3>1, <3>6
      <4> QED
        BY <2>4, <4>1, <4>2
    <3> QED
      BY <2>1, <3>2, <3>3, <3>4, <3>5, <3>6
  <2> QED
    BY <2>5, <2>6, <2>7 DEF w
<1> QED
  BY <1>1, <1>2

-----------------------------------------------------------------------------
(* Operations.                                                             *)

\* Bucket ns is now q, with index idx and d tombstones; all else is as it was.
Becomes(ns, q, idx, d) ==
    /\ slots' = [slots EXCEPT ![ns] = q]
    /\ index' = [index EXCEPT ![ns] = idx]
    /\ dead' = [dead EXCEPT ![ns] = d]

\* What a step must do for StoreInv, when it changes one bucket.
LEMMA BucketStep ==
    ASSUME StoreInv, NEW ns \in Namespaces,
           NEW q, NEW idx, NEW d, Sound(q, idx, d), Becomes(ns, q, idx, d)
    PROVE  /\ slots' \in [Namespaces -> Seq(Slots)]
           /\ index' \in [Namespaces -> [Names -> Nat]]
           /\ dead' \in [Namespaces -> Nat]
           /\ \A m \in Namespaces : Sound(slots'[m], index'[m], dead'[m])
           /\ slots'[ns] = q /\ index'[ns] = idx /\ dead'[ns] = d
           /\ \A m \in Namespaces \ {ns} : /\ slots'[m] = slots[m]
                                           /\ index'[m] = index[m]
                                           /\ dead'[m] = dead[m]
<1>1. q \in Seq(Slots) /\ idx \in [Names -> 0 .. Len(q)] /\ d \in Nat
  BY DEF Sound
<1>2. idx \in [Names -> Nat]
  BY <1>1
<1>3. /\ slots'[ns] = q /\ index'[ns] = idx /\ dead'[ns] = d
      /\ \A m \in Namespaces \ {ns} : /\ slots'[m] = slots[m]
                                      /\ index'[m] = index[m]
                                      /\ dead'[m] = dead[m]
  BY DEF Becomes, StoreInv
<1>4. \A m \in Namespaces : Sound(slots'[m], index'[m], dead'[m])
  BY <1>3 DEF StoreInv
<1> QED
  BY <1>1, <1>2, <1>3, <1>4 DEF Becomes, StoreInv

\* Get after a step, told by what it was before.
Written(ns, n, v) ==
    \A ms \in Namespaces, m \in Names :
        Lookup(ms, m)' = IF ms = ns /\ m = n THEN v ELSE Lookup(ms, m)

\* Put keeps the invariant, and writes one name.
LEMMA PutKeeps ==
    ASSUME StoreInv, NEW ns \in Namespaces, NEW o \in Objects, Put(ns, o)
    PROVE  StoreInv' /\ Written(ns, o.name, o.val)
<1> DEFINE q == slots[ns]
           idx == index[ns]
           i == idx[o.name]
<1>1. o.name \in Names /\ o.val \in Vals /\ Sound(q, idx, dead[ns])
  BY DEF Objects, StoreInv
<1>2. order' \in Seq(Namespaces) /\ NamespacesSorted'
  <2>1. order' = WithBucket(ns)
    BY DEF Put
  <2> QED
    BY <2>1, BucketKeepsOrder DEF StoreInv, NamespacesSorted
<1>3. CASE i # 0
  <2> DEFINE r == [q EXCEPT ![i] = o]
  <2>1. Sound(r, idx, dead[ns])
    BY <1>1, <1>3, ReplaceIsSound
  <2>2. Becomes(ns, r, idx, dead[ns])
    BY <1>3 DEF Put, Becomes, StoreInv
  <2>3. index' = index /\ total' = total
    BY <1>3 DEF Put
  <2>4. Used' = Used
    BY <2>3 DEF Used
  <2>5. StoreInv'
    <3> HIDE DEF r
    <3> QED
      BY <1>2, <2>1, <2>2, <2>3, <2>4, BucketStep DEF StoreInv
  <2>6. i \in LiveOf(q) /\ i \in 1 .. Len(q) /\ DOMAIN q = 1 .. Len(q)
    BY <1>1, <1>3, LiveSlots, LenProperties DEF Sound
  <2>7. r[i] = o /\ \A j \in 1 .. Len(q) : j # i => r[j] = q[j]
    BY <2>6
  <2>8. \A m \in Names : idx[m] # 0 => idx[m] \in 1 .. Len(q) /\ q[idx[m]].name = m
    BY <1>1, LiveSlots DEF Sound
  <2> HIDE DEF r
  <2>9. /\ slots'[ns] = r /\ \A m \in Namespaces \ {ns} : slots'[m] = slots[m]
    BY <2>1, <2>2, BucketStep
  <2>10. Written(ns, o.name, o.val)
    <3>1. ASSUME NEW m \in Names
          PROVE  Lookup(ns, m)' = IF m = o.name THEN o.val ELSE Lookup(ns, m)
      <4>1. CASE m = o.name
        BY <1>3, <2>3, <2>7, <2>9, <4>1 DEF Lookup
      <4>2. CASE m # o.name /\ idx[m] = 0
        BY <2>3, <4>2 DEF Lookup
      <4>3. CASE m # o.name /\ idx[m] # 0
        <5>1. idx[m] # i
          BY <1>1, <1>3, <2>8, <4>3
        <5>2. r[idx[m]] = q[idx[m]]
          BY <2>7, <2>8, <4>3, <5>1
        <5> QED
          BY <2>3, <2>9, <4>3, <5>2 DEF Lookup
      <4> QED
        BY <4>1, <4>2, <4>3
    <3>2. \A ms \in Namespaces \ {ns}, m \in Names : Lookup(ms, m)' = Lookup(ms, m)
      BY <2>3, <2>9 DEF Lookup
    <3> QED
      BY <3>1, <3>2 DEF Written
  <2> QED
    BY <2>5, <2>10
<1>4. CASE i = 0
  <2> DEFINE r == Append(q, o)
             t == [idx EXCEPT ![o.name] = Len(q) + 1]
  <2>1. Sound(r, t, dead[ns])
    BY <1>1, <1>4, AppendIsSound
  <2>2. Becomes(ns, r, t, dead[ns])
    BY <1>4 DEF Put, Becomes, StoreInv
  <2>3. total' = total + 1
    BY <1>4 DEF Put
  <2>4. /\ Len(q) \in Nat /\ idx \in [Names -> 0 .. Len(q)]
        /\ r[Len(q) + 1] = o /\ \A j \in 1 .. Len(q) : r[j] = q[j]
    BY <1>1, AppendProperties, LenProperties DEF Sound, Slots
  <2>5. \A m \in Names : t[m] = IF m = o.name THEN Len(q) + 1 ELSE idx[m]
    BY <2>4
  <2> HIDE DEF r, t
  <2>6. /\ slots'[ns] = r /\ index'[ns] = t
        /\ \A m \in Namespaces \ {ns} : slots'[m] = slots[m] /\ index'[m] = index[m]
    BY <2>1, <2>2, BucketStep
  <2>7. Used' = Used \cup {<<ns, o.name>>} /\ <<ns, o.name>> \notin Used
    BY <1>1, <1>4, <2>4, <2>5, <2>6 DEF Used
  <2>8. IsFiniteSet(Used') /\ Cardinality(Used') = Cardinality(Used) + 1
    BY <2>7, FS_AddElement DEF StoreInv
  <2>9. StoreInv'
    BY <1>2, <2>1, <2>2, <2>3, <2>8, BucketStep DEF StoreInv
  <2>10. Written(ns, o.name, o.val)
    <3>1. ASSUME NEW m \in Names
          PROVE  Lookup(ns, m)' = IF m = o.name THEN o.val ELSE Lookup(ns, m)
      <4>1. CASE m = o.name
        BY <2>4, <2>5, <2>6, <4>1 DEF Lookup
      <4>2. CASE m # o.name
        <5>1. t[m] = idx[m] /\ idx[m] \in 0 .. Len(q)
          BY <2>4, <2>5, <4>2
        <5> QED
          BY <2>4, <2>6, <4>2, <5>1 DEF Lookup
      <4> QED
        BY <4>1, <4>2
    <3>2. \A ms \in Namespaces \ {ns}, m \in Names : Lookup(ms, m)' = Lookup(ms, m)
      BY <2>6 DEF Lookup
    <3> QED
      BY <3>1, <3>2 DEF Written
  <2> QED
    BY <2>9, <2>10
<1> QED
  BY <1>3, <1>4

\* Delete keeps the invariant, compaction or not, and erases one name that
\* was there.
LEMMA DeleteKeeps ==
    ASSUME StoreInv, NEW ns \in Namespaces, NEW n \in Names, Delete(ns, n)
    PROVE  /\ StoreInv' /\ Used' = Used \ {<<ns, n>>}
           /\ Written(ns, n, Tomb) /\ Lookup(ns, n) # Tomb
<1> DEFINE q == slots[ns]
           idx == index[ns]
           r == [q EXCEPT ![idx[n]] = Tomb]
           t == [idx EXCEPT ![n] = 0]
           d == dead[ns] + 1
           go == Compacts(d, Len(r))
           Q == IF go THEN Kept(r) ELSE r
           I == IF go THEN Reindex(Kept(r)) ELSE t
           E == IF go THEN 0 ELSE d
<1>1. Sound(q, idx, dead[ns]) /\ idx[n] # 0
  BY DEF Delete, StoreInv
<1>2. Sound(r, t, d)
  BY <1>1, TombIsSound
<1>3. Becomes(ns, Q, I, E)
  BY DEF Delete, Becomes, DeadAfter
<1>4. order' = order /\ total' = total - 1
  BY DEF Delete
<1>5. /\ idx[n] \in LiveOf(q) /\ idx \in [Names -> 0 .. Len(q)] /\ Len(q) \in Nat
      /\ \A m \in Names : idx[m] # 0 => idx[m] \in 1 .. Len(q) /\ q[idx[m]].name = m
      /\ q[idx[n]] \in Objects /\ DOMAIN q = 1 .. Len(q)
  BY <1>1, LiveSlots, LenProperties DEF Sound
<1>6. /\ \A m \in Names : t[m] = IF m = n THEN 0 ELSE idx[m]
      /\ \A j \in 1 .. Len(q) : j # idx[n] => r[j] = q[j]
  BY <1>5
<1>7. \A m \in Names : m # n /\ idx[m] # 0 => r[idx[m]] = q[idx[m]]
  <2> SUFFICES ASSUME NEW m \in Names, m # n, idx[m] # 0
               PROVE  r[idx[m]] = q[idx[m]]
    OBVIOUS
  <2>1. idx[m] # idx[n]
    BY <1>1, <1>5
  <2> QED
    BY <1>5, <1>6, <2>1
<1> HIDE DEF r, t, d
<1>8. /\ Sound(Q, I, E)
      /\ \A m \in Names : /\ I[m] # 0 <=> t[m] # 0
                          /\ t[m] # 0 => Q[I[m]] = r[t[m]]
  <2>1. CASE go
    BY <1>2, <2>1, CompactIsSound
  <2>2. CASE ~ go
    BY <1>2, <2>2
  <2> QED
    BY <2>1, <2>2
<1> HIDE DEF Q, I, E
<1>9. /\ slots'[ns] = Q /\ index'[ns] = I
      /\ \A m \in Namespaces \ {ns} : slots'[m] = slots[m] /\ index'[m] = index[m]
  BY <1>3, <1>8, BucketStep
<1>10. Used' = Used \ {<<ns, n>>} /\ <<ns, n>> \in Used
  BY <1>1, <1>6, <1>8, <1>9 DEF Used
<1>11. IsFiniteSet(Used') /\ Cardinality(Used') = Cardinality(Used) - 1
  BY <1>10, FS_RemoveElement DEF StoreInv
<1>12. StoreInv'
  BY <1>3, <1>4, <1>8, <1>11, BucketStep DEF StoreInv, NamespacesSorted
<1>13. Written(ns, n, Tomb)
  <2>1. ASSUME NEW m \in Names
        PROVE  Lookup(ns, m)' = IF m = n THEN Tomb ELSE Lookup(ns, m)
    <3>1. CASE m = n
      BY <1>6, <1>8, <1>9, <3>1 DEF Lookup
    <3>2. CASE m # n /\ idx[m] = 0
      BY <1>6, <1>8, <1>9, <3>2 DEF Lookup
    <3>3. CASE m # n /\ idx[m] # 0
      <4>1. t[m] = idx[m] /\ I[m] # 0 /\ Q[I[m]] = r[t[m]] /\ r[idx[m]] = q[idx[m]]
        BY <1>6, <1>7, <1>8, <3>3
      <4> QED
        BY <1>9, <3>3, <4>1 DEF Lookup
    <3> QED
      BY <3>1, <3>2, <3>3
  <2>2. \A ms \in Namespaces \ {ns}, m \in Names : Lookup(ms, m)' = Lookup(ms, m)
    BY <1>9 DEF Lookup
  <2> QED
    BY <2>1, <2>2 DEF Written
<1>14. Lookup(ns, n) # Tomb
  BY <1>1, <1>5, StoreAssumption DEF Lookup, Objects
<1> QED
  BY <1>10, <1>12, <1>13, <1>14

-----------------------------------------------------------------------------
(* Theorems.                                                               *)

\* The empty store is in order.
LEMMA StoreInitInv == ListInit => StoreInv
<1> SUFFICES ASSUME ListInit PROVE StoreInv
  OBVIOUS
<1>1. order = <<>> /\ total = 0
  BY DEF ListInit, StoreInit
<1>2. order \in Seq(Namespaces) /\ NamespacesSorted
  BY <1>1, EmptySeq DEF NamespacesSorted
<1>3. \A ns \in Namespaces : /\ slots[ns] = <<>>
                             /\ index[ns] = [n \in Names |-> 0]
                             /\ dead[ns] = 0
  BY DEF ListInit, StoreInit
<1>4. /\ slots \in [Namespaces -> Seq(Slots)]
      /\ index \in [Namespaces -> [Names -> Nat]]
      /\ dead \in [Namespaces -> Nat]
  BY EmptySeq DEF ListInit, StoreInit
<1>5. \A ns \in Namespaces : Sound(slots[ns], index[ns], dead[ns])
  BY <1>3, EmptyIsSound
<1>6. Used = {}
  BY <1>3 DEF Used
<1> QED
  BY <1>1, <1>2, <1>4, <1>5, <1>6, FS_EmptySet DEF StoreInv

\* A step of a walk and its clients writes one name, erases one that was
\* there, or leaves the store alone.
LEMMA StepsOfTheStore ==
    ASSUME [ListNext]_pageVars
    PROVE  \/ \E ns \in Namespaces, o \in Objects : Put(ns, o)
           \/ \E ns \in Namespaces, n \in Names : Delete(ns, n)
           \/ UNCHANGED storeVars
<1>1. CASE \E c \in Clients, sc \in Namespaces \cup {0}, n \in Limits : StartList(c, sc, n)
  BY <1>1 DEF StartList
<1>2. CASE \E c \in Clients : Chunk(c)
  BY <1>2 DEF Chunk
<1>3. CASE \E c \in Clients : NextPage(c)
  BY <1>3 DEF NextPage
<1>4. CASE \E ns \in Namespaces, o \in Objects : WritePut(ns, o)
  BY <1>4 DEF WritePut
<1>5. CASE \E ns \in Namespaces, n \in Names : WriteDelete(ns, n)
  BY <1>5 DEF WriteDelete
<1>6. CASE UNCHANGED pageVars
  BY <1>6 DEF pageVars
<1> QED
  BY <1>1, <1>2, <1>3, <1>4, <1>5, <1>6 DEF ListNext

\* Every step keeps the store in order.
LEMMA StoreNextInv == StoreInv /\ [ListNext]_pageVars => StoreInv'
<1> SUFFICES ASSUME StoreInv, [ListNext]_pageVars PROVE StoreInv'
  OBVIOUS
<1>1. CASE \E ns \in Namespaces, o \in Objects : Put(ns, o)
  BY <1>1, PutKeeps
<1>2. CASE \E ns \in Namespaces, n \in Names : Delete(ns, n)
  BY <1>2, DeleteKeeps
<1>3. CASE UNCHANGED storeVars
  BY <1>3 DEF storeVars, StoreInv, NamespacesSorted, Used
<1> QED
  BY <1>1, <1>2, <1>3, StepsOfTheStore

\* Store.Put, Store.Delete and maybeCompact keep the invariant, in any order
\* and from any number of requests.
THEOREM StoreInvariant == ListSpec => []StoreInv
  BY StoreInitInv, StoreNextInv, PTL DEF ListSpec

\* store.go: the variables have their types, and no index or tombstone count
\* is beyond its bucket.
THEOREM StoreTypesCorrect == ListSpec => []StoreTypeOK
<1>1. StoreInv => StoreTypeOK
  <2> SUFFICES ASSUME StoreInv PROVE StoreTypeOK
    OBVIOUS
  <2>1. ASSUME NEW ns \in Namespaces
        PROVE  /\ \A i \in DOMAIN slots[ns] : slots[ns][i] \in Objects \cup {Tomb}
               /\ index[ns] \in [Names -> 0 .. Len(slots[ns])]
               /\ dead[ns] \in 0 .. Len(slots[ns])
    <3>1. Sound(slots[ns], index[ns], dead[ns])
      BY DEF StoreInv
    <3>2. /\ slots[ns] \in [1 .. Len(slots[ns]) -> Slots]
          /\ Len(slots[ns]) \in Nat
          /\ Cardinality(LiveOf(slots[ns])) \in Nat
      BY <3>1, LenProperties, LiveSlots DEF Sound
    <3> QED
      BY <3>1, <3>2 DEF Sound, Slots
  <2>2. total \in Nat
    BY FS_CardinalityType DEF StoreInv
  <2> QED
    BY <2>1, <2>2 DEF StoreTypeOK, StoreInv
<1> QED
  BY <1>1, StoreInvariant, PTL

\* store.go: an indexed name is in its slot and every live object is indexed,
\* after any puts, deletions and compactions.
THEOREM IndexAlwaysExact == ListSpec => []IndexIsExact
<1>1. StoreInv => IndexIsExact
  BY DEF StoreInv, Sound, IndexIsExact, LiveIn
<1> QED
  BY <1>1, StoreInvariant, PTL

\* Store.Len and Store.LenNS, which subtract, say what a scan would find.
THEOREM CountsAlwaysExact == ListSpec => []CountsAreExact
<1>1. StoreInv => CountsAreExact
  BY DEF StoreInv, Sound, CountsAreExact, LiveIn, Used
<1> QED
  BY <1>1, StoreInvariant, PTL

\* bucketFor inserts by binary search: the list it searches is always sorted.
THEOREM NamespacesAlwaysSorted == ListSpec => []NamespacesSorted
<1>1. StoreInv => NamespacesSorted
  BY DEF StoreInv
<1> QED
  BY <1>1, StoreInvariant, PTL

\* Through Get, the slots, tombstones and compactions of store.go are a map
\* from namespace and name to the object last put there.
THEOREM StoreImplementsMap == ListSpec => ImplementsMap
<1> DEFINE M == [ns \in Namespaces |-> [n \in Names |-> Lookup(ns, n)]]
<1>1. ListInit => Table!Empty
  BY DEF ListInit, StoreInit, Table!Empty, Lookup
<1>2. StoreInv /\ [ListNext]_pageVars => [Table!MapNext]_M
  <2> SUFFICES ASSUME StoreInv, [ListNext]_pageVars
               PROVE  Table!MapNext \/ M' = M
    OBVIOUS
  <2>1. ASSUME NEW ns \in Namespaces, NEW n \in Names, NEW v, Written(ns, n, v)
        PROVE  M' = [M EXCEPT ![ns][n] = v]
    BY <2>1 DEF Written
  <2>2. CASE \E ns \in Namespaces, o \in Objects : Put(ns, o)
    <3>1. PICK ns \in Namespaces, o \in Objects : Put(ns, o)
      BY <2>2
    <3>2. o.name \in Names /\ o.val \in Vals
      BY DEF Objects
    <3>3. M' = [M EXCEPT ![ns][o.name] = o.val]
      BY <2>1, <3>1, <3>2, PutKeeps
    <3>4. \E v \in Vals : Table!Assign(ns, o.name, v)
      BY <3>2, <3>3 DEF Table!Assign
    <3> HIDE DEF M
    <3> QED
      BY <3>2, <3>4, Zenon DEF Table!MapNext
  <2>3. CASE \E ns \in Namespaces, n \in Names : Delete(ns, n)
    <3>1. PICK ns \in Namespaces, n \in Names : Delete(ns, n)
      BY <2>3
    <3>2. M' = [M EXCEPT ![ns][n] = Tomb]
      BY <2>1, <3>1, DeleteKeeps
    <3>3. M[ns][n] # Tomb
      BY <3>1, DeleteKeeps
    <3> QED
      BY <3>2, <3>3 DEF Table!MapNext, Table!Erase, Table!Assign
  <2>4. CASE UNCHANGED storeVars
    BY <2>4 DEF storeVars, Lookup
  <2> QED
    BY <2>2, <2>3, <2>4, StepsOfTheStore
<1> QED
  BY <1>1, <1>2, StoreInvariant, PTL
     DEF ListSpec, ImplementsMap, Table!MapSpec
=============================================================================
