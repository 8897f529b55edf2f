---------------------------- MODULE ListPagesProofs ----------------------------
(***************************************************************************)
(* Proofs about LIST walks, for every number of clients, namespaces,       *)
(* names and writes, and for every size of pages and chunks: a walk skips  *)
(* or repeats an object only when its cursor was moved.                    *)
(*                                                                         *)
(* The invariant is that a walk has received exactly the objects it passed *)
(* among those that have been there from its start.                        *)
(***************************************************************************)
EXTENDS StoreProofs, WellFoundedInduction

-----------------------------------------------------------------------------
(* Positions, in the order of the walk.                                    *)

Positions == (Nat \ {0}) \X Nat

\* The position after y.
After(y) == <<y[1], y[2] + 1>>

\* A set of numbers that is not empty has a least one.
LEMMA LeastNumber ==
    ASSUME NEW T \in SUBSET Nat, T # {}
    PROVE  \E m \in T : \A k \in T : m <= k
<1>1. \E m \in T : \A k \in T : ~ (<<k, m>> \in OpToRel(<, Nat))
  BY NatLessThanWellFounded, WFMin, Zenon
<1>2. PICK m \in T : \A k \in T : ~ (<<k, m>> \in OpToRel(<, Nat))
  BY <1>1
<1>3. ASSUME NEW k \in T
      PROVE  m <= k
  <2>1. ~ (k < m)
    BY <1>2, k \in Nat, m \in Nat DEF OpToRel
  <2> QED
    BY <2>1
<1> QED
  BY <1>3

\* Positions are in one line.
LEMMA BeforeIsOrder ==
    /\ \A x \in Positions : ~ Before(x, x)
    /\ \A x, y, z \in Positions : Before(x, y) /\ Before(y, z) => Before(x, z)
    /\ \A x, y \in Positions : x = y \/ Before(x, y) \/ Before(y, x)
<1>1. \A x \in Positions : x[1] \in Nat /\ x[2] \in Nat /\ x = <<x[1], x[2]>>
  BY DEF Positions
<1>2. \A x, y \in Positions : x[1] = y[1] /\ x[2] = y[2] => x = y
  BY <1>1
<1> QED
  BY <1>1, <1>2 DEF Before

\* The position after y has y and what is before y before it.
LEMMA BeforeAfter ==
    ASSUME NEW y \in Positions
    PROVE  /\ After(y) \in Positions
           /\ \A x \in Positions : Before(x, After(y)) <=> x = y \/ Before(x, y)
<1>1. y[1] \in Nat \ {0} /\ y[2] \in Nat /\ y = <<y[1], y[2]>>
  BY DEF Positions
<1> PICK a \in Nat \ {0} : a = y[1]
  BY <1>1
<1> PICK b \in Nat : b = y[2]
  BY <1>1
<1>2. After(y) = <<a, b + 1>> /\ y = <<a, b>>
  BY <1>1 DEF After
<1>3. After(y) \in Positions
  BY <1>2 DEF Positions
<1>4. ASSUME NEW x \in Positions
      PROVE  Before(x, After(y)) <=> x = y \/ Before(x, y)
  <2> PICK c \in Nat, d \in Nat : x = <<c, d>>
    BY DEF Positions
  <2>1. Before(x, After(y)) <=> c < a \/ (c = a /\ d < b + 1)
    BY <1>2 DEF Before
  <2>2. Before(x, y) <=> c < a \/ (c = a /\ d < b)
    BY <1>2 DEF Before
  <2>3. x = y <=> c = a /\ d = b
    BY <1>2
  <2> QED
    BY <2>1, <2>2, <2>3
<1> QED
  BY <1>3, <1>4

\* A set of positions that is not empty has a first one.
LEMMA FirstExists ==
    ASSUME NEW S \in SUBSET Positions, S # {}
    PROVE  FirstOf(S) \in S /\ \A y \in S : ~ Before(y, FirstOf(S))
<1>0. \A y \in S : y[1] \in Nat /\ y[2] \in Nat
  BY DEF Positions
<1> DEFINE T == {y[1] : y \in S}
<1>1. PICK a \in T : \A k \in T : a <= k
  <2>1. T \in SUBSET Nat /\ T # {}
    BY <1>0
  <2> HIDE DEF T
  <2> QED
    BY <2>1, LeastNumber
<1> DEFINE U == {y[2] : y \in {z \in S : z[1] = a}}
<1>2. PICK b \in U : \A k \in U : b <= k
  <2>1. U \in SUBSET Nat /\ U # {}
    BY <1>0
  <2> HIDE DEF U
  <2> QED
    BY <2>1, LeastNumber
<1>3. PICK x \in S : x[1] = a /\ x[2] = b
  OBVIOUS
<1>4. ASSUME NEW y \in S
      PROVE  ~ Before(y, x)
  <2>1. y[1] \in T /\ a <= y[1] /\ (y[1] = a => y[2] \in U)
    BY <1>1
  <2>2. y[1] = a => b <= y[2]
    BY <1>2, <2>1
  <2> HIDE DEF T, U
  <2> QED
    BY <1>0, <1>3, <2>1, <2>2 DEF Before
<1>5. \E z \in S : \A y \in S : ~ Before(y, z)
  BY <1>4
<1> QED
  BY <1>5, Zenon DEF FirstOf

-----------------------------------------------------------------------------
(* What one chunk visits.                                                  *)

\* The first n of the positions ahead.
FirstN(ahead, n) == {x \in ahead : Cardinality({y \in ahead : Before(y, x)}) < n}

\* Those that match, up to the one the callback stops at.
UpTo(hits, stop) == {y \in hits : \A z \in stop : ~ Before(z, y)}

\* What is before one of the first n is one of them.
LEMMA FirstNIsPrefix ==
    ASSUME NEW ahead \in SUBSET Positions, IsFiniteSet(ahead), NEW n \in Nat,
           NEW x \in ahead, NEW z \in FirstN(ahead, n), Before(x, z)
    PROVE  x \in FirstN(ahead, n)
<1> DEFINE Pre(v) == {y \in ahead : Before(y, v)}
<1>1. z \in ahead /\ Cardinality(Pre(z)) < n
  BY DEF FirstN
<1>2. Pre(x) \subseteq Pre(z)
  BY <1>1, BeforeIsOrder
<1>3. IsFiniteSet(Pre(x)) /\ IsFiniteSet(Pre(z))
  BY FS_Subset
<1> HIDE DEF Pre
<1>4. Cardinality(Pre(x)) <= Cardinality(Pre(z))
  BY <1>2, <1>3, FS_Subset
<1>5. Cardinality(Pre(x)) \in Nat /\ Cardinality(Pre(z)) \in Nat
  BY <1>3, FS_CardinalityType
<1>6. Cardinality(Pre(x)) < n
  BY <1>1, <1>4, <1>5
<1> QED
  BY <1>6 DEF FirstN, Pre

\* The cursor next separates what a chunk dealt with from what it did not: of
\* the positions that match, those kept are those before it.
Splits(ahead, reach, hits, stop, next) ==
    /\ \E a \in ahead : next = a \/ next = After(a)
    /\ \A x \in ahead : Before(x, next) => x \in reach
    /\ \A x \in hits : x \in UpTo(hits, stop) <=> Before(x, next)

\* A walk goes on from such a cursor.
LEMMA ResumeSplits ==
    ASSUME NEW ahead \in SUBSET Positions, IsFiniteSet(ahead), NEW n \in Nat,
           NEW reach, reach = FirstN(ahead, n),
           NEW hits \in SUBSET reach, NEW stop \in SUBSET hits,
           NEW next, next = Resume(stop, ahead \ reach),
           stop # {} \/ reach # ahead
    PROVE  Splits(ahead, reach, hits, stop, next)
<1> PICK rest : rest = ahead \ reach
  OBVIOUS
<1>0. reach \subseteq ahead /\ stop \subseteq ahead /\ rest \subseteq ahead
  BY DEF FirstN
<1>p. ASSUME NEW x \in ahead, NEW z \in reach, Before(x, z)
      PROVE  x \in reach
  BY <1>p, FirstNIsPrefix
<1>1. CASE stop # {}
  <2> PICK z : z = FirstOf(stop)
    OBVIOUS
  <2>1. z \in stop /\ \A y \in stop : ~ Before(y, z)
    BY <1>0, <1>1, FirstExists
  <2>2. z \in ahead /\ z \in reach /\ z \in Positions
    BY <1>0, <2>1
  <2>3. next = After(z)
    BY <1>1 DEF Resume, After
  <2>4. \A x \in ahead : Before(x, next) <=> x = z \/ Before(x, z)
    BY <2>2, <2>3, BeforeAfter
  <2>5. \A x \in ahead : Before(x, next) => x \in reach
    BY <1>p, <2>2, <2>4
  <2>6. ASSUME NEW x \in hits
        PROVE  x \in UpTo(hits, stop) <=> Before(x, next)
    <3>1. x \in ahead /\ x \in Positions
      BY <1>0
    <3>2. ASSUME x \in UpTo(hits, stop) PROVE Before(x, next)
      <4>1. ~ Before(z, x)
        BY <2>1, <3>2 DEF UpTo
      <4> QED
        BY <2>2, <2>4, <3>1, <4>1, BeforeIsOrder
    <3>3. ASSUME Before(x, next), NEW y \in stop, Before(y, x) PROVE FALSE
      <4>1. x = z \/ Before(x, z)
        BY <2>4, <3>1, <3>3
      <4>2. Before(y, z)
        BY <1>0, <2>2, <3>1, <3>3, <4>1, BeforeIsOrder
      <4> QED
        BY <2>1, <4>2
    <3> QED
      BY <3>2, <3>3 DEF UpTo
  <2> QED
    BY <2>2, <2>3, <2>5, <2>6 DEF Splits
<1>2. CASE stop = {}
  <2> PICK r : r = FirstOf(rest)
    OBVIOUS
  <2>1. rest # {}
    BY <1>0, <1>2
  <2>2. r \in rest /\ \A y \in rest : ~ Before(y, r)
    BY <1>0, <2>1, FirstExists
  <2>3. r \in ahead /\ r \notin reach /\ r \in Positions
    BY <1>0, <2>2
  <2>4. next = r
    BY <1>2, <2>1 DEF Resume
  <2>5. \A x \in ahead : Before(x, next) => x \in reach
    BY <2>2, <2>4
  <2>6. ASSUME NEW x \in hits
        PROVE  x \in UpTo(hits, stop) /\ Before(x, next)
    <3>1. x \in UpTo(hits, stop)
      BY <1>2 DEF UpTo
    <3>2. x \in reach /\ x \in ahead
      BY <1>0
    <3>3. x # r /\ ~ Before(r, x)
      BY <1>p, <2>3, <3>2
    <3> QED
      BY <2>3, <2>4, <3>1, <3>2, <3>3, BeforeIsOrder
  <2> QED
    BY <2>3, <2>4, <2>5, <2>6 DEF Splits
<1> QED
  BY <1>1, <1>2

-----------------------------------------------------------------------------
(* The objects of a walk.                                                  *)

\* Buckets are made before what is in them, and never go.
HasBucket == \A k \in Used : k[1] \in Buckets

\* Namespaces are listed once.
Once1(list) == \A i, j \in 1 .. Len(list) : list[i] = list[j] => i = j

\* The namespaces of a walk are listed once.
LEMMA ListOfScope ==
    ASSUME StoreInv, NEW sc \in Namespaces \cup {0}
    PROVE  /\ NSList(sc) \in Seq(Namespaces) /\ Once1(NSList(sc))
           /\ \A ns \in Buckets : sc \in {0, ns} =>
                  \E p \in 1 .. Len(NSList(sc)) : NSList(sc)[p] = ns
<1>0. order \in Seq(Namespaces) /\ Len(order) \in Nat /\ DOMAIN order = 1 .. Len(order)
  BY DEF StoreInv
<1>1. CASE sc = 0
  <2>1. NSList(sc) = order
    BY <1>1 DEF NSList
  <2>2. Once1(order)
    <3> SUFFICES ASSUME NEW i \in 1 .. Len(order), NEW j \in 1 .. Len(order), order[i] = order[j]
                 PROVE  i = j
      BY DEF Once1
    <3>1. order[i] \in Nat
      BY <1>0, StoreAssumption
    <3>2. \A a, b \in 1 .. Len(order) : a < b => order[a] < order[b]
      BY <1>0 DEF StoreInv, NamespacesSorted
    <3> PICK m \in Nat : m = order[i] /\ m = order[j]
      BY <3>1
    <3>3. ~ (i < j)
      <4>1. i < j => m < m
        BY <3>2
      <4> QED
        BY <4>1
    <3>4. ~ (j < i)
      <4>1. j < i => m < m
        BY <3>2
      <4> QED
        BY <4>1
    <3> QED
      BY <1>0, <3>3, <3>4
  <2> QED
    BY <1>0, <2>1, <2>2 DEF Buckets
<1>2. CASE sc # 0 /\ sc \in Buckets
  <2>1. NSList(sc) = <<sc>> /\ sc \in Namespaces
    BY <1>2 DEF NSList
  <2>2. <<sc>> \in Seq(Namespaces) /\ Len(<<sc>>) = 1 /\ <<sc>>[1] = sc
    BY <2>1
  <2> QED
    BY <1>2, <2>1, <2>2 DEF Once1
<1>3. CASE sc # 0 /\ sc \notin Buckets
  <2>1. NSList(sc) = <<>>
    BY <1>3 DEF NSList
  <2> QED
    BY <1>3, <2>1 DEF Once1
<1> QED
  BY <1>1, <1>2, <1>3

\* Where k is in a list, if its namespace is the p-th.
PlaceIn(p, k) == <<p, index[k[1]][k[2]]>>

\* k is listed before the cursor.
Passed(list, cur, k) ==
    \E p \in 1 .. Len(list) : list[p] = k[1] /\ Before(PlaceIn(p, k), cur)

\* A live object is at its place, and no other is.
LEMMA UsedIsLive ==
    ASSUME StoreInv, NEW k \in Used
    PROVE  /\ k[1] \in Namespaces /\ k[2] \in Names /\ k = <<k[1], k[2]>>
           /\ index[k[1]][k[2]] \in Nat \ {0}
           /\ index[k[1]][k[2]] \in LiveIn(k[1])
           /\ slots[k[1]][index[k[1]][k[2]]].name = k[2]
           /\ \A i \in LiveIn(k[1]) : slots[k[1]][i].name = k[2] => i = index[k[1]][k[2]]
<1>1. k[1] \in Namespaces /\ k[2] \in Names /\ k = <<k[1], k[2]>> /\ index[k[1]][k[2]] # 0
  BY DEF Used
<1>2. index[k[1]][k[2]] \in Nat /\ Sound(slots[k[1]], index[k[1]], dead[k[1]])
  BY <1>1 DEF StoreInv
<1> QED
  BY <1>1, <1>2 DEF Sound, LiveIn

\* What a function gives for finitely many arguments is finite.
LEMMA FiniteImage ==
    ASSUME NEW S, IsFiniteSet(S), NEW f, DOMAIN f = S
    PROVE  IsFiniteSet({f[x] : x \in S})
<1> PICK T : T = {f[x] : x \in S}
  OBVIOUS
<1>1. \A x \in S : f[x] \in T
  OBVIOUS
<1>2. \A y \in T : \E x \in S : f[x] = y
  OBVIOUS
<1> DEFINE g == [x \in S |-> f[x]]
<1>3. g \in [S -> T] /\ \A y \in T : \E x \in S : g[x] = y
  BY <1>1, <1>2
<1>4. g \in Surjection(S, T)
  BY <1>3 DEF Surjection
<1> HIDE DEF g
<1>5. IsFiniteSet(T)
  BY <1>4, FS_Surjection
<1> QED
  BY <1>5

\* The positions ahead of a cursor are finitely many live slots.
LEMMA AheadFacts ==
    ASSUME StoreInv, NEW list \in Seq(Namespaces), NEW cur \in Positions
    PROVE  /\ Ahead(list, cur) \in SUBSET Positions /\ IsFiniteSet(Ahead(list, cur))
           /\ \A x \in Ahead(list, cur) :
                 x[1] \in 1 .. Len(list) /\ x[2] \in LiveIn(list[x[1]]) /\ ~ Before(x, cur)
           /\ \A p \in 1 .. Len(list), i \in Nat :
                 i \in LiveIn(list[p]) /\ ~ Before(<<p, i>>, cur) => <<p, i>> \in Ahead(list, cur)
<1>0. Len(list) \in Nat /\ cur[1] \in Nat \ {0} /\ cur[2] \in Nat
  BY DEF Positions
<1>1. \A p \in 1 .. Len(list) : list[p] \in Namespaces
  OBVIOUS
<1>2. \A ns \in Namespaces : LiveIn(ns) \subseteq Nat /\ IsFiniteSet(LiveIn(ns))
  <2> SUFFICES ASSUME NEW ns \in Namespaces
               PROVE  LiveIn(ns) \subseteq Nat /\ IsFiniteSet(LiveIn(ns))
    OBVIOUS
  <2>1. slots[ns] \in Seq(Slots)
    BY DEF StoreInv
  <2> QED
    BY <2>1, LiveSlots, LenProperties DEF LiveIn
<1> DEFINE From == cur[1] .. Len(list)
           Slice(i) == {<<i, s>> : s \in LiveIn(list[i])}
           All == UNION {Slice(i) : i \in From}
<1> PICK a \in Nat \ {0}, n \in Nat : a = cur[1] /\ n = Len(list)
  BY <1>0
<1>3. From \subseteq 1 .. Len(list) /\ IsFiniteSet(From)
  <2>1. a \in Int /\ n \in Int
    OBVIOUS
  <2>2. IsFiniteSet(a .. n)
    BY <2>1, FS_Interval
  <2>3. a .. n \subseteq 1 .. n
    OBVIOUS
  <2> QED
    BY <2>2, <2>3
<1>4. \A i \in From : IsFiniteSet(Slice(i))
  <2> SUFFICES ASSUME NEW i \in From PROVE IsFiniteSet(Slice(i))
    OBVIOUS
  <2>1. IsFiniteSet(LiveIn(list[i]))
    BY <1>1, <1>2, <1>3
  <2> PICK L : L = LiveIn(list[i])
    OBVIOUS
  <2> DEFINE f == [s \in L |-> <<i, s>>]
  <2>2. Slice(i) = {f[s] : s \in L}
    OBVIOUS
  <2>0. DOMAIN f = L
    OBVIOUS
  <2> HIDE DEF f
  <2>3. IsFiniteSet({f[s] : s \in L})
    BY <2>0, <2>1, FiniteImage
  <2> QED
    BY <2>2, <2>3
<1>5. IsFiniteSet({Slice(i) : i \in From})
  <2> DEFINE f == [i \in From |-> Slice(i)]
  <2>1. {Slice(i) : i \in From} = {f[i] : i \in From}
    OBVIOUS
  <2>0. DOMAIN f = From
    OBVIOUS
  <2> HIDE DEF f
  <2>2. IsFiniteSet({f[i] : i \in From})
    BY <1>3, <2>0, FiniteImage
  <2> QED
    BY <2>1, <2>2
<1>6. IsFiniteSet(All)
  <2> PICK SS : SS = {Slice(i) : i \in From}
    OBVIOUS
  <2>1. \A S \in SS : IsFiniteSet(S)
    BY <1>4
  <2>2. IsFiniteSet(UNION SS)
    BY <1>5, <2>1, FS_UNION
  <2> QED
    BY <2>2
<1>7. Ahead(list, cur) = {x \in All : x[1] = cur[1] => x[2] >= cur[2]}
  BY DEF Ahead
<1>8. IsFiniteSet(Ahead(list, cur))
  <2> HIDE DEF All
  <2> QED
    BY <1>6, <1>7, FS_Subset
<1>9. ASSUME NEW x \in Ahead(list, cur)
      PROVE  /\ x \in Positions
             /\ x[1] \in 1 .. Len(list) /\ x[2] \in LiveIn(list[x[1]]) /\ ~ Before(x, cur)
  <2>0. PICK p \in From : \E s \in LiveIn(list[p]) : x = <<p, s>>
    BY <1>7
  <2>1. PICK s \in LiveIn(list[p]) : x = <<p, s>>
    BY <2>0
  <2>2. p \in 1 .. Len(list) /\ s \in Nat /\ p >= cur[1]
    BY <1>0, <1>1, <1>2, <1>3
  <2>3. p = cur[1] => s >= cur[2]
    BY <1>7, <2>1
  <2> QED
    BY <1>0, <2>1, <2>2, <2>3 DEF Positions, Before
<1>10. ASSUME NEW p \in 1 .. Len(list), NEW i \in Nat, i \in LiveIn(list[p]),
              ~ Before(<<p, i>>, cur)
       PROVE  <<p, i>> \in Ahead(list, cur)
  <2>1. p >= cur[1] /\ (p = cur[1] => i >= cur[2])
    BY <1>0, <1>10 DEF Before
  <2>2. p \in From
    BY <1>0, <2>1
  <2>3. <<p, i>> \in All
    BY <1>10, <2>2
  <2> HIDE DEF All
  <2> QED
    BY <1>7, <2>1, <2>3
<1> QED
  BY <1>8, <1>9, <1>10

-----------------------------------------------------------------------------
(* What a chunk finds.                                                     *)

\* An object is on a list at one place at most, and it was passed when that
\* place was.
LEMMA PassedAtPlace ==
    ASSUME StoreInv, NEW list \in Seq(Namespaces), Once1(list),
           NEW p \in 1 .. Len(list), NEW k \in Used, list[p] = k[1]
    PROVE  /\ PlaceIn(p, k) \in Positions
           /\ PlaceIn(p, k)[1] = p /\ PlaceIn(p, k)[2] = index[k[1]][k[2]]
           /\ \A cur : Passed(list, cur, k) <=> Before(PlaceIn(p, k), cur)
<1>1. index[k[1]][k[2]] \in Nat /\ p \in Nat \ {0}
  BY UsedIsLive, LenProperties
<1>2. \A q \in 1 .. Len(list) : list[q] = k[1] => q = p
  BY DEF Once1
<1>3. PlaceIn(p, k) = <<p, index[k[1]][k[2]]>>
  BY DEF PlaceIn
<1>4. PlaceIn(p, k) \in Positions /\ PlaceIn(p, k)[1] = p /\ PlaceIn(p, k)[2] = index[k[1]][k[2]]
  BY <1>1, <1>3 DEF Positions
<1>5. ASSUME NEW cur
      PROVE  Passed(list, cur, k) <=> Before(PlaceIn(p, k), cur)
  BY <1>2, Zenon DEF Passed
<1> QED
  BY <1>4, <1>5

\* The key at a live position is that of the object whose place it is.
LEMMA KeyAtPlace ==
    ASSUME StoreInv, NEW list \in Seq(Namespaces), Once1(list),
           NEW p \in 1 .. Len(list), NEW k \in Used, list[p] = k[1],
           NEW x \in Positions, x[1] \in 1 .. Len(list), x[2] \in LiveIn(list[x[1]])
    PROVE  KeyAt(list, x) = k <=> x = PlaceIn(p, k)
<1>1. k = <<k[1], k[2]>> /\ slots[k[1]][index[k[1]][k[2]]].name = k[2]
  BY UsedIsLive
<1>2. \A i \in LiveIn(k[1]) : slots[k[1]][i].name = k[2] => i = index[k[1]][k[2]]
  BY UsedIsLive
<1>3. x = <<x[1], x[2]>>
  BY DEF Positions
<1>4. ASSUME KeyAt(list, x) = k PROVE x = PlaceIn(p, k)
  <2>1. list[x[1]] = k[1] /\ slots[list[x[1]]][x[2]].name = k[2]
    BY <1>1, <1>4 DEF KeyAt
  <2>2. x[1] = p
    BY <2>1 DEF Once1
  <2>3. x[2] = index[k[1]][k[2]]
    BY <1>2, <2>1
  <2> QED
    BY <1>3, <2>2, <2>3 DEF PlaceIn
<1>5. ASSUME x = PlaceIn(p, k) PROVE KeyAt(list, x) = k
  <2>1. x[1] = p /\ x[2] = index[k[1]][k[2]]
    BY <1>5 DEF PlaceIn
  <2>2. KeyAt(list, x) = <<k[1], slots[k[1]][index[k[1]][k[2]]].name>>
    BY <2>1 DEF KeyAt
  <2> QED
    BY <1>1, <2>2
<1> QED
  BY <1>4, <1>5

\* One chunk of a walk, as far as k goes: it finds k only if it had not passed
\* it; what it has passed afterwards it had passed before or has found; and if
\* there is no more, it has passed or found k, if k was asked for.
Finds(sc, cur, it, k) ==
    /\ k \in it.keys => k[2] \in Selected /\ ~ Passed(NSList(sc), cur, k)
    /\ it.more /\ k[2] \in Selected =>
          (Passed(NSList(sc), it.next, k) <=> Passed(NSList(sc), cur, k) \/ k \in it.keys)
    /\ ~ it.more /\ k[2] \in Selected /\ sc \in {0, k[1]} =>
          Passed(NSList(sc), cur, k) \/ k \in it.keys

\* store.go Iterate: a chunk finds what is between its two cursors.
LEMMA ChunkFinds ==
    ASSUME StoreInv, HasBucket, NEW sc \in Namespaces \cup {0}, NEW cur \in Positions,
           NEW left, NEW it, it = Iterate(NSList(sc), cur, left)
    PROVE  /\ it.more => it.next \in Positions
           /\ \A k \in Used : Finds(sc, cur, it, k)
<1> PICK list : list = NSList(sc)
  OBVIOUS
<1>1. /\ list \in Seq(Namespaces) /\ Once1(list)
      /\ \A ns \in Buckets : sc \in {0, ns} => \E p \in 1 .. Len(list) : list[p] = ns
  BY ListOfScope
<1> PICK ahead : ahead = Ahead(list, cur)
  OBVIOUS
<1>2. /\ ahead \in SUBSET Positions /\ IsFiniteSet(ahead)
      /\ \A x \in ahead :
            x[1] \in 1 .. Len(list) /\ x[2] \in LiveIn(list[x[1]]) /\ ~ Before(x, cur)
      /\ \A p \in 1 .. Len(list), i \in Nat :
            i \in LiveIn(list[p]) /\ ~ Before(<<p, i>>, cur) => <<p, i>> \in ahead
  BY <1>1, AheadFacts
<1> PICK reach : reach = FirstN(ahead, ListChunk)
  OBVIOUS
<1> PICK hits : hits = {x \in reach : KeyAt(list, x)[2] \in Selected}
  OBVIOUS
<1> PICK stop : stop = StopAt(hits, left)
  OBVIOUS
<1> PICK next : next = Resume(stop, ahead \ reach)
  OBVIOUS
<1>3. /\ it.keys = {KeyAt(list, x) : x \in UpTo(hits, stop)}
      /\ it.more <=> stop # {} \/ reach # ahead
      /\ it.next = next
  <2>1. it = [keys |-> {KeyAt(list, x) : x \in UpTo(hits, stop)},
              stopped |-> stop # {},
              more |-> stop # {} \/ reach # ahead,
              next |-> next]
    BY Zenon DEF Iterate, FirstN, UpTo
  <2>2. it.keys = {KeyAt(list, x) : x \in UpTo(hits, stop)} /\ it.next = next
    BY <2>1
  <2>3. it.more = (stop # {} \/ reach # ahead)
    BY <2>1
  <2> QED
    BY <2>2, <2>3, Zenon
<1>4. reach \subseteq ahead /\ hits \subseteq reach /\ stop \subseteq hits
      /\ UpTo(hits, stop) \subseteq hits
  BY DEF FirstN, StopAt, UpTo
<1>5. it.more =>
        /\ \E a \in ahead : next = a \/ next = After(a)
        /\ \A x \in ahead : Before(x, next) => x \in reach
        /\ \A x \in hits : x \in UpTo(hits, stop) <=> Before(x, next)
  <2> SUFFICES ASSUME it.more PROVE Splits(ahead, reach, hits, stop, next)
    BY DEF Splits
  <2>1. hits \in SUBSET reach /\ stop \in SUBSET hits /\ ListChunk \in Nat
    BY <1>4, ListPagesAssumption
  <2>2. stop # {} \/ reach # ahead
    BY <1>3
  <2>3. ahead \in SUBSET Positions /\ IsFiniteSet(ahead)
    BY <1>2
  <2> QED
    BY <2>1, <2>2, <2>3, ResumeSplits
<1>6. ASSUME it.more PROVE it.next \in Positions
  <2>1. PICK a \in ahead : next = a \/ next = After(a)
    BY <1>5, <1>6
  <2>2. a \in Positions /\ After(a) \in Positions
    BY <1>2, BeforeAfter
  <2> QED
    BY <1>3, <2>1, <2>2
<1>7. ASSUME NEW k \in Used
      PROVE  Finds(sc, cur, it, k)
  <2>0. k[1] \in Namespaces /\ k[1] \in Buckets
    BY UsedIsLive DEF HasBucket
  <2>1. CASE ~ \E p \in 1 .. Len(list) : list[p] = k[1]
    <3>1. \A c : ~ Passed(list, c, k)
      BY <2>1 DEF Passed
    <3>2. sc \notin {0, k[1]}
      BY <1>1, <2>0, <2>1
    <3>3. k \notin it.keys
      <4>1. \A x \in ahead : KeyAt(list, x)[1] = list[x[1]]
        BY DEF KeyAt
      <4>2. \A x \in ahead : KeyAt(list, x) # k
        BY <1>2, <2>1, <4>1
      <4> QED
        BY <1>3, <1>4, <4>2
    <3> QED
      BY <3>1, <3>2, <3>3 DEF Finds
  <2>2. ASSUME NEW p \in 1 .. Len(list), list[p] = k[1]
        PROVE  Finds(sc, cur, it, k)
    <3> PICK x : x = PlaceIn(p, k)
      OBVIOUS
    <3>1. /\ x \in Positions /\ x[1] = p /\ x[2] = index[k[1]][k[2]]
          /\ \A c : Passed(list, c, k) <=> Before(x, c)
      BY <1>1, <2>2, PassedAtPlace
    <3>2. x[2] \in LiveIn(list[p]) /\ x = <<p, x[2]>> /\ x[2] \in Nat
      BY <2>2, <3>1, UsedIsLive DEF PlaceIn
    <3>3. \A y \in ahead : KeyAt(list, y) = k <=> y = x
      BY <1>1, <1>2, <2>2, KeyAtPlace
    <3>4. KeyAt(list, x)[2] = k[2]
      <4>1. KeyAt(list, x) = k
        BY <1>1, <2>2, <3>1, <3>2, KeyAtPlace
      <4> QED
        BY <4>1
    <3>5. ~ Before(x, cur) <=> x \in ahead
      BY <1>2, <2>2, <3>1, <3>2
    <3>6. k \in it.keys <=> x \in UpTo(hits, stop)
      <4>1. k \in it.keys <=> \E y \in UpTo(hits, stop) : KeyAt(list, y) = k
        BY <1>3
      <4>2. UpTo(hits, stop) \subseteq ahead
        BY <1>4
      <4>3. x \in ahead => KeyAt(list, x) = k
        BY <3>3
      <4> QED
        BY <3>3, <4>1, <4>2, <4>3
    <3>7. x \in reach /\ k[2] \in Selected <=> x \in hits
      BY <3>4
    <3>8. k \in it.keys => k[2] \in Selected /\ ~ Before(x, cur)
      BY <1>4, <3>5, <3>6, <3>7
    <3>9. ASSUME it.more, k[2] \in Selected
          PROVE  Before(x, it.next) <=> Before(x, cur) \/ k \in it.keys
      <4>1. ASSUME Before(x, cur) PROVE Before(x, it.next)
        <5>1. PICK a \in ahead : next = a \/ next = After(a)
          BY <1>5, <3>9
        <5>2. a \in Positions /\ ~ Before(a, cur)
          BY <1>2
        <5>3. Before(x, a)
          BY <3>1, <4>1, <5>2, BeforeIsOrder
        <5>4. Before(x, After(a))
          BY <3>1, <5>2, <5>3, BeforeAfter
        <5> QED
          BY <1>3, <5>1, <5>3, <5>4
      <4>2. ASSUME k \in it.keys PROVE Before(x, it.next)
        BY <1>3, <1>4, <1>5, <3>6, <3>9, <4>2
      <4>3. ASSUME Before(x, it.next), ~ Before(x, cur) PROVE k \in it.keys
        <5>1. x \in ahead /\ x \in reach
          BY <1>3, <1>5, <3>5, <3>9, <4>3
        <5>2. x \in hits
          BY <3>7, <3>9, <5>1
        <5> QED
          BY <1>3, <1>5, <3>6, <3>9, <4>3, <5>2
      <4> QED
        BY <4>1, <4>2, <4>3
    <3>10. ASSUME ~ it.more, k[2] \in Selected, ~ Before(x, cur)
           PROVE  k \in it.keys
      <4>1. stop = {} /\ x \in reach
        BY <1>3, <3>5, <3>10
      <4>2. x \in hits
        BY <3>7, <3>10, <4>1
      <4> QED
        BY <3>6, <4>1, <4>2 DEF UpTo
    <3> QED
      BY <3>1, <3>8, <3>9, <3>10 DEF Finds
  <2> QED
    BY <2>1, <2>2
<1> QED
  BY <1>6, <1>7

-----------------------------------------------------------------------------
(* The invariant.                                                          *)

\* Of the objects that were there all the time, a walk has received those that
\* match and that it passed.
Tracks(c) ==
    \A k \in stayed[c] :
        k \in seen[c] <=> k[2] \in Selected /\ Passed(NSList(scope[c]), cursor[c], k)

WalkOf(c) ==
    /\ stayed[c] \subseteq Used
    /\ Once(c)
    /\ phase[c] \in {"chunk", "token"} => cursor[c] \in Positions /\ Tracks(c)
    /\ Complete(c)

\* The variables are functions of the clients.
ClientFields ==
    /\ phase \in [Clients -> {"idle", "chunk", "token", "done"}]
    /\ scope \in [Clients -> Namespaces \cup {0}]
    /\ DOMAIN limit = Clients /\ DOMAIN cursor = Clients /\ DOMAIN sent = Clients
    /\ DOMAIN seen = Clients /\ DOMAIN twice = Clients /\ DOMAIN stayed = Clients

WalkInv ==
    /\ HasBucket
    /\ ClientFields
    /\ \A c \in Clients \ shifted : WalkOf(c)

-----------------------------------------------------------------------------
(* A write under a walk.                                                   *)

\* After bucketFor, ns has a bucket, and so has whatever had one.
LEMMA BucketAdded ==
    ASSUME StoreInv, NEW ns \in Namespaces, order' = WithBucket(ns)
    PROVE  Buckets' = Buckets \cup {ns}
<1>1. order \in Seq(Namespaces) /\ NamespacesSorted /\ Len(order) \in Nat
  BY DEF StoreInv
<1>2. CASE ns \in Buckets
  BY <1>2 DEF WithBucket, Buckets
<1>3. CASE ns \notin Buckets
  <2> PICK P \in 1 .. Len(order) + 1, n \in Nat : P = PlaceOf(ns) /\ n = Len(order)
    BY <1>1, <1>3, PlaceSplits
  <2>1. Len(order') = n + 1
    BY <1>1, <1>3, BucketShifts
  <2>2. \A i \in 1 .. n + 1 :
           order'[i] = IF i < P THEN order[i] ELSE IF i = P THEN ns ELSE order[i - 1]
    BY <1>1, <1>3, BucketShifts
  <2>3. Buckets' = {order'[i] : i \in 1 .. n + 1} /\ Buckets = {order[i] : i \in 1 .. n}
    BY <2>1 DEF Buckets
  <2>4. ns \in Buckets'
    <3>1. P \in 1 .. n + 1 /\ order'[P] = ns
      BY <2>2
    <3> QED
      BY <2>3, <3>1
  <2>5. ASSUME NEW i \in 1 .. n
        PROVE  order[i] \in Buckets'
    <3>1. CASE i < P
      <4>1. i \in 1 .. n + 1 /\ order'[i] = order[i]
        BY <2>2, <3>1
      <4> QED
        BY <2>3, <4>1
    <3>2. CASE ~ (i < P)
      <4>1. i + 1 \in 1 .. n + 1 /\ ~ (i + 1 < P) /\ i + 1 # P /\ i + 1 - 1 = i
        BY <3>2
      <4>2. order'[i + 1] = order[i]
        BY <2>2, <4>1
      <4> QED
        BY <2>3, <4>1, <4>2
    <3> QED
      BY <3>1, <3>2
  <2>6. ASSUME NEW i \in 1 .. n + 1
        PROVE  order'[i] \in Buckets \cup {ns}
    <3>1. CASE i < P
      <4>1. i \in 1 .. n /\ order'[i] = order[i]
        BY <2>2, <3>1
      <4> QED
        BY <2>3, <4>1
    <3>2. CASE i = P
      BY <2>2, <3>2
    <3>3. CASE i > P
      <4>1. i - 1 \in 1 .. n /\ order'[i] = order[i - 1]
        BY <2>2, <3>3
      <4> QED
        BY <2>3, <4>1
    <3> QED
      BY <3>1, <3>2, <3>3
  <2> QED
    BY <2>3, <2>4, <2>5, <2>6
<1> QED
  BY <1>2, <1>3

\* A put moves no object to another slot, and takes none away.
LEMMA PutLeavesSlots ==
    ASSUME StoreInv, HasBucket, NEW ns \in Namespaces, NEW o \in Objects, Put(ns, o)
    PROVE  /\ HasBucket' /\ Used \subseteq Used'
           /\ \A k \in Used : index'[k[1]][k[2]] = index[k[1]][k[2]]
           /\ order' = WithBucket(ns) /\ Buckets' = Buckets \cup {ns}
<1>1. o.name \in Names /\ index \in [Namespaces -> [Names -> Nat]]
  BY DEF Objects, StoreInv
<1>2. Len(slots[ns]) \in Nat
  BY DEF StoreInv
<1>3. order' = WithBucket(ns) /\ Buckets' = Buckets \cup {ns}
  BY BucketAdded DEF Put
<1>4. \A m \in Namespaces, n \in Names :
         IF m = ns /\ n = o.name /\ index[m][n] = 0
         THEN index'[m][n] = Len(slots[ns]) + 1
         ELSE index'[m][n] = index[m][n]
  <2>1. CASE index[ns][o.name] # 0
    BY <2>1 DEF Put
  <2>2. CASE index[ns][o.name] = 0
    <3>1. index' = [index EXCEPT ![ns][o.name] = Len(slots[ns]) + 1]
      BY <2>2 DEF Put
    <3> QED
      BY <1>1, <2>2, <3>1
  <2> QED
    BY <2>1, <2>2
<1>5. \A k \in Used : k[1] \in Namespaces /\ k[2] \in Names /\ index[k[1]][k[2]] # 0
  BY DEF Used
<1>6. \A k \in Used : index'[k[1]][k[2]] = index[k[1]][k[2]]
  BY <1>4, <1>5
<1>7. Used \subseteq Used'
  BY <1>5, <1>6 DEF Used
<1>8. \A k \in Used' : k \in Used \/ k[1] = ns
  BY <1>4 DEF Used
<1> QED
  BY <1>3, <1>6, <1>7, <1>8 DEF HasBucket

\* WritePut: an object stays on its side of a cursor that was not moved.
LEMMA PassedAfterPut ==
    ASSUME StoreInv, HasBucket, NEW ns \in Namespaces, NEW o \in Objects, Put(ns, o),
           NEW sc \in Namespaces \cup {0}, NEW cur \in Positions, NEW k \in Used,
           sc = 0 /\ ns \notin Buckets =>
              ~ (PlaceOf(ns) < cur[1] \/ (PlaceOf(ns) = cur[1] /\ cur[2] > 1))
    PROVE  Passed(NSList(sc), cur, k)' <=> Passed(NSList(sc), cur, k)
<1> PICK i \in Nat \ {0} : i = index[k[1]][k[2]]
  BY UsedIsLive
<1>1. /\ i = index'[k[1]][k[2]]
      /\ k[1] \in Buckets
      /\ order' = WithBucket(ns) /\ Buckets' = Buckets \cup {ns}
  BY PutLeavesSlots DEF HasBucket
<1> PICK a \in Nat \ {0}, b \in Nat : a = cur[1] /\ b = cur[2]
  BY DEF Positions
<1>2. \A p : Before(PlaceIn(p, k), cur) <=> p < a \/ (p = a /\ i < b)
  BY DEF Before, PlaceIn
<1>3. \A p : Before(PlaceIn(p, k), cur)' <=> p < a \/ (p = a /\ i < b)
  BY <1>1 DEF Before, PlaceIn
<1>4. Passed(NSList(sc), cur, k) <=>
         \E p \in 1 .. Len(NSList(sc)) : NSList(sc)[p] = k[1] /\ (p < a \/ (p = a /\ i < b))
  BY <1>2, Zenon DEF Passed
<1>5. Passed(NSList(sc), cur, k)' <=>
         \E p \in 1 .. Len(NSList(sc)') :
            NSList(sc)'[p] = k[1] /\ (p < a \/ (p = a /\ i < b))
  BY <1>3, Zenon DEF Passed
<1>6. CASE NSList(sc)' = NSList(sc)
  BY <1>4, <1>5, <1>6
<1>7. CASE sc # 0
  <2>1. CASE sc \in Buckets
    BY <1>1, <1>6, <1>7, <2>1 DEF NSList
  <2>2. CASE sc \notin Buckets
    <3>1. NSList(sc) = <<>>
      BY <1>7, <2>2 DEF NSList
    <3>2. NSList(sc)' = <<>> \/ NSList(sc)' = <<sc>>
      BY <1>7 DEF NSList
    <3>3. sc # k[1]
      BY <1>1, <2>2
    <3>4. CASE NSList(sc)' = <<>>
      BY <1>6, <3>1, <3>4
    <3>5. CASE NSList(sc)' = <<sc>>
      <4>1. Len(<<sc>>) = 1 /\ <<sc>>[1] = sc
        OBVIOUS
      <4>2. ~ Passed(NSList(sc), cur, k)'
        BY <1>5, <3>3, <3>5, <4>1
      <4>3. ~ Passed(NSList(sc), cur, k)
        BY <1>4, <3>1
      <4> QED
        BY <4>2, <4>3
    <3> QED
      BY <3>2, <3>4, <3>5
  <2> QED
    BY <2>1, <2>2
<1>8. CASE sc = 0 /\ ns \in Buckets
  BY <1>1, <1>6, <1>8 DEF NSList, WithBucket
<1>9. CASE sc = 0 /\ ns \notin Buckets
  <2>0. order \in Seq(Namespaces) /\ NamespacesSorted /\ Len(order) \in Nat
    BY DEF StoreInv
  <2> PICK P \in 1 .. Len(order) + 1, n \in Nat : P = PlaceOf(ns) /\ n = Len(order)
    BY <1>9, <2>0, PlaceSplits
  <2>1. ~ (P < a \/ (P = a /\ b > 1))
    BY <1>9
  <2>2. NSList(sc) = order /\ NSList(sc)' = order'
    BY <1>9 DEF NSList
  <2>3. Len(order') = n + 1
    BY <1>1, <1>9, <2>0, BucketShifts
  <2>4. \A p \in 1 .. n + 1 :
           order'[p] = IF p < P THEN order[p] ELSE IF p = P THEN ns ELSE order[p - 1]
    BY <1>1, <1>9, <2>0, BucketShifts
  <2>5. ASSUME NEW p \in 1 .. n, order[p] = k[1], p < a \/ (p = a /\ i < b)
        PROVE  p \in 1 .. n + 1 /\ order'[p] = k[1]
    <3>1. p < P
      BY <2>1, <2>5
    <3>2. p \in 1 .. n + 1
      OBVIOUS
    <3> QED
      BY <2>4, <2>5, <3>1, <3>2
  <2>6. ASSUME NEW p \in 1 .. n + 1, order'[p] = k[1], p < a \/ (p = a /\ i < b)
        PROVE  p \in 1 .. n /\ order[p] = k[1]
    <3>1. p <= P
      BY <2>1, <2>6
    <3>2. p # P
      BY <1>1, <1>9, <2>4, <2>6
    <3>3. p < P /\ p \in 1 .. n
      BY <3>1, <3>2
    <3>4. order'[p] = order[p]
      BY <2>4, <3>3
    <3> QED
      BY <2>6, <3>3, <3>4
  <2> QED
    BY <1>4, <1>5, <2>2, <2>3, <2>5, <2>6
<1> QED
  BY <1>7, <1>8, <1>9

\* Compaction moves no object over a cut with only live slots before it.
LEMMA RankKeeps ==
    ASSUME NEW q, NEW idx, NEW d, Sound(q, idx, d), NEW cut \in Nat,
           \A j \in 1 .. Len(q) : j < cut => q[j] # Tomb,
           NEW m \in Names, idx[m] # 0
    PROVE  Reindex(Kept(q))[m] < cut <=> idx[m] < cut
<1> PICK L : L = LiveOf(q)
  OBVIOUS
<1> PICK n : n = Cardinality(L)
  OBVIOUS
<1> PICK K : K = Kept(q)
  OBVIOUS
<1>1. /\ q \in Seq(Slots) /\ Len(q) \in Nat /\ DOMAIN q = 1 .. Len(q)
      /\ L \subseteq 1 .. Len(q) /\ IsFiniteSet(L) /\ n \in Nat
  BY LiveSlots, LenProperties DEF Sound
<1>2. PICK g \in [1 .. n -> L] :
        /\ \A k \in DOMAIN g : K[k] = q[g[k]]
        /\ \A k \in DOMAIN g : Cardinality({j \in L : j <= g[k]}) = k
  BY <1>1, KeptFacts
<1>3. Sound(K, Reindex(K), 0) /\ Reindex(K)[m] # 0
  BY CompactIsSound
<1> PICK k : k = Reindex(K)[m]
  OBVIOUS
<1>4. k \in LiveOf(K) /\ K[k].name = m
  BY <1>3 DEF Sound
<1>5. k \in 1 .. n
  <2>1. DOMAIN K = 1 .. n
    BY DEF Kept
  <2> QED
    BY <1>4, <2>1 DEF LiveOf
<1> PICK i : i = g[k]
  OBVIOUS
<1>6. i \in L /\ q[i].name = m /\ Cardinality({j \in L : j <= i}) = k
  BY <1>2, <1>4, <1>5
<1>7. i = idx[m]
  BY <1>6 DEF Sound
<1>8. \A j \in 1 .. Len(q) : j < cut => j \in L
  BY <1>1 DEF LiveOf
<1> PICK B : B = {j \in L : j <= i}
  OBVIOUS
<1>9. B \subseteq L /\ IsFiniteSet(B) /\ Cardinality(B) = k /\ i \in Nat \ {0} /\ i <= Len(q)
  BY <1>1, <1>6, FS_Subset
<1>10. CASE i < cut
  <2>1. B = 1 .. i
    <3>1. \A j \in 1 .. i : j \in L /\ j <= i
      <4>1. \A j \in 1 .. i : j \in 1 .. Len(q) /\ j < cut /\ j <= i
        BY <1>1, <1>9, <1>10
      <4> QED
        BY <1>8, <4>1
    <3>2. \A j \in B : j \in 1 .. i
      BY <1>1, <1>9
    <3>3. 1 .. i \subseteq B
      BY <3>1
    <3>4. B \subseteq 1 .. i
      BY <3>2
    <3> QED
      BY <3>3, <3>4
  <2>2. Cardinality(1 .. i) = i
    BY <1>9, FS_Interval
  <2> QED
    BY <1>7, <1>9, <1>10, <2>1, <2>2
<1>11. CASE i >= cut
  <2>1. CASE cut = 0
    BY <1>1, <1>5, <1>7, <1>9, <2>1
  <2>2. CASE cut # 0
    <3> PICK c \in Nat : c = cut - 1
      BY <2>2
    <3>1. IsFiniteSet(1 .. c) /\ Cardinality(1 .. c) = c /\ i \notin 1 .. c
      <4>1. 1 \in Int /\ c \in Int /\ (IF 1 > c THEN 0 ELSE c - 1 + 1) = c
        OBVIOUS
      <4>2. IsFiniteSet(1 .. c) /\ Cardinality(1 .. c) = c
        BY <4>1, FS_Interval
      <4> QED
        BY <1>9, <1>11, <4>2
    <3>2. (1 .. c) \cup {i} \subseteq B
      BY <1>6, <1>8, <1>9, <1>11
    <3> PICK C : C = (1 .. c) \cup {i}
      OBVIOUS
    <3>3. Cardinality(C) = c + 1
      <4> PICK D : D = 1 .. c
        OBVIOUS
      <4>1. IsFiniteSet(D) /\ Cardinality(D) = c /\ i \notin D /\ C = D \cup {i}
        BY <3>1
      <4>2. Cardinality(D \cup {i}) = Cardinality(D) + 1
        BY <4>1, FS_AddElement, Zenon
      <4> QED
        BY <4>1, <4>2
    <3>4. Cardinality(C) <= Cardinality(B)
      BY <1>9, <3>2, FS_Subset
    <3>5. c + 1 <= k
      BY <1>9, <3>3, <3>4
    <3>6. ~ (k < cut) /\ ~ (i < cut)
      BY <1>5, <1>9, <1>11, <3>5
    <3> QED
      BY <1>7, <3>6
  <2> QED
    BY <2>1, <2>2
<1> QED
  BY <1>7, <1>9, <1>10, <1>11

\* WriteDelete: an object stays on its side of a cursor that was not moved.
LEMMA PassedAfterDelete ==
    ASSUME StoreInv, HasBucket, NEW ns \in Namespaces, NEW n \in Names, Delete(ns, n),
           NEW sc \in Namespaces \cup {0}, NEW cur \in Positions,
           NEW k \in Used, k # <<ns, n>>,
           ~ (/\ cur[1] \in DOMAIN NSList(sc) /\ NSList(sc)[cur[1]] = ns
              /\ Compacts(dead[ns] + 1, Len(slots[ns]))
              /\ \E j \in DOMAIN slots[ns] :
                    j < cur[2] /\ (slots[ns][j] = Tomb \/ j = index[ns][n]))
    PROVE  Passed(NSList(sc), cur, k)' <=> Passed(NSList(sc), cur, k)
<1> PICK list : list = NSList(sc)
  OBVIOUS
<1>1. list \in Seq(Namespaces) /\ DOMAIN list = 1 .. Len(list) /\ Len(list) \in Nat
  BY ListOfScope
<1>2. NSList(sc)' = list
  BY DEF Delete, NSList, Buckets
<1> PICK a \in Nat \ {0}, b \in Nat : a = cur[1] /\ b = cur[2]
  BY DEF Positions
<1>3. k[1] \in Namespaces /\ k[2] \in Names /\ k = <<k[1], k[2]>> /\ index[k[1]][k[2]] # 0
  BY DEF Used
<1> PICK i : i = index[k[1]][k[2]]
  OBVIOUS
<1> PICK t : t = index'[k[1]][k[2]]
  OBVIOUS
<1>4. \A p : Before(PlaceIn(p, k), cur) <=> p < a \/ (p = a /\ i < b)
  BY DEF Before, PlaceIn
<1>5. \A p : Before(PlaceIn(p, k), cur)' <=> p < a \/ (p = a /\ t < b)
  BY DEF Before, PlaceIn
<1>6. SUFFICES ASSUME a \in 1 .. Len(list), list[a] = k[1]
               PROVE  t < b <=> i < b
  <2>1. Passed(list, cur, k) <=>
           \E p \in 1 .. Len(list) : list[p] = k[1] /\ (p < a \/ (p = a /\ i < b))
    BY <1>4, Zenon DEF Passed
  <2>2. Passed(NSList(sc), cur, k)' <=>
           \E p \in 1 .. Len(list) : list[p] = k[1] /\ (p < a \/ (p = a /\ t < b))
    BY <1>2, <1>5, Zenon DEF Passed
  <2>3. ASSUME NEW p \in 1 .. Len(list), list[p] = k[1], p = a
        PROVE  t < b <=> i < b
    BY <1>6, <2>3
  <2> QED
    BY <2>1, <2>2, <2>3
<1>7. CASE k[1] # ns
  <2>1. PICK v : index' = [index EXCEPT ![ns] = v]
    BY DEF Delete
  <2>2. index'[k[1]] = index[k[1]]
    BY <1>3, <1>7, <2>1 DEF StoreInv
  <2> QED
    BY <2>2
<1>8. CASE k[1] = ns
  <2> DEFINE q == slots[ns]
             idx == index[ns]
             r == [q EXCEPT ![idx[n]] = Tomb]
             u == [idx EXCEPT ![n] = 0]
  <2>1. Sound(q, idx, dead[ns]) /\ idx[n] # 0 /\ k[2] # n
    BY <1>3, <1>8 DEF Delete, StoreInv
  <2>2. Sound(r, u, dead[ns] + 1)
    BY <2>1, TombIsSound
  <2>3. /\ idx \in [Names -> 0 .. Len(q)] /\ Len(q) \in Nat /\ DOMAIN q = 1 .. Len(q)
        /\ idx[n] \in 1 .. Len(q)
    <3>1. idx[n] \in LiveOf(q)
      BY <2>1 DEF Sound
    <3> QED
      BY <2>1, <3>1, LiveSlots, LenProperties DEF Sound
  <2>4. u[k[2]] = i /\ i # 0
    BY <1>3, <1>8, <2>1, <2>3
  <2>5. /\ Len(r) = Len(q)
        /\ \A j \in 1 .. Len(q) : r[j] = IF j = idx[n] THEN Tomb ELSE q[j]
    <3>1. Tomb \in Slots /\ q \in Seq(Slots)
      BY <2>1 DEF Slots, Sound
    <3> QED
      BY <2>3, <3>1, ExceptSeq
  <2>6. index' = [index EXCEPT ![ns] = IF Compacts(dead[ns] + 1, Len(r))
                                       THEN Reindex(Kept(r)) ELSE u]
    BY DEF Delete
  <2> HIDE DEF r, u
  <2>7. index'[ns] = IF Compacts(dead[ns] + 1, Len(q)) THEN Reindex(Kept(r)) ELSE u
    BY <2>5, <2>6 DEF StoreInv
  <2>8. CASE Compacts(dead[ns] + 1, Len(q))
    <3>1. t = Reindex(Kept(r))[k[2]]
      BY <1>8, <2>7, <2>8
    <3>2. \A j \in 1 .. Len(r) : j < b => r[j] # Tomb
      BY <1>1, <1>6, <1>8, <2>3, <2>5, <2>8
    <3>3. Reindex(Kept(r))[k[2]] < b <=> u[k[2]] < b
      BY <1>3, <2>2, <2>4, <3>2, RankKeeps
    <3> QED
      BY <2>4, <3>1, <3>3
  <2>9. CASE ~ Compacts(dead[ns] + 1, Len(q))
    BY <1>8, <2>4, <2>7, <2>9
  <2> QED
    BY <2>8, <2>9
<1> QED
  BY <1>7, <1>8

-----------------------------------------------------------------------------
(* Steps.                                                                  *)

\* A step that walk d has no part in, but that may erase what d looks for.
WalkKept(d) ==
    /\ phase'[d] = phase[d] /\ scope'[d] = scope[d] /\ cursor'[d] = cursor[d]
    /\ seen'[d] = seen[d] /\ twice'[d] = twice[d] /\ stayed'[d] \subseteq stayed[d]

\* Such a step does no harm if the objects that stay do not get past the cursor.
LEMMA WalkStays ==
    ASSUME NEW d \in Clients, WalkOf(d), WalkKept(d), stayed'[d] \subseteq Used',
           NEW sc, sc = scope[d], NEW cur, cur = cursor[d],
           phase[d] \in {"chunk", "token"} =>
              \A k \in stayed'[d] :
                 Passed(NSList(sc), cur, k)' <=> Passed(NSList(sc), cur, k)
    PROVE  WalkOf(d)'
<1>1. Once(d)' /\ Complete(d)'
  BY DEF WalkOf, WalkKept, Once, Complete, Expected
<1>2. ASSUME phase'[d] \in {"chunk", "token"}
      PROVE  cursor'[d] \in Positions /\ Tracks(d)'
  <2>1. cur \in Positions /\ Tracks(d) /\ phase[d] \in {"chunk", "token"}
    BY <1>2 DEF WalkOf, WalkKept
  <2>2. cursor'[d] = cur /\ scope'[d] = sc
    BY DEF WalkKept
  <2>3. \A k \in stayed'[d] :
           k \in seen[d] <=> k[2] \in Selected /\ Passed(NSList(sc), cur, k)
    BY <2>1 DEF Tracks, WalkKept
  <2>4. \A k \in stayed'[d] :
           k \in seen'[d] <=> k[2] \in Selected /\ Passed(NSList(sc), cur, k)'
    BY <2>1, <2>3 DEF WalkKept
  <2>5. NSList(sc)' = NSList(scope[d])'
    BY <2>2 DEF NSList
  <2>6. \A k : Passed(NSList(sc), cur, k)' <=> Passed(NSList(scope[d]), cursor[d], k)'
    BY <2>2, <2>5 DEF Passed, PlaceIn
  <2> QED
    BY <2>1, <2>2, <2>4, <2>6 DEF Tracks
<1> QED
  BY <1>1, <1>2 DEF WalkOf

\* Nothing is passed that the store does not say.
LEMMA PassedSame ==
    ASSUME UNCHANGED storeVars, NEW sc, NEW cur, NEW k
    PROVE  Passed(NSList(sc), cur, k)' <=> Passed(NSList(sc), cur, k)
  BY DEF storeVars, Passed, PlaceIn, NSList, Buckets

\* A step of another walk.
LEMMA OtherWalk ==
    ASSUME NEW d \in Clients, WalkOf(d), WalkKept(d), UNCHANGED storeVars
    PROVE  WalkOf(d)'
<1>1. stayed'[d] \subseteq Used'
  BY DEF WalkOf, WalkKept, Used, storeVars
<1> PICK sc : sc = scope[d]
  OBVIOUS
<1> PICK cur : cur = cursor[d]
  OBVIOUS
<1>2. \A k : Passed(NSList(sc), cur, k)' <=> Passed(NSList(sc), cur, k)
  BY PassedSame
<1> QED
  BY <1>1, <1>2, WalkStays

\* A walk starts with nothing passed and nothing received.
LEMMA StartKeepsWalks ==
    ASSUME StoreInv, WalkInv, NEW c \in Clients, NEW sc \in Namespaces \cup {0},
           NEW n \in Limits, StartList(c, sc, n)
    PROVE  WalkInv'
<1>1. /\ UNCHANGED storeVars
      /\ phase'[c] = "chunk" /\ scope'[c] = sc /\ cursor'[c] = StartCursor
      /\ seen'[c] = {} /\ twice'[c] = {} /\ stayed'[c] = LiveKeys
  BY DEF StartList, WalkInv, ClientFields
<1>2. \A d \in Clients \ {c} : WalkKept(d)
  BY DEF StartList, WalkInv, ClientFields, WalkKept
<1>3. HasBucket' /\ ClientFields'
  BY <1>1 DEF StartList, WalkInv, ClientFields, HasBucket, Used, Buckets, storeVars
<1>4. WalkOf(c)'
  <2>1. stayed'[c] = Used' /\ stayed'[c] = Used
    BY <1>1 DEF LiveKeys, Used, storeVars
  <2>2. cursor'[c] \in Positions /\ cursor'[c][1] = 1 /\ cursor'[c][2] = 1
    BY <1>1 DEF StartCursor, Positions
  <2>3. ASSUME NEW k \in Used
        PROVE  ~ Passed(NSList(scope[c]), cursor[c], k)'
    <3>1. index'[k[1]][k[2]] \in Nat \ {0}
      BY <1>1, UsedIsLive DEF storeVars
    <3>3. \A p \in Nat \ {0} : ~ Before(PlaceIn(p, k), cursor[c])'
      BY <2>2, <3>1 DEF Before, PlaceIn
    <3>4. Len(NSList(scope[c])') \in Nat
      <4>1. NSList(scope[c])' = NSList(sc)
        BY <1>1 DEF NSList, Buckets, storeVars
      <4>2. NSList(sc) \in Seq(Namespaces)
        BY ListOfScope
      <4> QED
        BY <4>1, <4>2
    <3>5. \A p \in 1 .. Len(NSList(scope[c])') : p \in Nat \ {0}
      BY <3>4
    <3> QED
      BY <3>3, <3>5 DEF Passed
  <2>4. Tracks(c)'
    BY <1>1, <2>1, <2>3 DEF Tracks
  <2> QED
    BY <1>1, <2>1, <2>2, <2>4 DEF WalkOf, Once, Complete
<1>5. \A d \in Clients \ shifted' : d # c => WalkOf(d)
  BY DEF StartList, WalkInv
<1>6. \A d \in Clients \ shifted' : WalkOf(d)'
  BY <1>1, <1>2, <1>4, <1>5, OtherWalk
<1> QED
  BY <1>3, <1>6 DEF WalkInv

\* Asking for the next page leaves the cursor alone.
LEMMA NextKeepsWalks ==
    ASSUME StoreInv, WalkInv, NEW c \in Clients, NextPage(c)
    PROVE  WalkInv'
<1>1. /\ UNCHANGED storeVars /\ shifted' = shifted
      /\ phase[c] = "token" /\ phase'[c] = "chunk"
      /\ UNCHANGED <<scope, limit, cursor, seen, twice, stayed>>
  BY DEF NextPage, WalkInv, ClientFields
<1>2. \A d \in Clients \ {c} : WalkKept(d)
  BY DEF NextPage, WalkInv, ClientFields, WalkKept
<1>3. HasBucket' /\ ClientFields'
  BY <1>1 DEF NextPage, WalkInv, ClientFields, HasBucket, Used, Buckets, storeVars
<1>4. ASSUME WalkOf(c) PROVE WalkOf(c)'
  <2>1. cursor[c] \in Positions /\ Tracks(c)
    BY <1>1, <1>4 DEF WalkOf
  <2>2. Tracks(c)'
    BY <1>1, <2>1 DEF Tracks, Passed, PlaceIn, NSList, Buckets, storeVars
  <2> QED
    BY <1>1, <1>4, <2>1, <2>2 DEF WalkOf, Once, Complete, Used, storeVars
<1>5. \A d \in Clients \ shifted' : WalkOf(d)'
  <2> SUFFICES ASSUME NEW d \in Clients \ shifted' PROVE WalkOf(d)'
    OBVIOUS
  <2>1. WalkOf(d)
    BY <1>1 DEF WalkInv
  <2> QED
    BY <1>1, <1>2, <1>4, <2>1, OtherWalk
<1> QED
  BY <1>3, <1>5 DEF WalkInv

\* Iterate: a chunk finds what is between its cursors, and what it finds was not
\* received before; the chunk that has no more has passed the whole list.
LEMMA ChunkKeepsWalks ==
    ASSUME StoreInv, WalkInv, NEW c \in Clients, Chunk(c)
    PROVE  WalkInv'
<1> PICK sc : sc = scope[c]
  OBVIOUS
<1> PICK cur : cur = cursor[c]
  OBVIOUS
<1> PICK left : left = IF limit[c] = 0 THEN 0 ELSE limit[c] - sent[c]
  OBVIOUS
<1> PICK it : it = Iterate(NSList(sc), cur, left)
  OBVIOUS
<1>0. UNCHANGED storeVars /\ UNCHANGED <<scope, limit, stayed, shifted>> /\ phase[c] = "chunk"
  BY DEF Chunk
<1>1. /\ phase' = [phase EXCEPT ![c] = IF ~ it.more THEN "done"
                                       ELSE IF it.stopped THEN "token" ELSE "chunk"]
      /\ cursor' = [cursor EXCEPT ![c] = it.next]
      /\ sent' = [sent EXCEPT ![c] = @ + Cardinality(it.keys)]
      /\ seen' = [seen EXCEPT ![c] = @ \cup it.keys]
      /\ twice' = [twice EXCEPT ![c] = @ \cup (seen[c] \cap it.keys)]
  BY DEF Chunk
<1>2. ClientFields'
  <2>1. phase' \in [Clients -> {"idle", "chunk", "token", "done"}]
    BY <1>1 DEF WalkInv, ClientFields
  <2> QED
    BY <1>0, <1>1, <2>1 DEF WalkInv, ClientFields
<1>3. HasBucket'
  BY <1>0 DEF WalkInv, HasBucket, Used, Buckets, storeVars
<1>4. \A d \in Clients \ {c} : WalkKept(d)
  BY <1>0, <1>1 DEF WalkInv, ClientFields, WalkKept
<1>5. /\ cursor'[c] = it.next /\ seen'[c] = seen[c] \cup it.keys
      /\ twice'[c] = twice[c] \cup (seen[c] \cap it.keys)
      /\ phase'[c] = IF ~ it.more THEN "done" ELSE IF it.stopped THEN "token" ELSE "chunk"
  BY <1>1 DEF WalkInv, ClientFields
<1>6. ASSUME WalkOf(c) PROVE WalkOf(c)'
  <2>1. cur \in Positions /\ Tracks(c) /\ stayed[c] \subseteq Used /\ sc \in Namespaces \cup {0}
    BY <1>0, <1>6 DEF WalkOf, WalkInv, ClientFields
  <2>2. /\ it.more => it.next \in Positions
        /\ \A k \in Used : Finds(sc, cur, it, k)
    BY <2>1, ChunkFinds DEF WalkInv
  <2>3. \A k \in stayed[c] : k \in seen[c] <=> k[2] \in Selected /\ Passed(NSList(sc), cur, k)
    BY <2>1 DEF Tracks
  <2>4. Once(c)'
    <3>1. \A k \in stayed[c] : ~ (k \in seen[c] /\ k \in it.keys)
      BY <2>1, <2>2, <2>3 DEF Finds
    <3>2. twice[c] \cap stayed[c] = {}
      BY <1>6 DEF WalkOf, Once
    <3>3. stayed' = stayed
      BY <1>0
    <3> QED
      BY <1>5, <3>1, <3>2, <3>3 DEF Once
  <2>5. CASE it.more
    <3>1. phase'[c] # "done"
      BY <1>5, <2>5
    <3>2. cursor'[c] \in Positions
      BY <1>5, <2>2, <2>5
    <3>3. \A k \in stayed[c] :
             k \in seen'[c] <=> k[2] \in Selected /\ Passed(NSList(sc), it.next, k)
      BY <1>5, <2>1, <2>2, <2>3, <2>5 DEF Finds
    <3>4. \A k : Passed(NSList(scope[c]), cursor[c], k)' <=> Passed(NSList(sc), it.next, k)
      BY <1>0, <1>5 DEF Passed, PlaceIn, NSList, Buckets, storeVars
    <3>5. Tracks(c)'
      BY <1>0, <3>3, <3>4 DEF Tracks
    <3> QED
      BY <1>0, <2>1, <2>4, <3>1, <3>2, <3>5 DEF WalkOf, Complete, Used, storeVars
  <2>6. CASE ~ it.more
    <3>1. phase'[c] = "done"
      BY <1>5, <2>6
    <3>2. ASSUME NEW k \in stayed[c], k[2] \in Selected, sc \in {0, k[1]}
          PROVE  k \in seen'[c]
      BY <1>5, <2>1, <2>2, <2>3, <2>6, <3>2 DEF Finds
    <3>3. Complete(c)'
      BY <1>0, <3>2 DEF Complete, Expected
    <3> QED
      BY <1>0, <2>1, <2>4, <3>1, <3>3 DEF WalkOf, Used, storeVars
  <2> QED
    BY <2>5, <2>6
<1>7. \A d \in Clients \ shifted' : WalkOf(d)'
  <2> SUFFICES ASSUME NEW d \in Clients \ shifted' PROVE WalkOf(d)'
    OBVIOUS
  <2>1. WalkOf(d)
    BY <1>0 DEF WalkInv
  <2> QED
    BY <1>0, <1>4, <1>6, <2>1, OtherWalk
<1> QED
  BY <1>2, <1>3, <1>7 DEF WalkInv

\* A put moves cursors only by a new bucket, and those it moves it counts.
LEMMA PutKeepsWalks ==
    ASSUME StoreInv, WalkInv, NEW ns \in Namespaces, NEW o \in Objects, WritePut(ns, o)
    PROVE  WalkInv'
<1>1. /\ Put(ns, o) /\ shifted' = shifted \cup MovedByBucket(ns)
      /\ UNCHANGED <<phase, scope, limit, cursor, sent, seen, twice, stayed>>
  BY DEF WritePut
<1>2. HasBucket' /\ Used \subseteq Used'
  BY <1>1, PutLeavesSlots DEF WalkInv
<1>3. ClientFields'
  BY <1>1 DEF WalkInv, ClientFields
<1>4. ASSUME NEW d \in Clients \ shifted'
      PROVE  WalkOf(d)'
  <2>1. WalkOf(d) /\ WalkKept(d) /\ d \notin MovedByBucket(ns)
    BY <1>1, <1>4 DEF WalkInv, WalkKept
  <2>2. stayed[d] \subseteq Used /\ stayed'[d] = stayed[d]
    BY <1>1, <2>1 DEF WalkOf
  <2> PICK sc : sc = scope[d]
    OBVIOUS
  <2> PICK cur : cur = cursor[d]
    OBVIOUS
  <2>3. ASSUME phase[d] \in {"chunk", "token"}, NEW k \in stayed'[d]
        PROVE  Passed(NSList(sc), cur, k)' <=> Passed(NSList(sc), cur, k)
    <3>1. sc = 0 /\ ns \notin Buckets =>
             ~ (PlaceOf(ns) < cur[1] \/ (PlaceOf(ns) = cur[1] /\ cur[2] > 1))
      BY <2>1, <2>3 DEF MovedByBucket, Walking
    <3>2. sc \in Namespaces \cup {0} /\ cur \in Positions /\ k \in Used
      BY <2>1, <2>2, <2>3 DEF WalkOf, WalkInv, ClientFields
    <3> QED
      BY <1>1, <3>1, <3>2, PassedAfterPut DEF WalkInv
  <2> QED
    BY <1>2, <2>1, <2>2, <2>3, WalkStays
<1> QED
  BY <1>2, <1>3, <1>4 DEF WalkInv

\* A deletion moves cursors only by a compaction, and those it moves it counts.
LEMMA DeleteKeepsWalks ==
    ASSUME StoreInv, WalkInv, NEW ns \in Namespaces, NEW n \in Names, WriteDelete(ns, n)
    PROVE  WalkInv'
<1>1. /\ Delete(ns, n) /\ shifted' = shifted \cup MovedByCompaction(ns, n)
      /\ UNCHANGED <<phase, scope, limit, cursor, sent, seen, twice>>
      /\ stayed' = [c \in Clients |-> stayed[c] \ {<<ns, n>>}]
  BY DEF WriteDelete
<1>2. Used' = Used \ {<<ns, n>>}
  BY <1>1, DeleteKeeps
<1>3. HasBucket' /\ ClientFields'
  BY <1>1, <1>2 DEF WalkInv, ClientFields, HasBucket, Buckets, Delete
<1>4. ASSUME NEW d \in Clients \ shifted'
      PROVE  WalkOf(d)'
  <2>1. WalkOf(d) /\ WalkKept(d) /\ d \notin MovedByCompaction(ns, n)
    BY <1>1, <1>4 DEF WalkInv, WalkKept
  <2>2. /\ stayed[d] \subseteq Used /\ stayed'[d] = stayed[d] \ {<<ns, n>>}
        /\ stayed'[d] \subseteq Used'
    BY <1>1, <1>2, <2>1 DEF WalkOf
  <2> PICK sc : sc = scope[d]
    OBVIOUS
  <2> PICK cur : cur = cursor[d]
    OBVIOUS
  <2>3. ASSUME phase[d] \in {"chunk", "token"}, NEW k \in stayed'[d]
        PROVE  Passed(NSList(sc), cur, k)' <=> Passed(NSList(sc), cur, k)
    <3>1. ~ (/\ cur[1] \in DOMAIN NSList(sc) /\ NSList(sc)[cur[1]] = ns
             /\ Compacts(dead[ns] + 1, Len(slots[ns]))
             /\ \E j \in DOMAIN slots[ns] :
                   j < cur[2] /\ (slots[ns][j] = Tomb \/ j = index[ns][n]))
      BY <2>1, <2>3 DEF MovedByCompaction, Walking
    <3>2. sc \in Namespaces \cup {0} /\ cur \in Positions /\ k \in Used /\ k # <<ns, n>>
      BY <2>1, <2>2, <2>3 DEF WalkOf, WalkInv, ClientFields
    <3> QED
      BY <1>1, <3>1, <3>2, PassedAfterDelete DEF WalkInv
  <2> QED
    BY <2>1, <2>2, <2>3, WalkStays
<1> QED
  BY <1>3, <1>4 DEF WalkInv

-----------------------------------------------------------------------------
(* Theorems.                                                               *)

\* No walk is under way when the program starts.
LEMMA WalkInitInv == ListInit => WalkInv
<1> SUFFICES ASSUME ListInit PROVE WalkInv
  OBVIOUS
<1>1. Used = {}
  BY DEF ListInit, StoreInit, Used
<1>2. HasBucket /\ ClientFields
  BY <1>1 DEF ListInit, HasBucket, ClientFields
<1>3. \A c \in Clients : WalkOf(c)
  BY DEF ListInit, WalkOf, Once, Complete
<1> QED
  BY <1>2, <1>3 DEF WalkInv

\* Every step keeps the walks in order.
LEMMA WalkNextInv == StoreInv /\ WalkInv /\ [ListNext]_pageVars => WalkInv'
<1> SUFFICES ASSUME StoreInv, WalkInv, [ListNext]_pageVars PROVE WalkInv'
  OBVIOUS
<1>1. CASE \E c \in Clients, sc \in Namespaces \cup {0}, n \in Limits : StartList(c, sc, n)
  BY <1>1, StartKeepsWalks
<1>2. CASE \E c \in Clients : Chunk(c)
  BY <1>2, ChunkKeepsWalks
<1>3. CASE \E c \in Clients : NextPage(c)
  BY <1>3, NextKeepsWalks
<1>4. CASE \E ns \in Namespaces, o \in Objects : WritePut(ns, o)
  BY <1>4, PutKeepsWalks
<1>5. CASE \E ns \in Namespaces, n \in Names : WriteDelete(ns, n)
  BY <1>5, DeleteKeepsWalks
<1>6. CASE UNCHANGED pageVars
  <2>1. UNCHANGED storeVars /\ UNCHANGED listVars
    BY <1>6 DEF pageVars
  <2>2. HasBucket' /\ ClientFields'
    BY <2>1 DEF WalkInv, ClientFields, HasBucket, Used, Buckets, storeVars, listVars
  <2>3. \A d \in Clients : WalkKept(d)
    BY <2>1 DEF WalkKept, listVars
  <2>4. \A d \in Clients \ shifted' : WalkOf(d)'
    BY <2>1, <2>3, OtherWalk DEF WalkInv, listVars
  <2> QED
    BY <2>2, <2>4 DEF WalkInv
<1> QED
  BY <1>1, <1>2, <1>3, <1>4, <1>5, <1>6 DEF ListNext

\* list.go and store.go: whatever is written between two chunks and two pages, a
\* walk that reaches its end returned every matching object that was there all
\* the time, and none of them twice, unless a namespace that sorts before its
\* cursor or a compaction under it moved that cursor.
THEOREM GapsAreExplained == ListSpec => []GapIsExplained
<1>1. WalkInv => GapIsExplained
  BY DEF WalkInv, WalkOf, GapIsExplained
<1> QED
  BY <1>1, StoreInitInv, StoreNextInv, WalkInitInv, WalkNextInv, PTL DEF ListSpec
=============================================================================
