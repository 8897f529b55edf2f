---------------------------- MODULE StartupProofs ----------------------------
(***************************************************************************)
(* Proofs about Startup, for every preset, every set of files and flags,   *)
(* every number of Events and every pace of background events.             *)
(***************************************************************************)
EXTENDS Startup, FiniteSetTheorems, SequenceTheorems, WellFoundedInduction, TLAPS

-----------------------------------------------------------------------------
(* Induction over a bounded counter.                                       *)

\* A set of numbers that is not empty has a least one.
LEMMA LeastElement ==
    ASSUME NEW T \in SUBSET Nat, T # {}
    PROVE  \E m \in T : \A k \in T : m <= k
<1>1. \E m \in T : \A k \in T : ~ (<<k, m>> \in OpToRel(<, Nat))
  BY NatLessThanWellFounded, WFMin, Zenon
<1>2. PICK m \in T : \A k \in T : ~ (<<k, m>> \in OpToRel(<, Nat))
  BY <1>1
<1>3. ASSUME NEW k \in T
      PROVE  m <= k
  <2>1. ~ (k < m)
    BY <1>2, k \in Nat, m \in Nat DEF OpToRel
  <2> QED
    BY <2>1
<1> QED
  BY <1>3

-----------------------------------------------------------------------------
(* The budget of pods.                                                     *)

\* What holds of 0, and of a number when it holds of the one before, holds up to n.
LEMMA UpTo ==
    ASSUME NEW n \in Nat, NEW T, 0 \in T,
           \A m \in 0 .. n : m # 0 /\ m - 1 \in T => m \in T
    PROVE  \A m \in 0 .. n : m \in T
<1> DEFINE U == {m \in 0 .. n : m \notin T}
<1>1. SUFFICES ASSUME U # {} PROVE FALSE
  OBVIOUS
<1>2. U \in SUBSET Nat
  OBVIOUS
<1>3. PICK m \in U : \A k \in U : m <= k
  <2> HIDE DEF U
  <2> QED
    BY <1>1, <1>2, LeastElement
<1>4. m \in 0 .. n /\ m # 0 /\ m \notin T
  OBVIOUS
<1>5. m - 1 \in 0 .. n /\ ~ (m <= m - 1)
  BY <1>4
<1>6. m - 1 \in T
  BY <1>3, <1>5
<1> QED
  BY <1>4, <1>6

\* The sums of the beginnings of s.
Sums(f, s, n) == f = [i \in 0 .. n |-> IF i = 0 THEN 0 ELSE f[i - 1] + s[i]]

\* There are such sums.
LEMMA SumsExist ==
    ASSUME NEW s, NEW n \in Nat
    PROVE  \E f : Sums(f, s, n)
<1> DEFINE T == {m \in Nat : \E f : Sums(f, s, m)}
<1>1. 0 \in T
  <2>1. Sums([i \in 0 .. 0 |-> 0], s, 0)
    BY DEF Sums
  <2> QED
    BY <2>1
<1>2. ASSUME NEW m \in 0 .. n, m # 0, m - 1 \in T
      PROVE  m \in T
  <2>1. PICK f : Sums(f, s, m - 1)
    BY <1>2
  <2> DEFINE g == [i \in 0 .. m |-> IF i = 0 THEN 0 ELSE f[i - 1] + s[i]]
  <2>2. \A i \in 0 .. m - 1 : g[i] = f[i]
    BY <1>2, <2>1 DEF Sums
  <2>3. ASSUME NEW i \in 0 .. m, i # 0
        PROVE  g[i] = g[i - 1] + s[i]
    <3>1. g[i] = f[i - 1] + s[i]
      BY <2>3
    <3>2. i - 1 \in 0 .. m - 1
      BY <1>2, <2>3
    <3>3. g[i - 1] = f[i - 1]
      BY <2>2, <3>2
    <3> HIDE DEF g
    <3> QED
      BY <3>1, <3>3, Zenon
  <2>4. g[0] = 0
    BY <1>2
  <2>5. g = [i \in 0 .. m |-> g[i]]
    BY Zenon
  <2> HIDE DEF g
  <2>6. \A i \in 0 .. m : g[i] = IF i = 0 THEN 0 ELSE g[i - 1] + s[i]
    BY <2>3, <2>4, Zenon
  <2>7. Sums(g, s, m)
    BY <2>5, <2>6, Zenon DEF Sums
  <2> QED
    BY <1>2, <2>7
<1> HIDE DEF T
<1>3. n \in T
  BY <1>1, <1>2, UpTo
<1> QED
  BY <1>3 DEF T

\* SumSeq ends with the last of them.
LEMMA SumIsLast ==
    ASSUME NEW s, NEW n \in Nat, Len(s) = n
    PROVE  \E f : Sums(f, s, n) /\ SumSeq(s) = f[n]
<1> DEFINE F == CHOOSE f : Sums(f, s, n)
<1>1. SumSeq(s) = F[n]
  BY DEF SumSeq, Sums
<1>2. Sums(F, s, n)
  BY SumsExist, Zenon
<1> QED
  BY <1>1, <1>2, Zenon

\* They are numbers, each more than the one before by its element.
LEMMA SumsAdd ==
    ASSUME NEW n \in Nat, NEW s \in [1 .. n -> Int], NEW f, Sums(f, s, n)
    PROVE  /\ f[0] = 0 /\ \A i \in 1 .. n : f[i] = f[i - 1] + s[i]
           /\ \A i \in 0 .. n : f[i] \in Int
<1>1. \A i \in 0 .. n : f[i] = IF i = 0 THEN 0 ELSE f[i - 1] + s[i]
  BY Zenon DEF Sums
<1>2. f[0] = 0 /\ \A i \in 1 .. n : f[i] = f[i - 1] + s[i]
  BY <1>1
<1> DEFINE T == {i \in 0 .. n : f[i] \in Int}
<1>3. 0 \in T
  BY <1>2
<1>4. \A i \in 0 .. n : i # 0 /\ i - 1 \in T => i \in T
  BY <1>2
<1> HIDE DEF T
<1>5. \A i \in 0 .. n : i \in T
  BY <1>3, <1>4, UpTo
<1> QED
  BY <1>2, <1>5 DEF T

\* The sum of n numbers above 0 is at least n.
LEMMA SumIsMany ==
    ASSUME NEW n \in Nat, NEW s \in [1 .. n -> Nat \ {0}], NEW f, Sums(f, s, n)
    PROVE  f[n] >= n
<1>0. s \in [1 .. n -> Int]
  OBVIOUS
<1>1. /\ f[0] = 0 /\ \A i \in 1 .. n : f[i] = f[i - 1] + s[i]
      /\ \A i \in 0 .. n : f[i] \in Int
  BY <1>0, SumsAdd
<1> DEFINE T == {i \in 0 .. n : f[i] >= i}
<1>2. 0 \in T
  BY <1>1
<1>3. ASSUME NEW i \in 0 .. n, i # 0, i - 1 \in T
      PROVE  i \in T
  <2>1. i \in 1 .. n /\ f[i - 1] >= i - 1 /\ f[i - 1] \in Int /\ s[i] \in Nat \ {0}
    BY <1>1, <1>3
  <2> QED
    BY <1>1, <2>1
<1> HIDE DEF T
<1>4. \A i \in 0 .. n : i \in T
  BY <1>2, <1>3, UpTo
<1>5. n \in 0 .. n
  OBVIOUS
<1> QED
  BY <1>4, <1>5 DEF T

\* Go's division of numbers above 0.
LEMMA DivIs ==
    ASSUME NEW a \in Int, NEW b \in Nat \ {0}, NEW q, q = a \div b
    PROVE  q \in Int /\ q * b <= a /\ a < q * b + b
  OBVIOUS

\* A product is above 0 when both are, and orders as they do.
LEMMA ProductOrder ==
    ASSUME NEW a \in Int, NEW b \in Int, NEW c \in Nat \ {0}
    PROVE  /\ a * c < b * c => a < b
           /\ a <= b => a * c <= b * c
  OBVIOUS

\* Products of a sum.
LEMMA ProductOfSum ==
    ASSUME NEW a \in Int, NEW b \in Int, NEW c \in Int
    PROVE  (a + b) * c = a * c + b * c /\ a * c \in Int /\ b * c \in Int /\ c * a = a * c
  OBVIOUS

\* h is the whole part of x / sum, and each of h of its share.
IsWhole(h, x, sum) == h \in Int /\ h * sum <= x /\ x < h * sum + sum

Wholes(h, total, w, sum, n) == \A i \in 1 .. n : IsWhole(h[i], total * w[i], sum)

\* What falls short by less than one each, with one more.
LEMMA FallShortMore ==
    ASSUME NEW a \in Int, NEW b \in Int, NEW w \in Int, NEW h \in Int,
           NEW total \in Nat, NEW sum \in Nat \ {0}, NEW i \in Nat,
           b * sum <= a * total, a * total <= b * sum + (i - 1) * (sum - 1),
           h * sum <= w * total, w * total < h * sum + sum
    PROVE  /\ (b + h) * sum <= (a + w) * total
           /\ (a + w) * total <= (b + h) * sum + i * (sum - 1)
<1>1. (a + w) * total = a * total + w * total
  OBVIOUS
<1>2. (b + h) * sum = b * sum + h * sum
  OBVIOUS
<1>3. i * (sum - 1) = (i - 1) * (sum - 1) + (sum - 1)
  OBVIOUS
<1>4. /\ a * total \in Int /\ w * total \in Int /\ b * sum \in Int /\ h * sum \in Int
      /\ (i - 1) * (sum - 1) \in Int
  OBVIOUS
<1> QED
  BY <1>1, <1>2, <1>3, <1>4

\* Up to i the whole parts fall short by less than one each.
LEMMA WholesFallShort ==
    ASSUME NEW n \in Nat, NEW total \in Nat, NEW sum \in Nat \ {0},
           NEW w \in [1 .. n -> Nat \ {0}], NEW h \in [1 .. n -> Int], Wholes(h, total, w, sum, n),
           NEW a, Sums(a, w, n), NEW b, Sums(b, h, n)
    PROVE  \A i \in 0 .. n : /\ a[i] \in Int /\ b[i] \in Int
                             /\ b[i] * sum <= a[i] * total
                             /\ a[i] * total <= b[i] * sum + i * (sum - 1)
<1>0. w \in [1 .. n -> Int]
  OBVIOUS
<1>1. /\ a[0] = 0 /\ \A i \in 1 .. n : a[i] = a[i - 1] + w[i]
      /\ \A i \in 0 .. n : a[i] \in Int
  BY <1>0, SumsAdd
<1>2. /\ b[0] = 0 /\ \A i \in 1 .. n : b[i] = b[i - 1] + h[i]
      /\ \A i \in 0 .. n : b[i] \in Int
  BY SumsAdd
<1> DEFINE T == {i \in 0 .. n : /\ b[i] * sum <= a[i] * total
                               /\ a[i] * total <= b[i] * sum + i * (sum - 1)}
<1>3. 0 \in T
  BY <1>1, <1>2
<1>4. ASSUME NEW i \in 0 .. n, i # 0, i - 1 \in T
      PROVE  i \in T
  <2>1. i \in 1 .. n /\ i - 1 \in 0 .. n /\ w[i] \in Int /\ h[i] \in Int
    BY <1>4
  <2> PICK a0 \in Int : a0 = a[i - 1]
    BY <1>1, <2>1
  <2> PICK b0 \in Int : b0 = b[i - 1]
    BY <1>2, <2>1
  <2>2. b0 * sum <= a0 * total /\ a0 * total <= b0 * sum + (i - 1) * (sum - 1)
    BY <1>4
  <2> PICK wi \in Int : wi = w[i]
    BY <2>1
  <2> PICK hi \in Int : hi = h[i]
    BY <2>1
  <2>3. a[i] = a0 + wi /\ b[i] = b0 + hi
    BY <1>1, <1>2, <2>1
  <2>4. hi * sum <= wi * total /\ wi * total < hi * sum + sum
    <3>1. wi * total = total * wi /\ IsWhole(hi, total * wi, sum)
      BY <2>1 DEF Wholes
    <3> QED
      BY <3>1 DEF IsWhole
  <2>5. /\ (b0 + hi) * sum <= (a0 + wi) * total
        /\ (a0 + wi) * total <= (b0 + hi) * sum + i * (sum - 1)
    <3>1. i \in Nat
      BY <2>1
    <3> QED
      BY <2>2, <2>4, <3>1, FallShortMore, Zenon
  <2> QED
    BY <2>3, <2>5
<1> HIDE DEF T
<1>5. \A i \in 0 .. n : i \in T
  BY <1>3, <1>4, UpTo
<1> QED
  BY <1>1, <1>2, <1>5 DEF T

\* What n whole parts leave is less than n.
LEMMA LittleIsLeft ==
    ASSUME NEW n \in Nat \ {0}, NEW total \in Nat, NEW sum \in Nat \ {0}, NEW b \in Int,
           b * sum <= sum * total, sum * total <= b * sum + n * (sum - 1)
    PROVE  total - b \in 0 .. n - 1
<1> PICK left \in Int : left = total - b
  OBVIOUS
<1>1. left * sum = sum * total - b * sum
  <2>1. total = left + b
    OBVIOUS
  <2>2. total * sum = left * sum + b * sum /\ sum * total = total * sum
        /\ left * sum \in Int /\ b * sum \in Int
    BY <2>1, ProductOfSum
  <2> QED
    BY <2>2
<1>2. n * (sum - 1) = n * sum - n /\ n * sum \in Int /\ left * sum \in Int /\ b * sum \in Int
  OBVIOUS
<1>3. 0 <= left * sum /\ left * sum < n * sum
  BY <1>1, <1>2
<1>4. -1 < left
  <2>1. (-1) * sum < left * sum
    BY <1>2, <1>3
  <2> QED
    BY <2>1, ProductOrder
<1>5. left < n
  BY <1>3, ProductOrder
<1> QED
  BY <1>4, <1>5

\* One of the remainder goes to each of the first: i of it, or all, to the first i.
One(i, left)   == IF i <= left THEN 1 ELSE 0
First(i, left) == IF i <= left THEN i ELSE left

Rounded(r, h, left, n) == \A i \in 1 .. n : r[i] = h[i] + One(i, left)

\* The remainder that goes round: one to each of the first, none to the others.
LEMMA RoundIs ==
    ASSUME NEW n \in Nat \ {0}, NEW left \in 0 .. n - 1, NEW i \in 1 .. n
    PROVE  (left + n - i) \div n = One(i, left)
<1> PICK x \in Int : x = left + n - i
  OBVIOUS
<1> PICK q : q = x \div n
  OBVIOUS
<1>1. q \in Int /\ q * n <= x /\ x < q * n + n
  BY DivIs
<1>2. CASE i <= left
  <2>1. q * n < 2 * n /\ 0 * n < (q + 1) * n /\ n <= x /\ (q + 1) * n = q * n + n
    BY <1>1, <1>2
  <2>2. q < 2
    BY <1>1, <2>1, ProductOrder
  <2>3. 1 * n < (q + 1) * n
    BY <1>1, <2>1
  <2>4. 1 < q + 1
    BY <1>1, <2>3, ProductOrder
  <2> QED
    BY <1>1, <1>2, <2>2, <2>4 DEF One
<1>3. CASE ~ (i <= left)
  <2>1. q * n < 1 * n /\ 0 * n < (q + 1) * n
    BY <1>1, <1>3
  <2>2. q < 1 /\ 0 < q + 1
    BY <1>1, <2>1, ProductOrder
  <2> QED
    BY <1>1, <1>3, <2>2 DEF One
<1> QED
  BY <1>2, <1>3

\* A function on the first n numbers is a sequence of n.
LEMMA LenIs ==
    ASSUME NEW n \in Nat, NEW S, NEW s \in [1 .. n -> S]
    PROVE  Len(s) = n
<1>1. s \in Seq(S)
  OBVIOUS
<1> QED
  BY <1>1

\* The whole shares, as Split takes them.
LEMMA SharesAreWhole ==
    ASSUME NEW n \in Nat \ {0}, NEW total \in Nat, NEW w \in [1 .. n -> Nat \ {0}],
           NEW sum \in Nat \ {0}, SumSeq(w) = sum, NEW h, h = Shares(total, w)
    PROVE  h \in [1 .. n -> Int] /\ Wholes(h, total, w, sum, n)
<1>1. h = [i \in 1 .. n |-> (total * w[i]) \div sum]
  BY DEF Shares
<1>2. ASSUME NEW i \in 1 .. n
      PROVE  IsWhole(h[i], total * w[i], sum)
  <2> PICK a \in Int : a = total * w[i]
    OBVIOUS
  <2> PICK q : q = a \div sum
    OBVIOUS
  <2>2. q \in Int /\ q * sum <= a /\ a < q * sum + sum
    BY DivIs
  <2>3. h[i] = q
    BY <1>1
  <2>4. IsWhole(q, a, sum)
    BY <2>2 DEF IsWhole
  <2> QED
    BY <2>3, <2>4
<1>3. h = [i \in 1 .. n |-> h[i]]
  BY <1>1
<1>4. \A i \in 1 .. n : h[i] \in Int
  BY <1>2 DEF IsWhole
<1> QED
  BY <1>2, <1>3, <1>4 DEF Wholes

\* Who gets one of the remainder is one above the whole share, which is near the exact one.
IsNear(r, x, sum) == r >= 0 /\ x - sum < r * sum /\ r * sum <= x + sum

LEMMA NearExact ==
    ASSUME NEW x \in Nat, NEW sum \in Nat \ {0}, NEW h, IsWhole(h, x, sum), NEW r \in {h, h + 1}
    PROVE  IsNear(r, x, sum)
<1>0. h \in Int /\ h * sum <= x /\ x < h * sum + sum
  BY DEF IsWhole
<1>1. (h + 1) * sum = h * sum + sum /\ h * sum \in Int /\ 0 * sum = 0
  BY <1>0
<1>2. 0 * sum < (h + 1) * sum
  BY <1>0, <1>1
<1>3. 0 < h + 1
  BY <1>0, <1>2, ProductOrder
<1>4. r * sum = h * sum \/ r * sum = h * sum + sum
  BY <1>1
<1> QED
  BY <1>0, <1>1, <1>3, <1>4 DEF IsNear

\* One share more: the remainder goes to the first ones.
LEMMA RoundStep ==
    ASSUME NEW b \in Int, NEW h \in Int, NEW left \in Nat, NEW i \in Nat \ {0}
    PROVE  (b + First(i - 1, left)) + (h + One(i, left)) = (b + h) + First(i, left)
<1>1. CASE i <= left
  BY <1>1 DEF First, One
<1>2. CASE ~ (i <= left)
  <2>1. First(i - 1, left) = left
    BY <1>2 DEF First
  <2> QED
    BY <1>2, <2>1 DEF First, One
<1> QED
  BY <1>1, <1>2

\* With the remainder, everything is given out.
SumsTo(r, v) == SumSeq(r) = v

LEMMA RoundSpends ==
    ASSUME NEW n \in Nat \ {0}, NEW h \in [1 .. n -> Int], NEW b, Sums(b, h, n),
           NEW left \in 0 .. n - 1, NEW r \in [1 .. n -> Int],
           Rounded(r, h, left, n)
    PROVE  SumsTo(r, b[n] + left)
<1>s. Len(r) = n
  BY LenIs
<1> PICK c : Sums(c, r, n) /\ SumSeq(r) = c[n]
  BY <1>s, SumIsLast
<1>1. /\ b[0] = 0 /\ \A i \in 1 .. n : b[i] = b[i - 1] + h[i]
      /\ \A i \in 0 .. n : b[i] \in Int
  BY SumsAdd
<1>2. /\ c[0] = 0 /\ \A i \in 1 .. n : c[i] = c[i - 1] + r[i]
      /\ \A i \in 0 .. n : c[i] \in Int
  BY SumsAdd
<1> DEFINE T == {i \in 0 .. n : c[i] = b[i] + First(i, left)}
<1>3. 0 \in T
  BY <1>1, <1>2 DEF First
<1>4. ASSUME NEW i \in 0 .. n, i # 0, i - 1 \in T
      PROVE  i \in T
  <2>1. i \in 1 .. n /\ i - 1 \in 0 .. n
    BY <1>4
  <2>2. c[i - 1] = b[i - 1] + First(i - 1, left)
    BY <1>4
  <2>3. b[i] = b[i - 1] + h[i] /\ c[i] = c[i - 1] + (h[i] + One(i, left))
    BY <1>1, <1>2, <2>1 DEF Rounded
  <2>4. b[i - 1] \in Int /\ h[i] \in Int /\ left \in Nat /\ i \in Nat \ {0}
    BY <1>1, <2>1
  <2>5. (b[i - 1] + First(i - 1, left)) + (h[i] + One(i, left)) = (b[i - 1] + h[i]) + First(i, left)
    BY <2>4, RoundStep, Zenon
  <2>6. c[i] = b[i] + First(i, left)
    BY <2>2, <2>3, <2>5, Zenon
  <2> QED
    BY <2>6
<1> HIDE DEF T
<1>5. \A i \in 0 .. n : i \in T
  BY <1>3, <1>4, UpTo
<1>6. n \in T
  <2>1. n \in 0 .. n
    OBVIOUS
  <2> QED
    BY <1>5, <2>1
<1> QED
  BY <1>6 DEF T, First, SumsTo

\* And nobody is far from his share.
Near(r, total, w, sum, n) == \A i \in 1 .. n : IsNear(r[i], total * w[i], sum)

LEMMA RoundIsNear ==
    ASSUME NEW n \in Nat \ {0}, NEW total \in Nat, NEW w \in [1 .. n -> Nat \ {0}],
           NEW sum \in Nat \ {0}, NEW h \in [1 .. n -> Int], Wholes(h, total, w, sum, n),
           NEW left, NEW r, Rounded(r, h, left, n)
    PROVE  Near(r, total, w, sum, n)
<1> SUFFICES ASSUME NEW i \in 1 .. n PROVE IsNear(r[i], total * w[i], sum)
  BY DEF Near
<1> PICK x : x = total * w[i]
  OBVIOUS
<1>1. x \in Nat
  <2>1. w[i] \in Nat
    OBVIOUS
  <2> QED
    BY <2>1
<1>2. IsWhole(h[i], x, sum) /\ h[i] \in Int
  BY DEF Wholes
<1>3. r[i] \in {h[i], h[i] + 1}
  BY <1>2 DEF Rounded, One
<1> QED
  BY <1>1, <1>2, <1>3, NearExact

\* The budget is split up.
Spent(r, total, w, sum, n) ==
    DOMAIN r = 1 .. n /\ SumSeq(r) = total /\ Near(r, total, w, sum, n)

\* distribute splits it like this, whatever the weights.
LEMMA SplitSpends ==
    ASSUME NEW n \in Nat \ {0}, NEW total \in Nat, NEW w \in [1 .. n -> Nat \ {0}]
    PROVE  Spent(Split(total, w), total, w, SumSeq(w), n)
<1>1. Len(w) = n /\ DOMAIN w = 1 .. n
  BY LenIs
<1> PICK a : Sums(a, w, n) /\ SumSeq(w) = a[n]
  BY <1>1, SumIsLast
<1> PICK sum : sum = SumSeq(w)
  OBVIOUS
<1>2. sum \in Nat \ {0} /\ a[n] = sum
  <2>1. a[n] >= n
    BY SumIsMany
  <2>2. a[n] \in Int
    <3>1. w \in [1 .. n -> Int] /\ n \in 0 .. n
      OBVIOUS
    <3> QED
      BY <3>1, SumsAdd
  <2> QED
    BY <2>1, <2>2
<1> PICK h : h = Shares(total, w)
  OBVIOUS
<1>3. h \in [1 .. n -> Int] /\ Wholes(h, total, w, sum, n)
  BY <1>2, SharesAreWhole
<1>4. Len(h) = n
  BY <1>3, LenIs
<1> PICK b : Sums(b, h, n) /\ SumSeq(h) = b[n]
  BY <1>4, SumIsLast
<1> PICK left : left = total - SumSeq(h)
  OBVIOUS
<1>5. left \in 0 .. n - 1 /\ b[n] \in Int /\ left = total - b[n]
  <2>1. /\ b[n] \in Int /\ b[n] * sum <= sum * total
        /\ sum * total <= b[n] * sum + n * (sum - 1)
    <3>1. n \in 0 .. n
      OBVIOUS
    <3> QED
      BY <1>2, <1>3, <3>1, WholesFallShort
  <2> QED
    BY <1>2, <2>1, LittleIsLeft
<1> PICK r : r = Split(total, w)
  OBVIOUS
<1>6. r = [i \in 1 .. n |-> h[i] + (left + n - i) \div n]
  BY <1>1 DEF Split
<1>7. Rounded(r, h, left, n)
  BY <1>5, <1>6, RoundIs DEF Rounded, One
<1>8. r \in [1 .. n -> Int]
  <2>1. \A i \in 1 .. n : r[i] \in Int
    BY <1>3, <1>7 DEF Rounded, One
  <2>2. r = [i \in 1 .. n |-> r[i]]
    BY <1>6
  <2> QED
    BY <2>1, <2>2
<1>9. SumSeq(r) = total
  <2>1. SumsTo(r, b[n] + left)
    BY <1>3, <1>5, <1>7, <1>8, RoundSpends
  <2> QED
    BY <1>5, <2>1 DEF SumsTo
<1>10. Near(r, total, w, sum, n)
  BY <1>2, <1>3, <1>7, RoundIsNear
<1> QED
  BY <1>8, <1>9, <1>10 DEF Spent

-----------------------------------------------------------------------------
(* One Event is recorded.                                                  *)

Refs == {"d", "p"}
Events == Refs \X Nat
Notices == [type : {"ADDED", "DELETED"}, event : Events]

LogTypes(l) ==
    /\ l.seq \in Nat /\ l.stored \in SUBSET Events
    /\ l.queue \in Seq(Events) /\ l.notices \in Seq(Notices)

\* stored are the last k of the n Events made, but for those gone.
LastOf(stored, made, gone, n, k) ==
    \A e \in Events : e \in stored <=> /\ e \notin gone
                                       /\ n - k < e[2] /\ e[2] <= n
                                       /\ e = made[e[2]]

\* made are the Events recorded so far, each numbered by its place; the queue
\* holds the last of them, and the store those that no client deleted.
Retains(l, made, gone, max) ==
    /\ Len(made) = l.seq /\ \A i \in 1 .. l.seq : made[i][2] = i
    /\ \A e \in gone : e[2] <= l.seq
    /\ Len(l.queue) = AtMost(max, l.seq)
    /\ \A i \in 1 .. Len(l.queue) : l.queue[i] = made[l.seq - Len(l.queue) + i]
    /\ LastOf(l.stored, made, gone, l.seq, Len(l.queue))

\* made with one more Event, the next number.
Extends(p, made, n, e) == p[n + 1] = e /\ \A i \in 1 .. n : p[i] = made[i]

\* A queue that a first one has left.
Follows(t, s, n) == \A i \in 1 .. n - 1 : t[i] = s[i + 1]

\* A name is an Event, numbered as it says.
LEMMA NameIsEvent ==
    ASSUME NEW ref \in Refs, NEW n \in Nat
    PROVE  NameOf(ref, n) \in Events /\ NameOf(ref, n)[2] = n
  BY DEF NameOf, Events

\* The store after an Event of the next number: n of made before it, the last k of
\* them in the queue.
LEMMA StoredWithNew ==
    ASSUME NEW n \in Nat, NEW k \in Nat, k <= n, NEW stored, NEW made, NEW gone, NEW p,
           NEW e \in Events, e[2] = n + 1, \A g \in gone : g[2] <= n,
           LastOf(stored, made, gone, n, k), Extends(p, made, n, e)
    PROVE  LastOf(stored \cup {e}, p, gone, n + 1, k + 1)
<1> SUFFICES ASSUME NEW x \in Events
             PROVE  x \in stored \cup {e} <=> /\ x \notin gone
                                              /\ n + 1 - (k + 1) < x[2] /\ x[2] <= n + 1
                                              /\ x = p[x[2]]
  BY DEF LastOf
<1>1. x[2] \in Nat /\ n + 1 - (k + 1) = n - k
  BY DEF Events
<1>2. CASE x[2] = n + 1
  <2>1. x \notin stored
    BY <1>2 DEF LastOf
  <2>2. x = e <=> x = p[x[2]]
    BY <1>2 DEF Extends
  <2>3. x = e => x \notin gone
    BY <1>2
  <2>4. n - k < x[2] /\ x[2] <= n + 1
    BY <1>2
  <2> QED
    BY <1>1, <2>1, <2>2, <2>3, <2>4
<1>3. CASE x[2] # n + 1
  <2>1. x # e
    BY <1>3
  <2>2. CASE x[2] <= n /\ n - k < x[2]
    <3>1. p[x[2]] = made[x[2]]
      BY <2>2, <1>1 DEF Extends
    <3>2. x[2] <= n + 1
      BY <2>2, <1>1
    <3> QED
      BY <1>1, <2>1, <2>2, <3>1, <3>2 DEF LastOf
  <2>3. CASE ~ (x[2] <= n /\ n - k < x[2])
    <3>1. x \notin stored
      BY <2>3 DEF LastOf
    <3>2. ~ (n - k < x[2] /\ x[2] <= n + 1)
      BY <2>3, <1>1, <1>3
    <3> QED
      BY <1>1, <2>1, <3>1, <3>2
  <2> QED
    BY <2>2, <2>3
<1> QED
  BY <1>2, <1>3

\* The store when the oldest of the queue has left it.
LEMMA StoredWithoutOld ==
    ASSUME NEW n \in Nat, NEW k \in Nat \ {0}, k <= n, NEW stored, NEW made, NEW gone,
           NEW old, old = made[n - k + 1], old[2] = n - k + 1,
           LastOf(stored, made, gone, n, k)
    PROVE  LastOf(stored \ {old}, made, gone, n, k - 1)
<1> SUFFICES ASSUME NEW x \in Events
             PROVE  x \in stored \ {old} <=> /\ x \notin gone
                                             /\ n - (k - 1) < x[2] /\ x[2] <= n
                                             /\ x = made[x[2]]
  BY Zenon DEF LastOf
<1>1. x[2] \in Nat
  BY DEF Events
<1>2. CASE x = old
  <2>1. ~ (n - (k - 1) < x[2])
    BY <1>2
  <2> QED
    BY <1>2, <2>1
<1>3. CASE x # old
  <2>1. x = made[x[2]] => x[2] # n - k + 1
    BY <1>3
  <2>2. n - k < x[2] /\ x[2] # n - k + 1 <=> n - (k - 1) < x[2]
    BY <1>1
  <2> QED
    BY <1>3, <2>1, <2>2 DEF LastOf
<1> QED
  BY <1>2, <1>3

\* Nothing that is deleted has the next number.
LEMMA GoneIsOld ==
    ASSUME NEW n \in Nat, NEW gone \in SUBSET Events, \A g \in gone : g[2] <= n
    PROVE  \A g \in gone : g[2] <= n + 1
<1> SUFFICES ASSUME NEW g \in gone PROVE g[2] <= n + 1
  OBVIOUS
<1>1. g[2] \in Nat
  BY DEF Events
<1> QED
  BY <1>1

\* The places of made, with one more.
LEMMA NumbersExtend ==
    ASSUME NEW n \in Nat, NEW made, NEW p, NEW e, e[2] = n + 1, Extends(p, made, n, e),
           \A i \in 1 .. n : made[i][2] = i
    PROVE  \A i \in 1 .. n + 1 : p[i][2] = i
<1> SUFFICES ASSUME NEW i \in 1 .. n + 1 PROVE p[i][2] = i
  OBVIOUS
<1>1. CASE i = n + 1
  BY <1>1 DEF Extends
<1>2. CASE i # n + 1
  <2>1. i \in 1 .. n
    BY <1>2
  <2> QED
    BY <2>1 DEF Extends
<1> QED
  BY <1>1, <1>2

\* The queue of the last Events, when one more is appended and it still fits.
LEMMA RetainsMore ==
    ASSUME NEW n \in Nat, NEW max \in Nat \ {0}, n < max,
           NEW l, l.seq = n, NEW gone \in SUBSET Events, NEW made, Retains(l, made, gone, max),
           NEW e \in Events, e[2] = n + 1,
           NEW p, Len(p) = n + 1, Extends(p, made, n, e),
           NEW r, r.seq = n + 1, r.stored = l.stored \cup {e},
           Len(r.queue) = Len(l.queue) + 1, Extends(r.queue, l.queue, Len(l.queue), e)
    PROVE  Retains(r, p, gone, max)
<1>1. Len(l.queue) = n /\ Len(r.queue) = n + 1 /\ AtMost(max, n + 1) = n + 1
  BY DEF Retains, AtMost
<1>2. \A i \in 1 .. n + 1 : p[i][2] = i
  <2>1. \A i \in 1 .. n : made[i][2] = i
    BY DEF Retains
  <2> QED
    BY <2>1, NumbersExtend
<1>3. \A g \in gone : g[2] <= n
  BY DEF Retains
<1>4. \A g \in gone : g[2] <= n + 1
  BY <1>3, GoneIsOld
<1>5. \A i \in 1 .. n + 1 : r.queue[i] = p[n + 1 - (n + 1) + i]
  <2> SUFFICES ASSUME NEW i \in 1 .. n + 1 PROVE r.queue[i] = p[i]
    OBVIOUS
  <2>1. CASE i = n + 1
    BY <2>1, <1>1 DEF Extends
  <2>2. CASE i # n + 1
    <3>1. i \in 1 .. n
      BY <2>2
    <3>2. l.queue[i] = made[n - n + i]
      BY <3>1, <1>1 DEF Retains
    <3> QED
      BY <3>1, <3>2, <1>1 DEF Extends
  <2> QED
    BY <2>1, <2>2
<1>6. LastOf(r.stored, p, gone, n + 1, n + 1)
  <2>1. LastOf(l.stored, made, gone, n, n)
    BY <1>1 DEF Retains
  <2> QED
    BY <1>3, <2>1, StoredWithNew
<1> QED
  BY <1>1, <1>2, <1>4, <1>5, <1>6 DEF Retains

\* And when the oldest leaves.
LEMMA RetainsAsMany ==
    ASSUME NEW n \in Nat, NEW max \in Nat \ {0}, max <= n,
           NEW l, l.seq = n, NEW gone \in SUBSET Events, NEW made, Retains(l, made, gone, max),
           NEW e \in Events, e[2] = n + 1,
           NEW p, Len(p) = n + 1, Extends(p, made, n, e),
           NEW r, r.seq = n + 1, r.stored = (l.stored \cup {e}) \ {l.queue[1]},
           Len(r.queue) = max, r.queue[max] = e,
           Follows(r.queue, l.queue, max)
    PROVE  Retains(r, p, gone, max)
<1>1. Len(l.queue) = max /\ AtMost(max, n + 1) = max
  BY DEF Retains, AtMost
<1>2. \A i \in 1 .. n + 1 : p[i][2] = i
  <2>1. \A i \in 1 .. n : made[i][2] = i
    BY DEF Retains
  <2> QED
    BY <2>1, NumbersExtend
<1>3. \A g \in gone : g[2] <= n
  BY DEF Retains
<1>4. \A g \in gone : g[2] <= n + 1
  BY <1>3, GoneIsOld
<1>5. \A i \in 1 .. max : r.queue[i] = p[n + 1 - max + i]
  <2> SUFFICES ASSUME NEW i \in 1 .. max PROVE r.queue[i] = p[n + 1 - max + i]
    OBVIOUS
  <2>1. CASE i = max
    BY <2>1 DEF Extends
  <2>2. CASE i # max
    <3>1. i \in 1 .. max - 1 /\ i + 1 \in 1 .. max
      BY <2>2
    <3>2. l.queue[i + 1] = made[n - max + (i + 1)]
      BY <3>1, <1>1 DEF Retains
    <3>3. n - max + (i + 1) = n + 1 - max + i /\ n + 1 - max + i \in 1 .. n
      BY <3>1
    <3> QED
      BY <3>1, <3>2, <3>3 DEF Extends, Follows
  <2> QED
    BY <2>1, <2>2
<1>6. PICK old : old = l.queue[1]
  OBVIOUS
<1>7. old = p[n + 1 - (max + 1) + 1] /\ old[2] = n + 1 - (max + 1) + 1
  <2>1. old = made[n - max + 1]
    BY <1>1, <1>6 DEF Retains
  <2>2. n - max + 1 \in 1 .. n /\ n + 1 - (max + 1) + 1 = n - max + 1
    OBVIOUS
  <2>3. old = p[n - max + 1]
    BY <2>1, <2>2 DEF Extends
  <2> QED
    BY <2>2, <2>3, <1>2
<1>8. LastOf(r.stored, p, gone, n + 1, max)
  <2>1. LastOf(l.stored, made, gone, n, max)
    BY <1>1 DEF Retains
  <2>2. LastOf(l.stored \cup {e}, p, gone, n + 1, max + 1)
    BY <1>3, <2>1, StoredWithNew
  <2>3. LastOf((l.stored \cup {e}) \ {old}, p, gone, n + 1, (max + 1) - 1)
    BY <1>7, <2>2, StoredWithoutOld
  <2> QED
    BY <1>6, <2>3
<1> QED
  BY <1>1, <1>2, <1>4, <1>5, <1>8 DEF Retains

\* A sequence with one more.
LEMMA AppendExtends ==
    ASSUME NEW s \in Seq(Events), NEW e \in Events, NEW q, q = Append(s, e)
    PROVE  q \in Seq(Events) /\ Len(q) = Len(s) + 1 /\ Extends(q, s, Len(s), e)
  BY DEF Extends

\* r has one more.
Counts(r, l) == r.seq = l.seq + 1

\* One Event is recorded: the log and what was made before it and after it.
Recorded(l, made, r, p, max, ref, silent) ==
    r = Record(l, max, ref, silent) /\ p = Append(made, NameOf(ref, l.seq + 1))

\* Recording an Event keeps the store and the queue at the last Events recorded.
LEMMA RecordRetains ==
    ASSUME NEW l, LogTypes(l), NEW max \in Nat \ {0}, NEW ref \in Refs, NEW silent,
           NEW made \in Seq(Events), NEW gone \in SUBSET Events, Retains(l, made, gone, max),
           NEW r, NEW p, Recorded(l, made, r, p, max, ref, silent)
    PROVE  Retains(r, p, gone, max)
           /\ Counts(r, l) /\ r.stored \in SUBSET Events /\ r.queue \in Seq(Events)
<1> PICK e : e = NameOf(ref, l.seq + 1)
  OBVIOUS
<1>i. r = Record(l, max, ref, silent) /\ p = Append(made, e)
  BY DEF Recorded
<1> PICK q : q = Append(l.queue, e)
  OBVIOUS
<1>l. l.seq \in Nat /\ l.stored \in SUBSET Events /\ l.queue \in Seq(Events)
  BY DEF LogTypes
<1>e. e \in Events /\ e[2] = l.seq + 1
  <2>1. l.seq + 1 \in Nat
    BY <1>l
  <2> QED
    BY <2>1, NameIsEvent
<1>r. /\ r.seq = l.seq + 1
      /\ Len(q) > max => r.queue = Tail(q) /\ r.stored = (l.stored \cup {e}) \ {Head(q)}
      /\ ~ (Len(q) > max) => r.queue = q /\ r.stored = l.stored \cup {e}
  <2> DEFINE new == Put(l, e, silent)
  <2>1. /\ new.seq = l.seq + 1 /\ new.stored = l.stored \cup {e} /\ new.queue = q
        /\ new = [seq |-> new.seq, stored |-> new.stored, queue |-> new.queue,
                  notices |-> new.notices]
    BY DEF Put
  <2>2. r = IF Len(new.queue) > max THEN Evict(new, silent) ELSE new
    BY <1>i DEF Record
  <2> HIDE DEF new
  <2>3. /\ Evict(new, silent).seq = new.seq /\ Evict(new, silent).queue = Tail(new.queue)
        /\ Evict(new, silent).stored = new.stored \ {Head(new.queue)}
    BY <2>1 DEF Evict
  <2> QED
    BY <2>1, <2>2, <2>3
<1>q. q \in Seq(Events) /\ Len(q) = Len(l.queue) + 1 /\ Extends(q, l.queue, Len(l.queue), e)
  BY <1>e, <1>l, AppendExtends
<1>p. Len(p) = l.seq + 1 /\ Extends(p, made, l.seq, e)
  <2>1. Len(made) = l.seq
    BY DEF Retains
  <2> QED
    BY <2>1, <1>e, <1>i, AppendExtends
<1>k. Len(l.queue) = AtMost(max, l.seq)
  BY DEF Retains
<1> PICK n \in Nat : n = l.seq
  BY <1>l
<1>5. CASE l.seq < max
  <2>1. ~ (Len(q) > max)
    BY <1>5, <1>q, <1>k, <1>l DEF AtMost
  <2>2. Retains(r, p, gone, max)
    <3>1. Len(r.queue) = Len(l.queue) + 1 /\ Extends(r.queue, l.queue, Len(l.queue), e)
      BY <2>1, <1>r, <1>q
    <3>2. r.stored = l.stored \cup {e}
      BY <2>1, <1>r
    <3>3. /\ n < max /\ e \in Events /\ e[2] = n + 1 /\ r.seq = n + 1
          /\ Len(p) = n + 1 /\ Extends(p, made, n, e)
      BY <1>5, <1>e, <1>r, <1>p
    <3> QED
      BY <3>1, <3>2, <3>3, RetainsMore, Zenon
  <2> QED
    BY <2>1, <2>2, <1>r, <1>q, <1>e, <1>l DEF Counts
<1>6. CASE ~ (l.seq < max)
  <2>1. max <= l.seq /\ Len(l.queue) = max /\ Len(q) > max
    BY <1>6, <1>q, <1>k, <1>l DEF AtMost
  <2>2. /\ Tail(q) \in Seq(Events) /\ Len(Tail(q)) = max
        /\ \A i \in 1 .. max : Tail(q)[i] = q[i + 1]
    BY <1>q, <2>1
  <2>3. Head(q) = l.queue[1] /\ Tail(q)[max] = e
    BY <1>q, <2>1, <2>2 DEF Extends
  <2>4. \A i \in 1 .. max - 1 : Tail(q)[i] = l.queue[i + 1]
    BY <1>q, <2>1, <2>2 DEF Extends
  <2>5. Retains(r, p, gone, max)
    <3>1. /\ Len(r.queue) = max /\ r.queue[max] = e
          /\ Follows(r.queue, l.queue, max)
      BY <2>1, <2>2, <2>3, <2>4, <1>r DEF Follows
    <3>2. r.stored = (l.stored \cup {e}) \ {l.queue[1]}
      BY <2>1, <2>3, <1>r
    <3>3. /\ max <= n /\ e \in Events /\ e[2] = n + 1 /\ r.seq = n + 1
          /\ Len(p) = n + 1 /\ Extends(p, made, n, e)
      BY <2>1, <1>e, <1>r, <1>p
    <3> QED
      BY <3>1, <3>2, <3>3, RetainsAsMany, Zenon
  <2> QED
    BY <2>1, <2>2, <2>5, <1>r, <1>e, <1>l DEF Counts
<1> QED
  BY <1>5, <1>6

-----------------------------------------------------------------------------
(* What a watcher is told.                                                 *)

IsTold(ns, type, e) == \E i \in 1 .. Len(ns) : ns[i] = Notice(type, e)

\* ns, and m behind it.
Followed(p, ns, m) ==
    /\ Len(p) = Len(ns) + 1 /\ p[Len(ns) + 1] = m
    /\ \A i \in 1 .. Len(ns) : p[i] = ns[i]

\* Each notice is the first of its kind about its Event, which began before it ends.
Once(ns, before) ==
    \A i \in 1 .. Len(ns) :
        IF ns[i].type = "ADDED"
        THEN ns[i].event \notin before /\ \A j \in 1 .. i - 1 : ns[j].event # ns[i].event
        ELSE /\ \A j \in 1 .. i - 1 : ns[j] # ns[i]
             /\ \/ ns[i].event \in before
                \/ \E j \in 1 .. i - 1 : ns[j] = Notice("ADDED", ns[i].event)

\* The store is what the notices make of what there was before them.
Announced(l, before) ==
    /\ \A e \in before : e[2] <= l.seq
    /\ \A i \in 1 .. Len(l.notices) : l.notices[i].event[2] <= l.seq
    /\ \A e \in Events : e \in l.stored <=> /\ e \in before \/ IsTold(l.notices, "ADDED", e)
                                            /\ ~ IsTold(l.notices, "DELETED", e)
    /\ Once(l.notices, before)

\* The places of a sequence with one more.
LEMMA AppendNotice ==
    ASSUME NEW ns \in Seq(Notices), NEW m \in Notices, NEW p, p = Append(ns, m)
    PROVE  p \in Seq(Notices) /\ Followed(p, ns, m)
  BY DEF Followed

\* A notice has a type and an Event.
LEMMA NoticeIsNotice ==
    ASSUME NEW type \in {"ADDED", "DELETED"}, NEW e \in Events
    PROVE  /\ Notice(type, e) \in Notices
           /\ Notice(type, e).type = type /\ Notice(type, e).event = e
  BY DEF Notice, Notices

\* What is told is told still, and what the new notice tells.
LEMMA ToldMore ==
    ASSUME NEW ns \in Seq(Notices), NEW type \in {"ADDED", "DELETED"}, NEW e \in Events,
           NEW m, m = Notice(type, e), NEW p, Followed(p, ns, m),
           NEW u \in {"ADDED", "DELETED"}, NEW x \in Events
    PROVE  IsTold(p, u, x) <=> IsTold(ns, u, x) \/ (u = type /\ x = e)
<1>1. /\ Len(p) = Len(ns) + 1 /\ p[Len(ns) + 1] = m
      /\ \A i \in 1 .. Len(ns) : p[i] = ns[i]
  BY DEF Followed
<1>2. Len(ns) \in Nat
  OBVIOUS
<1>3. Notice(u, x) = Notice(type, e) <=> u = type /\ x = e
  BY NoticeIsNotice
<1>4. ASSUME IsTold(p, u, x)
      PROVE  IsTold(ns, u, x) \/ (u = type /\ x = e)
  <2>1. PICK i \in 1 .. Len(ns) + 1 : p[i] = Notice(u, x)
    BY <1>1, <1>4 DEF IsTold
  <2>2. CASE i = Len(ns) + 1
    BY <1>1, <1>3, <2>1, <2>2
  <2>3. CASE i # Len(ns) + 1
    <3>1. i \in 1 .. Len(ns)
      BY <1>2, <2>3
    <3> QED
      BY <1>1, <2>1, <3>1 DEF IsTold
  <2> QED
    BY <2>2, <2>3
<1>5. ASSUME IsTold(ns, u, x)
      PROVE  IsTold(p, u, x)
  <2>1. PICK i \in 1 .. Len(ns) : ns[i] = Notice(u, x)
    BY <1>5 DEF IsTold
  <2>2. i \in 1 .. Len(p) /\ p[i] = ns[i]
    BY <1>1, <1>2
  <2> QED
    BY <2>1, <2>2 DEF IsTold
<1>6. ASSUME u = type, x = e
      PROVE  IsTold(p, u, x)
  <2>1. Len(p) \in 1 .. Len(p) /\ p[Len(p)] = m
    BY <1>1, <1>2
  <2> QED
    BY <1>6, <2>1 DEF IsTold
<1> QED
  BY <1>4, <1>5, <1>6

\* A notice that is the first of its kind may follow.
LEMMA OnceMore ==
    ASSUME NEW ns \in Seq(Notices), NEW m, NEW p, Followed(p, ns, m),
           NEW before, Once(ns, before),
           m.type = "ADDED" => /\ m.event \notin before
                               /\ \A j \in 1 .. Len(ns) : ns[j].event # m.event,
           m.type # "ADDED" => /\ \A j \in 1 .. Len(ns) : ns[j] # m
                               /\ \/ m.event \in before
                                  \/ \E j \in 1 .. Len(ns) : ns[j] = Notice("ADDED", m.event)
    PROVE  Once(p, before)
<1>1. /\ Len(p) = Len(ns) + 1 /\ p[Len(ns) + 1] = m
      /\ \A i \in 1 .. Len(ns) : p[i] = ns[i]
  BY DEF Followed
<1> PICK n \in Nat : n = Len(ns)
  OBVIOUS
<1> SUFFICES ASSUME NEW i \in 1 .. n + 1
             PROVE  IF p[i].type = "ADDED"
                    THEN /\ p[i].event \notin before
                         /\ \A j \in 1 .. i - 1 : p[j].event # p[i].event
                    ELSE /\ \A j \in 1 .. i - 1 : p[j] # p[i]
                         /\ \/ p[i].event \in before
                            \/ \E j \in 1 .. i - 1 : p[j] = Notice("ADDED", p[i].event)
  BY <1>1 DEF Once
<1>2. \A j \in 1 .. i - 1 : p[j] = ns[j]
  BY <1>1
<1>3. CASE i = n + 1
  <2>1. p[i] = m /\ i - 1 = n
    BY <1>1, <1>3
  <2> QED
    BY <1>2, <2>1
<1>4. CASE i # n + 1
  <2>1. i \in 1 .. n /\ p[i] = ns[i]
    BY <1>1, <1>4
  <2> QED
    BY <1>2, <2>1 DEF Once
<1> QED
  BY <1>3, <1>4

\* A new Event is announced.
LEMMA PutAnnounced ==
    ASSUME NEW l, LogTypes(l), NEW before \in SUBSET Events, Announced(l, before),
           NEW e \in Events, e[2] = l.seq + 1,
           NEW r, r.seq = l.seq + 1, r.stored = l.stored \cup {e},
           r.notices = Append(l.notices, Notice("ADDED", e))
    PROVE  r.notices \in Seq(Notices) /\ Announced(r, before)
<1> PICK ns : ns = l.notices
  OBVIOUS
<1> PICK n : n = l.seq
  OBVIOUS
<1>t. ns \in Seq(Notices) /\ n \in Nat /\ l.stored \in SUBSET Events
  BY DEF LogTypes
<1> PICK m \in Notices : m = Notice("ADDED", e)
  BY NoticeIsNotice
<1>m. m.type = "ADDED" /\ m.event = e
  BY NoticeIsNotice
<1> PICK p : p = r.notices
  OBVIOUS
<1>p. p = Append(ns, m)
  OBVIOUS
<1>f. p \in Seq(Notices) /\ Followed(p, ns, m)
  BY <1>t, <1>p, AppendNotice
<1>1. /\ p \in Seq(Notices) /\ Len(p) = Len(ns) + 1 /\ p[Len(ns) + 1] = m
      /\ \A i \in 1 .. Len(ns) : p[i] = ns[i]
  BY <1>f DEF Followed
<1>2. e \notin before /\ \A j \in 1 .. Len(ns) : ns[j].event # e
  BY <1>t DEF Announced
<1>3. \A x \in before : x[2] <= n + 1
  <2> SUFFICES ASSUME NEW x \in before PROVE x[2] <= n + 1
    OBVIOUS
  <2>1. x[2] \in Nat /\ x[2] <= n
    BY DEF Announced, Events
  <2> QED
    BY <2>1, <1>t
<1>4. \A i \in 1 .. Len(p) : p[i].event[2] <= n + 1
  <2> SUFFICES ASSUME NEW i \in 1 .. Len(ns) + 1 PROVE p[i].event[2] <= n + 1
    BY <1>1
  <2>1. Len(ns) \in Nat
    BY <1>t
  <2>2. CASE i = Len(ns) + 1
    BY <1>1, <1>m, <2>2, <1>t
  <2>3. CASE i # Len(ns) + 1
    <3>1. i \in 1 .. Len(ns) /\ p[i] = ns[i]
      BY <2>1, <2>3, <1>1
    <3>2. ns[i] \in Notices
      BY <3>1, <1>t
    <3>3. ns[i].event[2] \in Nat
      BY <3>2 DEF Notices, Events
    <3>4. ns[i].event[2] <= n
      BY <3>1 DEF Announced
    <3> QED
      BY <3>1, <3>3, <3>4, <1>t
  <2> QED
    BY <2>2, <2>3
<1>5. \A x \in Events : x \in r.stored <=> /\ x \in before \/ IsTold(p, "ADDED", x)
                                           /\ ~ IsTold(p, "DELETED", x)
  <2> SUFFICES ASSUME NEW x \in Events
               PROVE  x \in r.stored <=> /\ x \in before \/ IsTold(p, "ADDED", x)
                                         /\ ~ IsTold(p, "DELETED", x)
    OBVIOUS
  <2>1. IsTold(p, "ADDED", x) <=> IsTold(ns, "ADDED", x) \/ x = e
    BY <1>t, <1>f, ToldMore
  <2>2. IsTold(p, "DELETED", x) <=> IsTold(ns, "DELETED", x)
    BY <1>t, <1>f, ToldMore
  <2>3. x = e => ~ IsTold(ns, "DELETED", x)
    BY <1>2, NoticeIsNotice DEF IsTold
  <2>4. x \in l.stored <=> /\ x \in before \/ IsTold(ns, "ADDED", x)
                           /\ ~ IsTold(ns, "DELETED", x)
    BY DEF Announced
  <2> QED
    BY <2>1, <2>2, <2>3, <2>4
<1>6. Once(p, before)
  <2>1. Once(ns, before)
    BY DEF Announced
  <2> QED
    BY <2>1, <1>t, <1>f, <1>m, <1>2, OnceMore
<1> QED
  BY <1>1, <1>3, <1>4, <1>5, <1>6 DEF Announced

\* e leaves the store, and that is announced.
Ends(r, l, e) ==
    /\ r.seq = l.seq /\ r.stored = l.stored \ {e}
    /\ r.notices = Append(l.notices, Notice("DELETED", e))

\* The end of an Event is announced, evicted or deleted.
LEMMA EndAnnounced ==
    ASSUME NEW l, LogTypes(l), NEW before \in SUBSET Events, Announced(l, before),
           NEW e \in l.stored,
           NEW r, Ends(r, l, e)
    PROVE  r.notices \in Seq(Notices) /\ Announced(r, before)
<1>r. /\ r.seq = l.seq /\ r.stored = l.stored \ {e}
      /\ r.notices = Append(l.notices, Notice("DELETED", e))
  BY DEF Ends
<1> PICK ns : ns = l.notices
  OBVIOUS
<1> PICK n : n = l.seq
  OBVIOUS
<1>t. ns \in Seq(Notices) /\ n \in Nat /\ l.stored \in SUBSET Events /\ e \in Events
  BY DEF LogTypes
<1>e. /\ e \in before \/ IsTold(ns, "ADDED", e)
      /\ ~ IsTold(ns, "DELETED", e)
  BY <1>t DEF Announced
<1> PICK m \in Notices : m = Notice("DELETED", e)
  BY <1>t, NoticeIsNotice
<1>m. m.type = "DELETED" /\ m.event = e
  BY <1>t, NoticeIsNotice
<1> PICK p : p = r.notices
  OBVIOUS
<1>p. p = Append(ns, m)
  BY <1>r
<1>f. p \in Seq(Notices) /\ Followed(p, ns, m)
  BY <1>t, <1>p, AppendNotice
<1>1. /\ p \in Seq(Notices) /\ Len(p) = Len(ns) + 1 /\ p[Len(ns) + 1] = m
      /\ \A i \in 1 .. Len(ns) : p[i] = ns[i]
  BY <1>f DEF Followed
<1>2. e[2] <= n
  <2>1. CASE e \in before
    BY <2>1 DEF Announced
  <2>2. CASE IsTold(ns, "ADDED", e)
    <3>1. PICK i \in 1 .. Len(ns) : ns[i] = Notice("ADDED", e)
      BY <2>2 DEF IsTold
    <3>2. ns[i].event = e
      BY <3>1, <1>t, NoticeIsNotice
    <3> QED
      BY <3>1, <3>2 DEF Announced
  <2> QED
    BY <2>1, <2>2, <1>e
<1>3. \A x \in before : x[2] <= n
  BY DEF Announced
<1>4. \A i \in 1 .. Len(p) : p[i].event[2] <= n
  <2> SUFFICES ASSUME NEW i \in 1 .. Len(ns) + 1 PROVE p[i].event[2] <= n
    BY <1>1
  <2>1. Len(ns) \in Nat
    BY <1>t
  <2>2. CASE i = Len(ns) + 1
    BY <1>1, <1>m, <1>2, <2>2
  <2>3. CASE i # Len(ns) + 1
    <3>1. i \in 1 .. Len(ns) /\ p[i] = ns[i]
      BY <2>1, <2>3, <1>1
    <3> QED
      BY <3>1 DEF Announced
  <2> QED
    BY <2>2, <2>3
<1>5. \A x \in Events : x \in r.stored <=> /\ x \in before \/ IsTold(p, "ADDED", x)
                                           /\ ~ IsTold(p, "DELETED", x)
  <2> SUFFICES ASSUME NEW x \in Events
               PROVE  x \in r.stored <=> /\ x \in before \/ IsTold(p, "ADDED", x)
                                         /\ ~ IsTold(p, "DELETED", x)
    OBVIOUS
  <2>1. IsTold(p, "ADDED", x) <=> IsTold(ns, "ADDED", x)
    BY <1>t, <1>f, ToldMore
  <2>2. IsTold(p, "DELETED", x) <=> IsTold(ns, "DELETED", x) \/ x = e
    BY <1>t, <1>f, ToldMore
  <2>3. x \in l.stored <=> /\ x \in before \/ IsTold(ns, "ADDED", x)
                           /\ ~ IsTold(ns, "DELETED", x)
    BY DEF Announced
  <2> QED
    BY <2>1, <2>2, <2>3, <1>r
<1>6. Once(p, before)
  <2>1. Once(ns, before)
    BY DEF Announced
  <2>2. \A j \in 1 .. Len(ns) : ns[j] # m
    BY <1>e DEF IsTold
  <2>3. e \in before \/ \E j \in 1 .. Len(ns) : ns[j] = Notice("ADDED", e)
    BY <1>e DEF IsTold
  <2> QED
    BY <2>1, <2>2, <2>3, <1>t, <1>f, <1>m, OnceMore
<1> QED
  BY <1>r, <1>1, <1>3, <1>4, <1>5, <1>6 DEF Announced

-----------------------------------------------------------------------------
(* Several Events are recorded.                                            *)

\* All that holds of a log that is served: before is what was listed.
Kept(l, made, gone, max, before) ==
    /\ LogTypes(l) /\ made \in Seq(Events) /\ gone \in SUBSET Events
    /\ Retains(l, made, gone, max) /\ Announced(l, before)

\* Record, with the notice.
Aloud(l, max, ref) == Record(l, max, ref, FALSE)

\* Of an Event that is recorded aloud, and of the one it evicts, a watcher is told.
LEMMA RecordAnnounces ==
    ASSUME NEW l, LogTypes(l), NEW before \in SUBSET Events, Announced(l, before),
           NEW max \in Nat \ {0}, NEW ref \in Refs,
           NEW r, r = Aloud(l, max, ref)
    PROVE  r.notices \in Seq(Notices) /\ Announced(r, before)
<1> PICK e : e = NameOf(ref, l.seq + 1)
  OBVIOUS
<1> PICK silent : silent = FALSE
  OBVIOUS
<1> PICK new : new = Put(l, e, silent)
  OBVIOUS
<1> PICK end : end = Evict(new, silent)
  OBVIOUS
<1>l. /\ l.seq \in Nat /\ l.stored \in SUBSET Events /\ l.queue \in Seq(Events)
      /\ l.notices \in Seq(Notices)
  BY DEF LogTypes
<1>e. e \in Events /\ e[2] = l.seq + 1
  <2>1. l.seq + 1 \in Nat
    BY <1>l
  <2> QED
    BY <2>1, NameIsEvent
<1>1. /\ new.seq = l.seq + 1 /\ new.stored = l.stored \cup {e}
      /\ new.queue = Append(l.queue, e)
      /\ new.notices = Append(l.notices, Notice("ADDED", e))
      /\ new = [seq |-> new.seq, stored |-> new.stored, queue |-> new.queue,
                notices |-> new.notices]
  BY DEF Put, Emitted
<1>2. r = new \/ r = end
  <2>1. r = Record(l, max, ref, silent)
    BY DEF Aloud
  <2>2. ~ (max <= 0)
    OBVIOUS
  <2> QED
    BY <2>1, <2>2, Zenon DEF Record
<1>3. new.notices \in Seq(Notices) /\ Announced(new, before)
  BY <1>1, <1>e, PutAnnounced, Zenon
<1>4. end.notices \in Seq(Notices) /\ Announced(end, before)
  <2> PICK old : old = Head(new.queue)
    OBVIOUS
  <2>1. LogTypes(new)
    <3>1. new.seq \in Nat /\ new.queue \in Seq(Events) /\ new.stored \in SUBSET Events
      <4>1. l.seq + 1 \in Nat /\ l.stored \cup {e} \in SUBSET Events
        BY <1>l, <1>e
      <4>2. Append(l.queue, e) \in Seq(Events)
        BY <1>l, <1>e
      <4> QED
        BY <1>1, <4>1, <4>2, Zenon
    <3> QED
      BY <3>1, <1>3, Zenon DEF LogTypes
  <2>2. /\ end.seq = new.seq /\ end.stored = new.stored \ {old}
        /\ end.notices = IF old \in new.stored
                         THEN Append(new.notices, Notice("DELETED", old)) ELSE new.notices
    BY <1>1 DEF Evict, Emitted
  <2>3. CASE old \in new.stored
    <3>1. Ends(end, new, old)
      BY <2>2, <2>3 DEF Ends
    <3> QED
      BY <2>1, <2>3, <3>1, <1>3, EndAnnounced
  <2>4. CASE old \notin new.stored
    <3>1. end.seq = new.seq /\ end.stored = new.stored /\ end.notices = new.notices
      BY <2>2, <2>4
    <3> QED
      BY <3>1, <1>3 DEF Announced
  <2> QED
    BY <2>3, <2>4
<1> QED
  BY <1>2, <1>3, <1>4

RecordedAloud(l, made, r, p, max, ref) ==
    r = Aloud(l, max, ref) /\ p = Append(made, NameOf(ref, l.seq + 1))

\* Recording an Event aloud keeps the log.
LEMMA RecordKeeps ==
    ASSUME NEW l, NEW made, NEW gone, NEW max \in Nat \ {0}, NEW before \in SUBSET Events,
           Kept(l, made, gone, max, before), NEW ref \in Refs,
           NEW r, NEW p, RecordedAloud(l, made, r, p, max, ref)
    PROVE  Kept(r, p, gone, max, before) /\ r.seq = l.seq + 1
<1>1. LogTypes(l) /\ made \in Seq(Events) /\ gone \in SUBSET Events /\ Retains(l, made, gone, max)
      /\ Announced(l, before)
  BY DEF Kept
<1>2. l.seq + 1 \in Nat
  BY <1>1 DEF LogTypes
<1>3. NameOf(ref, l.seq + 1) \in Events
  BY <1>2, NameIsEvent
<1>4. p \in Seq(Events)
  BY <1>1, <1>3 DEF RecordedAloud
<1>5. /\ Retains(r, p, gone, max)
      /\ r.seq = l.seq + 1 /\ r.stored \in SUBSET Events /\ r.queue \in Seq(Events)
  <2>1. \E silent : Recorded(l, made, r, p, max, ref, silent)
    BY Zenon DEF RecordedAloud, Recorded, Aloud
  <2>2. PICK silent : Recorded(l, made, r, p, max, ref, silent)
    BY <2>1
  <2>3. /\ Retains(r, p, gone, max)
        /\ Counts(r, l) /\ r.stored \in SUBSET Events /\ r.queue \in Seq(Events)
    BY <1>1, <2>2, RecordRetains
  <2> QED
    BY <2>3 DEF Counts
<1>6. r.notices \in Seq(Notices) /\ Announced(r, before)
  <2>1. r = Aloud(l, max, ref)
    BY DEF RecordedAloud
  <2> QED
    BY <1>1, <2>1, RecordAnnounces
<1> QED
  BY <1>1, <1>2, <1>4, <1>5, <1>6 DEF Kept, LogTypes

\* The logs that RecordMany goes through.
Logs(f, l, max, ref, n) ==
    f = [i \in 0 .. n |-> IF i = 0 THEN l ELSE Aloud(f[i - 1], max, ref)]

\* There are such logs.
LEMMA LogsExist ==
    ASSUME NEW l, NEW max, NEW ref, NEW n \in Nat
    PROVE  \E f : Logs(f, l, max, ref, n)
<1> DEFINE T == {m \in Nat : ~ \E f : Logs(f, l, max, ref, m)}
<1>1. SUFFICES ASSUME T # {} PROVE FALSE
  BY DEF T
<1>2. PICK m \in T : \A k \in T : m <= k
  <2> T \in SUBSET Nat
    OBVIOUS
  <2> HIDE DEF T
  <2> QED
    BY <1>1, LeastElement
<1>3. m \in Nat /\ ~ \E f : Logs(f, l, max, ref, m)
  OBVIOUS
<1>4. CASE m = 0
  <2>1. Logs([i \in 0 .. 0 |-> l], l, max, ref, 0)
    BY DEF Logs
  <2> QED
    BY <1>3, <1>4, <2>1
<1>5. CASE m # 0
  <2>1. m - 1 \in Nat /\ m - 1 \notin T
    BY <1>2, <1>3, <1>5
  <2>2. PICK f : Logs(f, l, max, ref, m - 1)
    BY <2>1
  <2> DEFINE g == [i \in 0 .. m |-> IF i = 0 THEN l ELSE Aloud(f[i - 1], max, ref)]
  <2>3. \A i \in 0 .. m - 1 : g[i] = f[i]
    BY <1>3, <2>2 DEF Logs
  <2>4. Logs(g, l, max, ref, m)
    <3>1. \A i \in 0 .. m : g[i] = IF i = 0 THEN l ELSE Aloud(g[i - 1], max, ref)
      <4> SUFFICES ASSUME NEW i \in 0 .. m, i # 0
                   PROVE  g[i] = Aloud(g[i - 1], max, ref)
        BY <1>3
      <4>1. g[i] = Aloud(f[i - 1], max, ref)
        OBVIOUS
      <4>2. i - 1 \in 0 .. m - 1
        BY <1>3
      <4>3. g[i - 1] = f[i - 1]
        BY <2>3, <4>2
      <4> HIDE DEF g
      <4> QED
        BY <4>1, <4>3, Zenon
    <3>2. g = [i \in 0 .. m |-> g[i]]
      BY Zenon
    <3> HIDE DEF g
    <3> QED
      BY <3>1, <3>2, Zenon DEF Logs
  <2> QED
    BY <1>3, <2>4
<1> QED
  BY <1>4, <1>5

\* RecordMany ends with the last of them.
LEMMA RecordManyIsLast ==
    ASSUME NEW l, NEW max, NEW ref, NEW n \in Nat
    PROVE  \E f : Logs(f, l, max, ref, n) /\ RecordMany(l, max, ref, n) = f[n]
<1> DEFINE F == CHOOSE f : Logs(f, l, max, ref, n)
<1>1. RecordMany(l, max, ref, n) = F[n]
  BY DEF RecordMany, Logs, Aloud
<1>2. Logs(F, l, max, ref, n)
  BY LogsExist, Zenon
<1> QED
  BY <1>1, <1>2, Zenon

\* made, and i more Events about ref.
MadeUpTo(made, ref, seq, i) == made \o [j \in 1 .. i |-> NameOf(ref, seq + j)]

IsAppend(p, s, e) == p = Append(s, e)

\* One more than i is the next number.
LEMMA MadeOneMore ==
    ASSUME NEW made \in Seq(Events), NEW ref \in Refs, NEW seq \in Nat, NEW i \in Nat,
           NEW k, k = i + 1, NEW e, e = NameOf(ref, seq + k)
    PROVE  /\ MadeUpTo(made, ref, seq, 0) = made
           /\ IsAppend(MadeUpTo(made, ref, seq, k), MadeUpTo(made, ref, seq, i), e)
<1> DEFINE s(n) == [j \in 1 .. n |-> NameOf(ref, seq + j)]
<1>1. \A n \in Nat : s(n) \in Seq(Events) /\ Len(s(n)) = n
  <2> SUFFICES ASSUME NEW n \in Nat PROVE s(n) \in Seq(Events) /\ Len(s(n)) = n
    OBVIOUS
  <2>1. \A j \in 1 .. n : NameOf(ref, seq + j) \in Events
    <3> SUFFICES ASSUME NEW j \in 1 .. n PROVE NameOf(ref, seq + j) \in Events
      OBVIOUS
    <3>1. seq + j \in Nat
      OBVIOUS
    <3> QED
      BY <3>1, NameIsEvent
  <2> QED
    BY <2>1
<1>2. s(0) = <<>>
  BY <1>1
<1>3. s(i + 1) = Append(s(i), NameOf(ref, seq + (i + 1)))
  BY <1>1
<1> HIDE DEF s
<1>4. made \o s(0) = made
  BY <1>2
<1>5. NameOf(ref, seq + (i + 1)) \in Events
  <2>1. seq + (i + 1) \in Nat
    OBVIOUS
  <2> QED
    BY <2>1, NameIsEvent
<1>6. made \o s(i + 1) = Append(made \o s(i), NameOf(ref, seq + (i + 1)))
  <2> PICK a \in Events : a = NameOf(ref, seq + (i + 1))
    BY <1>5
  <2> PICK t \in Seq(Events) : t = s(i)
    BY <1>1
  <2>1. s(i + 1) = t \o <<a>>
    BY <1>3, AppendIsConcat
  <2>2. <<a>> \in Seq(Events) /\ made \o t \in Seq(Events)
    OBVIOUS
  <2>3. made \o (t \o <<a>>) = (made \o t) \o <<a>>
    BY <2>2, ConcatAssociative
  <2>4. (made \o t) \o <<a>> = Append(made \o t, a)
    BY <2>2, AppendIsConcat
  <2> QED
    BY <2>1, <2>3, <2>4, Zenon
<1> QED
  BY <1>4, <1>6 DEF MadeUpTo, IsAppend, s

\* Recording any number of Events aloud keeps the log.
LEMMA ManyKeep ==
    ASSUME NEW l, NEW made, NEW gone, NEW max \in Nat \ {0}, NEW before \in SUBSET Events,
           Kept(l, made, gone, max, before), NEW ref \in Refs, NEW n \in Nat
    PROVE  Kept(RecordMany(l, max, ref, n), MadeUpTo(made, ref, l.seq, n), gone, max, before)
<1>t. l.seq \in Nat /\ made \in Seq(Events)
  BY DEF Kept, LogTypes
<1>1. PICK f : Logs(f, l, max, ref, n) /\ RecordMany(l, max, ref, n) = f[n]
  BY RecordManyIsLast
<1> DEFINE P(i) == /\ Kept(f[i], MadeUpTo(made, ref, l.seq, i), gone, max, before)
                   /\ f[i].seq = l.seq + i
           T == {i \in 0 .. n : ~ P(i)}
<1>2. P(0)
  <2>1. f[0] = l
    BY <1>1 DEF Logs
  <2>2. MadeUpTo(made, ref, l.seq, 0) = made
    BY <1>t, MadeOneMore
  <2> QED
    BY <1>t, <2>1, <2>2
<1>3. ASSUME NEW i \in 0 .. n, i + 1 \in 0 .. n, P(i)
      PROVE  P(i + 1)
  <2>1. f[i + 1] = Aloud(f[i], max, ref)
    <3>1. i + 1 # 0 /\ (i + 1) - 1 = i
      OBVIOUS
    <3> QED
      BY <1>1, <1>3, <3>1 DEF Logs
  <2>2. MadeUpTo(made, ref, l.seq, i + 1)
            = Append(MadeUpTo(made, ref, l.seq, i), NameOf(ref, f[i].seq + 1))
    <3>1. i \in Nat /\ f[i].seq + 1 = l.seq + (i + 1)
      BY <1>3, <1>t
    <3> PICK k : k = i + 1
      OBVIOUS
    <3> PICK e : e = NameOf(ref, l.seq + k)
      OBVIOUS
    <3>2. IsAppend(MadeUpTo(made, ref, l.seq, k), MadeUpTo(made, ref, l.seq, i), e)
      BY <1>t, <3>1, MadeOneMore
    <3>3. e = NameOf(ref, f[i].seq + 1)
      BY <3>1
    <3> QED
      BY <3>2, <3>3 DEF IsAppend
  <2>3. RecordedAloud(f[i], MadeUpTo(made, ref, l.seq, i), f[i + 1],
                      MadeUpTo(made, ref, l.seq, i + 1), max, ref)
    BY <2>1, <2>2, Zenon DEF RecordedAloud
  <2>4. /\ Kept(f[i + 1], MadeUpTo(made, ref, l.seq, i + 1), gone, max, before)
        /\ f[i + 1].seq = f[i].seq + 1
    BY <1>3, <2>3, RecordKeeps
  <2> QED
    BY <2>4, <1>3, <1>t
<1>4. ASSUME T # {} PROVE FALSE
  <2>1. T \in SUBSET Nat
    OBVIOUS
  <2>2. PICK m \in T : \A k \in T : m <= k
    <3> HIDE DEF T
    <3> QED
      BY <1>4, <2>1, LeastElement
  <2>3. m \in 0 .. n /\ ~ P(m)
    OBVIOUS
  <2>4. m # 0
    BY <1>2, <2>3
  <2>5. m - 1 \in 0 .. n /\ (m - 1) + 1 = m /\ ~ (m <= m - 1)
    BY <2>3, <2>4
  <2>6. P(m - 1)
    <3> HIDE DEF P
    <3> QED
      BY <2>2, <2>5
  <2> HIDE DEF P, T
  <2> QED
    BY <1>3, <2>3, <2>5, <2>6
<1>5. P(n)
  <2> n \in 0 .. n
    OBVIOUS
  <2> HIDE DEF P
  <2> QED
    BY <1>4
<1> QED
  BY <1>1, <1>5

-----------------------------------------------------------------------------
(* The scenario.                                                           *)

\* Normalize keeps the sorts of the fields.
LEMMA NormalizeTypes ==
    ASSUME NEW c \in [Fields -> Int]
    PROVE  Normalize(c) \in [Fields -> Int]
<1>2. \A f \in Fields : c[f] \in Int
  OBVIOUS
<1> DEFINE n == AtLeast(1, c.namespaces)
           d == AtLeast(1, c.deployments)
           m == AtLeast(1, c.cmin)
           x == AtLeast(m, c.cmax)
           h == AtLeast(c.lo, c.hi)
           k == AtLeast(0, c.max)
           s == AtMost(k, c.seed)
<1>3. /\ n \in Int /\ d \in Int /\ m \in Int /\ x \in Int /\ h \in Int
      /\ k \in Int /\ s \in Int
  <2>1. /\ c.namespaces \in Int /\ c.deployments \in Int /\ c.cmin \in Int /\ c.cmax \in Int
        /\ c.lo \in Int /\ c.hi \in Int /\ c.max \in Int /\ c.seed \in Int
    BY <1>2 DEF Fields
  <2>2. n \in Int /\ d \in Int /\ m \in Int /\ h \in Int /\ k \in Int
    BY <2>1 DEF AtLeast
  <2> HIDE DEF m, k
  <2>3. x \in Int /\ s \in Int
    BY <2>1, <2>2 DEF AtLeast, AtMost
  <2> QED
    BY <2>2, <2>3
<1> DEFINE r == Normalize(c)
<1>f. {"namespaces", "deployments", "lo", "hi", "pods", "cmin", "cmax", "max", "seed"}
          \subseteq Fields
  BY DEF Fields
<1>a. r.namespaces = n /\ r.deployments = d /\ r.lo = c.lo /\ r.pods = c.pods
  BY <1>f DEF Normalize
<1>b. r.cmin = m /\ r.cmax = x
  BY <1>f DEF Normalize
<1>c. r.hi = h /\ r.max = k /\ r.seed = s
  BY <1>f DEF Normalize
<1>4. /\ r.namespaces = n /\ r.deployments = d /\ r.cmin = m /\ r.cmax = x /\ r.hi = h
      /\ r.max = k /\ r.seed = s /\ r.lo = c.lo /\ r.pods = c.pods
  BY <1>a, <1>b, <1>c
<1>5. r = [f \in Fields |-> r[f]]
  BY DEF Normalize
<1> HIDE DEF n, d, m, x, h, k, s, r
<1>6. \A f \in Fields : r[f] \in Int
  BY <1>2, <1>3, <1>4 DEF Fields
<1>7. r \in [Fields -> Int]
  BY <1>5, <1>6
<1> QED
  BY <1>7 DEF r

\* Every field of what Normalize returns.
LEMMA NormalizeIs ==
    ASSUME NEW c \in [Fields -> Int], NEW n, n = Normalize(c)
    PROVE  /\ n \in [Fields -> Int]
           /\ n.namespaces = AtLeast(1, c.namespaces) /\ n.deployments = AtLeast(1, c.deployments)
           /\ n.lo = c.lo /\ n.hi = AtLeast(c.lo, c.hi) /\ n.pods = c.pods
           /\ n.cmin = AtLeast(1, c.cmin) /\ n.cmax = AtLeast(AtLeast(1, c.cmin), c.cmax)
           /\ n.max = AtLeast(0, c.max) /\ n.seed = AtMost(AtLeast(0, c.max), c.seed)
<1>1. {"namespaces", "deployments", "lo", "hi", "pods", "cmin", "cmax", "max", "seed"}
          \subseteq Fields
  BY DEF Fields
<1>2. n.namespaces = AtLeast(1, c.namespaces) /\ n.deployments = AtLeast(1, c.deployments)
  BY <1>1 DEF Normalize
<1>3. n.lo = c.lo /\ n.hi = AtLeast(c.lo, c.hi) /\ n.pods = c.pods
  BY <1>1 DEF Normalize
<1>4. n.cmin = AtLeast(1, c.cmin) /\ n.cmax = AtLeast(AtLeast(1, c.cmin), c.cmax)
  BY <1>1 DEF Normalize
<1>5. n.max = AtLeast(0, c.max) /\ n.seed = AtMost(AtLeast(0, c.max), c.seed)
  BY <1>1 DEF Normalize
<1>6. n \in [Fields -> Int]
  BY NormalizeTypes
<1> QED
  BY <1>2, <1>3, <1>4, <1>5, <1>6

\* The fields of a scenario are numbers.
LEMMA FieldsAreInts ==
    ASSUME NEW c \in [Fields -> Int]
    PROVE  /\ c.namespaces \in Int /\ c.deployments \in Int /\ c.lo \in Int /\ c.hi \in Int
           /\ c.pods \in Int /\ c.cmin \in Int /\ c.cmax \in Int /\ c.max \in Int
           /\ c.seed \in Int
  BY DEF Fields

\* A scenario that Normalize would not change.
Clamped(c) ==
    /\ 1 <= c.namespaces /\ 1 <= c.deployments /\ c.lo <= c.hi
    /\ 1 <= c.cmin /\ c.cmin <= c.cmax /\ 0 <= c.max /\ c.seed <= c.max

\* What Normalize returns is one.
LEMMA NormalizeIsClamped ==
    ASSUME NEW c \in [Fields -> Int], NEW n, n = Normalize(c)
    PROVE  n \in [Fields -> Int] /\ Clamped(n)
  BY NormalizeIs, FieldsAreInts DEF Clamped, AtLeast, AtMost

\* And it returns such a one as it is.
LEMMA NormalizeFixes ==
    ASSUME NEW c \in [Fields -> Int], Clamped(c)
    PROVE  Normalize(c) = c
<1> PICK n : n = Normalize(c)
  OBVIOUS
<1>1. n \in [Fields -> Int]
  BY NormalizeIs
<1>2. /\ n.namespaces = c.namespaces /\ n.deployments = c.deployments
      /\ n.lo = c.lo /\ n.hi = c.hi /\ n.pods = c.pods
      /\ n.cmin = c.cmin /\ n.cmax = c.cmax /\ n.max = c.max /\ n.seed = c.seed
  BY NormalizeIs, FieldsAreInts DEF Clamped, AtLeast, AtMost
<1>3. \A f \in Fields : n[f] = c[f]
  BY <1>2 DEF Fields
<1>4. n = c
  BY <1>1, <1>3
<1> QED
  BY <1>4

\* A scenario that is given in full leaves nothing of the preset.
LEMMA OverAll ==
    ASSUME NEW base, NEW c \in [Fields -> Int]
    PROVE  Over(base, c) = c
  BY DEF Over

\* A clamped scenario survives being written to a file and loaded.
LEMMA ClampedReloads ==
    ASSUME NEW c \in [Fields -> Int], Clamped(c), NEW base
    PROVE  Load(base, c) = c
  BY NormalizeFixes, OverAll DEF Load

\* Resolve keeps the sorts of the fields.
LEMMA OverTypes ==
    ASSUME NEW c \in [Fields -> Int], NEW edits \in Files \cup Flags
    PROVE  Over(c, edits) \in [Fields -> Int]
  BY StartupAssumption DEF Over

\* What is resolved is clamped.
LEMMA ResolveClamps ==
    ASSUME NEW f \in Files, NEW g \in Flags
    PROVE  Resolve(Base, f, g) \in [Fields -> Int] /\ Clamped(Resolve(Base, f, g))
<1>1. Base \in [Fields -> Int]
  BY StartupAssumption
<1>2. Load(Base, f) \in [Fields -> Int]
  BY <1>1, OverTypes, NormalizeTypes DEF Load
<1>3. Over(Load(Base, f), g) \in [Fields -> Int]
  BY <1>2, OverTypes
<1> QED
  BY <1>3, NormalizeIsClamped DEF Resolve

\* What the flags ask for holds, but for what Normalize clamps.
LEMMA FlagsHold ==
    ASSUME NEW before \in [Fields -> Int], Clamped(before), NEW g \in Flags,
           NEW asked, asked = Over(before, g), NEW c, c = Normalize(asked), NEW f \in Fields
    PROVE  \/ c[f] = asked[f]
           \/ f \in {"namespaces", "deployments"} /\ asked[f] < 1
           \/ f = "max" /\ asked[f] < 0
           \/ f = "hi" /\ asked[f] < asked["lo"]
           \/ f = "cmax" /\ asked[f] < before["cmin"]
           \/ f = "seed" /\ asked[f] > AtLeast(0, asked["max"])
<1>1. asked \in [Fields -> Int]
  BY OverTypes
<1>2. DOMAIN g \subseteq FlagFields
  BY StartupAssumption
<1>3. asked.cmin = before.cmin
  BY <1>2 DEF Over, FlagFields, Fields
<1>4. /\ c.namespaces = AtLeast(1, asked.namespaces)
      /\ c.deployments = AtLeast(1, asked.deployments)
      /\ c.lo = asked.lo /\ c.hi = AtLeast(asked.lo, asked.hi) /\ c.pods = asked.pods
      /\ c.cmin = AtLeast(1, asked.cmin) /\ c.cmax = AtLeast(AtLeast(1, asked.cmin), asked.cmax)
      /\ c.max = AtLeast(0, asked.max) /\ c.seed = AtMost(AtLeast(0, asked.max), asked.seed)
  BY <1>1, NormalizeIs
<1>5. /\ asked.namespaces \in Int /\ asked.deployments \in Int /\ asked.lo \in Int
      /\ asked.hi \in Int /\ asked.pods \in Int /\ asked.cmin \in Int /\ asked.cmax \in Int
      /\ asked.max \in Int /\ asked.seed \in Int
  BY <1>1, FieldsAreInts
<1>6. 1 <= asked.cmin
  BY <1>3 DEF Clamped
<1>7. CASE f \in {"namespaces", "deployments"}
  BY <1>4, <1>5, <1>7 DEF AtLeast
<1>8. CASE f \in {"lo", "pods", "cmin"}
  BY <1>4, <1>5, <1>6, <1>8 DEF AtLeast
<1>9. CASE f = "hi"
  BY <1>4, <1>5, <1>9 DEF AtLeast
<1>10. CASE f = "cmax"
  <2>1. AtLeast(1, asked.cmin) = asked.cmin
    BY <1>5, <1>6 DEF AtLeast
  <2>2. c.cmax = AtLeast(asked.cmin, asked.cmax)
    BY <1>4, <2>1
  <2> QED
    BY <1>3, <1>5, <1>10, <2>2 DEF AtLeast
<1>11. CASE f = "max"
  BY <1>4, <1>5, <1>11 DEF AtLeast
<1>12. CASE f = "seed"
  <2>1. AtLeast(0, asked.max) \in Int
    BY <1>5 DEF AtLeast
  <2> QED
    BY <1>4, <1>5, <1>12, <2>1 DEF AtMost
<1> QED
  BY <1>7, <1>8, <1>9, <1>10, <1>11, <1>12 DEF Fields

-----------------------------------------------------------------------------
(* The log of a cluster.                                                   *)

\* An Event that a client deletes leaves the store, and nothing takes its place.
LEMMA DeleteKeeps ==
    ASSUME NEW l, NEW made, NEW gone, NEW max, NEW before \in SUBSET Events,
           Kept(l, made, gone, max, before), NEW e \in l.stored, NEW r, r = DeleteEvent(l, e)
    PROVE  Kept(r, made, gone \cup {e}, max, before)
<1>1. /\ LogTypes(l) /\ made \in Seq(Events) /\ gone \in SUBSET Events
      /\ Retains(l, made, gone, max) /\ Announced(l, before)
  BY DEF Kept
<1>2. /\ l.seq \in Nat /\ l.stored \in SUBSET Events /\ l.queue \in Seq(Events) /\ e \in Events
  BY <1>1 DEF LogTypes
<1>3. r.seq = l.seq /\ r.queue = l.queue /\ r.stored = l.stored \ {e} /\ Ends(r, l, e)
  <2> PICK silent : silent = FALSE
    OBVIOUS
  <2>1. l.notices \in Seq(Notices)
    BY <1>1 DEF LogTypes
  <2>2. r = [l EXCEPT !.stored = l.stored \ {e}, !.notices = Emitted(l, "DELETED", e, silent)]
    BY DEF DeleteEvent
  <2>3. Emitted(l, "DELETED", e, silent) = Append(l.notices, Notice("DELETED", e))
    BY Zenon DEF Emitted
  <2> QED
    BY <2>2, <2>3 DEF Ends
<1>4. r.notices \in Seq(Notices) /\ Announced(r, before)
  BY <1>1, <1>3, EndAnnounced
<1>5. LogTypes(r)
  BY <1>2, <1>3, <1>4 DEF LogTypes
<1>6. e[2] <= l.seq
  BY <1>1, <1>2 DEF Retains, LastOf
<1>7. LastOf(r.stored, made, gone \cup {e}, l.seq, Len(l.queue))
  <2>1. LastOf(l.stored, made, gone, l.seq, Len(l.queue))
    BY <1>1 DEF Retains
  <2> SUFFICES ASSUME NEW x \in Events
               PROVE  x \in r.stored <=> /\ x \notin gone \cup {e}
                                         /\ l.seq - Len(l.queue) < x[2] /\ x[2] <= l.seq
                                         /\ x = made[x[2]]
    BY DEF LastOf
  <2> QED
    BY <2>1, <1>3 DEF LastOf
<1>8. Retains(r, made, gone \cup {e}, max)
  BY <1>1, <1>3, <1>6, <1>7 DEF Retains
<1>9. gone \cup {e} \in SUBSET Events
  BY <1>1, <1>2
<1> QED
  BY <1>1, <1>4, <1>5, <1>8, <1>9 DEF Kept

\* An empty log keeps what it should under every cap.
LEMMA EmptyRetains ==
    ASSUME NEW max \in Nat
    PROVE  /\ LogTypes(EmptyLog) /\ Retains(EmptyLog, <<>>, {}, max)
           /\ EmptyLog.notices = <<>> /\ EmptyLog.stored = {}
<1> PICK l : l = EmptyLog
  OBVIOUS
<1>1. l.seq = 0 /\ l.stored = {} /\ l.queue = <<>> /\ l.notices = <<>>
  BY DEF EmptyLog
<1>2. LogTypes(l)
  BY <1>1 DEF LogTypes
<1>3. AtMost(max, 0) = 0
  BY DEF AtMost
<1>4. LastOf({}, <<>>, {}, 0, 0)
  BY DEF LastOf, Events
<1>5. Retains(l, <<>>, {}, max)
  BY <1>1, <1>3, <1>4 DEF Retains
<1> QED
  BY <1>1, <1>2, <1>5

\* A watcher who has listed and was told nothing yet has what is stored.
LEMMA ListIsAnnounced ==
    ASSUME NEW l, LogTypes(l), NEW made, NEW gone, NEW max, Retains(l, made, gone, max),
           l.notices = <<>>
    PROVE  Announced(l, l.stored)
<1>1. l.stored \in SUBSET Events
  BY DEF LogTypes
<1>2. \A e \in l.stored : e[2] <= l.seq
  BY <1>1 DEF Retains, LastOf
<1>3. \A type, e : ~ IsTold(l.notices, type, e)
  BY DEF IsTold
<1>4. Once(l.notices, l.stored)
  BY DEF Once
<1> QED
  BY <1>2, <1>3, <1>4 DEF Announced

\* The scenario is clamped, so that its retention is a number and its seed Events
\* fit in it; until it is built it is known where it comes from.
CfgInv ==
    /\ cfg \in [Fields -> Int] /\ Clamped(cfg)
    /\ stage \in {"resolve", "resolved"} => file \in Files /\ flags \in Flags
    /\ stage = "resolved" => cfg = Resolve(Base, file, flags)

\* The log, before the cluster is served and when it is.
LogInv ==
    /\ acc \in Nat
    /\ LogTypes(log) /\ recorded \in Seq(Events)
    /\ dropped \in SUBSET Events /\ listed \in SUBSET Events
    /\ Retains(log, recorded, dropped, cfg.max)
    /\ stage \notin {"seed", "serve"} => log = EmptyLog /\ recorded = <<>>
    /\ stage # "serve" => log.notices = <<>> /\ dropped = {}
    /\ stage = "serve" => Announced(log, listed)

ServeInv == CfgInv /\ LogInv

\* A scenario has as many Events as it says.
LEMMA CfgMax ==
    ASSUME CfgInv
    PROVE  /\ cfg.max \in Nat /\ cfg.seed \in Int /\ cfg.seed <= cfg.max
           /\ cfg.namespaces \in Nat \ {0}
<1>1. cfg \in [Fields -> Int] /\ Clamped(cfg)
  BY DEF CfgInv
<1>2. cfg.max \in Int /\ cfg.seed \in Int /\ cfg.namespaces \in Int
  BY <1>1, FieldsAreInts
<1> QED
  BY <1>1, <1>2 DEF Clamped

\* A scenario at rest.
LEMMA InitServe == Init => ServeInv
<1> SUFFICES ASSUME Init PROVE ServeInv
  OBVIOUS
<1>1. CfgInv
  <2>1. Base \in [Fields -> Int] /\ Base = Normalize(Base)
    BY StartupAssumption
  <2>2. Clamped(Base)
    BY <2>1, NormalizeIsClamped
  <2> QED
    BY <2>1, <2>2 DEF Init, CfgInv
<1>2. LogInv
  BY <1>1, CfgMax, EmptyRetains DEF Init, LogInv, None
<1> QED
  BY <1>1, <1>2 DEF ServeInv

\* What Build leaves of the scenario is still clamped.
LEMMA StepCfg ==
    ASSUME CfgInv, Next
    PROVE  CfgInv'
<1>0. /\ cfg \in [Fields -> Int] /\ Clamped(cfg)
      /\ Base \in [Fields -> Int] /\ Base = Normalize(Base)
  BY StartupAssumption DEF CfgInv
<1>b. Clamped(Base)
  BY <1>0, NormalizeIsClamped
<1>f. {"namespaces", "deployments", "lo", "hi", "pods", "cmin", "cmax", "max", "seed"}
          \subseteq Fields
  BY DEF Fields
<1>1. ASSUME ResolveScenario PROVE CfgInv'
  <2>1. file \in Files /\ flags \in Flags /\ cfg' = Resolve(Base, file, flags)
        /\ file' = file /\ flags' = flags
    BY <1>1 DEF ResolveScenario, CfgInv
  <2> QED
    BY <2>1, ResolveClamps DEF CfgInv
<1>2. ASSUME Shuffle PROVE CfgInv'
  <2>1. /\ cfg' = [f \in Fields |-> IF f \in {"namespaces", "deployments", "max", "seed"}
                                   THEN cfg[f] ELSE Base[f]]
        /\ stage' = "deploy"
    BY <1>2 DEF Shuffle
  <2>2. /\ cfg' \in [Fields -> Int] /\ cfg'.max = cfg.max /\ cfg'.seed = cfg.seed
        /\ cfg'.namespaces = cfg.namespaces /\ cfg'.deployments = cfg.deployments
        /\ cfg'.lo = Base.lo /\ cfg'.hi = Base.hi /\ cfg'.cmin = Base.cmin /\ cfg'.cmax = Base.cmax
    BY <1>0, <1>f, <2>1
  <2>3. Clamped(cfg')
    BY <1>0, <1>b, <2>2 DEF Clamped
  <2> QED
    BY <2>1, <2>2, <2>3 DEF CfgInv
<1>3. ASSUME EndServices PROVE CfgInv'
  <2>1. stage' \notin {"resolve", "resolved"}
    BY <1>3 DEF EndServices
  <2>2. CASE cfg' = cfg
    BY <1>0, <2>1, <2>2 DEF CfgInv
  <2>3. CASE cfg' = [Base EXCEPT !.max = cfg.max, !.seed = cfg.seed]
    <3>1. /\ cfg' \in [Fields -> Int] /\ cfg'.max = cfg.max /\ cfg'.seed = cfg.seed
          /\ cfg'.namespaces = Base.namespaces /\ cfg'.deployments = Base.deployments
          /\ cfg'.lo = Base.lo /\ cfg'.hi = Base.hi /\ cfg'.cmin = Base.cmin
          /\ cfg'.cmax = Base.cmax
      BY <1>0, <1>f, <2>3
    <3>2. Clamped(cfg')
      BY <1>0, <1>b, <3>1 DEF Clamped
    <3> QED
      BY <2>1, <3>1, <3>2 DEF CfgInv
  <2> QED
    BY <1>3, <2>2, <2>3 DEF EndServices
<1>4. ASSUME Distribute PROVE CfgInv'
  BY <1>4 DEF CfgInv, Distribute
<1>5. ASSUME cfg' = cfg, stage' \notin {"resolve", "resolved"} PROVE CfgInv'
  BY <1>5 DEF CfgInv
<1>6. AddDeployment \/ EndDeployments \/ AddService \/ SeedEvent \/ Seal \/ RecordEvent
      \/ BackgroundEvents \/ LoseDeployments \/ ClientDelete
          => cfg' = cfg /\ stage' \notin {"resolve", "resolved"}
  BY DEF AddDeployment, EndDeployments, AddService, SeedEvent, Seal, RecordEvent,
         BackgroundEvents, LoseDeployments, ClientDelete, cfgVars
<1> QED
  BY <1>1, <1>2, <1>3, <1>4, <1>5, <1>6 DEF Next

\* The steps of the engine, and of clients: the log keeps what it should.
LEMMA ServedKept ==
    ASSUME ServeInv, stage = "serve"
    PROVE  Kept(log, recorded, dropped, cfg.max, listed) /\ listed \in SUBSET Events
  BY DEF ServeInv, LogInv, Kept

\* Several Events about ref.
LEMMA MadeKeeps ==
    ASSUME ServeInv, stage = "serve", cfg.max > 0, NEW n \in Nat, NEW ref \in Refs, Made(n, ref)
    PROVE  Kept(log', recorded', dropped, cfg.max, listed)
<1>1. Kept(log, recorded, dropped, cfg.max, listed) /\ listed \in SUBSET Events
  BY ServedKept
<1>2. cfg.max \in Nat \ {0}
  BY CfgMax DEF ServeInv
<1>3. log' = RecordMany(log, cfg.max, ref, n) /\ recorded' = MadeUpTo(recorded, ref, log.seq, n)
  BY DEF Made, MadeUpTo
<1> QED
  BY <1>1, <1>2, <1>3, ManyKeep

\* What is kept of a log that is served.
LEMMA KeptIsLogInv ==
    ASSUME NEW l, NEW made, NEW gone, NEW max, NEW before,
           Kept(l, made, gone, max, before)
    PROVE  /\ LogTypes(l) /\ made \in Seq(Events) /\ gone \in SUBSET Events
           /\ Retains(l, made, gone, max) /\ Announced(l, before)
  BY DEF Kept

\* A seed Event is recorded in silence.
LEMMA SeedKeeps ==
    ASSUME NEW l, LogTypes(l), NEW max \in Nat \ {0}, NEW r, r = Record(l, max, "d", TRUE)
    PROVE  r.notices = l.notices
<1> PICK silent : silent = TRUE
  OBVIOUS
<1> PICK e : e = NameOf("d", l.seq + 1)
  OBVIOUS
<1> PICK new : new = Put(l, e, silent)
  OBVIOUS
<1>1. /\ new.notices = l.notices
      /\ new = [seq |-> new.seq, stored |-> new.stored, queue |-> new.queue,
                notices |-> new.notices]
  BY DEF Put, Emitted
<1>2. Evict(new, silent).notices = new.notices
  BY <1>1 DEF Evict, Emitted
<1>3. r = new \/ r = Evict(new, silent)
  <2>1. r = Record(l, max, "d", silent)
    OBVIOUS
  <2>2. ~ (max <= 0)
    OBVIOUS
  <2> QED
    BY <2>1, <2>2, Zenon DEF Record
<1> QED
  BY <1>1, <1>2, <1>3

\* Every step keeps the log.
LEMMA StepLog ==
    ASSUME ServeInv, Next
    PROVE  LogInv'
<1>0. CfgInv /\ LogInv /\ CfgInv'
  BY StepCfg DEF ServeInv
<1>a. cfg.max \in Nat /\ cfg'.max \in Nat /\ cfg.seed <= cfg.max
  <2>1. cfg.max \in Nat /\ cfg.seed <= cfg.max
    BY <1>0, CfgMax
  <2>2. cfg'.max \in Nat
    <3>1. cfg' \in [Fields -> Int] /\ Clamped(cfg')
      BY <1>0 DEF CfgInv
    <3>2. cfg'.max \in Int
      BY <3>1, FieldsAreInts
    <3> QED
      BY <3>1, <3>2 DEF Clamped
  <2> QED
    BY <2>1, <2>2
<1>1. ASSUME stage \notin {"seed", "serve"}, stage' # "serve", UNCHANGED liveVars
      PROVE  LogInv'
  <2>1. log = EmptyLog /\ recorded = <<>> /\ log.notices = <<>> /\ dropped = {}
    BY <1>0, <1>1 DEF LogInv
  <2>2. Retains(log, recorded, dropped, cfg'.max)
    BY <2>1, <1>a, EmptyRetains
  <2>3. UNCHANGED <<log, acc, listed, recorded, dropped>>
    BY <1>1 DEF liveVars
  <2> QED
    BY <1>0, <1>1, <2>1, <2>2, <2>3 DEF LogInv
<1>2. ASSUME SeedEvent PROVE LogInv'
  <2>1. /\ stage = "seed" /\ Len(recorded) < cfg.seed /\ stage' = stage /\ cfg' = cfg
        /\ log' = Record(log, cfg.max, "d", TRUE)
        /\ recorded' = Append(recorded, NameOf("d", log.seq + 1))
        /\ UNCHANGED <<acc, listed, dropped>>
    BY <1>2 DEF SeedEvent, cfgVars
  <2>2. LogTypes(log) /\ recorded \in Seq(Events) /\ dropped \in SUBSET Events
        /\ Retains(log, recorded, dropped, cfg.max) /\ log.seq \in Nat
    BY <1>0 DEF LogInv, LogTypes
  <2>3. cfg.max \in Nat \ {0}
    <3>1. Len(recorded) \in Nat /\ cfg.seed \in Int
      BY <1>0, <2>2, CfgMax
    <3> QED
      BY <2>1, <3>1, <1>a
  <2>4. \E silent : Recorded(log, recorded, log', recorded', cfg.max, "d", silent)
    BY <2>1, Zenon DEF Recorded
  <2>5. PICK silent : Recorded(log, recorded, log', recorded', cfg.max, "d", silent)
    BY <2>4
  <2>6. "d" \in Refs
    BY DEF Refs
  <2>7. /\ Retains(log', recorded', dropped, cfg.max)
        /\ Counts(log', log) /\ log'.stored \in SUBSET Events /\ log'.queue \in Seq(Events)
    BY <2>2, <2>3, <2>5, <2>6, RecordRetains
  <2>8. log'.notices = log.notices
    BY <2>1, <2>2, <2>3, SeedKeeps, Zenon
  <2>9. recorded' \in Seq(Events)
    <3>1. log.seq + 1 \in Nat
      BY <2>2
    <3>2. NameOf("d", log.seq + 1) \in Events
      BY <3>1, <2>6, NameIsEvent
    <3> QED
      BY <2>1, <2>2, <3>2
  <2>10. LogTypes(log')
    BY <2>2, <2>7, <2>8 DEF LogTypes, Counts
  <2> QED
    BY <1>0, <2>1, <2>2, <2>7, <2>8, <2>9, <2>10 DEF LogInv
<1>3. ASSUME Seal PROVE LogInv'
  <2>1. /\ stage = "seed" /\ stage' = "serve" /\ listed' = log.stored /\ cfg' = cfg
        /\ UNCHANGED <<log, acc, recorded, dropped>>
    BY <1>3 DEF Seal, cfgVars
  <2>2. LogTypes(log) /\ Retains(log, recorded, dropped, cfg.max) /\ log.notices = <<>>
    BY <1>0, <2>1 DEF LogInv
  <2>3. Announced(log, log.stored)
    BY <2>2, ListIsAnnounced
  <2>4. log.stored \in SUBSET Events
    BY <2>2 DEF LogTypes
  <2> QED
    BY <1>0, <2>1, <2>2, <2>3, <2>4 DEF LogInv
<1>k. ASSUME stage' = "serve", cfg' = cfg, listed' = listed, stage = "serve", acc' \in Nat,
             Kept(log', recorded', dropped', cfg.max, listed)
      PROVE  LogInv'
  <2>1. LogTypes(log') /\ recorded' \in Seq(Events) /\ dropped' \in SUBSET Events
        /\ Retains(log', recorded', dropped', cfg.max) /\ Announced(log', listed)
    BY <1>k DEF Kept
  <2>2. listed \in SUBSET Events
    BY <1>0 DEF LogInv
  <2> QED
    BY <1>k, <2>1, <2>2 DEF LogInv
<1>4. ASSUME RecordEvent PROVE LogInv'
  <2>1. /\ stage = "serve" /\ cfg.max > 0 /\ Made(1, "p") /\ stage' = stage /\ cfg' = cfg
        /\ UNCHANGED <<acc, listed, dropped>>
    BY <1>4 DEF RecordEvent, cfgVars
  <2>2. "p" \in Refs /\ 1 \in Nat
    BY DEF Refs
  <2>3. Kept(log', recorded', dropped, cfg.max, listed)
    BY <2>1, <2>2, MadeKeeps
  <2>4. acc \in Nat
    BY <1>0 DEF LogInv
  <2> QED
    BY <2>1, <2>3, <2>4, <1>k
<1>5. ASSUME BackgroundEvents PROVE LogInv'
  <2>1. /\ stage = "serve" /\ cfg.max > 0 /\ stage' = stage /\ cfg' = cfg
        /\ UNCHANGED <<listed, dropped>>
    BY <1>5 DEF BackgroundEvents, cfgVars
  <2>2. acc \in Nat /\ Rate \in Nat /\ Per \in Nat \ {0}
    BY <1>0, StartupAssumption DEF LogInv
  <2> PICK due \in Nat : due = acc + Rate
    BY <2>2
  <2> PICK n : n = due \div Per
    OBVIOUS
  <2>3. n \in Nat /\ Left(due) \in Nat
    BY <2>2 DEF Left
  <2>4. \/ Made(n, "d") /\ acc' = Left(due)
        \/ acc' = due /\ UNCHANGED <<log, recorded, paced>>
    BY <1>5 DEF BackgroundEvents
  <2>5. "d" \in Refs
    BY DEF Refs
  <2>6. CASE Made(n, "d") /\ acc' = Left(due)
    <3>1. Kept(log', recorded', dropped, cfg.max, listed)
      BY <2>1, <2>3, <2>5, <2>6, MadeKeeps
    <3> QED
      BY <2>1, <2>3, <2>6, <3>1, <1>k
  <2>7. CASE acc' = due /\ UNCHANGED <<log, recorded, paced>>
    <3>1. Kept(log, recorded, dropped, cfg.max, listed)
      BY <2>1, ServedKept
    <3> QED
      BY <2>1, <2>7, <3>1, <1>k
  <2> QED
    BY <2>4, <2>6, <2>7
<1>6. ASSUME LoseDeployments PROVE LogInv'
  <2>1. /\ stage = "serve" /\ stage' = stage /\ cfg' = cfg
        /\ UNCHANGED <<log, acc, listed, recorded, dropped>>
    BY <1>6 DEF LoseDeployments, cfgVars
  <2>2. Kept(log, recorded, dropped, cfg.max, listed) /\ acc \in Nat
    BY <1>0, <2>1, ServedKept DEF LogInv
  <2> QED
    BY <2>1, <2>2, <1>k
<1>7. ASSUME ClientDelete PROVE LogInv'
  <2>1. /\ stage = "serve" /\ stage' = stage /\ cfg' = cfg
        /\ UNCHANGED <<acc, listed, recorded>>
    BY <1>7 DEF ClientDelete, cfgVars
  <2>2. PICK e \in log.stored : log' = DeleteEvent(log, e) /\ dropped' = dropped \cup {e}
    BY <1>7 DEF ClientDelete
  <2>3. Kept(log, recorded, dropped, cfg.max, listed) /\ acc \in Nat /\ listed \in SUBSET Events
    BY <1>0, <2>1, ServedKept DEF LogInv
  <2>4. Kept(log', recorded, dropped \cup {e}, cfg.max, listed)
    BY <2>2, <2>3, DeleteKeeps
  <2> QED
    BY <2>1, <2>2, <2>3, <2>4, <1>k
<1>8. ResolveScenario \/ Distribute \/ Shuffle \/ AddDeployment \/ EndDeployments \/ AddService
      \/ EndServices
          => stage \notin {"seed", "serve"} /\ stage' # "serve" /\ UNCHANGED liveVars
  BY DEF ResolveScenario, Distribute, Shuffle, AddDeployment, EndDeployments, AddService,
         EndServices
<1> QED
  BY <1>1, <1>2, <1>3, <1>4, <1>5, <1>6, <1>7, <1>8 DEF Next

\* Nothing happens to the log in a step that changes nothing.
LEMMA StutterServe ==
    ASSUME ServeInv, UNCHANGED vars
    PROVE  ServeInv'
<1>1. UNCHANGED <<stage, file, flags, cfg, log, acc, listed, recorded, dropped>>
  BY DEF vars, cfgVars, liveVars
<1>2. CfgInv'
  BY <1>1 DEF ServeInv, CfgInv
<1>3. LogInv'
  BY <1>1 DEF ServeInv, LogInv
<1> QED
  BY <1>2, <1>3 DEF ServeInv

\* The scenario and the log are well formed whatever has happened.
THEOREM AlwaysServe == Spec => []ServeInv
<1>1. Init => ServeInv
  BY InitServe
<1>2. ServeInv /\ [Next]_vars => ServeInv'
  <2> SUFFICES ASSUME ServeInv, [Next]_vars PROVE ServeInv'
    OBVIOUS
  <2>1. CASE Next
    BY <2>1, StepCfg, StepLog DEF ServeInv
  <2>2. CASE UNCHANGED vars
    BY <2>2, StutterServe
  <2> QED
    BY <2>1, <2>2
<1> QED
  BY <1>1, <1>2, PTL DEF Spec

\* The last Events that were recorded, as a set.
IsLast(stored, made, gone, n, k) == stored = {made[i] : i \in n - k + 1 .. n} \ gone

\* The store is that set, but for those deleted.
LEMMA LastAreStored ==
    ASSUME NEW l, LogTypes(l), NEW made \in Seq(Events), NEW gone \in SUBSET Events,
           NEW max \in Nat, Retains(l, made, gone, max),
           NEW n, n = Len(made), NEW k, k = AtMost(max, n)
    PROVE  IsLast(l.stored, made, gone, n, k)
<1>1. /\ n \in Nat /\ l.seq = n /\ Len(l.queue) = k /\ k \in Nat /\ k <= n
      /\ l.stored \in SUBSET Events
  BY DEF Retains, LogTypes, AtMost
<1>2. LastOf(l.stored, made, gone, n, k)
  BY <1>1 DEF Retains
<1>3. ASSUME NEW e \in l.stored
      PROVE  e \in {made[i] : i \in n - k + 1 .. n} \ gone
  <2>1. e \in Events
    BY <1>1
  <2>2. e \notin gone /\ n - k < e[2] /\ e[2] <= n /\ e = made[e[2]]
    BY <1>2, <2>1 DEF LastOf
  <2>3. e[2] \in Nat
    BY <2>1 DEF Events
  <2>4. e[2] \in n - k + 1 .. n
    BY <1>1, <2>2, <2>3
  <2> QED
    BY <2>2, <2>4
<1>4. ASSUME NEW i \in n - k + 1 .. n, made[i] \notin gone
      PROVE  made[i] \in l.stored
  <2>1. i \in 1 .. n
    BY <1>1
  <2>2. made[i] \in Events /\ made[i][2] = i
    BY <1>1, <2>1 DEF Retains
  <2>3. n - k < i /\ i <= n
    BY <1>1
  <2> QED
    BY <1>2, <1>4, <2>2, <2>3 DEF LastOf
<1> QED
  BY <1>3, <1>4 DEF IsLast

\* The store holds the last events.max Events that were recorded, but for those a
\* client deleted (cluster.go:566-589), for every cap and however many Events a
\* tick records.
THEOREM RetentionHolds == Spec => []RetentionIsExact
<1>1. ServeInv => RetentionIsExact
  <2> SUFFICES ASSUME ServeInv, stage \in {"seed", "serve"}
               PROVE  LET n == Len(recorded)
                          k == AtMost(cfg.max, n)
                      IN log.stored = {recorded[i] : i \in n - k + 1 .. n} \ dropped
    BY DEF RetentionIsExact
  <2>1. /\ LogTypes(log) /\ recorded \in Seq(Events) /\ dropped \in SUBSET Events
        /\ cfg.max \in Nat /\ Retains(log, recorded, dropped, cfg.max)
    BY CfgMax DEF ServeInv, LogInv
  <2> PICK n : n = Len(recorded)
    OBVIOUS
  <2> PICK max : max = cfg.max
    OBVIOUS
  <2> PICK k : k = AtMost(max, n)
    OBVIOUS
  <2>2. max \in Nat /\ Retains(log, recorded, dropped, max)
    BY <2>1
  <2>3. IsLast(log.stored, recorded, dropped, n, k)
    BY <2>1, <2>2, LastAreStored
  <2> QED
    BY <2>3 DEF IsLast
<1> QED
  BY <1>1, AlwaysServe, PTL

\* A notice of a type about an Event, as the property says it.
LEMMA ToldIsTold ==
    ASSUME LogTypes(log), NEW type \in {"ADDED", "DELETED"}, NEW e
    PROVE  e \in ToldOf(type) <=> e \in Events /\ IsTold(log.notices, type, e)
<1>0. log.notices \in Seq(Notices) /\ DOMAIN log.notices = 1 .. Len(log.notices)
  BY DEF LogTypes
<1>1. ASSUME e \in ToldOf(type)
      PROVE  e \in Events /\ IsTold(log.notices, type, e)
  <2>1. PICK i \in DOMAIN log.notices : log.notices[i].type = type /\ log.notices[i].event = e
    BY <1>1 DEF ToldOf
  <2>2. log.notices[i] \in Notices
    BY <1>0, <2>1
  <2>3. e \in Events /\ log.notices[i] = Notice(type, e)
    BY <2>1, <2>2 DEF Notices, Notice
  <2> QED
    BY <1>0, <2>1, <2>3 DEF IsTold
<1>2. ASSUME e \in Events, IsTold(log.notices, type, e)
      PROVE  e \in ToldOf(type)
  <2>1. PICK i \in 1 .. Len(log.notices) : log.notices[i] = Notice(type, e)
    BY <1>2 DEF IsTold
  <2>2. log.notices[i].type = type /\ log.notices[i].event = e
    BY <2>1, <1>2, NoticeIsNotice
  <2> QED
    BY <1>0, <2>1, <2>2 DEF ToldOf
<1> QED
  BY <1>1, <1>2

\* A watcher of events who listed at Seal is told of every Event and of its end
\* exactly once, and has in the end what is stored, for every cap, pace and number
\* of Events (cluster.go:566-589, write.go:272).
THEOREM AnnouncementsHold == Spec => []EventsAreAnnounced
<1>1. ServeInv => EventsAreAnnounced
  <2> SUFFICES ASSUME ServeInv, stage = "serve"
               PROVE  EventsAreAnnounced
    BY DEF EventsAreAnnounced
  <2>1. LogTypes(log) /\ listed \in SUBSET Events /\ Announced(log, listed)
    BY DEF ServeInv, LogInv
  <2>2. /\ log.notices \in Seq(Notices) /\ DOMAIN log.notices = 1 .. Len(log.notices)
        /\ log.stored \in SUBSET Events
    BY <2>1 DEF LogTypes
  <2>3. log.stored = (listed \cup ToldOf("ADDED")) \ ToldOf("DELETED")
    <3>1. \A e : e \in ToldOf("ADDED") <=> e \in Events /\ IsTold(log.notices, "ADDED", e)
      BY <2>1, ToldIsTold
    <3>2. \A e : e \in ToldOf("DELETED") <=> e \in Events /\ IsTold(log.notices, "DELETED", e)
      BY <2>1, ToldIsTold
    <3>3. \A e \in Events : e \in log.stored <=> /\ e \in listed \/ IsTold(log.notices, "ADDED", e)
                                                 /\ ~ IsTold(log.notices, "DELETED", e)
      BY <2>1 DEF Announced
    <3> QED
      BY <2>1, <2>2, <3>1, <3>2, <3>3
  <2>4. ASSUME NEW i \in DOMAIN log.notices
        PROVE  LET n    == log.notices[i]
                   past == {log.notices[j] : j \in 1 .. i - 1}
               IN IF n.type = "ADDED"
                  THEN n.event \notin listed /\ \A m \in past : m.event # n.event
                  ELSE n \notin past /\ (n.event \in listed \/ Notice("ADDED", n.event) \in past)
    <3>1. Once(log.notices, listed)
      BY <2>1 DEF Announced
    <3>2. i \in 1 .. Len(log.notices)
      BY <2>2
    <3> QED
      BY <3>1, <3>2 DEF Once
  <2> QED
    BY <2>3, <2>4 DEF EventsAreAnnounced
<1> QED
  BY <1>1, AlwaysServe, PTL

\* Whatever preset, file and flags are given, resolve (main.go:160-207) makes a
\* scenario that says what was asked, and that survives being written to a file
\* and loaded again.
THEOREM ScenarioHolds == Spec => []ScenarioIsResolved
<1>1. ServeInv => ScenarioIsResolved
  <2> SUFFICES ASSUME ServeInv, stage = "resolved"
               PROVE  DumpReloads /\ FlagsWin
    BY DEF ScenarioIsResolved
  <2> PICK c : c = cfg
    OBVIOUS
  <2> PICK before : before = Load(Base, file)
    OBVIOUS
  <2> PICK asked : asked = Over(before, flags)
    OBVIOUS
  <2>1. file \in Files /\ flags \in Flags /\ c = Normalize(asked) /\ Base \in [Fields -> Int]
    BY StartupAssumption DEF ServeInv, CfgInv, Resolve
  <2>2. before \in [Fields -> Int] /\ Clamped(before)
    <3>1. Over(Base, file) \in [Fields -> Int]
      BY <2>1, OverTypes
    <3> QED
      BY <3>1, NormalizeIsClamped DEF Load
  <2>3. asked \in [Fields -> Int]
    BY <2>1, <2>2, OverTypes
  <2>4. c \in [Fields -> Int] /\ Clamped(c)
    BY <2>1, <2>3, NormalizeIsClamped
  <2>5. DumpReloads
    <3>1. \A base : Load(base, c) = c
      BY <2>4, ClampedReloads
    <3>2. c.lo <= c.hi /\ 1 <= c.cmin /\ c.cmin <= c.cmax /\ c.seed <= c.max
      BY <2>4 DEF Clamped
    <3> QED
      BY <3>1, <3>2 DEF DumpReloads
  <2>6. FlagsWin
    <3>1. ASSUME NEW f \in Fields
          PROVE  \/ c[f] = asked[f]
                 \/ f \in {"namespaces", "deployments"} /\ asked[f] < 1
                 \/ f = "max" /\ asked[f] < 0
                 \/ f = "hi" /\ asked[f] < asked["lo"]
                 \/ f = "cmax" /\ asked[f] < before["cmin"]
                 \/ f = "seed" /\ asked[f] > AtLeast(0, asked["max"])
      BY <2>1, <2>2, FlagsHold
    <3> QED
      BY <3>1, Zenon DEF FlagsWin
  <2> QED
    BY <2>5, <2>6
<1> QED
  BY <1>1, AlwaysServe, PTL

-----------------------------------------------------------------------------
(* The names of Deployments.                                               *)

\* What a name is made of.
Parts == Apps \cup Int \cup {"svc"}
Names == Seq(Parts)
Deployments == [ns : Nat, name : Names]

NameFor(app, used) == IF used = 0 THEN <<app>> ELSE <<app, used + 1>>

\* The Deployments of the same app in the same namespace that were made before.
Earlier(ds, i) == {k \in 1 .. i - 1 : ds[k].ns = ds[i].ns /\ ds[k].name[1] = ds[i].name[1]}

\* A name counts them.
Numbered(ds) ==
    \A i \in 1 .. Len(ds) :
        /\ ds[i].name[1] \in Apps
        /\ ds[i].name = NameFor(ds[i].name[1], Cardinality(Earlier(ds, i)))

\* A name of an app says which of them it is.
LEMMA NameForInjective ==
    ASSUME NEW app, NEW u \in Nat, NEW v \in Nat, NameFor(app, u) = NameFor(app, v)
    PROVE  u = v
<1>1. NameFor(app, u) = IF u = 0 THEN <<app>> ELSE <<app, u + 1>>
  BY DEF NameFor
<1>2. NameFor(app, v) = IF v = 0 THEN <<app>> ELSE <<app, v + 1>>
  BY DEF NameFor
<1>3. CASE u = 0
  <2>1. CASE v = 0
    BY <1>3, <2>1
  <2>2. CASE v # 0
    <3>1. <<app>> = <<app, v + 1>>
      BY <1>1, <1>2, <1>3, <2>2
    <3>2. Len(<<app>>) = 1 /\ Len(<<app, v + 1>>) = 2
      OBVIOUS
    <3> QED
      BY <3>1, <3>2
  <2> QED
    BY <2>1, <2>2
<1>4. CASE u # 0
  <2>1. CASE v = 0
    <3>1. <<app, u + 1>> = <<app>>
      BY <1>1, <1>2, <1>4, <2>1
    <3>2. Len(<<app>>) = 1 /\ Len(<<app, u + 1>>) = 2
      OBVIOUS
    <3> QED
      BY <3>1, <3>2
  <2>2. CASE v # 0
    <3>1. <<app, u + 1>> = <<app, v + 1>>
      BY <1>1, <1>2, <1>4, <2>2
    <3>2. u + 1 = v + 1
      BY <3>1
    <3> QED
      BY <3>2
  <2> QED
    BY <2>1, <2>2
<1> QED
  BY <1>3, <1>4

\* The name of a Deployment is short and is a name.
LEMMA NameForIsName ==
    ASSUME NEW app \in Apps, NEW u \in Nat
    PROVE  /\ NameFor(app, u) \in Names /\ NameFor(app, u)[1] = app
           /\ Len(NameFor(app, u)) \in {1, 2}
<1>1. <<app>> \in Names /\ <<app, u + 1>> \in Names
  BY DEF Names, Parts
<1>2. <<app>>[1] = app /\ Len(<<app>>) = 1 /\ <<app, u + 1>>[1] = app /\ Len(<<app, u + 1>>) = 2
  OBVIOUS
<1>3. NameFor(app, u) = <<app>> \/ NameFor(app, u) = <<app, u + 1>>
  BY DEF NameFor
<1> QED
  BY <1>1, <1>2, <1>3

\* Those before are finitely many.
LEMMA EarlierFinite ==
    ASSUME NEW ds, NEW i \in Nat
    PROVE  IsFiniteSet(Earlier(ds, i)) /\ Cardinality(Earlier(ds, i)) \in Nat
<1>1. IsFiniteSet(1 .. i - 1)
  BY FS_Interval
<1>2. Earlier(ds, i) \subseteq 1 .. i - 1
  BY DEF Earlier
<1>3. IsFiniteSet(Earlier(ds, i))
  BY <1>1, <1>2, FS_Subset
<1> QED
  BY <1>3, FS_CardinalityType

\* Two Deployments of a namespace have two names.
LEMMA NumberedDiffer ==
    ASSUME NEW ds, Numbered(ds), Len(ds) \in Nat, NEW i \in 1 .. Len(ds), NEW j \in 1 .. Len(ds),
           i < j, ds[i].ns = ds[j].ns, ds[i].name = ds[j].name
    PROVE  FALSE
<1> PICK app : app = ds[i].name[1]
  OBVIOUS
<1>1. ds[j].name[1] = app
  OBVIOUS
<1> PICK A : A = Earlier(ds, i)
  OBVIOUS
<1> PICK B : B = Earlier(ds, j)
  OBVIOUS
<1>2. IsFiniteSet(A) /\ Cardinality(A) \in Nat /\ IsFiniteSet(B) /\ Cardinality(B) \in Nat
  BY EarlierFinite
<1>3. ds[i].name = NameFor(app, Cardinality(A)) /\ ds[j].name = NameFor(app, Cardinality(B))
  BY <1>1 DEF Numbered
<1>4. Cardinality(A) = Cardinality(B)
  <2>1. NameFor(app, Cardinality(A)) = NameFor(app, Cardinality(B))
    BY <1>3
  <2> QED
    BY <1>2, <2>1, NameForInjective
<1>5. i \notin A /\ A \cup {i} \subseteq B
  <2>1. i \notin A
    BY DEF Earlier
  <2>2. i \in B
    BY <1>1 DEF Earlier
  <2>3. A \subseteq B
    BY <1>1 DEF Earlier
  <2> QED
    BY <2>1, <2>2, <2>3
<1>6. IsFiniteSet(A \cup {i}) /\ Cardinality(A \cup {i}) = Cardinality(A) + 1
  BY <1>2, <1>5, FS_AddElement
<1>7. Cardinality(A \cup {i}) <= Cardinality(B)
  BY <1>2, <1>5, FS_Subset
<1> QED
  BY <1>2, <1>4, <1>6, <1>7

\* The names of Deployments are numbered.
Distinct(ds) ==
    \A i, j \in 1 .. Len(ds) : ds[i].ns = ds[j].ns /\ ds[i].name = ds[j].name => i = j

\* So none takes the name of another.
LEMMA NumberedDistinct ==
    ASSUME NEW ds, Numbered(ds), Len(ds) \in Nat
    PROVE  Distinct(ds)
<1> SUFFICES ASSUME NEW i \in 1 .. Len(ds), NEW j \in 1 .. Len(ds),
                    ds[i].ns = ds[j].ns, ds[i].name = ds[j].name
             PROVE  i = j
  BY DEF Distinct
<1>1. ~ (i < j)
  BY NumberedDiffer
<1>2. ~ (j < i)
  <2>1. ds[j].ns = ds[i].ns /\ ds[j].name = ds[i].name
    OBVIOUS
  <2> QED
    BY <2>1, NumberedDiffer
<1> QED
  BY <1>1, <1>2

\* A Deployment that is made is numbered.
LEMMA NumberedMore ==
    ASSUME NEW ds \in Seq(Deployments), Numbered(ds), NEW app \in Apps, NEW ns \in Nat,
           NEW used, used = {k \in DOMAIN ds : ds[k].ns = ns /\ ds[k].name[1] = app},
           NEW d, d = [ns |-> ns, name |-> NameFor(app, Cardinality(used))],
           NEW p, p = Append(ds, d)
    PROVE  p \in Seq(Deployments) /\ Numbered(p)
<1> PICK n \in Nat : n = Len(ds)
  OBVIOUS
<1>1. IsFiniteSet(used) /\ Cardinality(used) \in Nat
  <2>1. used \subseteq 1 .. n
    OBVIOUS
  <2>2. IsFiniteSet(1 .. n)
    BY FS_Interval
  <2>3. IsFiniteSet(used)
    BY <2>1, <2>2, FS_Subset
  <2> QED
    BY <2>3, FS_CardinalityType
<1> PICK u \in Nat : u = Cardinality(used)
  BY <1>1
<1>2. d.ns = ns /\ d.name = NameFor(app, u) /\ d.name[1] = app /\ d.name \in Names
  BY NameForIsName
<1>3. d \in Deployments
  BY <1>2 DEF Deployments
<1>4. /\ p \in Seq(Deployments) /\ Len(p) = n + 1 /\ p[n + 1] = d
      /\ \A i \in 1 .. n : p[i] = ds[i]
  BY <1>3
<1>5. ASSUME NEW i \in 1 .. n + 1
      PROVE  /\ p[i].name[1] \in Apps
             /\ p[i].name = NameFor(p[i].name[1], Cardinality(Earlier(p, i)))
  <2>1. CASE i \in 1 .. n
    <3>1. p[i] = ds[i] /\ \A k \in 1 .. i - 1 : p[k] = ds[k]
      BY <1>4, <2>1
    <3>2. Earlier(p, i) = Earlier(ds, i)
      BY <3>1 DEF Earlier
    <3>3. /\ ds[i].name[1] \in Apps
          /\ ds[i].name = NameFor(ds[i].name[1], Cardinality(Earlier(ds, i)))
      BY <2>1 DEF Numbered
    <3> QED
      BY <3>1, <3>2, <3>3
  <2>2. CASE i = n + 1
    <3>1. p[i] = d /\ i - 1 = n
      BY <1>4, <2>2
    <3>2. Earlier(p, i) = used
      <4>1. DOMAIN ds = 1 .. n
        OBVIOUS
      <4>2. Earlier(p, i) = {k \in 1 .. n : p[k].ns = ns /\ p[k].name[1] = app}
        BY <1>2, <3>1 DEF Earlier
      <4>3. \A k \in 1 .. n : p[k] = ds[k]
        BY <1>4
      <4>4. Earlier(p, i) = {k \in 1 .. n : ds[k].ns = ns /\ ds[k].name[1] = app}
        BY <4>2, <4>3
      <4> QED
        BY <4>1, <4>4
    <3> QED
      BY <1>2, <3>1, <3>2
  <2> QED
    BY <2>1, <2>2
<1> QED
  BY <1>4, <1>5 DEF Numbered

-----------------------------------------------------------------------------
(* The Deployments of a namespace.                                         *)

\* byNS as it grows, over the first n Deployments.
Collects(f, ds, ns, n) ==
    f = [i \in 0 .. n |->
            IF i = 0 THEN <<>>
            ELSE IF ds[i].ns = ns THEN Append(f[i - 1], ds[i]) ELSE f[i - 1]]

\* The Deployments of ns among all.
LocalOf(ds, ns) == (CHOOSE f : Collects(f, ds, ns, Len(ds)))[Len(ds)]

\* It is what the model calls Local.
LEMMA LocalIs ==
    ASSUME NEW ns
    PROVE  Local(ns) = LocalOf(deploys, ns)
  BY DEF Local, LocalOf, Collects

\* byNS can be built.
LEMMA CollectsExist ==
    ASSUME NEW ds, NEW ns, NEW n \in Nat
    PROVE  \E f : Collects(f, ds, ns, n)
<1> DEFINE T == {m \in Nat : ~ \E f : Collects(f, ds, ns, m)}
<1>1. SUFFICES ASSUME T # {} PROVE FALSE
  BY DEF T
<1>2. PICK m \in T : \A k \in T : m <= k
  <2> T \in SUBSET Nat
    OBVIOUS
  <2> HIDE DEF T
  <2> QED
    BY <1>1, LeastElement
<1>3. m \in Nat /\ ~ \E f : Collects(f, ds, ns, m)
  OBVIOUS
<1>4. CASE m = 0
  <2> DEFINE g == [i \in 0 .. 0 |-> <<>>]
  <2>1. \A i \in 0 .. 0 : i = 0
    OBVIOUS
  <2>2. g = [i \in 0 .. 0 |->
                IF i = 0 THEN <<>>
                ELSE IF ds[i].ns = ns THEN Append(g[i - 1], ds[i]) ELSE g[i - 1]]
    BY <2>1
  <2> HIDE DEF g
  <2>3. Collects(g, ds, ns, 0)
    BY <2>2, Zenon DEF Collects
  <2> QED
    BY <1>3, <1>4, <2>3
<1>5. CASE m # 0
  <2>1. m - 1 \in Nat /\ m - 1 \notin T
    BY <1>2, <1>3, <1>5
  <2>2. PICK f : Collects(f, ds, ns, m - 1)
    BY <2>1
  <2> DEFINE Add(s, i) == IF ds[i].ns = ns THEN Append(s, ds[i]) ELSE s
             g == [i \in 0 .. m |-> IF i = 0 THEN <<>> ELSE Add(f[i - 1], i)]
  <2>3. f = [i \in 0 .. m - 1 |-> IF i = 0 THEN <<>> ELSE Add(f[i - 1], i)]
    BY <2>2, Zenon DEF Collects
  <2>4. Collects(g, ds, ns, m) <=> g = [i \in 0 .. m |-> IF i = 0 THEN <<>> ELSE Add(g[i - 1], i)]
    BY Zenon DEF Collects
  <2>g. g = [i \in 0 .. m |-> IF i = 0 THEN <<>> ELSE Add(f[i - 1], i)]
    OBVIOUS
  <2> HIDE DEF Add, g
  <2>5. \A i \in 0 .. m - 1 : g[i] = f[i]
    BY <1>3, <2>3, <2>g
  <2>6. \A i \in 0 .. m : g[i] = IF i = 0 THEN <<>> ELSE Add(g[i - 1], i)
    <3> SUFFICES ASSUME NEW i \in 0 .. m, i # 0
                 PROVE  g[i] = Add(g[i - 1], i)
      BY <1>3, <2>g
    <3>1. g[i] = Add(f[i - 1], i)
      BY <2>g
    <3>2. i - 1 \in 0 .. m - 1
      BY <1>3
    <3>3. g[i - 1] = f[i - 1]
      BY <2>5, <3>2
    <3> QED
      BY <3>1, <3>3, Zenon
  <2>7. g = [i \in 0 .. m |-> g[i]]
    BY <2>g, Zenon
  <2>8. g = [i \in 0 .. m |-> IF i = 0 THEN <<>> ELSE Add(g[i - 1], i)]
    BY <2>6, <2>7, Zenon
  <2> QED
    BY <1>3, <2>4, <2>8
<1> QED
  BY <1>4, <1>5

\* l are Deployments of ns, among the first n, each once.
LocalTo(l, ds, ns, n) ==
    /\ l \in Seq(Deployments)
    /\ \A k \in 1 .. Len(l) : \E i \in 1 .. n : l[k] = ds[i] /\ ds[i].ns = ns
    /\ \A k, m \in 1 .. Len(l) : l[k].name = l[m].name => k = m

\* One more Deployment is looked at.
LEMMA LocalToMore ==
    ASSUME NEW ds \in Seq(Deployments), Distinct(ds), NEW ns, NEW n \in Nat, n < Len(ds),
           NEW l, LocalTo(l, ds, ns, n),
           NEW r, r = IF ds[n + 1].ns = ns THEN Append(l, ds[n + 1]) ELSE l
    PROVE  LocalTo(r, ds, ns, n + 1)
<1>l. /\ l \in Seq(Deployments)
      /\ \A k \in 1 .. Len(l) : \E i \in 1 .. n : l[k] = ds[i] /\ ds[i].ns = ns
      /\ \A k, m \in 1 .. Len(l) : l[k].name = l[m].name => k = m
  BY DEF LocalTo
<1>s. 1 .. n \subseteq 1 .. n + 1 /\ n + 1 \in 1 .. n + 1
  OBVIOUS
<1>1. CASE ds[n + 1].ns # ns
  BY <1>1, <1>l, <1>s DEF LocalTo
<1>2. CASE ds[n + 1].ns = ns
  <2> PICK d \in Deployments : d = ds[n + 1]
    OBVIOUS
  <2> PICK h \in Nat : h = Len(l)
    BY <1>l
  <2>1. /\ r \in Seq(Deployments) /\ Len(r) = h + 1 /\ r[h + 1] = d
        /\ \A k \in 1 .. h : r[k] = l[k]
    BY <1>2, <1>l
  <2>2. ASSUME NEW k \in 1 .. h + 1
        PROVE  \E i \in 1 .. n + 1 : r[k] = ds[i] /\ ds[i].ns = ns
    <3>1. CASE k = h + 1
      BY <1>2, <1>s, <2>1, <3>1
    <3>2. CASE k # h + 1
      <4>1. k \in 1 .. h
        BY <3>2
      <4> QED
        BY <1>l, <1>s, <2>1, <4>1
    <3> QED
      BY <3>1, <3>2
  <2>3. ASSUME NEW k \in 1 .. h
        PROVE  l[k].name # d.name
    <3>1. PICK i \in 1 .. n : l[k] = ds[i] /\ ds[i].ns = ns
      BY <1>l
    <3>2. i \in 1 .. Len(ds) /\ n + 1 \in 1 .. Len(ds) /\ i # n + 1
      OBVIOUS
    <3> QED
      BY <1>2, <3>1, <3>2 DEF Distinct
  <2>4. ASSUME NEW k \in 1 .. h + 1, NEW m \in 1 .. h + 1, r[k].name = r[m].name
        PROVE  k = m
    <3>1. CASE k = h + 1 /\ m = h + 1
      BY <3>1
    <3>2. CASE k = h + 1 /\ m # h + 1
      <4>1. m \in 1 .. h
        BY <3>2
      <4> QED
        BY <2>1, <2>3, <2>4, <3>2, <4>1
    <3>3. CASE k # h + 1 /\ m = h + 1
      <4>1. k \in 1 .. h
        BY <3>3
      <4> QED
        BY <2>1, <2>3, <2>4, <3>3, <4>1
    <3>4. CASE k # h + 1 /\ m # h + 1
      <4>1. k \in 1 .. h /\ m \in 1 .. h
        BY <3>4
      <4> QED
        BY <1>l, <2>1, <2>4, <4>1
    <3> QED
      BY <3>1, <3>2, <3>3, <3>4
  <2> QED
    BY <2>1, <2>2, <2>4 DEF LocalTo
<1> QED
  BY <1>1, <1>2

\* byNS has Deployments of its namespace, each once.
LEMMA LocalHolds ==
    ASSUME NEW ds \in Seq(Deployments), Distinct(ds), NEW ns
    PROVE  LocalTo(LocalOf(ds, ns), ds, ns, Len(ds))
<1> PICK n \in Nat : n = Len(ds)
  OBVIOUS
<1> DEFINE f == CHOOSE g : Collects(g, ds, ns, n)
<1>1. Collects(f, ds, ns, n)
  BY CollectsExist, Zenon
<1>2. LocalOf(ds, ns) = f[n]
  BY DEF LocalOf
<1> HIDE DEF f
<1> DEFINE P(i) == LocalTo(f[i], ds, ns, i)
           T == {i \in 0 .. n : ~ P(i)}
<1>3. P(0)
  <2>1. f[0] = <<>>
    BY <1>1 DEF Collects
  <2> QED
    BY <2>1 DEF LocalTo
<1>4. ASSUME NEW i \in 0 .. n, i + 1 \in 0 .. n, P(i)
      PROVE  P(i + 1)
  <2>1. f[i + 1] = IF ds[i + 1].ns = ns THEN Append(f[i], ds[i + 1]) ELSE f[i]
    <3>1. i + 1 # 0 /\ (i + 1) - 1 = i
      OBVIOUS
    <3> QED
      BY <1>1, <1>4, <3>1 DEF Collects
  <2>2. i \in Nat /\ i < Len(ds)
    BY <1>4
  <2> QED
    BY <1>4, <2>1, <2>2, LocalToMore
<1>5. ASSUME T # {} PROVE FALSE
  <2>1. T \in SUBSET Nat
    OBVIOUS
  <2>2. PICK m \in T : \A k \in T : m <= k
    <3> HIDE DEF T
    <3> QED
      BY <1>5, <2>1, LeastElement
  <2>3. m \in 0 .. n /\ ~ P(m)
    OBVIOUS
  <2>4. m # 0
    BY <1>3, <2>3
  <2>5. m - 1 \in 0 .. n /\ (m - 1) + 1 = m /\ ~ (m <= m - 1)
    BY <2>3, <2>4
  <2>6. P(m - 1)
    <3> HIDE DEF P
    <3> QED
      BY <2>2, <2>5
  <2> HIDE DEF P, T
  <2> QED
    BY <1>4, <2>3, <2>5, <2>6
<1>6. P(n)
  <2> n \in 0 .. n
    OBVIOUS
  <2> HIDE DEF P
  <2> QED
    BY <1>5
<1> QED
  BY <1>2, <1>6

-----------------------------------------------------------------------------
(* The names of Services.                                                  *)

\* The place in byNS of the Deployment that the j-th Service selects.
Turn(j, ns, n) == ((j + ns - 1) % n) + 1

\* Two numbers that differ by less than n leave different remainders.
LEMMA RemaindersDiffer ==
    ASSUME NEW a \in Nat, NEW b \in Nat, NEW n \in Nat \ {0}, a < b, b < a + n
    PROVE  a % n # b % n
<1>a. a \div n \in Int /\ a = n * (a \div n) + (a % n) /\ a % n \in Int
  OBVIOUS
<1>b. b \div n \in Int /\ b = n * (b \div n) + (b % n)
  OBVIOUS
<1> SUFFICES ASSUME a % n = b % n PROVE FALSE
  OBVIOUS
<1> PICK r \in Int : r = a % n
  BY <1>a
<1> PICK p \in Int : p = a \div n
  BY <1>a
<1> PICK q \in Int : q = b \div n
  BY <1>b
<1>1. a = n * p + r /\ b = n * q + r
  BY <1>a, <1>b
<1> PICK k \in Int : k = q - p
  OBVIOUS
<1>2. n * k = n * q - n * p
  OBVIOUS
<1>3. 0 < n * k /\ n * k < n
  BY <1>1, <1>2
<1>4. CASE k <= 0
  <2>1. n * k <= 0
    BY <1>4
  <2> QED
    BY <1>3, <2>1
<1>5. CASE k >= 1
  <2>1. n * k >= n
    BY <1>5
  <2> QED
    BY <1>3, <2>1
<1> QED
  BY <1>4, <1>5

\* The turns of a round are places in byNS, all different.
LEMMA TurnsDiffer ==
    ASSUME NEW ns \in Nat \ {0}, NEW n \in Nat \ {0}, NEW i \in Nat, NEW j \in Nat, i < j
    PROVE  Turn(j, ns, n) \in 1 .. n /\ (j < n => Turn(i, ns, n) # Turn(j, ns, n))
<1> PICK a \in Nat : a = i + ns - 1
  OBVIOUS
<1> PICK b \in Nat : b = j + ns - 1
  OBVIOUS
<1>1. b % n \in 0 .. n - 1 /\ a % n \in 0 .. n - 1
  OBVIOUS
<1>2. Turn(j, ns, n) = (b % n) + 1 /\ Turn(i, ns, n) = (a % n) + 1
  BY DEF Turn
<1>3. j < n => a % n # b % n
  <2> SUFFICES ASSUME j < n PROVE a % n # b % n
    OBVIOUS
  <2>1. a < b /\ b < a + n
    OBVIOUS
  <2> QED
    BY <2>1, RemaindersDiffer
<1> QED
  BY <1>1, <1>2, <1>3

\* The place of a Service is one in byNS.
LEMMA TurnIsPlace ==
    ASSUME NEW ns \in Nat \ {0}, NEW n \in Nat \ {0}, NEW j \in Nat
    PROVE  Turn(j, ns, n) \in 1 .. n
<1> PICK b \in Nat : b = j + ns - 1
  OBVIOUS
<1>1. b % n \in 0 .. n - 1
  OBVIOUS
<1> QED
  BY <1>1 DEF Turn

\* A name that the i-th Service of a namespace gives to something.
EndsIn(name, i) == \E x \in Names : name = Append(x, i)

\* The Services before the j-th took names of Deployments in turn, and then names
\* that end in their number.
Taken(l, ns, j, name) ==
    \E i \in 0 .. j - 1 : IF i < Len(l) THEN name = l[Turn(i, ns, Len(l))].name
                          ELSE EndsIn(name, i)

\* A name with a number behind it is one.
LEMMA AppendIsName ==
    ASSUME NEW x \in Names, NEW j \in Nat, NEW name, name = Append(x, j)
    PROVE  /\ name \in Names /\ Len(name) = Len(x) + 1 /\ EndsIn(name, j)
           /\ name[Len(name)] = j
<1>1. j \in Parts
  BY DEF Parts
<1>2. x \in Seq(Parts)
  BY DEF Names
<1>3. name \in Seq(Parts) /\ Len(name) = Len(x) + 1 /\ name[Len(name)] = j
  BY <1>1, <1>2
<1> QED
  BY <1>3 DEF Names, EndsIn

\* The same, of a name that is said to be one with a number behind it.
LEMMA LongerIsName ==
    ASSUME NEW x \in Names, NEW j \in Nat, NEW name, IsAppend(name, x, j),
           NEW m, m = Len(x)
    PROVE  m \in Nat /\ name \in Names /\ Len(name) = m + 1 /\ EndsIn(name, j)
<1>1. name = Append(x, j)
  BY DEF IsAppend
<1>2. name \in Names /\ Len(name) = Len(x) + 1 /\ EndsIn(name, j)
  BY <1>1, AppendIsName
<1>3. Len(x) \in Nat
  BY DEF Names
<1> QED
  BY <1>2, <1>3

\* The short name of a Deployment with a number behind it twice is long.
LEMMA TwiceLonger ==
    ASSUME NEW e \in Names, NEW j \in Nat, NEW m, m = Len(e), m \in {1, 2},
           NEW y \in Names, IsAppend(y, e, j), NEW name, IsAppend(name, y, j)
    PROVE  EndsIn(name, j) /\ Len(name) \notin {1, 2}
<1> PICK o : o = Len(y)
  OBVIOUS
<1> PICK h : h = Len(name)
  OBVIOUS
<1>1. o = m + 1
  BY LongerIsName
<1>2. h = o + 1 /\ EndsIn(name, j)
  BY LongerIsName
<1>3. h \notin {1, 2}
  BY <1>1, <1>2
<1> QED
  BY <1>2, <1>3

\* Names that end in two numbers are two.
LEMMA EndsInDiffer ==
    ASSUME NEW x \in Names, NEW i \in Nat, NEW j \in Nat, i # j, NEW name, name = Append(x, j)
    PROVE  ~ EndsIn(name, i)
<1>1. name[Len(name)] = j
  BY AppendIsName
<1>2. EndsIn(name, i) => name[Len(name)] = i
  BY AppendIsName DEF EndsIn
<1> QED
  BY <1>1, <1>2

\* In its first round a Service finds the name of its Deployment free.
LEMMA FirstRoundFree ==
    ASSUME NEW l, Len(l) \in Nat, NEW ns \in Nat \ {0}, NEW j \in Nat, j < Len(l),
           \A k, m \in 1 .. Len(l) : l[k].name = l[m].name => k = m
    PROVE  ~ Taken(l, ns, j, l[Turn(j, ns, Len(l))].name)
<1> PICK n \in Nat \ {0} : n = Len(l)
  OBVIOUS
<1> SUFFICES ASSUME NEW i \in 0 .. j - 1,
                    l[Turn(j, ns, n)].name = l[Turn(i, ns, n)].name
             PROVE  FALSE
  <2>1. \A i \in 0 .. j - 1 : i < n
    OBVIOUS
  <2> QED
    BY <2>1 DEF Taken
<1>1. i \in Nat /\ i < j
  OBVIOUS
<1>2. Turn(j, ns, n) \in 1 .. n /\ Turn(i, ns, n) \in 1 .. n
  BY <1>1, TurnIsPlace
<1>3. Turn(i, ns, n) # Turn(j, ns, n)
  BY <1>1, TurnsDiffer
<1> QED
  BY <1>2, <1>3

\* After it, a name that ends in the number of the Service and is not that of a
\* Deployment is free.
LEMMA LaterFree ==
    ASSUME NEW l, Len(l) \in Nat, NEW ns \in Nat \ {0}, NEW j \in Nat, NEW x \in Names,
           NEW name, name = Append(x, j), \A k \in 1 .. Len(l) : l[k].name # name
    PROVE  ~ Taken(l, ns, j, name)
<1> PICK n \in Nat : n = Len(l)
  OBVIOUS
<1> SUFFICES ASSUME NEW i \in 0 .. j - 1,
                    IF i < n THEN name = l[Turn(i, ns, n)].name ELSE EndsIn(name, i)
             PROVE  FALSE
  BY DEF Taken
<1>1. i \in Nat /\ i # j
  OBVIOUS
<1>2. CASE i < n
  <2>1. n \in Nat \ {0}
    BY <1>2
  <2>2. Turn(i, ns, n) \in 1 .. n
    BY <1>1, <2>1, TurnIsPlace
  <2> QED
    BY <1>2, <2>2
<1>3. CASE ~ (i < n)
  BY <1>1, <1>3, EndsInDiffer
<1> QED
  BY <1>2, <1>3

\* What was taken is taken, and the name of the j-th too.
LEMMA TakenMore ==
    ASSUME NEW l, NEW ns, NEW j \in Nat, NEW name,
           \/ Taken(l, ns, j, name)
           \/ IF j < Len(l) THEN name = l[Turn(j, ns, Len(l))].name ELSE EndsIn(name, j)
    PROVE  Taken(l, ns, j + 1, name)
<1>1. 0 .. j - 1 \subseteq 0 .. (j + 1) - 1 /\ j \in 0 .. (j + 1) - 1
  OBVIOUS
<1> QED
  BY <1>1 DEF Taken

\* The names of Deployments are short.
Short(l) == \A k \in 1 .. Len(l) : l[k].name \in Names /\ Len(l[k].name) \in {1, 2}

\* What byNS holds has the names of Deployments.
LEMMA LocalIsShort ==
    ASSUME NEW ds \in Seq(Deployments), Numbered(ds), NEW ns, NEW l, LocalTo(l, ds, ns, Len(ds))
    PROVE  Short(l)
<1> SUFFICES ASSUME NEW k \in 1 .. Len(l)
             PROVE  l[k].name \in Names /\ Len(l[k].name) \in {1, 2}
  BY DEF Short
<1>1. PICK i \in 1 .. Len(ds) : l[k] = ds[i]
  BY DEF LocalTo
<1>2. ds[i].name[1] \in Apps /\ ds[i].name = NameFor(ds[i].name[1], Cardinality(Earlier(ds, i)))
  BY <1>1 DEF Numbered
<1>3. Cardinality(Earlier(ds, i)) \in Nat
  BY <1>1, EarlierFinite
<1> QED
  BY <1>1, <1>2, <1>3, NameForIsName

\* A word with a number behind it.
LEMMA PairIsAppend ==
    ASSUME NEW a, NEW b
    PROVE  Append(<<a>>, b) = <<a, b>>
<1> DEFINE S == {a, b}
<1>1. <<a>> \in Seq(S) /\ <<a, b>> \in Seq(S) /\ Len(<<a>>) = 1 /\ <<a>>[1] = a
  OBVIOUS
<1>2. PICK p : p = Append(<<a>>, b)
  OBVIOUS
<1>3. p \in Seq(S) /\ Len(p) = 2 /\ p[1] = a /\ p[2] = b
  BY <1>1, <1>2
<1>4. PICK q : q = <<a, b>>
  OBVIOUS
<1>5. q \in Seq(S) /\ Len(q) = 2 /\ q[1] = a /\ q[2] = b
  BY <1>1, <1>4
<1>6. \A i \in 1 .. Len(p) : p[i] = q[i]
  BY <1>3, <1>5
<1>7. p = q
  BY <1>3, <1>5, <1>6, SeqEqual
<1> QED
  BY <1>2, <1>4, <1>7

\* The name that the j-th Service would have, and the Deployment it selects.
Wanted(l, ns, j, s) ==
    IF Len(l) = 0 THEN s.name = Append(<<"svc">>, j) /\ s.of = None
    ELSE LET d == l[Turn(j, ns, Len(l))].name
         IN (IF j < Len(l) THEN s.name = d ELSE s.name = Append(d, j)) /\ s.of = d

\* It is what the model calls ServiceOf.
LEMMA ServiceIsWanted ==
    ASSUME NEW ns, NEW j \in Nat, Local(ns) \in Seq(Deployments)
    PROVE  Wanted(Local(ns), ns, j, ServiceOf(ns, j))
<1> PICK l \in Seq(Deployments) : l = Local(ns)
  OBVIOUS
<1>1. l = <<>> <=> Len(l) = 0
  OBVIOUS
<1>2. Append(<<"svc">>, j) = <<"svc", j>>
  BY PairIsAppend
<1>3. CASE Len(l) = 0
  <2>1. ServiceOf(ns, j) = [name |-> <<"svc", j>>, of |-> None]
    BY <1>1, <1>3 DEF ServiceOf
  <2> QED
    BY <1>2, <1>3, <2>1 DEF Wanted
<1>4. CASE Len(l) # 0
  <2> PICK d : d = l[Turn(j, ns, Len(l))].name
    OBVIOUS
  <2>1. ServiceOf(ns, j) = [name |-> IF j >= Len(l) THEN Append(d, j) ELSE d, of |-> d]
    BY <1>1, <1>4 DEF ServiceOf, Turn
  <2> QED
    BY <1>4, <2>1 DEF Wanted
<1> QED
  BY <1>3, <1>4

\* Where the name a Service would have is taken, the one it gets instead is not,
\* and either is its turn's.
LEMMA NextIsFree ==
    ASSUME NEW l \in Seq(Deployments), Short(l),
           \A k, m \in 1 .. Len(l) : l[k].name = l[m].name => k = m,
           NEW ns \in Nat \ {0}, NEW j \in Nat, NEW s, Wanted(l, ns, j, s),
           NEW name, name = s.name \/ (Taken(l, ns, j, s.name) /\ name = Append(s.name, j))
    PROVE  /\ IF j < Len(l) THEN name = l[Turn(j, ns, Len(l))].name ELSE EndsIn(name, j)
           /\ Taken(l, ns, j, s.name) /\ name = Append(s.name, j) => ~ Taken(l, ns, j, name)
<1> PICK n \in Nat : n = Len(l)
  OBVIOUS
<1> PICK y : y = s.name
  OBVIOUS
<1>n. IF n = 0 THEN y = Append(<<"svc">>, j)
      ELSE IF j < n THEN y = l[Turn(j, ns, n)].name
      ELSE y = Append(l[Turn(j, ns, n)].name, j)
  BY DEF Wanted
<1>1. CASE n = 0
  <2>1. <<"svc">> \in Names
    BY DEF Names, Parts
  <2> PICK x \in Names : x = <<"svc">>
    BY <2>1
  <2>2. y = Append(x, j)
    BY <1>1, <1>n
  <2>3. \A k \in 1 .. Len(l) : l[k].name # y
    BY <1>1
  <2>4. ~ Taken(l, ns, j, y)
    BY <2>2, <2>3, LaterFree
  <2>5. EndsIn(y, j)
    BY <2>2, AppendIsName
  <2>6. name = y /\ ~ (j < Len(l))
    BY <1>1, <2>4
  <2> QED
    BY <2>5, <2>6
<1>2. CASE n # 0 /\ j < n
  <2>1. y = l[Turn(j, ns, n)].name
    BY <1>2, <1>n
  <2>2. ~ Taken(l, ns, j, y)
    BY <1>2, <2>1, FirstRoundFree
  <2>3. name = y /\ j < Len(l)
    BY <1>2, <2>2
  <2> QED
    BY <2>1, <2>3
<1>3. CASE n # 0 /\ ~ (j < n)
  <2> PICK d : d = l[Turn(j, ns, n)].name
    OBVIOUS
  <2>1. d \in Names /\ Len(d) \in {1, 2}
    <3>1. Turn(j, ns, n) \in 1 .. n
      BY <1>3, TurnIsPlace
    <3> QED
      BY <3>1 DEF Short
  <2>2. y = Append(d, j)
    BY <1>3, <1>n
  <2> PICK e \in Names : e = d
    BY <2>1
  <2> PICK m : m = Len(e)
    OBVIOUS
  <2>a. IsAppend(y, e, j) /\ m \in {1, 2}
    BY <2>1, <2>2 DEF IsAppend
  <2>3. y \in Names /\ Len(y) = m + 1 /\ EndsIn(y, j)
    BY <2>a, LongerIsName
  <2>4. CASE name = y /\ name # Append(y, j)
    BY <1>3, <2>3, <2>4
  <2>5. CASE name = Append(y, j)
    <3>0. IsAppend(name, y, j)
      BY <2>5 DEF IsAppend
    <3>1. EndsIn(name, j) /\ Len(name) \notin {1, 2}
      BY <2>3, <2>a, <3>0, TwiceLonger
    <3>2. \A k \in 1 .. Len(l) : l[k].name # name
      BY <3>1 DEF Short
    <3>3. ~ Taken(l, ns, j, name)
      BY <2>3, <2>5, <3>2, LaterFree
    <3> QED
      BY <1>3, <3>1, <3>3
  <2> QED
    BY <2>4, <2>5
<1> QED
  BY <1>1, <1>2, <1>3

-----------------------------------------------------------------------------
(* The names that Build draws.                                             *)

\* The Services of the namespaces up to ns, j of them in ns, where ds are the
\* Deployments: each took its turn's name or one that ends in its number.
Served(ss, ds, ns, j) ==
    /\ IsFiniteSet(ss)
    /\ \A s \in ss : s.ns \in Nat /\ s.ns <= ns
    /\ Cardinality({s \in ss : s.ns = ns}) = j
    /\ \A s \in ss : s.of # None => \E i \in DOMAIN ds : ds[i].ns = s.ns /\ ds[i].name = s.of
    /\ \A s \in ss : s.ns = ns => Taken(LocalOf(ds, ns), ns, j, s.name)

\* What Build knows of names, stage by stage.
NamesInv ==
    /\ deploys \in Seq(Deployments) /\ Numbered(deploys)
    /\ at \in [ns : Nat \ {0}, want : Nat, j : Nat]
    /\ stage \in {"resolve", "resolved", "split"} => deploys = <<>>
    /\ stage \in {"resolve", "resolved", "split", "deploy"} => services = {}
    /\ stage = "deploy" => order \in [1 .. cfg.namespaces -> 1 .. cfg.namespaces]
    /\ stage = "services" => Served(services, deploys, at.ns, at.j)

\* Nothing has been drawn yet.
LEMMA NoneServed ==
    ASSUME NEW ss, NEW ds, NEW ns \in Nat, NEW old, NEW k, Served(ss, ds, old, k) \/ ss = {},
           ss # {} => old \in Nat /\ old < ns
    PROVE  Served(ss, ds, ns, 0)
<1>1. CASE ss = {}
  <2>1. {s \in ss : s.ns = ns} = {}
    BY <1>1
  <2> QED
    BY <1>1, <2>1, FS_EmptySet DEF Served
<1>2. CASE ss # {}
  <2>1. /\ IsFiniteSet(ss) /\ \A s \in ss : s.ns \in Nat /\ s.ns <= old
        /\ \A s \in ss : s.of # None => \E i \in DOMAIN ds : ds[i].ns = s.ns /\ ds[i].name = s.of
    BY <1>2 DEF Served
  <2>2. \A s \in ss : s.ns <= ns /\ s.ns # ns
    BY <1>2, <2>1
  <2>3. {s \in ss : s.ns = ns} = {}
    BY <2>2
  <2> QED
    BY <2>1, <2>2, <2>3, FS_EmptySet DEF Served
<1> QED
  BY <1>1, <1>2

\* A Service of ns joins others: its name is free, and it selects a Deployment.
Joins(s, ss, ds, ns, r) ==
    /\ s.ns = ns /\ \A x \in ss : ~ (x.ns = ns /\ x.name = s.name)
    /\ s.of # None => \E i \in DOMAIN ds : ds[i].ns = s.ns /\ ds[i].name = s.of
    /\ r = ss \cup {s}

\* One more Service in ns, under the name of its turn.
LEMMA ServedMore ==
    ASSUME NEW ss, NEW ds, NEW ns \in Nat, NEW j \in Nat, Served(ss, ds, ns, j),
           NEW s, NEW r, Joins(s, ss, ds, ns, r),
           NEW k, k = j + 1, Taken(LocalOf(ds, ns), ns, k, s.name)
    PROVE  Served(r, ds, ns, k)
<1>j. /\ s.ns = ns /\ \A x \in ss : ~ (x.ns = ns /\ x.name = s.name)
      /\ s.of # None => \E i \in DOMAIN ds : ds[i].ns = s.ns /\ ds[i].name = s.of
      /\ r = ss \cup {s}
  BY DEF Joins
<1> DEFINE here == {x \in ss : x.ns = ns}
<1> PICK l : l = LocalOf(ds, ns)
  OBVIOUS
<1>1. /\ IsFiniteSet(ss) /\ \A x \in ss : x.ns \in Nat /\ x.ns <= ns
      /\ Cardinality(here) = j
      /\ \A x \in ss : x.of # None => \E i \in DOMAIN ds : ds[i].ns = x.ns /\ ds[i].name = x.of
      /\ \A x \in ss : x.ns = ns => Taken(l, ns, j, x.name)
  BY DEF Served
<1>2. IsFiniteSet(here) /\ s \notin here
  <2>1. IsFiniteSet(here)
    BY <1>1, FS_Subset
  <2> QED
    BY <1>j, <2>1
<1>3. Cardinality(here \cup {s}) = j + 1
  BY <1>1, <1>2, FS_AddElement
<1>4. {x \in ss \cup {s} : x.ns = ns} = here \cup {s}
  BY <1>j
<1>5. IsFiniteSet(ss \cup {s})
  BY <1>1, FS_AddElement
<1>6. \A x \in ss \cup {s} : x.ns \in Nat /\ x.ns <= ns
  BY <1>1, <1>j
<1>7. \A x \in ss \cup {s} :
         x.of # None => \E i \in DOMAIN ds : ds[i].ns = x.ns /\ ds[i].name = x.of
  BY <1>1, <1>j
<1>8. ASSUME NEW x \in ss \cup {s}, x.ns = ns
      PROVE  Taken(l, ns, j + 1, x.name)
  <2>1. CASE x = s
    BY <2>1
  <2>2. CASE x # s
    <3>1. Taken(l, ns, j, x.name)
      BY <1>1, <1>8, <2>2
    <3> QED
      BY <3>1, TakenMore
  <2> QED
    BY <2>1, <2>2
<1> HIDE DEF here
<1>9. Cardinality({x \in ss \cup {s} : x.ns = ns}) = j + 1
  BY <1>3, <1>4
<1> QED
  BY <1>j, <1>5, <1>6, <1>7, <1>8, <1>9 DEF Served

\* The byNS of a namespace, when it is made of numbered Deployments.
LEMMA LocalIsGood ==
    ASSUME NamesInv, NEW ns, NEW l, l = Local(ns)
    PROVE  /\ l = LocalOf(deploys, ns) /\ l \in Seq(Deployments) /\ Short(l)
           /\ LocalTo(l, deploys, ns, Len(deploys))
           /\ \A k, m \in 1 .. Len(l) : l[k].name = l[m].name => k = m
<1>1. deploys \in Seq(Deployments) /\ Numbered(deploys) /\ Len(deploys) \in Nat
  BY DEF NamesInv
<1>2. l = LocalOf(deploys, ns)
  BY LocalIs
<1>3. LocalTo(l, deploys, ns, Len(deploys))
  BY <1>1, <1>2, NumberedDistinct, LocalHolds
<1>4. Short(l)
  BY <1>1, <1>3, LocalIsShort
<1> QED
  BY <1>2, <1>3, <1>4 DEF LocalTo

\* A Deployment is made under a name of its own.
LEMMA AddDeploymentNames ==
    ASSUME CfgInv, NamesInv, AddDeployment
    PROVE  NamesInv'
<1> PICK m \in Nat \ {0} : m = cfg.namespaces
  BY CfgMax
<1>1. order \in [1 .. m -> 1 .. m] /\ stage = "deploy"
  BY DEF NamesInv, AddDeployment
<1>2. Len(order) = m
  <2>1. order \in Seq(1 .. m)
    BY <1>1
  <2> QED
    BY <1>1, <2>1
<1> PICK n \in Nat : n = Len(deploys)
  BY DEF NamesInv
<1> PICK ns : ns = order[(n % m) + 1]
  OBVIOUS
<1>3. ns \in Nat
  <2>1. (n % m) + 1 \in 1 .. m
    OBVIOUS
  <2> QED
    BY <1>1, <2>1
<1>4. PICK app \in Apps : deploys' = Append(deploys, [ns |-> ns, name |-> DeployName(ns, app)])
  BY <1>2 DEF AddDeployment
<1> PICK used : used = {k \in DOMAIN deploys : deploys[k].ns = ns /\ deploys[k].name[1] = app}
  OBVIOUS
<1>5. DeployName(ns, app) = NameFor(app, Cardinality(used))
  BY DEF DeployName, NameFor
<1> PICK d : d = [ns |-> ns, name |-> NameFor(app, Cardinality(used))]
  OBVIOUS
<1>6. deploys' = Append(deploys, d)
  BY <1>4, <1>5
<1>7. deploys' \in Seq(Deployments) /\ Numbered(deploys')
  BY <1>3, <1>6, NumberedMore DEF NamesInv
<1>8. UNCHANGED <<stage, cfg, order, services, at>>
  BY DEF AddDeployment, cfgVars
<1> QED
  BY <1>1, <1>7, <1>8 DEF NamesInv

\* A Service is made under a name of its own, for a Deployment there is.
LEMMA AddServiceNames ==
    ASSUME NamesInv, AddService
    PROVE  NamesInv'
<1>0. /\ stage = "services" /\ at \in [ns : Nat \ {0}, want : Nat, j : Nat]
      /\ Served(services, deploys, at.ns, at.j)
  BY DEF NamesInv, AddService
<1> PICK ns \in Nat \ {0} : ns = at.ns
  BY <1>0
<1> PICK j \in Nat : j = at.j
  BY <1>0
<1> PICK l : l = Local(ns)
  OBVIOUS
<1>1. /\ l = LocalOf(deploys, ns) /\ l \in Seq(Deployments) /\ Short(l)
      /\ LocalTo(l, deploys, ns, Len(deploys))
      /\ \A k, m \in 1 .. Len(l) : l[k].name = l[m].name => k = m
  BY LocalIsGood
<1> PICK w : w = ServiceOf(ns, j)
  OBVIOUS
<1>2. Wanted(l, ns, j, w)
  BY <1>1, ServiceIsWanted
<1> PICK name : name = FreeName(ns, j, w.name)
  OBVIOUS
<1> PICK s : s = [ns |-> ns, name |-> name, of |-> w.of]
  OBVIOUS
<1>3. /\ services' = {x \in services : ~ (x.ns = ns /\ x.name = name)} \cup {s}
      /\ at' = [at EXCEPT !.j = @ + 1]
      /\ UNCHANGED <<stage, cfg, order, deploys>>
  BY DEF AddService, cfgVars
<1>4. \A x \in services : x.ns = ns => Taken(l, ns, j, x.name)
  BY <1>0, <1>1 DEF Served
<1>5. \/ name = w.name /\ ~ HasService(ns, name)
      \/ name = Append(w.name, j) /\ HasService(ns, w.name)
  BY DEF FreeName
<1>6. HasService(ns, w.name) => Taken(l, ns, j, w.name)
  BY <1>4 DEF HasService
<1>7. /\ IF j < Len(l) THEN name = l[Turn(j, ns, Len(l))].name ELSE EndsIn(name, j)
      /\ Taken(l, ns, j, w.name) /\ name = Append(w.name, j) => ~ Taken(l, ns, j, name)
  BY <1>1, <1>2, <1>5, <1>6, NextIsFree
<1>8. \A x \in services : ~ (x.ns = ns /\ x.name = name)
  <2>1. CASE name = w.name /\ ~ HasService(ns, name)
    BY <2>1 DEF HasService
  <2>2. CASE name = Append(w.name, j) /\ HasService(ns, w.name)
    BY <1>4, <1>6, <1>7, <2>2
  <2> QED
    BY <1>5, <2>1, <2>2
<1>9. services' = services \cup {s}
  BY <1>3, <1>8
<1>10. Taken(l, ns, j + 1, name)
  BY <1>7, TakenMore
<1>11. w.of # None => \E i \in DOMAIN deploys : deploys[i].ns = ns /\ deploys[i].name = w.of
  <2>1. CASE Len(l) = 0
    BY <1>2, <2>1 DEF Wanted
  <2>2. CASE Len(l) # 0
    <3> PICK n \in Nat \ {0} : n = Len(l)
      BY <1>1, <2>2
    <3>1. Turn(j, ns, n) \in 1 .. n
      BY TurnIsPlace
    <3>2. w.of = l[Turn(j, ns, n)].name
      BY <1>2, <2>2 DEF Wanted
    <3>3. PICK i \in 1 .. Len(deploys) : l[Turn(j, ns, n)] = deploys[i] /\ deploys[i].ns = ns
      BY <1>1, <3>1 DEF LocalTo
    <3>4. i \in DOMAIN deploys
      BY <3>3 DEF NamesInv
    <3> QED
      BY <3>2, <3>3, <3>4
  <2> QED
    BY <2>1, <2>2
<1>12. Served(services', deploys, ns, j + 1)
  <2>1. s.ns = ns /\ s.name = name /\ s.of = w.of
    OBVIOUS
  <2> PICK r : r = services'
    OBVIOUS
  <2> PICK k : k = j + 1
    OBVIOUS
  <2>2. \A x \in services : ~ (x.ns = ns /\ x.name = s.name)
    BY <1>8, <2>1
  <2>3. s.of # None => \E i \in DOMAIN deploys : deploys[i].ns = s.ns /\ deploys[i].name = s.of
    BY <1>11, <2>1
  <2>4. Taken(LocalOf(deploys, ns), ns, k, s.name)
    BY <1>1, <1>10, <2>1
  <2>5. Served(services, deploys, ns, j)
    BY <1>0
  <2>6. r = services \cup {s}
    BY <1>9
  <2>7. Joins(s, services, deploys, ns, r)
    BY <2>1, <2>2, <2>3, <2>6 DEF Joins
  <2>8. Served(r, deploys, ns, k)
    BY <2>4, <2>5, <2>7, ServedMore
  <2> QED
    BY <2>8
<1>13. at'.ns = ns /\ at'.j = j + 1 /\ at' \in [ns : Nat \ {0}, want : Nat, j : Nat]
  BY <1>0, <1>3
<1> QED
  BY <1>0, <1>3, <1>12, <1>13 DEF NamesInv

\* The next namespace has no Service yet; after the last, names are forgotten.
LEMMA EndServicesNames ==
    ASSUME NamesInv, EndServices
    PROVE  NamesInv'
<1>0. /\ stage = "services" /\ at \in [ns : Nat \ {0}, want : Nat, j : Nat]
      /\ Served(services, deploys, at.ns, at.j)
  BY DEF NamesInv, EndServices
<1>1. ASSUME NEW want \in 0 .. MaxServices, at' = [ns |-> at.ns + 1, want |-> want, j |-> 0],
             UNCHANGED <<stage, deploys, services>>
      PROVE  NamesInv'
  <2>1. at' \in [ns : Nat \ {0}, want : Nat, j : Nat] /\ at'.ns = at.ns + 1 /\ at'.j = 0
    BY <1>0, <1>1, StartupAssumption
  <2>2. at.ns \in Nat /\ at.ns + 1 \in Nat /\ at.ns < at.ns + 1
    BY <1>0
  <2>3. Served(services, deploys, at.ns + 1, 0)
    BY <1>0, <2>2, NoneServed
  <2> QED
    BY <1>0, <1>1, <2>1, <2>3 DEF NamesInv
<1>2. ASSUME at' = [ns |-> 1, want |-> 0, j |-> 0], deploys' = None, stage' = "seed"
      PROVE  NamesInv'
  <2>1. at' \in [ns : Nat \ {0}, want : Nat, j : Nat]
    BY <1>2
  <2>2. deploys' = <<>> /\ deploys' \in Seq(Deployments) /\ Numbered(deploys')
    BY <1>2 DEF None, Numbered
  <2> QED
    BY <1>2, <2>1, <2>2 DEF NamesInv
<1> QED
  BY <1>1, <1>2 DEF EndServices

\* The shuffle orders the namespaces there are, and the first has no Service yet.
LEMMA StepNames ==
    ASSUME CfgInv, NamesInv, Next
    PROVE  NamesInv'
<1>1. ASSUME ResolveScenario \/ Distribute PROVE NamesInv'
  BY <1>1 DEF NamesInv, ResolveScenario, Distribute, buildVars
<1>2. ASSUME Shuffle PROVE NamesInv'
  <2>1. cfg'.namespaces = cfg.namespaces
    <3>1. "namespaces" \in Fields
      BY DEF Fields
    <3> QED
      BY <1>2, <3>1 DEF Shuffle
  <2> QED
    BY <1>2, <2>1 DEF NamesInv, Shuffle
<1>3. ASSUME EndDeployments PROVE NamesInv'
  <2>1. PICK want \in 0 .. MaxServices : at' = [ns |-> 1, want |-> want, j |-> 0]
    BY <1>3 DEF EndDeployments
  <2>2. at' \in [ns : Nat \ {0}, want : Nat, j : Nat] /\ at'.ns = 1 /\ at'.j = 0
    BY <2>1, StartupAssumption
  <2>3. services = {}
    BY <1>3 DEF EndDeployments, NamesInv
  <2>4. Served(services, deploys, 1, 0)
    BY <2>3, NoneServed
  <2> QED
    BY <1>3, <2>2, <2>4 DEF EndDeployments, NamesInv
<1>4. ASSUME UNCHANGED <<deploys, at>>, stage' \in {"seed", "serve"} PROVE NamesInv'
  BY <1>4 DEF NamesInv
<1>5. SeedEvent \/ Seal \/ RecordEvent \/ BackgroundEvents \/ LoseDeployments \/ ClientDelete
          => UNCHANGED <<deploys, at>> /\ stage' \in {"seed", "serve"}
  BY DEF SeedEvent, Seal, RecordEvent, BackgroundEvents, LoseDeployments, ClientDelete, buildVars
<1> QED
  BY <1>1, <1>2, <1>3, <1>4, <1>5, AddDeploymentNames, AddServiceNames, EndServicesNames DEF Next

\* Whatever is drawn, no name is drawn twice in a namespace, and a Service selects
\* a Deployment there is (generate.go:308-316, 691-731).
THEOREM NamesHold == Spec => []NamesAreDistinct
<1>1. Init => NamesInv
  BY DEF Init, NamesInv, None, Numbered
<1>2. ServeInv /\ NamesInv /\ [Next]_vars => NamesInv'
  <2> SUFFICES ASSUME ServeInv, NamesInv, [Next]_vars PROVE NamesInv'
    OBVIOUS
  <2>1. CASE Next
    BY <2>1, StepNames DEF ServeInv
  <2>2. CASE UNCHANGED vars
    BY <2>2 DEF NamesInv, vars, cfgVars, buildVars
  <2> QED
    BY <2>1, <2>2
<1>3. NamesInv => NamesAreDistinct
  <2> SUFFICES ASSUME NamesInv PROVE NamesAreDistinct
    OBVIOUS
  <2>1. deploys \in Seq(Deployments) /\ Numbered(deploys)
    BY DEF NamesInv
  <2>2. Distinct(deploys) /\ DOMAIN deploys = 1 .. Len(deploys)
    BY <2>1, NumberedDistinct
  <2>3. DeploymentsAreDistinct
    BY <2>2 DEF Distinct, DeploymentsAreDistinct
  <2>4. ServicesAreDistinct
    BY DEF NamesInv, Served, ServicesAreDistinct
  <2> QED
    BY <2>3, <2>4 DEF NamesAreDistinct
<1> QED
  BY <1>1, <1>2, <1>3, AlwaysServe, PTL DEF Spec

-----------------------------------------------------------------------------
(* The pods of a scenario.                                                 *)

\* The budget is a number, and so is how many Deployments there are to share it.
LEMMA BudgetIsInt ==
    ASSUME CfgInv
    PROVE  /\ Budget \in Int /\ cfg.deployments \in Nat \ {0}
           /\ cfg.lo \in Int /\ cfg.hi \in Int /\ cfg.lo <= cfg.hi
<1>1. cfg \in [Fields -> Int] /\ Clamped(cfg)
  BY DEF CfgInv
<1>2. /\ cfg.lo \in Int /\ cfg.hi \in Int /\ cfg.deployments \in Int /\ cfg.pods \in Int
  BY <1>1, FieldsAreInts
<1> PICK v \in Int : v = cfg.lo + cfg.hi
  BY <1>2
<1>3. Half(v) \in Int
  BY DEF Half
<1>4. Budget \in Int
  <2>1. Half(v) * cfg.deployments \in Int
    BY <1>2, <1>3
  <2> QED
    BY <1>2, <2>1 DEF Budget, TotalPods
<1> QED
  BY <1>1, <1>2, <1>4 DEF Clamped

\* distribute gives out the budget, or keeps what was drawn.
LEMMA DistributeSpends ==
    ASSUME CfgInv, Distribute
    PROVE  BudgetIsSpent'
<1> PICK n \in Nat \ {0} : n = cfg.deployments
  BY BudgetIsInt
<1> PICK total \in Int : total = Budget
  BY BudgetIsInt
<1> PICK drawn \in [1 .. n -> Between(cfg.lo, cfg.hi)] :
        IF Budget > 0
        THEN /\ weights' = [i \in DOMAIN drawn |-> AtLeast(1, drawn[i])]
             /\ replicas' = Split(Budget, weights')
        ELSE weights' = None /\ replicas' = drawn
  BY DEF Distribute
<1>1. cfg.lo \in Int /\ cfg.hi \in Int /\ Between(cfg.lo, cfg.hi) = cfg.lo .. cfg.hi
  <2> PICK lo \in Int : lo = cfg.lo
    BY BudgetIsInt
  <2> PICK hi \in Int : hi = cfg.hi
    BY BudgetIsInt
  <2>1. lo <= hi
    BY BudgetIsInt
  <2>2. CASE lo = hi
    <3>1. lo .. hi = {lo}
      BY <2>2
    <3> QED
      BY <2>2, <3>1 DEF Between
  <2>3. CASE lo # hi
    <3>1. ~ (hi <= lo)
      BY <2>1, <2>3
    <3> QED
      BY <3>1 DEF Between
  <2> QED
    BY <2>2, <2>3
<1>2. cfg' = cfg /\ Budget' = total
  BY DEF Distribute, Budget
<1>3. CASE total > 0
  <2>1. total \in Nat
    BY <1>3
  <2> PICK w : w = weights'
    OBVIOUS
  <2>2. w \in [1 .. n -> Nat \ {0}]
    <3>1. \A i \in 1 .. n : drawn[i] \in Int
      BY <1>1
    <3>2. w = [i \in 1 .. n |-> AtLeast(1, drawn[i])]
      BY <1>3
    <3> QED
      BY <3>1, <3>2 DEF AtLeast
  <2> PICK r : r = replicas'
    OBVIOUS
  <2>3. Spent(r, total, w, SumSeq(w), n)
    <3>1. r = Split(total, w)
      BY <1>3
    <3> QED
      BY <2>1, <2>2, <3>1, SplitSpends
  <2>4. /\ SumSeq(r) = total
        /\ \A i \in DOMAIN r : IsNear(r[i], total * w[i], SumSeq(w))
    BY <2>3 DEF Spent, Near
  <2> QED
    BY <1>2, <1>3, <2>4 DEF BudgetIsSpent, IsNear
<1>4. CASE ~ (total > 0)
  <2>1. replicas' = drawn
    BY <1>4
  <2> QED
    BY <1>1, <1>2, <1>4, <2>1 DEF BudgetIsSpent
<1> QED
  BY <1>3, <1>4

\* Whatever the budget, the range and the weights that are drawn, every pod of it is
\* given out, each Deployment gets its share give or take one, and none less than
\* nothing (generate.go:329).  That share may lie outside the replica range.
THEOREM BudgetIsAlwaysSpent == Spec => []BudgetIsSpent
<1>1. Init => BudgetIsSpent
  BY DEF Init, BudgetIsSpent
<1>2. ServeInv /\ BudgetIsSpent /\ [Next]_vars => BudgetIsSpent'
  <2> SUFFICES ASSUME ServeInv, BudgetIsSpent, [Next]_vars PROVE BudgetIsSpent'
    OBVIOUS
  <2>1. CASE Distribute
    BY <2>1, DistributeSpends DEF ServeInv
  <2>2. CASE stage' # "split"
    BY <2>2 DEF BudgetIsSpent
  <2>3. CASE UNCHANGED vars
    BY <2>3 DEF BudgetIsSpent, Budget, vars, cfgVars, buildVars
  <2>4. ResolveScenario \/ Shuffle \/ AddDeployment \/ EndDeployments \/ AddService \/ EndServices
            => stage' # "split"
    BY DEF ResolveScenario, Shuffle, AddDeployment, EndDeployments, AddService, EndServices
  <2>5. SeedEvent \/ Seal \/ RecordEvent \/ BackgroundEvents \/ LoseDeployments \/ ClientDelete
            => stage' # "split"
    BY DEF SeedEvent, Seal, RecordEvent, BackgroundEvents, LoseDeployments, ClientDelete
  <2> QED
    BY <2>1, <2>2, <2>3, <2>4, <2>5 DEF Next
<1> QED
  BY <1>1, <1>2, AlwaysServe, PTL DEF Spec
=============================================================================
