-------------------------- MODULE BandwidthFileProofs --------------------------
(***************************************************************************)
(* Theorems about BandwidthFile, for any relays, lines on disk,            *)
(* consensuses and arguments: which relays are voted on, what the file,    *)
(* its header and the datadir have in common, and what the scaling does.   *)
(***************************************************************************)
EXTENDS BandwidthFile, NaturalsInduction, WellFoundedInduction, FiniteSetTheorems,
        FunctionTheorems, SequenceTheorems, TLAPS

-----------------------------------------------------------------------------
(***************************************************************************)
(* Induction on sets of numbers, for what is computed of a sequence. The   *)
(* theorems of the library on induction are about an operator; these are   *)
(* about a set, that a proof defines.                                      *)
(***************************************************************************)
\* The order of the numbers, as a relation.
LessThan == {p \in Nat \X Nat : p[1] < p[2]}

\* A set of numbers that is not empty has a least one.
LEMMA LeastNumber ==
  ASSUME NEW T \in SUBSET Nat, T # {}
  PROVE  \E x \in T : \A y \in T : x <= y
<1>1. IsWellFoundedOn(LessThan, Nat)
  <2>1. IsWellFoundedOn(OpToRel(<, Nat), Nat)
    BY NatLessThanWellFounded, Zenon
  <2>2. OpToRel(<, Nat) = LessThan
    BY Zenon DEF OpToRel, LessThan
  <2> QED
    BY <2>1, <2>2, Zenon
<1>2. PICK x \in T : \A y \in T : ~(<<y, x>> \in LessThan)
  BY <1>1, WFMin
<1>3. ASSUME NEW y \in T PROVE x <= y
  <2>1. x \in Nat /\ y \in Nat /\ <<y, x>> \in Nat \X Nat
    OBVIOUS
  <2>2. ~(y < x)
    BY <1>2, <2>1 DEF LessThan
  <2> QED
    BY <2>1, <2>2
<1> QED
  BY <1>3

\* A set that has 0, and n + 1 when it has n, has every number.
LEMMA NumbersByInduction ==
  ASSUME NEW T, 0 \in T, \A n \in Nat : n \in T => n + 1 \in T
  PROVE  \A n \in Nat : n \in T
<1> SUFFICES ASSUME Nat \ T # {} PROVE FALSE
  OBVIOUS
<1>1. PICK x \in Nat \ T : \A y \in Nat \ T : x <= y
  BY LeastNumber
<1>2. x # 0 /\ x \in Nat
  OBVIOUS
<1>3. x - 1 \in Nat /\ x - 1 < x /\ x = (x - 1) + 1
  BY <1>2
<1>4. x - 1 \in T
  BY <1>1, <1>3
<1> QED
  BY <1>3, <1>4

\* The steps from a value in S to the next, and that L of them can be made.
Steps(L, S) == [1..L -> [S -> S]]
HasValues(L, S, base, step) ==
  \E f \in [0..L -> S] : f[0] = base /\ \A n \in 1..L : f[n] = step[n][f[n - 1]]

\* A sequence of values, each made of the one before, exists: what a recursive
\* function of the first numbers needs.
LEMMA ValuesByRecursion ==
  ASSUME NEW L \in Nat, NEW S, NEW base \in S, NEW step \in Steps(L, S)
  PROVE  HasValues(L, S, base, step)
<1> USE DEF Steps
<1> DEFINE Values(m, f) == f \in [0..m -> S] /\ f[0] = base /\ \A n \in 1..m : f[n] = step[n][f[n - 1]]
           T == {m \in Nat : m <= L => \E f : Values(m, f)}
<1>1. 0 \in T
  <2>1. Values(0, [n \in 0..0 |-> base])
    OBVIOUS
  <2> HIDE DEF Values
  <2> QED
    BY <2>1
<1>2. ASSUME NEW m \in Nat, m \in T PROVE m + 1 \in T
  <2> SUFFICES ASSUME m + 1 <= L PROVE \E f : Values(m + 1, f)
    OBVIOUS
  <2>1. m <= L
    OBVIOUS
  <2>2. PICK f : Values(m, f)
    BY <1>2, <2>1
  <2> DEFINE g == [n \in 0..m + 1 |-> IF n <= m THEN f[n] ELSE step[m + 1][f[m]]]
  <2>3. m \in 0..m /\ m + 1 \in 1..L /\ f[m] \in S
    BY <2>2
  <2>4. step[m + 1][f[m]] \in S
    BY <2>3
  <2>5. g \in [0..m + 1 -> S]
    <3>1. ASSUME NEW n \in 0..m + 1 PROVE (IF n <= m THEN f[n] ELSE step[m + 1][f[m]]) \in S
      <4>1. CASE n <= m
        <5>1. n \in 0..m
          BY <4>1
        <5> QED
          BY <2>2, <4>1, <5>1
      <4>2. CASE ~(n <= m)
        BY <2>4, <4>2
      <4> QED
        BY <4>1, <4>2
    <3> QED
      BY <3>1
  <2>6. \A n \in 0..m : g[n] = f[n]
    OBVIOUS
  <2>7. g[m + 1] = step[m + 1][f[m]]
    OBVIOUS
  <2> HIDE DEF g
  <2>8. ASSUME NEW n \in 1..m + 1 PROVE g[n] = step[n][g[n - 1]]
    <3>1. CASE n = m + 1
      <4>1. n - 1 = m
        BY <3>1
      <4> QED
        BY <2>3, <2>6, <2>7, <3>1, <4>1
    <3>2. CASE n # m + 1
      <4>1. n \in 1..m /\ n \in 0..m /\ n - 1 \in 0..m
        BY <3>2
      <4> QED
        BY <2>2, <2>6, <4>1
    <3> QED
      BY <3>1, <3>2
  <2>9. g[0] = base
    <3>1. 0 \in 0..m
      OBVIOUS
    <3> QED
      BY <2>2, <2>6, <3>1
  <2> QED
    BY <2>5, <2>8, <2>9
<1>3. L \in T
  <2> HIDE DEF T
  <2> QED
    BY <1>1, <1>2, NumbersByInduction
<1>4. PICK f : Values(L, f)
  BY <1>3
<1> QED
  BY <1>4 DEF HasValues

-----------------------------------------------------------------------------
(***************************************************************************)
(* Numbers.                                                                *)
(***************************************************************************)

\* What a number is, of its quotient and remainder.
LEMMA DivisionSum ==
  ASSUME NEW n \in Nat, NEW d \in Nat, d > 0
  PROVE  n = d * (n \div d) + (n % d)
OBVIOUS

\* What \div and % are, of any divisor.
LEMMA Division ==
  ASSUME NEW n \in Nat, NEW d \in Nat \ {0}
  PROVE  /\ n \div d \in Nat /\ n % d \in Nat /\ n % d < d
         /\ n = d * (n \div d) + (n % d)
<1>1. d \in Nat /\ d > 0
  OBVIOUS
<1>2. n \div d \in Nat
  BY <1>1
<1>3. n % d \in Nat /\ n % d < d
  BY <1>1
<1>4. n = d * (n \div d) + (n % d)
  BY <1>1, DivisionSum, Zenon
<1> QED
  BY <1>2, <1>3, <1>4

\* A product is monotonic.
LEMMA TimesMonotonic ==
  ASSUME NEW a \in Nat, NEW b \in Nat, NEW c \in Nat, a <= b
  PROVE  a * c <= b * c /\ c * a <= c * b /\ a * c \in Nat /\ c * a = a * c
<1>1. b - a \in Nat
  OBVIOUS
<1>2. (b - a) * c \in Nat /\ a * c \in Nat
  BY <1>1
<1>3. b * c = a * c + (b - a) * c
  OBVIOUS
<1>4. a * c <= b * c
  BY <1>2, <1>3
<1>5. c * a = a * c /\ c * b = b * c
  OBVIOUS
<1> QED
  BY <1>2, <1>4, <1>5

\* A product with less is less.
LEMMA TimesLess ==
  ASSUME NEW a \in Nat, NEW b \in Nat, NEW c \in Nat, a * c < b * c
  PROVE  a < b
<1> SUFFICES ASSUME b <= a PROVE FALSE
  OBVIOUS
<1>1. b * c <= a * c
  BY TimesMonotonic
<1>2. b * c \in Nat /\ a * c \in Nat
  OBVIOUS
<1> QED
  BY <1>1, <1>2

\* A fraction is rounded to a number that is less than a half from it.
LEMMA RoundHalf ==
  ASSUME NEW num \in Nat, NEW den \in Nat \ {0}
  PROVE  /\ Round(num, den) \in Nat
         /\ 2 * num <= 2 * (den * Round(num, den)) + den
         /\ 2 * (den * Round(num, den)) <= 2 * num + den
<1> DEFINE low  == num \div den
           rest == num % den
           up   == ~(2 * rest < den \/ (2 * rest = den /\ low % 2 = 0))
<1>1. low \in Nat /\ rest \in Nat /\ rest < den /\ num = den * low + rest
  BY Division
<1>2. Round(num, den) = IF up THEN low + 1 ELSE low
  BY DEF Round
<1> HIDE DEF low, rest
<1>3. den * low \in Nat /\ den * (low + 1) = den * low + den
  BY <1>1
<1>4. CASE up
  <2>1. den <= 2 * rest
    BY <1>1, <1>4
  <2>2. Round(num, den) = low + 1
    BY <1>2, <1>4
  <2> QED
    BY <1>1, <1>3, <2>1, <2>2
<1>5. CASE ~up
  <2>1. 2 * rest <= den
    BY <1>1, <1>5
  <2>2. Round(num, den) = low
    BY <1>2, <1>5
  <2> QED
    BY <1>1, <1>3, <2>1, <2>2
<1> QED
  BY <1>4, <1>5

\* A fraction that is not less than a number is not rounded to less, and one that
\* is not more is not rounded to more.
LEMMA RoundWithin ==
  ASSUME NEW num \in Nat, NEW den \in Nat \ {0}, NEW x \in Nat
  PROVE  /\ den * x <= num => x <= Round(num, den)
         /\ num <= den * x => Round(num, den) <= x
<1> DEFINE low  == num \div den
           rest == num % den
           up   == ~(2 * rest < den \/ (2 * rest = den /\ low % 2 = 0))
<1>1. low \in Nat /\ rest \in Nat /\ rest < den /\ num = den * low + rest
  BY Division
<1>2. Round(num, den) = IF up THEN low + 1 ELSE low
  BY DEF Round
<1> HIDE DEF low, rest
<1>3. den * low \in Nat /\ den * x \in Nat
  BY <1>1
<1>4. ASSUME den * x <= num PROVE x <= low
  <2> SUFFICES ASSUME low + 1 <= x PROVE FALSE
    BY <1>1
  <2>1. den * (low + 1) <= den * x
    BY <1>1, TimesMonotonic
  <2>2. den * (low + 1) = den * low + den
    BY <1>1
  <2> QED
    BY <1>1, <1>3, <1>4, <2>1, <2>2
<1>5. ASSUME num <= den * x PROVE low <= x /\ (rest > 0 => low + 1 <= x)
  <2>1. low <= x
    <3> SUFFICES ASSUME x + 1 <= low PROVE FALSE
      BY <1>1
    <3>1. den * (x + 1) <= den * low
      BY <1>1, TimesMonotonic
    <3>2. den * (x + 1) = den * x + den
      OBVIOUS
    <3> QED
      BY <1>1, <1>3, <1>5, <3>1, <3>2
  <2>2. ASSUME rest > 0 PROVE low # x
    BY <1>1, <1>3, <1>5, <2>2
  <2> QED
    BY <1>1, <2>1, <2>2
<1>6. up => rest > 0
  BY <1>1
<1>7. ASSUME den * x <= num PROVE x <= Round(num, den)
  BY <1>1, <1>2, <1>4, <1>7
<1>8. ASSUME num <= den * x PROVE Round(num, den) <= x
  BY <1>1, <1>2, <1>5, <1>6, <1>8
<1> QED
  BY <1>7, <1>8

\* A larger fraction is not rounded to less.
LEMMA RoundMonotonic ==
  ASSUME NEW m \in Nat, NEW n \in Nat, NEW den \in Nat \ {0}, m <= n
  PROVE  Round(m, den) <= Round(n, den)
<1> DEFINE lm == m \div den
           rm == m % den
           ln == n \div den
           rn == n % den
           mUp == ~(2 * rm < den \/ (2 * rm = den /\ lm % 2 = 0))
           nUp == ~(2 * rn < den \/ (2 * rn = den /\ ln % 2 = 0))
<1>1. lm \in Nat /\ rm \in Nat /\ rm < den /\ m = den * lm + rm
  BY Division
<1>2. ln \in Nat /\ rn \in Nat /\ rn < den /\ n = den * ln + rn
  BY Division
<1>3. Round(m, den) = IF mUp THEN lm + 1 ELSE lm
  BY DEF Round
<1>4. Round(n, den) = IF nUp THEN ln + 1 ELSE ln
  BY DEF Round
<1> HIDE DEF lm, rm, ln, rn
<1>5. den * lm \in Nat /\ den * ln \in Nat
  BY <1>1, <1>2
<1>6. lm <= ln
  <2> SUFFICES ASSUME ln + 1 <= lm PROVE FALSE
    BY <1>1, <1>2
  <2>1. den * (ln + 1) <= den * lm
    BY <1>1, <1>2, TimesMonotonic
  <2>2. den * (ln + 1) = den * ln + den
    BY <1>2
  <2> QED
    BY <1>1, <1>2, <1>5, <2>1, <2>2
<1>7. CASE lm < ln
  BY <1>1, <1>2, <1>3, <1>4, <1>7
<1>8. CASE lm = ln
  <2>1. rm <= rn
    BY <1>1, <1>2, <1>5, <1>8
  <2>2. mUp => nUp
    BY <1>1, <1>2, <1>8, <2>1
  <2> QED
    BY <1>1, <1>3, <1>4, <1>8, <2>2
<1> QED
  BY <1>1, <1>2, <1>6, <1>7, <1>8

-----------------------------------------------------------------------------
(***************************************************************************)
(* Filters and sorting.                                                    *)
(***************************************************************************)

\* The order that Nth counts in.
Before(key, j, i) == key[j] < key[i] \/ (key[j] = key[i] /\ j <= i)
UpTo(set, key, i) == {j \in set : key[j] < key[i] \/ (key[j] = key[i] /\ j <= i)}

\* What has some numbers of a finite set before it has as many as there are.
LEMMA MoreBefore ==
  ASSUME NEW set \in SUBSET Nat, IsFiniteSet(set), NEW key, \A i \in set : key[i] \in Nat,
         NEW j \in set, NEW i \in set, Before(key, j, i)
  PROVE  /\ Cardinality(UpTo(set, key, j)) \in Nat
         /\ Cardinality(UpTo(set, key, i)) \in Nat
         /\ i # j => Cardinality(UpTo(set, key, j)) < Cardinality(UpTo(set, key, i))
<1> DEFINE J == UpTo(set, key, j)
           I == UpTo(set, key, i)
<1>1. j \in Nat /\ i \in Nat /\ key[j] \in Nat /\ key[i] \in Nat
  OBVIOUS
<1>2. I \in SUBSET set /\ J \in SUBSET set
  BY DEF UpTo
<1>3. J \subseteq I
  <2> SUFFICES ASSUME NEW k \in J PROVE k \in I
    OBVIOUS
  <2>1. k \in set /\ k \in Nat /\ key[k] \in Nat /\ Before(key, k, j)
    BY DEF UpTo, Before
  <2>2. Before(key, k, i)
    BY <1>1, <2>1 DEF Before
  <2> QED
    BY <2>1, <2>2 DEF UpTo, Before
<1>4. i # j => i \in I /\ i \notin J
  BY <1>1 DEF UpTo, Before
<1> HIDE DEF I, J
<1>5. IsFiniteSet(I) /\ Cardinality(I) \in Nat /\ IsFiniteSet(J) /\ Cardinality(J) \in Nat
  BY <1>2, FS_Subset, FS_CardinalityType
<1>6. /\ Cardinality(J) <= Cardinality(I)
      /\ Cardinality(I) = Cardinality(J) => I = J
  BY <1>3, <1>5, FS_Subset
<1>7. i # j => Cardinality(J) < Cardinality(I)
  BY <1>4, <1>5, <1>6
<1> QED
  BY <1>5, <1>7 DEF I, J

\* What Nth counts are all the numbers of the set, each once and in the order.
IsOrder(pos, set, key) ==
  /\ pos \in [1..Cardinality(set) -> set]
  /\ \A k \in 1..Cardinality(set) : pos[k] = Nth(set, key, k)
  /\ \A k, l \in 1..Cardinality(set) : k < l => Before(key, pos[k], pos[l]) /\ pos[k] # pos[l]
  /\ \A i \in set : \E k \in 1..Cardinality(set) : pos[k] = i

LEMMA NthOrders ==
  ASSUME NEW set \in SUBSET Nat, IsFiniteSet(set), NEW key, \A i \in set : key[i] \in Nat
  PROVE  \E pos : IsOrder(pos, set, key)
<1> DEFINE N == Cardinality(set)
           rank == [i \in set |-> Cardinality(UpTo(set, key, i))]
           pos == [k \in 1..N |-> Nth(set, key, k)]
<1>1. N \in Nat
  BY FS_CardinalityType
<1>2. ASSUME NEW i \in set PROVE Cardinality(UpTo(set, key, i)) \in 1..N
  <2> DEFINE I == UpTo(set, key, i)
  <2>1. I \in SUBSET set /\ i \in I
    <3>1. i \in Nat /\ key[i] \in Nat
      OBVIOUS
    <3> QED
      BY <3>1 DEF UpTo
  <2> HIDE DEF I
  <2>2. IsFiniteSet(I) /\ Cardinality(I) <= N
    BY <2>1, FS_Subset
  <2>3. Cardinality(I) \in Nat /\ Cardinality(I) # 0
    BY <2>1, <2>2, FS_EmptySet, FS_CardinalityType
  <2>4. Cardinality(I) \in 1..N
    BY <1>1, <2>2, <2>3
  <2> QED
    BY <2>4 DEF I
<1>3. ASSUME NEW i \in set, NEW j \in set, i # j
      PROVE  /\ Before(key, i, j) \/ Before(key, j, i)
             /\ Before(key, i, j) => rank[i] < rank[j]
             /\ Before(key, j, i) => rank[j] < rank[i]
  <2>1. i \in Nat /\ key[i] \in Nat /\ j \in Nat /\ key[j] \in Nat
    OBVIOUS
  <2>2. Before(key, i, j) \/ Before(key, j, i)
    BY <2>1 DEF Before
  <2>3. Before(key, i, j) => rank[i] < rank[j]
    BY <1>3, MoreBefore
  <2>4. Before(key, j, i) => rank[j] < rank[i]
    BY <1>3, MoreBefore
  <2> QED
    BY <2>2, <2>3, <2>4
<1>4. rank \in [set -> 1..N]
  BY <1>2
<1> HIDE DEF rank
<1>5. \A i, j \in set : rank[i] = rank[j] => i = j
  <2> SUFFICES ASSUME NEW i \in set, NEW j \in set, rank[i] = rank[j], i # j PROVE FALSE
    OBVIOUS
  <2>1. rank[i] \in Nat /\ rank[j] \in Nat
    BY <1>1, <1>4
  <2> QED
    BY <1>3, <2>1
<1>6. rank \in Surjection(set, 1..N)
  <2>1. rank \in Injection(set, 1..N)
    BY <1>4, <1>5, Fun_IsInj
  <2>2. IsFiniteSet(1..N) /\ Cardinality(1..N) = N
    BY <1>1, FS_Interval
  <2> QED
    BY <2>1, <2>2, FS_Injection
<1>7. ASSUME NEW k \in 1..N PROVE \E i \in set : rank[i] = k
  BY <1>6 DEF Surjection
<1>8. ASSUME NEW k \in 1..N PROVE pos[k] \in set /\ rank[pos[k]] = k /\ pos[k] = Nth(set, key, k)
  <2>1. \E i \in set : Cardinality(UpTo(set, key, i)) = k
    BY <1>7 DEF rank
  <2>2. Nth(set, key, k) = CHOOSE i \in set : Cardinality(UpTo(set, key, i)) = k
    BY DEF Nth, UpTo
  <2>3. Nth(set, key, k) \in set /\ Cardinality(UpTo(set, key, Nth(set, key, k))) = k
    BY <2>1, <2>2
  <2> QED
    BY <2>3 DEF rank
<1>9. pos = [k \in 1..N |-> pos[k]]
  OBVIOUS
<1> HIDE DEF pos
<1>10. pos \in [1..N -> set]
  BY <1>8, <1>9
<1>11. ASSUME NEW k \in 1..N, NEW l \in 1..N, k < l
       PROVE  Before(key, pos[k], pos[l]) /\ pos[k] # pos[l]
  <2>1. pos[k] \in set /\ pos[l] \in set /\ rank[pos[k]] = k /\ rank[pos[l]] = l
    BY <1>8
  <2>2. pos[k] # pos[l]
    BY <1>11, <2>1
  <2>3. k \in Nat /\ l \in Nat /\ ~(l < k)
    BY <1>11
  <2> QED
    BY <1>3, <2>1, <2>2, <2>3
<1>12. ASSUME NEW i \in set PROVE \E k \in 1..N : pos[k] = i
  <2>1. rank[i] \in 1..N
    BY <1>4
  <2>2. pos[rank[i]] \in set /\ rank[pos[rank[i]]] = rank[i]
    BY <1>8, <2>1
  <2>3. pos[rank[i]] = i
    BY <1>5, <2>2
  <2> QED
    BY <2>1, <2>3
<1>13. IsOrder(pos, set, key)
  BY <1>8, <1>10, <1>11, <1>12 DEF IsOrder
<1> QED
  BY <1>13

\* A sequence has the items of another that are at some indices, each once: pos
\* says which of them.
IsSelection(out, seq, keep, pos) ==
  /\ Cardinality(keep) \in Nat
  /\ pos \in [1..Cardinality(keep) -> keep]
  /\ \A k, l \in 1..Cardinality(keep) : pos[k] = pos[l] => k = l
  /\ \A i \in keep : \E k \in 1..Cardinality(keep) : pos[k] = i
  /\ out = [k \in 1..Cardinality(keep) |-> seq[pos[k]]]

\* What a filter leaves.
LEMMA PickedSelects ==
  ASSUME NEW seq, NEW keep \in SUBSET Nat, IsFiniteSet(keep)
  PROVE  \E pos : IsSelection(Picked(seq, keep), seq, keep, pos)
<1> DEFINE key == [i \in keep |-> i]
           N == Cardinality(keep)
<1>1. \A i \in keep : key[i] \in Nat
  OBVIOUS
<1>2. Picked(seq, keep) = [k \in 1..N |-> seq[Nth(keep, key, k)]]
  BY DEF Picked
<1>3. N \in Nat
  BY FS_CardinalityType
<1> HIDE DEF key
<1>4. PICK pos : IsOrder(pos, keep, key)
  BY <1>1, NthOrders
<1>5. /\ pos \in [1..N -> keep]
      /\ \A k \in 1..N : pos[k] = Nth(keep, key, k)
      /\ \A k, l \in 1..N : k < l => pos[k] # pos[l]
      /\ \A i \in keep : \E k \in 1..N : pos[k] = i
  BY <1>4 DEF IsOrder
<1> HIDE DEF N
<1>6. [k \in 1..N |-> seq[Nth(keep, key, k)]] = [k \in 1..N |-> seq[pos[k]]]
  BY <1>5
<1>7. ASSUME NEW k \in 1..N, NEW l \in 1..N, pos[k] = pos[l] PROVE k = l
  <2>1. k \in Nat /\ l \in Nat /\ ~(k < l) /\ ~(l < k)
    BY <1>3, <1>5, <1>7
  <2> QED
    BY <2>1
<1> QED
  BY <1>2, <1>3, <1>5, <1>6, <1>7 DEF IsSelection, N

\* What sorting leaves: all the items, and the keys in order.
LEMMA SortedSelects ==
  ASSUME NEW S, NEW seq \in Seq(S), NEW key, \A i \in 1..Len(seq) : key[i] \in Nat
  PROVE  \E pos :
           /\ IsSelection(SortedBy(seq, key), seq, 1..Len(seq), pos)
           /\ \A k, l \in 1..Len(seq) : k < l => key[pos[k]] <= key[pos[l]]
<1> DEFINE L == Len(seq)
<1>1. L \in Nat /\ DOMAIN seq = 1..L
  BY LenProperties
<1>2. SortedBy(seq, key) = [k \in 1..L |-> seq[Nth(1..L, key, k)]]
  BY <1>1 DEF SortedBy
<1>3. \A i \in 1..L : key[i] \in Nat
  OBVIOUS
<1> HIDE DEF L
<1>4. 1..L \in SUBSET Nat /\ IsFiniteSet(1..L) /\ Cardinality(1..L) = L
  BY <1>1, FS_Interval
<1>5. PICK pos : IsOrder(pos, 1..L, key)
  BY <1>3, <1>4, NthOrders
<1>6. /\ pos \in [1..L -> 1..L]
      /\ \A k \in 1..L : pos[k] = Nth(1..L, key, k)
      /\ \A k, l \in 1..L : k < l => Before(key, pos[k], pos[l]) /\ pos[k] # pos[l]
      /\ \A i \in 1..L : \E k \in 1..L : pos[k] = i
  BY <1>4, <1>5 DEF IsOrder
<1>7. [k \in 1..L |-> seq[Nth(1..L, key, k)]] = [k \in 1..L |-> seq[pos[k]]]
  BY <1>6
<1>8. ASSUME NEW k \in 1..L, NEW l \in 1..L, pos[k] = pos[l] PROVE k = l
  <2>1. k \in Nat /\ l \in Nat /\ ~(k < l) /\ ~(l < k)
    BY <1>1, <1>6, <1>8
  <2> QED
    BY <2>1
<1>9. ASSUME NEW k \in 1..L, NEW l \in 1..L, k < l PROVE key[pos[k]] <= key[pos[l]]
  <2>1. key[pos[k]] \in Nat /\ key[pos[l]] \in Nat
    BY <1>3, <1>6
  <2>2. Before(key, pos[k], pos[l])
    BY <1>6, <1>9
  <2> QED
    BY <2>1, <2>2 DEF Before
<1>10. IsSelection(SortedBy(seq, key), seq, 1..L, pos)
  BY <1>1, <1>2, <1>4, <1>6, <1>7, <1>8 DEF IsSelection
<1> QED
  BY <1>9, <1>10 DEF L

\* The type of a selection.
ItemsIn(seq, keep, S) == \A i \in keep : seq[i] \in S
IsSeqOf(out, seq, keep, pos, S) ==
  /\ out \in Seq(S) /\ Len(out) = Cardinality(keep)
  /\ DOMAIN out = 1..Cardinality(keep)
  /\ \A k \in 1..Cardinality(keep) : out[k] = seq[pos[k]] /\ pos[k] \in keep

LEMMA SelectionSeq ==
  ASSUME NEW out, NEW seq, NEW keep, NEW pos, IsSelection(out, seq, keep, pos),
         NEW S, ItemsIn(seq, keep, S)
  PROVE  IsSeqOf(out, seq, keep, pos, S)
<1> DEFINE N == Cardinality(keep)
<1>1. N \in Nat /\ pos \in [1..N -> keep] /\ out = [k \in 1..N |-> seq[pos[k]]]
  BY DEF IsSelection
<1> HIDE DEF N
<1>2. out \in [1..N -> S]
  BY <1>1 DEF ItemsIn
<1>3. out \in Seq(S)
  BY <1>1, <1>2
<1>4. DOMAIN out = 1..N
  BY <1>2
<1>5. Len(out) = N
  BY <1>1, <1>3, <1>4, LenProperties
<1> QED
  BY <1>1, <1>3, <1>4, <1>5 DEF N, IsSeqOf

\* A filter leaves as many items of a kind as it keeps of them.
LEMMA SelectionCount ==
  ASSUME NEW out, NEW seq, NEW keep, IsFiniteSet(keep), NEW pos,
         IsSelection(out, seq, keep, pos), NEW T
  PROVE  /\ Cardinality({k \in 1..Cardinality(keep) : out[k] \in T})
            = Cardinality({i \in keep : seq[i] \in T})
         /\ Cardinality({i \in keep : seq[i] \in T}) \in Nat
<1> DEFINE N == Cardinality(keep)
           A == {k \in 1..N : out[k] \in T}
           B == {i \in keep : seq[i] \in T}
           f == [k \in A |-> pos[k]]
<1>1. /\ N \in Nat /\ pos \in [1..N -> keep] /\ out = [k \in 1..N |-> seq[pos[k]]]
      /\ \A k, l \in 1..N : pos[k] = pos[l] => k = l
      /\ \A i \in keep : \E k \in 1..N : pos[k] = i
  BY DEF IsSelection
<1> HIDE DEF N
<1>2. IsFiniteSet(A)
  <2>1. A \in SUBSET (1..N) /\ IsFiniteSet(1..N)
    BY <1>1, FS_Interval
  <2> QED
    BY <2>1, FS_Subset
<1>3. \A k \in A : pos[k] \in B
  BY <1>1
<1>4. f \in [A -> B]
  BY <1>3
<1>5. \A k, l \in A : f[k] = f[l] => k = l
  BY <1>1
<1>6. \A i \in B : \E k \in A : f[k] = i
  <2> SUFFICES ASSUME NEW i \in B PROVE \E k \in A : f[k] = i
    OBVIOUS
  <2>1. PICK k \in 1..N : pos[k] = i
    BY <1>1
  <2>2. out[k] = seq[i]
    BY <1>1, <2>1
  <2>3. k \in A
    BY <2>2
  <2> QED
    BY <2>1, <2>3
<1> HIDE DEF A, B, f
<1>7. f \in Bijection(A, B)
  BY <1>4, <1>5, <1>6, Fun_IsBij
<1>8. ExistsBijection(A, B)
  BY <1>7 DEF ExistsBijection
<1>9. Cardinality(B) = Cardinality(A) /\ Cardinality(A) \in Nat
  BY <1>2, <1>8, FS_Bijection, FS_CardinalityType
<1> QED
  BY <1>9 DEF A, B, N

-----------------------------------------------------------------------------
(***************************************************************************)
(* What is read of the datadir.                                            *)
(***************************************************************************)

\* What is on disk, which no step changes.
InputInv ==
  /\ args \in Arguments /\ disk \in [Relays -> LineLists \cup {<< >>}]
  /\ consensus \in Consensuses \cup {None}

\* A result that was read.
IsResult(result) ==
  /\ result.time \in Nat /\ Type(result.class) \in ResultTypes
  /\ IsBandwidth(result.relay.bandwidths.observed)
  /\ IsBandwidth(result.relay.bandwidths.burst)
  /\ IsBandwidth(result.relay.bandwidths.average)
  /\ IsSuccess(result) => result.downloads \in Seq(Nat) /\ result.rtts \in Seq(Nat)

\* The lines of a relay are a sequence, of lines that are read without raising.
LEMMA DiskLines ==
  ASSUME InputInv, NEW relay \in Relays
  PROVE  /\ Len(disk[relay]) \in Nat /\ DOMAIN disk[relay] = 1..Len(disk[relay])
         /\ \A i \in DOMAIN disk[relay] : IsLine(disk[relay][i])
         /\ \A i \in Current(relay) : FromDict(disk[relay][i]) # None
<1>1. CASE disk[relay] \in LineLists
  <2>1. disk[relay] \in Seq(Range(disk[relay])) /\ \A i \in DOMAIN disk[relay] : IsLine(disk[relay][i])
    BY <1>1, LinesAssumption
  <2>2. Len(disk[relay]) \in Nat /\ DOMAIN disk[relay] = 1..Len(disk[relay])
    BY <2>1, LenProperties
  <2>3. \A i \in Current(relay) : FromDict(disk[relay][i]) # None
    BY <1>1, NoneAssumption DEF Current
  <2> QED
    BY <2>1, <2>2, <2>3
<1>2. CASE disk[relay] = << >>
  <2>1. << >> \in Seq({}) /\ Len(<< >>) = 0
    BY EmptySeq
  <2>2. DOMAIN << >> = 1..0
    BY <2>1, LenProperties
  <2>3. DOMAIN disk[relay] = {} /\ Len(disk[relay]) = 0 /\ 1..0 = {}
    BY <1>2, <2>1, <2>2
  <2>4. Current(relay) = {}
    BY <2>3 DEF Current
  <2> QED
    BY <2>3, <2>4
<1> QED
  BY <1>1, <1>2 DEF InputInv

\* What from_dict makes of a line of this version.
LEMMA LineIsRead ==
  ASSUME NEW d, IsLine(d), d.version = Version
  PROVE  /\ IsResult(FromDict(d)) /\ FromDict(d).time = d.time /\ d.time \in Nat
         /\ IsSuccess(FromDict(d)) <=> d.type = "success"
<1>1. /\ d.type \in ResultTypes \ {"error-destination"} /\ d.time \in Nat
      /\ d.type = "success" =>
           /\ d.downloads \in Seq(Nat) /\ d.rtts \in Seq(Nat) \cup {None}
           /\ IsBandwidth(d.bandwidths.observed) /\ IsBandwidth(d.bandwidths.burst)
           /\ IsBandwidth(d.bandwidths.average)
  BY DEF IsLine, Raises, ResultErrorDestinationRaises
<1>2. CASE d.type = "success"
  <2>1. FromDict(d) = ResultSuccess(d)
    BY <1>2 DEF FromDict
  <2>2. << >> \in Seq(Nat)
    OBVIOUS
  <2>3. /\ FromDict(d).class = "ResultSuccess" /\ FromDict(d).time = d.time
        /\ FromDict(d).relay.bandwidths = d.bandwidths
        /\ FromDict(d).downloads = d.downloads
        /\ FromDict(d).rtts = IF d.rtts = None THEN << >> ELSE d.rtts
    BY <2>1 DEF ResultSuccess, ResultRelay
  <2>4. Type("ResultSuccess") \in ResultTypes
    BY DEF Type, ResultTypes
  <2>5. FromDict(d).rtts \in Seq(Nat)
    BY <1>1, <1>2, <2>2, <2>3
  <2> QED
    BY <1>1, <1>2, <2>3, <2>4, <2>5 DEF IsResult, IsSuccess
<1>3. CASE d.type # "success"
  <2>1. d.type \in {"error-misc", "error-circ", "error-stream", "error-auth", "error-second-relay"}
    BY <1>1, <1>3 DEF ResultTypes, ErrorTypes
  <2>2. PICK class \in {"ResultError", "ResultErrorCircuit", "ResultErrorStream",
                        "ResultErrorAuth", "ResultErrorSecondRelay"} :
          FromDict(d) = ErrorFromDict(class, d)
    BY <2>1 DEF FromDict, ResultError, ResultErrorCircuit, ResultErrorStream,
                ResultErrorAuth, ResultErrorSecondRelay
  <2>3. /\ FromDict(d).class = class /\ FromDict(d).time = d.time
        /\ FromDict(d).relay.bandwidths = NoBandwidths
    BY <2>2 DEF ErrorFromDict, ResultRelay
  <2>4. Type(class) \in ResultTypes /\ class # "ResultSuccess"
    BY <2>2 DEF Type, ResultTypes, ErrorTypes
  <2>5. /\ IsBandwidth(NoBandwidths.observed) /\ IsBandwidth(NoBandwidths.burst)
        /\ IsBandwidth(NoBandwidths.average)
    BY DEF NoBandwidths, IsBandwidth
  <2> QED
    BY <1>1, <1>3, <2>3, <2>4, <2>5 DEF IsResult, IsSuccess
<1> QED
  BY <1>2, <1>3

\* A list of results has been read of the lines of a relay: pos says of which.
IsReadOf(list, relay, pos) ==
  /\ Len(list) \in Nat /\ DOMAIN list = 1..Len(list)
  /\ list \in Seq({list[k] : k \in 1..Len(list)})
  /\ pos \in [1..Len(list) -> Current(relay)]
  /\ \A k, l \in 1..Len(list) : pos[k] = pos[l] => k = l
  /\ \A k \in 1..Len(list) : list[k] = FromDict(disk[relay][pos[k]])

\* The results of a relay, before those of other addresses are left out: one of
\* each line of this version.
LEMMA ResultsAreRead ==
  ASSUME InputInv, NEW relay \in Relays
  PROVE  \E pos : /\ IsReadOf(ResultsOf(disk[relay]), relay, pos)
                  /\ Len(ResultsOf(disk[relay])) = Cardinality(Current(relay))
<1> DEFINE lines == disk[relay]
           all   == Map(FromDict, lines)
           keep  == Current(relay)
           list  == ResultsOf(lines)
<1>1. /\ Len(lines) \in Nat /\ DOMAIN lines = 1..Len(lines)
      /\ \A i \in DOMAIN lines : IsLine(lines[i])
      /\ \A i \in keep : FromDict(lines[i]) # None
  BY DiskLines
<1>2. DOMAIN all = 1..Len(lines) /\ \A i \in 1..Len(lines) : all[i] = FromDict(lines[i])
  BY <1>1 DEF Map
<1>3. keep = {i \in DOMAIN all : all[i] # None}
  <2>1. keep = {i \in 1..Len(lines) : lines[i].version = Version}
    BY <1>1 DEF Current
  <2>2. \A i \in 1..Len(lines) : lines[i].version # Version => FromDict(lines[i]) = None
    BY DEF FromDict
  <2> QED
    BY <1>1, <1>2, <2>1, <2>2
<1>4. list = Picked(all, keep)
  BY <1>3 DEF ResultsOf, Filter
<1>5. keep \in SUBSET Nat /\ IsFiniteSet(keep)
  <2>1. keep \in SUBSET (1..Len(lines)) /\ IsFiniteSet(1..Len(lines))
    BY <1>1, FS_Interval DEF Current
  <2> QED
    BY <1>1, <2>1, FS_Subset
<1>6. keep \subseteq 1..Len(lines)
  BY <1>1 DEF Current
<1> HIDE DEF all, keep, list, lines
<1>7. PICK pos : IsSelection(list, all, keep, pos)
  BY <1>4, <1>5, PickedSelects
<1> DEFINE N == Cardinality(keep)
           S == {FromDict(lines[i]) : i \in keep}
<1>8. ItemsIn(all, keep, S)
  BY <1>2, <1>6 DEF ItemsIn
<1> HIDE DEF S
<1>9. /\ list \in Seq(S) /\ Len(list) = N /\ DOMAIN list = 1..N
      /\ \A k \in 1..N : list[k] = all[pos[k]] /\ pos[k] \in keep
  <2>1. IsSeqOf(list, all, keep, pos, S)
    BY <1>7, <1>8, SelectionSeq
  <2> QED
    BY <2>1 DEF IsSeqOf
<1>10. N \in Nat /\ pos \in [1..N -> keep] /\ \A k, l \in 1..N : pos[k] = pos[l] => k = l
  BY <1>7 DEF IsSelection
<1> HIDE DEF N
<1>11. list \in Seq({list[k] : k \in 1..N})
  <2>1. list \in [1..N -> {list[k] : k \in 1..N}]
    BY <1>9, LenProperties
  <2> QED
    BY <1>10, <2>1
<1>12. \A k \in 1..N : list[k] = FromDict(lines[pos[k]])
  BY <1>2, <1>6, <1>9
<1>13. /\ Len(list) \in Nat /\ DOMAIN list = 1..Len(list)
       /\ list \in Seq({list[k] : k \in 1..Len(list)})
       /\ pos \in [1..Len(list) -> keep]
       /\ \A k, l \in 1..Len(list) : pos[k] = pos[l] => k = l
       /\ \A k \in 1..Len(list) : list[k] = FromDict(lines[pos[k]])
  BY <1>9, <1>10, <1>11, <1>12
<1>14. IsReadOf(list, relay, pos)
  BY <1>13 DEF IsReadOf, keep, lines
<1> QED
  BY <1>9, <1>14 DEF list, lines, keep, N

\* Those that a filter leaves of what was read have been read.
LEMMA SelectionIsRead ==
  ASSUME NEW relay, NEW list, NEW pos, IsReadOf(list, relay, pos),
         NEW keep \in SUBSET (1..Len(list))
  PROVE  /\ \E p : IsReadOf(Picked(list, keep), relay, p)
         /\ \A k \in 1..Cardinality(keep) : \E i \in keep : Picked(list, keep)[k] = list[i]
         /\ Len(Picked(list, keep)) = Cardinality(keep)
         /\ Cardinality(keep) \in Nat /\ Cardinality(keep) <= Len(list)
<1> DEFINE out == Picked(list, keep)
           N   == Cardinality(keep)
           L   == Len(list)
           S   == {list[k] : k \in 1..L}
<1>1. /\ L \in Nat /\ pos \in [1..L -> Current(relay)]
      /\ \A k, l \in 1..L : pos[k] = pos[l] => k = l
      /\ \A k \in 1..L : list[k] = FromDict(disk[relay][pos[k]])
  BY DEF IsReadOf
<1>2. /\ IsFiniteSet(1..L) /\ Cardinality(1..L) = L
  <2> HIDE DEF L
  <2> QED
    BY <1>1, FS_Interval
<1>3. IsFiniteSet(keep) /\ N <= L /\ N \in Nat
  BY <1>2, FS_Subset, FS_CardinalityType
<1>4. keep \in SUBSET Nat
  BY <1>1
<1>5. PICK sel : IsSelection(out, list, keep, sel)
  BY <1>3, <1>4, PickedSelects
<1>6. ItemsIn(list, keep, S)
  BY DEF ItemsIn
<1> HIDE DEF S, out, L, N
<1>7. /\ out \in Seq(S) /\ Len(out) = N /\ DOMAIN out = 1..N
      /\ \A k \in 1..N : out[k] = list[sel[k]] /\ sel[k] \in keep
  <2>1. IsSeqOf(out, list, keep, sel, S)
    BY <1>5, <1>6, SelectionSeq
  <2> QED
    BY <2>1 DEF IsSeqOf, N
<1>8. sel \in [1..N -> keep] /\ \A k, l \in 1..N : sel[k] = sel[l] => k = l
  BY <1>5 DEF IsSelection, N
<1> DEFINE p == [k \in 1..N |-> pos[sel[k]]]
<1>9. \A k \in 1..N : sel[k] \in 1..L
  BY <1>7 DEF L
<1>10. p \in [1..N -> Current(relay)]
  BY <1>1, <1>9
<1>11. \A k, l \in 1..N : p[k] = p[l] => k = l
  BY <1>1, <1>8, <1>9
<1>12. \A k \in 1..N : out[k] = FromDict(disk[relay][p[k]])
  BY <1>1, <1>7, <1>9
<1>13. out \in Seq({out[k] : k \in 1..N})
  <2>1. out \in [1..N -> {out[k] : k \in 1..N}]
    BY <1>7, LenProperties
  <2> QED
    BY <1>3, <2>1
<1> HIDE DEF p
<1>14. IsReadOf(out, relay, p)
  BY <1>3, <1>7, <1>10, <1>11, <1>12, <1>13 DEF IsReadOf
<1> QED
  BY <1>3, <1>7, <1>14 DEF N, L, out

\* The results of a relay that are loaded.
Loaded(relay) ==
  IF args.reset THEN TrimIpChanged(ResultsOf(disk[relay])) ELSE ResultsOf(disk[relay])

\* They have been read, and some are left unless there were none.
IsLoaded(list, relay) ==
  /\ \E pos : IsReadOf(list, relay, pos)
  /\ Cardinality(Current(relay)) \in Nat /\ Len(list) <= Cardinality(Current(relay))
  /\ ~args.reset => Len(list) = Cardinality(Current(relay))
  /\ Len(list) = 0 <=> Current(relay) = {}

\* Which lines are current is a finite set.
LEMMA CurrentFinite ==
  ASSUME InputInv, NEW relay \in Relays
  PROVE  /\ IsFiniteSet(Current(relay)) /\ Cardinality(Current(relay)) \in Nat
         /\ Current(relay) \in SUBSET Nat
         /\ Cardinality(Current(relay)) = 0 <=> Current(relay) = {}
<1>1. Len(disk[relay]) \in Nat /\ Current(relay) \in SUBSET (1..Len(disk[relay]))
  BY DiskLines DEF Current
<1>2. IsFiniteSet(1..Len(disk[relay]))
  BY <1>1, FS_Interval
<1>3. IsFiniteSet(Current(relay))
  BY <1>1, <1>2, FS_Subset
<1>4. Current(relay) \in SUBSET Nat
  BY <1>1
<1> QED
  BY <1>3, <1>4, FS_CardinalityType, FS_EmptySet

\* What was read is results.
LEMMA ReadResults ==
  ASSUME InputInv, NEW relay \in Relays, NEW list, NEW pos, IsReadOf(list, relay, pos)
  PROVE  /\ Len(list) \in Nat /\ DOMAIN list = 1..Len(list)
         /\ \A k \in 1..Len(list) :
              /\ IsResult(list[k]) /\ pos[k] \in Current(relay)
              /\ list[k].time = disk[relay][pos[k]].time
              /\ disk[relay][pos[k]].time \in Nat
              /\ IsSuccess(list[k]) <=> pos[k] \in Successes(relay)
<1>1. /\ Len(list) \in Nat /\ DOMAIN list = 1..Len(list)
      /\ pos \in [1..Len(list) -> Current(relay)]
      /\ \A k \in 1..Len(list) : list[k] = FromDict(disk[relay][pos[k]])
  BY DEF IsReadOf
<1>2. ASSUME NEW k \in 1..Len(list)
      PROVE  /\ IsResult(list[k]) /\ pos[k] \in Current(relay)
             /\ list[k].time = disk[relay][pos[k]].time
             /\ disk[relay][pos[k]].time \in Nat
             /\ IsSuccess(list[k]) <=> pos[k] \in Successes(relay)
  <2>1. pos[k] \in Current(relay) /\ list[k] = FromDict(disk[relay][pos[k]])
    BY <1>1
  <2>2. /\ pos[k] \in DOMAIN disk[relay] /\ disk[relay][pos[k]].version = Version
        /\ pos[k] \in Successes(relay) <=> disk[relay][pos[k]].type = "success"
    BY <2>1 DEF Current, Successes
  <2>3. IsLine(disk[relay][pos[k]])
    BY <2>2, DiskLines
  <2> QED
    BY <2>1, <2>2, <2>3, LineIsRead
<1> QED
  BY <1>1, <1>2

\* The last result is one of them.
LEMMA LatestExists ==
  ASSUME NEW L \in Nat \ {0}, NEW key, \A k \in 1..L : key[k] \in Nat
  PROVE  \E i \in 1..L : \A j \in (1..L) \ {i} : key[j] < key[i] \/ (key[j] = key[i] /\ j < i)
<1>1. 1..L \in SUBSET Nat /\ IsFiniteSet(1..L) /\ Cardinality(1..L) = L
  BY FS_Interval
<1>2. PICK pos : IsOrder(pos, 1..L, key)
  BY <1>1, NthOrders
<1>3. /\ pos \in [1..L -> 1..L]
      /\ \A k, l \in 1..L : k < l => Before(key, pos[k], pos[l]) /\ pos[k] # pos[l]
      /\ \A i \in 1..L : \E k \in 1..L : pos[k] = i
  BY <1>1, <1>2 DEF IsOrder
<1>4. L \in 1..L /\ pos[L] \in 1..L
  BY <1>3
<1>5. ASSUME NEW j \in (1..L) \ {pos[L]}
      PROVE  key[j] < key[pos[L]] \/ (key[j] = key[pos[L]] /\ j < pos[L])
  <2>1. PICK k \in 1..L : pos[k] = j
    BY <1>3
  <2>2. k # L /\ k < L
    BY <2>1
  <2>3. Before(key, j, pos[L])
    BY <1>3, <1>4, <2>1, <2>2
  <2>4. j \in Nat /\ pos[L] \in Nat /\ j # pos[L]
    BY <1>4
  <2> QED
    BY <2>3, <2>4 DEF Before
<1> QED
  BY <1>4, <1>5

\* What load_recent_results_in_datadir returns for a relay.
LEMMA LoadedIsRead ==
  ASSUME InputInv, NEW relay \in Relays
  PROVE  IsLoaded(Loaded(relay), relay)
<1> DEFINE list == ResultsOf(disk[relay])
           N    == Cardinality(Current(relay))
<1>1. PICK pos : IsReadOf(list, relay, pos) /\ Len(list) = N
  BY ResultsAreRead
<1>2. N \in Nat /\ (N = 0 <=> Current(relay) = {})
  BY CurrentFinite
<1>3. CASE ~args.reset
  BY <1>1, <1>2, <1>3 DEF Loaded, IsLoaded
<1>4. CASE args.reset
  <2> DEFINE latest == CHOOSE i \in DOMAIN list :
                         \A j \in DOMAIN list \ {i} :
                           list[j].time < list[i].time \/ (list[j].time = list[i].time /\ j < i)
             keep == {i \in DOMAIN list : list[i].relay.address = list[latest].relay.address}
             key  == [k \in 1..Len(list) |-> list[k].time]
  <2>1. Loaded(relay) = Picked(list, keep)
    BY <1>4 DEF Loaded, TrimIpChanged, Filter
  <2>2. DOMAIN list = 1..Len(list) /\ \A k \in 1..Len(list) : list[k].time \in Nat
    BY <1>1, ReadResults
  <2>3. keep \in SUBSET (1..Len(list))
    BY <2>2
  <2>4. ASSUME N # 0 PROVE keep # {}
    <3>1. N \in Nat \ {0}
      BY <1>2, <2>4
    <3>2. Len(list) = N
      BY <1>1
    <3>3. \A k \in 1..N : key[k] \in Nat
      BY <2>2, <3>2
    <3>4. \E i \in 1..N : \A j \in (1..N) \ {i} : key[j] < key[i] \/ (key[j] = key[i] /\ j < i)
      <4> HIDE DEF key, N
      <4> QED
        BY <3>1, <3>3, LatestExists
    <3>5. \E i \in DOMAIN list :
            \A j \in DOMAIN list \ {i} :
              list[j].time < list[i].time \/ (list[j].time = list[i].time /\ j < i)
      BY <2>2, <3>2, <3>4
    <3>6. latest \in DOMAIN list
      <4> HIDE DEF list
      <4> QED
        BY <3>5
    <3> QED
      BY <3>6
  <2> HIDE DEF keep, list
  <2>5. /\ \E p : IsReadOf(Picked(list, keep), relay, p)
        /\ Len(Picked(list, keep)) = Cardinality(keep)
        /\ Cardinality(keep) \in Nat /\ Cardinality(keep) <= Len(list)
    BY <1>1, <2>3, SelectionIsRead
  <2>6. Cardinality(keep) = 0 <=> N = 0
    <3>1. IsFiniteSet(keep)
      <4>1. Len(list) \in Nat
        BY <1>1, <1>2
      <4>2. IsFiniteSet(1..Len(list))
        BY <4>1, FS_Interval
      <4> QED
        BY <2>3, <4>2, FS_Subset
    <3>2. Cardinality(keep) = 0 <=> keep = {}
      BY <3>1, FS_EmptySet
    <3>3. N = 0 => Cardinality(keep) = 0
      BY <1>1, <1>2, <2>5
    <3> QED
      BY <2>4, <3>2, <3>3
  <2> QED
    BY <1>1, <1>2, <1>4, <2>1, <2>5, <2>6 DEF IsLoaded
<1> QED
  BY <1>3, <1>4

-----------------------------------------------------------------------------
(***************************************************************************)
(* The line of a relay.                                                    *)
(***************************************************************************)

\* A list that was read is empty when it has no items.
LEMMA ReadEmpty ==
  ASSUME NEW relay, NEW list, NEW pos, IsReadOf(list, relay, pos)
  PROVE  /\ Len(list) \in Nat /\ DOMAIN list = 1..Len(list)
         /\ list = << >> <=> Len(list) = 0
<1>1. list \in Seq({list[k] : k \in 1..Len(list)}) /\ Len(list) \in Nat /\ DOMAIN list = 1..Len(list)
  BY DEF IsReadOf
<1> QED
  BY <1>1, EmptySeq

\* No results have been read of any relay.
LEMMA EmptyIsRead ==
  ASSUME NEW relay
  PROVE  \E pos : IsReadOf(<< >>, relay, pos)
<1> DEFINE pos == [k \in 1..0 |-> k]
<1>1. << >> \in Seq({}) /\ Len(<< >>) = 0
  BY EmptySeq
<1>2. DOMAIN << >> = 1..0
  BY <1>1, LenProperties
<1>3. << >> \in Seq({<< >>[k] : k \in 1..0})
  BY EmptySeq
<1>4. 1..0 = {}
  OBVIOUS
<1>5. pos \in [1..0 -> Current(relay)]
  BY <1>4
<1>6. IsReadOf(<< >>, relay, pos)
  BY <1>1, <1>2, <1>3, <1>4, <1>5 DEF IsReadOf
<1> QED
  BY <1>6

\* The successes among them, and those that are recent.
SuccessesRead(list, relay) ==
  \E pos : IsReadOf(list, relay, pos) /\ \A k \in 1..Len(list) : pos[k] \in Successes(relay)
RecentsRead(list, relay) ==
  \E pos : /\ IsReadOf(list, relay, pos)
           /\ \A k \in 1..Len(list) :
                pos[k] \in Successes(relay) /\ IsRecent(disk[relay][pos[k]])

\* The results that are not errors: when none is left out because of its
\* address, one of each success on disk.
LEMMA SuccessRead ==
  ASSUME InputInv, NEW relay \in Relays, NEW list, IsLoaded(list, relay)
  PROVE  /\ SuccessesRead(Filter(list, IsSuccess), relay)
         /\ Len(Filter(list, IsSuccess)) \in Nat /\ Len(Filter(list, IsSuccess)) <= Len(list)
         /\ ~args.reset => Cardinality(Successes(relay)) <= Len(Filter(list, IsSuccess))
<1> DEFINE keep == {k \in DOMAIN list : IsSuccess(list[k])}
           out  == Picked(list, keep)
           L    == Len(list)
<1>1. Filter(list, IsSuccess) = out
  BY DEF Filter
<1>2. PICK pos : IsReadOf(list, relay, pos)
  BY DEF IsLoaded
<1>3. /\ L \in Nat /\ DOMAIN list = 1..L
      /\ \A k \in 1..L : pos[k] \in Current(relay)
                         /\ (IsSuccess(list[k]) <=> pos[k] \in Successes(relay))
  BY <1>2, ReadResults
<1>4. keep \in SUBSET (1..Len(list))
  BY <1>3
<1>5. /\ \E p : IsReadOf(out, relay, p)
      /\ \A k \in 1..Cardinality(keep) : \E i \in keep : out[k] = list[i]
      /\ Len(out) = Cardinality(keep)
      /\ Cardinality(keep) \in Nat /\ Cardinality(keep) <= L
  <2> HIDE DEF keep
  <2> QED
    BY <1>2, <1>4, SelectionIsRead
<1>6. PICK p : IsReadOf(out, relay, p)
  BY <1>5
<1>7. ASSUME NEW k \in 1..Len(out) PROVE p[k] \in Successes(relay)
  <2>1. IsSuccess(out[k])
    BY <1>5
  <2> HIDE DEF out
  <2> QED
    BY <1>6, <2>1, ReadResults
<1>8. SuccessesRead(out, relay)
  <2> HIDE DEF out
  <2> QED
    BY <1>6, <1>7 DEF SuccessesRead
<1>9. ASSUME ~args.reset PROVE Cardinality(Successes(relay)) <= Cardinality(keep)
  <2>1. L = Cardinality(Current(relay)) /\ IsFiniteSet(Current(relay))
    BY <1>9, CurrentFinite DEF IsLoaded
  <2>2. /\ pos \in [1..L -> Current(relay)]
        /\ \A k, l \in 1..L : pos[k] = pos[l] => k = l
    BY <1>2 DEF IsReadOf
  <2> HIDE DEF L
  <2>3. IsFiniteSet(1..L) /\ Cardinality(1..L) = L
    BY <1>3, FS_Interval
  <2>4. pos \in Injection(1..L, Current(relay))
    BY <2>2, Fun_IsInj
  <2>5. pos \in Surjection(1..L, Current(relay))
    BY <2>1, <2>3, <2>4, FS_Injection
  <2>6. \A i \in Current(relay) : \E k \in 1..L : pos[k] = i
    BY <2>5 DEF Surjection
  <2> DEFINE f == [k \in keep |-> pos[k]]
  <2>7. keep = {k \in 1..L : pos[k] \in Successes(relay)}
    BY <1>3
  <2>8. f \in [keep -> Successes(relay)]
    BY <2>7
  <2>9. \A i \in Successes(relay) : \E k \in keep : f[k] = i
    <3> SUFFICES ASSUME NEW i \in Successes(relay) PROVE \E k \in keep : f[k] = i
      OBVIOUS
    <3>1. i \in Current(relay)
      BY DEF Successes
    <3>2. PICK k \in 1..L : pos[k] = i
      BY <2>6, <3>1
    <3>3. k \in keep
      BY <2>7, <3>2
    <3> QED
      BY <3>2, <3>3
  <2>10. IsFiniteSet(keep)
    <3>1. keep \in SUBSET (1..L)
      BY <2>7
    <3> QED
      BY <2>3, <3>1, FS_Subset
  <2> HIDE DEF keep, f
  <2>11. f \in Surjection(keep, Successes(relay))
    BY <2>8, <2>9, Fun_IsSurj
  <2> QED
    BY <2>10, <2>11, FS_Surjection
<1> HIDE DEF keep
<1> QED
  BY <1>1, <1>5, <1>8, <1>9

\* results_away_each_other
LEMMA AwayRead ==
  ASSUME InputInv, NEW relay \in Relays, NEW list, SuccessesRead(list, relay)
  PROVE  /\ SuccessesRead(AwayEachOther(list), relay)
         /\ Len(AwayEachOther(list)) \in Nat /\ Len(AwayEachOther(list)) <= Len(list)
         /\ Len(list) \in Nat
         /\ Len(AwayEachOther(list)) > 0 /\ args.secsAway # None /\ Len(list) > 1 =>
              \E j, k \in Successes(relay) :
                disk[relay][j].time > disk[relay][k].time + args.secsAway
<1>1. PICK pos : IsReadOf(list, relay, pos) /\ \A k \in 1..Len(list) : pos[k] \in Successes(relay)
  BY DEF SuccessesRead
<1>2. Len(list) \in Nat /\ DOMAIN list = 1..Len(list)
  BY <1>1, ReadEmpty
<1>3. SuccessesRead(<< >>, relay) /\ Len(<< >>) = 0
  <2>1. Len(<< >>) = 0 /\ 1..0 = {}
    BY EmptySeq
  <2>2. PICK p : IsReadOf(<< >>, relay, p)
    BY EmptyIsRead
  <2>3. SuccessesRead(<< >>, relay)
    BY <2>1, <2>2 DEF SuccessesRead
  <2> QED
    BY <2>1, <2>3
<1>4. AwayEachOther(list) = list \/ AwayEachOther(list) = << >>
  BY DEF AwayEachOther
<1>5. ASSUME Len(AwayEachOther(list)) > 0, args.secsAway # None, Len(list) > 1
      PROVE  \E j, k \in Successes(relay) :
                disk[relay][j].time > disk[relay][k].time + args.secsAway
  <2>1. args.secsAway \in Nat
    BY <1>5, ArgumentsAssumption DEF InputInv
  <2>2. AwayEachOther(list) # << >> /\ ~(Len(list) < 2)
    BY <1>2, <1>3, <1>5
  <2>3. PICK i, j \in 1..Len(list) : list[i].time - list[j].time > args.secsAway
    BY <1>2, <1>5, <2>2 DEF AwayEachOther
  <2>4. /\ list[i].time = disk[relay][pos[i]].time /\ list[i].time \in Nat
        /\ list[j].time = disk[relay][pos[j]].time /\ list[j].time \in Nat
    BY <1>1, ReadResults
  <2>5. disk[relay][pos[i]].time > disk[relay][pos[j]].time + args.secsAway
    BY <2>1, <2>3, <2>4
  <2>6. pos[i] \in Successes(relay) /\ pos[j] \in Successes(relay)
    BY <1>1
  <2> QED
    BY <2>5, <2>6
<1> QED
  BY <1>2, <1>3, <1>4, <1>5

\* results_recent_than
LEMMA RecentRead ==
  ASSUME InputInv, NEW relay \in Relays, NEW list, SuccessesRead(list, relay)
  PROVE  /\ RecentsRead(RecentThan(list), relay)
         /\ Len(RecentThan(list)) \in Nat /\ Len(RecentThan(list)) <= Len(list)
<1> DEFINE keep == {k \in DOMAIN list : IsRecent(list[k])}
           out  == Picked(list, keep)
<1>1. RecentThan(list) = out
  BY DEF RecentThan, Filter
<1>2. PICK pos : IsReadOf(list, relay, pos) /\ \A k \in 1..Len(list) : pos[k] \in Successes(relay)
  BY DEF SuccessesRead
<1>3. /\ Len(list) \in Nat /\ DOMAIN list = 1..Len(list)
      /\ \A k \in 1..Len(list) : IsSuccess(list[k])
  BY <1>2, ReadResults
<1>4. keep \in SUBSET (1..Len(list))
  BY <1>3
<1>5. /\ \E p : IsReadOf(out, relay, p)
      /\ \A k \in 1..Cardinality(keep) : \E i \in keep : out[k] = list[i]
      /\ Len(out) = Cardinality(keep)
      /\ Cardinality(keep) \in Nat /\ Cardinality(keep) <= Len(list)
  <2> HIDE DEF keep
  <2> QED
    BY <1>2, <1>4, SelectionIsRead
<1>6. PICK p : IsReadOf(out, relay, p)
  BY <1>5
<1>7. ASSUME NEW k \in 1..Len(out)
      PROVE  p[k] \in Successes(relay) /\ IsRecent(disk[relay][p[k]])
  <2>1. IsSuccess(out[k]) /\ IsRecent(out[k])
    BY <1>3, <1>5
  <2> HIDE DEF out
  <2>2. p[k] \in Successes(relay) /\ out[k].time = disk[relay][p[k]].time
    BY <1>6, <2>1, ReadResults
  <2> QED
    BY <2>1, <2>2 DEF IsRecent
<1>8. RecentsRead(out, relay)
  <2> HIDE DEF out
  <2> QED
    BY <1>6, <1>7 DEF RecentsRead
<1> HIDE DEF keep
<1> QED
  BY <1>1, <1>5, <1>8

\* There are as many of these on disk.
LEMMA RecentsOnDisk ==
  ASSUME InputInv, NEW relay \in Relays, NEW list, RecentsRead(list, relay)
  PROVE  /\ Len(list) <= Cardinality({j \in Successes(relay) : IsRecent(disk[relay][j])})
         /\ Cardinality({j \in Successes(relay) : IsRecent(disk[relay][j])}) \in Nat
<1> DEFINE T == {j \in Successes(relay) : IsRecent(disk[relay][j])}
           L == Len(list)
<1>1. PICK pos : /\ IsReadOf(list, relay, pos)
                 /\ \A k \in 1..L : pos[k] \in Successes(relay) /\ IsRecent(disk[relay][pos[k]])
  BY DEF RecentsRead
<1>2. /\ L \in Nat /\ pos \in [1..L -> Current(relay)]
      /\ \A k, l \in 1..L : pos[k] = pos[l] => k = l
  BY <1>1 DEF IsReadOf
<1>3. pos \in [1..L -> T]
  BY <1>1, <1>2
<1>4. IsFiniteSet(T) /\ Cardinality(T) \in Nat
  <2>1. T \in SUBSET Current(relay) /\ IsFiniteSet(Current(relay))
    BY CurrentFinite DEF Successes
  <2> QED
    BY <2>1, FS_Subset, FS_CardinalityType
<1> HIDE DEF T, L
<1>5. pos \in Injection(1..L, T)
  BY <1>2, <1>3, Fun_IsInj
<1>6. IsFiniteSet(1..L) /\ Cardinality(1..L) = L
  BY <1>2, FS_Interval
<1>7. L <= Cardinality(T)
  BY <1>4, <1>5, <1>6, FS_Injection
<1> QED
  BY <1>4, <1>7 DEF T, L

-----------------------------------------------------------------------------
(***************************************************************************)
(* What is computed of sequences of numbers.                               *)
(***************************************************************************)

\* The sums of the first numbers of a sequence, for each number of them.
IsSum(sum, seq) ==
  /\ sum \in [0..Len(seq) -> Nat] /\ sum[0] = 0
  /\ \A n \in 1..Len(seq) : sum[n] = sum[n - 1] + seq[n]
  /\ Sum(seq) = sum[Len(seq)]

\* There is such a function: Sum is defined, and is a number.
LEMMA SumValues ==
  ASSUME NEW seq \in Seq(Nat)
  PROVE  \E sum : IsSum(sum, seq)
<1> DEFINE L == Len(seq)
           Next0(f) == [n \in 0..L |-> IF n = 0 THEN 0 ELSE f[n - 1] + seq[n]]
           sum == CHOOSE f : f = Next0(f)
           step == [n \in 1..L |-> [m \in Nat |-> m + seq[n]]]
<1>1. L \in Nat
  BY LenProperties
<1>2. \A n \in 1..L : seq[n] \in Nat
  BY ElementOfSeq
<1>3. step \in Steps(L, Nat)
  <2>1. ASSUME NEW n \in 1..L, NEW m \in Nat PROVE m + seq[n] \in Nat
    BY <1>2
  <2> QED
    BY <2>1 DEF Steps
<1>4. PICK g \in [0..L -> Nat] : g[0] = 0 /\ \A n \in 1..L : g[n] = step[n][g[n - 1]]
  <2> HIDE DEF step, L
  <2>1. HasValues(L, Nat, 0, step)
    BY <1>1, <1>3, ValuesByRecursion
  <2> QED
    BY <2>1 DEF HasValues
<1>5. ASSUME NEW n \in 1..L PROVE n - 1 \in 0..L /\ g[n - 1] \in Nat
  <2> HIDE DEF L, step
  <2>1. n - 1 \in 0..L
    BY <1>1
  <2> QED
    BY <2>1
<1>6. \A n \in 1..L : g[n] = g[n - 1] + seq[n]
  BY <1>4, <1>5
<1>7. g = Next0(g)
  <2>1. ASSUME NEW n \in 0..L PROVE g[n] = Next0(g)[n]
    <3>1. CASE n = 0
      BY <1>1, <1>4, <3>1
    <3>2. CASE n # 0
      <4>1. n \in 1..L
        BY <1>1, <3>2
      <4> QED
        BY <1>6, <3>2, <4>1
    <3> QED
      BY <3>1, <3>2
  <2> QED
    BY <2>1
<1>8. sum = Next0(sum)
  BY <1>7
<1> HIDE DEF sum
<1>9. sum[0] = 0
  <2>1. 0 \in 0..L
    BY <1>1
  <2> QED
    BY <1>8, <2>1
<1>10. ASSUME NEW n \in 1..L PROVE sum[n] = sum[n - 1] + seq[n]
  <2>1. n \in 0..L /\ n # 0
    BY <1>1
  <2> QED
    BY <1>8, <2>1
<1> DEFINE T == {n \in Nat : n <= L => sum[n] \in Nat}
<1>11. 0 \in T
  BY <1>9
<1>12. ASSUME NEW n \in Nat, n \in T PROVE n + 1 \in T
  <2> SUFFICES ASSUME n + 1 <= L PROVE sum[n + 1] \in Nat
    OBVIOUS
  <2>1. n + 1 \in 1..L /\ (n + 1) - 1 = n /\ n <= L
    BY <1>1
  <2>2. sum[n] \in Nat /\ seq[n + 1] \in Nat
    BY <1>2, <1>12, <2>1
  <2>3. sum[n + 1] = sum[n] + seq[n + 1]
    BY <1>10, <2>1
  <2> QED
    BY <2>2, <2>3
<1>13. \A n \in Nat : n \in T
  <2> HIDE DEF T
  <2> QED
    BY <1>11, <1>12, NumbersByInduction
<1>14. \A n \in 0..L : sum[n] \in Nat
  BY <1>1, <1>13
<1>15. sum = [n \in 0..L |-> sum[n]]
  BY <1>8
<1>16. sum \in [0..L -> Nat]
  BY <1>14, <1>15
<1>17. Sum(seq) = sum[L]
  BY DEF Sum, sum
<1> QED
  BY <1>9, <1>10, <1>16, <1>17 DEF IsSum

\* A sum is a number.
LEMMA SumType ==
  ASSUME NEW seq \in Seq(Nat)
  PROVE  Sum(seq) \in Nat
<1>1. PICK sum : IsSum(sum, seq)
  BY SumValues
<1>2. Len(seq) \in Nat
  BY LenProperties
<1>3. Len(seq) \in 0..Len(seq)
  BY <1>2
<1> QED
  BY <1>1, <1>3 DEF IsSum

\* Sequences of numbers are joined to one.
LEMMA JoinedType ==
  ASSUME NEW seqs \in Seq(Seq(Nat))
  PROVE  Joined(seqs) \in Seq(Nat)
<1> DEFINE S == Seq(Nat)
           L == Len(seqs)
           Next0(f) == [n \in 0..L |-> IF n = 0 THEN << >> ELSE f[n - 1] \o seqs[n]]
           join == CHOOSE f : f = Next0(f)
           step == [n \in 1..L |-> [m \in S |-> m \o seqs[n]]]
<1>1. L \in Nat
  BY LenProperties
<1>2. \A n \in 1..L : seqs[n] \in S
  BY ElementOfSeq
<1>3. step \in Steps(L, S)
  <2>1. ASSUME NEW n \in 1..L, NEW m \in S PROVE m \o seqs[n] \in S
    BY <1>2, ConcatProperties
  <2> QED
    BY <2>1 DEF Steps
<1>4. << >> \in S
  BY EmptySeq
<1>5. PICK g \in [0..L -> S] : g[0] = << >> /\ \A n \in 1..L : g[n] = step[n][g[n - 1]]
  <2> HIDE DEF step, L, S
  <2>1. HasValues(L, S, << >>, step)
    BY <1>1, <1>3, <1>4, ValuesByRecursion
  <2> QED
    BY <2>1 DEF HasValues
<1>6. ASSUME NEW n \in 1..L PROVE n - 1 \in 0..L /\ g[n - 1] \in S
  <2> HIDE DEF L, step, S
  <2>1. n - 1 \in 0..L
    BY <1>1
  <2> QED
    BY <2>1
<1>7. \A n \in 1..L : g[n] = g[n - 1] \o seqs[n]
  BY <1>5, <1>6
<1>8. g = Next0(g)
  <2>1. ASSUME NEW n \in 0..L PROVE g[n] = Next0(g)[n]
    <3>1. CASE n = 0
      BY <1>1, <1>5, <3>1
    <3>2. CASE n # 0
      <4>1. n \in 1..L
        BY <1>1, <3>2
      <4> QED
        BY <1>7, <3>2, <4>1
    <3> QED
      BY <3>1, <3>2
  <2> QED
    BY <2>1
<1>9. join = Next0(join)
  BY <1>8
<1> HIDE DEF join
<1>10. join[0] = << >>
  <2>1. 0 \in 0..L
    BY <1>1
  <2> QED
    BY <1>9, <2>1
<1>11. ASSUME NEW n \in 1..L PROVE join[n] = join[n - 1] \o seqs[n]
  <2>1. n \in 0..L /\ n # 0
    BY <1>1
  <2> QED
    BY <1>9, <2>1
<1> DEFINE T == {n \in Nat : n <= L => join[n] \in S}
<1>12. 0 \in T
  BY <1>4, <1>10
<1>13. ASSUME NEW n \in Nat, n \in T PROVE n + 1 \in T
  <2> SUFFICES ASSUME n + 1 <= L PROVE join[n + 1] \in S
    OBVIOUS
  <2>1. n + 1 \in 1..L /\ (n + 1) - 1 = n /\ n <= L
    BY <1>1
  <2>2. join[n] \in S /\ seqs[n + 1] \in S
    BY <1>2, <1>13, <2>1
  <2>3. join[n + 1] = join[n] \o seqs[n + 1]
    BY <1>11, <2>1
  <2> QED
    BY <2>2, <2>3, ConcatProperties
<1>14. L \in T
  <2> HIDE DEF T
  <2> QED
    BY <1>1, <1>12, <1>13, NumbersByInduction
<1>15. join[L] \in S
  BY <1>1, <1>14
<1>16. Joined(seqs) = join[L]
  BY DEF Joined, join
<1> QED
  BY <1>15, <1>16

\* A median, of one number at least.
LEMMA MedianType ==
  ASSUME NEW seq \in Seq(Nat), Len(seq) > 0, NEW den \in Nat \ {0}
  PROVE  Median(seq, den).num \in Nat /\ Median(seq, den).den \in Nat \ {0}
<1> DEFINE s == SortedBy(seq, seq)
           L == Len(seq)
           h == L \div 2
<1>1. L \in Nat /\ L > 0 /\ \A i \in 1..Len(seq) : seq[i] \in Nat
  BY LenProperties, ElementOfSeq
<1>2. PICK pos : IsSelection(s, seq, 1..L, pos)
  BY <1>1, SortedSelects
<1> HIDE DEF s
<1>3. ItemsIn(seq, 1..L, Nat)
  BY <1>1 DEF ItemsIn
<1>4. IsSeqOf(s, seq, 1..L, pos, Nat)
  BY <1>2, <1>3, SelectionSeq
<1> HIDE DEF L
<1>5. Cardinality(1..L) = L
  BY <1>1, FS_Interval
<1>6. Len(s) = L /\ \A k \in 1..L : s[k] \in Nat
  <2>1. s \in Seq(Nat) /\ Len(s) = L
    BY <1>4, <1>5 DEF IsSeqOf
  <2> QED
    BY <2>1, ElementOfSeq
<1>7. h \in Nat /\ (L % 2 = 1 => h + 1 \in 1..L) /\ (L % 2 # 1 => h \in 1..L /\ h + 1 \in 1..L)
  BY <1>1
<1>8. Median(seq, den) = IF L % 2 = 1 THEN [num |-> s[h + 1], den |-> den]
                         ELSE [num |-> s[h] + s[h + 1], den |-> 2 * den]
  BY <1>6 DEF Median, s
<1> HIDE DEF h
<1>9. CASE L % 2 = 1
  BY <1>6, <1>7, <1>8, <1>9
<1>10. CASE L % 2 # 1
  <2>1. s[h] \in Nat /\ s[h + 1] \in Nat
    BY <1>6, <1>7, <1>10
  <2>2. s[h] + s[h + 1] \in Nat /\ 2 * den \in Nat \ {0}
    BY <2>1
  <2> QED
    BY <1>8, <1>10, <2>2
<1> QED
  BY <1>9, <1>10

-----------------------------------------------------------------------------
(***************************************************************************)
(* round_sig_dig.                                                          *)
(***************************************************************************)

\* The first powers of ten exist.
PowersTo(n, f) == f \in [0..n -> Nat] /\ f[0] = 1 /\ \A m \in 1..n : f[m] = 10 * f[m - 1]

LEMMA PowersExist ==
  ASSUME NEW n \in Nat
  PROVE  \E f : PowersTo(n, f)
<1> DEFINE step == [m \in 1..n |-> [x \in Nat |-> 10 * x]]
<1>1. step \in Steps(n, Nat) /\ 1 \in Nat
  BY DEF Steps
<1>2. PICK f \in [0..n -> Nat] : f[0] = 1 /\ \A m \in 1..n : f[m] = step[m][f[m - 1]]
  <2> HIDE DEF step
  <2>1. HasValues(n, Nat, 1, step)
    BY <1>1, ValuesByRecursion
  <2> QED
    BY <2>1 DEF HasValues
<1>3. ASSUME NEW m \in 1..n PROVE f[m] = 10 * f[m - 1]
  <2>1. m - 1 \in 0..n
    OBVIOUS
  <2>2. f[m - 1] \in Nat
    BY <1>2, <2>1
  <2> QED
    BY <1>2, <2>2
<1> QED
  BY <1>2, <1>3 DEF PowersTo

\* Each is the same, however many there are.
LEMMA PowersAgree ==
  ASSUME NEW n \in Nat, NEW f, PowersTo(n, f), NEW g, PowersTo(n + 1, g)
  PROVE  g[n] = f[n]
<1> DEFINE T == {m \in Nat : m <= n => g[m] = f[m]}
<1>1. 0 \in T
  BY DEF PowersTo
<1>2. ASSUME NEW m \in Nat, m \in T PROVE m + 1 \in T
  <2> SUFFICES ASSUME m + 1 <= n PROVE g[m + 1] = f[m + 1]
    OBVIOUS
  <2>1. m + 1 \in 1..n /\ m + 1 \in 1..n + 1 /\ (m + 1) - 1 = m /\ m <= n
    OBVIOUS
  <2>2. g[m] = f[m]
    BY <1>2, <2>1
  <2> QED
    BY <2>1, <2>2 DEF PowersTo
<1>3. n \in T
  <2> HIDE DEF T
  <2> QED
    BY <1>1, <1>2, NumbersByInduction
<1>4. n <= n
  OBVIOUS
<1> QED
  BY <1>3, <1>4

\* Pow10 is defined.
LEMMA Pow10Values ==
  /\ Pow10[0] = 1
  /\ \A n \in Nat : Pow10[n] \in Nat \ {0} /\ Pow10[n + 1] = 10 * Pow10[n]
<1> DEFINE F(n) == CHOOSE f : PowersTo(n, f)
           g == [n \in Nat |-> F(n)[n]]
           Next0(f) == [n \in Nat |-> IF n = 0 THEN 1 ELSE 10 * f[n - 1]]
<1>1. ASSUME NEW n \in Nat PROVE PowersTo(n, F(n))
  BY PowersExist
<1> HIDE DEF F
<1>2. g[0] = 1
  <2>1. PowersTo(0, F(0))
    BY <1>1
  <2> QED
    BY <2>1 DEF PowersTo
<1>3. ASSUME NEW n \in Nat PROVE g[n + 1] = 10 * g[n]
  <2>1. n + 1 \in Nat /\ n + 1 \in 1..n + 1 /\ (n + 1) - 1 = n
    OBVIOUS
  <2>2. PowersTo(n, F(n)) /\ PowersTo(n + 1, F(n + 1))
    BY <1>1, <2>1
  <2>3. F(n + 1)[n] = F(n)[n]
    BY <2>2, PowersAgree
  <2>4. F(n + 1)[n + 1] = 10 * F(n + 1)[n]
    BY <2>1, <2>2 DEF PowersTo
  <2> QED
    BY <2>1, <2>3, <2>4
<1>4. g = Next0(g)
  <2>1. ASSUME NEW n \in Nat PROVE g[n] = IF n = 0 THEN 1 ELSE 10 * g[n - 1]
    <3>1. CASE n = 0
      BY <1>2, <3>1
    <3>2. CASE n # 0
      <4>1. n - 1 \in Nat /\ n = (n - 1) + 1
        BY <3>2
      <4> HIDE DEF g
      <4>2. g[(n - 1) + 1] = 10 * g[n - 1]
        BY <1>3, <4>1
      <4> QED
        BY <3>2, <4>1, <4>2
    <3> QED
      BY <3>1, <3>2
  <2> QED
    BY <2>1
<1>5. Pow10 = Next0(Pow10)
  <2>1. \E f : f = Next0(f)
    BY <1>4
  <2> HIDE DEF g
  <2>2. Pow10 = CHOOSE f : f = Next0(f)
    BY DEF Pow10
  <2> QED
    BY <2>1, <2>2
<1>6. Pow10[0] = 1
  BY <1>5
<1>7. ASSUME NEW n \in Nat PROVE Pow10[n + 1] = 10 * Pow10[n]
  <2>1. n + 1 \in Nat /\ n + 1 # 0 /\ (n + 1) - 1 = n
    OBVIOUS
  <2> QED
    BY <1>5, <2>1
<1> DEFINE T == {n \in Nat : Pow10[n] \in Nat \ {0}}
<1>8. 0 \in T
  BY <1>6
<1>9. ASSUME NEW n \in Nat, n \in T PROVE n + 1 \in T
  <2>1. Pow10[n] \in Nat \ {0} /\ Pow10[n + 1] = 10 * Pow10[n]
    BY <1>7, <1>9
  <2>2. n + 1 \in Nat /\ Pow10[n + 1] \in Nat \ {0}
    BY <2>1
  <2> QED
    BY <2>2
<1>10. \A n \in Nat : n \in T
  <2> HIDE DEF T
  <2> QED
    BY <1>8, <1>9, NumbersByInduction
<1> QED
  BY <1>6, <1>7, <1>10

\* The power of a sum, and the powers in order.
LEMMA Pow10Sum ==
  ASSUME NEW m \in Nat, NEW n \in Nat
  PROVE  Pow10[m + n] = Pow10[m] * Pow10[n] /\ Pow10[m] <= Pow10[m + n]
<1> DEFINE T == {k \in Nat : Pow10[m + k] = Pow10[m] * Pow10[k]}
<1>1. Pow10[m] \in Nat /\ Pow10[0] = 1
  BY Pow10Values
<1>2. 0 \in T
  BY <1>1
<1>3. ASSUME NEW k \in Nat, k \in T PROVE k + 1 \in T
  <2>1. k + 1 \in Nat /\ m + k \in Nat /\ m + (k + 1) = (m + k) + 1
    OBVIOUS
  <2>2. Pow10[m + k] = Pow10[m] * Pow10[k]
    BY <1>3
  <2>3. /\ Pow10[k] \in Nat /\ Pow10[k + 1] = 10 * Pow10[k]
        /\ Pow10[m + k] \in Nat /\ Pow10[(m + k) + 1] = 10 * Pow10[m + k]
    BY <2>1, Pow10Values
  <2>4. 10 * (Pow10[m] * Pow10[k]) = Pow10[m] * (10 * Pow10[k])
    BY <1>1, <2>3
  <2>5. Pow10[m + (k + 1)] = Pow10[m] * Pow10[k + 1]
    BY <2>1, <2>2, <2>3, <2>4
  <2> QED
    BY <2>1, <2>5
<1>4. n \in T
  <2> HIDE DEF T
  <2> QED
    BY <1>2, <1>3, NumbersByInduction
<1>5. Pow10[n] \in Nat /\ 1 <= Pow10[n]
  BY Pow10Values
<1>6. Pow10[m] * 1 <= Pow10[m] * Pow10[n]
  BY <1>1, <1>5, TimesMonotonic
<1>7. Pow10[m] * 1 = Pow10[m]
  BY <1>1
<1> QED
  BY <1>4, <1>6, <1>7

\* How many digits are dropped: a number has no more than `digits` others, and
\* has as many when some are dropped.
LEMMA DroppedDigits ==
  ASSUME NEW whole \in Nat, NEW digits \in Nat
  PROVE  LET k == Dropped(whole, digits)
         IN  /\ k \in Nat /\ whole < Pow10[digits + k]
             /\ \A j \in 0..(k - 1) : whole >= Pow10[digits + j]
<1> DEFINE U == {k \in Nat : k < Pow10[digits + k]}
           T == {k \in Nat : whole < Pow10[digits + k]}
<1>1. 0 \in U
  <2>1. digits + 0 = digits /\ Pow10[digits] \in Nat \ {0}
    BY Pow10Values
  <2> QED
    BY <2>1
<1>2. ASSUME NEW k \in Nat, k \in U PROVE k + 1 \in U
  <2>1. k + 1 \in Nat /\ digits + k \in Nat /\ digits + (k + 1) = (digits + k) + 1
    OBVIOUS
  <2>2. Pow10[digits + k] \in Nat /\ Pow10[(digits + k) + 1] = 10 * Pow10[digits + k]
    BY <2>1, Pow10Values
  <2>3. k < Pow10[digits + k]
    BY <1>2
  <2>4. k + 1 < Pow10[digits + (k + 1)]
    BY <2>1, <2>2, <2>3
  <2> QED
    BY <2>1, <2>4
<1>3. whole \in U
  <2> HIDE DEF U
  <2> QED
    BY <1>1, <1>2, NumbersByInduction
<1>4. T \in SUBSET Nat /\ whole \in T
  BY <1>3
<1>5. PICK k \in T : \A j \in T : k <= j
  BY <1>4, LeastNumber
<1>6. k \in 0..whole /\ whole < Pow10[digits + k]
  BY <1>4, <1>5
<1>7. ASSUME NEW j \in 0..(k - 1) PROVE whole >= Pow10[digits + j]
  <2>1. j \in Nat /\ ~(k <= j) /\ digits + j \in Nat
    BY <1>6
  <2>2. ~(whole < Pow10[digits + j])
    BY <1>5, <2>1
  <2>3. Pow10[digits + j] \in Nat
    BY <2>1, Pow10Values
  <2> QED
    BY <2>2, <2>3
<1> DEFINE d == Dropped(whole, digits)
<1>8. /\ d \in 0..whole /\ whole < Pow10[digits + d]
      /\ \A j \in 0..(d - 1) : whole >= Pow10[digits + j]
  BY <1>6, <1>7 DEF Dropped
<1> QED
  BY <1>8

\* A fraction that is more than 1 is rounded at a digit k, and is between the
\* powers of ten that this says.
RoundedAt(num, den, digits, k) ==
  /\ k \in Nat
  /\ RoundSigDig(num, den, digits) = Round(num, den * Pow10[k]) * Pow10[k]
  /\ \A j \in 0..(k - 1) : den * Pow10[digits + j] <= num
  /\ num < den * Pow10[digits + k]

LEMMA RoundedDigit ==
  ASSUME NEW num \in Nat, NEW den \in Nat \ {0}, NEW digits \in Nat, num > den
  PROVE  \E k : RoundedAt(num, den, digits, k)
<1> DEFINE whole == num \div den
           k     == Dropped(whole, digits)
<1>1. whole \in Nat /\ den * whole <= num /\ num < den * whole + den
  <2>1. whole \in Nat /\ num % den \in Nat /\ num % den < den /\ num = den * whole + (num % den)
    BY Division
  <2>2. den * whole \in Nat
    BY <2>1
  <2> HIDE DEF whole
  <2> QED
    BY <2>1, <2>2
<1>2. RoundSigDig(num, den, digits) = Round(num, den * Pow10[k]) * Pow10[k]
  BY DEF RoundSigDig
<1> HIDE DEF whole
<1>3. /\ k \in Nat /\ whole < Pow10[digits + k]
      /\ \A j \in 0..(k - 1) : whole >= Pow10[digits + j]
  BY <1>1, DroppedDigits
<1> HIDE DEF k
<1>4. digits + k \in Nat /\ Pow10[digits + k] \in Nat /\ whole + 1 <= Pow10[digits + k]
  <2>1. digits + k \in Nat
    BY <1>3
  <2>2. Pow10[digits + k] \in Nat
    BY <2>1, Pow10Values
  <2> QED
    BY <1>1, <1>3, <2>1, <2>2
<1>5. num < den * Pow10[digits + k]
  <2>1. den * (whole + 1) <= den * Pow10[digits + k]
    BY <1>1, <1>4, TimesMonotonic
  <2>2. den * (whole + 1) = den * whole + den /\ den * whole \in Nat
    BY <1>1
  <2>3. den * Pow10[digits + k] \in Nat
    BY <1>4
  <2> QED
    BY <1>1, <2>1, <2>2, <2>3
<1>6. ASSUME NEW j \in 0..(k - 1) PROVE den * Pow10[digits + j] <= num
  <2>1. digits + j \in Nat
    BY <1>3
  <2>2. Pow10[digits + j] \in Nat /\ Pow10[digits + j] <= whole
    BY <1>1, <1>3, <2>1, Pow10Values
  <2>3. den * Pow10[digits + j] <= den * whole
    BY <1>1, <2>2, TimesMonotonic
  <2>4. den * Pow10[digits + j] \in Nat /\ den * whole \in Nat
    BY <1>1, <2>2
  <2> QED
    BY <1>1, <2>3, <2>4
<1> QED
  BY <1>2, <1>3, <1>5, <1>6 DEF RoundedAt

\* It is then not more than the power above, and not less than the one below.
LEMMA RoundedBounds ==
  ASSUME NEW num \in Nat, NEW den \in Nat \ {0}, NEW digits \in Nat \ {0}, NEW k,
         RoundedAt(num, den, digits, k)
  PROVE  /\ k \in Nat /\ RoundSigDig(num, den, digits) \in Nat
         /\ RoundSigDig(num, den, digits) <= Pow10[digits + k]
         /\ k > 0 => Pow10[digits + (k - 1)] <= RoundSigDig(num, den, digits)
<1> DEFINE P  == Pow10[k]
           D  == den * P
           R  == Round(num, D)
           up == Pow10[digits]
           dn == Pow10[digits - 1]
<1>1. /\ k \in Nat /\ RoundSigDig(num, den, digits) = R * P
      /\ \A j \in 0..(k - 1) : den * Pow10[digits + j] <= num
      /\ num < den * Pow10[digits + k]
  BY DEF RoundedAt
<1>2. digits - 1 \in Nat /\ digits \in Nat
  OBVIOUS
<1>3. P \in Nat \ {0} /\ up \in Nat \ {0} /\ dn \in Nat \ {0}
  BY <1>1, <1>2, Pow10Values
<1>4. Pow10[digits + k] = up * P
  BY <1>1, <1>2, Pow10Sum
<1>5. Pow10[(digits - 1) + k] = dn * P
  BY <1>1, <1>2, Pow10Sum
<1> HIDE DEF P, up, dn
<1>6. D \in Nat \ {0}
  BY <1>3
<1>7. den * (up * P) = D * up /\ den * (dn * P) = D * dn /\ D * up \in Nat /\ D * dn \in Nat
  BY <1>3
<1> HIDE DEF D
<1>8. R \in Nat
  BY <1>6, RoundHalf
<1>9. R <= up
  <2>1. num <= D * up
    BY <1>1, <1>4, <1>7
  <2> QED
    BY <1>3, <1>6, <2>1, RoundWithin
<1>10. ASSUME k > 0 PROVE dn <= R
  <2>1. k - 1 \in 0..(k - 1) /\ digits + (k - 1) = (digits - 1) + k
    BY <1>1, <1>10
  <2>2. D * dn <= num
    BY <1>1, <1>5, <1>7, <2>1
  <2> QED
    BY <1>3, <1>6, <2>2, RoundWithin
<1> HIDE DEF R
<1>11. R * P <= up * P /\ R * P \in Nat
  BY <1>3, <1>8, <1>9, TimesMonotonic
<1>12. ASSUME k > 0 PROVE dn * P <= R * P
  BY <1>3, <1>8, <1>10, <1>12, TimesMonotonic
<1>13. digits + (k - 1) = (digits - 1) + k
  BY <1>1, <1>2
<1> QED
  BY <1>1, <1>4, <1>5, <1>11, <1>12, <1>13

\* round_sig_dig returns a whole number that is not 0 (v3bwfile.py: "Results less
\* than or equal to 1 are rounded to 1").
THEOREM RoundSigDigPositive ==
  ASSUME NEW num \in Nat, NEW den \in Nat \ {0}, NEW digits \in Nat \ {0}
  PROVE  RoundSigDig(num, den, digits) \in Nat \ {0}
<1>1. CASE num <= den
  BY <1>1 DEF RoundSigDig
<1>2. CASE ~(num <= den)
  <2>1. num > den
    BY <1>2
  <2>2. PICK k : RoundedAt(num, den, digits, k)
    BY <2>1, RoundedDigit
  <2> DEFINE R == RoundSigDig(num, den, digits)
  <2>3. k \in Nat /\ R \in Nat /\ (k > 0 => Pow10[digits + (k - 1)] <= R)
    BY <2>2, RoundedBounds
  <2>4. CASE k > 0
    <3>1. digits + (k - 1) \in Nat
      BY <2>3, <2>4
    <3>2. Pow10[digits + (k - 1)] \in Nat \ {0}
      BY <3>1, Pow10Values
    <3> HIDE DEF R
    <3>3. R \in Nat \ {0}
      BY <2>3, <2>4, <3>2
    <3> QED
      BY <3>3 DEF R
  <2>5. CASE k = 0
    <3>1. R = Round(num, den * 1) * 1
      BY <2>2, <2>5, Pow10Values DEF RoundedAt
    <3>2. den * 1 = den /\ Round(num, den) \in Nat
      BY RoundHalf
    <3>3. R = Round(num, den)
      BY <3>1, <3>2
    <3>4. 1 <= Round(num, den)
      <4>1. den * 1 <= num
        BY <2>1
      <4> QED
        BY <4>1, RoundWithin
    <3> HIDE DEF R
    <3>5. R \in Nat \ {0}
      BY <3>2, <3>3, <3>4
    <3> QED
      BY <3>5 DEF R
  <2> QED
    BY <2>3, <2>4, <2>5
<1> QED
  BY <1>1, <1>2

\* round_sig_dig is monotonic: rounding does not change the order of two
\* fractions, though they may be rounded at different digits.
THEOREM RoundSigDigMonotonic ==
  ASSUME NEW m \in Nat, NEW n \in Nat, NEW den \in Nat \ {0}, NEW digits \in Nat \ {0}, m <= n
  PROVE  RoundSigDig(m, den, digits) <= RoundSigDig(n, den, digits)
<1> DEFINE M == RoundSigDig(m, den, digits)
           N == RoundSigDig(n, den, digits)
<1>1. M \in Nat \ {0} /\ N \in Nat \ {0}
  BY RoundSigDigPositive
<1>2. CASE m <= den
  <2>1. M = 1
    BY <1>2 DEF RoundSigDig
  <2> HIDE DEF M, N
  <2>2. M <= N
    BY <1>1, <2>1
  <2> QED
    BY <2>2 DEF M, N
<1>3. CASE ~(m <= den)
  <2>1. m > den /\ n > den
    BY <1>3
  <2>2. PICK j : RoundedAt(m, den, digits, j)
    BY <2>1, RoundedDigit
  <2>3. PICK k : RoundedAt(n, den, digits, k)
    BY <2>1, RoundedDigit
  <2>4. j \in Nat /\ M <= Pow10[digits + j]
    BY <2>2, RoundedBounds
  <2>5. k \in Nat /\ (k > 0 => Pow10[digits + (k - 1)] <= N)
    BY <2>3, RoundedBounds
  <2>6. CASE j = k
    <3>1. M = Round(m, den * Pow10[k]) * Pow10[k] /\ N = Round(n, den * Pow10[k]) * Pow10[k]
      BY <2>2, <2>3, <2>6 DEF RoundedAt
    <3>2. Pow10[k] \in Nat \ {0}
      BY <2>5, Pow10Values
    <3>3. den * Pow10[k] \in Nat \ {0}
      BY <3>2
    <3>4. /\ Round(m, den * Pow10[k]) <= Round(n, den * Pow10[k])
          /\ Round(m, den * Pow10[k]) \in Nat /\ Round(n, den * Pow10[k]) \in Nat
      BY <3>3, RoundMonotonic, RoundHalf
    <3>5. Round(m, den * Pow10[k]) * Pow10[k] <= Round(n, den * Pow10[k]) * Pow10[k]
      BY <3>2, <3>4, TimesMonotonic
    <3> QED
      BY <3>1, <3>5
  <2>7. CASE j < k
    <3>1. k > 0 /\ digits + j \in Nat /\ (k - 1) - j \in Nat
          /\ (digits + j) + ((k - 1) - j) = digits + (k - 1) /\ digits + (k - 1) \in Nat
      BY <2>4, <2>5, <2>7
    <3>2. Pow10[digits + j] <= Pow10[(digits + j) + ((k - 1) - j)]
      BY <3>1, Pow10Sum
    <3>3. Pow10[digits + j] \in Nat /\ Pow10[digits + (k - 1)] \in Nat
      BY <3>1, Pow10Values
    <3> HIDE DEF M, N
    <3>4. M <= N
      BY <1>1, <2>4, <2>5, <3>1, <3>2, <3>3
    <3> QED
      BY <3>4 DEF M, N
  <2>8. CASE k < j
    <3>1. n < den * Pow10[digits + k]
      BY <2>3 DEF RoundedAt
    <3>2. k \in 0..(j - 1)
      BY <2>4, <2>5, <2>8
    <3>3. den * Pow10[digits + k] <= m
      BY <2>2, <3>2 DEF RoundedAt
    <3>4. digits + k \in Nat
      BY <2>5
    <3>5. den * Pow10[digits + k] \in Nat
      BY <3>4, Pow10Values
    <3> QED
      BY <3>1, <3>3, <3>5
  <2> QED
    BY <2>4, <2>5, <2>6, <2>7, <2>8
<1> QED
  BY <1>2, <1>3

-----------------------------------------------------------------------------
(***************************************************************************)
(* What a line says.                                                       *)
(***************************************************************************)

\* The results that a line is made of: all of them are successes.
AreSuccesses(list) ==
  /\ Len(list) \in Nat /\ DOMAIN list = 1..Len(list)
  /\ \A k \in 1..Len(list) : IsResult(list[k]) /\ IsSuccess(list[k])

LEMMA RecentsAreSuccesses ==
  ASSUME InputInv, NEW relay \in Relays, NEW list, RecentsRead(list, relay)
  PROVE  AreSuccesses(list) /\ (list = << >> <=> Len(list) = 0)
<1>1. PICK pos : IsReadOf(list, relay, pos) /\ \A k \in 1..Len(list) : pos[k] \in Successes(relay)
  BY DEF RecentsRead
<1>2. /\ Len(list) \in Nat /\ DOMAIN list = 1..Len(list)
      /\ \A k \in 1..Len(list) : IsResult(list[k]) /\ IsSuccess(list[k])
  BY <1>1, ReadResults
<1>3. list = << >> <=> Len(list) = 0
  BY <1>1, ReadEmpty
<1> QED
  BY <1>2, <1>3 DEF AreSuccesses

\* What is picked of a sequence is a sequence.
LEMMA PickedType ==
  ASSUME NEW L \in Nat, NEW seq, NEW keep \in SUBSET (1..L), NEW S, ItemsIn(seq, keep, S)
  PROVE  /\ Picked(seq, keep) \in Seq(S) /\ Len(Picked(seq, keep)) = Cardinality(keep)
         /\ Cardinality(keep) \in Nat
<1>1. IsFiniteSet(1..L)
  BY FS_Interval
<1>2. IsFiniteSet(keep) /\ Cardinality(keep) \in Nat /\ keep \in SUBSET Nat
  <2>1. keep \in SUBSET Nat
    OBVIOUS
  <2>2. IsFiniteSet(keep)
    BY <1>1, FS_Subset
  <2> QED
    BY <2>1, <2>2, FS_CardinalityType
<1>3. PICK pos : IsSelection(Picked(seq, keep), seq, keep, pos)
  BY <1>2, PickedSelects
<1>4. IsSeqOf(Picked(seq, keep), seq, keep, pos, S)
  BY <1>3, SelectionSeq
<1> QED
  BY <1>2, <1>4 DEF IsSeqOf

\* The values that are not None are numbers.
LEMMA KnownValues ==
  ASSUME NEW L \in Nat, NEW values, DOMAIN values = 1..L, \A i \in 1..L : IsBandwidth(values[i])
  PROVE  /\ LastOf(values) \in Nat \cup {None}
         /\ LastOf(values) # None => MeanOf(values) \in Nat
<1> DEFINE keep  == {i \in DOMAIN values : values[i] # None}
           known == Picked(values, keep)
<1>1. LastOf(values) = IF known = << >> THEN None ELSE Last(known)
  BY DEF LastOf, Filter
<1>2. MeanOf(values) = IF known = << >> THEN None ELSE Round(Sum(known), Len(known))
  BY DEF MeanOf, Filter
<1>3. keep \in SUBSET (1..L) /\ ItemsIn(values, keep, Nat)
  BY DEF ItemsIn, IsBandwidth
<1> HIDE DEF keep
<1>4. known \in Seq(Nat)
  BY <1>3, PickedType
<1> HIDE DEF known
<1>5. CASE known = << >>
  BY <1>1, <1>5
<1>6. CASE known # << >>
  <2>1. Len(known) \in Nat \ {0}
    BY <1>4, <1>6, EmptySeq, LenProperties
  <2>2. Last(known) \in Nat
    <3>1. Last(known) = known[Len(known)] /\ Len(known) \in 1..Len(known)
      BY <2>1 DEF Last
    <3> QED
      BY <1>4, <3>1, ElementOfSeq
  <2>3. Round(Sum(known), Len(known)) \in Nat
    BY <1>4, <2>1, SumType, RoundHalf
  <2> QED
    BY <1>1, <1>2, <1>6, <2>2, <2>3
<1> QED
  BY <1>5, <1>6

\* The rates are numbers, and so are what is computed of them: the median is not
\* 0.
LEMMA RatesType ==
  ASSUME NEW list, AreSuccesses(list)
  PROVE  Rates(list) \in Seq(Nat)
<1> DEFINE downloads == Map(LAMBDA result : result.downloads, list)
<1>1. downloads = [k \in 1..Len(list) |-> list[k].downloads]
  BY DEF AreSuccesses, Map
<1>2. \A k \in 1..Len(list) : list[k].downloads \in Seq(Nat)
  BY DEF AreSuccesses, IsResult
<1>3. Len(list) \in Nat
  BY DEF AreSuccesses
<1>4. Rates(list) = Joined(downloads)
  BY DEF Rates
<1> HIDE DEF downloads
<1>5. downloads \in Seq(Seq(Nat))
  <2>1. downloads \in [1..Len(list) -> Seq(Nat)]
    BY <1>1, <1>2
  <2> QED
    BY <1>3, <2>1
<1> QED
  BY <1>4, <1>5, JoinedType

LEMMA BandwidthsType ==
  ASSUME NEW list, AreSuccesses(list)
  PROVE  BwMedian(list) \in Nat \ {0} /\ BwMean(list) \in Nat /\ BwFilt(list) \in Nat
<1> DEFINE rates == Rates(list)
           mu    == BwMean(list)
           keep  == {i \in DOMAIN rates : rates[i] >= 2 * mu}
           high  == Picked(rates, keep)
<1>1. rates \in Seq(Nat)
  BY RatesType
<1>2. Len(rates) \in Nat /\ DOMAIN rates = 1..Len(rates) /\ (rates # << >> => Len(rates) > 0)
  BY <1>1, LenProperties, EmptySeq
<1>3. BwMedian(list) = IF rates = << >> THEN 1
                       ELSE LargerOf(Round(Median(rates, 2).num, Median(rates, 2).den), 1)
  BY DEF BwMedian
<1>4. BwMean(list) = IF rates = << >> THEN 0 ELSE Round(Sum(rates), 2 * Len(rates))
  BY DEF BwMean
<1>5. BwFilt(list) = IF high = << >> THEN mu ELSE Round(Sum(high), 2 * Len(high))
  BY DEF BwFilt, Filter
<1> HIDE DEF rates, high
<1>6. BwMedian(list) \in Nat \ {0}
  <2>1. CASE rates = << >>
    BY <1>3, <2>1
  <2>2. CASE rates # << >>
    <3>1. Median(rates, 2).num \in Nat /\ Median(rates, 2).den \in Nat \ {0}
      BY <1>1, <1>2, <2>2, MedianType
    <3> DEFINE R == Round(Median(rates, 2).num, Median(rates, 2).den)
    <3>2. R \in Nat
      BY <3>1, RoundHalf
    <3>3. BwMedian(list) = LargerOf(R, 1)
      BY <1>3, <2>2
    <3> HIDE DEF R
    <3> QED
      BY <3>2, <3>3 DEF LargerOf
  <2> QED
    BY <2>1, <2>2
<1>7. mu \in Nat
  <2>1. CASE rates = << >>
    BY <1>4, <2>1
  <2>2. CASE rates # << >>
    <3>1. 2 * Len(rates) \in Nat \ {0} /\ Sum(rates) \in Nat
      BY <1>1, <1>2, <2>2, SumType
    <3> QED
      BY <1>4, <2>2, <3>1, RoundHalf
  <2> QED
    BY <2>1, <2>2
<1>8. BwFilt(list) \in Nat
  <2>1. keep \in SUBSET (1..Len(rates)) /\ ItemsIn(rates, keep, Nat)
    BY <1>1, <1>2, ElementOfSeq DEF ItemsIn
  <2> HIDE DEF keep, mu
  <2>2. high \in Seq(Nat)
    BY <1>2, <2>1, PickedType DEF high
  <2>3. CASE high = << >>
    BY <1>5, <1>7, <2>3
  <2>4. CASE high # << >>
    <3>1. 2 * Len(high) \in Nat \ {0} /\ Sum(high) \in Nat
      BY <2>2, <2>4, SumType, LenProperties, EmptySeq
    <3> QED
      BY <1>5, <2>4, <3>1, RoundHalf
  <2> QED
    BY <2>3, <2>4
<1> QED
  BY <1>6, <1>7, <1>8

\* What the scaling needs of a line that is not excluded.
IsScalable(l) ==
  /\ {"mean", "filt", "average", "burst", "obsLast", "obsMean"} \subseteq DOMAIN l
  /\ l.mean \in Nat /\ l.filt \in Nat /\ l.average \in Nat \cup {None}
  /\ l.burst \in Nat \cup {None} /\ l.obsLast \in Nat /\ l.obsMean \in Nat

LEMMA EligibleType ==
  ASSUME NEW relay, NEW list, AreSuccesses(list), LastOf(Observed(list)) # None, NEW counts
  PROVE  IsScalable(Eligible(relay, list, counts)) /\ Eligible(relay, list, counts).bw \in Nat \ {0}
<1> DEFINE L == Len(list)
           observed == Observed(list)
           average  == Map(LAMBDA result : result.relay.bandwidths.average, list)
           burst    == Map(LAMBDA result : result.relay.bandwidths.burst, list)
           l        == Eligible(relay, list, counts)
<1>1. L \in Nat /\ DOMAIN list = 1..L /\ \A k \in 1..L : IsResult(list[k])
  BY DEF AreSuccesses
<1>2. DOMAIN observed = 1..L /\ \A k \in 1..L : IsBandwidth(observed[k])
  BY <1>1 DEF Observed, Map, IsResult
<1>3. DOMAIN average = 1..L /\ \A k \in 1..L : IsBandwidth(average[k])
  BY <1>1 DEF Map, IsResult
<1>4. DOMAIN burst = 1..L /\ \A k \in 1..L : IsBandwidth(burst[k])
  BY <1>1 DEF Map, IsResult
<1>5. /\ l.mean = BwMean(list) /\ l.filt = BwFilt(list) /\ l.bw = BwMedian(list)
      /\ l.average = LastOf(average) /\ l.burst = LastOf(burst)
      /\ l.obsLast = LastOf(observed) /\ l.obsMean = MeanOf(observed)
      /\ {"mean", "filt", "average", "burst", "obsLast", "obsMean"} \subseteq DOMAIN l
  BY DEF Eligible
<1> HIDE DEF L, observed, average, burst, l
<1>6. LastOf(observed) \in Nat /\ MeanOf(observed) \in Nat
  <2>1. LastOf(observed) # None
    BY DEF observed
  <2> QED
    BY <1>1, <1>2, <2>1, KnownValues
<1>7. LastOf(average) \in Nat \cup {None} /\ LastOf(burst) \in Nat \cup {None}
  BY <1>1, <1>3, <1>4, KnownValues
<1>8. BwMedian(list) \in Nat \ {0} /\ BwMean(list) \in Nat /\ BwFilt(list) \in Nat
  BY BandwidthsType
<1> QED
  BY <1>5, <1>6, <1>7, <1>8 DEF IsScalable, l

\* So many of the results are of some types, and one type more.
OfTypes(list, types) == {i \in DOMAIN list : Type(list[i].class) \in types}
Counted(list, types, n) == n \in Nat /\ Cardinality(OfTypes(list, types)) = n

LEMMA CountOneMore ==
  ASSUME NEW list, Len(list) \in Nat, DOMAIN list = 1..Len(list), NEW types,
         NEW type \in ResultTypes, type \notin types, NEW n, Counted(list, types, n)
  PROVE  Counted(list, types \cup {type}, n + ResultTypesOf(list)[type])
<1> DEFINE A == OfTypes(list, types)
           B == {i \in DOMAIN list : Type(list[i].class) = type}
<1>1. IsFiniteSet(DOMAIN list)
  BY FS_Interval
<1>2. A \in SUBSET (DOMAIN list) /\ B \in SUBSET (DOMAIN list)
  BY DEF OfTypes
<1>3. A \cap B = {} /\ OfTypes(list, types \cup {type}) = A \cup B
  BY DEF OfTypes
<1>4. ResultTypesOf(list)[type] = Cardinality(B)
  BY DEF ResultTypesOf
<1> HIDE DEF A, B
<1>5. IsFiniteSet(A) /\ IsFiniteSet(B) /\ Cardinality(B) \in Nat
  BY <1>1, <1>2, FS_Subset, FS_CardinalityType
<1>6. Cardinality(A \cup B) = Cardinality(A) + Cardinality(B) - Cardinality(A \cap B)
  BY <1>5, FS_Union
<1>7. Cardinality(A \cap B) = 0
  BY <1>3, FS_EmptySet
<1>8. Cardinality(A) = n /\ n \in Nat
  BY DEF A, Counted
<1>9. Cardinality(A \cup B) = n + Cardinality(B)
  BY <1>5, <1>6, <1>7, <1>8
<1>10. n + Cardinality(B) \in Nat
  BY <1>5, <1>8
<1>11. Counted(list, types \cup {type}, n + Cardinality(B))
  BY <1>3, <1>9, <1>10 DEF Counted
<1> QED
  BY <1>4, <1>11

\* Each result is of one of the types that are counted.
LEMMA KnownTypes ==
  ASSUME NEW list, Len(list) \in Nat, DOMAIN list = 1..Len(list),
         \A i \in 1..Len(list) : Type(list[i].class) \in ResultTypes
  PROVE  Known(ResultTypesOf(list)) = Len(list)
<1> DEFINE t  == ResultTypesOf(list)
           T1 == {} \cup {"success"}
           T2 == T1 \cup {"error-misc"}
           T3 == T2 \cup {"error-circ"}
           T4 == T3 \cup {"error-stream"}
           T5 == T4 \cup {"error-auth"}
           T6 == T5 \cup {"error-second-relay"}
           T7 == T6 \cup {"error-destination"}
           n1 == 0 + t["success"]
           n2 == n1 + t["error-misc"]
           n3 == n2 + t["error-circ"]
           n4 == n3 + t["error-stream"]
           n5 == n4 + t["error-auth"]
           n6 == n5 + t["error-second-relay"]
           n7 == n6 + t["error-destination"]
<1>1. T7 = ResultTypes
  BY DEF ResultTypes, ErrorTypes
<1>2. "success" \in ResultTypes /\ "success" \notin {}
  BY DEF ResultTypes, ErrorTypes
<1>3. "error-misc" \in ResultTypes /\ "error-misc" \notin T1
  BY DEF ResultTypes, ErrorTypes
<1>4. "error-circ" \in ResultTypes /\ "error-circ" \notin T2
  BY DEF ResultTypes, ErrorTypes
<1>5. "error-stream" \in ResultTypes /\ "error-stream" \notin T3
  BY DEF ResultTypes, ErrorTypes
<1>6. "error-auth" \in ResultTypes /\ "error-auth" \notin T4
  BY DEF ResultTypes, ErrorTypes
<1>7. "error-second-relay" \in ResultTypes /\ "error-second-relay" \notin T5
  BY DEF ResultTypes, ErrorTypes
<1>8. "error-destination" \in ResultTypes /\ "error-destination" \notin T6
  BY DEF ResultTypes, ErrorTypes
<1>9. Counted(list, {}, 0)
  <2>1. OfTypes(list, {}) = {}
    BY DEF OfTypes
  <2> QED
    BY <2>1, FS_EmptySet DEF Counted
<1>10. Counted(list, T1, n1)
  BY <1>2, <1>9, CountOneMore
<1>11. Counted(list, T2, n2)
  <2> HIDE DEF T1, n1
  <2> QED
    BY <1>3, <1>10, CountOneMore
<1>12. Counted(list, T3, n3)
  <2> HIDE DEF T2, n2
  <2> QED
    BY <1>4, <1>11, CountOneMore
<1>13. Counted(list, T4, n4)
  <2> HIDE DEF T3, n3
  <2> QED
    BY <1>5, <1>12, CountOneMore
<1>14. Counted(list, T5, n5)
  <2> HIDE DEF T4, n4
  <2> QED
    BY <1>6, <1>13, CountOneMore
<1>15. Counted(list, T6, n6)
  <2> HIDE DEF T5, n5
  <2> QED
    BY <1>7, <1>14, CountOneMore
<1>16. Counted(list, T7, n7)
  <2> HIDE DEF T6, n6
  <2> QED
    BY <1>8, <1>15, CountOneMore
<1>17. OfTypes(list, T7) = 1..Len(list)
  BY <1>1 DEF OfTypes
<1>18. Cardinality(OfTypes(list, T7)) = Len(list)
  BY <1>17, FS_Interval
<1> HIDE DEF T7
<1>19. t["success"] \in Nat
  <2>1. {i \in DOMAIN list : Type(list[i].class) = "success"} \in SUBSET (1..Len(list))
    OBVIOUS
  <2>2. IsFiniteSet(1..Len(list))
    BY FS_Interval
  <2>3. IsFiniteSet({i \in DOMAIN list : Type(list[i].class) = "success"})
    BY <2>1, <2>2, FS_Subset
  <2> QED
    BY <1>2, <2>3, FS_CardinalityType DEF ResultTypesOf
<1>20. Known(t) = n7
  <2> HIDE DEF t
  <2> QED
    BY <1>19 DEF Known
<1>21. n7 = Len(list)
  <2> HIDE DEF n7
  <2> QED
    BY <1>16, <1>18 DEF Counted
<1> QED
  BY <1>20, <1>21

\* The line of a relay, and what it says of the lines on disk.
IsLineOf(l, relay) ==
  /\ {"relay", "bw", "vote", "under", "reason", "counts"} \subseteq DOMAIN l
  /\ l.relay = relay /\ l.bw \in Nat \ {0}
  /\ l.reason \in Reasons \cup {"no_observed_bw", None}
  /\ l.vote => MeasuredEnough(relay)
  /\ l.reason # "no_observed_bw" => CountsAgree(l)
  /\ l.reason = None => IsScalable(l)

\* The results that were left out, and those that were not, are all of them.
CountsAre(l, list, left) ==
  /\ l.counts.types = ResultTypesOf(list)
  /\ l.counts.error + l.counts.near + l.counts.old + l.counts.few = Len(list) - left

LEMMA CountsOfLine ==
  ASSUME InputInv, NEW relay \in Relays, NEW list, IsLoaded(list, relay),
         NEW l, l.relay = relay, NEW left \in Nat, CountsAre(l, list, left), left <= Len(list),
         l.reason = None <=> left > 0
  PROVE  CountsAgree(l)
<1>1. PICK pos : IsReadOf(list, relay, pos)
  BY DEF IsLoaded
<1>2. /\ Len(list) \in Nat /\ DOMAIN list = 1..Len(list)
      /\ \A k \in 1..Len(list) : Type(list[k].class) \in ResultTypes
  BY <1>1, ReadResults DEF IsResult
<1>3. Known(l.counts.types) = Len(list)
  BY <1>2, KnownTypes DEF CountsAre
<1>4. /\ Len(list) <= Cardinality(Current(l.relay))
      /\ ~args.reset => Len(list) = Cardinality(Current(l.relay))
  BY DEF IsLoaded
<1> DEFINE total == l.counts.error + l.counts.near + l.counts.old + l.counts.few
<1>5. total = Len(list) - left
  BY DEF CountsAre
<1> HIDE DEF total
<1>6. IF l.reason = None THEN total < Len(list) ELSE total = Len(list)
  <2>1. CASE left > 0
    <3>1. l.reason = None /\ total < Len(list)
      BY <1>2, <1>5, <2>1
    <3> QED
      BY <3>1
  <2>2. CASE ~(left > 0)
    <3>1. left = 0
      BY <2>2
    <3>2. total = Len(list)
      BY <1>2, <1>5, <3>1
    <3> QED
      BY <2>2, <3>2
  <2> QED
    BY <2>1, <2>2
<1> QED
  BY <1>3, <1>4, <1>6 DEF CountsAgree, total

\* The filters, and that a relay is voted on when they leave enough.
LEMMA FiltersOfLine ==
  ASSUME InputInv, NEW relay \in Relays, NEW list, IsLoaded(list, relay)
  PROVE  LET success == Filter(list, IsSuccess)
             away    == AwayEachOther(success)
             recent  == RecentThan(away)
         IN  /\ AreSuccesses(recent) /\ (recent = << >> <=> Len(recent) = 0)
             /\ Len(list) \in Nat /\ Len(success) \in Nat /\ Len(away) \in Nat
             /\ Len(recent) \in Nat /\ Len(success) <= Len(list) /\ Len(away) <= Len(success)
             /\ Len(recent) <= Len(away)
             /\ success = << >> <=> Len(success) = 0
             /\ away = << >> <=> Len(away) = 0
             /\ Len(recent) > 0 /\ Len(recent) >= args.minNum => MeasuredEnough(relay)
<1> DEFINE success == Filter(list, IsSuccess)
           away    == AwayEachOther(success)
           recent  == RecentThan(away)
           S       == Successes(relay)
           R       == {j \in S : IsRecent(disk[relay][j])}
<1>1. /\ SuccessesRead(success, relay) /\ Len(success) \in Nat /\ Len(success) <= Len(list)
      /\ ~args.reset => Cardinality(S) <= Len(success)
  BY SuccessRead
<1>2. Len(list) \in Nat
  BY ReadEmpty DEF IsLoaded
<1> HIDE DEF success
<1>3. /\ SuccessesRead(away, relay) /\ Len(away) \in Nat /\ Len(away) <= Len(success)
      /\ Len(away) > 0 /\ args.secsAway # None /\ Len(success) > 1 =>
           \E j, k \in S : disk[relay][j].time > disk[relay][k].time + args.secsAway
  BY <1>1, AwayRead
<1>4. success = << >> <=> Len(success) = 0
  BY <1>1, ReadEmpty DEF SuccessesRead
<1>5. away = << >> <=> Len(away) = 0
  BY <1>3, ReadEmpty DEF SuccessesRead
<1> HIDE DEF away
<1>6. /\ RecentsRead(recent, relay) /\ Len(recent) \in Nat /\ Len(recent) <= Len(away)
  BY <1>3, RecentRead
<1> HIDE DEF recent
<1>7. AreSuccesses(recent) /\ (recent = << >> <=> Len(recent) = 0)
  BY <1>6, RecentsAreSuccesses
<1>8. Len(recent) <= Cardinality(R) /\ Cardinality(R) \in Nat
  BY <1>6, RecentsOnDisk
<1>9. args.minNum \in Nat
  BY ArgumentsAssumption DEF InputInv
<1>10. Cardinality(S) \in Nat
  <2>1. S \in SUBSET Current(relay) /\ IsFiniteSet(Current(relay))
    BY CurrentFinite DEF Successes
  <2> QED
    BY <2>1, FS_Subset, FS_CardinalityType
<1> HIDE DEF R, S
<1>11. ASSUME Len(recent) > 0, Len(recent) >= args.minNum PROVE MeasuredEnough(relay)
  <2>1. Cardinality(R) >= LargerOf(args.minNum, 1)
    BY <1>6, <1>8, <1>9, <1>11 DEF LargerOf
  <2>2. ASSUME args.secsAway # None, Cardinality(S) > 1, ~args.reset
        PROVE  \E j, k \in S : disk[relay][j].time > disk[relay][k].time + args.secsAway
    <3>1. Len(success) > 1 /\ Len(away) > 0
      BY <1>1, <1>3, <1>6, <1>10, <1>11, <2>2
    <3> QED
      BY <1>3, <2>2, <3>1
  <2> QED
    BY <2>1, <2>2 DEF MeasuredEnough, R, S
<1> QED
  BY <1>1, <1>2, <1>3, <1>4, <1>5, <1>6, <1>7, <1>11 DEF recent, away, success

\* V3BWLine.from_results
LEMMA LineOfRelay ==
  ASSUME InputInv, NEW relay \in Relays, NEW list, IsLoaded(list, relay), Len(list) > 0
  PROVE  IsLineOf(LineOf(relay, list), relay)
<1> DEFINE success == Filter(list, IsSuccess)
           away    == AwayEachOther(success)
           recent  == RecentThan(away)
           counts  == [KeyValues(list) EXCEPT !.error = Len(list) - Len(success),
                                              !.near = Len(success) - Len(away),
                                              !.old = Len(away) - Len(recent)]
           fewer   == [counts EXCEPT !.few = Len(recent)]
           l       == LineOf(relay, list)
<1> SUFFICES IsLineOf(l, relay)
  OBVIOUS
<1>1. /\ AreSuccesses(recent) /\ (recent = << >> <=> Len(recent) = 0)
      /\ Len(list) \in Nat /\ Len(success) \in Nat /\ Len(away) \in Nat
      /\ Len(recent) \in Nat /\ Len(success) <= Len(list) /\ Len(away) <= Len(success)
      /\ Len(recent) <= Len(away)
      /\ success = << >> <=> Len(success) = 0
      /\ away = << >> <=> Len(away) = 0
      /\ Len(recent) > 0 /\ Len(recent) >= args.minNum => MeasuredEnough(relay)
  BY FiltersOfLine
<1>2. l = IF success = << >> THEN Excluded(relay, "error", counts)
          ELSE IF away = << >> THEN Excluded(relay, "near", counts)
          ELSE IF recent = << >> THEN Excluded(relay, "old", counts)
          ELSE IF Len(recent) < args.minNum THEN Excluded(relay, "few", fewer)
          ELSE IF LastOf(Observed(recent)) = None THEN Excluded(relay, "no_observed_bw", None)
          ELSE Eligible(relay, recent, counts)
  BY DEF LineOf
<1> HIDE DEF l, success, away, recent
<1>3. /\ counts.types = ResultTypesOf(list) /\ counts.error = Len(list) - Len(success)
      /\ counts.near = Len(success) - Len(away) /\ counts.old = Len(away) - Len(recent)
      /\ counts.few = 0
      /\ fewer.types = ResultTypesOf(list) /\ fewer.error = Len(list) - Len(success)
      /\ fewer.near = Len(success) - Len(away) /\ fewer.old = Len(away) - Len(recent)
      /\ fewer.few = Len(recent)
  BY DEF KeyValues
<1> HIDE DEF counts, fewer
<1>4. None \notin Reasons \cup {"no_observed_bw"}
  BY NoneAssumption
<1>5. args.minNum \in Nat
  BY ArgumentsAssumption DEF InputInv
<1>6. CASE success = << >> \/ away = << >> \/ recent = << >>
  <2>1. Len(recent) = 0
    BY <1>1, <1>6
  <2>2. PICK reason \in {"error", "near", "old"} : l = Excluded(relay, reason, counts)
    BY <1>2, <1>6
  <2>3. /\ l.relay = relay /\ l.bw = 1 /\ l.reason = reason /\ l.counts = counts
        /\ ~l.vote
        /\ {"relay", "bw", "vote", "under", "reason", "counts"} \subseteq DOMAIN l
    BY <2>2 DEF Excluded
  <2>4. reason \in Reasons /\ reason # None /\ reason # "no_observed_bw"
    BY <1>4, <2>2 DEF Reasons
  <2>5. CountsAre(l, list, 0)
    <3>1. counts.error + counts.near + counts.old + counts.few = Len(list) - 0
      BY <1>1, <1>3, <2>1
    <3> QED
      BY <1>3, <2>3, <3>1 DEF CountsAre
  <2>6. CountsAgree(l)
    <3>1. 0 \in Nat /\ 0 <= Len(list) /\ (l.reason = None <=> 0 > 0)
      BY <1>1, <2>3, <2>4
    <3> QED
      BY <2>3, <2>5, <3>1, CountsOfLine
  <2> QED
    BY <2>3, <2>4, <2>6 DEF IsLineOf
<1>7. CASE success # << >> /\ away # << >> /\ recent # << >> /\ Len(recent) < args.minNum
  <2>1. l = Excluded(relay, "few", fewer)
    BY <1>2, <1>7
  <2>2. /\ l.relay = relay /\ l.bw = 1 /\ l.reason = "few" /\ l.counts = fewer
        /\ ~l.vote
        /\ {"relay", "bw", "vote", "under", "reason", "counts"} \subseteq DOMAIN l
    BY <2>1 DEF Excluded
  <2>3. "few" \in Reasons /\ "few" # None
    BY <1>4 DEF Reasons
  <2>4. CountsAre(l, list, 0)
    <3>1. fewer.error + fewer.near + fewer.old + fewer.few = Len(list) - 0
      BY <1>1, <1>3
    <3> QED
      BY <1>3, <2>2, <3>1 DEF CountsAre
  <2>5. CountsAgree(l)
    <3>1. 0 \in Nat /\ 0 <= Len(list) /\ (l.reason = None <=> 0 > 0)
      BY <1>1, <2>2, <2>3
    <3> QED
      BY <2>2, <2>4, <3>1, CountsOfLine
  <2> QED
    BY <2>2, <2>3, <2>5 DEF IsLineOf
<1>8. CASE success # << >> /\ away # << >> /\ recent # << >> /\ ~(Len(recent) < args.minNum)
  <2>1. Len(recent) > 0 /\ MeasuredEnough(relay)
    BY <1>1, <1>5, <1>8
  <2>2. CASE LastOf(Observed(recent)) = None
    <3>1. l = Excluded(relay, "no_observed_bw", None)
      BY <1>2, <1>8, <2>2
    <3>2. /\ l.relay = relay /\ l.bw = 1 /\ l.reason = "no_observed_bw"
          /\ {"relay", "bw", "vote", "under", "reason", "counts"} \subseteq DOMAIN l
      BY <3>1 DEF Excluded
    <3>3. "no_observed_bw" # None
      BY <1>4
    <3> QED
      BY <2>1, <3>2, <3>3 DEF IsLineOf
  <2>3. CASE LastOf(Observed(recent)) # None
    <3>1. l = Eligible(relay, recent, counts)
      BY <1>2, <1>8, <2>3
    <3>2. /\ l.relay = relay /\ l.reason = None /\ l.counts = counts
          /\ {"relay", "bw", "vote", "under", "reason", "counts"} \subseteq DOMAIN l
      BY <3>1 DEF Eligible
    <3>3. IsScalable(l) /\ l.bw \in Nat \ {0}
      BY <1>1, <2>3, <3>1, EligibleType
    <3>4. CountsAre(l, list, Len(recent))
      <4>1. counts.error + counts.near + counts.old + counts.few = Len(list) - Len(recent)
        BY <1>1, <1>3
      <4> QED
        BY <1>3, <3>2, <4>1 DEF CountsAre
    <3>5. CountsAgree(l)
      <4>1. Len(recent) <= Len(list) /\ (l.reason = None <=> Len(recent) > 0)
        BY <1>1, <2>1, <3>2
      <4> QED
        BY <1>1, <3>2, <3>4, <4>1, CountsOfLine
    <3> QED
      BY <2>1, <3>2, <3>3, <3>5 DEF IsLineOf
  <2> QED
    BY <2>2, <2>3
<1> QED
  BY <1>6, <1>7, <1>8

-----------------------------------------------------------------------------
(***************************************************************************)
(* The invariant: what the lines say is kept by the scaling, what the      *)
(* header counts are the lines, and there are lines of all the relays but  *)
(* those in todo.                                                          *)
(***************************************************************************)

\* A sequence, of whatever there is in it.
IsList(s) == Len(s) \in Nat /\ DOMAIN s = 1..Len(s) /\ s \in Seq({s[k] : k \in 1..Len(s)})

\* Lines are each of its relay.
AreLines(lines) ==
  /\ IsList(lines)
  /\ \A i \in DOMAIN lines : lines[i].relay \in Relays /\ IsLineOf(lines[i], lines[i].relay)
  /\ \A i, j \in DOMAIN lines : lines[i].relay = lines[j].relay => i = j
RelaysOf(lines) == {lines[i].relay : i \in DOMAIN lines}
ReasonIs(lines, reason) == {i \in DOMAIN lines : lines[i].reason = reason}

ResultsInv ==
  results = [relay \in Relays |-> IF pc = "load" THEN << >> ELSE Loaded(relay)]

LinesInv ==
  /\ AreLines(raw) /\ \A i \in DOMAIN raw : raw[i].reason = None
  /\ AreLines(excluded) /\ \A i \in DOMAIN excluded : excluded[i].reason # None
  /\ RelaysOf(raw) \cap RelaysOf(excluded) = {}
  /\ IF pc \in {"load", "header"} THEN raw = << >> /\ excluded = << >>
     ELSE RelaysOf(raw) \cup RelaysOf(excluded) = Measured \ todo

\* After the scaling, and until there is a file.
IsScaled == pc \in {"progress", "report", "write"} \/ file # << >>
IsCounted == pc \in {"report", "write"} \/ file # << >>

HeaderInv ==
  /\ {"latest", "earliest", "excluded", "eligible", "minimum", "percent", "half"} = DOMAIN header
  /\ DOMAIN header.excluded = Reasons
  /\ \A reason \in Reasons : header.excluded[reason] = Cardinality(ReasonIs(excluded, reason))
  /\ header.eligible # None =>
       /\ IsCounted /\ header.eligible = Len(raw) /\ header.minimum = Minimum
       /\ minPerc <=> Len(raw) >= Minimum

VoteInv ==
  args.method = "torflow" /\ IsCounted /\ (\E i \in DOMAIN raw : raw[i].vote) => Enough(Len(raw))

LimitInv == args.method = "torflow" /\ IsScaled => WithinLimit(raw)

FileInv ==
  /\ file # << >> => pc = "done" /\ file = Lines
  /\ pc = "done" => file = Lines \/ Measured = {} \/ ScaleRaises(raw)

IInv ==
  /\ InputInv /\ minPerc \in BOOLEAN
  /\ pc \in {"load", "header", "lines", "progress", "report", "write", "done"}
  /\ todo \subseteq Measured /\ (pc # "lines" => todo = {})
  /\ pc \in {"lines", "progress", "report", "write"} => Measured # {}
  /\ ResultsInv /\ LinesInv /\ HeaderInv /\ VoteInv /\ LimitInv /\ FileInv

-----------------------------------------------------------------------------
(***************************************************************************)
(* Lists of lines.                                                         *)
(***************************************************************************)

\* A function of the first numbers is a list.
LEMMA FunctionIsList ==
  ASSUME NEW L \in Nat, NEW f, f = [k \in 1..L |-> f[k]]
  PROVE  IsList(f) /\ Len(f) = L /\ DOMAIN f = 1..L
<1> DEFINE S == {f[k] : k \in 1..L}
<1>1. f \in [1..L -> S]
  OBVIOUS
<1>2. f \in Seq(S) /\ DOMAIN f = 1..L
  BY <1>1
<1>3. Len(f) = L
  <2> HIDE DEF S
  <2> QED
    BY <1>2, LenProperties
<1> QED
  BY <1>2, <1>3 DEF IsList

\* One item more.
LEMMA AppendIsList ==
  ASSUME NEW s, IsList(s), NEW e
  PROVE  /\ IsList(Append(s, e)) /\ Len(Append(s, e)) = Len(s) + 1
         /\ DOMAIN Append(s, e) = 1..Len(s) + 1
         /\ \A k \in 1..Len(s) : Append(s, e)[k] = s[k]
         /\ Append(s, e)[Len(s) + 1] = e
<1> DEFINE L == Len(s)
           S == {s[k] : k \in 1..L} \cup {e}
           t == Append(s, e)
<1>1. L \in Nat /\ DOMAIN s = 1..L /\ s \in Seq({s[k] : k \in 1..L})
  BY DEF IsList
<1>2. s \in Seq(S) /\ e \in S
  <2>1. s \in [1..L -> S]
    BY <1>1, LenProperties
  <2> QED
    BY <1>1, <2>1
<1> HIDE DEF S
<1>3. /\ t \in Seq(S) /\ Len(t) = L + 1
      /\ \A k \in 1..L : t[k] = s[k]
      /\ t[L + 1] = e
  BY <1>2, AppendProperties
<1>4. DOMAIN t = 1..L + 1 /\ L + 1 \in Nat
  BY <1>1, <1>3, LenProperties
<1> HIDE DEF t, L
<1>5. t = [k \in 1..L + 1 |-> t[k]]
  BY <1>3, <1>4
<1>6. IsList(t)
  BY <1>4, <1>5, FunctionIsList
<1> QED
  BY <1>3, <1>4, <1>6 DEF t, L

\* One list after the other.
LEMMA ConcatIsList ==
  ASSUME NEW s, IsList(s), NEW u, IsList(u)
  PROVE  /\ IsList(s \o u) /\ Len(s \o u) = Len(s) + Len(u)
         /\ DOMAIN (s \o u) = 1..Len(s) + Len(u)
         /\ \A k \in 1..Len(s) : (s \o u)[k] = s[k]
         /\ \A k \in 1..Len(u) : (s \o u)[Len(s) + k] = u[k]
<1> DEFINE L == Len(s)
           M == Len(u)
           S == {s[k] : k \in 1..L} \cup {u[k] : k \in 1..M}
           t == s \o u
<1>1. L \in Nat /\ DOMAIN s = 1..L /\ s \in Seq({s[k] : k \in 1..L})
  BY DEF IsList
<1>2. M \in Nat /\ DOMAIN u = 1..M /\ u \in Seq({u[k] : k \in 1..M})
  BY DEF IsList
<1>3. s \in Seq(S)
  <2>1. s \in [1..L -> S]
    BY <1>1, LenProperties
  <2> QED
    BY <1>1, <2>1
<1>4. u \in Seq(S)
  <2>1. u \in [1..M -> S]
    BY <1>2, LenProperties
  <2> QED
    BY <1>2, <2>1
<1> HIDE DEF S
<1>5. /\ t \in Seq(S) /\ Len(t) = L + M
      /\ \A k \in 1..L + M : t[k] = IF k <= L THEN s[k] ELSE u[k - L]
  BY <1>3, <1>4, ConcatProperties
<1>6. DOMAIN t = 1..L + M /\ L + M \in Nat
  BY <1>1, <1>2, <1>5, LenProperties
<1> HIDE DEF t, L, M
<1>7. t = [k \in 1..L + M |-> t[k]]
  BY <1>5, <1>6
<1>8. IsList(t)
  BY <1>6, <1>7, FunctionIsList
<1>9. ASSUME NEW k \in 1..L PROVE t[k] = s[k]
  <2>1. k \in 1..L + M /\ k <= L
    BY <1>1, <1>2
  <2> QED
    BY <1>5, <2>1
<1>10. ASSUME NEW k \in 1..M PROVE t[L + k] = u[k]
  <2>1. L + k \in 1..L + M /\ ~(L + k <= L) /\ (L + k) - L = k
    BY <1>1, <1>2
  <2> QED
    BY <1>5, <2>1
<1> QED
  BY <1>5, <1>6, <1>8, <1>9, <1>10 DEF t, L, M

\* Where the reasons of a list with one line more are.
LEMMA AppendReason ==
  ASSUME NEW s, IsList(s), NEW e, NEW reason
  PROVE  /\ Cardinality(ReasonIs(s, reason)) \in Nat
         /\ Cardinality(ReasonIs(Append(s, e), reason))
            = IF e.reason = reason THEN Cardinality(ReasonIs(s, reason)) + 1
              ELSE Cardinality(ReasonIs(s, reason))
<1> DEFINE t == Append(s, e)
           L == Len(s)
           A == ReasonIs(s, reason)
<1>1. L \in Nat /\ DOMAIN s = 1..L
  BY DEF IsList
<1>2. DOMAIN t = 1..L + 1 /\ (\A k \in 1..L : t[k] = s[k]) /\ t[L + 1] = e
  BY AppendIsList
<1> HIDE DEF t, L
<1>3. ReasonIs(t, reason) = IF e.reason = reason THEN A \cup {L + 1} ELSE A
  <2>1. 1..L + 1 = (1..L) \cup {L + 1} /\ L + 1 \notin 1..L
    BY <1>1
  <2> QED
    BY <1>1, <1>2, <2>1 DEF ReasonIs
<1>4. A \in SUBSET (1..L) /\ IsFiniteSet(1..L)
  BY <1>1, FS_Interval DEF ReasonIs
<1>5. L + 1 \notin A
  BY <1>1, <1>4
<1> HIDE DEF A
<1>6. IsFiniteSet(A) /\ Cardinality(A) \in Nat
  BY <1>4, FS_Subset, FS_CardinalityType
<1>7. Cardinality(A \cup {L + 1}) = Cardinality(A) + 1
  BY <1>5, <1>6, FS_AddElement
<1> QED
  BY <1>3, <1>6, <1>7 DEF t, A

\* One line more, of a relay that had none.
LEMMA AppendLines ==
  ASSUME NEW s, AreLines(s), NEW e, NEW relay \in Relays, IsLineOf(e, relay),
         relay \notin RelaysOf(s)
  PROVE  /\ AreLines(Append(s, e)) /\ RelaysOf(Append(s, e)) = RelaysOf(s) \cup {relay}
         /\ \A i \in DOMAIN Append(s, e) :
              \/ i \in DOMAIN s /\ Append(s, e)[i] = s[i]
              \/ Append(s, e)[i] = e
<1> DEFINE t == Append(s, e)
           L == Len(s)
<1>1. /\ L \in Nat /\ DOMAIN s = 1..L /\ IsList(s)
      /\ \A i \in 1..L : s[i].relay \in Relays /\ IsLineOf(s[i], s[i].relay)
      /\ \A i, j \in 1..L : s[i].relay = s[j].relay => i = j
  BY DEF AreLines, IsList
<1>2. /\ IsList(t) /\ DOMAIN t = 1..L + 1
      /\ (\A k \in 1..L : t[k] = s[k]) /\ t[L + 1] = e
  BY <1>1, AppendIsList
<1>3. e.relay = relay
  BY DEF IsLineOf
<1> HIDE DEF t, L
<1>4. \A i \in 1..L + 1 : i \in 1..L \/ i = L + 1
  BY <1>1
<1>5. \A i \in 1..L : s[i].relay # relay
  BY <1>1 DEF RelaysOf
<1>6. ASSUME NEW i \in 1..L + 1 PROVE t[i].relay \in Relays /\ IsLineOf(t[i], t[i].relay)
  BY <1>1, <1>2, <1>3, <1>4
<1>7. ASSUME NEW i \in 1..L + 1, NEW j \in 1..L + 1, t[i].relay = t[j].relay PROVE i = j
  BY <1>1, <1>2, <1>3, <1>4, <1>5, <1>7
<1>8. RelaysOf(t) = RelaysOf(s) \cup {relay}
  <2>1. 1..L + 1 = (1..L) \cup {L + 1}
    BY <1>1
  <2> QED
    BY <1>1, <1>2, <1>3, <2>1 DEF RelaysOf
<1>9. \A i \in DOMAIN t : (i \in DOMAIN s /\ t[i] = s[i]) \/ t[i] = e
  BY <1>1, <1>2, <1>4
<1> QED
  BY <1>2, <1>6, <1>7, <1>8, <1>9 DEF AreLines, t

-----------------------------------------------------------------------------
(***************************************************************************)
(* What the scaling does to the lines.                                     *)
(***************************************************************************)

\* The order of some lines, and that other lines are these in that order, but for
\* their bandwidth.
IsOrderOf(pos, L) ==
  /\ pos \in [1..L -> 1..L]
  /\ \A k, l \in 1..L : pos[k] = pos[l] => k = l
  /\ \A i \in 1..L : \E k \in 1..L : pos[k] = i
SetBw(l, bw) == [l EXCEPT !.bw = bw]
Rescaled(new, old, pos) ==
  /\ IsList(new) /\ Len(new) = Len(old) /\ IsOrderOf(pos, Len(old))
  /\ \A k \in 1..Len(old) : new[k] = SetBw(old[pos[k]], new[k].bw) /\ new[k].bw \in Nat \ {0}

\* What remains as it was when the bandwidth is set.
LEMMA SetBwKeeps ==
  ASSUME NEW l, NEW relay, IsLineOf(l, relay), NEW bw \in Nat \ {0}
  PROVE  /\ IsLineOf(SetBw(l, bw), relay) /\ SetBw(l, bw).reason = l.reason
         /\ SetBw(l, bw).bw = bw /\ SetBw(l, bw).vote = l.vote
         /\ l.reason = None =>
              /\ SetBw(l, bw).mean = l.mean /\ SetBw(l, bw).filt = l.filt
              /\ SetBw(l, bw).average = l.average /\ SetBw(l, bw).burst = l.burst
              /\ SetBw(l, bw).obsLast = l.obsLast /\ SetBw(l, bw).obsMean = l.obsMean
<1> DEFINE m == SetBw(l, bw)
<1>1. {"relay", "bw", "vote", "under", "reason", "counts"} \subseteq DOMAIN l
  BY DEF IsLineOf
<1>2. /\ DOMAIN m = DOMAIN l /\ m.bw = bw /\ m.relay = l.relay /\ m.vote = l.vote
      /\ m.reason = l.reason /\ m.counts = l.counts
  BY <1>1 DEF SetBw
<1>3. ASSUME l.reason = None
      PROVE  /\ m.mean = l.mean /\ m.filt = l.filt /\ m.average = l.average /\ m.burst = l.burst
             /\ m.obsLast = l.obsLast /\ m.obsMean = l.obsMean
  <2>1. {"mean", "filt", "average", "burst", "obsLast", "obsMean"} \subseteq DOMAIN l
    BY <1>3 DEF IsLineOf, IsScalable
  <2> QED
    BY <2>1 DEF SetBw
<1> HIDE DEF m
<1>4. l.reason = None => IsScalable(m)
  BY <1>2, <1>3 DEF IsLineOf, IsScalable
<1>5. l.reason # "no_observed_bw" => CountsAgree(m)
  <2>1. CountsAgree(m) <=> CountsAgree(l)
    BY <1>2 DEF CountsAgree
  <2> QED
    BY <2>1 DEF IsLineOf
<1>6. IsLineOf(m, relay)
  BY <1>1, <1>2, <1>4, <1>5 DEF IsLineOf
<1> QED
  BY <1>2, <1>3, <1>6 DEF m

\* A line of each index has the line that it was.
LEMMA RescaledLines ==
  ASSUME NEW old, AreLines(old), \A i \in DOMAIN old : old[i].reason = None,
         NEW new, NEW pos, Rescaled(new, old, pos)
  PROVE  /\ AreLines(new) /\ \A i \in DOMAIN new : new[i].reason = None
         /\ RelaysOf(new) = RelaysOf(old) /\ Len(new) = Len(old)
<1> DEFINE L == Len(old)
<1>1. /\ L \in Nat /\ DOMAIN old = 1..L
      /\ \A i \in 1..L : old[i].relay \in Relays /\ IsLineOf(old[i], old[i].relay)
      /\ \A i, j \in 1..L : old[i].relay = old[j].relay => i = j
  BY DEF AreLines, IsList
<1>2. /\ IsList(new) /\ Len(new) = L /\ pos \in [1..L -> 1..L]
      /\ \A k, l \in 1..L : pos[k] = pos[l] => k = l
      /\ \A i \in 1..L : \E k \in 1..L : pos[k] = i
      /\ \A k \in 1..L : new[k] = SetBw(old[pos[k]], new[k].bw) /\ new[k].bw \in Nat \ {0}
  BY DEF Rescaled, IsOrderOf
<1>3. DOMAIN new = 1..L
  BY <1>2 DEF IsList
<1> HIDE DEF L
<1>4. ASSUME NEW k \in 1..L
      PROVE  /\ IsLineOf(new[k], old[pos[k]].relay) /\ new[k].reason = None
             /\ new[k].relay = old[pos[k]].relay /\ old[pos[k]].relay \in Relays
  <2>1. /\ IsLineOf(old[pos[k]], old[pos[k]].relay) /\ old[pos[k]].relay \in Relays
        /\ old[pos[k]].reason = None
    BY <1>1, <1>2
  <2>2. new[k].bw \in Nat \ {0} /\ new[k] = SetBw(old[pos[k]], new[k].bw)
    BY <1>2
  <2>3. /\ IsLineOf(SetBw(old[pos[k]], new[k].bw), old[pos[k]].relay)
        /\ SetBw(old[pos[k]], new[k].bw).reason = None
    BY <2>1, <2>2, SetBwKeeps
  <2>4. IsLineOf(new[k], old[pos[k]].relay) /\ new[k].reason = None
    BY <2>2, <2>3
  <2> QED
    BY <2>1, <2>4 DEF IsLineOf
<1>5. ASSUME NEW i \in 1..L, NEW j \in 1..L, new[i].relay = new[j].relay PROVE i = j
  <2>1. old[pos[i]].relay = old[pos[j]].relay
    BY <1>4, <1>5
  <2>2. pos[i] \in 1..L /\ pos[j] \in 1..L
    BY <1>2
  <2>3. pos[i] = pos[j]
    BY <1>1, <2>1, <2>2
  <2> QED
    BY <1>2, <2>3
<1>6. RelaysOf(new) = RelaysOf(old)
  <2>1. \A k \in 1..L : new[k].relay \in RelaysOf(old)
    BY <1>1, <1>2, <1>4 DEF RelaysOf
  <2>2. ASSUME NEW i \in 1..L PROVE old[i].relay \in RelaysOf(new)
    <3>1. PICK k \in 1..L : pos[k] = i
      BY <1>2
    <3>2. new[k].relay = old[i].relay
      BY <1>4, <3>1
    <3> QED
      BY <1>3, <3>2 DEF RelaysOf
  <2> QED
    BY <1>1, <1>3, <2>1, <2>2 DEF RelaysOf
<1>7. AreLines(new)
  BY <1>2, <1>3, <1>4, <1>5 DEF AreLines
<1> QED
  BY <1>2, <1>3, <1>4, <1>6, <1>7 DEF L

\* Bandwidths are set and the lines are put in their order.
Set(old, bws) == [i \in DOMAIN old |-> SetBw(old[i], bws[i])]

LEMMA SortedRescales ==
  ASSUME NEW old, IsList(old), \A i \in DOMAIN old : "bw" \in DOMAIN old[i],
         NEW bws, \A i \in DOMAIN old : bws[i] \in Nat \ {0}
  PROVE  \E pos :
           /\ Rescaled(Sorted(Set(old, bws)), old, pos)
           /\ \A k \in 1..Len(old) : Sorted(Set(old, bws))[k].bw = bws[pos[k]]
           /\ \A k, l \in 1..Len(old) : k < l => bws[pos[k]] <= bws[pos[l]]
<1> DEFINE L   == Len(old)
           mid == Set(old, bws)
           key == Map(LAMBDA l : l.bw, mid)
           new == Sorted(mid)
<1>1. L \in Nat /\ DOMAIN old = 1..L
  BY DEF IsList
<1>2. mid = [i \in 1..L |-> SetBw(old[i], bws[i])]
  BY <1>1 DEF Set
<1> HIDE DEF mid, L
<1>3. IsList(mid) /\ Len(mid) = L /\ DOMAIN mid = 1..L
  <2>1. mid = [i \in 1..L |-> mid[i]]
    BY <1>2
  <2> QED
    BY <1>1, <2>1, FunctionIsList
<1>4. ASSUME NEW i \in 1..L
      PROVE  mid[i] = SetBw(old[i], bws[i]) /\ mid[i].bw = bws[i] /\ bws[i] \in Nat \ {0}
  <2>1. mid[i] = SetBw(old[i], bws[i]) /\ "bw" \in DOMAIN old[i] /\ bws[i] \in Nat \ {0}
    BY <1>1, <1>2
  <2> QED
    BY <2>1 DEF SetBw
<1>5. \A i \in 1..L : key[i] = bws[i] /\ key[i] \in Nat
  <2>1. \A i \in 1..L : key[i] = mid[i].bw
    BY <1>3 DEF Map
  <2> QED
    BY <1>4, <2>1
<1>6. new = SortedBy(mid, key)
  BY DEF Sorted
<1> HIDE DEF new, key
<1> DEFINE S == {mid[k] : k \in 1..L}
<1>7. mid \in Seq(S)
  BY <1>3 DEF IsList
<1> HIDE DEF S
<1>8. PICK pos : /\ IsSelection(new, mid, 1..L, pos)
                 /\ \A k, l \in 1..L : k < l => key[pos[k]] <= key[pos[l]]
  BY <1>3, <1>5, <1>6, <1>7, SortedSelects
<1>9. Cardinality(1..L) = L
  BY <1>1, FS_Interval
<1>10. /\ pos \in [1..L -> 1..L]
       /\ \A k, l \in 1..L : pos[k] = pos[l] => k = l
       /\ \A i \in 1..L : \E k \in 1..L : pos[k] = i
       /\ new = [k \in 1..L |-> mid[pos[k]]]
  BY <1>8, <1>9 DEF IsSelection
<1>11. IsList(new) /\ Len(new) = L
  <2>1. new = [k \in 1..L |-> new[k]]
    BY <1>10
  <2> QED
    BY <1>1, <2>1, FunctionIsList
<1>12. \A k \in 1..L : /\ new[k].bw = bws[pos[k]] /\ new[k].bw \in Nat \ {0}
                       /\ new[k] = SetBw(old[pos[k]], new[k].bw)
  BY <1>4, <1>10
<1>13. \A k, l \in 1..L : k < l => bws[pos[k]] <= bws[pos[l]]
  BY <1>5, <1>8, <1>10
<1>14. Rescaled(new, old, pos)
  BY <1>10, <1>11, <1>12 DEF Rescaled, IsOrderOf, L
<1> QED
  BY <1>12, <1>13, <1>14 DEF new, mid, L

\* The smallest of some numbers is one of them.
LEMMA Smallest ==
  ASSUME NEW T \in SUBSET Nat, T # {}
  PROVE  SmallestOf(T) \in T /\ SmallestOf(T) \in Nat /\ \A b \in T : SmallestOf(T) <= b
<1>1. \E x \in T : \A y \in T : x <= y
  BY LeastNumber
<1> QED
  BY <1>1 DEF SmallestOf

\* The lines that are scaled.
AreScalable(lines) ==
  /\ IsList(lines)
  /\ \A i \in DOMAIN lines :
       /\ IsScalable(lines[i]) /\ lines[i].bw \in Nat \ {0}
       /\ {"relay", "bw", "vote", "under"} \subseteq DOMAIN lines[i]

LEMMA LinesAreScalable ==
  ASSUME NEW lines, AreLines(lines), \A i \in DOMAIN lines : lines[i].reason = None
  PROVE  AreScalable(lines)
BY DEF AreLines, IsLineOf, AreScalable

\* What a descriptor allows is a number, the least of those that are known.
LEMMA DescBwType ==
  ASSUME NEW l, IsScalable(l)
  PROVE  DescBw(l) \in Nat
<1> DEFINE observed == IF l.obsLast \in {None, 0} THEN l.obsMean ELSE l.obsLast
           T == {observed, l.burst, l.average} \ {None}
<1>1. None \notin Nat
  BY NoneAssumption
<1>2. observed \in Nat /\ l.burst \in Nat \cup {None} /\ l.average \in Nat \cup {None}
  BY DEF IsScalable
<1>3. DescBw(l) = SmallestOf(T)
  BY DEF DescBw
<1> HIDE DEF observed
<1>4. T \in SUBSET Nat /\ T # {}
  BY <1>1, <1>2
<1> HIDE DEF T
<1> QED
  BY <1>3, <1>4, Smallest

\* bw_kb
LEMMA RawRescales ==
  ASSUME NEW lines, AreScalable(lines)
  PROVE  \E pos : Rescaled(RawScale(lines), lines, pos)
<1> DEFINE bws == [i \in DOMAIN lines |-> LargerOf(Round(lines[i].bw, Kilo), 1)]
<1>1. RawScale(lines) = Sorted(Set(lines, bws))
  <2>1. Map(LAMBDA l : [l EXCEPT !.bw = LargerOf(Round(@, Kilo), 1)], lines) = Set(lines, bws)
    BY DEF Map, Set, SetBw
  <2> QED
    BY <2>1 DEF RawScale
<1>2. ASSUME NEW i \in DOMAIN lines PROVE bws[i] \in Nat \ {0}
  <2> DEFINE R == Round(lines[i].bw, Kilo)
  <2>1. R \in Nat
    <3>1. lines[i].bw \in Nat /\ Kilo \in Nat \ {0}
      BY GlobalsAssumption DEF AreScalable
    <3> QED
      BY <3>1, RoundHalf
  <2>2. bws[i] = LargerOf(R, 1)
    OBVIOUS
  <2> HIDE DEF R, bws
  <2> QED
    BY <2>1, <2>2 DEF LargerOf
<1> HIDE DEF bws
<1>3. IsList(lines) /\ \A i \in DOMAIN lines : "bw" \in DOMAIN lines[i]
  BY DEF AreScalable
<1> QED
  BY <1>1, <1>2, <1>3, SortedRescales

\* bw_sbws_scale: the median is not 0 when there is something to multiply.
LEMMA SbwsRescales ==
  ASSUME NEW lines, AreScalable(lines), lines # << >>,
         \A i \in DOMAIN lines : lines[i].average # None
  PROVE  \E pos : Rescaled(SbwsScale(lines), lines, pos)
<1> DEFINE old  == Map(LAMBDA l : l.bw, lines)
           m    == Median(old, 1)
           Scaled(l) ==
             IF l.bw * ScaleConstant * m.den < l.average * m.num
             THEN Round(l.bw * ScaleConstant * m.den, m.num * Kilo)
             ELSE Round(l.average, Kilo)
           bws  == [i \in DOMAIN lines |-> LargerOf(Scaled(lines[i]), 1)]
<1>1. SbwsScale(lines) = Sorted(Set(lines, bws))
  <2>1. Map(LAMBDA l : [l EXCEPT !.bw = LargerOf(Scaled(l), 1)], lines) = Set(lines, bws)
    BY DEF Map, Set, SetBw
  <2> QED
    BY <2>1 DEF SbwsScale
<1>2. Kilo \in Nat \ {0} /\ ScaleConstant \in Nat
  BY GlobalsAssumption, ArgumentsAssumption
<1>3. /\ IsList(lines) /\ \A i \in DOMAIN lines : "bw" \in DOMAIN lines[i]
      /\ \A i \in DOMAIN lines : lines[i].bw \in Nat /\ lines[i].average \in Nat
  BY DEF AreScalable, IsScalable
<1>4. m.num \in Nat /\ m.den \in Nat \ {0}
  <2>1. Len(lines) \in Nat /\ DOMAIN lines = 1..Len(lines) /\ Len(lines) > 0
    <3>1. lines \in Seq({lines[k] : k \in 1..Len(lines)}) /\ Len(lines) \in Nat
          /\ DOMAIN lines = 1..Len(lines)
      BY <1>3 DEF IsList
    <3>2. Len(lines) # 0
      BY <3>1, EmptySeq
    <3> QED
      BY <3>1, <3>2
  <2>2. old = [k \in 1..Len(lines) |-> lines[k].bw]
    BY <2>1 DEF Map
  <2>3. old \in [1..Len(lines) -> Nat]
    BY <1>3, <2>1, <2>2
  <2> HIDE DEF old
  <2>4. old \in Seq(Nat) /\ Len(old) = Len(lines)
    <3>1. old \in Seq(Nat) /\ DOMAIN old = 1..Len(lines)
      BY <2>1, <2>3
    <3> QED
      BY <2>1, <3>1, LenProperties
  <2> QED
    BY <2>1, <2>4, MedianType
<1> HIDE DEF m
<1>5. ASSUME NEW i \in DOMAIN lines PROVE bws[i] \in Nat \ {0}
  <2> DEFINE bw   == lines[i].bw
             avg  == lines[i].average
             num  == bw * ScaleConstant * m.den
             R    == Scaled(lines[i])
  <2>1. bw \in Nat /\ avg \in Nat
    BY <1>3
  <2>2. R = IF num < avg * m.num THEN Round(num, m.num * Kilo) ELSE Round(avg, Kilo)
    OBVIOUS
  <2>3. bws[i] = LargerOf(R, 1)
    OBVIOUS
  <2> HIDE DEF R, bws, bw, avg
  <2>4. bw * ScaleConstant \in Nat
    BY <1>2, <2>1
  <2>5. num \in Nat
    BY <1>4, <2>4
  <2> HIDE DEF num
  <2>6. R \in Nat
    <3>1. CASE num < avg * m.num
      <4>1. m.num # 0
        <5> SUFFICES ASSUME m.num = 0 PROVE FALSE
          OBVIOUS
        <5>1. avg * 0 = 0
          BY <2>1
        <5> QED
          BY <2>5, <3>1, <5>1
      <4>2. m.num * Kilo \in Nat \ {0}
        BY <1>2, <1>4, <4>1
      <4>3. Round(num, m.num * Kilo) \in Nat
        BY <2>5, <4>2, RoundHalf
      <4> QED
        BY <2>2, <3>1, <4>3
    <3>2. CASE ~(num < avg * m.num)
      <4>1. Round(avg, Kilo) \in Nat
        BY <1>2, <2>1, RoundHalf
      <4> QED
        BY <2>2, <3>2, <4>1
    <3> QED
      BY <3>1, <3>2
  <2> QED
    BY <2>3, <2>6 DEF LargerOf
<1> HIDE DEF bws
<1> QED
  BY <1>1, <1>3, <1>5, SortedRescales

\* The sums, and the products that they are of, are numbers.
LEMMA SumsType ==
  ASSUME NEW lines, AreScalable(lines)
  PROVE  SumMean(lines) \in Nat /\ SumFilt(lines) \in Nat
<1>1. /\ Len(lines) \in Nat /\ DOMAIN lines = 1..Len(lines)
      /\ \A i \in 1..Len(lines) : lines[i].mean \in Nat /\ lines[i].filt \in Nat
  BY DEF AreScalable, IsList, IsScalable
<1>2. Map(LAMBDA l : l.mean, lines) = [i \in 1..Len(lines) |-> lines[i].mean]
  BY <1>1 DEF Map
<1>3. Map(LAMBDA l : l.filt, lines) = [i \in 1..Len(lines) |-> lines[i].filt]
  BY <1>1 DEF Map
<1>4. [i \in 1..Len(lines) |-> lines[i].mean] \in Seq(Nat)
  <2>1. [i \in 1..Len(lines) |-> lines[i].mean] \in [1..Len(lines) -> Nat]
    BY <1>1
  <2> QED
    BY <1>1, <2>1
<1>5. [i \in 1..Len(lines) |-> lines[i].filt] \in Seq(Nat)
  <2>1. [i \in 1..Len(lines) |-> lines[i].filt] \in [1..Len(lines) -> Nat]
    BY <1>1
  <2> QED
    BY <1>1, <2>1
<1> QED
  BY <1>2, <1>3, <1>4, <1>5, SumType DEF SumMean, SumFilt

LEMMA ProductType ==
  ASSUME NEW lines, AreScalable(lines), NEW i \in DOMAIN lines
  PROVE  Ratio(lines[i], lines) \in Nat /\ Product(lines[i], lines) \in Nat
<1> DEFINE l == lines[i]
           a == l.mean * SumFilt(lines)
           b == l.filt * SumMean(lines)
<1>1. Len(lines) \in Nat /\ IsScalable(l)
  BY DEF AreScalable, IsList
<1>2. l.mean \in Nat /\ l.filt \in Nat
  BY <1>1 DEF IsScalable
<1>3. SumMean(lines) \in Nat /\ SumFilt(lines) \in Nat
  BY SumsType
<1>4. DescBw(l) \in Nat
  BY <1>1, DescBwType
<1>5. Ratio(l, lines) = Len(lines) * LargerOf(a, b)
  BY DEF Ratio
<1>6. Product(l, lines) = Ratio(l, lines) * DescBw(l)
  BY DEF Product
<1> HIDE DEF l
<1>7. a \in Nat /\ b \in Nat
  BY <1>2, <1>3
<1> HIDE DEF a, b
<1>8. LargerOf(a, b) \in Nat
  BY <1>7 DEF LargerOf
<1>9. Ratio(l, lines) \in Nat
  BY <1>1, <1>5, <1>8
<1>10. Product(l, lines) \in Nat
  BY <1>4, <1>6, <1>9
<1> QED
  BY <1>9, <1>10 DEF l

\* What each line adds to the limit.
LimitTerms(lines) ==
  [i \in 1..Len(lines) |-> IF InConsensus(lines[i].relay) THEN Product(lines[i], lines) ELSE 0]

LEMMA LimitType ==
  ASSUME NEW lines, AreScalable(lines)
  PROVE  /\ HLimit(lines) = TorflowCap * Sum(LimitTerms(lines))
         /\ LimitTerms(lines) \in [1..Len(lines) -> Nat] /\ HLimit(lines) \in Nat
<1>1. Len(lines) \in Nat /\ DOMAIN lines = 1..Len(lines)
  BY DEF AreScalable, IsList
<1>2. Map(LAMBDA l : IF InConsensus(l.relay) THEN Product(l, lines) ELSE 0, lines)
      = LimitTerms(lines)
  BY <1>1 DEF Map, LimitTerms
<1>3. HLimit(lines) = TorflowCap * Sum(LimitTerms(lines))
  BY <1>2 DEF HLimit
<1>4. \A i \in 1..Len(lines) : Product(lines[i], lines) \in Nat
  BY <1>1, ProductType
<1>5. LimitTerms(lines) \in [1..Len(lines) -> Nat]
  BY <1>4 DEF LimitTerms
<1>6. LimitTerms(lines) \in Seq(Nat)
  BY <1>1, <1>5
<1>7. Sum(LimitTerms(lines)) \in Nat
  BY <1>6, SumType
<1>8. TorflowCap \in Nat
  BY ArgumentsAssumption
<1>9. HLimit(lines) \in Nat
  BY <1>3, <1>7, <1>8
<1> QED
  BY <1>3, <1>5, <1>9

\* A relay is given no more than the limit and no more than its product.
LEMMA CappedType ==
  ASSUME NEW lines, AreScalable(lines), NEW i \in DOMAIN lines
  PROVE  /\ Capped(lines[i], lines) \in Nat /\ Capped(lines[i], lines) <= HLimit(lines)
         /\ Capped(lines[i], lines) <= 100 * Product(lines[i], lines)
         /\ Capped(lines[i], lines) \in {HLimit(lines), 100 * Product(lines[i], lines)}
<1> DEFINE T == {HLimit(lines), 100 * Product(lines[i], lines)}
<1>1. HLimit(lines) \in Nat
  BY LimitType
<1>2. Product(lines[i], lines) \in Nat
  BY ProductType
<1>3. 100 * Product(lines[i], lines) \in Nat
  BY <1>2
<1>4. T \in SUBSET Nat /\ T # {} /\ HLimit(lines) \in T /\ 100 * Product(lines[i], lines) \in T
  BY <1>1, <1>3
<1>5. Capped(lines[i], lines) = SmallestOf(T)
  BY DEF Capped
<1> HIDE DEF T
<1>6. SmallestOf(T) \in T /\ SmallestOf(T) \in Nat /\ \A b \in T : SmallestOf(T) <= b
  BY <1>4, Smallest
<1> QED
  BY <1>4, <1>5, <1>6 DEF T

\* What the sums are over, when the scaling does not raise.
Over(lines) == 100 * SumMean(lines) * SumFilt(lines) * Kilo

LEMMA OverType ==
  ASSUME NEW lines, AreScalable(lines), SumMean(lines) # 0, SumFilt(lines) # 0
  PROVE  Over(lines) \in Nat \ {0}
<1>1. SumMean(lines) \in Nat \ {0} /\ SumFilt(lines) \in Nat \ {0} /\ Kilo \in Nat \ {0}
  BY SumsType, GlobalsAssumption
<1>2. 100 * SumMean(lines) \in Nat \ {0}
  BY <1>1
<1>3. 100 * SumMean(lines) * SumFilt(lines) \in Nat \ {0}
  BY <1>1, <1>2
<1>4. 100 * SumMean(lines) * SumFilt(lines) * Kilo \in Nat \ {0}
  BY <1>1, <1>3
<1> QED
  BY <1>4 DEF Over

\* bw_torflow_scale
LEMMA TorflowRescales ==
  ASSUME NEW lines, AreScalable(lines), SumMean(lines) # 0, SumFilt(lines) # 0
  PROVE  \E pos :
           /\ Rescaled(TorflowScale(lines), lines, pos)
           /\ \A k \in 1..Len(lines) :
                TorflowScale(lines)[k].bw = TorflowBw(lines[pos[k]], lines)
           /\ \A k, l \in 1..Len(lines) :
                k < l => TorflowScale(lines)[k].bw <= TorflowScale(lines)[l].bw
<1> DEFINE bws == [i \in DOMAIN lines |-> TorflowBw(lines[i], lines)]
           L   == Len(lines)
           new == TorflowScale(lines)
<1>1. new = Sorted(Set(lines, bws))
  <2>1. Map(LAMBDA l : [l EXCEPT !.bw = TorflowBw(l, lines)], lines) = Set(lines, bws)
    BY DEF Map, Set, SetBw
  <2> QED
    BY <2>1 DEF TorflowScale
<1>2. ASSUME NEW i \in DOMAIN lines PROVE bws[i] \in Nat \ {0}
  <2>1. Capped(lines[i], lines) \in Nat
    BY CappedType
  <2>2. Over(lines) \in Nat \ {0} /\ RoundDigits \in Nat \ {0}
    BY OverType, ArgumentsAssumption
  <2>3. TorflowBw(lines[i], lines) = RoundSigDig(Capped(lines[i], lines), Over(lines), RoundDigits)
    BY DEF TorflowBw, Over
  <2> QED
    BY <2>1, <2>2, <2>3, RoundSigDigPositive
<1>3. IsList(lines) /\ \A i \in DOMAIN lines : "bw" \in DOMAIN lines[i]
  BY DEF AreScalable
<1>4. DOMAIN lines = 1..L
  BY <1>3 DEF IsList
<1>5. \A i \in 1..L : bws[i] = TorflowBw(lines[i], lines)
  BY <1>4
<1> HIDE DEF bws
<1>6. PICK pos :
           /\ Rescaled(Sorted(Set(lines, bws)), lines, pos)
           /\ \A k \in 1..L : Sorted(Set(lines, bws))[k].bw = bws[pos[k]]
           /\ \A k, l \in 1..L : k < l => bws[pos[k]] <= bws[pos[l]]
  BY <1>2, <1>3, SortedRescales
<1>7. pos \in [1..L -> 1..L]
  BY <1>6 DEF Rescaled, IsOrderOf
<1> HIDE DEF L, new
<1>8. \A k \in 1..L : new[k].bw = bws[pos[k]] /\ new[k].bw = TorflowBw(lines[pos[k]], lines)
  BY <1>1, <1>5, <1>6, <1>7
<1> QED
  BY <1>1, <1>6, <1>8 DEF L, new

-----------------------------------------------------------------------------
(***************************************************************************)
(* The order of the lines, which the sums do not depend on.                *)
(***************************************************************************)

\* A sum is the number of these pairs.
Pairs(seq, n) == {p \in (1..n) \X Nat : p[2] \in 1..seq[p[1]]}

LEMMA SumCounts ==
  ASSUME NEW L \in Nat, NEW seq \in [1..L -> Nat]
  PROVE  IsFiniteSet(Pairs(seq, L)) /\ Cardinality(Pairs(seq, L)) = Sum(seq)
<1>1. seq \in Seq(Nat) /\ Len(seq) = L
  <2>1. seq \in Seq(Nat) /\ DOMAIN seq = 1..L
    OBVIOUS
  <2> QED
    BY <2>1, LenProperties
<1>2. PICK sum : IsSum(sum, seq)
  BY <1>1, SumValues
<1>3. /\ sum \in [0..L -> Nat] /\ sum[0] = 0
      /\ \A n \in 1..L : sum[n] = sum[n - 1] + seq[n]
      /\ Sum(seq) = sum[L]
  BY <1>1, <1>2 DEF IsSum
<1> DEFINE Holds(n) == IsFiniteSet(Pairs(seq, n)) /\ Cardinality(Pairs(seq, n)) = sum[n]
           T == {n \in Nat : n <= L => Holds(n)}
<1>4. 0 \in T
  <2>1. Pairs(seq, 0) = {}
    BY DEF Pairs
  <2>2. Holds(0)
    BY <1>3, <2>1, FS_EmptySet
  <2> QED
    BY <2>2
<1>5. ASSUME NEW n \in Nat, n \in T PROVE n + 1 \in T
  <2> SUFFICES ASSUME n + 1 <= L PROVE Holds(n + 1)
    OBVIOUS
  <2>1. n <= L /\ n + 1 \in 1..L /\ (n + 1) - 1 = n /\ n \in 0..L
    OBVIOUS
  <2>2. IsFiniteSet(Pairs(seq, n)) /\ Cardinality(Pairs(seq, n)) = sum[n]
    BY <1>5, <2>1
  <2> DEFINE m == seq[n + 1]
             A == Pairs(seq, n)
             B == {<<n + 1, j>> : j \in 1..m}
             f == [j \in 1..m |-> <<n + 1, j>>]
  <2>3. m \in Nat /\ sum[n] \in Nat /\ sum[n + 1] = sum[n] + m
    BY <1>3, <2>1
  <2>4. Pairs(seq, n + 1) = A \cup B
    <3>1. 1..n + 1 = (1..n) \cup {n + 1}
      OBVIOUS
    <3>2. ASSUME NEW p \in Pairs(seq, n + 1) PROVE p \in A \cup B
      <4>1. p[1] \in 1..n + 1 /\ p[2] \in Nat /\ p = <<p[1], p[2]>> /\ p[2] \in 1..seq[p[1]]
        BY DEF Pairs
      <4>2. CASE p[1] = n + 1
        BY <4>1, <4>2
      <4>3. CASE p[1] \in 1..n
        BY <4>1, <4>3 DEF Pairs
      <4> QED
        BY <3>1, <4>1, <4>2, <4>3
    <3>3. A \subseteq Pairs(seq, n + 1)
      BY <3>1 DEF Pairs
    <3>4. ASSUME NEW j \in 1..m PROVE <<n + 1, j>> \in Pairs(seq, n + 1)
      <4>1. j \in Nat /\ n + 1 \in 1..n + 1
        BY <2>3
      <4> QED
        BY <4>1 DEF Pairs
    <3> QED
      BY <3>2, <3>3, <3>4
  <2>5. A \cap B = {}
    <3>1. \A p \in A : p[1] \in 1..n
      BY DEF Pairs
    <3>2. \A p \in B : p[1] = n + 1
      OBVIOUS
    <3>3. n + 1 \notin 1..n
      OBVIOUS
    <3> QED
      BY <3>1, <3>2, <3>3
  <2>6. IsFiniteSet(B) /\ Cardinality(B) = m
    <3>1. f \in [1..m -> B]
      OBVIOUS
    <3>2. \A i, j \in 1..m : f[i] = f[j] => i = j
      OBVIOUS
    <3>3. \A p \in B : \E j \in 1..m : f[j] = p
      OBVIOUS
    <3> HIDE DEF f, B, m
    <3>4. ExistsBijection(1..m, B)
      <4>1. f \in Bijection(1..m, B)
        BY <3>1, <3>2, <3>3, Fun_IsBij
      <4> QED
        BY <4>1 DEF ExistsBijection
    <3>5. IsFiniteSet(1..m) /\ Cardinality(1..m) = m
      <4>1. m \in Nat
        BY <2>3
      <4> QED
        BY <4>1, FS_Interval
    <3> QED
      BY <3>4, <3>5, FS_Bijection
  <2> HIDE DEF A, B, m
  <2>7. IsFiniteSet(A) /\ Cardinality(A) = sum[n]
    BY <2>2 DEF A
  <2>8. /\ IsFiniteSet(A \cup B)
        /\ Cardinality(A \cup B) = Cardinality(A) + Cardinality(B) - Cardinality(A \cap B)
    BY <2>6, <2>7, FS_Union
  <2>9. Cardinality(A \cap B) = 0
    BY <2>5, FS_EmptySet
  <2>10. Cardinality(A \cup B) = sum[n + 1]
    BY <2>3, <2>6, <2>7, <2>8, <2>9
  <2> QED
    BY <2>4, <2>8, <2>10
<1>6. L \in T
  <2> HIDE DEF T
  <2> QED
    BY <1>4, <1>5, NumbersByInduction
<1>7. Holds(L)
  BY <1>6
<1> QED
  BY <1>3, <1>7

\* The sum of numbers in another order is the same.
InOrder(seq, pos, L) == [k \in 1..L |-> seq[pos[k]]]

LEMMA OrderedSum ==
  ASSUME NEW L \in Nat, NEW seq \in [1..L -> Nat], NEW pos, IsOrderOf(pos, L)
  PROVE  Sum(InOrder(seq, pos, L)) = Sum(seq)
<1> DEFINE t == InOrder(seq, pos, L)
           A == Pairs(t, L)
           B == Pairs(seq, L)
           f == [p \in A |-> <<pos[p[1]], p[2]>>]
<1>1. /\ pos \in [1..L -> 1..L]
      /\ \A k, l \in 1..L : pos[k] = pos[l] => k = l
      /\ \A i \in 1..L : \E k \in 1..L : pos[k] = i
  BY DEF IsOrderOf
<1>2. t \in [1..L -> Nat] /\ \A k \in 1..L : t[k] = seq[pos[k]]
  BY <1>1 DEF InOrder
<1> HIDE DEF t
<1>3. ASSUME NEW p \in A
      PROVE  /\ p[1] \in 1..L /\ p[2] \in Nat /\ p = <<p[1], p[2]>> /\ p[2] \in 1..seq[pos[p[1]]]
             /\ pos[p[1]] \in 1..L /\ <<pos[p[1]], p[2]>> \in B
  <2>1. p[1] \in 1..L /\ p[2] \in Nat /\ p = <<p[1], p[2]>> /\ p[2] \in 1..t[p[1]]
    BY DEF Pairs
  <2>2. p[2] \in 1..seq[pos[p[1]]] /\ pos[p[1]] \in 1..L
    BY <1>1, <1>2, <2>1
  <2>3. <<pos[p[1]], p[2]>> \in B
    BY <2>1, <2>2 DEF Pairs
  <2> QED
    BY <2>1, <2>2, <2>3
<1>4. f \in [A -> B]
  BY <1>3
<1>5. \A p, q \in A : f[p] = f[q] => p = q
  <2> SUFFICES ASSUME NEW p \in A, NEW q \in A, f[p] = f[q] PROVE p = q
    OBVIOUS
  <2>1. <<pos[p[1]], p[2]>> = <<pos[q[1]], q[2]>>
    OBVIOUS
  <2>2. pos[p[1]] = pos[q[1]] /\ p[2] = q[2]
    BY <2>1
  <2>3. p[1] = q[1]
    BY <1>1, <1>3, <2>2
  <2>4. p = <<p[1], p[2]>> /\ q = <<q[1], q[2]>>
    BY <1>3
  <2> QED
    BY <2>2, <2>3, <2>4
<1>6. ASSUME NEW q \in B PROVE \E p \in A : f[p] = q
  <2>1. q[1] \in 1..L /\ q[2] \in Nat /\ q = <<q[1], q[2]>> /\ q[2] \in 1..seq[q[1]]
    BY DEF Pairs
  <2>2. PICK k \in 1..L : pos[k] = q[1]
    BY <1>1, <2>1
  <2>3. t[k] = seq[q[1]]
    BY <1>2, <2>2
  <2>4. <<k, q[2]>> \in A
    BY <2>1, <2>3 DEF Pairs
  <2>5. f[<<k, q[2]>>] = q
    BY <2>1, <2>2, <2>4
  <2> QED
    BY <2>4, <2>5
<1>7. IsFiniteSet(A) /\ Cardinality(A) = Sum(t)
  BY <1>2, SumCounts
<1>8. IsFiniteSet(B) /\ Cardinality(B) = Sum(seq)
  BY SumCounts
<1> HIDE DEF A, B, f
<1>9. ExistsBijection(A, B)
  <2>1. f \in Bijection(A, B)
    BY <1>4, <1>5, <1>6, Fun_IsBij
  <2> QED
    BY <2>1 DEF ExistsBijection
<1>10. Cardinality(A) = Cardinality(B)
  BY <1>7, <1>9, FS_Bijection
<1> QED
  BY <1>7, <1>8, <1>10 DEF t

\* Lines that are others in some order, but for their bandwidth and their vote.
SameNumbers(a, b) ==
  /\ a.relay = b.relay /\ a.mean = b.mean /\ a.filt = b.filt /\ a.average = b.average
  /\ a.burst = b.burst /\ a.obsLast = b.obsLast /\ a.obsMean = b.obsMean
Reordered(new, old, pos) ==
  /\ AreScalable(new) /\ AreScalable(old) /\ Len(new) = Len(old) /\ IsOrderOf(pos, Len(old))
  /\ \A k \in 1..Len(old) : SameNumbers(new[k], old[pos[k]])

\* The sums and the limit are those of the others.
LEMMA ReorderedLimit ==
  ASSUME NEW new, NEW old, NEW pos, Reordered(new, old, pos)
  PROVE  /\ SumMean(new) = SumMean(old) /\ SumFilt(new) = SumFilt(old)
         /\ HLimit(new) = HLimit(old)
         /\ \A k \in 1..Len(old) : DescBw(new[k]) = DescBw(old[pos[k]])
<1> DEFINE L == Len(old)
<1>1. /\ L \in Nat /\ DOMAIN old = 1..L /\ DOMAIN new = 1..L /\ Len(new) = L
      /\ \A i \in 1..L : IsScalable(old[i])
  BY DEF Reordered, AreScalable, IsList
<1>2. /\ IsOrderOf(pos, L) /\ AreScalable(new) /\ AreScalable(old)
      /\ \A k \in 1..L : SameNumbers(new[k], old[pos[k]])
  BY DEF Reordered
<1> HIDE DEF L
<1>3. pos \in [1..L -> 1..L]
  BY <1>2 DEF IsOrderOf
<1>4. SumMean(new) = SumMean(old)
  <2> DEFINE seq == [i \in 1..L |-> old[i].mean]
             t   == [i \in 1..L |-> new[i].mean]
  <2>1. Map(LAMBDA l : l.mean, old) = seq /\ Map(LAMBDA l : l.mean, new) = t
    BY <1>1 DEF Map
  <2>2. seq \in [1..L -> Nat]
    BY <1>1 DEF IsScalable
  <2>3. t = InOrder(seq, pos, L)
    BY <1>2, <1>3 DEF SameNumbers, InOrder
  <2> HIDE DEF seq, t
  <2>4. Sum(t) = Sum(seq)
    BY <1>1, <1>2, <2>2, <2>3, OrderedSum
  <2> QED
    BY <2>1, <2>4 DEF SumMean
<1>5. SumFilt(new) = SumFilt(old)
  <2> DEFINE seq == [i \in 1..L |-> old[i].filt]
             t   == [i \in 1..L |-> new[i].filt]
  <2>1. Map(LAMBDA l : l.filt, old) = seq /\ Map(LAMBDA l : l.filt, new) = t
    BY <1>1 DEF Map
  <2>2. seq \in [1..L -> Nat]
    BY <1>1 DEF IsScalable
  <2>3. t = InOrder(seq, pos, L)
    BY <1>2, <1>3 DEF SameNumbers, InOrder
  <2> HIDE DEF seq, t
  <2>4. Sum(t) = Sum(seq)
    BY <1>1, <1>2, <2>2, <2>3, OrderedSum
  <2> QED
    BY <2>1, <2>4 DEF SumFilt
<1>6. ASSUME NEW k \in 1..L
      PROVE  /\ DescBw(new[k]) = DescBw(old[pos[k]])
             /\ Product(new[k], new) = Product(old[pos[k]], old)
             /\ InConsensus(new[k].relay) <=> InConsensus(old[pos[k]].relay)
  <2>1. SameNumbers(new[k], old[pos[k]])
    BY <1>2
  <2>2. DescBw(new[k]) = DescBw(old[pos[k]])
    BY <2>1 DEF DescBw, SameNumbers
  <2>3. Ratio(new[k], new) = Ratio(old[pos[k]], old)
    BY <1>1, <1>4, <1>5, <2>1 DEF Ratio, SameNumbers, L
  <2> QED
    BY <2>1, <2>2, <2>3 DEF Product, SameNumbers
<1>7. HLimit(new) = HLimit(old)
  <2>1. LimitTerms(new) = InOrder(LimitTerms(old), pos, L)
    <3>1. LimitTerms(new) = [k \in 1..L |-> IF InConsensus(new[k].relay) THEN Product(new[k], new)
                                            ELSE 0]
      BY <1>1 DEF LimitTerms
    <3>2. \A i \in 1..L : LimitTerms(old)[i] = IF InConsensus(old[i].relay)
                                              THEN Product(old[i], old) ELSE 0
      BY DEF LimitTerms, L
    <3> QED
      BY <1>3, <1>6, <3>1, <3>2 DEF InOrder
  <2>2. LimitTerms(old) \in [1..L -> Nat]
    BY <1>2, LimitType DEF L
  <2>3. Sum(LimitTerms(new)) = Sum(LimitTerms(old))
    BY <1>1, <1>2, <2>1, <2>2, OrderedSum
  <2>4. /\ HLimit(new) = TorflowCap * Sum(LimitTerms(new))
        /\ HLimit(old) = TorflowCap * Sum(LimitTerms(old))
    BY <1>2, LimitType
  <2> QED
    BY <2>3, <2>4
<1> QED
  BY <1>4, <1>5, <1>6, <1>7 DEF L

\* A relay that measures no more and claims no more than another has no larger
\* product.
LEMMA ProductMonotonic ==
  ASSUME NEW lines, AreScalable(lines), NEW i \in DOMAIN lines, NEW j \in DOMAIN lines,
         lines[i].mean <= lines[j].mean, lines[i].filt <= lines[j].filt,
         DescBw(lines[i]) <= DescBw(lines[j])
  PROVE  Product(lines[i], lines) <= Product(lines[j], lines)
<1> DEFINE m == lines[i]
           n == lines[j]
           M == SumMean(lines)
           F == SumFilt(lines)
           L == Len(lines)
<1>1. /\ L \in Nat /\ m.mean \in Nat /\ m.filt \in Nat /\ n.mean \in Nat /\ n.filt \in Nat
      /\ IsScalable(m) /\ IsScalable(n)
  BY DEF AreScalable, IsList, IsScalable
<1>2. M \in Nat /\ F \in Nat
  BY SumsType
<1>3. DescBw(m) \in Nat /\ DescBw(n) \in Nat
  BY <1>1, DescBwType
<1>4. /\ Product(m, lines) = (L * LargerOf(m.mean * F, m.filt * M)) * DescBw(m)
      /\ Product(n, lines) = (L * LargerOf(n.mean * F, n.filt * M)) * DescBw(n)
  BY DEF Product, Ratio
<1>5. m.mean * F <= n.mean * F /\ m.mean * F \in Nat /\ n.mean * F \in Nat
  BY <1>1, <1>2, TimesMonotonic
<1>6. m.filt * M <= n.filt * M /\ m.filt * M \in Nat /\ n.filt * M \in Nat
  <2>1. m.filt <= n.filt
    OBVIOUS
  <2> HIDE DEF m, n, M
  <2> QED
    BY <1>1, <1>2, <2>1, TimesMonotonic
<1> DEFINE a == LargerOf(m.mean * F, m.filt * M)
           b == LargerOf(n.mean * F, n.filt * M)
<1>7. a \in Nat /\ b \in Nat /\ a <= b
  BY <1>5, <1>6 DEF LargerOf
<1>8. DescBw(m) <= DescBw(n)
  OBVIOUS
<1> HIDE DEF a, b, m, n, L
<1>9. L * a <= L * b /\ L * a \in Nat /\ L * b \in Nat
  BY <1>1, <1>7, TimesMonotonic
<1>10. (L * a) * DescBw(m) <= (L * b) * DescBw(m)
  BY <1>3, <1>9, TimesMonotonic
<1>11. (L * b) * DescBw(m) <= (L * b) * DescBw(n)
  BY <1>3, <1>8, <1>9, TimesMonotonic
<1>12. /\ (L * a) * DescBw(m) \in Nat /\ (L * b) * DescBw(m) \in Nat
       /\ (L * b) * DescBw(n) \in Nat
  BY <1>3, <1>9
<1>13. Product(m, lines) = (L * a) * DescBw(m) /\ Product(n, lines) = (L * b) * DescBw(n)
  BY <1>4 DEF a, b
<1> HIDE DEF M, F
<1>14. Product(m, lines) <= Product(n, lines)
  BY <1>10, <1>11, <1>12, <1>13
<1> QED
  BY <1>14 DEF m, n

\* It is then given no more.
LEMMA CappedMonotonic ==
  ASSUME NEW lines, AreScalable(lines), NEW i \in DOMAIN lines, NEW j \in DOMAIN lines,
         lines[i].mean <= lines[j].mean, lines[i].filt <= lines[j].filt,
         DescBw(lines[i]) <= DescBw(lines[j])
  PROVE  Capped(lines[i], lines) <= Capped(lines[j], lines)
<1> DEFINE a == Capped(lines[i], lines)
           b == Capped(lines[j], lines)
           p == Product(lines[i], lines)
           q == Product(lines[j], lines)
           h == HLimit(lines)
<1>1. p \in Nat /\ q \in Nat
  BY ProductType
<1>2. p <= q
  BY ProductMonotonic
<1>3. a \in Nat /\ a <= h /\ a <= 100 * p
  BY CappedType
<1>4. b \in Nat /\ b \in {h, 100 * q}
  BY CappedType
<1>5. h \in Nat
  BY LimitType
<1> HIDE DEF a, b, p, q, h
<1>6. a <= b
  BY <1>1, <1>2, <1>3, <1>4, <1>5
<1> QED
  BY <1>6 DEF a, b

\* A line with another bandwidth has the same numbers.
LEMMA SetBwNumbers ==
  ASSUME NEW l, IsScalable(l), {"relay", "bw"} \subseteq DOMAIN l, NEW bw
  PROVE  /\ SameNumbers(SetBw(l, bw), l) /\ IsScalable(SetBw(l, bw))
         /\ DOMAIN SetBw(l, bw) = DOMAIN l
<1> DEFINE m == SetBw(l, bw)
<1>1. {"mean", "filt", "average", "burst", "obsLast", "obsMean", "relay", "bw"} \subseteq DOMAIN l
  BY DEF IsScalable
<1>2. DOMAIN m = DOMAIN l /\ SameNumbers(m, l)
  BY <1>1 DEF SetBw, SameNumbers
<1> HIDE DEF m
<1>3. IsScalable(m)
  BY <1>2 DEF IsScalable, SameNumbers
<1> QED
  BY <1>2, <1>3 DEF m

LEMMA RescaledReorders ==
  ASSUME NEW new, NEW old, NEW pos, AreScalable(old), Rescaled(new, old, pos)
  PROVE  Reordered(new, old, pos)
<1> DEFINE L == Len(old)
<1>1. /\ L \in Nat /\ DOMAIN old = 1..L
      /\ \A i \in 1..L : IsScalable(old[i])
                         /\ {"relay", "bw", "vote", "under"} \subseteq DOMAIN old[i]
  BY DEF AreScalable, IsList
<1>2. /\ IsList(new) /\ Len(new) = L /\ IsOrderOf(pos, L)
      /\ \A k \in 1..L : new[k] = SetBw(old[pos[k]], new[k].bw) /\ new[k].bw \in Nat \ {0}
  BY DEF Rescaled
<1>3. pos \in [1..L -> 1..L] /\ DOMAIN new = 1..L
  BY <1>2 DEF IsOrderOf, IsList
<1> HIDE DEF L
<1>4. ASSUME NEW k \in 1..L
      PROVE  /\ SameNumbers(new[k], old[pos[k]]) /\ IsScalable(new[k])
             /\ {"relay", "bw", "vote", "under"} \subseteq DOMAIN new[k]
  <2> DEFINE l == old[pos[k]]
             bw == new[k].bw
  <2>1. IsScalable(l) /\ {"relay", "bw", "vote", "under"} \subseteq DOMAIN l
    BY <1>1, <1>3
  <2>2. new[k] = SetBw(l, bw)
    BY <1>2
  <2> HIDE DEF l, bw
  <2>3. SameNumbers(SetBw(l, bw), l) /\ IsScalable(SetBw(l, bw)) /\ DOMAIN SetBw(l, bw) = DOMAIN l
    BY <2>1, SetBwNumbers
  <2> QED
    BY <2>1, <2>2, <2>3 DEF l
<1>5. AreScalable(new)
  BY <1>2, <1>3, <1>4 DEF AreScalable
<1> QED
  BY <1>2, <1>4, <1>5 DEF Reordered, L

\* Lines that are scaled as Torflow are within the limit.
LEMMA TorflowWithinLimit ==
  ASSUME NEW lines, AreScalable(lines), SumMean(lines) # 0, SumFilt(lines) # 0
  PROVE  WithinLimit(TorflowScale(lines))
<1> DEFINE new == TorflowScale(lines)
           L   == Len(lines)
           H   == HLimit(lines)
           D   == Over(lines)
           B(n) == RoundSigDig(n, D, RoundDigits)
<1>1. PICK pos : /\ Rescaled(new, lines, pos)
                 /\ \A k \in 1..L : new[k].bw = TorflowBw(lines[pos[k]], lines)
                 /\ \A k, l \in 1..L : k < l => new[k].bw <= new[l].bw
  BY TorflowRescales
<1> HIDE DEF new
<1>2. Reordered(new, lines, pos)
  BY <1>1, RescaledReorders
<1>3. /\ SumMean(new) = SumMean(lines) /\ SumFilt(new) = SumFilt(lines) /\ HLimit(new) = H
      /\ \A k \in 1..L : DescBw(new[k]) = DescBw(lines[pos[k]])
  BY <1>2, ReorderedLimit
<1>4. DOMAIN lines = 1..L /\ DOMAIN new = 1..L /\ pos \in [1..L -> 1..L] /\ L \in Nat
  BY <1>2 DEF Reordered, AreScalable, IsList, IsOrderOf
<1>5. D \in Nat \ {0} /\ H \in Nat /\ RoundDigits \in Nat \ {0}
  BY OverType, LimitType, ArgumentsAssumption
<1>6. ASSUME NEW k \in 1..L
      PROVE  /\ lines[pos[k]].mean = new[k].mean /\ lines[pos[k]].filt = new[k].filt
             /\ DescBw(lines[pos[k]]) = DescBw(new[k])
             /\ new[k].bw = B(Capped(lines[pos[k]], lines))
             /\ Capped(lines[pos[k]], lines) \in Nat /\ Capped(lines[pos[k]], lines) <= H
             /\ pos[k] \in DOMAIN lines
  <2>1. pos[k] \in DOMAIN lines
    BY <1>4
  <2>2. SameNumbers(new[k], lines[pos[k]])
    BY <1>2 DEF Reordered
  <2>3. TorflowBw(lines[pos[k]], lines) = B(Capped(lines[pos[k]], lines))
    BY DEF TorflowBw, Over
  <2>4. Capped(lines[pos[k]], lines) \in Nat /\ Capped(lines[pos[k]], lines) <= H
    BY <2>1, CappedType
  <2> QED
    BY <1>1, <1>3, <2>1, <2>2, <2>3, <2>4 DEF SameNumbers
<1>7. RoundSigDig(HLimit(new), 100 * SumMean(new) * SumFilt(new) * Kilo, RoundDigits) = B(H)
  BY <1>3 DEF Over
<1> HIDE DEF L, H, D
<1>8. ASSUME NEW i \in 1..L PROVE new[i].bw <= B(H)
  BY <1>5, <1>6, RoundSigDigMonotonic
<1>9. ASSUME NEW i \in 1..L, NEW j \in 1..L,
             new[i].mean <= new[j].mean, new[i].filt <= new[j].filt,
             DescBw(new[i]) <= DescBw(new[j])
      PROVE  new[i].bw <= new[j].bw
  <2> DEFINE a == Capped(lines[pos[i]], lines)
             b == Capped(lines[pos[j]], lines)
  <2>1. a \in Nat /\ b \in Nat /\ new[i].bw = B(a) /\ new[j].bw = B(b)
    BY <1>6
  <2>2. /\ lines[pos[i]].mean <= lines[pos[j]].mean /\ lines[pos[i]].filt <= lines[pos[j]].filt
        /\ DescBw(lines[pos[i]]) <= DescBw(lines[pos[j]])
        /\ pos[i] \in DOMAIN lines /\ pos[j] \in DOMAIN lines
    BY <1>6, <1>9
  <2>3. a <= b
    BY <2>2, CappedMonotonic
  <2> HIDE DEF a, b
  <2>4. B(a) <= B(b)
    BY <1>5, <2>1, <2>3, RoundSigDigMonotonic
  <2> QED
    BY <2>1, <2>4
<1>10. \A i, j \in 1..L : i < j => new[i].bw <= new[j].bw
  BY <1>1 DEF L
<1>11. WithinLimit(new)
  BY <1>4, <1>7, <1>8, <1>9, <1>10 DEF WithinLimit
<1> QED
  BY <1>11 DEF new

\* set_under_min_report: what a line says apart from the vote.
Under(l) == [l EXCEPT !.under = TRUE, !.vote = FALSE]

LEMMA UnderKeeps ==
  ASSUME NEW l, NEW relay, IsLineOf(l, relay)
  PROVE  /\ IsLineOf(Under(l), relay) /\ Under(l).reason = l.reason /\ ~Under(l).vote
         /\ Under(l).bw = l.bw
         /\ l.reason = None => SameNumbers(Under(l), l)
<1> DEFINE m == Under(l)
<1>1. {"relay", "bw", "vote", "under", "reason", "counts"} \subseteq DOMAIN l
  BY DEF IsLineOf
<1>2. /\ DOMAIN m = DOMAIN l /\ m.bw = l.bw /\ m.relay = l.relay /\ ~m.vote
      /\ m.reason = l.reason /\ m.counts = l.counts
  BY <1>1 DEF Under
<1>3. ASSUME l.reason = None PROVE SameNumbers(m, l)
  <2>1. {"mean", "filt", "average", "burst", "obsLast", "obsMean", "relay"} \subseteq DOMAIN l
    BY <1>3 DEF IsLineOf, IsScalable
  <2> QED
    BY <2>1 DEF Under, SameNumbers
<1> HIDE DEF m
<1>4. l.reason = None => IsScalable(m)
  BY <1>2, <1>3 DEF IsLineOf, IsScalable, SameNumbers
<1>5. l.reason # "no_observed_bw" => CountsAgree(m)
  <2>1. CountsAgree(m) <=> CountsAgree(l)
    BY <1>2 DEF CountsAgree
  <2> QED
    BY <2>1 DEF IsLineOf
<1>6. IsLineOf(m, relay)
  BY <1>1, <1>2, <1>4, <1>5 DEF IsLineOf
<1> QED
  BY <1>2, <1>3, <1>6 DEF m

LEMMA UnderLines ==
  ASSUME NEW old, AreLines(old)
  PROVE  LET new == SetUnderMinReport(old)
         IN  /\ AreLines(new) /\ RelaysOf(new) = RelaysOf(old) /\ Len(new) = Len(old)
             /\ DOMAIN new = DOMAIN old
             /\ \A i \in DOMAIN new : /\ new[i].reason = old[i].reason /\ ~new[i].vote
                                      /\ new[i].bw = old[i].bw
                                      /\ old[i].reason = None => SameNumbers(new[i], old[i])
<1> DEFINE new == SetUnderMinReport(old)
           L   == Len(old)
<1>1. /\ L \in Nat /\ DOMAIN old = 1..L
      /\ \A i \in 1..L : old[i].relay \in Relays /\ IsLineOf(old[i], old[i].relay)
      /\ \A i, j \in 1..L : old[i].relay = old[j].relay => i = j
  BY DEF AreLines, IsList
<1>2. new = [i \in 1..L |-> Under(old[i])]
  BY <1>1 DEF SetUnderMinReport, Map, Under
<1> HIDE DEF new, L
<1>3. IsList(new) /\ Len(new) = L /\ DOMAIN new = 1..L
  <2>1. new = [i \in 1..L |-> new[i]]
    BY <1>2
  <2> QED
    BY <1>1, <2>1, FunctionIsList
<1>4. ASSUME NEW i \in 1..L
      PROVE  /\ IsLineOf(new[i], old[i].relay) /\ new[i].relay = old[i].relay
             /\ new[i].reason = old[i].reason /\ ~new[i].vote /\ new[i].bw = old[i].bw
             /\ old[i].reason = None => SameNumbers(new[i], old[i])
  <2>1. new[i] = Under(old[i]) /\ IsLineOf(old[i], old[i].relay)
    BY <1>1, <1>2
  <2>2. /\ IsLineOf(new[i], old[i].relay) /\ new[i].reason = old[i].reason /\ ~new[i].vote
        /\ new[i].bw = old[i].bw /\ (old[i].reason = None => SameNumbers(new[i], old[i]))
    BY <2>1, UnderKeeps
  <2> QED
    BY <2>2 DEF IsLineOf
<1>5. RelaysOf(new) = RelaysOf(old)
  BY <1>1, <1>3, <1>4 DEF RelaysOf
<1>6. AreLines(new)
  BY <1>1, <1>3, <1>4 DEF AreLines
<1> QED
  BY <1>1, <1>3, <1>4, <1>5, <1>6 DEF new, L

\* Lines that tor does not vote on are within the limit as they were.
LEMMA UnderWithinLimit ==
  ASSUME NEW old, AreLines(old), \A i \in DOMAIN old : old[i].reason = None, WithinLimit(old)
  PROVE  WithinLimit(SetUnderMinReport(old))
<1> DEFINE new == SetUnderMinReport(old)
           L   == Len(old)
           pos == [k \in 1..L |-> k]
<1>1. L \in Nat /\ DOMAIN old = 1..L
  BY DEF AreLines, IsList
<1>2. /\ AreLines(new) /\ Len(new) = L /\ DOMAIN new = 1..L
      /\ \A i \in 1..L : /\ new[i].reason = None /\ new[i].bw = old[i].bw
                         /\ SameNumbers(new[i], old[i])
  BY <1>1, UnderLines
<1> HIDE DEF new, L
<1>3. AreScalable(new) /\ AreScalable(old)
  BY <1>2, LinesAreScalable
<1>4. IsOrderOf(pos, L)
  BY DEF IsOrderOf
<1>5. \A k \in 1..L : pos[k] = k
  OBVIOUS
<1> HIDE DEF pos
<1>6. Reordered(new, old, pos)
  BY <1>2, <1>3, <1>4, <1>5 DEF Reordered, L
<1>7. /\ SumMean(new) = SumMean(old) /\ SumFilt(new) = SumFilt(old) /\ HLimit(new) = HLimit(old)
      /\ \A k \in 1..L : DescBw(new[k]) = DescBw(old[pos[k]])
  BY <1>6, ReorderedLimit DEF L
<1>8. \A k \in 1..L : /\ new[k].mean = old[k].mean /\ new[k].filt = old[k].filt
                      /\ DescBw(new[k]) = DescBw(old[k]) /\ new[k].bw = old[k].bw
  BY <1>2, <1>5, <1>7 DEF SameNumbers
<1>9. WithinLimit(new)
  BY <1>1, <1>2, <1>7, <1>8 DEF WithinLimit
<1> QED
  BY <1>9 DEF new

-----------------------------------------------------------------------------
(***************************************************************************)
(* The invariant holds.                                                    *)
(***************************************************************************)

\* What is said of lines does not change while the inputs do not.
LEMMA InputsKept ==
  ASSUME UNCHANGED inputVars
  PROVE  /\ \A s : AreLines(s)' <=> AreLines(s)
         /\ \A s : WithinLimit(s)' <=> WithinLimit(s)
         /\ \A s : ScaleRaises(s)' <=> ScaleRaises(s)
         /\ \A n : Enough(n)' <=> Enough(n)
         /\ \A relay : Loaded(relay)' = Loaded(relay)
         /\ Minimum' = Minimum /\ NumConsensus' = NumConsensus
         /\ InputInv' <=> InputInv
<1> USE DEF inputVars
<1>1. \A relay : Current(relay)' = Current(relay) /\ Successes(relay)' = Successes(relay)
  BY DEF Current, Successes
<1>2. \A r : IsRecent(r)' <=> IsRecent(r)
  BY DEF IsRecent
<1>3. \A relay : MeasuredEnough(relay)' <=> MeasuredEnough(relay)
  BY <1>1, <1>2 DEF MeasuredEnough
<1>4. \A l : CountsAgree(l)' <=> CountsAgree(l)
  BY <1>1 DEF CountsAgree
<1>5. \A l, relay : IsLineOf(l, relay)' <=> IsLineOf(l, relay)
  BY <1>3, <1>4 DEF IsLineOf
<1>6. \A s : AreLines(s)' <=> AreLines(s)
  BY <1>5 DEF AreLines
<1>7. \A relay : InConsensus(relay)' <=> InConsensus(relay)
  BY DEF InConsensus
<1>8. \A s : HLimit(s)' = HLimit(s)
  BY DEF HLimit, InConsensus, Map
<1>9. \A s : WithinLimit(s)' <=> WithinLimit(s)
  BY <1>8 DEF WithinLimit
<1>10. \A s : ScaleRaises(s)' <=> ScaleRaises(s)
  BY DEF ScaleRaises
<1>11. NumConsensus' = NumConsensus
  BY DEF NumConsensus
<1>12. Minimum' = Minimum
  BY <1>11 DEF Minimum
<1>13. \A n : Enough(n)' <=> Enough(n)
  BY <1>12 DEF Enough
<1>14. \A relay : Loaded(relay)' = Loaded(relay)
  BY DEF Loaded
<1>15. InputInv' <=> InputInv
  BY DEF InputInv
<1> QED
  BY <1>6, <1>9, <1>10, <1>11, <1>12, <1>13, <1>14, <1>15

\* No lines.
LEMMA NoLines ==
  /\ AreLines(<< >>) /\ RelaysOf(<< >>) = {} /\ DOMAIN << >> = {} /\ Len(<< >>) = 0
  /\ \A reason : Cardinality(ReasonIs(<< >>, reason)) = 0
<1>1. Len(<< >>) = 0 /\ << >> \in Seq({})
  BY EmptySeq
<1>2. DOMAIN << >> = {} /\ 1..0 = {}
  BY <1>1, LenProperties
<1>3. IsList(<< >>)
  <2>1. << >> \in Seq({<< >>[k] : k \in 1..0})
    BY EmptySeq
  <2> QED
    BY <1>1, <1>2, <2>1 DEF IsList
<1>4. \A reason : ReasonIs(<< >>, reason) = {}
  BY <1>2 DEF ReasonIs
<1> QED
  BY <1>1, <1>2, <1>3, <1>4, FS_EmptySet DEF AreLines, RelaysOf

\* The relays with results are those with lines of this version on disk.
LEMMA MeasuredRelays ==
  ASSUME InputInv, ResultsInv, pc # "load", NEW relay \in Relays
  PROVE  /\ results[relay] = Loaded(relay) /\ IsLoaded(results[relay], relay)
         /\ relay \in Measured <=> Current(relay) # {}
         /\ relay \in Measured => Len(results[relay]) > 0
<1>1. results[relay] = Loaded(relay)
  BY DEF ResultsInv
<1>2. IsLoaded(Loaded(relay), relay)
  BY LoadedIsRead
<1>3. PICK pos : IsReadOf(Loaded(relay), relay, pos)
  BY <1>2 DEF IsLoaded
<1>4. /\ Len(Loaded(relay)) \in Nat /\ (Loaded(relay) = << >> <=> Len(Loaded(relay)) = 0)
  BY <1>3, ReadEmpty
<1>5. Len(Loaded(relay)) = 0 <=> Current(relay) = {}
  BY <1>2 DEF IsLoaded
<1>6. relay \in Measured <=> Loaded(relay) # << >>
  BY <1>1 DEF Measured
<1> QED
  BY <1>1, <1>2, <1>4, <1>5, <1>6

\* Until it is counted, no relay has been counted.
LEMMA NotCounted ==
  ASSUME IInv, pc \in {"load", "header", "lines", "progress"}
  PROVE  header.eligible = None /\ file = << >> /\ ~IsCounted
BY DEF IInv, HeaderInv, FileInv, IsCounted

LEMMA InitInv == Init => IInv
<1> SUFFICES ASSUME Init PROVE IInv
  OBVIOUS
<1>1. InputInv
  BY DEF Init, InputInv
<1>2. Measured = {}
  BY DEF Init, Measured
<1>3. ResultsInv
  BY DEF Init, ResultsInv
<1>4. LinesInv
  BY NoLines DEF Init, LinesInv
<1>5. HeaderInv
  BY NoLines DEF Init, HeaderInv, NoHeader
<1>6. VoteInv /\ LimitInv /\ FileInv
  BY DEF Init, VoteInv, LimitInv, FileInv, IsCounted, IsScaled
<1> QED
  BY <1>1, <1>2, <1>3, <1>4, <1>5, <1>6 DEF Init, IInv

LEMMA StutterInv == IInv /\ UNCHANGED vars => IInv'
<1> SUFFICES ASSUME IInv, UNCHANGED vars PROVE IInv'
  OBVIOUS
<1>1. UNCHANGED inputVars
  BY DEF vars
<1>2. /\ UNCHANGED <<results, minPerc, pc, todo, raw, excluded, header, file>>
      /\ Measured' = Measured /\ Lines' = Lines
      /\ (IsCounted' <=> IsCounted) /\ (IsScaled' <=> IsScaled)
  BY DEF vars, Measured, Lines, IsCounted, IsScaled
<1>3. ResultsInv'
  BY <1>1, <1>2, InputsKept DEF IInv, ResultsInv
<1>4. LinesInv'
  BY <1>1, <1>2, InputsKept DEF IInv, LinesInv
<1>5. HeaderInv'
  BY <1>1, <1>2, InputsKept DEF IInv, HeaderInv, ReasonIs
<1>6. VoteInv'
  BY <1>1, <1>2, InputsKept DEF IInv, VoteInv, inputVars
<1>7. LimitInv'
  BY <1>1, <1>2, InputsKept DEF IInv, LimitInv, inputVars
<1>8. FileInv'
  BY <1>1, <1>2, InputsKept DEF IInv, FileInv
<1> QED
  BY <1>1, <1>2, <1>3, <1>4, <1>5, <1>6, <1>7, <1>8, InputsKept DEF IInv

LEMMA LoadInv == IInv /\ Load => IInv'
<1> SUFFICES ASSUME IInv, Load PROVE IInv'
  OBVIOUS
<1> USE DEF Load
<1>1. UNCHANGED inputVars /\ UNCHANGED <<minPerc, todo, raw, excluded, header, file>>
  OBVIOUS
<1>2. todo = {} /\ raw = << >> /\ excluded = << >> /\ header.eligible = None /\ file = << >>
  BY NotCounted DEF IInv, LinesInv
<1>3. ResultsInv'
  <2>1. \A relay \in Relays : Loaded(relay) = IF args.reset
                                             THEN TrimIpChanged(ResultsOf(disk[relay]))
                                             ELSE ResultsOf(disk[relay])
    BY DEF Loaded
  <2> QED
    BY <1>1, <2>1, InputsKept DEF ResultsInv
<1>4. LinesInv'
  BY <1>1, <1>2, InputsKept DEF IInv, LinesInv
<1>5. HeaderInv'
  BY <1>1, <1>2 DEF IInv, HeaderInv
<1>6. VoteInv' /\ LimitInv' /\ FileInv'
  BY <1>1, <1>2 DEF VoteInv, LimitInv, FileInv, IsCounted, IsScaled
<1> QED
  BY <1>1, <1>2, <1>3, <1>4, <1>5, <1>6, InputsKept DEF IInv

LEMMA NoResultsInv == IInv /\ NoResults => IInv'
<1> SUFFICES ASSUME IInv, NoResults PROVE IInv'
  OBVIOUS
<1> USE DEF NoResults
<1>1. UNCHANGED inputVars /\ UNCHANGED <<results, minPerc, todo, raw, excluded, header, file>>
  OBVIOUS
<1>2. /\ todo = {} /\ raw = << >> /\ excluded = << >> /\ header.eligible = None /\ file = << >>
      /\ Measured = {} /\ Measured' = {}
  BY NotCounted DEF IInv, LinesInv, Measured
<1>3. ResultsInv'
  BY <1>1, InputsKept DEF IInv, ResultsInv
<1>4. LinesInv'
  BY <1>1, <1>2, InputsKept, NoLines DEF IInv, LinesInv
<1>5. HeaderInv'
  BY <1>1, <1>2 DEF IInv, HeaderInv
<1>6. VoteInv' /\ LimitInv' /\ FileInv'
  BY <1>1, <1>2 DEF VoteInv, LimitInv, FileInv, IsCounted, IsScaled
<1> QED
  BY <1>1, <1>2, <1>3, <1>4, <1>5, <1>6, InputsKept DEF IInv

LEMMA HeaderFromResultsInv == IInv /\ HeaderFromResults => IInv'
<1> SUFFICES ASSUME IInv, HeaderFromResults PROVE IInv'
  OBVIOUS
<1> USE DEF HeaderFromResults
<1>1. UNCHANGED inputVars /\ UNCHANGED <<results, minPerc, raw, excluded, file>>
  OBVIOUS
<1>2. /\ raw = << >> /\ excluded = << >> /\ header.eligible = None /\ file = << >>
      /\ todo' = Measured' /\ Measured' # {}
  BY NotCounted DEF IInv, LinesInv, Measured
<1>3. ResultsInv'
  BY <1>1, InputsKept DEF IInv, ResultsInv
<1>4. LinesInv'
  BY <1>1, <1>2, InputsKept, NoLines DEF IInv, LinesInv
<1>5. HeaderInv'
  BY <1>1, <1>2 DEF IInv, HeaderInv
<1>6. VoteInv' /\ LimitInv' /\ FileInv'
  BY <1>1, <1>2 DEF VoteInv, LimitInv, FileInv, IsCounted, IsScaled
<1> QED
  BY <1>1, <1>2, <1>3, <1>4, <1>5, <1>6, InputsKept DEF IInv

LEMMA LineFromResultsInv ==
  ASSUME IInv, NEW relay \in Relays, LineFromResults(relay)
  PROVE  IInv'
<1> USE DEF LineFromResults
<1> DEFINE line == LineOf(relay, results[relay])
<1>1. UNCHANGED inputVars /\ UNCHANGED <<results, minPerc, pc, file>> /\ pc = "lines"
  OBVIOUS
<1>2. /\ header.eligible = None /\ file = << >> /\ relay \in todo /\ todo \subseteq Measured
      /\ todo' = todo \ {relay} /\ Measured' = Measured /\ Measured # {}
  BY <1>1, NotCounted DEF IInv, Measured
<1>3. /\ AreLines(raw) /\ (\A i \in DOMAIN raw : raw[i].reason = None)
      /\ AreLines(excluded) /\ (\A i \in DOMAIN excluded : excluded[i].reason # None)
      /\ RelaysOf(raw) \cap RelaysOf(excluded) = {}
      /\ RelaysOf(raw) \cup RelaysOf(excluded) = Measured \ todo
  BY <1>1 DEF IInv, LinesInv
<1>4. IsLineOf(line, relay)
  <2>1. IsLoaded(results[relay], relay) /\ Len(results[relay]) > 0
    BY <1>1, <1>2, MeasuredRelays DEF IInv
  <2> QED
    BY <2>1, LineOfRelay DEF IInv
<1>5. /\ IF line.reason = None
         THEN raw' = Append(raw, line) /\ excluded' = excluded /\ header' = header
         ELSE /\ excluded' = Append(excluded, line) /\ header' = CountExcluded(line)
              /\ raw' = raw
  OBVIOUS
<1> HIDE DEF line, LineFromResults
<1>6. relay \notin RelaysOf(raw) /\ relay \notin RelaysOf(excluded)
  BY <1>2, <1>3
<1>7. LinesInv' /\ HeaderInv'
  <2>1. CASE line.reason = None
    <3>1. raw' = Append(raw, line) /\ excluded' = excluded /\ header' = header
      BY <1>5, <2>1
    <3>2. /\ AreLines(Append(raw, line)) /\ RelaysOf(Append(raw, line)) = RelaysOf(raw) \cup {relay}
          /\ \A i \in DOMAIN Append(raw, line) :
               \/ i \in DOMAIN raw /\ Append(raw, line)[i] = raw[i]
               \/ Append(raw, line)[i] = line
      BY <1>3, <1>4, <1>6, AppendLines
    <3>3. AreLines(raw') /\ \A i \in DOMAIN raw' : raw'[i].reason = None
      BY <1>3, <2>1, <3>1, <3>2
    <3>4. AreLines(raw)' /\ AreLines(excluded)'
      BY <1>1, <1>3, <3>1, <3>3, InputsKept
    <3>5. /\ RelaysOf(raw') \cap RelaysOf(excluded') = {}
          /\ RelaysOf(raw') \cup RelaysOf(excluded') = Measured \ (todo \ {relay})
      BY <1>2, <1>3, <1>6, <3>1, <3>2
    <3>6. LinesInv'
      BY <1>1, <1>2, <1>3, <3>1, <3>3, <3>4, <3>5 DEF LinesInv, RelaysOf
    <3>7. HeaderInv'
      BY <1>2, <3>1 DEF IInv, HeaderInv, ReasonIs
    <3> QED
      BY <3>6, <3>7
  <2>2. CASE line.reason # None
    <3>1. /\ excluded' = Append(excluded, line) /\ header' = CountExcluded(line) /\ raw' = raw
      BY <1>5, <2>2
    <3>2. /\ AreLines(Append(excluded, line))
          /\ RelaysOf(Append(excluded, line)) = RelaysOf(excluded) \cup {relay}
          /\ \A i \in DOMAIN Append(excluded, line) :
               \/ i \in DOMAIN excluded /\ Append(excluded, line)[i] = excluded[i]
               \/ Append(excluded, line)[i] = line
      BY <1>3, <1>4, <1>6, AppendLines
    <3>3. AreLines(excluded') /\ \A i \in DOMAIN excluded' : excluded'[i].reason # None
      BY <1>3, <2>2, <3>1, <3>2
    <3>4. AreLines(raw)' /\ AreLines(excluded)'
      BY <1>1, <1>3, <3>1, <3>3, InputsKept
    <3>5. /\ RelaysOf(raw') \cap RelaysOf(excluded') = {}
          /\ RelaysOf(raw') \cup RelaysOf(excluded') = Measured \ (todo \ {relay})
      BY <1>2, <1>3, <1>6, <3>1, <3>2
    <3>6. LinesInv'
      BY <1>1, <1>2, <1>3, <3>1, <3>3, <3>4, <3>5 DEF LinesInv, RelaysOf
    <3>7. /\ {"latest", "earliest", "excluded", "eligible", "minimum", "percent", "half"}
             = DOMAIN header
          /\ DOMAIN header.excluded = Reasons
          /\ \A r \in Reasons : header.excluded[r] = Cardinality(ReasonIs(excluded, r))
      BY DEF IInv, HeaderInv
    <3>8. \A r : /\ Cardinality(ReasonIs(excluded, r)) \in Nat
                 /\ Cardinality(ReasonIs(excluded', r))
                    = IF line.reason = r THEN Cardinality(ReasonIs(excluded, r)) + 1
                      ELSE Cardinality(ReasonIs(excluded, r))
      BY <1>3, <3>1, AppendReason DEF AreLines
    <3>9. /\ DOMAIN header' = DOMAIN header /\ header'.eligible = None
          /\ DOMAIN header'.excluded = Reasons
          /\ \A r \in Reasons : header'.excluded[r] = IF line.reason = r
                                                     THEN header.excluded[r] + 1
                                                     ELSE header.excluded[r]
      <4>1. CASE line.reason \in Reasons
        <5>1. header' = [header EXCEPT !.excluded[line.reason] = @ + 1]
          BY <3>1, <4>1 DEF CountExcluded
        <5> QED
          BY <1>2, <3>7, <4>1, <5>1
      <4>2. CASE line.reason \notin Reasons
        <5>1. header' = header
          BY <3>1, <4>2 DEF CountExcluded
        <5> QED
          BY <1>2, <3>7, <4>2, <5>1
      <4> QED
        BY <4>1, <4>2
    <3>10. \A r \in Reasons : header'.excluded[r] = Cardinality(ReasonIs(excluded', r))
      BY <3>7, <3>8, <3>9
    <3>11. HeaderInv'
      BY <3>7, <3>9, <3>10 DEF HeaderInv, ReasonIs
    <3> QED
      BY <3>6, <3>11
  <2> QED
    BY <2>1, <2>2
<1>8. ResultsInv'
  BY <1>1, InputsKept DEF IInv, ResultsInv
<1>9. VoteInv' /\ LimitInv' /\ FileInv'
  BY <1>1, <1>2 DEF VoteInv, LimitInv, FileInv, IsCounted, IsScaled
<1>10. todo' \subseteq Measured' /\ Measured' # {}
  BY <1>2
<1> QED
  BY <1>1, <1>7, <1>8, <1>9, <1>10, InputsKept DEF IInv

LEMMA NoneEligibleInv == IInv /\ NoneEligible => IInv'
<1> SUFFICES ASSUME IInv, NoneEligible PROVE IInv'
  OBVIOUS
<1> USE DEF NoneEligible
<1>1. /\ UNCHANGED inputVars /\ UNCHANGED <<results, todo, raw, file>>
      /\ pc = "lines" /\ pc' = "write" /\ todo = {} /\ raw = << >>
      /\ excluded' = SetUnderMinReport(excluded) /\ UpdateProgress(0)
  OBVIOUS
<1>2. header.eligible = None /\ file = << >> /\ Measured' = Measured /\ Measured # {}
  BY <1>1, NotCounted DEF IInv, Measured
<1>3. /\ AreLines(raw) /\ AreLines(excluded)
      /\ (\A i \in DOMAIN excluded : excluded[i].reason # None)
      /\ RelaysOf(raw) \cap RelaysOf(excluded) = {}
      /\ RelaysOf(raw) \cup RelaysOf(excluded) = Measured \ todo
  BY <1>1 DEF IInv, LinesInv
<1>4. /\ AreLines(excluded') /\ RelaysOf(excluded') = RelaysOf(excluded)
      /\ DOMAIN excluded' = DOMAIN excluded
      /\ \A i \in DOMAIN excluded' : excluded'[i].reason = excluded[i].reason
  BY <1>1, <1>3, UnderLines
<1>5. LinesInv'
  <2>1. AreLines(raw)' /\ AreLines(excluded)'
    BY <1>1, <1>3, <1>4, InputsKept
  <2> QED
    BY <1>1, <1>2, <1>3, <1>4, <2>1, NoLines DEF LinesInv, RelaysOf
<1>6. \A r : ReasonIs(excluded', r) = ReasonIs(excluded, r)
  BY <1>4 DEF ReasonIs
<1>7. Len(raw) = 0 /\ DOMAIN raw = {}
  BY <1>1, NoLines
<1>8. HeaderInv'
  <2>1. CASE consensus = None
    <3>1. header' = header
      BY <1>1, <2>1 DEF UpdateProgress
    <3> QED
      BY <1>2, <1>6, <3>1 DEF IInv, HeaderInv, ReasonIs
  <2>2. CASE consensus # None
    <3>1. header' = HasStats(0) /\ minPerc' = (0 >= Minimum)
      BY <1>1, <2>2 DEF UpdateProgress
    <3>2. /\ DOMAIN header' = DOMAIN header /\ header'.excluded = header.excluded
          /\ header'.eligible = 0 /\ header'.minimum = Minimum
      BY <3>1 DEF HasStats, IInv, HeaderInv
    <3>3. minPerc' <=> 0 >= Minimum
      BY <3>1
    <3>4. Minimum' = Minimum
      BY <1>1, InputsKept
    <3>5. IsCounted'
      BY <1>1 DEF IsCounted
    <3>6. /\ DOMAIN header.excluded = Reasons
          /\ \A r \in Reasons : header.excluded[r] = Cardinality(ReasonIs(excluded, r))
          /\ {"latest", "earliest", "excluded", "eligible", "minimum", "percent", "half"}
             = DOMAIN header
      BY DEF IInv, HeaderInv
    <3> QED
      BY <1>1, <1>6, <1>7, <3>2, <3>3, <3>4, <3>5, <3>6 DEF HeaderInv, ReasonIs
  <2> QED
    BY <2>1, <2>2
<1>9. minPerc' \in BOOLEAN
  <2>1. minPerc' = minPerc \/ minPerc' = (0 >= Minimum)
    BY <1>1, Zenon DEF UpdateProgress
  <2>2. (0 >= Minimum) \in BOOLEAN
    BY SMT
  <2> QED
    BY <2>1, <2>2, Zenon DEF IInv
<1>10. ResultsInv'
  BY <1>1, InputsKept DEF IInv, ResultsInv
<1>11. VoteInv' /\ LimitInv' /\ FileInv'
  BY <1>1, <1>2, <1>7 DEF VoteInv, LimitInv, FileInv, WithinLimit
<1> QED
  BY <1>1, <1>2, <1>5, <1>8, <1>9, <1>10, <1>11, InputsKept DEF IInv

LEMMA ScaleInv == IInv /\ Scale => IInv'
<1> SUFFICES ASSUME IInv, Scale PROVE IInv'
  OBVIOUS
<1> USE DEF Scale
<1>1. /\ UNCHANGED inputVars /\ UNCHANGED <<results, minPerc, todo, excluded, header, file>>
      /\ pc = "lines" /\ todo = {} /\ raw # << >> /\ ~ScaleRaises(raw)
      /\ pc' = IF args.method = "torflow" THEN "progress" ELSE "report"
  OBVIOUS
<1>2. header.eligible = None /\ file = << >> /\ Measured' = Measured /\ Measured # {}
  BY <1>1, NotCounted DEF IInv, Measured
<1>3. /\ AreLines(raw) /\ (\A i \in DOMAIN raw : raw[i].reason = None)
      /\ AreLines(excluded) /\ (\A i \in DOMAIN excluded : excluded[i].reason # None)
      /\ RelaysOf(raw) \cap RelaysOf(excluded) = {}
      /\ RelaysOf(raw) \cup RelaysOf(excluded) = Measured \ todo
  BY <1>1 DEF IInv, LinesInv
<1>4. AreScalable(raw)
  BY <1>3, LinesAreScalable
<1>5. args.method \in {"torflow", "sbws", "raw"}
  BY ArgumentsAssumption DEF IInv, InputInv
<1>6. /\ \E pos : Rescaled(raw', raw, pos)
      /\ args.method = "torflow" => WithinLimit(raw')
  <2>1. CASE args.method = "torflow"
    <3>1. raw' = TorflowScale(raw)
      BY <2>1
    <3>2. SumMean(raw) # 0 /\ SumFilt(raw) # 0
      BY <1>1, <2>1 DEF ScaleRaises
    <3> QED
      BY <1>4, <3>1, <3>2, TorflowRescales, TorflowWithinLimit
  <2>2. CASE args.method = "sbws"
    <3>1. raw' = SbwsScale(raw)
      BY <2>2
    <3>2. \A i \in DOMAIN raw : raw[i].average # None
      BY <1>1, <2>2 DEF ScaleRaises
    <3> QED
      BY <1>1, <1>4, <2>2, <3>1, <3>2, SbwsRescales
  <2>3. CASE args.method = "raw"
    <3>1. raw' = RawScale(raw)
      BY <2>3
    <3> QED
      BY <1>4, <2>3, <3>1, RawRescales
  <2> QED
    BY <1>5, <2>1, <2>2, <2>3
<1> HIDE DEF Scale
<1>7. PICK pos : Rescaled(raw', raw, pos)
  BY <1>6
<1>8. /\ AreLines(raw') /\ (\A i \in DOMAIN raw' : raw'[i].reason = None)
      /\ RelaysOf(raw') = RelaysOf(raw)
  BY <1>3, <1>7, RescaledLines
<1>9. LinesInv'
  <2>1. AreLines(raw)' /\ AreLines(excluded)'
    BY <1>1, <1>3, <1>8, InputsKept
  <2>2. pc' \notin {"load", "header"}
    BY <1>1
  <2>3. RelaysOf(raw)' = RelaysOf(raw) /\ RelaysOf(excluded)' = RelaysOf(excluded)
    BY <1>1, <1>8 DEF RelaysOf
  <2>4. /\ \A i \in DOMAIN raw' : raw'[i].reason = None
        /\ \A i \in DOMAIN excluded' : excluded'[i].reason # None
    BY <1>1, <1>3, <1>8
  <2> QED
    BY <1>1, <1>2, <1>3, <2>1, <2>2, <2>3, <2>4 DEF LinesInv
<1>10. HeaderInv'
  BY <1>1, <1>2 DEF IInv, HeaderInv, ReasonIs
<1>11. LimitInv'
  BY <1>1, <1>6, InputsKept DEF LimitInv, inputVars
<1>12. VoteInv'
  BY <1>1, <1>2 DEF VoteInv, IsCounted, inputVars
<1>13. FileInv'
  BY <1>1, <1>2 DEF FileInv
<1>14. ResultsInv'
  BY <1>1, InputsKept DEF IInv, ResultsInv
<1> QED
  BY <1>1, <1>2, <1>9, <1>10, <1>11, <1>12, <1>13, <1>14, InputsKept DEF IInv

LEMMA ScaleFailsInv == IInv /\ ScaleFails => IInv'
<1> SUFFICES ASSUME IInv, ScaleFails PROVE IInv'
  OBVIOUS
<1> USE DEF ScaleFails
<1>1. /\ UNCHANGED inputVars
      /\ UNCHANGED <<results, minPerc, todo, raw, excluded, header, file>>
      /\ pc = "lines" /\ pc' = "done" /\ todo = {} /\ ScaleRaises(raw)
  OBVIOUS
<1>2. header.eligible = None /\ file = << >> /\ Measured' = Measured
  BY <1>1, NotCounted DEF IInv, Measured
<1>3. ResultsInv'
  BY <1>1, InputsKept DEF IInv, ResultsInv
<1>4. LinesInv'
  BY <1>1, <1>2, InputsKept DEF IInv, LinesInv
<1>5. HeaderInv'
  BY <1>1, <1>2 DEF IInv, HeaderInv, ReasonIs
<1>6. VoteInv' /\ LimitInv'
  BY <1>1, <1>2 DEF VoteInv, LimitInv, IsCounted, IsScaled
<1>7. FileInv'
  BY <1>1, <1>2, InputsKept DEF FileInv
<1> QED
  BY <1>1, <1>2, <1>3, <1>4, <1>5, <1>6, <1>7, InputsKept DEF IInv

LEMMA ProgressInv == IInv /\ Progress => IInv'
<1> SUFFICES ASSUME IInv, Progress PROVE IInv'
  OBVIOUS
<1> USE DEF Progress
<1>1. /\ UNCHANGED inputVars /\ UNCHANGED <<results, todo, excluded, file>>
      /\ pc = "progress" /\ pc' = "report" /\ todo = {} /\ UpdateProgress(Len(raw))
      /\ raw' = IF Enough(Len(raw)) THEN raw ELSE SetUnderMinReport(raw)
  BY DEF IInv
<1> HIDE DEF Progress
<1>2. header.eligible = None /\ file = << >> /\ Measured' = Measured /\ Measured # {}
  BY <1>1, NotCounted DEF IInv, Measured
<1>3. /\ AreLines(raw) /\ (\A i \in DOMAIN raw : raw[i].reason = None)
      /\ AreLines(excluded) /\ (\A i \in DOMAIN excluded : excluded[i].reason # None)
      /\ RelaysOf(raw) \cap RelaysOf(excluded) = {}
      /\ RelaysOf(raw) \cup RelaysOf(excluded) = Measured \ todo
  BY <1>1 DEF IInv, LinesInv
<1>4. /\ AreLines(raw') /\ RelaysOf(raw') = RelaysOf(raw) /\ Len(raw') = Len(raw)
      /\ \A i \in DOMAIN raw' : raw'[i].reason = None
      /\ Enough(Len(raw)) \/ \A i \in DOMAIN raw' : ~raw'[i].vote
      /\ WithinLimit(raw) => WithinLimit(raw')
  <2>1. CASE Enough(Len(raw))
    BY <1>1, <1>3, <2>1
  <2>2. CASE ~Enough(Len(raw))
    <3>1. raw' = SetUnderMinReport(raw)
      BY <1>1, <2>2
    <3>2. /\ AreLines(raw') /\ RelaysOf(raw') = RelaysOf(raw) /\ Len(raw') = Len(raw)
          /\ DOMAIN raw' = DOMAIN raw
          /\ \A i \in DOMAIN raw' : raw'[i].reason = raw[i].reason /\ ~raw'[i].vote
      BY <1>3, <3>1, UnderLines
    <3>3. WithinLimit(raw) => WithinLimit(raw')
      BY <1>3, <3>1, UnderWithinLimit
    <3> QED
      BY <1>3, <3>2, <3>3
  <2> QED
    BY <2>1, <2>2
<1>5. LinesInv'
  <2>1. AreLines(raw)' /\ AreLines(excluded)'
    BY <1>1, <1>3, <1>4, InputsKept
  <2>2. RelaysOf(raw)' = RelaysOf(raw) /\ RelaysOf(excluded)' = RelaysOf(excluded)
    BY <1>1, <1>4 DEF RelaysOf
  <2>3. /\ \A i \in DOMAIN raw' : raw'[i].reason = None
        /\ \A i \in DOMAIN excluded' : excluded'[i].reason # None
    BY <1>1, <1>3, <1>4
  <2> QED
    BY <1>1, <1>2, <1>3, <2>1, <2>2, <2>3 DEF LinesInv
<1>6. HeaderInv'
  <2>1. CASE consensus = None
    <3>1. header' = header
      BY <1>1, <2>1 DEF UpdateProgress
    <3> QED
      BY <1>1, <1>2, <3>1 DEF IInv, HeaderInv, ReasonIs
  <2>2. CASE consensus # None
    <3>1. header' = HasStats(Len(raw)) /\ minPerc' = (Len(raw) >= Minimum)
      BY <1>1, <2>2 DEF UpdateProgress
    <3>2. /\ DOMAIN header' = DOMAIN header /\ header'.excluded = header.excluded
          /\ header'.eligible = Len(raw) /\ header'.minimum = Minimum
      BY <3>1 DEF HasStats, IInv, HeaderInv
    <3>3. minPerc' <=> Len(raw) >= Minimum
      BY <3>1
    <3>4. Minimum' = Minimum
      BY <1>1, InputsKept
    <3>5. IsCounted'
      BY <1>1 DEF IsCounted
    <3>6. /\ DOMAIN header.excluded = Reasons
          /\ \A r \in Reasons : header.excluded[r] = Cardinality(ReasonIs(excluded, r))
          /\ {"latest", "earliest", "excluded", "eligible", "minimum", "percent", "half"}
             = DOMAIN header
      BY DEF IInv, HeaderInv
    <3> QED
      BY <1>1, <1>4, <3>2, <3>3, <3>4, <3>5, <3>6 DEF HeaderInv, ReasonIs
  <2> QED
    BY <2>1, <2>2
<1>7. minPerc' \in BOOLEAN
  <2>1. minPerc' = minPerc \/ minPerc' = (Len(raw) >= Minimum)
    BY <1>1, Zenon DEF UpdateProgress
  <2>2. (Len(raw) >= Minimum) \in BOOLEAN
    BY SMT
  <2> QED
    BY <2>1, <2>2, Zenon DEF IInv
<1>8. VoteInv'
  <2>1. Enough(Len(raw))' <=> Enough(Len(raw))
    BY <1>1, <1>4, InputsKept
  <2> QED
    BY <1>4, <2>1 DEF VoteInv
<1>9. LimitInv'
  <2>1. args.method = "torflow" => WithinLimit(raw)
    BY <1>1 DEF IInv, LimitInv, IsScaled
  <2>2. args.method = "torflow" => WithinLimit(raw)'
    BY <1>1, <1>4, <2>1, InputsKept
  <2> QED
    BY <1>1, <2>2 DEF LimitInv, inputVars
<1>10. FileInv'
  BY <1>1, <1>2 DEF FileInv
<1>11. ResultsInv'
  BY <1>1, InputsKept DEF IInv, ResultsInv
<1> QED
  BY <1>1, <1>2, <1>5, <1>6, <1>7, <1>8, <1>9, <1>10, <1>11, InputsKept DEF IInv

LEMMA ReportInv == IInv /\ Report => IInv'
<1> SUFFICES ASSUME IInv, Report PROVE IInv'
  OBVIOUS
<1> USE DEF Report
<1>1. /\ UNCHANGED inputVars /\ UNCHANGED <<results, minPerc, todo, raw, excluded, file>>
      /\ pc = "report" /\ pc' = "write" /\ todo = {}
  BY DEF IInv
<1>2. /\ {"latest", "earliest", "excluded", "eligible", "minimum", "percent", "half"}
         = DOMAIN header
      /\ DOMAIN header.excluded = Reasons
      /\ \A r \in Reasons : header.excluded[r] = Cardinality(ReasonIs(excluded, r))
      /\ header.eligible # None =>
           /\ header.eligible = Len(raw) /\ header.minimum = Minimum
           /\ minPerc <=> Len(raw) >= Minimum
  BY DEF IInv, HeaderInv
<1>3. /\ DOMAIN header' = DOMAIN header /\ header'.excluded = header.excluded
      /\ header'.eligible = header.eligible /\ header'.minimum = header.minimum
  BY <1>2
<1> HIDE DEF Report
<1>4. IsCounted' /\ IsCounted /\ IsScaled /\ file = << >> /\ Measured' = Measured /\ Measured # {}
  BY <1>1 DEF IInv, FileInv, IsCounted, IsScaled, Measured
<1>5. ResultsInv'
  BY <1>1, InputsKept DEF IInv, ResultsInv
<1>6. LinesInv'
  BY <1>1, <1>4, InputsKept DEF IInv, LinesInv
<1>7. HeaderInv'
  <2>1. Minimum' = Minimum
    BY <1>1, InputsKept
  <2> QED
    BY <1>1, <1>2, <1>3, <1>4, <2>1 DEF HeaderInv, ReasonIs
<1>8. VoteInv'
  BY <1>1, <1>4, InputsKept DEF IInv, VoteInv, inputVars
<1>9. LimitInv'
  BY <1>1, <1>4, InputsKept DEF IInv, LimitInv, inputVars
<1>10. FileInv'
  BY <1>1, <1>4 DEF FileInv
<1> QED
  BY <1>1, <1>4, <1>5, <1>6, <1>7, <1>8, <1>9, <1>10, InputsKept DEF IInv

\* There is a line when there are relays with results and all have their line.
LEMMA SomeLines ==
  ASSUME LinesInv, pc \notin {"load", "header"}, todo = {}, Measured # {}
  PROVE  Lines # << >>
<1>1. IsList(raw) /\ IsList(excluded) /\ RelaysOf(raw) \cup RelaysOf(excluded) # {}
  BY DEF LinesInv, AreLines
<1>2. /\ Len(raw) \in Nat /\ Len(excluded) \in Nat
      /\ DOMAIN raw = 1..Len(raw) /\ DOMAIN excluded = 1..Len(excluded)
  BY <1>1 DEF IsList
<1>3. Len(Lines) = Len(raw) + Len(excluded)
  BY <1>1, ConcatIsList DEF Lines
<1>4. Len(raw) # 0 \/ Len(excluded) # 0
  BY <1>1, <1>2 DEF RelaysOf
<1>5. Len(Lines) # 0
  BY <1>2, <1>3, <1>4
<1> QED
  BY <1>5, NoLines

LEMMA WriteInv == IInv /\ Write => IInv'
<1> SUFFICES ASSUME IInv, Write PROVE IInv'
  OBVIOUS
<1> USE DEF Write
<1>1. /\ UNCHANGED inputVars /\ UNCHANGED <<results, minPerc, todo, raw, excluded, header>>
      /\ pc = "write" /\ pc' = "done" /\ file' = Lines /\ todo = {}
  BY DEF IInv
<1> HIDE DEF Write
<1>2. Lines # << >> /\ Lines' = Lines /\ Measured' = Measured
  BY <1>1, SomeLines DEF IInv, Measured, Lines
<1>3. IsCounted' /\ IsCounted /\ IsScaled' /\ IsScaled
  BY <1>1, <1>2 DEF IsCounted, IsScaled
<1>4. ResultsInv'
  BY <1>1, InputsKept DEF IInv, ResultsInv
<1>5. LinesInv'
  BY <1>1, <1>2, InputsKept DEF IInv, LinesInv
<1>6. HeaderInv'
  <2>1. Minimum' = Minimum
    BY <1>1, InputsKept
  <2> QED
    BY <1>1, <1>3, <2>1 DEF IInv, HeaderInv, ReasonIs
<1>7. VoteInv'
  BY <1>1, <1>3, InputsKept DEF IInv, VoteInv, inputVars
<1>8. LimitInv'
  BY <1>1, <1>3, InputsKept DEF IInv, LimitInv, inputVars
<1>9. FileInv'
  BY <1>1, <1>2 DEF FileInv
<1> QED
  BY <1>1, <1>2, <1>4, <1>5, <1>6, <1>7, <1>8, <1>9, InputsKept DEF IInv

\* The invariant: generate.py, V3BWFile.from_results.
THEOREM Invariant == Spec => []IInv
<1>1. IInv /\ [Next]_vars => IInv'
  <2> SUFFICES ASSUME IInv, [Next]_vars PROVE IInv'
    OBVIOUS
  <2>1. ASSUME NEW relay \in Relays, LineFromResults(relay) PROVE IInv'
    BY <2>1, LineFromResultsInv
  <2>2. CASE Done \/ UNCHANGED vars
    BY <2>2, StutterInv DEF Done
  <2> QED
    BY <2>1, <2>2, LoadInv, NoResultsInv, HeaderFromResultsInv, NoneEligibleInv, ScaleInv,
       ScaleFailsInv, ProgressInv, ReportInv, WriteInv DEF Next
<1> QED
  BY <1>1, InitInv, PTL DEF Spec

-----------------------------------------------------------------------------
(***************************************************************************)
(* The file.                                                               *)
(***************************************************************************)

\* Where the lines are in the file.
LEMMA LinesAt ==
  ASSUME LinesInv
  PROVE  /\ Len(raw) \in Nat /\ DOMAIN raw = 1..Len(raw) /\ IsList(raw)
         /\ Len(excluded) \in Nat /\ DOMAIN excluded = 1..Len(excluded)
         /\ IsList(Lines) /\ DOMAIN Lines = 1..Len(raw) + Len(excluded)
         /\ \A k \in 1..Len(raw) : Lines[k] = raw[k] /\ k \in DOMAIN Lines
         /\ \A k \in 1..Len(excluded) :
              Lines[Len(raw) + k] = excluded[k] /\ Len(raw) + k \in DOMAIN Lines
         /\ \A i \in DOMAIN Lines :
              i \in 1..Len(raw) \/ \E k \in 1..Len(excluded) : i = Len(raw) + k
<1> DEFINE L == Len(raw)
           M == Len(excluded)
<1>1. IsList(raw) /\ IsList(excluded)
  BY DEF LinesInv, AreLines
<1>2. L \in Nat /\ M \in Nat /\ DOMAIN raw = 1..L /\ DOMAIN excluded = 1..M
  BY <1>1 DEF IsList
<1>3. /\ IsList(Lines) /\ DOMAIN Lines = 1..L + M
      /\ (\A k \in 1..L : Lines[k] = raw[k]) /\ (\A k \in 1..M : Lines[L + k] = excluded[k])
  BY <1>1, ConcatIsList DEF Lines
<1> HIDE DEF L, M
<1>4. \A k \in 1..L : k \in 1..L + M
  BY <1>2
<1>5. \A k \in 1..M : L + k \in 1..L + M
  BY <1>2
<1>6. ASSUME NEW i \in 1..L + M, i \notin 1..L PROVE \E k \in 1..M : i = L + k
  <2>1. i - L \in 1..M /\ i = L + (i - L)
    BY <1>2, <1>6
  <2> QED
    BY <2>1
<1> QED
  BY <1>1, <1>2, <1>3, <1>4, <1>5, <1>6 DEF L, M

\* The lines of the file are each of its relay.
LEMMA LinesAreLines ==
  ASSUME LinesInv
  PROVE  AreLines(Lines) /\ RelaysOf(Lines) = RelaysOf(raw) \cup RelaysOf(excluded)
<1> DEFINE L == Len(raw)
           M == Len(excluded)
           D == DOMAIN Lines
<1>1. /\ L \in Nat /\ DOMAIN raw = 1..L /\ M \in Nat /\ DOMAIN excluded = 1..M
      /\ IsList(Lines)
      /\ \A k \in 1..L : Lines[k] = raw[k] /\ k \in D
      /\ \A k \in 1..M : Lines[L + k] = excluded[k] /\ L + k \in D
      /\ \A i \in D : i \in 1..L \/ \E k \in 1..M : i = L + k
  BY LinesAt
<1>2. /\ \A i \in 1..L : raw[i].relay \in Relays /\ IsLineOf(raw[i], raw[i].relay)
      /\ \A i, j \in 1..L : raw[i].relay = raw[j].relay => i = j
  BY <1>1 DEF LinesInv, AreLines
<1>3. /\ \A i \in 1..M : excluded[i].relay \in Relays /\ IsLineOf(excluded[i], excluded[i].relay)
      /\ \A i, j \in 1..M : excluded[i].relay = excluded[j].relay => i = j
  BY <1>1 DEF LinesInv, AreLines
<1>4. \A i \in 1..L, j \in 1..M : raw[i].relay # excluded[j].relay
  <2>1. \A i \in 1..L : raw[i].relay \in RelaysOf(raw)
    BY <1>1 DEF RelaysOf
  <2>2. \A j \in 1..M : excluded[j].relay \in RelaysOf(excluded)
    BY <1>1 DEF RelaysOf
  <2>3. RelaysOf(raw) \cap RelaysOf(excluded) = {}
    BY DEF LinesInv
  <2> HIDE DEF L, M
  <2> QED
    BY <2>1, <2>2, <2>3
<1> HIDE DEF L, M, D
<1>5. ASSUME NEW i \in D PROVE Lines[i].relay \in Relays /\ IsLineOf(Lines[i], Lines[i].relay)
  <2>1. CASE i \in 1..L
    BY <2>1, <1>1, <1>2
  <2>2. ASSUME NEW k \in 1..M, i = L + k
        PROVE Lines[i].relay \in Relays /\ IsLineOf(Lines[i], Lines[i].relay)
    BY <2>2, <1>1, <1>3
  <2> QED
    BY <1>1, <2>1, <2>2
<1>6. ASSUME NEW i \in D, NEW j \in D, Lines[i].relay = Lines[j].relay PROVE i = j
  <2>1. CASE i \in 1..L /\ j \in 1..L
    BY <2>1, <1>1, <1>2, <1>6
  <2>2. CASE i \in 1..L /\ j \notin 1..L
    BY <2>2, <1>1, <1>4, <1>6
  <2>3. CASE i \notin 1..L /\ j \in 1..L
    BY <2>3, <1>1, <1>4, <1>6
  <2>4. CASE i \notin 1..L /\ j \notin 1..L
    <3>1. PICK k \in 1..M : i = L + k
      BY <2>4, <1>1
    <3>2. PICK l \in 1..M : j = L + l
      BY <2>4, <1>1
    <3>3. excluded[k].relay = excluded[l].relay
      BY <3>1, <3>2, <1>1, <1>6
    <3> QED
      BY <3>1, <3>2, <3>3, <1>3
  <2> QED
    BY <2>1, <2>2, <2>3, <2>4
<1>7. RelaysOf(Lines) = RelaysOf(raw) \cup RelaysOf(excluded)
  <2>1. ASSUME NEW i \in D PROVE Lines[i].relay \in RelaysOf(raw) \cup RelaysOf(excluded)
    <3>1. \A k \in 1..L : raw[k].relay \in RelaysOf(raw)
      BY <1>1 DEF RelaysOf
    <3>2. \A k \in 1..M : excluded[k].relay \in RelaysOf(excluded)
      BY <1>1 DEF RelaysOf
    <3> QED
      BY <1>1, <3>1, <3>2
  <2>2. ASSUME NEW k \in 1..L PROVE raw[k].relay \in RelaysOf(Lines)
    BY <1>1 DEF RelaysOf, D
  <2>3. ASSUME NEW k \in 1..M PROVE excluded[k].relay \in RelaysOf(Lines)
    BY <1>1 DEF RelaysOf, D
  <2>4. RelaysOf(Lines) \subseteq RelaysOf(raw) \cup RelaysOf(excluded)
    BY <2>1 DEF RelaysOf, D
  <2>5. RelaysOf(raw) \subseteq RelaysOf(Lines) /\ RelaysOf(excluded) \subseteq RelaysOf(Lines)
    BY <1>1, <2>2, <2>3 DEF RelaysOf
  <2> QED
    BY <2>4, <2>5
<1> QED
  BY <1>1, <1>5, <1>6, <1>7 DEF AreLines, D

\* Lines are of relays with results, each in one list, and the bandwidth of a
\* line is a whole number that is not 0: V3BWFile.from_results, round_sig_dig.
THEOREM TypeCorrect == Spec => []TypeOK
<1>1. IInv => TypeOK
  <2> SUFFICES ASSUME IInv PROVE TypeOK
    OBVIOUS
  <2>1. AreLines(Lines) /\ RelaysOf(Lines) = RelaysOf(raw) \cup RelaysOf(excluded)
    BY LinesAreLines DEF IInv
  <2>2. RelaysOf(Lines) \subseteq Measured \ todo
    <3>1. CASE pc \in {"load", "header"}
      <4>1. RelaysOf(raw) = {} /\ RelaysOf(excluded) = {}
        BY <3>1, NoLines DEF IInv, LinesInv
      <4> QED
        BY <2>1, <4>1
    <3>2. CASE pc \notin {"load", "header"}
      BY <2>1, <3>2 DEF IInv, LinesInv
    <3> QED
      BY <3>1, <3>2
  <2>3. ASSUME NEW i \in DOMAIN Lines
        PROVE  Lines[i].relay \in Measured \ todo /\ Lines[i].bw \in Nat \ {0}
    BY <2>1, <2>2 DEF AreLines, IsLineOf, RelaysOf
  <2>4. \A i, j \in DOMAIN Lines : Lines[i].relay = Lines[j].relay => i = j
    BY <2>1 DEF AreLines
  <2> QED
    BY <2>3, <2>4 DEF IInv, TypeOK
<1> QED
  BY <1>1, Invariant, PTL

\* The reasons of the lines in the file.
LEMMA ReasonsOfFile ==
  ASSUME LinesInv, file = Lines
  PROVE  /\ With(None) = 1..Len(raw) /\ Cardinality(With(None)) = Len(raw)
         /\ \A reason \in Reasons :
              Cardinality(With(reason)) = Cardinality(ReasonIs(excluded, reason))
<1> DEFINE L == Len(raw)
           M == Len(excluded)
           D == DOMAIN Lines
<1>1. /\ L \in Nat /\ DOMAIN raw = 1..L /\ M \in Nat /\ DOMAIN excluded = 1..M
      /\ \A k \in 1..L : Lines[k] = raw[k] /\ k \in D
      /\ \A k \in 1..M : Lines[L + k] = excluded[k] /\ L + k \in D
      /\ \A i \in D : i \in 1..L \/ \E k \in 1..M : i = L + k
  BY LinesAt
<1>2. (\A k \in 1..L : raw[k].reason = None) /\ (\A k \in 1..M : excluded[k].reason # None)
  BY <1>1 DEF LinesInv
<1>3. \A reason : With(reason) = {i \in D : Lines[i].reason = reason}
  BY DEF With
<1>4. \A reason : ReasonIs(excluded, reason) = {k \in 1..M : excluded[k].reason = reason}
  BY <1>1 DEF ReasonIs
<1> HIDE DEF L, M, D
<1>5. With(None) = 1..L
  <2>1. With(None) = {i \in D : Lines[i].reason = None}
    BY <1>3
  <2>2. ASSUME NEW i \in D, Lines[i].reason = None PROVE i \in 1..L
    <3>1. ASSUME NEW k \in 1..M PROVE i # L + k
      BY <3>1, <1>1, <1>2, <2>2
    <3> QED
      BY <1>1, <3>1
  <2>3. ASSUME NEW i \in 1..L PROVE i \in D /\ Lines[i].reason = None
    BY <1>1, <1>2
  <2> QED
    BY <2>1, <2>2, <2>3, Zenon
<1>6. Cardinality(1..L) = L
  BY <1>1, FS_Interval
<1>7. ASSUME NEW reason \in Reasons
      PROVE  Cardinality(With(reason)) = Cardinality(ReasonIs(excluded, reason))
  <2> DEFINE A == ReasonIs(excluded, reason)
             B == With(reason)
             f == [k \in A |-> L + k]
  <2>1. reason # None
    BY NoneAssumption
  <2>2. A = {k \in 1..M : excluded[k].reason = reason}
    BY <1>4
  <2>3. B = {i \in D : Lines[i].reason = reason}
    BY <1>3
  <2> HIDE DEF A, B
  <2>4. \A k \in A : L + k \in B /\ k \in Nat
    BY <1>1, <2>2, <2>3
  <2>5. \A i \in B : \E k \in A : L + k = i
    <3>1. SUFFICES ASSUME NEW i \in B PROVE \E k \in A : L + k = i
      OBVIOUS
    <3>2. i \in D /\ Lines[i].reason = reason
      BY <2>3
    <3>3. i \notin 1..L
      BY <1>1, <1>2, <2>1, <3>2
    <3>4. PICK k \in 1..M : i = L + k
      BY <1>1, <3>2, <3>3
    <3> QED
      BY <1>1, <2>2, <3>2, <3>4
  <2>6. f \in [A -> B] /\ \A k \in A : f[k] = L + k
    BY <2>4
  <2> HIDE DEF f
  <2>7. \A k, l \in A : f[k] = f[l] => k = l
    BY <1>1, <2>4, <2>6
  <2>8. \A i \in B : \E k \in A : f[k] = i
    BY <2>5, <2>6
  <2>9. f \in Bijection(A, B)
    BY <2>6, <2>7, <2>8, Fun_IsBij
  <2>10. ExistsBijection(A, B)
    BY <2>9 DEF ExistsBijection
  <2>11. IsFiniteSet(A)
    <3>1. A \in SUBSET (1..M) /\ IsFiniteSet(1..M)
      BY <1>1, <2>2, FS_Interval
    <3> QED
      BY <3>1, FS_Subset
  <2>12. Cardinality(B) = Cardinality(A)
    BY <2>10, <2>11, FS_Bijection
  <2> QED
    BY <2>12 DEF A, B
<1> QED
  BY <1>5, <1>6, <1>7 DEF L

\* The file, its header, the state file and the datadir agree: exclusion_dict and
\* update_progress count the lines that V3BWFile.from_results writes.
THEOREM FileAndHeaderAgree == Spec => []FileAgrees
<1>1. IInv => FileAgrees
  <2> SUFFICES ASSUME IInv PROVE FileAgrees
    OBVIOUS
  <2>1. InputInv /\ ResultsInv /\ LinesInv /\ HeaderInv /\ FileInv
    BY DEF IInv
  <2>2. ASSUME pc = "done", file = << >>
        PROVE  (\A relay \in Relays : Current(relay) = {}) \/ ScaleRaises(raw)
    <3>1. CASE Measured = {}
      BY <3>1, <2>1, <2>2, MeasuredRelays
    <3>2. CASE Measured # {}
      <4>1. todo = {}
        BY <2>2 DEF IInv
      <4>2. Lines # << >>
        BY <2>1, <2>2, <3>2, <4>1, SomeLines
      <4> QED
        BY <2>1, <2>2, <3>2, <4>2 DEF FileInv
    <3> QED
      BY <3>1, <3>2
  <2>3. ASSUME file # << >>
        PROVE  /\ {file[i].relay : i \in DOMAIN file} = {relay \in Relays : Current(relay) # {}}
               /\ \A i \in With(None) : \A j \in DOMAIN file \ With(None) : i < j
               /\ \A i \in DOMAIN file \ With("no_observed_bw") : CountsAgree(file[i])
               /\ \A reason \in Reasons : header.excluded[reason] = Cardinality(With(reason))
               /\ header.eligible # None =>
                    /\ header.eligible = Cardinality(With(None))
                    /\ minPerc <=> header.eligible >= header.minimum
    <3>1. pc = "done" /\ file = Lines /\ todo = {}
      BY <2>1, <2>3 DEF FileInv, IInv
    <3>2. /\ With(None) = 1..Len(raw) /\ Cardinality(With(None)) = Len(raw)
          /\ \A reason \in Reasons :
               Cardinality(With(reason)) = Cardinality(ReasonIs(excluded, reason))
      BY <2>1, <3>1, ReasonsOfFile
    <3>3. AreLines(file) /\ RelaysOf(file) = Measured
      BY <2>1, <3>1, LinesAreLines DEF LinesInv
    <3>4. Measured = {relay \in Relays : Current(relay) # {}}
      <4>1. \A relay \in Relays : relay \in Measured <=> Current(relay) # {}
        BY <2>1, <3>1, MeasuredRelays
      <4>2. Measured \subseteq Relays
        BY DEF Measured
      <4> QED
        BY <4>1, <4>2
    <3>5. ASSUME NEW i \in With(None), NEW j \in DOMAIN file \ With(None) PROVE i < j
      <4>1. Len(raw) \in Nat /\ Len(excluded) \in Nat /\ DOMAIN Lines = 1..Len(raw) + Len(excluded)
        BY <2>1, LinesAt
      <4>2. i \in 1..Len(raw) /\ j \in 1..Len(raw) + Len(excluded) /\ j \notin 1..Len(raw)
        BY <3>1, <3>2, <3>5, <4>1
      <4> QED
        BY <4>1, <4>2
    <3>6. ASSUME NEW i \in DOMAIN file \ With("no_observed_bw") PROVE CountsAgree(file[i])
      BY <3>3 DEF AreLines, IsLineOf, With
    <3>7. \A reason \in Reasons : header.excluded[reason] = Cardinality(With(reason))
      BY <2>1, <3>2 DEF HeaderInv
    <3>8. header.eligible # None =>
            /\ header.eligible = Cardinality(With(None))
            /\ minPerc <=> header.eligible >= header.minimum
      BY <2>1, <3>2 DEF HeaderInv
    <3> QED
      BY <3>3, <3>4, <3>5, <3>6, <3>7, <3>8 DEF RelaysOf
  <2> QED
    BY <2>2, <2>3 DEF FileAgrees
<1> QED
  BY <1>1, Invariant, PTL

\* tor votes on a relay only if enough of its measurements on disk succeeded and
\* are recent and, with Torflow's scaling, if enough relays of the consensus are
\* like it: the filters of V3BWLine.from_results, set_under_min_report.
THEOREM OnlyMeasuredAreVoted == Spec => []VotedIfMeasured
<1>1. IInv => VotedIfMeasured
  <2> SUFFICES ASSUME IInv, NEW i \in DOMAIN file, file[i].vote
               PROVE  /\ MeasuredEnough(file[i].relay)
                      /\ args.method = "torflow" /\ file[i].reason = None =>
                           /\ consensus # None
                           /\ 100 * Cardinality(With(None)) + 50 >= MinReport * NumConsensus
    BY DEF VotedIfMeasured
  <2>1. InputInv /\ LinesInv /\ VoteInv /\ FileInv
    BY DEF IInv
  <2>2. file # << >>
    BY NoLines
  <2>3. file = Lines
    BY <2>1, <2>2 DEF FileInv
  <2>4. MeasuredEnough(file[i].relay)
    BY <2>1, <2>3, LinesAreLines DEF AreLines, IsLineOf
  <2>5. ASSUME args.method = "torflow", file[i].reason = None
        PROVE  /\ consensus # None
               /\ 100 * Cardinality(With(None)) + 50 >= MinReport * NumConsensus
    <3>1. With(None) = 1..Len(raw) /\ Cardinality(With(None)) = Len(raw)
      BY <2>1, <2>3, ReasonsOfFile
    <3>2. i \in 1..Len(raw)
      BY <2>5, <3>1 DEF With
    <3>3. i \in DOMAIN raw /\ raw[i].vote /\ Len(raw) \in Nat
      <4>1. Len(raw) \in Nat /\ DOMAIN raw = 1..Len(raw) /\ Lines[i] = raw[i]
        BY <2>1, <3>2, LinesAt
      <4> QED
        BY <2>3, <3>2, <4>1
    <3>4. Enough(Len(raw))
      BY <2>1, <2>2, <2>5, <3>3 DEF VoteInv, IsCounted
    <3>5. consensus # None /\ Len(raw) >= Minimum
      BY <3>4 DEF Enough
    <3>6. NumConsensus \in Nat
      <4>1. IsFiniteSet(consensus)
        BY <2>1, <3>5, ConsensusesAssumption DEF InputInv
      <4>2. Cardinality(consensus) \in Nat /\ NotMeasured \in Nat
        BY <4>1, FS_CardinalityType, GlobalsAssumption
      <4> QED
        BY <4>2 DEF NumConsensus
    <3>7. MinReport \in Nat /\ NumConsensus * MinReport \in Nat
      BY <3>6, GlobalsAssumption
    <3>8. /\ Round(NumConsensus * MinReport, 100) \in Nat
          /\ 2 * (NumConsensus * MinReport) <= 2 * (100 * Round(NumConsensus * MinReport, 100)) + 100
      BY <3>7, RoundHalf
    <3>9. ASSUME NEW product \in Nat, product = NumConsensus * MinReport,
                 NEW min \in Nat, min = Minimum, NEW L \in Nat, L = Len(raw)
          PROVE  100 * L + 50 >= product
      <4>1. 2 * product <= 2 * (100 * min) + 100 /\ L >= min
        BY <3>5, <3>8, <3>9 DEF Minimum
      <4> QED
        BY <4>1
    <3>10. 100 * Len(raw) + 50 >= NumConsensus * MinReport
      BY <3>3, <3>7, <3>8, <3>9 DEF Minimum
    <3>11. NumConsensus * MinReport = MinReport * NumConsensus
      BY <3>6, <3>7
    <3> QED
      BY <3>1, <3>5, <3>10, <3>11
  <2> QED
    BY <2>4, <2>5
<1> QED
  BY <1>1, Invariant, PTL

\* A filter that keeps the first items.
LEMMA PickedFirst ==
  ASSUME NEW L \in Nat, NEW seq
  PROVE  Picked(seq, 1..L) = [k \in 1..L |-> seq[k]]
<1> DEFINE key == [i \in 1..L |-> i]
<1>1. \A i \in 1..L : UpTo(1..L, key, i) = 1..i
  BY DEF UpTo
<1>2. \A i \in 1..L : Cardinality(1..i) = i
  BY FS_Interval
<1>3. Cardinality(1..L) = L
  BY FS_Interval
<1>4. ASSUME NEW k \in 1..L PROVE Nth(1..L, key, k) = k
  <2>1. Nth(1..L, key, k) = CHOOSE i \in 1..L : Cardinality(UpTo(1..L, key, i)) = k
    BY DEF Nth, UpTo
  <2> HIDE DEF key
  <2>2. \A i \in 1..L : Cardinality(UpTo(1..L, key, i)) = k <=> i = k
    BY <1>1, <1>2
  <2> QED
    BY <2>1, <2>2
<1>5. Picked(seq, 1..L) = [k \in 1..Cardinality(1..L) |-> seq[Nth(1..L, key, k)]]
  BY DEF Picked
<1> HIDE DEF key
<1> QED
  BY <1>3, <1>4, <1>5

\* Scaling as Torflow gives no relay more than its part of the sum, as rounded,
\* and keeps the order of the relays: bw_torflow_scale.
THEOREM ScalingIsLimited == Spec => []ScaledWithinLimit
<1>1. IInv => ScaledWithinLimit
  <2> SUFFICES ASSUME IInv, args.method = "torflow"
               PROVE  WithinLimit(Picked(file, With(None)))
    BY DEF ScaledWithinLimit, Filter, With
  <2>1. CASE file = << >>
    <3>1. With(None) = {}
      BY <2>1, NoLines DEF With
    <3>2. Picked(file, {}) = [k \in 1..0 |-> file[Nth({}, [i \in {} |-> i], k)]]
      BY FS_EmptySet DEF Picked
    <3>3. DOMAIN Picked(file, {}) = {}
      BY <3>2
    <3> QED
      BY <3>1, <3>3 DEF WithinLimit
  <2>2. CASE file # << >>
    <3>1. LinesInv /\ file = Lines /\ WithinLimit(raw)
      BY <2>2 DEF IInv, FileInv, LimitInv, IsScaled
    <3>2. /\ Len(raw) \in Nat /\ DOMAIN raw = 1..Len(raw) /\ IsList(raw)
          /\ \A k \in 1..Len(raw) : Lines[k] = raw[k]
      BY <3>1, LinesAt
    <3>3. With(None) = 1..Len(raw)
      BY <3>1, ReasonsOfFile
    <3>4. Picked(file, With(None)) = [k \in 1..Len(raw) |-> file[k]]
      BY <3>2, <3>3, PickedFirst
    <3>5. raw = [k \in 1..Len(raw) |-> raw[k]]
      BY <3>2 DEF IsList
    <3>6. Picked(file, With(None)) = raw
      BY <3>1, <3>2, <3>4, <3>5
    <3> QED
      BY <3>1, <3>6
  <2> QED
    BY <2>1, <2>2
<1> QED
  BY <1>1, Invariant, PTL

=============================================================================
