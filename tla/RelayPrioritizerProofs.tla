----------------------- MODULE RelayPrioritizerProofs -----------------------
(***************************************************************************)
(* For any relays, consensuses, options, rounds and restarts: no round is  *)
(* empty, nothing is subtracted from the relays of a round, the variables  *)
(* keep their types, the counts in the state file are those of the period, *)
(* and a relay does not wait for more rounds than the others need.         *)
(***************************************************************************)
EXTENDS RelayPrioritizer, NaturalsInduction, WellFoundedInduction, FiniteSetTheorems,
        FunctionTheorems, SequenceTheorems, TLAPS

-----------------------------------------------------------------------------
(***************************************************************************)
(* Induction on sets of numbers, for what is computed of a sequence. The   *)
(* theorems of the library on induction are about an operator; these are   *)
(* about a set, that a proof defines.                                      *)
(***************************************************************************)
\* The order of the numbers, as a relation.
LessThan == {p \in Nat \X Nat : p[1] < p[2]}

\* A set of numbers that is not empty has a least one.
LEMMA LeastNumber ==
  ASSUME NEW T \in SUBSET Nat, T # {}
  PROVE  \E x \in T : \A y \in T : x <= y
<1>1. IsWellFoundedOn(LessThan, Nat)
  <2>1. IsWellFoundedOn(OpToRel(<, Nat), Nat)
    BY NatLessThanWellFounded, Zenon
  <2>2. OpToRel(<, Nat) = LessThan
    BY Zenon DEF OpToRel, LessThan
  <2> QED
    BY <2>1, <2>2, Zenon
<1>2. PICK x \in T : \A y \in T : ~(<<y, x>> \in LessThan)
  BY <1>1, WFMin
<1>3. ASSUME NEW y \in T PROVE x <= y
  <2>1. x \in Nat /\ y \in Nat /\ <<y, x>> \in Nat \X Nat
    OBVIOUS
  <2>2. ~(y < x)
    BY <1>2, <2>1 DEF LessThan
  <2> QED
    BY <2>1, <2>2
<1> QED
  BY <1>3

\* A set that has 0, and n + 1 when it has n, has every number.
LEMMA NumbersByInduction ==
  ASSUME NEW T, 0 \in T, \A n \in Nat : n \in T => n + 1 \in T
  PROVE  \A n \in Nat : n \in T
<1> SUFFICES ASSUME Nat \ T # {} PROVE FALSE
  OBVIOUS
<1>1. PICK x \in Nat \ T : \A y \in Nat \ T : x <= y
  BY LeastNumber
<1>2. x # 0 /\ x \in Nat
  OBVIOUS
<1>3. x - 1 \in Nat /\ x - 1 < x /\ x = (x - 1) + 1
  BY <1>2
<1>4. x - 1 \in T
  BY <1>1, <1>3
<1> QED
  BY <1>3, <1>4

\* The steps from a value in S to the next, and that L of them can be made.
Steps(L, S) == [1..L -> [S -> S]]
HasValues(L, S, base, step) ==
  \E f \in [0..L -> S] : f[0] = base /\ \A n \in 1..L : f[n] = step[n][f[n - 1]]

\* A sequence of values, each made of the one before, exists: what a recursive
\* function of the first numbers needs.
LEMMA ValuesByRecursion ==
  ASSUME NEW L \in Nat, NEW S, NEW base \in S, NEW step \in Steps(L, S)
  PROVE  HasValues(L, S, base, step)
<1> USE DEF Steps
<1> DEFINE Values(m, f) == f \in [0..m -> S] /\ f[0] = base /\ \A n \in 1..m : f[n] = step[n][f[n - 1]]
           T == {m \in Nat : m <= L => \E f : Values(m, f)}
<1>1. 0 \in T
  <2>1. Values(0, [n \in 0..0 |-> base])
    OBVIOUS
  <2> HIDE DEF Values
  <2> QED
    BY <2>1
<1>2. ASSUME NEW m \in Nat, m \in T PROVE m + 1 \in T
  <2> SUFFICES ASSUME m + 1 <= L PROVE \E f : Values(m + 1, f)
    OBVIOUS
  <2>1. m <= L
    OBVIOUS
  <2>2. PICK f : Values(m, f)
    BY <1>2, <2>1
  <2> DEFINE g == [n \in 0..m + 1 |-> IF n <= m THEN f[n] ELSE step[m + 1][f[m]]]
  <2>3. m \in 0..m /\ m + 1 \in 1..L /\ f[m] \in S
    BY <2>2
  <2>4. step[m + 1][f[m]] \in S
    BY <2>3
  <2>5. g \in [0..m + 1 -> S]
    <3>1. ASSUME NEW n \in 0..m + 1 PROVE (IF n <= m THEN f[n] ELSE step[m + 1][f[m]]) \in S
      <4>1. CASE n <= m
        <5>1. n \in 0..m
          BY <4>1
        <5> QED
          BY <2>2, <4>1, <5>1
      <4>2. CASE ~(n <= m)
        BY <2>4, <4>2
      <4> QED
        BY <4>1, <4>2
    <3> QED
      BY <3>1
  <2>6. \A n \in 0..m : g[n] = f[n]
    OBVIOUS
  <2>7. g[m + 1] = step[m + 1][f[m]]
    OBVIOUS
  <2> HIDE DEF g
  <2>8. ASSUME NEW n \in 1..m + 1 PROVE g[n] = step[n][g[n - 1]]
    <3>1. CASE n = m + 1
      <4>1. n - 1 = m
        BY <3>1
      <4> QED
        BY <2>3, <2>6, <2>7, <3>1, <4>1
    <3>2. CASE n # m + 1
      <4>1. n \in 1..m /\ n \in 0..m /\ n - 1 \in 0..m
        BY <3>2
      <4> QED
        BY <2>2, <2>6, <4>1
    <3> QED
      BY <3>1, <3>2
  <2>9. g[0] = base
    <3>1. 0 \in 0..m
      OBVIOUS
    <3> QED
      BY <2>2, <2>6, <3>1
  <2> QED
    BY <2>5, <2>8, <2>9
<1>3. L \in T
  <2> HIDE DEF T
  <2> QED
    BY <1>1, <1>2, NumbersByInduction
<1>4. PICK f : Values(L, f)
  BY <1>3
<1> QED
  BY <1>4 DEF HasValues

-----------------------------------------------------------------------------
(***************************************************************************)
(* The rounds.                                                             *)
(***************************************************************************)
\* The strengthening. While main_loop goes on there is an exit in the list; the
\* relays of a round are a copy of such a list, made before it was refreshed.
RoundInv ==
  /\ at \in {"loop", "copied", "ranking", "measure", "ended"}
  /\ at # "ended" => list \cap Exits # {}
  /\ at \in {"copied", "ranking", "measure"} => copies # {}

\* The difference of copies and authorities is all the copies (relayprioritizer.py,
\* best_priority): whatever the options, authorities are measured.
THEOREM NothingSubtracted ==
  ASSUME NEW fps, NEW authorities
  PROVE  Difference(fps, authorities) = fps
<1>1. (fps \X {"copy"}) \ (authorities \X {"list"}) = fps \X {"copy"}
  <2>1. ASSUME NEW relay \in fps \X {"copy"}
        PROVE  relay \notin authorities \X {"list"}
    BY <2>1
  <2>2. QED
    BY <2>1
<1>2. ASSUME NEW fp \in fps
      PROVE  \E relay \in fps \X {"copy"} : fp = relay[1]
  <2>1. <<fp, "copy">> \in fps \X {"copy"} /\ <<fp, "copy">>[1] = fp
    BY <1>2
  <2>2. QED
    BY <2>1
<1>3. QED
  BY <1>1, <1>2 DEF Difference

\* It holds at first: __init__ raises when there are no exits.
LEMMA InitRound == Init => RoundInv
BY DEF Init, RoundInv

\* Each step keeps it.
LEMMA NextRound == RoundInv /\ [Next]_vars => RoundInv'
<1> SUFFICES ASSUME RoundInv, [Next]_vars PROVE RoundInv'
  OBVIOUS
<1> USE DEF RoundInv
<1>1. CASE CopyRelays
  BY <1>1 DEF CopyRelays
<1>2. CASE WithoutAuthorities
  BY <1>2, NothingSubtracted DEF WithoutAuthorities
<1>3. CASE BestPriority
  BY <1>3 DEF BestPriority
<1>4. CASE EndRound
  BY <1>4 DEF EndRound
<1>5. ASSUME NEW fp \in Fingerprints, Rank(fp)
      PROVE  RoundInv'
  BY <1>5 DEF Rank
<1>6. ASSUME NEW fp \in Fingerprints, Measured(fp)
      PROVE  RoundInv'
  BY <1>6 DEF Measured
<1>7. CASE StoreResult
  BY <1>7 DEF StoreResult, roundVars
<1>8. CASE Refresh
  BY <1>8 DEF Refresh, roundVars
<1>9. CASE Restart
  BY <1>9 DEF Restart
<1>10. CASE UNCHANGED vars
  BY <1>10 DEF vars, roundVars
<1>11. QED
  BY <1>1, <1>2, <1>3, <1>4, <1>5, <1>6, <1>7, <1>8, <1>9, <1>10 DEF Next

\* best_priority always has a relay to rank, also when the list is refreshed
\* after it was copied: main_loop never goes round with nothing to measure.
THEOREM NoEmptyRoundHolds == Spec => []NoEmptyRound
<1>1. RoundInv => NoEmptyRound
  BY DEF RoundInv, NoEmptyRound
<1>2. QED
  BY <1>1, InitRound, NextRound, PTL DEF Spec

-----------------------------------------------------------------------------
(***************************************************************************)
(* The relays of a round, and the results.                                 *)
(***************************************************************************)
AllAges == 0..Period + 1
Items == [age : AllAges, number : Nat]
Queued == [relay : Fingerprints, age : AllAges]

\* What a round is made of: relays are ranked between the copy and the
\* measurements, and measured after that.
RelaysInv ==
  /\ at \in {"loop", "copied", "ranking", "measure", "ended"}
  /\ list \in Consensuses
  /\ copies \subseteq Fingerprints /\ IsFiniteSet(copies)
  /\ targets \subseteq copies /\ DOMAIN priority \subseteq copies
  /\ at # "ranking" => priority = << >>
  /\ at \in {"loop", "copied", "ranking"} => targets = {}

\* Every step keeps the relays of the round.
LEMMA NextRelays == RelaysInv /\ [Next]_vars => RelaysInv'
<1> SUFFICES ASSUME RelaysInv, [Next]_vars PROVE RelaysInv'
  OBVIOUS
<1> USE DEF RelaysInv
<1>1. CASE CopyRelays
  <2>1. list \subseteq Fingerprints /\ IsFiniteSet(list)
    BY RelaysAssumption
  <2> QED
    BY <1>1, <2>1 DEF CopyRelays
<1>2. CASE WithoutAuthorities
  <2>1. copies' = copies
    BY <1>2, NothingSubtracted DEF WithoutAuthorities
  <2> QED
    BY <1>2, <2>1 DEF WithoutAuthorities
<1>3. CASE BestPriority
  <2>1. targets' \in FirstRelays /\ copies' = copies /\ priority' = << >> /\ at' = "measure"
        /\ list' = list
    BY <1>3 DEF BestPriority
  <2>2. targets' \subseteq copies
    BY <2>1 DEF FirstRelays
  <2> QED
    BY <2>1, <2>2
<1>4. CASE EndRound
  <2>1. /\ at' = "loop" /\ targets' = {} /\ copies' = {} /\ priority' = << >> /\ list' = list
    BY <1>4 DEF EndRound, AllMeasured
  <2> QED
    BY <2>1, FS_EmptySet
<1>5. ASSUME NEW fp \in Fingerprints, Rank(fp)
      PROVE  RelaysInv'
  BY <1>5 DEF Rank
<1>6. ASSUME NEW fp \in Fingerprints, Measured(fp)
      PROVE  RelaysInv'
  BY <1>6 DEF Measured
<1>7. CASE StoreResult
  BY <1>7 DEF StoreResult, roundVars
<1>8. CASE Refresh
  BY <1>8 DEF Refresh, roundVars
<1>9. CASE Restart
  BY <1>9, FS_EmptySet DEF Restart
<1>10. CASE UNCHANGED vars
  BY <1>10 DEF vars, roundVars
<1> QED
  BY <1>1, <1>2, <1>3, <1>4, <1>5, <1>6, <1>7, <1>8, <1>9, <1>10 DEF Next

\* How many relays a round has.
LEMMA RoundSize ==
  ASSUME RelaysInv, BestPriority
  PROVE  Cardinality(targets') \in Nat
<1>1. targets' \subseteq copies
  BY DEF BestPriority, FirstRelays
<1> QED
  BY <1>1, FS_Subset, FS_CardinalityType DEF RelaysInv

\* A tick keeps the ages, and those that are old.
LEMMA OlderAge ==
  \A age \in AllAges :
    /\ Older(age) \in AllAges /\ (IsOld(age) => IsOld(Older(age)))
    /\ \A start \in AllAges : age > start \/ IsOld(age) =>
                                Older(age) > Older(start) \/ IsOld(Older(age))
<1>1. Period \in Nat
  BY BoundsAssumption
<1> QED
  BY <1>1 DEF AllAges, Older, Min2, IsOld

\* What is kept of the first items of a sequence, for each number of them.
IsKept(kept, S, seq, ages) ==
  /\ kept \in [0..Len(seq) -> Seq(S)] /\ kept[0] = << >>
  /\ \A n \in 1..Len(seq) :
       kept[n] = IF IsOld(ages[n]) THEN kept[n - 1] ELSE Append(kept[n - 1], seq[n])
  /\ NotOld(seq, ages) = kept[Len(seq)]

\* There is such a function: NotOld is defined.
LEMMA KeptValues ==
  ASSUME NEW S, NEW seq \in Seq(S), NEW ages
  PROVE  \E kept : IsKept(kept, S, seq, ages)
<1> DEFINE L == Len(seq)
           Kept(f) == [n \in 0..L |->
                         IF n = 0 THEN << >>
                         ELSE IF IsOld(ages[n]) THEN f[n - 1] ELSE Append(f[n - 1], seq[n])]
           kept == CHOOSE f : f = Kept(f)
           step == [n \in 1..L |-> [q \in Seq(S) |-> IF IsOld(ages[n]) THEN q ELSE Append(q, seq[n])]]
<1>1. L \in Nat /\ (\A n \in 1..L : seq[n] \in S) /\ << >> \in Seq(S)
  BY ElementOfSeq, LenProperties, EmptySeq
<1>2. step \in Steps(L, Seq(S))
  <2>1. ASSUME NEW n \in 1..L, NEW q \in Seq(S) PROVE Append(q, seq[n]) \in Seq(S)
    BY <1>1, AppendProperties
  <2> QED
    BY <2>1 DEF Steps
<1>3. PICK g \in [0..L -> Seq(S)] : g[0] = << >> /\ \A n \in 1..L : g[n] = step[n][g[n - 1]]
  <2>1. L \in Nat
    BY <1>1
  <2>2. << >> \in Seq(S)
    BY <1>1
  <2> HIDE DEF step, L
  <2>3. HasValues(L, Seq(S), << >>, step)
    BY <1>2, <2>1, <2>2, ValuesByRecursion
  <2> QED
    BY <2>3 DEF HasValues
<1>4. ASSUME NEW n \in 1..L PROVE n - 1 \in 0..L /\ g[n - 1] \in Seq(S)
  <2> HIDE DEF L, step
  <2>1. n - 1 \in 0..L
    BY <1>1
  <2> QED
    BY <2>1
<1>5. \A n \in 1..L : g[n] = IF IsOld(ages[n]) THEN g[n - 1] ELSE Append(g[n - 1], seq[n])
  BY <1>3, <1>4
<1>6. g = Kept(g)
  <2>1. ASSUME NEW n \in 0..L PROVE g[n] = Kept(g)[n]
    <3>1. CASE n = 0
      BY <1>1, <1>3, <3>1
    <3>2. CASE n # 0
      <4>1. n \in 1..L
        BY <1>1, <3>2
      <4> QED
        BY <1>5, <3>2, <4>1
    <3> QED
      BY <3>1, <3>2
  <2> QED
    BY <2>1
<1>7. kept = Kept(kept)
  BY <1>6
<1> HIDE DEF kept
<1>8. kept[0] = << >>
  <2>1. 0 \in 0..L
    BY <1>1
  <2> QED
    BY <1>7, <2>1
<1>9. ASSUME NEW n \in 1..L
      PROVE  kept[n] = IF IsOld(ages[n]) THEN kept[n - 1] ELSE Append(kept[n - 1], seq[n])
  <2>1. n \in 0..L /\ n # 0
    BY <1>1
  <2> QED
    BY <1>7, <2>1
<1> DEFINE T == {n \in Nat : n <= L => kept[n] \in Seq(S)}
<1>10. 0 \in T
  BY <1>1, <1>8
<1>11. ASSUME NEW n \in Nat, n \in T PROVE n + 1 \in T
  <2> SUFFICES ASSUME n + 1 <= L PROVE kept[n + 1] \in Seq(S)
    OBVIOUS
  <2>1. n + 1 \in 1..L /\ (n + 1) - 1 = n /\ n <= L
    BY <1>1
  <2>2. kept[n] \in Seq(S) /\ seq[n + 1] \in S
    BY <1>1, <1>11, <2>1
  <2>3. Append(kept[n], seq[n + 1]) \in Seq(S)
    BY <2>2, AppendProperties
  <2> QED
    BY <1>9, <2>1, <2>2, <2>3
<1>12. \A n \in Nat : n \in T
  <2> HIDE DEF T
  <2> QED
    BY <1>10, <1>11, NumbersByInduction
<1>13. \A n \in 0..L : kept[n] \in Seq(S)
  BY <1>1, <1>12
<1>14. DOMAIN kept = 0..L /\ kept = [n \in 0..L |-> kept[n]]
  BY <1>7
<1>15. kept \in [0..L -> Seq(S)]
  BY <1>13, <1>14
<1>16. NotOld(seq, ages) = kept[L]
  BY DEF NotOld, kept
<1> QED
  BY <1>8, <1>9, <1>15, <1>16 DEF IsKept

\* Of items that are all old none is kept.
LEMMA NoneKept ==
  ASSUME NEW S, NEW seq \in Seq(S), NEW ages, \A n \in 1..Len(seq) : IsOld(ages[n])
  PROVE  NotOld(seq, ages) = << >>
<1> DEFINE L == Len(seq)
<1>1. PICK kept : IsKept(kept, S, seq, ages)
  BY KeptValues
<1>2. L \in Nat
  BY LenProperties
<1>3. \A n \in 1..L : kept[n] = kept[n - 1]
  BY <1>1 DEF IsKept
<1> HIDE DEF L
<1> DEFINE T == {n \in Nat : n <= L => kept[n] = << >>}
<1>4. 0 \in T
  BY <1>1 DEF IsKept
<1>5. ASSUME NEW n \in Nat, n \in T PROVE n + 1 \in T
  <2> SUFFICES ASSUME n + 1 <= L PROVE kept[n + 1] = << >>
    OBVIOUS
  <2>1. n + 1 \in 1..L /\ (n + 1) - 1 = n /\ n <= L
    BY <1>2
  <2> QED
    BY <1>3, <1>5, <2>1
<1>6. \A n \in Nat : n \in T
  <2> HIDE DEF T
  <2> QED
    BY <1>4, <1>5, NumbersByInduction
<1> QED
  BY <1>1, <1>2, <1>6 DEF L, IsKept

\* An item appended to the second of two sequences.
LEMMA ConcatAppend ==
  ASSUME NEW S, NEW p \in Seq(S), NEW q \in Seq(S), NEW x \in S
  PROVE  p \o Append(q, x) = Append(p \o q, x)
<1>1. <<x>> \in Seq(S) /\ p \o q \in Seq(S)
  BY ConcatProperties
<1>2. Append(q, x) = q \o <<x>> /\ Append(p \o q, x) = (p \o q) \o <<x>>
  BY <1>1, AppendIsConcat
<1> QED
  BY <1>1, <1>2, ConcatAssociative

\* What is kept of two sequences, one after the other.
LEMMA KeptOfConcat ==
  ASSUME NEW S, NEW p \in Seq(S), NEW q \in Seq(S)
  PROVE  NotOld(p \o q, AgesOf(p \o q)) = NotOld(p, AgesOf(p)) \o NotOld(q, AgesOf(q))
<1> DEFINE LP == Len(p)
           LQ == Len(q)
           pq == p \o q
           L == Len(pq)
<1>1. /\ LP \in Nat /\ LQ \in Nat /\ L = LP + LQ /\ pq \in Seq(S)
      /\ DOMAIN p = 1..LP /\ DOMAIN q = 1..LQ /\ DOMAIN pq = 1..L
  BY ConcatProperties, LenProperties
<1>2. \A i \in 1..LP : pq[i] = p[i]
  BY <1>1, ConcatProperties
<1>3. \A i \in 1..LQ : pq[LP + i] = q[i]
  <2> SUFFICES ASSUME NEW i \in 1..LQ PROVE pq[LP + i] = q[i]
    OBVIOUS
  <2>1. LP + i \in 1..LP + LQ /\ ~(LP + i <= LP) /\ (LP + i) - LP = i
    BY <1>1
  <2> QED
    BY <2>1, ConcatProperties
<1>4. /\ \A i \in 1..LP : AgesOf(p)[i] = p[i].age
      /\ \A i \in 1..LQ : AgesOf(q)[i] = q[i].age
      /\ \A i \in 1..L : AgesOf(pq)[i] = pq[i].age
  BY <1>1 DEF AgesOf
<1>5. PICK kp : IsKept(kp, S, p, AgesOf(p))
  BY KeptValues
<1>6. PICK kq : IsKept(kq, S, q, AgesOf(q))
  BY KeptValues
<1>7. PICK k : IsKept(k, S, pq, AgesOf(pq))
  BY <1>1, KeptValues
<1>8. /\ kp \in [0..LP -> Seq(S)] /\ kp[0] = << >> /\ NotOld(p, AgesOf(p)) = kp[LP]
      /\ \A n \in 1..LP :
           kp[n] = IF IsOld(AgesOf(p)[n]) THEN kp[n - 1] ELSE Append(kp[n - 1], p[n])
  BY <1>5 DEF IsKept
<1>9. /\ kq \in [0..LQ -> Seq(S)] /\ kq[0] = << >> /\ NotOld(q, AgesOf(q)) = kq[LQ]
      /\ \A n \in 1..LQ :
           kq[n] = IF IsOld(AgesOf(q)[n]) THEN kq[n - 1] ELSE Append(kq[n - 1], q[n])
  BY <1>6 DEF IsKept
<1>10. /\ k \in [0..L -> Seq(S)] /\ k[0] = << >> /\ NotOld(pq, AgesOf(pq)) = k[L]
       /\ \A n \in 1..L :
            k[n] = IF IsOld(AgesOf(pq)[n]) THEN k[n - 1] ELSE Append(k[n - 1], pq[n])
  BY <1>7 DEF IsKept
<1>11. \A s, t \in Seq(S), x \in S : s \o Append(t, x) = Append(s \o t, x)
  BY ConcatAppend
<1> HIDE DEF LP, LQ, pq, L
<1> DEFINE T == {n \in Nat : n <= LP => k[n] = kp[n]}
<1>12. 0 \in T
  BY <1>8, <1>10
<1>13. ASSUME NEW n \in Nat, n \in T PROVE n + 1 \in T
  <2> SUFFICES ASSUME n + 1 <= LP PROVE k[n + 1] = kp[n + 1]
    OBVIOUS
  <2>1. n + 1 \in 1..LP /\ n + 1 \in 1..L /\ (n + 1) - 1 = n /\ n <= LP
    BY <1>1
  <2>2. k[n] = kp[n] /\ pq[n + 1] = p[n + 1] /\ AgesOf(pq)[n + 1] = AgesOf(p)[n + 1]
    BY <1>2, <1>4, <1>13, <2>1
  <2> QED
    BY <1>8, <1>10, <2>1, <2>2
<1>14. \A n \in Nat : n \in T
  <2> HIDE DEF T
  <2> QED
    BY <1>12, <1>13, NumbersByInduction
<1>15. k[LP] = kp[LP] /\ kp[LP] \in Seq(S)
  <2>1. LP \in T /\ LP <= LP /\ LP \in 0..LP
    BY <1>1, <1>14
  <2> QED
    BY <1>8, <2>1
<1> DEFINE U == {n \in Nat : n <= LQ => k[LP + n] = kp[LP] \o kq[n]}
<1>16. 0 \in U
  <2>1. kp[LP] \o << >> = kp[LP]
    BY <1>15, ConcatEmptySeq
  <2>2. LP + 0 = LP /\ kq[0] = << >>
    BY <1>1, <1>9
  <2> QED
    BY <1>15, <2>1, <2>2
<1>17. ASSUME NEW n \in Nat, n \in U PROVE n + 1 \in U
  <2>0. n + 1 \in Nat
    OBVIOUS
  <2> SUFFICES ASSUME n + 1 <= LQ PROVE k[LP + (n + 1)] = kp[LP] \o kq[n + 1]
    BY <2>0, Zenon
  <2>1. /\ n + 1 \in 1..LQ /\ LP + (n + 1) \in 1..L /\ (n + 1) - 1 = n /\ n <= LQ
        /\ (LP + (n + 1)) - 1 = LP + n /\ n \in 0..LQ
    BY <1>1
  <2>2. /\ k[LP + n] = kp[LP] \o kq[n] /\ pq[LP + (n + 1)] = q[n + 1]
        /\ AgesOf(pq)[LP + (n + 1)] = AgesOf(q)[n + 1]
    BY <1>3, <1>4, <1>17, <2>1
  <2>3. q[n + 1] \in S /\ kq[n] \in Seq(S)
    <3>1. q[n + 1] \in S
      BY <2>1, ElementOfSeq DEF LQ
    <3>2. kq[n] \in Seq(S)
      BY <1>9, <2>1
    <3> QED
      BY <3>1, <3>2
  <2>4. kp[LP] \o Append(kq[n], q[n + 1]) = Append(kp[LP] \o kq[n], q[n + 1])
    BY <1>15, <2>3, <1>11
  <2>5. CASE IsOld(AgesOf(q)[n + 1])
    <3>1. k[LP + (n + 1)] = k[LP + n] /\ kq[n + 1] = kq[n]
      BY <1>9, <1>10, <2>1, <2>2, <2>5
    <3> QED
      BY <2>2, <3>1
  <2>6. CASE ~IsOld(AgesOf(q)[n + 1])
    <3>1. /\ k[LP + (n + 1)] = Append(k[LP + n], q[n + 1])
          /\ kq[n + 1] = Append(kq[n], q[n + 1])
      BY <1>9, <1>10, <2>1, <2>2, <2>6
    <3> QED
      BY <2>2, <2>4, <3>1
  <2> QED
    BY <2>5, <2>6
<1>18. \A n \in Nat : n \in U
  <2> HIDE DEF U
  <2> QED
    BY <1>16, <1>17, NumbersByInduction
<1>19. k[L] = kp[LP] \o kq[LQ]
  <2>1. LQ \in U
    <3> HIDE DEF U
    <3> QED
      BY <1>1, <1>18
  <2>2. LQ <= LQ
    BY <1>1
  <2> QED
    BY <1>1, <2>1, <2>2
<1> QED
  BY <1>8, <1>9, <1>10, <1>19 DEF pq

\* The counts of the first items of a sequence, for each number of them.
IsSum(sum, seq) ==
  /\ sum \in [0..Len(seq) -> Nat] /\ sum[0] = 0
  /\ \A n \in 1..Len(seq) : sum[n] = sum[n - 1] + seq[n].number
  /\ Count(seq) = sum[Len(seq)]

\* There is such a function: Count is defined, and is a number.
LEMMA CountValues ==
  ASSUME NEW seq \in Seq(Items)
  PROVE  \E sum : IsSum(sum, seq)
<1> DEFINE L == Len(seq)
           Sum(f) == [n \in 0..L |-> IF n = 0 THEN 0 ELSE f[n - 1] + seq[n].number]
           sum == CHOOSE f : f = Sum(f)
           step == [n \in 1..L |-> [m \in Nat |-> m + seq[n].number]]
<1>1. L \in Nat
  BY LenProperties
<1>2. \A n \in 1..L : seq[n].number \in Nat
  <2>1. ASSUME NEW n \in 1..L PROVE seq[n] \in Items
    BY <2>1, ElementOfSeq
  <2> QED
    BY <2>1 DEF Items
<1>3. step \in Steps(L, Nat)
  <2>1. ASSUME NEW n \in 1..L, NEW m \in Nat PROVE m + seq[n].number \in Nat
    BY <1>2
  <2> QED
    BY <2>1 DEF Steps
<1>4. PICK g \in [0..L -> Nat] : g[0] = 0 /\ \A n \in 1..L : g[n] = step[n][g[n - 1]]
  <2> HIDE DEF step, L
  <2>1. HasValues(L, Nat, 0, step)
    BY <1>1, <1>3, ValuesByRecursion
  <2> QED
    BY <2>1 DEF HasValues
<1>5. ASSUME NEW n \in 1..L PROVE n - 1 \in 0..L /\ g[n - 1] \in Nat
  <2> HIDE DEF L, step
  <2>1. n - 1 \in 0..L
    BY <1>1
  <2> QED
    BY <2>1
<1>6. \A n \in 1..L : g[n] = g[n - 1] + seq[n].number
  BY <1>4, <1>5
<1>7. g = Sum(g)
  <2>1. ASSUME NEW n \in 0..L PROVE g[n] = Sum(g)[n]
    <3>1. CASE n = 0
      BY <1>1, <1>4, <3>1
    <3>2. CASE n # 0
      <4>1. n \in 1..L
        BY <1>1, <3>2
      <4> QED
        BY <1>6, <3>2, <4>1
    <3> QED
      BY <3>1, <3>2
  <2> QED
    BY <2>1
<1>8. sum = Sum(sum)
  BY <1>7
<1> HIDE DEF sum
<1>9. sum[0] = 0
  <2>1. 0 \in 0..L
    BY <1>1
  <2> QED
    BY <1>8, <2>1
<1>10. ASSUME NEW n \in 1..L PROVE sum[n] = sum[n - 1] + seq[n].number
  <2>1. n \in 0..L /\ n # 0
    BY <1>1
  <2> QED
    BY <1>8, <2>1
<1> DEFINE T == {n \in Nat : n <= L => sum[n] \in Nat}
<1>11. 0 \in T
  BY <1>9
<1>12. ASSUME NEW n \in Nat, n \in T PROVE n + 1 \in T
  <2> SUFFICES ASSUME n + 1 <= L PROVE sum[n + 1] \in Nat
    OBVIOUS
  <2>1. n + 1 \in 1..L /\ (n + 1) - 1 = n /\ n <= L
    BY <1>1
  <2>2. sum[n] \in Nat /\ seq[n + 1].number \in Nat
    BY <1>2, <1>12, <2>1
  <2>3. sum[n + 1] = sum[n] + seq[n + 1].number
    BY <1>10, <2>1
  <2> QED
    BY <2>2, <2>3
<1>13. \A n \in Nat : n \in T
  <2> HIDE DEF T
  <2> QED
    BY <1>11, <1>12, NumbersByInduction
<1>14. \A n \in 0..L : sum[n] \in Nat
  BY <1>1, <1>13
<1>15. sum = [n \in 0..L |-> sum[n]]
  BY <1>8
<1>16. sum \in [0..L -> Nat]
  BY <1>14, <1>15
<1>17. Count(seq) = sum[L]
  BY DEF Count, sum
<1> QED
  BY <1>9, <1>10, <1>16, <1>17 DEF IsSum

\* The last items of a sequence count for no more than all of them.
LEMMA CountOfConcat ==
  ASSUME NEW p \in Seq(Items), NEW q \in Seq(Items)
  PROVE  Count(q) <= Count(p \o q)
<1> DEFINE LP == Len(p)
           LQ == Len(q)
           pq == p \o q
           L == Len(pq)
<1>1. LP \in Nat /\ LQ \in Nat /\ L = LP + LQ /\ pq \in Seq(Items)
  BY ConcatProperties, LenProperties
<1>2. \A i \in 1..LQ : pq[LP + i] = q[i]
  <2> SUFFICES ASSUME NEW i \in 1..LQ PROVE pq[LP + i] = q[i]
    OBVIOUS
  <2>1. LP + i \in 1..LP + LQ /\ ~(LP + i <= LP) /\ (LP + i) - LP = i
    BY <1>1
  <2> QED
    BY <2>1, ConcatProperties
<1>3. PICK s : IsSum(s, q)
  BY CountValues
<1>4. PICK t : IsSum(t, pq)
  BY <1>1, CountValues
<1>5. /\ s \in [0..LQ -> Nat] /\ s[0] = 0 /\ Count(q) = s[LQ]
      /\ \A n \in 1..LQ : s[n] = s[n - 1] + q[n].number
  BY <1>3 DEF IsSum
<1>6. /\ t \in [0..L -> Nat] /\ Count(pq) = t[L]
      /\ \A n \in 1..L : t[n] = t[n - 1] + pq[n].number
  BY <1>4 DEF IsSum
<1>7. \A n \in 1..LQ : q[n].number \in Nat
  <2>1. ASSUME NEW n \in 1..LQ PROVE q[n] \in Items
    BY <2>1, ElementOfSeq
  <2> QED
    BY <2>1 DEF Items
<1> HIDE DEF LP, LQ, pq, L
<1> DEFINE T == {n \in Nat : n <= LQ => s[n] <= t[LP + n]}
<1>8. 0 \in T
  <2>1. LP + 0 = LP /\ LP \in 0..L
    BY <1>1
  <2>2. t[LP] \in Nat
    BY <1>6, <2>1
  <2>3. s[0] <= t[LP]
    BY <1>5, <2>2
  <2> QED
    BY <2>1, <2>3
<1>9. ASSUME NEW n \in Nat, n \in T PROVE n + 1 \in T
  <2>1. n + 1 \in Nat
    OBVIOUS
  <2> SUFFICES ASSUME n + 1 <= LQ PROVE s[n + 1] <= t[LP + (n + 1)]
    BY <2>1, Zenon
  <2>2. /\ n + 1 \in 1..LQ /\ LP + (n + 1) \in 1..L /\ (n + 1) - 1 = n /\ n <= LQ
        /\ (LP + (n + 1)) - 1 = LP + n /\ n \in 0..LQ /\ LP + n \in 0..L
    BY <1>1
  <2>3. s[n] <= t[LP + n] /\ pq[LP + (n + 1)] = q[n + 1]
    BY <1>2, <1>9, <2>2
  <2>4. s[n] \in Nat /\ t[LP + n] \in Nat /\ q[n + 1].number \in Nat
    BY <1>5, <1>6, <1>7, <2>2
  <2>5. s[n + 1] = s[n] + q[n + 1].number
    BY <1>5, <2>2
  <2>6. t[LP + (n + 1)] = t[LP + n] + q[n + 1].number
    BY <1>6, <2>2, <2>3
  <2> QED
    BY <2>3, <2>4, <2>5, <2>6
<1>10. \A n \in Nat : n \in T
  <2> HIDE DEF T
  <2> QED
    BY <1>8, <1>9, NumbersByInduction
<1>11. LQ \in T
  <2> HIDE DEF T
  <2> QED
    BY <1>1, <1>10
<1>12. LQ <= LQ
  BY <1>1
<1>13. s[LQ] <= t[LP + LQ]
  BY <1>11, <1>12
<1> QED
  BY <1>1, <1>5, <1>6, <1>13 DEF pq

\* A tick, of a sequence of items.
LEMMA OlderItems ==
  ASSUME NEW seq \in Seq(Items), NEW S,
         \A i \in 1..Len(seq) : [seq[i] EXCEPT !.age = Older(@)] \in S
  PROVE  /\ OlderSeq(seq) \in Seq(S) /\ Len(OlderSeq(seq)) = Len(seq)
         /\ \A i \in 1..Len(seq) : OlderSeq(seq)[i] = [seq[i] EXCEPT !.age = Older(@)]
<1>1. Len(seq) \in Nat /\ DOMAIN seq = 1..Len(seq)
  BY LenProperties
<1>2. OlderSeq(seq) \in [1..Len(seq) -> S]
  BY <1>1 DEF OlderSeq
<1>3. OlderSeq(seq) \in Seq(S)
  BY <1>1, <1>2
<1>4. DOMAIN OlderSeq(seq) = 1..Len(seq)
  BY <1>2
<1>5. Len(OlderSeq(seq)) = Len(seq)
  BY <1>1, <1>3, <1>4, LenProperties
<1>6. \A i \in 1..Len(seq) : OlderSeq(seq)[i] = [seq[i] EXCEPT !.age = Older(@)]
  BY <1>1 DEF OlderSeq
<1> QED
  BY <1>3, <1>5, <1>6

\* A tick keeps an item one.
LEMMA OlderItem == \A x \in Items : [x EXCEPT !.age = Older(@)] \in Items
BY OlderAge DEF Items

\* A tick, of one sequence and of two.
LEMMA OlderOfConcat ==
  ASSUME NEW p \in Seq(Items), NEW q \in Seq(Items)
  PROVE  OlderSeq(p \o q) = OlderSeq(p) \o OlderSeq(q)
<1> DEFINE LP == Len(p)
           LQ == Len(q)
           pq == p \o q
<1>1. LP \in Nat /\ LQ \in Nat /\ Len(pq) = LP + LQ /\ pq \in Seq(Items)
  BY ConcatProperties, LenProperties
<1>2. \A i \in 1..LP + LQ : pq[i] = IF i <= LP THEN p[i] ELSE q[i - LP]
  BY ConcatProperties
<1>3. \A s \in Seq(Items) : \A i \in 1..Len(s) : [s[i] EXCEPT !.age = Older(@)] \in Items
  <2> SUFFICES ASSUME NEW s \in Seq(Items), NEW i \in 1..Len(s)
               PROVE  [s[i] EXCEPT !.age = Older(@)] \in Items
    OBVIOUS
  <2>1. s[i] \in Items
    BY ElementOfSeq
  <2> QED
    BY <2>1, OlderItem
<1>4. /\ OlderSeq(p) \in Seq(Items) /\ Len(OlderSeq(p)) = LP
      /\ \A i \in 1..LP : OlderSeq(p)[i] = [p[i] EXCEPT !.age = Older(@)]
  BY <1>3, OlderItems
<1>5. /\ OlderSeq(q) \in Seq(Items) /\ Len(OlderSeq(q)) = LQ
      /\ \A i \in 1..LQ : OlderSeq(q)[i] = [q[i] EXCEPT !.age = Older(@)]
  BY <1>3, OlderItems
<1>6. /\ OlderSeq(pq) \in Seq(Items) /\ Len(OlderSeq(pq)) = LP + LQ
      /\ \A i \in 1..LP + LQ : OlderSeq(pq)[i] = [pq[i] EXCEPT !.age = Older(@)]
  <2> HIDE DEF LP, LQ, pq
  <2>1. \A i \in 1..Len(pq) : [pq[i] EXCEPT !.age = Older(@)] \in Items
    BY <1>1, <1>3
  <2>2. /\ OlderSeq(pq) \in Seq(Items) /\ Len(OlderSeq(pq)) = Len(pq)
        /\ \A i \in 1..Len(pq) : OlderSeq(pq)[i] = [pq[i] EXCEPT !.age = Older(@)]
    BY <1>1, <2>1, OlderItems
  <2> QED
    BY <1>1, <2>2
<1> DEFINE both == OlderSeq(p) \o OlderSeq(q)
<1>7. /\ both \in Seq(Items) /\ Len(both) = LP + LQ
      /\ \A i \in 1..LP + LQ :
           both[i] = IF i <= LP THEN OlderSeq(p)[i] ELSE OlderSeq(q)[i - LP]
  <2>1. OlderSeq(p) \in Seq(Items) /\ OlderSeq(q) \in Seq(Items)
    BY <1>4, <1>5
  <2>2. /\ both \in Seq(Items) /\ Len(both) = Len(OlderSeq(p)) + Len(OlderSeq(q))
        /\ \A i \in 1..Len(OlderSeq(p)) + Len(OlderSeq(q)) :
             both[i] = IF i <= Len(OlderSeq(p)) THEN OlderSeq(p)[i]
                       ELSE OlderSeq(q)[i - Len(OlderSeq(p))]
    BY <2>1, ConcatProperties
  <2>3. Len(OlderSeq(p)) = LP /\ Len(OlderSeq(q)) = LQ
    BY <1>4, <1>5
  <2> QED
    BY <2>2, <2>3
<1> HIDE DEF LP, LQ, pq, both
<1>8. ASSUME NEW i \in 1..LP + LQ PROVE OlderSeq(pq)[i] = both[i]
  <2>1. CASE i <= LP
    <3>1. i \in 1..LP
      BY <1>1, <2>1
    <3>2. both[i] = OlderSeq(p)[i] /\ pq[i] = p[i]
      BY <1>2, <1>7, <2>1
    <3> QED
      BY <1>4, <1>6, <3>1, <3>2
  <2>2. CASE ~(i <= LP)
    <3>1. i - LP \in 1..LQ
      BY <1>1, <2>2
    <3> QED
      BY <1>2, <1>5, <1>6, <1>7, <2>2, <3>1
  <2> QED
    BY <2>1, <2>2
<1>9. OlderSeq(pq) = both
  BY <1>6, <1>7, <1>8, SeqEqual
<1> QED
  BY <1>9 DEF pq, both

-----------------------------------------------------------------------------
(***************************************************************************)
(* The counts, in memory and in the state file.                            *)
(***************************************************************************)
\* The items of the processes before this one, which began that long ago.
Before(start) == {x \in Items : x.age > start \/ IsOld(x.age)}

\* The strengthening. What was counted is what the processes before this one
\* counted, and then what this one has in memory: the former is older than the
\* process, so that it is old, and not kept, once the process has run for the
\* period. Where the relays of a round are measured, the state file has what is
\* in memory.
CountInv ==
  /\ sinceStart \in AllAges
  /\ stateFile \in Seq(Items) /\ recentPriorityRelay \in Seq(Items)
  /\ \E pre \in Seq(Before(sinceStart)) : lists = pre \o recentPriorityRelay
  /\ at = "measure" => stateFile = recentPriorityRelay
  /\ at = "measure" /\ sinceStart > Period => stateFile = lists

\* The items of earlier processes are items.
LEMMA BeforeItems ==
  ASSUME NEW start, NEW pre \in Seq(Before(start))
  PROVE  pre \in Seq(Items)
<1>1. Before(start) \subseteq Items
  BY DEF Before
<1> QED
  BY <1>1, SeqMonotonic

\* What is kept is of the same items.
LEMMA KeptIn ==
  ASSUME NEW S, NEW seq \in Seq(S), NEW ages
  PROVE  NotOld(seq, ages) \in Seq(S)
<1>1. PICK kept : IsKept(kept, S, seq, ages)
  BY KeptValues
<1>2. Len(seq) \in Nat
  BY LenProperties
<1>3. Len(seq) \in 0..Len(seq)
  BY <1>2
<1> QED
  BY <1>1, <1>3 DEF IsKept

\* A tick, for the items of earlier processes, and when the process is started
\* again for all of them.
LEMMA OlderBefore ==
  /\ \A start \in AllAges : \A x \in Before(start) :
       [x EXCEPT !.age = Older(@)] \in Before(Older(start))
  /\ \A x \in Items : [x EXCEPT !.age = Older(@)] \in Before(0)
<1>1. ASSUME NEW start \in AllAges, NEW x \in Before(start)
      PROVE  [x EXCEPT !.age = Older(@)] \in Before(Older(start))
  <2>1. x \in Items /\ x.age \in AllAges /\ (x.age > start \/ IsOld(x.age))
    BY DEF Before, Items
  <2>2. Older(x.age) > Older(start) \/ IsOld(Older(x.age))
    BY <2>1, OlderAge
  <2>3. [x EXCEPT !.age = Older(@)] \in Items /\ [x EXCEPT !.age = Older(@)].age = Older(x.age)
    BY <2>1, OlderItem DEF Items
  <2> QED
    BY <2>2, <2>3 DEF Before
<1>2. ASSUME NEW x \in Items
      PROVE  [x EXCEPT !.age = Older(@)] \in Before(0)
  <2>1. x.age \in AllAges
    BY DEF Items
  <2>2. Older(x.age) > 0
    <3>1. Period \in Nat
      BY BoundsAssumption
    <3> QED
      BY <2>1, <3>1 DEF AllAges, Older, Min2
  <2>3. [x EXCEPT !.age = Older(@)] \in Items /\ [x EXCEPT !.age = Older(@)].age = Older(x.age)
    BY OlderItem DEF Items
  <2> QED
    BY <2>2, <2>3 DEF Before
<1> QED
  BY <1>1, <1>2

\* Nothing is counted at first.
LEMMA InitCount == Init => CountInv
<1> SUFFICES ASSUME Init PROVE CountInv
  OBVIOUS
<1>1. << >> \in Seq(Items) /\ << >> \in Seq(Before(0)) /\ << >> \o << >> = << >>
  BY EmptySeq, ConcatEmptySeq
<1>2. 0 \in AllAges /\ ~(0 > Period)
  BY BoundsAssumption DEF AllAges
<1>3. /\ at = "loop" /\ recentPriorityRelay = << >> /\ stateFile = << >> /\ lists = << >>
      /\ sinceStart = 0
  BY DEF Init
<1> QED
  BY <1>1, <1>2, <1>3 DEF CountInv

\* A tick of a sequence of items, of those of earlier processes, and of all of
\* them where the process is started again.
LEMMA OlderSeqItems == \A s \in Seq(Items) : OlderSeq(s) \in Seq(Items)
<1> SUFFICES ASSUME NEW s \in Seq(Items) PROVE OlderSeq(s) \in Seq(Items)
  OBVIOUS
<1>1. ASSUME NEW i \in 1..Len(s) PROVE [s[i] EXCEPT !.age = Older(@)] \in Items
  BY <1>1, ElementOfSeq, OlderItem
<1> QED
  BY <1>1, OlderItems

\* ...those of earlier processes,
LEMMA OlderSeqBefore ==
  ASSUME NEW start \in AllAges, NEW s \in Seq(Before(start))
  PROVE  OlderSeq(s) \in Seq(Before(Older(start)))
<1>1. s \in Seq(Items)
  BY BeforeItems
<1>2. ASSUME NEW i \in 1..Len(s) PROVE [s[i] EXCEPT !.age = Older(@)] \in Before(Older(start))
  <2>1. s[i] \in Before(start)
    BY <1>2, ElementOfSeq
  <2> QED
    BY <2>1, OlderBefore
<1> QED
  BY <1>1, <1>2, OlderItems

\* ...and all of them where the process is started again.
LEMMA OlderSeqStarted == \A s \in Seq(Items) : OlderSeq(s) \in Seq(Before(0))
<1> SUFFICES ASSUME NEW s \in Seq(Items) PROVE OlderSeq(s) \in Seq(Before(0))
  OBVIOUS
<1>1. ASSUME NEW i \in 1..Len(s) PROVE [s[i] EXCEPT !.age = Older(@)] \in Before(0)
  <2>1. s[i] \in Items
    BY <1>1, ElementOfSeq
  <2> QED
    BY <2>1, OlderBefore
<1> QED
  BY <1>1, OlderItems

\* A round is counted: in memory, in the file, and among all that were counted.
LEMMA BestPriorityCount == RelaysInv /\ CountInv /\ BestPriority => CountInv'
<1> SUFFICES ASSUME RelaysInv, CountInv, BestPriority PROVE CountInv'
  OBVIOUS
<1> DEFINE recent == recentPriorityRelay
           item == [age |-> 0, number |-> Cardinality(targets')]
           kept == NotOld(recent, AgesOf(recent))
<1>1. item \in Items
  <2>1. Cardinality(targets') \in Nat
    BY RoundSize
  <2>2. 0 \in AllAges
    BY BoundsAssumption DEF AllAges
  <2> QED
    BY <2>1, <2>2 DEF Items
<1>2. PICK pre \in Seq(Before(sinceStart)) : lists = pre \o recent
  BY DEF CountInv
<1>3. recent \in Seq(Items) /\ pre \in Seq(Items)
  BY BeforeItems DEF CountInv
<1> DEFINE before == NotOld(pre, AgesOf(pre))
<1>4. kept \in Seq(Items) /\ before \in Seq(Before(sinceStart)) /\ before \in Seq(Items)
  <2>1. kept \in Seq(Items)
    BY <1>3, KeptIn
  <2>2. before \in Seq(Before(sinceStart))
    BY KeptIn
  <2>3. before \in Seq(Items)
    BY <1>3, KeptIn
  <2> QED
    BY <2>1, <2>2, <2>3
<1>5. NotOld(lists, AgesOf(lists)) = before \o kept
  <2>1. NotOld(pre \o recent, AgesOf(pre \o recent)) = before \o kept
    BY <1>3, KeptOfConcat
  <2> QED
    BY <1>2, <2>1
<1>6. /\ recent' = Append(kept, item) /\ stateFile' = recent'
      /\ lists' = Append(before \o kept, item) /\ sinceStart' = sinceStart
  <2>1. Increment(Cardinality(targets')) /\ sinceStart' = sinceStart
    BY DEF BestPriority, restartVars
  <2> HIDE DEF kept, before
  <2>2. /\ recent' = UpdatedSeq(recent, item) /\ stateFile' = recent'
        /\ lists' = Append(NotOld(lists, AgesOf(lists)), item)
    BY <2>1 DEF Increment
  <2>3. UpdatedSeq(recent, item) = Append(kept, item)
    BY DEF UpdatedSeq, kept
  <2> QED
    BY <1>5, <2>1, <2>2, <2>3
<1>7. recent' \in Seq(Items)
  <2> HIDE DEF kept, item
  <2> QED
    BY <1>1, <1>4, <1>6, AppendProperties
<1>8. lists' = before \o recent'
  <2> HIDE DEF kept, item, before
  <2>1. before \o Append(kept, item) = Append(before \o kept, item)
    BY <1>1, <1>4, ConcatAppend
  <2> QED
    BY <1>6, <2>1
<1>9. ASSUME sinceStart > Period
      PROVE  lists' = recent'
  <2>1. Period \in Nat /\ sinceStart \in AllAges
    BY BoundsAssumption DEF CountInv
  <2>2. ASSUME NEW n \in 1..Len(pre) PROVE IsOld(AgesOf(pre)[n])
    <3>1. pre[n] \in Before(sinceStart)
      BY <2>2, ElementOfSeq
    <3>2. pre[n].age \in AllAges /\ (pre[n].age > sinceStart \/ IsOld(pre[n].age))
      BY <3>1 DEF Before, Items
    <3>3. AgesOf(pre)[n] = pre[n].age
      BY LenProperties DEF AgesOf
    <3> QED
      BY <1>9, <2>1, <3>2, <3>3 DEF AllAges, IsOld
  <2>3. before = << >>
    BY <2>2, NoneKept
  <2> HIDE DEF before, kept, item
  <2>4. << >> \o recent' = recent'
    BY <1>7, ConcatEmptySeq
  <2> QED
    BY <1>8, <2>3, <2>4
<1> HIDE DEF before, kept, item
<1> QED
  BY <1>4, <1>6, <1>7, <1>8, <1>9 DEF CountInv

\* A tick, which a round is long.
LEMMA EndRoundCount == CountInv /\ EndRound => CountInv'
<1> SUFFICES ASSUME CountInv, EndRound PROVE CountInv'
  OBVIOUS
<1> DEFINE recent == recentPriorityRelay
<1>1. PICK pre \in Seq(Before(sinceStart)) : lists = pre \o recent
  BY DEF CountInv
<1>2. /\ recent \in Seq(Items) /\ pre \in Seq(Items) /\ stateFile \in Seq(Items)
      /\ sinceStart \in AllAges
  BY BeforeItems DEF CountInv
<1>3. /\ at' = "loop" /\ sinceStart' = Older(sinceStart) /\ recent' = OlderSeq(recent)
      /\ stateFile' = OlderSeq(stateFile) /\ lists' = OlderSeq(lists)
  BY DEF EndRound, TimePasses
<1>4. \A s \in Seq(Items) : OlderSeq(s) \in Seq(Items)
  BY OlderSeqItems
<1>5. OlderSeq(pre) \in Seq(Before(Older(sinceStart)))
  BY <1>2, OlderSeqBefore
<1>6. lists' = OlderSeq(pre) \o recent'
  BY <1>1, <1>2, <1>3, OlderOfConcat
<1>7. Older(sinceStart) \in AllAges
  BY <1>2, OlderAge
<1> QED
  BY <1>2, <1>3, <1>4, <1>5, <1>6, <1>7 DEF CountInv

\* Another start: nothing is in memory, and all that was counted is of before.
LEMMA RestartCount == CountInv /\ Restart => CountInv'
<1> SUFFICES ASSUME CountInv, Restart PROVE CountInv'
  OBVIOUS
<1>1. lists \in Seq(Items) /\ stateFile \in Seq(Items)
  <2>1. PICK pre \in Seq(Before(sinceStart)) : lists = pre \o recentPriorityRelay
    BY DEF CountInv
  <2>2. pre \in Seq(Items) /\ recentPriorityRelay \in Seq(Items) /\ stateFile \in Seq(Items)
    BY BeforeItems DEF CountInv
  <2>3. pre \o recentPriorityRelay \in Seq(Items)
    BY <2>2, ConcatProperties
  <2> QED
    BY <2>1, <2>2, <2>3
<1>2. /\ at' = "loop" /\ sinceStart' = 0 /\ recentPriorityRelay' = << >>
      /\ stateFile' = OlderSeq(stateFile) /\ lists' = OlderSeq(lists)
  BY DEF Restart, TimePasses
<1>3. OlderSeq(stateFile) \in Seq(Items)
  BY <1>1, OlderSeqItems
<1>4. OlderSeq(lists) \in Seq(Before(0))
  BY <1>1, OlderSeqStarted
<1>5. OlderSeq(lists) \o << >> = OlderSeq(lists)
  BY <1>4, ConcatEmptySeq
<1>6. 0 \in AllAges /\ << >> \in Seq(Items)
  BY BoundsAssumption, EmptySeq DEF AllAges
<1>7. \E pre \in Seq(Before(sinceStart')) : lists' = pre \o recentPriorityRelay'
  BY <1>2, <1>4, <1>5
<1> QED
  BY <1>2, <1>3, <1>6, <1>7 DEF CountInv

\* Every step keeps the counts.
LEMMA NextCount == RelaysInv /\ CountInv /\ [Next]_vars => CountInv'
<1> SUFFICES ASSUME RelaysInv, CountInv, [Next]_vars PROVE CountInv'
  OBVIOUS
<1> DEFINE Same == UNCHANGED <<countVars, sinceStart>> /\ (at' = "measure" => at = "measure")
<1>1. ASSUME Same PROVE CountInv'
  <2>1. UNCHANGED <<recentPriorityRelay, stateFile, lists, sinceStart>>
    BY <1>1 DEF countVars
  <2> QED
    BY <1>1, <2>1 DEF CountInv
<1>2. CopyRelays => Same
  BY DEF CopyRelays, restartVars
<1>3. WithoutAuthorities => Same
  BY DEF WithoutAuthorities, restartVars
<1>4. ASSUME NEW fp \in Fingerprints, Rank(fp) \/ Measured(fp)
      PROVE  Same
  BY <1>4 DEF Rank, Measured, restartVars
<1>5. StoreResult => Same
  BY DEF StoreResult, restartVars
<1>6. Refresh => Same
  BY DEF Refresh, restartVars
<1>7. UNCHANGED vars => Same
  BY DEF vars, restartVars
<1> HIDE DEF Same
<1> QED
  BY <1>1, <1>2, <1>3, <1>4, <1>5, <1>6, <1>7, BestPriorityCount, EndRoundCount, RestartCount
  DEF Next

\* It holds of every behaviour.
LEMMA CountInvariant == Spec => [](RelaysInv /\ CountInv)
<1>1. Init => RelaysInv
  BY FS_EmptySet DEF Init, RelaysInv
<1>2. RelaysInv /\ CountInv /\ [Next]_vars => RelaysInv' /\ CountInv'
  BY NextRelays, NextCount
<1>3. QED
  BY <1>1, <1>2, InitCount, PTL DEF Spec

\* The counts in the state file are never more than what was counted in the last
\* days, and just that when the process has run for those days, whatever number
\* of processes there were before (state.py, timestamps.py and
\* relayprioritizer.py, increment_recent_priority_relay).
THEOREM CountsOfThePeriodHolds == Spec => []CountsOfThePeriod
<1>1. CountInv => CountsOfThePeriod
  <2> SUFFICES ASSUME CountInv, at = "measure"
               PROVE  /\ Count(stateFile) <= Count(lists)
                      /\ sinceStart > Period => stateFile = lists
    BY DEF CountsOfThePeriod
  <2>1. PICK pre \in Seq(Before(sinceStart)) : lists = pre \o recentPriorityRelay
    BY DEF CountInv
  <2>2. pre \in Seq(Items) /\ recentPriorityRelay \in Seq(Items)
    BY BeforeItems DEF CountInv
  <2>3. Count(recentPriorityRelay) <= Count(lists)
    BY <2>1, <2>2, CountOfConcat
  <2> QED
    BY <2>3 DEF CountInv
<1>2. QED
  BY <1>1, CountInvariant, PTL

-----------------------------------------------------------------------------
(***************************************************************************)
(* The results, queued and stored.                                         *)
(***************************************************************************)
ResultsInv ==
  /\ queue \in Seq(Queued)
  /\ stored \in [Fingerprints -> Seq(AllAges)]

\* A tick, of the results in the queue and of the ages stored.
LEMMA OlderResults ==
  /\ \A seq \in Seq(Queued) : OlderSeq(seq) \in Seq(Queued)
  /\ \A seq \in Seq(AllAges) : [i \in DOMAIN seq |-> Older(seq[i])] \in Seq(AllAges)
<1>1. ASSUME NEW seq \in Seq(Queued) PROVE OlderSeq(seq) \in Seq(Queued)
  <2>1. Len(seq) \in Nat /\ DOMAIN seq = 1..Len(seq)
    BY LenProperties
  <2>2. ASSUME NEW i \in 1..Len(seq) PROVE [seq[i] EXCEPT !.age = Older(@)] \in Queued
    <3>1. seq[i] \in Queued
      BY <2>2, ElementOfSeq
    <3> QED
      BY <3>1, OlderAge DEF Queued
  <2>3. OlderSeq(seq) \in [1..Len(seq) -> Queued]
    BY <2>1, <2>2 DEF OlderSeq
  <2> QED
    BY <2>1, <2>3
<1>2. ASSUME NEW seq \in Seq(AllAges)
      PROVE  [i \in DOMAIN seq |-> Older(seq[i])] \in Seq(AllAges)
  <2>1. Len(seq) \in Nat /\ DOMAIN seq = 1..Len(seq)
    BY LenProperties
  <2>2. ASSUME NEW i \in 1..Len(seq) PROVE Older(seq[i]) \in AllAges
    <3>1. seq[i] \in AllAges
      BY <2>2, ElementOfSeq
    <3> QED
      BY <3>1, OlderAge
  <2>3. [i \in DOMAIN seq |-> Older(seq[i])] \in [1..Len(seq) -> AllAges]
    BY <2>1, <2>2
  <2> QED
    BY <2>1, <2>3
<1> QED
  BY <1>1, <1>2

\* The ages stored, a tick later.
LEMMA TimePassesStored == ResultsInv /\ TimePasses => stored' \in [Fingerprints -> Seq(AllAges)]
<1> SUFFICES ASSUME ResultsInv, TimePasses PROVE stored' \in [Fingerprints -> Seq(AllAges)]
  OBVIOUS
<1>1. ASSUME NEW fp \in Fingerprints
      PROVE  [i \in DOMAIN stored[fp] |-> Older(stored[fp][i])] \in Seq(AllAges)
  <2>1. stored[fp] \in Seq(AllAges)
    BY DEF ResultsInv
  <2> QED
    BY <2>1, OlderResults
<1> QED
  BY <1>1 DEF TimePasses

\* Every step keeps the results.
LEMMA NextResults == RelaysInv /\ ResultsInv /\ [Next]_vars => ResultsInv'
<1> SUFFICES ASSUME RelaysInv, ResultsInv, [Next]_vars PROVE ResultsInv'
  OBVIOUS
<1>1. CASE UNCHANGED <<queue, stored>>
  BY <1>1 DEF ResultsInv
<1>2. ASSUME CopyRelays \/ WithoutAuthorities \/ BestPriority \/ Refresh
      PROVE  ResultsInv'
  <2>1. UNCHANGED <<queue, stored>>
    BY <1>2 DEF CopyRelays, WithoutAuthorities, BestPriority, Refresh
  <2> QED
    BY <1>1, <2>1
<1>3. ASSUME NEW fp \in Fingerprints, Rank(fp)
      PROVE  ResultsInv'
  BY <1>1, <1>3 DEF Rank
<1>4. ASSUME NEW fp \in Fingerprints, Measured(fp)
      PROVE  ResultsInv'
  <2>1. queue' = Append(queue, [relay |-> fp, age |-> 0]) /\ stored' = stored
    BY <1>4 DEF Measured
  <2>2. 0 \in AllAges
    BY BoundsAssumption DEF AllAges
  <2>3. [relay |-> fp, age |-> 0] \in Queued
    BY <2>2 DEF Queued
  <2>4. queue' \in Seq(Queued)
    BY <2>1, <2>3, AppendProperties DEF ResultsInv
  <2> QED
    BY <2>1, <2>4 DEF ResultsInv
<1>5. CASE StoreResult
  <2>1. queue \in Seq(Queued) /\ queue # << >>
    BY <1>5 DEF StoreResult, ResultsInv
  <2>2. Head(queue) \in Queued /\ Tail(queue) \in Seq(Queued)
    BY <2>1, HeadTailProperties
  <2> DEFINE fp == Head(queue).relay
             ages == Append(NotOld(stored[fp], stored[fp]), Head(queue).age)
  <2>3. fp \in Fingerprints /\ Head(queue).age \in AllAges
    BY <2>2 DEF Queued
  <2>4. stored[fp] \in Seq(AllAges)
    BY <2>3 DEF ResultsInv
  <2>5. NotOld(stored[fp], stored[fp]) \in Seq(AllAges)
    BY <2>4, KeptIn
  <2>6. ages \in Seq(AllAges)
    BY <2>3, <2>5, AppendProperties
  <2>7. queue' = Tail(queue) /\ stored' = [stored EXCEPT ![fp] = ages]
    BY <1>5 DEF StoreResult
  <2> HIDE DEF fp, ages
  <2> QED
    BY <2>2, <2>3, <2>6, <2>7 DEF ResultsInv
<1>6. CASE EndRound
  <2>1. queue' = OlderSeq(queue) /\ TimePasses
    BY <1>6 DEF EndRound
  <2>2. queue' \in Seq(Queued)
    BY <2>1, OlderResults DEF ResultsInv
  <2> QED
    BY <2>1, <2>2, TimePassesStored DEF ResultsInv
<1>7. CASE Restart
  <2>1. queue' = << >> /\ TimePasses
    BY <1>7 DEF Restart
  <2>2. queue' \in Seq(Queued)
    BY <2>1, EmptySeq
  <2> QED
    BY <2>1, <2>2, TimePassesStored DEF ResultsInv
<1>8. CASE UNCHANGED vars
  BY <1>1, <1>8 DEF vars
<1> QED
  BY <1>2, <1>3, <1>4, <1>5, <1>6, <1>7, <1>8 DEF Next

\* There are none at first.
LEMMA InitResults == Init => ResultsInv
<1> SUFFICES ASSUME Init PROVE ResultsInv
  OBVIOUS
<1>1. << >> \in Seq(Queued) /\ << >> \in Seq(AllAges)
  BY EmptySeq
<1>2. queue = << >> /\ stored = [fp \in Fingerprints |-> << >>]
  BY DEF Init
<1> QED
  BY <1>1, <1>2 DEF ResultsInv

\* The types of the variables: measurements are of relays of the round, results
\* of relays, and what is in memory is never more than what was counted.
THEOREM PrioritizerTypes == Spec => []TypeOK
<1>1. Init => ResultsInv
  BY InitResults
<1>2. RelaysInv /\ CountInv /\ ResultsInv => TypeOK
  <2> SUFFICES ASSUME RelaysInv, CountInv, ResultsInv PROVE TypeOK
    OBVIOUS
  <2>1. ASSUME NEW i \in DOMAIN queue PROVE queue[i].relay \in Fingerprints
    <3>1. queue \in Seq(Queued) /\ i \in 1..Len(queue)
      BY LenProperties DEF ResultsInv
    <3>2. queue[i] \in Queued
      BY <3>1, ElementOfSeq
    <3> QED
      BY <3>2 DEF Queued
  <2>2. ASSUME NEW fp \in Fingerprints, NEW i \in DOMAIN stored[fp]
        PROVE  stored[fp][i] \in 0..Period + 1
    <3>1. stored[fp] \in Seq(AllAges)
      BY DEF ResultsInv
    <3>2. i \in 1..Len(stored[fp])
      BY <3>1, LenProperties
    <3> QED
      BY <3>1, <3>2, ElementOfSeq DEF AllAges
  <2>3. Len(recentPriorityRelay) <= Len(lists)
    <3>1. PICK pre \in Seq(Before(sinceStart)) : lists = pre \o recentPriorityRelay
      BY DEF CountInv
    <3>2. pre \in Seq(Items) /\ recentPriorityRelay \in Seq(Items)
      BY BeforeItems DEF CountInv
    <3>3. Len(pre) \in Nat /\ Len(recentPriorityRelay) \in Nat
      BY <3>2, LenProperties
    <3>4. Len(lists) = Len(pre) + Len(recentPriorityRelay)
      BY <3>1, <3>2, ConcatProperties
    <3> QED
      BY <3>3, <3>4
  <2> QED
    BY <2>1, <2>2, <2>3 DEF RelaysInv, TypeOK
<1>3. RelaysInv /\ ResultsInv /\ [Next]_vars => ResultsInv'
  BY NextResults
<1>4. QED
  BY <1>1, <1>2, <1>3, CountInvariant, PTL DEF Spec

-----------------------------------------------------------------------------
(***************************************************************************)
(* The relays that wait.                                                   *)
(***************************************************************************)
\* The ages of the results of a relay that count: stored, queued or about to be.
Ages(fp) ==
  {a \in 0..Period :
     \/ \E i \in 1..Len(stored[fp]) : stored[fp][i] = a
     \/ \E i \in 1..Len(queue) : queue[i] = [relay |-> fp, age |-> a]
     \/ fp \in targets /\ a = 0}

\* The relays with a result of an age.
Holders(a) == {g \in Fingerprints : a \in Ages(g)}

\* The ages of the rounds that a relay has waited, less Period of them. The last
\* round is of age d.
Window(d, fp) == {a \in d..Period : a + Period < d + waited[fp]}

\* ...and those of which fewer than K relays have a result.
Lost(K, d, fp) == {a \in Window(d, fp) : Cardinality(Holders(a)) < K}

\* The sums of the freshness of the first results, for each number of them.
IsWorth(sum, fp) ==
  /\ sum \in [0..Len(stored[fp]) -> Nat] /\ sum[0] = 0
  /\ \A n \in 1..Len(stored[fp]) : sum[n] = sum[n - 1] + Freshness(stored[fp][n])
  /\ Priority(fp) = sum[Len(stored[fp])]

\* The freshness of an age.
LEMMA FreshnessOfAge ==
  \A age \in AllAges : Freshness(age) \in Nat /\ (Freshness(age) = 0 <=> age >= Period)
<1>1. Period \in Nat
  BY BoundsAssumption
<1> QED
  BY <1>1 DEF AllAges, Freshness, IsOld

\* There is such a function: Priority is defined, and is a number.
LEMMA PriorityValues ==
  ASSUME ResultsInv, NEW fp \in Fingerprints
  PROVE  \E sum : IsWorth(sum, fp)
<1> DEFINE seq == stored[fp]
           L == Len(seq)
           Sum(f) == [n \in 0..L |-> IF n = 0 THEN 0 ELSE f[n - 1] + Freshness(seq[n])]
           sum == CHOOSE f : f = Sum(f)
           step == [n \in 1..L |-> [m \in Nat |-> m + Freshness(seq[n])]]
<1>0. seq \in Seq(AllAges)
  BY DEF ResultsInv
<1>1. L \in Nat
  BY <1>0, LenProperties
<1>2. \A n \in 1..L : Freshness(seq[n]) \in Nat
  <2>1. ASSUME NEW n \in 1..L PROVE seq[n] \in AllAges
    BY <1>0, <2>1, ElementOfSeq
  <2> QED
    BY <2>1, FreshnessOfAge
<1>3. step \in Steps(L, Nat)
  <2>1. ASSUME NEW n \in 1..L, NEW m \in Nat PROVE m + Freshness(seq[n]) \in Nat
    BY <1>2
  <2> QED
    BY <2>1 DEF Steps
<1>4. PICK g \in [0..L -> Nat] : g[0] = 0 /\ \A n \in 1..L : g[n] = step[n][g[n - 1]]
  <2> HIDE DEF step, L
  <2>1. HasValues(L, Nat, 0, step)
    BY <1>1, <1>3, ValuesByRecursion
  <2> QED
    BY <2>1 DEF HasValues
<1>5. ASSUME NEW n \in 1..L PROVE n - 1 \in 0..L /\ g[n - 1] \in Nat
  <2> HIDE DEF L, step
  <2>1. n - 1 \in 0..L
    BY <1>1
  <2> QED
    BY <2>1
<1>6. \A n \in 1..L : g[n] = g[n - 1] + Freshness(seq[n])
  BY <1>4, <1>5
<1>7. g = Sum(g)
  <2>1. ASSUME NEW n \in 0..L PROVE g[n] = Sum(g)[n]
    <3>1. CASE n = 0
      BY <1>1, <1>4, <3>1
    <3>2. CASE n # 0
      <4>1. n \in 1..L
        BY <1>1, <3>2
      <4> QED
        BY <1>6, <3>2, <4>1
    <3> QED
      BY <3>1, <3>2
  <2> QED
    BY <2>1
<1>8. sum = Sum(sum)
  BY <1>7
<1> HIDE DEF sum
<1>9. sum[0] = 0
  <2>1. 0 \in 0..L
    BY <1>1
  <2> QED
    BY <1>8, <2>1
<1>10. ASSUME NEW n \in 1..L PROVE sum[n] = sum[n - 1] + Freshness(seq[n])
  <2>1. n \in 0..L /\ n # 0
    BY <1>1
  <2> QED
    BY <1>8, <2>1
<1> DEFINE T == {n \in Nat : n <= L => sum[n] \in Nat}
<1>11. 0 \in T
  BY <1>9
<1>12. ASSUME NEW n \in Nat, n \in T PROVE n + 1 \in T
  <2> SUFFICES ASSUME n + 1 <= L PROVE sum[n + 1] \in Nat
    OBVIOUS
  <2>1. n + 1 \in 1..L /\ (n + 1) - 1 = n /\ n <= L
    BY <1>1
  <2>2. sum[n] \in Nat /\ Freshness(seq[n + 1]) \in Nat
    BY <1>2, <1>12, <2>1
  <2>3. sum[n + 1] = sum[n] + Freshness(seq[n + 1])
    BY <1>10, <2>1
  <2> QED
    BY <2>2, <2>3
<1>13. \A n \in Nat : n \in T
  <2> HIDE DEF T
  <2> QED
    BY <1>11, <1>12, NumbersByInduction
<1>14. \A n \in 0..L : sum[n] \in Nat
  BY <1>1, <1>13
<1>15. sum = [n \in 0..L |-> sum[n]]
  BY <1>8
<1>16. sum \in [0..L -> Nat]
  BY <1>14, <1>15
<1>17. Priority(fp) = sum[L]
  BY DEF Priority, sum
<1> QED
  BY <1>9, <1>10, <1>16, <1>17 DEF IsWorth

\* The priority of a relay is zero when none of its results is fresh, and then
\* only.
LEMMA PriorityIsZero ==
  ASSUME ResultsInv, NEW fp \in Fingerprints
  PROVE  /\ Priority(fp) \in Nat
         /\ Priority(fp) = 0 <=> \A i \in 1..Len(stored[fp]) : stored[fp][i] >= Period
<1> DEFINE seq == stored[fp]
           L == Len(seq)
<1>1. seq \in Seq(AllAges)
  BY DEF ResultsInv
<1>2. L \in Nat
  BY <1>1, LenProperties
<1>3. PICK sum : IsWorth(sum, fp)
  BY PriorityValues
<1>4. ASSUME NEW n \in 1..L
      PROVE  /\ Freshness(seq[n]) \in Nat /\ (Freshness(seq[n]) = 0 <=> seq[n] >= Period)
             /\ sum[n] = sum[n - 1] + Freshness(seq[n])
  <2>1. seq[n] \in AllAges
    BY <1>1, <1>4, ElementOfSeq
  <2> QED
    BY <1>3, <2>1, FreshnessOfAge DEF IsWorth
<1>5. \A n \in 0..L : sum[n] \in Nat
  BY <1>3 DEF IsWorth
<1>6. sum[0] = 0 /\ Priority(fp) = sum[L]
  BY <1>3 DEF IsWorth
<1> HIDE DEF L, seq
<1> DEFINE T == {n \in Nat : n <= L => (sum[n] = 0 <=> \A i \in 1..n : seq[i] >= Period)}
<1>7. 0 \in T
  BY <1>6
<1>8. ASSUME NEW n \in Nat, n \in T PROVE n + 1 \in T
  <2> SUFFICES ASSUME n + 1 <= L
               PROVE  sum[n + 1] = 0 <=> \A i \in 1..(n + 1) : seq[i] >= Period
    OBVIOUS
  <2>1. n + 1 \in 1..L /\ (n + 1) - 1 = n /\ n \in 0..L
    BY <1>2
  <2>2. sum[n] = 0 <=> \A i \in 1..n : seq[i] >= Period
    BY <1>8, <2>1
  <2>3. sum[n + 1] = 0 <=> sum[n] = 0 /\ seq[n + 1] >= Period
    BY <1>4, <1>5, <2>1
  <2>4. 1..(n + 1) = 1..n \cup {n + 1}
    OBVIOUS
  <2> QED
    BY <2>2, <2>3, <2>4
<1>9. \A n \in Nat : n \in T
  <2> HIDE DEF T
  <2> QED
    BY <1>7, <1>8, NumbersByInduction
<1>10. sum[L] \in Nat /\ (sum[L] = 0 <=> \A i \in 1..L : seq[i] >= Period)
  BY <1>2, <1>5, <1>9
<1> QED
  BY <1>6, <1>10 DEF L, seq

\* Of the ages of a sequence those that are not old are kept, and no other.
LEMMA AgesNotOld ==
  ASSUME NEW seq \in Seq(AllAges), NEW a \in 0..Period
  PROVE  (\E i \in 1..Len(NotOld(seq, seq)) : NotOld(seq, seq)[i] = a)
           <=> (\E i \in 1..Len(seq) : seq[i] = a)
<1> DEFINE L == Len(seq)
           Has(s) == \E i \in 1..Len(s) : s[i] = a
<1>1. PICK kept : IsKept(kept, AllAges, seq, seq)
  BY KeptValues
<1>2. L \in Nat
  BY LenProperties
<1>3. kept[0] = << >> /\ NotOld(seq, seq) = kept[L]
  BY <1>1 DEF IsKept
<1>4. ASSUME NEW n \in 1..L
      PROVE  /\ kept[n - 1] \in Seq(AllAges) /\ seq[n] \in AllAges
             /\ kept[n] = IF IsOld(seq[n]) THEN kept[n - 1] ELSE Append(kept[n - 1], seq[n])
  <2>1. n - 1 \in 0..L
    BY <1>2
  <2> QED
    BY <1>1, <2>1, ElementOfSeq DEF IsKept
<1>5. ~IsOld(a) /\ Period \in Nat
  BY BoundsAssumption DEF IsOld
<1>6. \A s \in Seq(AllAges), x \in AllAges : Has(Append(s, x)) <=> Has(s) \/ x = a
  <2> SUFFICES ASSUME NEW s \in Seq(AllAges), NEW x \in AllAges
               PROVE  Has(Append(s, x)) <=> Has(s) \/ x = a
    OBVIOUS
  <2>1. /\ Len(s) \in Nat /\ Len(Append(s, x)) = Len(s) + 1
        /\ \A i \in 1..Len(s) : Append(s, x)[i] = s[i]
        /\ Append(s, x)[Len(s) + 1] = x
    BY AppendProperties, LenProperties
  <2> QED
    BY <2>1
<1> HIDE DEF L
<1> DEFINE T == {n \in Nat : n <= L => (Has(kept[n]) <=> \E i \in 1..n : seq[i] = a)}
<1>7. 0 \in T
  <2>1. Len(<< >>) = 0
    OBVIOUS
  <2> QED
    BY <1>3, <2>1
<1>8. ASSUME NEW n \in Nat, n \in T PROVE n + 1 \in T
  <2> SUFFICES ASSUME n + 1 <= L PROVE Has(kept[n + 1]) <=> \E i \in 1..(n + 1) : seq[i] = a
    OBVIOUS
  <2>1. n + 1 \in 1..L /\ (n + 1) - 1 = n /\ n <= L
    BY <1>2
  <2>2. Has(kept[n]) <=> \E i \in 1..n : seq[i] = a
    BY <1>8, <2>1
  <2> HIDE DEF Has
  <2>3. Has(kept[n + 1]) <=> Has(kept[n]) \/ seq[n + 1] = a
    <3>1. kept[n] \in Seq(AllAges) /\ seq[n + 1] \in AllAges
          /\ kept[n + 1] = IF IsOld(seq[n + 1]) THEN kept[n] ELSE Append(kept[n], seq[n + 1])
      BY <1>4, <2>1
    <3>2. CASE IsOld(seq[n + 1])
      BY <1>5, <3>1, <3>2
    <3>3. CASE ~IsOld(seq[n + 1])
      BY <1>6, <3>1, <3>3
    <3> QED
      BY <3>2, <3>3
  <2>4. 1..(n + 1) = 1..n \cup {n + 1}
    OBVIOUS
  <2> QED
    BY <2>2, <2>3, <2>4
<1>9. \A n \in Nat : n \in T
  <2> HIDE DEF T
  <2> QED
    BY <1>7, <1>8, NumbersByInduction
<1>10. Has(kept[L]) <=> \E i \in 1..L : seq[i] = a
  <2> HIDE DEF Has
  <2> QED
    BY <1>2, <1>9
<1> QED
  BY <1>3, <1>10 DEF L
\* The ages of the waited rounds are numbers of an interval, finitely many.
LEMMA WindowFinite ==
  ASSUME NEW d \in 0..1, NEW fp
  PROVE  /\ Window(d, fp) \subseteq 0..Period /\ IsFiniteSet(Window(d, fp))
         /\ \A K : /\ Lost(K, d, fp) \subseteq Window(d, fp) /\ IsFiniteSet(Lost(K, d, fp))
                   /\ Cardinality(Lost(K, d, fp)) \in Nat
<1>1. IsFiniteSet(0..Period)
  BY BoundsAssumption, FS_Interval
<1>2. Window(d, fp) \subseteq 0..Period
  BY DEF Window
<1>3. IsFiniteSet(Window(d, fp))
  BY <1>1, <1>2, FS_Subset
<1>4. \A K : Lost(K, d, fp) \subseteq Window(d, fp)
  BY DEF Lost
<1> QED
  BY <1>2, <1>3, <1>4, FS_Subset, FS_CardinalityType

\* Some K of the elements of a set that has as many, in an order.
LEMMA SomeOf ==
  ASSUME NEW S, IsFiniteSet(S), NEW K \in Nat, K <= Cardinality(S)
  PROVE  \E h \in [1..K -> S] : \A i, j \in 1..K : h[i] = h[j] => i = j
<1> DEFINE N == Cardinality(S)
<1>1. N \in Nat /\ ExistsBijection(1..N, S)
  BY FS_CardinalityType
<1>2. PICK f \in Bijection(1..N, S) : TRUE
  BY <1>1 DEF ExistsBijection
<1>3. f \in [1..N -> S] /\ \A i, j \in 1..N : f[i] = f[j] => i = j
  BY <1>2, Fun_BijectionProperties
<1>4. 1..K \subseteq 1..N
  BY <1>1
<1> DEFINE h == [i \in 1..K |-> f[i]]
<1>5. h \in [1..K -> S] /\ \A i, j \in 1..K : h[i] = h[j] => i = j
  BY <1>3, <1>4
<1> QED
  BY <1>5

\* When each element of a set of numbers has K or more of G, and two that have the
\* same are next to each other, there are no more pairs than twice the elements of G.
LEMMA TwiceEach ==
  ASSUME NEW F, F \subseteq Nat, IsFiniteSet(F), NEW G, IsFiniteSet(G), NEW K \in Nat,
         NEW has \in [F -> SUBSET G],
         \A a \in F : K <= Cardinality(has[a]),
         \A a, b \in F : has[a] \cap has[b] # {} => b <= a + 1
  PROVE  Cardinality(F) * K <= Cardinality(G) * 2
<1>1. \A a \in F : \E h \in [1..K -> has[a]] : \A i, j \in 1..K : h[i] = h[j] => i = j
  <2> SUFFICES ASSUME NEW a \in F
               PROVE  \E h \in [1..K -> has[a]] : \A i, j \in 1..K : h[i] = h[j] => i = j
    OBVIOUS
  <2>1. IsFiniteSet(has[a])
    BY FS_Subset
  <2> QED
    BY <2>1, SomeOf
<1> DEFINE some == [a \in F |-> CHOOSE h \in [1..K -> has[a]] : \A i, j \in 1..K : h[i] = h[j] => i = j]
<1>2. ASSUME NEW a \in F
      PROVE  some[a] \in [1..K -> has[a]] /\ \A i, j \in 1..K : some[a][i] = some[a][j] => i = j
  BY <1>1
<1> HIDE DEF some
<1> DEFINE pair == [x \in F \X (1..K) |-> <<some[x[1]][x[2]], x[1] % 2>>]
<1>3. pair \in [F \X (1..K) -> G \X {0, 1}]
  <2>1. ASSUME NEW a \in F, NEW i \in 1..K PROVE some[a][i] \in G /\ a % 2 \in {0, 1}
    BY <1>2
  <2> QED
    BY <2>1
<1>4. ASSUME NEW a \in F, NEW b \in F, NEW i \in 1..K, NEW j \in 1..K,
             some[a][i] = some[b][j], a % 2 = b % 2
      PROVE  a = b /\ i = j
  <2>1. some[a][i] \in has[a] \cap has[b]
    BY <1>2, <1>4
  <2>2. b <= a + 1 /\ a <= b + 1 /\ a \in Nat /\ b \in Nat
    BY <2>1
  <2>3. a = b
    BY <1>4, <2>2
  <2> QED
    BY <1>2, <1>4, <2>3
<1>5. ASSUME NEW x \in F \X (1..K), NEW y \in F \X (1..K), pair[x] = pair[y] PROVE x = y
  <2> DEFINE a == x[1]
             b == y[1]
             i == x[2]
             j == y[2]
  <2>1. a \in F /\ i \in 1..K /\ b \in F /\ j \in 1..K
    OBVIOUS
  <2>2. some[a][i] = some[b][j] /\ a % 2 = b % 2
    BY <1>5
  <2>3. a = b /\ i = j
    <3> HIDE DEF a, b, i, j
    <3> QED
      BY <1>4, <2>1, <2>2
  <2> QED
    BY <2>3
<1> HIDE DEF pair
<1>6. pair \in Injection(F \X (1..K), G \X {0, 1})
  BY <1>3, <1>5, Fun_IsInj
<1>7. /\ IsFiniteSet(1..K) /\ Cardinality(1..K) = K
      /\ IsFiniteSet({0, 1}) /\ Cardinality({0, 1}) = 2
  <2>1. {0, 1} = {0} \cup {1} /\ 1 \notin {0}
    OBVIOUS
  <2>2. IsFiniteSet({0} \cup {1}) /\ Cardinality({0} \cup {1}) = 1 + 1
    <3>1. IsFiniteSet({0}) /\ Cardinality({0}) = 1
      BY FS_Singleton
    <3> QED
      BY <2>1, <3>1, FS_AddElement
  <2>3. IsFiniteSet(1..K) /\ Cardinality(1..K) = K
    BY FS_Interval
  <2> QED
    BY <2>1, <2>2, <2>3
<1>8. /\ Cardinality(F \X (1..K)) = Cardinality(F) * K
      /\ IsFiniteSet(G \X {0, 1}) /\ Cardinality(G \X {0, 1}) = Cardinality(G) * 2
  BY <1>7, FS_Product
<1>9. Cardinality(F \X (1..K)) <= Cardinality(G \X {0, 1})
  BY <1>6, <1>8, FS_Injection
<1> QED
  BY <1>8, <1>9

-----------------------------------------------------------------------------
\* What a round takes: UpperLimit of its relays, K or more if not all.
AtLeast(K) ==
  \A c \in Consensuses : UpperLimit(Cardinality(c)) < Cardinality(c)
                           => K <= UpperLimit(Cardinality(c))

\* The rounds waited, after Period of them and but for those that the restarts make
\* useless, are enough to measure every other relay twice, and results count for as
\* long. With rounds of one, three relays and Period = 5 it is so of MaxWait = 9 and
\* no restart, with rounds of two also of one restart; with rounds of 400, 8000
\* relays and Period = 60 of MaxWait = 110 and 5 restarts.
WaitIsLong(K) ==
  /\ IsFiniteSet(Fingerprints) /\ K \in Nat /\ MaxWait < 2 * Period
  /\ K * (MaxWait + 1 - Period - 2 * MaxRestarts) > (Cardinality(Fingerprints) - 1) * 2

\* The rounds a relay has waited, and the restarts.
WaitTypes ==
  /\ waited \in [Fingerprints -> 0..MaxWait + 1]
  /\ restarts \in 0..MaxRestarts

\* A relay that waits has no results of the rounds it waits; no result is of a
\* round that has not been.
AgesInv(d) ==
  \A fp \in Fingerprints : \A a \in Ages(fp) : d <= a /\ d + waited[fp] <= a + 1

\* Once a relay has waited for Period rounds the others are measured, K at a
\* time...
LostInv(K, d) ==
  \A fp \in Fingerprints : Cardinality(Lost(K, d, fp)) <= 2 * restarts

\* ...none of them twice, or twice in two rounds, the first of which had not been
\* stored at the second.
TwiceInv(d) ==
  \A fp, g \in Fingerprints : \A a, b \in Ages(g) \cap Window(d, fp) : b <= a + 1

\* The relays that are measured meanwhile are too few for a relay to wait more.
LEMMA NoMoreRounds ==
  ASSUME NEW K, WaitIsLong(K), NEW d \in 0..1, WaitTypes, AgesInv(d), LostInv(K, d), TwiceInv(d)
  PROVE  NoRelayStarves
<1> SUFFICES ASSUME NEW fp \in Fingerprints, waited[fp] > MaxWait PROVE FALSE
  <2>1. \A fp \in Fingerprints : waited[fp] \in 0..MaxWait + 1
    BY DEF WaitTypes
  <2> QED
    BY <2>1, BoundsAssumption DEF NoRelayStarves
<1> DEFINE W == Window(d, fp)
           M == MaxWait + 1 - Period
           F == W \ Lost(K, d, fp)
           G == Fingerprints \ {fp}
           has == [a \in F |-> Holders(a)]
<1>1. waited[fp] = MaxWait + 1 /\ restarts \in Nat /\ restarts <= MaxRestarts
  BY BoundsAssumption DEF WaitTypes
<1>2. Period \in Nat \ {0} /\ MaxWait \in Nat /\ MaxRestarts \in Nat
  BY BoundsAssumption
<1>3. K \in Nat /\ MaxWait < 2 * Period /\ IsFiniteSet(Fingerprints)
  BY DEF WaitIsLong
<1>4. IsFiniteSet(G) /\ Cardinality(G) = Cardinality(Fingerprints) - 1 /\ Cardinality(G) \in Nat
  BY <1>3, FS_RemoveElement, FS_CardinalityType
<1>5. K * (M - 2 * MaxRestarts) > Cardinality(G) * 2
  <2>1. K * (MaxWait + 1 - Period - 2 * MaxRestarts) > (Cardinality(Fingerprints) - 1) * 2
    BY DEF WaitIsLong
  <2>2. K \in Nat /\ M - 2 * MaxRestarts \in Int /\ M - 2 * MaxRestarts = MaxWait + 1 - Period - 2 * MaxRestarts
    BY <1>2, <1>3
  <2> HIDE DEF G, M
  <2> QED
    BY <1>4, <2>1, <2>2
<1>6. M - 2 * MaxRestarts > 0
  <2>1. M - 2 * MaxRestarts \in Int
    BY <1>2
  <2> HIDE DEF M
  <2>2. ASSUME NEW x \in Int, x <= 0 PROVE K * x <= 0
    BY <1>3, <2>2
  <2>3. Cardinality(G) * 2 \in Nat /\ K * (M - 2 * MaxRestarts) \in Int
    BY <1>3, <1>4, <2>1
  <2> HIDE DEF G
  <2>4. ~(K * (M - 2 * MaxRestarts) <= 0)
    BY <1>5, <2>3
  <2>5. ~(M - 2 * MaxRestarts <= 0)
    BY <2>1, <2>2, <2>4
  <2> QED
    BY <2>1, <2>5
<1>7. Cardinality(W) = M
  <2>1. W = d..(d + M - 1)
    BY <1>1, <1>2, <1>3 DEF Window
  <2>2. d \in Int /\ d + M - 1 \in Int
    BY <1>2
  <2>3. ~(d > d + M - 1)
    BY <1>2, <1>6
  <2> HIDE DEF M, W
  <2> QED
    BY <2>1, <2>2, <2>3, FS_Interval, <1>2 DEF M
<1>8. /\ IsFiniteSet(F) /\ F \subseteq Nat
      /\ Cardinality(F) \in Nat /\ Cardinality(F) >= M - 2 * MaxRestarts
  <2>1. W \subseteq 0..Period /\ IsFiniteSet(W) /\ Lost(K, d, fp) \subseteq W
    BY WindowFinite
  <2>2. Cardinality(Lost(K, d, fp)) \in Nat /\ Cardinality(Lost(K, d, fp)) <= 2 * restarts
    BY WindowFinite DEF LostInv
  <2>3. W \cap Lost(K, d, fp) = Lost(K, d, fp)
    BY <2>1
  <2>4. IsFiniteSet(F) /\ Cardinality(F) = M - Cardinality(Lost(K, d, fp))
    <3> HIDE DEF W, M
    <3> QED
      BY <2>1, <2>3, <1>7, FS_Difference
  <2>5. Cardinality(F) \in Nat
    BY <2>4, FS_CardinalityType
  <2>6. F \subseteq Nat
    BY <2>1
  <2> HIDE DEF F, M
  <2>7. M \in Int
    BY <1>2 DEF M
  <2> QED
    BY <1>1, <1>2, <2>2, <2>4, <2>5, <2>6, <2>7
<1>9. has \in [F -> SUBSET G]
  <2>1. ASSUME NEW a \in F, NEW g \in Holders(a) PROVE g \in G
    <3>1. a \in Nat /\ a + Period < d + MaxWait + 1
      <4>1. a \in W
        OBVIOUS
      <4> QED
        BY <1>1, <1>2, <4>1 DEF Window
    <3>2. g \in Fingerprints /\ a \in Ages(g)
      BY DEF Holders
    <3>3. ASSUME g = fp PROVE FALSE
      <4>1. d + waited[fp] <= a + 1
        BY <3>2, <3>3 DEF AgesInv
      <4> QED
        BY <1>1, <1>2, <3>1, <4>1
    <3> QED
      BY <3>2, <3>3
  <2> QED
    BY <2>1
<1>10. ASSUME NEW a \in F PROVE K <= Cardinality(has[a])
  <2>1. Cardinality(Holders(a)) \in Nat
    BY <1>3, FS_Subset, FS_CardinalityType DEF Holders
  <2>2. ~(Cardinality(Holders(a)) < K)
    BY DEF Lost
  <2> QED
    BY <1>3, <2>1, <2>2
<1>11. \A a, b \in F : has[a] \cap has[b] # {} => b <= a + 1
  BY DEF Holders, TwiceInv
<1>12. Cardinality(F) * K <= Cardinality(G) * 2
  <2> HIDE DEF F, G, has
  <2> QED
    BY <1>3, <1>4, <1>8, <1>9, <1>10, <1>11, TwiceEach
<1>13. ASSUME NEW x \in Int, NEW y \in Int, x >= y PROVE x * K >= K * y
  BY <1>3, <1>13
<1>14. Cardinality(F) * K >= K * (M - 2 * MaxRestarts)
  <2>1. M - 2 * MaxRestarts \in Int
    BY <1>2
  <2> HIDE DEF M, F
  <2> QED
    BY <1>8, <1>13, <2>1
<1> QED
  <2>1. M - 2 * MaxRestarts \in Int
    BY <1>2
  <2> HIDE DEF F, M, G
  <2>2. K * (M - 2 * MaxRestarts) \in Int /\ Cardinality(F) * K \in Int /\ Cardinality(G) * 2 \in Int
    BY <1>3, <1>4, <1>8, <2>1
  <2> QED
    BY <1>5, <1>12, <1>14, <2>2

-----------------------------------------------------------------------------
\* The queue. What is left of the round before is in front of what is of this one:
\* were any of it left when all are measured, the queue would be longer than a
\* round is.
QueueInv(d) ==
  /\ d = 1 => targets = {} /\ \A i \in 1..Len(queue) : queue[i].age = 1
  /\ d = 0 => \E p \in 0..Len(queue) :
       /\ \A i \in 1..Len(queue) : queue[i].age = IF i <= p THEN 1 ELSE 0
       /\ p > 0 => Len(queue) + Cardinality(targets) = p + UpperLimit(Cardinality(copies))

\* A relay that has waited for Period rounds has the first priority; one that has
\* it was measured in the last round, before it was known, or Period rounds ago.
RankInv ==
  \A fp \in DOMAIN priority :
    /\ priority[fp] \in Nat
    /\ waited[fp] >= Period => priority[fp] = 0
    /\ priority[fp] = 0 => \A a \in Ages(fp) : a = 1 \/ a = Period

\* The strengthening, for the age of the last round.
WaitInv(K, d) ==
  /\ at = "measure" => d = 0
  /\ at \in {"loop", "copied", "ranking"} => d = 1
  /\ at \in {"copied", "ranking"} => copies \in Consensuses
  /\ QueueInv(d) /\ RankInv /\ AgesInv(d) /\ LostInv(K, d) /\ TwiceInv(d)

WaitsInv(K) == RelaysInv /\ ResultsInv /\ WaitTypes /\ \E d \in 0..1 : WaitInv(K, d)

\* It is kept by a step that changes no age, wait or restart.
LEMMA SameWait ==
  ASSUME NEW K, NEW d \in 0..1, AgesInv(d), LostInv(K, d), TwiceInv(d),
         \A g \in Fingerprints : Ages(g)' = Ages(g), waited' = waited, restarts' = restarts
  PROVE  AgesInv(d)' /\ LostInv(K, d)' /\ TwiceInv(d)'
<1>1. \A fp \in Fingerprints : Window(d, fp)' = Window(d, fp)
  BY DEF Window
<1>2. \A a : Holders(a)' = Holders(a)
  BY DEF Holders
<1>3. \A fp \in Fingerprints : Lost(K, d, fp)' = Lost(K, d, fp)
  BY <1>1, <1>2 DEF Lost
<1>4. AgesInv(d)'
  BY DEF AgesInv
<1>5. LostInv(K, d)'
  BY <1>3 DEF LostInv
<1>6. TwiceInv(d)'
  BY <1>1 DEF TwiceInv
<1> QED
  BY <1>4, <1>5, <1>6

\* The ranks are kept by a step that makes none.
LEMMA SameRank ==
  ASSUME RelaysInv, RankInv, \A g \in Fingerprints : Ages(g)' = Ages(g),
         waited' = waited, priority' = priority
  PROVE  RankInv'
<1>1. DOMAIN priority \subseteq Fingerprints
  BY DEF RelaysInv
<1> QED
  BY <1>1 DEF RankInv

\* A result that is queued is as old as the measurement that has ended.
LEMMA MeasuredAges ==
  ASSUME ResultsInv, NEW fp \in Fingerprints, Measured(fp), NEW g \in Fingerprints
  PROVE  Ages(g)' = Ages(g)
<1>1. /\ queue \in Seq(Queued) /\ fp \in targets /\ targets' = targets \ {fp}
      /\ queue' = Append(queue, [relay |-> fp, age |-> 0]) /\ stored' = stored
  BY DEF Measured, ResultsInv
<1>2. [relay |-> fp, age |-> 0] \in Queued
  BY BoundsAssumption DEF Queued, AllAges
<1>3. /\ Len(queue) \in Nat /\ Len(queue') = Len(queue) + 1
      /\ \A i \in 1..Len(queue) : queue'[i] = queue[i]
      /\ queue'[Len(queue) + 1] = [relay |-> fp, age |-> 0]
  BY <1>1, <1>2, AppendProperties, LenProperties
<1>4. ASSUME NEW a \in 0..Period
      PROVE  (\E i \in 1..Len(queue') : queue'[i] = [relay |-> g, age |-> a])
               <=> (\E i \in 1..Len(queue) : queue[i] = [relay |-> g, age |-> a]) \/ (g = fp /\ a = 0)
  <2>1. [relay |-> fp, age |-> 0] = [relay |-> g, age |-> a] <=> g = fp /\ a = 0
    OBVIOUS
  <2>2. 1..Len(queue') = 1..Len(queue) \cup {Len(queue) + 1}
    BY <1>3
  <2> QED
    BY <1>3, <2>1, <2>2
<1> QED
  BY <1>1, <1>4 DEF Ages

\* A result that is stored is as old as when it was queued, and what is dropped
\* does not count.
LEMMA StoredAges ==
  ASSUME ResultsInv, StoreResult, NEW g \in Fingerprints
  PROVE  Ages(g)' = Ages(g)
<1> DEFINE head == Head(queue)
           fp == head.relay
           ages == NotOld(stored[fp], stored[fp])
<1>1. /\ queue \in Seq(Queued) /\ queue # << >> /\ queue' = Tail(queue) /\ targets' = targets
      /\ stored' = [stored EXCEPT ![fp] = Append(ages, head.age)]
      /\ stored \in [Fingerprints -> Seq(AllAges)]
  BY DEF StoreResult, ResultsInv, roundVars
<1>2. /\ Len(queue) \in Nat /\ Len(queue') = Len(queue) - 1
      /\ \A i \in 1..Len(queue') : queue'[i] = queue[i + 1]
      /\ head = queue[1] /\ Len(queue) >= 1
  BY <1>1, HeadTailProperties, LenProperties, EmptySeq
<1>3. head \in Queued /\ fp \in Fingerprints /\ head.age \in AllAges
  <2>1. head \in Queued
    BY <1>1, HeadTailProperties
  <2> QED
    BY <2>1 DEF Queued
<1>4. ASSUME NEW a \in 0..Period
      PROVE  (\E i \in 1..Len(queue) : queue[i] = [relay |-> g, age |-> a])
               <=> (\E i \in 1..Len(queue') : queue'[i] = [relay |-> g, age |-> a])
                   \/ (g = fp /\ head.age = a)
  <2>1. head = [relay |-> g, age |-> a] <=> g = fp /\ head.age = a
    BY <1>3 DEF Queued
  <2>2. \A i \in 1..Len(queue) : i = 1 \/ (i - 1 \in 1..Len(queue') /\ queue[i] = queue'[i - 1])
    BY <1>2
  <2>3. \A i \in 1..Len(queue') : i + 1 \in 1..Len(queue) /\ queue'[i] = queue[i + 1]
    BY <1>2
  <2>4. 1 \in 1..Len(queue)
    BY <1>2
  <2> HIDE DEF head
  <2> QED
    BY <1>2, <2>1, <2>2, <2>3, <2>4
<1>5. ASSUME NEW a \in 0..Period
      PROVE  (\E i \in 1..Len(stored'[g]) : stored'[g][i] = a)
               <=> (\E i \in 1..Len(stored[g]) : stored[g][i] = a) \/ (g = fp /\ head.age = a)
  <2>1. CASE g # fp
    <3>1. stored'[g] = stored[g]
      BY <1>1, <2>1
    <3> QED
      BY <2>1, <3>1
  <2>2. CASE g = fp
    <3>1. stored'[g] = Append(ages, head.age) /\ stored[fp] \in Seq(AllAges)
      BY <1>1, <1>3, <2>2
    <3>2. ages \in Seq(AllAges)
      BY <3>1, KeptIn
    <3>3. (\E i \in 1..Len(ages) : ages[i] = a) <=> (\E i \in 1..Len(stored[g]) : stored[g][i] = a)
      BY <2>2, <3>1, AgesNotOld
    <3> HIDE DEF ages, fp, head
    <3>4. /\ Len(ages) \in Nat /\ Len(stored'[g]) = Len(ages) + 1
          /\ \A i \in 1..Len(ages) : stored'[g][i] = ages[i]
          /\ stored'[g][Len(ages) + 1] = head.age
      BY <1>3, <3>1, <3>2, AppendProperties, LenProperties
    <3>5. 1..Len(stored'[g]) = 1..Len(ages) \cup {Len(ages) + 1}
      BY <3>4
    <3> QED
      BY <2>2, <3>3, <3>4, <3>5
  <2> QED
    BY <2>1, <2>2
<1> HIDE DEF head, fp, ages
<1> QED
  BY <1>1, <1>4, <1>5 DEF Ages

\* A tick later an age is one more.
LEMMA OlderIs ==
  \A x \in AllAges, a \in 0..Period : Older(x) = a <=> a \in 1..Period /\ x = a - 1
<1>1. Period \in Nat \ {0}
  BY BoundsAssumption
<1> QED
  BY <1>1 DEF AllAges, Older, Min2

\* So are those stored...
LEMMA StoredLater ==
  ASSUME ResultsInv, TimePasses, NEW g \in Fingerprints, NEW a \in 0..Period
  PROVE  (\E i \in 1..Len(stored'[g]) : stored'[g][i] = a)
           <=> (a \in 1..Period /\ \E i \in 1..Len(stored[g]) : stored[g][i] = a - 1)
<1>1. stored'[g] = [i \in DOMAIN stored[g] |-> Older(stored[g][i])]
  BY DEF TimePasses
<1>2. stored[g] \in Seq(AllAges)
  BY DEF ResultsInv
<1>3. Len(stored[g]) \in Nat /\ DOMAIN stored[g] = 1..Len(stored[g])
  BY <1>2, LenProperties
<1>4. Len(stored'[g]) = Len(stored[g])
  BY <1>1, <1>3
<1>5. \A i \in 1..Len(stored[g]) : stored'[g][i] = a <=> a \in 1..Period /\ stored[g][i] = a - 1
  <2> SUFFICES ASSUME NEW i \in 1..Len(stored[g])
               PROVE  stored'[g][i] = a <=> a \in 1..Period /\ stored[g][i] = a - 1
    OBVIOUS
  <2>1. stored[g][i] \in AllAges
    BY <1>2, ElementOfSeq
  <2>2. stored'[g][i] = Older(stored[g][i])
    BY <1>1, <1>3
  <2> QED
    BY <2>1, <2>2, OlderIs
<1> QED
  BY <1>4, <1>5

\* ...and of those queued.
LEMMA EndRoundAges ==
  ASSUME ResultsInv, EndRound, NEW g \in Fingerprints, NEW a \in 0..Period
  PROVE  a \in Ages(g)' <=> a \in 1..Period /\ a - 1 \in Ages(g)
<1>1. /\ queue \in Seq(Queued) /\ queue' = OlderSeq(queue) /\ targets = {} /\ targets' = {} /\ TimePasses
  BY DEF ResultsInv, EndRound, AllMeasured
<1>2. Len(queue) \in Nat /\ DOMAIN queue = 1..Len(queue)
  BY <1>1, LenProperties
<1>3. Len(queue') = Len(queue)
  BY <1>1, <1>2 DEF OlderSeq
<1>4. \A i \in 1..Len(queue) : queue'[i] = [relay |-> g, age |-> a]
                                 <=> a \in 1..Period /\ queue[i] = [relay |-> g, age |-> a - 1]
  <2> SUFFICES ASSUME NEW i \in 1..Len(queue)
               PROVE  queue'[i] = [relay |-> g, age |-> a]
                        <=> a \in 1..Period /\ queue[i] = [relay |-> g, age |-> a - 1]
    OBVIOUS
  <2>1. queue[i] \in Queued
    BY <1>1, ElementOfSeq
  <2>2. queue'[i] = [queue[i] EXCEPT !.age = Older(@)]
    BY <1>1, <1>2 DEF OlderSeq
  <2>3. Older(queue[i].age) = a <=> a \in 1..Period /\ queue[i].age = a - 1
    BY <2>1, OlderIs DEF Queued
  <2>4. queue'[i] = [relay |-> queue[i].relay, age |-> Older(queue[i].age)]
    BY <2>1, <2>2 DEF Queued
  <2>5. queue[i] = [relay |-> g, age |-> a - 1] <=> queue[i].relay = g /\ queue[i].age = a - 1
    BY <2>1 DEF Queued
  <2> QED
    BY <2>3, <2>4, <2>5
<1>5. (\E i \in 1..Len(stored'[g]) : stored'[g][i] = a)
        <=> (a \in 1..Period /\ \E i \in 1..Len(stored[g]) : stored[g][i] = a - 1)
  BY <1>1, StoredLater
<1>6. a \in 1..Period => a - 1 \in 0..Period
  BY BoundsAssumption
<1> QED
  BY <1>1, <1>3, <1>4, <1>5, <1>6 DEF Ages

\* A restart loses those that are not stored, of the last two rounds.
LEMMA RestartAges ==
  ASSUME ResultsInv, Restart, NEW d \in 0..1, QueueInv(d), NEW g \in Fingerprints, NEW a \in 0..Period
  PROVE  /\ a \in Ages(g)' => a \in 1..Period /\ a - 1 \in Ages(g)
         /\ a >= 3 /\ a - 1 \in Ages(g) => a \in Ages(g)'
<1>1. queue' = << >> /\ targets' = {} /\ TimePasses
  BY DEF Restart
<1>2. Len(queue') = 0
  BY <1>1
<1>3. (\E i \in 1..Len(stored'[g]) : stored'[g][i] = a)
        <=> (a \in 1..Period /\ \E i \in 1..Len(stored[g]) : stored[g][i] = a - 1)
  BY <1>1, StoredLater
<1>4. a \in 1..Period => a - 1 \in 0..Period
  BY BoundsAssumption
<1>5. a \in Ages(g)' => a \in 1..Period /\ a - 1 \in Ages(g)
  BY <1>1, <1>2, <1>3, <1>4 DEF Ages
<1>6. ASSUME a >= 3, a - 1 \in Ages(g) PROVE a \in Ages(g)'
  <2>1. ASSUME NEW i \in 1..Len(queue) PROVE queue[i] # [relay |-> g, age |-> a - 1]
    <3>1. queue[i].age \in {0, 1}
      BY DEF QueueInv
    <3> QED
      BY <1>6, <3>1
  <2>2. \E i \in 1..Len(stored[g]) : stored[g][i] = a - 1
    BY <1>6, <2>1 DEF Ages
  <2>3. a \in 1..Period
    BY <1>6
  <2> QED
    BY <1>3, <2>2, <2>3 DEF Ages
<1> QED
  BY <1>5, <1>6

\* The limit of a round is one.
LEMMA UpperLimitType == \A n \in Nat : UpperLimit(n) \in Nat /\ UpperLimit(n) <= n
<1> SUFFICES ASSUME NEW n \in Nat PROVE UpperLimit(n) \in Nat /\ UpperLimit(n) <= n
  OBVIOUS
<1> DEFINE part == (n * Fraction[1]) \div Fraction[2]
<1>1. MinRelays \in Nat /\ Fraction[1] \in Nat /\ Fraction[2] \in Nat \ {0}
  BY OptionsAssumption
<1>2. n * Fraction[1] \in Nat
  BY <1>1
<1>3. part \in Nat
  BY <1>1, <1>2
<1> HIDE DEF part
<1>4. UpperLimit(n) = Min2(n, Max2(part, MinRelays))
  BY DEF UpperLimit, part
<1> QED
  BY <1>1, <1>3, <1>4 DEF Min2, Max2

-----------------------------------------------------------------------------
\* A set of ages is finite.
LEMMA AgesFinite ==
  ASSUME NEW S, S \subseteq 0..Period
  PROVE  IsFiniteSet(S) /\ Cardinality(S) \in Nat
<1>1. IsFiniteSet(0..Period)
  BY BoundsAssumption, FS_Interval
<1> QED
  BY <1>1, FS_Subset, FS_CardinalityType

\* A set of ages has no more than another, two more and those that are one more
\* than its own.
LEMMA LostLater ==
  ASSUME NEW S, S \subseteq Nat, IsFiniteSet(S), NEW S1,
         \A a \in S1 : a \in {1, 2} \/ (a \in Nat /\ a >= 1 /\ a - 1 \in S)
  PROVE  Cardinality(S1) <= Cardinality(S) + 2
<1> DEFINE T == {a + 1 : a \in S}
           next == [a \in S |-> a + 1]
<1>1. IsFiniteSet(T) /\ Cardinality(T) <= Cardinality(S)
  <2>1. next \in Surjection(S, T)
    BY DEF Surjection
  <2> HIDE DEF next, T
  <2> QED
    BY <2>1, FS_Surjection
<1>2. IsFiniteSet({1, 2}) /\ Cardinality({1, 2}) = 2
  <2>1. {1, 2} = {1} \cup {2} /\ 2 \notin {1}
    OBVIOUS
  <2>2. IsFiniteSet({1}) /\ Cardinality({1}) = 1
    BY FS_Singleton
  <2>3. IsFiniteSet({1} \cup {2}) /\ Cardinality({1} \cup {2}) = 1 + 1
    BY <2>1, <2>2, FS_AddElement
  <2> QED
    BY <2>1, <2>3
<1>3. S1 \subseteq {1, 2} \cup T
  <2> SUFFICES ASSUME NEW a \in S1, a \notin {1, 2} PROVE a \in T
    OBVIOUS
  <2>1. a \in Nat /\ a - 1 \in S /\ (a - 1) + 1 = a
    OBVIOUS
  <2> QED
    BY <2>1
<1> HIDE DEF T
<1>4. /\ IsFiniteSet({1, 2} \cup T)
      /\ Cardinality({1, 2} \cup T) = 2 + Cardinality(T) - Cardinality({1, 2} \cap T)
  BY <1>1, <1>2, FS_Union
<1>5. Cardinality({1, 2} \cap T) \in Nat
  BY <1>2, FS_Intersection, FS_CardinalityType
<1>6. Cardinality(S1) <= Cardinality({1, 2} \cup T) /\ Cardinality(S1) \in Nat
  BY <1>3, <1>4, FS_Subset, FS_CardinalityType
<1>7. Cardinality(T) \in Nat /\ Cardinality(S) \in Nat
  BY <1>1, FS_CardinalityType
<1> QED
  BY <1>1, <1>4, <1>5, <1>6, <1>7

\* ...and no more than the other, when all are one more than its own.
LEMMA LostAsLater ==
  ASSUME NEW S, S \subseteq Nat, IsFiniteSet(S), NEW S1,
         \A a \in S1 : a \in Nat /\ a >= 1 /\ a - 1 \in S
  PROVE  Cardinality(S1) <= Cardinality(S)
<1> DEFINE before == [a \in S1 |-> a - 1]
<1>1. before \in [S1 -> S] /\ \A a, b \in S1 : before[a] = before[b] => a = b
  OBVIOUS
<1>2. before \in Injection(S1, S)
  BY <1>1, Fun_IsInj
<1> HIDE DEF before
<1> QED
  BY <1>2, FS_Injection

\* Enough relays have an age when as many had the one before, or one that it has.
LEMMA MoreHolders ==
  ASSUME NEW K \in Nat, IsFiniteSet(Fingerprints), NEW a, NEW b,
         Holders(a) \subseteq Holders(b)', Cardinality(Holders(b)') < K
  PROVE  Cardinality(Holders(a)) < K
<1>1. Holders(b)' \subseteq Fingerprints
  BY DEF Holders
<1>2. IsFiniteSet(Holders(b)')
  BY <1>1, FS_Subset
<1>3. Cardinality(Holders(a)) <= Cardinality(Holders(b)')
  BY <1>2, FS_Subset
<1>4. Cardinality(Holders(a)) \in Nat /\ Cardinality(Holders(b)') \in Nat
  BY <1>2, FS_Subset, FS_CardinalityType
<1> QED
  BY <1>3, <1>4

\* Time passes, at the end of a round or with a restart.
LEMMA LaterAges ==
  ASSUME NEW d \in 0..1, AgesInv(d), TwiceInv(d), WaitTypes, waited' = waited,
         \A g \in Fingerprints : \A a \in 0..Period :
           a \in Ages(g)' => a \in 1..Period /\ a - 1 \in Ages(g)
  PROVE  AgesInv(1)' /\ TwiceInv(1)'
<1>1. ASSUME NEW g \in Fingerprints, NEW a \in Ages(g)'
      PROVE  a \in 1..Period /\ a - 1 \in Ages(g)
  <2>1. a \in 0..Period
    BY DEF Ages
  <2> QED
    BY <2>1
<1>2. \A g \in Fingerprints : waited[g] \in Nat
  BY BoundsAssumption DEF WaitTypes
<1>3. Period \in Nat
  BY BoundsAssumption
<1>4. AgesInv(1)'
  <2> SUFFICES ASSUME NEW g \in Fingerprints, NEW a \in Ages(g)'
               PROVE  1 <= a /\ 1 + waited[g] <= a + 1
    BY DEF AgesInv
  <2>1. a \in 1..Period /\ a - 1 \in Ages(g)
    BY <1>1
  <2>2. d + waited[g] <= (a - 1) + 1
    BY <2>1 DEF AgesInv
  <2> QED
    BY <1>2, <1>3, <2>1, <2>2
<1>5. TwiceInv(1)'
  <2> SUFFICES ASSUME NEW fp \in Fingerprints, NEW g \in Fingerprints,
                      NEW a \in Ages(g)', NEW b \in Ages(g)',
                      a \in Window(1, fp)', b \in Window(1, fp)'
               PROVE  b <= a + 1
    BY DEF TwiceInv
  <2>1. a \in 1..Period /\ b \in 1..Period /\ a - 1 \in Ages(g) /\ b - 1 \in Ages(g)
    BY <1>1
  <2>2. d <= a - 1 /\ d <= b - 1
    BY <2>1 DEF AgesInv
  <2>3. a + Period < 1 + waited[fp] /\ b + Period < 1 + waited[fp]
    BY DEF Window
  <2>4. a - 1 \in Window(d, fp) /\ b - 1 \in Window(d, fp)
    BY <1>2, <1>3, <2>1, <2>2, <2>3 DEF Window
  <2>5. b - 1 <= (a - 1) + 1
    BY <2>1, <2>4 DEF TwiceInv
  <2> QED
    BY <1>3, <2>1, <2>5
<1> QED
  BY <1>4, <1>5

\* At the end of a round what was queued is of this round only.
LEMMA EndRoundWait ==
  ASSUME NEW K, WaitIsLong(K), RelaysInv, ResultsInv, WaitTypes, WaitInv(K, 0), EndRound
  PROVE  WaitInv(K, 1)'
<1> USE DEF WaitInv
<1>1. /\ at' = "loop" /\ targets = {} /\ targets' = {} /\ waited' = waited /\ restarts' = restarts
      /\ queue' = OlderSeq(queue) /\ priority' = priority /\ at = "measure"
      /\ Len(queue) <= UpperLimit(Cardinality(copies))
  BY DEF EndRound, AllMeasured
<1>2. Period \in Nat \ {0} /\ K \in Nat /\ IsFiniteSet(Fingerprints)
  BY BoundsAssumption DEF WaitIsLong
<1>3. QueueInv(1)'
  <2>1. PICK p \in 0..Len(queue) :
          /\ \A i \in 1..Len(queue) : queue[i].age = IF i <= p THEN 1 ELSE 0
          /\ p > 0 => Len(queue) + Cardinality(targets) = p + UpperLimit(Cardinality(copies))
    BY DEF QueueInv
  <2>2. Len(queue) \in Nat /\ DOMAIN queue = 1..Len(queue)
    BY LenProperties DEF ResultsInv
  <2>3. Cardinality(targets) = 0
    BY <1>1, FS_EmptySet
  <2>4. UpperLimit(Cardinality(copies)) \in Nat
    BY UpperLimitType, FS_CardinalityType DEF RelaysInv
  <2>5. p = 0
    BY <1>1, <2>1, <2>2, <2>3, <2>4
  <2>6. Len(queue') = Len(queue)
    BY <1>1, <2>2 DEF OlderSeq
  <2>7. ASSUME NEW i \in 1..Len(queue) PROVE queue'[i].age = 1
    <3>1. queue[i].age = 0 /\ queue[i] \in Queued
      BY <2>1, <2>5, ElementOfSeq DEF ResultsInv
    <3>2. queue'[i] = [queue[i] EXCEPT !.age = Older(@)]
      BY <1>1, <2>2 DEF OlderSeq
    <3>3. Older(0) = 1
      BY <1>2 DEF Older, Min2
    <3> QED
      BY <3>1, <3>2, <3>3 DEF Queued
  <2> QED
    BY <1>1, <2>6, <2>7 DEF QueueInv
<1>4. RankInv'
  <2>1. priority' = << >>
    BY <1>1 DEF RelaysInv
  <2> QED
    BY <2>1 DEF RankInv
<1>5. \A g \in Fingerprints : \A a \in 0..Period :
        a \in Ages(g)' <=> a \in 1..Period /\ a - 1 \in Ages(g)
  BY EndRoundAges
<1>6. AgesInv(1)' /\ TwiceInv(1)'
  BY <1>1, <1>5, LaterAges
<1>7. LostInv(K, 1)'
  <2> SUFFICES ASSUME NEW fp \in Fingerprints
               PROVE  Cardinality(Lost(K, 1, fp)') <= 2 * restarts
    BY <1>1 DEF LostInv
  <2>1. waited[fp] \in Nat
    BY BoundsAssumption DEF WaitTypes
  <2>2. ASSUME NEW a \in Lost(K, 1, fp)' PROVE a \in Nat /\ a >= 1 /\ a - 1 \in Lost(K, 0, fp)
    <3>1. a \in 1..Period /\ a + Period < 1 + waited[fp] /\ Cardinality(Holders(a)') < K
      BY <1>1 DEF Lost, Window
    <3>2. a - 1 \in Window(0, fp)
      BY <1>2, <2>1, <3>1 DEF Window
    <3>3. Holders(a - 1) \subseteq Holders(a)'
      <4>1. a \in 0..Period
        BY <3>1
      <4> QED
        BY <1>5, <3>1, <4>1 DEF Holders
    <3>4. Cardinality(Holders(a - 1)) < K
      BY <1>2, <3>1, <3>3, MoreHolders
    <3> QED
      BY <1>2, <3>1, <3>2, <3>4 DEF Lost
  <2>3. Lost(K, 0, fp) \subseteq Nat /\ IsFiniteSet(Lost(K, 0, fp)) /\ Cardinality(Lost(K, 0, fp)) \in Nat
    <3>1. 0 \in 0..1
      OBVIOUS
    <3> QED
      BY <3>1, WindowFinite
  <2>4. Cardinality(Lost(K, 1, fp)') <= Cardinality(Lost(K, 0, fp))
    BY <2>2, <2>3, LostAsLater
  <2>5. Cardinality(Lost(K, 0, fp)) <= 2 * restarts
    BY DEF LostInv
  <2>6. Cardinality(Lost(K, 1, fp)') \in Nat
    <3>1. Lost(K, 1, fp)' \subseteq 0..Period
      BY <1>2 DEF Lost, Window
    <3> QED
      BY <3>1, AgesFinite
  <2>7. restarts \in Nat
    BY BoundsAssumption DEF WaitTypes
  <2> QED
    BY <2>3, <2>4, <2>5, <2>6, <2>7
<1> QED
  BY <1>1, <1>3, <1>4, <1>6, <1>7

\* A restart makes two rounds useless: the last, which it ends, and the one before,
\* of which results may be queued.
LEMMA RestartWait ==
  ASSUME NEW K, WaitIsLong(K), RelaysInv, ResultsInv, WaitTypes,
         NEW d \in 0..1, WaitInv(K, d), Restart
  PROVE  WaitInv(K, 1)'
<1> USE DEF WaitInv
<1>1. /\ at' = "loop" /\ targets' = {} /\ waited' = waited /\ restarts' = restarts + 1
      /\ queue' = << >> /\ priority' = << >>
  BY DEF Restart
<1>2. Period \in Nat \ {0} /\ K \in Nat /\ IsFiniteSet(Fingerprints)
  BY BoundsAssumption DEF WaitIsLong
<1>3. QueueInv(1)'
  <2>1. Len(queue') = 0
    BY <1>1
  <2> QED
    BY <1>1, <2>1 DEF QueueInv
<1>4. RankInv'
  BY <1>1 DEF RankInv
<1>5. \A g \in Fingerprints : \A a \in 0..Period :
        /\ a \in Ages(g)' => a \in 1..Period /\ a - 1 \in Ages(g)
        /\ a >= 3 /\ a - 1 \in Ages(g) => a \in Ages(g)'
  BY RestartAges
<1>6. AgesInv(1)' /\ TwiceInv(1)'
  BY <1>1, <1>5, LaterAges
<1>7. LostInv(K, 1)'
  <2> SUFFICES ASSUME NEW fp \in Fingerprints
               PROVE  Cardinality(Lost(K, 1, fp)') <= 2 * (restarts + 1)
    BY <1>1 DEF LostInv
  <2>1. waited[fp] \in Nat
    BY BoundsAssumption DEF WaitTypes
  <2>2. ASSUME NEW a \in Lost(K, 1, fp)', a \notin {1, 2}
        PROVE  a \in Nat /\ a >= 1 /\ a - 1 \in Lost(K, d, fp)
    <3>1. a \in 1..Period /\ a + Period < 1 + waited[fp] /\ Cardinality(Holders(a)') < K
      BY <1>1 DEF Lost, Window
    <3>2. a >= 3
      BY <2>2, <3>1
    <3>3. a - 1 \in Window(d, fp)
      BY <1>2, <2>1, <3>1, <3>2 DEF Window
    <3>4. Holders(a - 1) \subseteq Holders(a)'
      <4>1. a \in 0..Period
        BY <3>1
      <4> QED
        BY <1>5, <3>2, <4>1 DEF Holders
    <3>5. Cardinality(Holders(a - 1)) < K
      BY <1>2, <3>1, <3>4, MoreHolders
    <3> QED
      BY <1>2, <3>1, <3>3, <3>5 DEF Lost
  <2>3. Lost(K, d, fp) \subseteq Nat /\ IsFiniteSet(Lost(K, d, fp)) /\ Cardinality(Lost(K, d, fp)) \in Nat
    BY WindowFinite
  <2>4. Cardinality(Lost(K, 1, fp)') <= Cardinality(Lost(K, d, fp)) + 2
    BY <2>2, <2>3, LostLater
  <2>5. Cardinality(Lost(K, d, fp)) <= 2 * restarts
    BY DEF LostInv
  <2>6. Cardinality(Lost(K, 1, fp)') \in Nat
    <3>1. Lost(K, 1, fp)' \subseteq 0..Period
      BY <1>2 DEF Lost, Window
    <3> QED
      BY <3>1, AgesFinite
  <2>7. restarts \in Nat
    BY BoundsAssumption DEF WaitTypes
  <2> QED
    BY <2>3, <2>4, <2>5, <2>6, <2>7
<1> QED
  BY <1>1, <1>3, <1>4, <1>6, <1>7

\* The relays that a round begins with get an age, and those that are not among
\* them wait.
LEMMA BestPriorityAges ==
  ASSUME BestPriority, targets = {}, NEW g \in Fingerprints, NEW a \in 0..Period
  PROVE  a \in Ages(g)' <=> a \in Ages(g) \/ (a = 0 /\ g \in targets')
<1>1. queue' = queue /\ stored' = stored
  BY DEF BestPriority
<1> QED
  BY <1>1 DEF Ages

\* A round begins: of the relays that a relay has to wait for none is measured
\* twice, but for the last round's, and there are K or more.
LEMMA BestPriorityWait ==
  ASSUME NEW K, WaitIsLong(K), AtLeast(K), RelaysInv, ResultsInv, WaitTypes,
         WaitInv(K, 1), BestPriority
  PROVE  WaitInv(K, 0)'
<1> USE DEF WaitInv
<1> DEFINE first == targets'
           n == UpperLimit(Cardinality(copies))
<1>1. /\ at = "ranking" /\ at' = "measure" /\ DOMAIN priority = copies /\ priority' = << >>
      /\ copies' = copies /\ queue' = queue /\ restarts' = restarts /\ first \in FirstRelays
      /\ waited' = [fp \in Fingerprints |->
                      IF fp \in copies \ first THEN Min2(waited[fp] + 1, MaxWait + 1) ELSE 0]
  <2>1. PICK f \in FirstRelays :
          /\ targets' = f
          /\ waited' = [fp \in Fingerprints |->
                          IF fp \in copies \ f THEN Min2(waited[fp] + 1, MaxWait + 1) ELSE 0]
    BY DEF BestPriority
  <2>2. /\ at = "ranking" /\ at' = "measure" /\ DOMAIN priority = copies /\ priority' = << >>
        /\ copies' = copies /\ queue' = queue /\ restarts' = restarts
    BY DEF BestPriority, restartVars
  <2> QED
    BY <2>1, <2>2
<1>2. /\ Period \in Nat \ {0} /\ MaxWait \in Nat /\ MaxWait < 2 * Period
      /\ K \in Nat /\ IsFiniteSet(Fingerprints)
  BY BoundsAssumption DEF WaitIsLong
<1>3. /\ first \subseteq copies /\ Cardinality(first) = n
      /\ \A fp \in first, other \in copies \ first : priority[fp] <= priority[other]
  BY <1>1 DEF FirstRelays
<1>4. targets = {} /\ \A i \in 1..Len(queue) : queue[i].age = 1
  BY DEF QueueInv
<1>5. \A fp \in Fingerprints : waited[fp] \in Nat /\ waited[fp] <= MaxWait
  <2>1. NoRelayStarves
    BY NoMoreRounds
  <2> QED
    BY <2>1, BoundsAssumption DEF WaitTypes, NoRelayStarves
<1>6. \A fp \in Fingerprints :
        waited'[fp] = IF fp \in copies \ first THEN waited[fp] + 1 ELSE 0
  BY <1>1, <1>2, <1>5 DEF Min2
<1>7. copies \subseteq Fingerprints /\ copies \in Consensuses
      /\ Cardinality(copies) \in Nat /\ n \in Nat
  BY <1>1, FS_CardinalityType, UpperLimitType DEF RelaysInv
<1>8. \A g \in Fingerprints : \A a \in 0..Period :
        a \in Ages(g)' <=> a \in Ages(g) \/ (a = 0 /\ g \in first)
  BY <1>4, BestPriorityAges
<1>9. \A g \in Fingerprints : \A a \in Ages(g) : a >= 1 /\ a >= waited[g]
  <2> SUFFICES ASSUME NEW g \in Fingerprints, NEW a \in Ages(g) PROVE a >= 1 /\ a >= waited[g]
    OBVIOUS
  <2>1. 1 <= a /\ 1 + waited[g] <= a + 1
    BY DEF AgesInv
  <2>2. a \in Nat
    BY <1>2 DEF Ages
  <2> QED
    BY <1>5, <2>1, <2>2
<1> HIDE DEF first, n
<1>10. QueueInv(0)'
  <2>1. Len(queue) \in Nat
    BY LenProperties DEF ResultsInv
  <2>2. \A i \in 1..Len(queue) : queue[i].age = IF i <= Len(queue) THEN 1 ELSE 0
    BY <1>4
  <2>3. Len(queue) + Cardinality(targets') = Len(queue) + UpperLimit(Cardinality(copies))
    BY <1>3 DEF first, n
  <2>4. Len(queue) \in 0..Len(queue)
    BY <2>1
  <2>5. \E p \in 0..Len(queue) :
          /\ \A i \in 1..Len(queue) : queue[i].age = IF i <= p THEN 1 ELSE 0
          /\ p > 0 => Len(queue) + Cardinality(targets') = p + UpperLimit(Cardinality(copies))
    BY <2>2, <2>3, <2>4
  <2> QED
    BY <1>1, <2>5 DEF QueueInv
<1>11. RankInv'
  BY <1>1 DEF RankInv
<1>12. AgesInv(0)'
  <2> SUFFICES ASSUME NEW g \in Fingerprints, NEW a \in Ages(g)'
               PROVE  0 <= a /\ 0 + waited'[g] <= a + 1
    BY DEF AgesInv
  <2>1. a \in 0..Period
    BY DEF Ages
  <2>2. CASE a \in Ages(g)
    BY <1>2, <1>5, <1>6, <1>9, <2>1, <2>2
  <2>3. CASE a \notin Ages(g)
    <3>1. g \in first
      BY <1>8, <2>1, <2>3
    <3> QED
      BY <1>2, <1>6, <2>1, <3>1
  <2> QED
    BY <2>2, <2>3
<1>13. ASSUME NEW fp \in Fingerprints, NEW a \in Window(0, fp)'
       PROVE  /\ a \in 0..Period /\ fp \in copies \ first /\ waited[fp] >= Period
              /\ a # 0 => a \in Window(1, fp)
  <2>1. a \in 0..Period /\ a + Period < waited'[fp]
    <3>1. a \in 0..Period /\ a + Period < 0 + waited'[fp]
      BY DEF Window
    <3>2. waited'[fp] \in Nat
      BY <1>5, <1>6
    <3> QED
      BY <3>1, <3>2
  <2>2. fp \in copies \ first /\ a + Period < waited[fp] + 1
    BY <1>2, <1>6, <2>1
  <2> QED
    BY <1>2, <1>5, <2>1, <2>2 DEF Window
<1>14. LostInv(K, 0)'
  <2> SUFFICES ASSUME NEW fp \in Fingerprints
               PROVE  Cardinality(Lost(K, 0, fp)') <= 2 * restarts
    BY <1>1 DEF LostInv
  <2>1. ASSUME NEW a \in Lost(K, 0, fp)' PROVE a \in Lost(K, 1, fp)
    <3>1. a \in Window(0, fp)' /\ Cardinality(Holders(a)') < K
      BY <1>1 DEF Lost
    <3>2. a \in 0..Period /\ fp \in copies \ first /\ (a # 0 => a \in Window(1, fp))
      BY <1>13, <3>1
    <3>3. ASSUME a = 0 PROVE FALSE
      <4>1. first # copies
        BY <3>2
      <4>2. n < Cardinality(copies)
        <5>1. Cardinality(first) <= Cardinality(copies)
              /\ (Cardinality(first) = Cardinality(copies) => first = copies)
          BY <1>3, FS_Subset DEF RelaysInv
        <5> QED
          BY <1>3, <1>7, <4>1, <5>1
      <4>3. K <= n
        BY <1>7, <4>2 DEF AtLeast, n
      <4>4. first \subseteq Holders(0)'
        BY <1>2, <1>3, <1>7, <1>8 DEF Holders
      <4>5. Holders(0)' \subseteq Fingerprints
        BY DEF Holders
      <4>6. IsFiniteSet(Holders(0)')
        BY <1>2, <4>5, FS_Subset
      <4>7. n <= Cardinality(Holders(0)') /\ Cardinality(Holders(0)') \in Nat
        BY <1>3, <4>4, <4>6, FS_Subset, FS_CardinalityType
      <4> QED
        BY <1>2, <1>7, <3>1, <3>3, <4>3, <4>7
    <3>4. Holders(a) \subseteq Holders(a)'
      BY <1>8, <3>2 DEF Holders
    <3>5. Cardinality(Holders(a)) < K
      BY <1>2, <3>1, <3>4, MoreHolders
    <3> QED
      BY <3>2, <3>3, <3>5 DEF Lost
  <2>2. IsFiniteSet(Lost(K, 1, fp)) /\ Cardinality(Lost(K, 1, fp)) \in Nat
    <3>1. 1 \in 0..1
      OBVIOUS
    <3> QED
      BY <3>1, WindowFinite
  <2>3. Lost(K, 0, fp)' \subseteq Lost(K, 1, fp)
    BY <2>1
  <2>4. Cardinality(Lost(K, 0, fp)') <= Cardinality(Lost(K, 1, fp))
    BY <2>2, <2>3, FS_Subset
  <2>5. Cardinality(Lost(K, 1, fp)) <= 2 * restarts
    BY DEF LostInv
  <2>6. Cardinality(Lost(K, 0, fp)') \in Nat
    BY <2>2, <2>3, FS_Subset, FS_CardinalityType
  <2>7. restarts \in Nat
    BY BoundsAssumption DEF WaitTypes
  <2> QED
    BY <2>2, <2>4, <2>5, <2>6, <2>7
<1>15. TwiceInv(0)'
  <2> SUFFICES ASSUME NEW fp \in Fingerprints, NEW g \in Fingerprints,
                      NEW a \in Ages(g)', NEW b \in Ages(g)',
                      a \in Window(0, fp)', b \in Window(0, fp)'
               PROVE  b <= a + 1
    BY DEF TwiceInv
  <2>1. /\ a \in 0..Period /\ b \in 0..Period /\ fp \in copies \ first /\ waited[fp] >= Period
        /\ (a # 0 => a \in Window(1, fp)) /\ (b # 0 => b \in Window(1, fp))
    BY <1>13
  <2>2. CASE a # 0 /\ b # 0
    <3>1. a \in Ages(g) /\ b \in Ages(g)
      BY <1>8, <2>1, <2>2
    <3> QED
      BY <2>1, <2>2, <3>1 DEF TwiceInv
  <2>3. CASE b = 0
    BY <1>2, <2>1, <2>3
  <2>4. CASE a = 0 /\ b # 0
    <3>1. a \notin Ages(g)
      BY <1>9, <2>4
    <3>2. g \in first /\ b \in Ages(g)
      BY <1>8, <2>1, <2>4, <3>1
    <3>3. priority[fp] = 0 /\ priority[g] \in Nat /\ priority[g] <= priority[fp]
      BY <1>1, <1>3, <2>1, <3>2 DEF RankInv
    <3>4. b = 1 \/ b = Period
      BY <1>1, <1>3, <3>2, <3>3 DEF RankInv
    <3>5. b # Period
      <4>1. b + Period < 1 + waited[fp]
        BY <2>1, <2>4 DEF Window
      <4> QED
        BY <1>2, <1>5, <2>1, <4>1
    <3> QED
      BY <2>4, <3>4, <3>5
  <2> QED
    BY <2>2, <2>3, <2>4
<1> QED
  BY <1>1, <1>10, <1>11, <1>12, <1>14, <1>15

\* The rank of a relay that has waited is the first.
LEMMA RankWait ==
  ASSUME RelaysInv, ResultsInv, WaitTypes, NEW K, WaitInv(K, 1), NEW fp \in Fingerprints, Rank(fp)
  PROVE  WaitInv(K, 1)'
<1> USE DEF WaitInv
<1>1. /\ at = "ranking" /\ fp \in copies \ DOMAIN priority
      /\ priority' = [f \in DOMAIN priority \cup {fp} |-> IF f = fp THEN Priority(fp) ELSE priority[f]]
      /\ at' = at /\ copies' = copies /\ targets' = targets /\ waited' = waited
      /\ queue' = queue /\ stored' = stored /\ restarts' = restarts
  BY DEF Rank, restartVars
<1>2. \A g : Ages(g)' = Ages(g)
  BY <1>1 DEF Ages
<1>3. AgesInv(1)' /\ LostInv(K, 1)' /\ TwiceInv(1)'
  <2>1. 1 \in 0..1
    OBVIOUS
  <2> QED
    BY <1>1, <1>2, <2>1, SameWait
<1>4. QueueInv(1)'
  BY <1>1 DEF QueueInv
<1>5. Period \in Nat \ {0} /\ waited[fp] \in Nat
  BY BoundsAssumption DEF WaitTypes
<1>6. ASSUME NEW i \in 1..Len(stored[fp]), stored[fp][i] <= Period
      PROVE  stored[fp][i] \in Nat /\ stored[fp][i] \in Ages(fp)
  <2>1. stored[fp] \in Seq(AllAges)
    BY DEF ResultsInv
  <2>2. stored[fp][i] \in AllAges
    BY <2>1, ElementOfSeq
  <2>3. stored[fp][i] \in 0..Period
    BY <1>5, <1>6, <2>2 DEF AllAges
  <2> QED
    BY <2>3 DEF Ages
<1>7. waited[fp] >= Period => Priority(fp) = 0
  <2> SUFFICES ASSUME waited[fp] >= Period, NEW i \in 1..Len(stored[fp])
               PROVE  stored[fp][i] >= Period
    BY PriorityIsZero
  <2>1. stored[fp][i] \in Int
    <3>1. stored[fp] \in Seq(AllAges)
      BY DEF ResultsInv
    <3> QED
      BY <1>5, <3>1, ElementOfSeq DEF AllAges
  <2>2. CASE stored[fp][i] <= Period
    <3>1. 1 + waited[fp] <= stored[fp][i] + 1
      BY <1>6, <2>2 DEF AgesInv
    <3> QED
      BY <1>5, <2>1, <3>1
  <2>3. CASE ~(stored[fp][i] <= Period)
    BY <1>5, <2>1, <2>3
  <2> QED
    BY <2>2, <2>3
<1>8. ASSUME Priority(fp) = 0, NEW a \in Ages(fp) PROVE a = 1 \/ a = Period
  <2>1. a \in 0..Period /\ targets = {}
    BY <1>1 DEF Ages, QueueInv
  <2>2. ASSUME NEW i \in 1..Len(queue), queue[i] = [relay |-> fp, age |-> a] PROVE a = 1
    <3>1. queue[i].age = 1
      BY DEF QueueInv
    <3> QED
      BY <2>2, <3>1
  <2>3. ASSUME NEW i \in 1..Len(stored[fp]), stored[fp][i] = a PROVE a = Period
    <3>1. a >= Period
      BY <1>8, <2>3, PriorityIsZero
    <3> QED
      BY <1>5, <2>1, <3>1
  <2> QED
    BY <2>1, <2>2, <2>3 DEF Ages
<1>9. RankInv'
  <2> SUFFICES ASSUME NEW f \in DOMAIN priority'
               PROVE  /\ priority'[f] \in Nat
                      /\ waited[f] >= Period => priority'[f] = 0
                      /\ priority'[f] = 0 => \A a \in Ages(f) : a = 1 \/ a = Period
    BY <1>1, <1>2 DEF RankInv
  <2>1. CASE f = fp
    BY <1>1, <1>7, <1>8, <2>1, PriorityIsZero
  <2>2. CASE f # fp
    <3>1. f \in DOMAIN priority /\ priority'[f] = priority[f]
      BY <1>1, <2>2
    <3> QED
      BY <3>1 DEF RankInv
  <2> QED
    BY <2>1, <2>2
<1> QED
  BY <1>1, <1>3, <1>4, <1>9

\* A measurement that ends is one less to wait for, and one more in the queue.
LEMMA MeasuredWait ==
  ASSUME RelaysInv, ResultsInv, NEW K, NEW d \in 0..1, WaitInv(K, d),
         NEW fp \in Fingerprints, Measured(fp)
  PROVE  WaitInv(K, d)'
<1> USE DEF WaitInv
<1>1. /\ fp \in targets /\ targets' = targets \ {fp} /\ queue' = Append(queue, [relay |-> fp, age |-> 0])
      /\ at' = at /\ copies' = copies /\ priority' = priority /\ waited' = waited
      /\ restarts' = restarts
  BY DEF Measured, restartVars
<1>2. \A g \in Fingerprints : Ages(g)' = Ages(g)
  BY MeasuredAges
<1>3. AgesInv(d)' /\ LostInv(K, d)' /\ TwiceInv(d)'
  BY <1>1, <1>2, SameWait
<1>4. RankInv'
  BY <1>1, <1>2, SameRank
<1>5. QueueInv(d)'
  <2>1. d = 0
    BY <1>1 DEF QueueInv
  <2>2. PICK p \in 0..Len(queue) :
          /\ \A i \in 1..Len(queue) : queue[i].age = IF i <= p THEN 1 ELSE 0
          /\ p > 0 => Len(queue) + Cardinality(targets) = p + UpperLimit(Cardinality(copies))
    BY <2>1 DEF QueueInv
  <2>3. queue \in Seq(Queued) /\ [relay |-> fp, age |-> 0] \in Queued
    BY BoundsAssumption DEF ResultsInv, Queued, AllAges
  <2>4. /\ Len(queue) \in Nat /\ Len(queue') = Len(queue) + 1
        /\ \A i \in 1..Len(queue) : queue'[i] = queue[i]
        /\ queue'[Len(queue) + 1] = [relay |-> fp, age |-> 0]
    BY <1>1, <2>3, AppendProperties, LenProperties
  <2>5. IsFiniteSet(targets)
    BY FS_Subset DEF RelaysInv
  <2>6. Cardinality(targets) \in Nat /\ Cardinality(targets') = Cardinality(targets) - 1
    BY <1>1, <2>5, FS_RemoveElement, FS_CardinalityType
  <2>7. \A i \in 1..Len(queue') : queue'[i].age = IF i <= p THEN 1 ELSE 0
    <3> SUFFICES ASSUME NEW i \in 1..Len(queue') PROVE queue'[i].age = IF i <= p THEN 1 ELSE 0
      OBVIOUS
    <3>1. CASE i \in 1..Len(queue)
      BY <2>2, <2>4, <3>1
    <3>2. CASE i = Len(queue) + 1
      <4>1. ~(i <= p) /\ queue'[i] = [relay |-> fp, age |-> 0]
        BY <2>4, <3>2
      <4> QED
        BY <4>1
    <3> QED
      BY <2>4, <3>1, <3>2
  <2>8. p > 0 => Len(queue') + Cardinality(targets') = p + UpperLimit(Cardinality(copies))
    BY <2>2, <2>4, <2>6
  <2>9. p \in 0..Len(queue')
    BY <2>4
  <2>10. \E q \in 0..Len(queue') :
           /\ \A i \in 1..Len(queue') : queue'[i].age = IF i <= q THEN 1 ELSE 0
           /\ q > 0 => Len(queue') + Cardinality(targets') = q + UpperLimit(Cardinality(copies))
    BY <2>7, <2>8, <2>9
  <2> QED
    BY <1>1, <2>1, <2>10 DEF QueueInv
<1> QED
  BY <1>1, <1>3, <1>4, <1>5

\* The results of the round before are stored before those of this one.
LEMMA StoreResultWait ==
  ASSUME RelaysInv, ResultsInv, NEW K, NEW d \in 0..1, WaitInv(K, d), StoreResult
  PROVE  WaitInv(K, d)'
<1> USE DEF WaitInv
<1>1. /\ queue # << >> /\ queue' = Tail(queue) /\ targets' = targets
      /\ at' = at /\ copies' = copies /\ priority' = priority /\ waited' = waited
      /\ restarts' = restarts
  BY DEF StoreResult, restartVars, roundVars
<1>2. \A g \in Fingerprints : Ages(g)' = Ages(g)
  BY StoredAges
<1>3. AgesInv(d)' /\ LostInv(K, d)' /\ TwiceInv(d)'
  BY <1>1, <1>2, SameWait
<1>4. RankInv'
  BY <1>1, <1>2, SameRank
<1>5. /\ Len(queue) \in Nat /\ Len(queue') = Len(queue) - 1 /\ Len(queue) >= 1
      /\ \A i \in 1..Len(queue') : queue'[i] = queue[i + 1]
  <2>1. queue \in Seq(Queued)
    BY DEF ResultsInv
  <2> QED
    BY <1>1, <2>1, HeadTailProperties, LenProperties, EmptySeq
<1>6. d = 1 => targets' = {} /\ \A i \in 1..Len(queue') : queue'[i].age = 1
  <2> SUFFICES ASSUME d = 1 PROVE targets' = {} /\ \A i \in 1..Len(queue') : queue'[i].age = 1
    OBVIOUS
  <2>1. \A i \in 1..Len(queue') : i + 1 \in 1..Len(queue)
    BY <1>5
  <2> QED
    BY <1>1, <1>5, <2>1 DEF QueueInv
<1>7. ASSUME d = 0
      PROVE  \E q \in 0..Len(queue') :
               /\ \A i \in 1..Len(queue') : queue'[i].age = IF i <= q THEN 1 ELSE 0
               /\ q > 0 => Len(queue') + Cardinality(targets') = q + UpperLimit(Cardinality(copies'))
  <2>1. PICK p \in 0..Len(queue) :
          /\ \A i \in 1..Len(queue) : queue[i].age = IF i <= p THEN 1 ELSE 0
          /\ p > 0 => Len(queue) + Cardinality(targets) = p + UpperLimit(Cardinality(copies))
    BY <1>7 DEF QueueInv
  <2>2. Cardinality(targets) \in Nat /\ UpperLimit(Cardinality(copies)) \in Nat
    BY FS_Subset, FS_CardinalityType, UpperLimitType DEF RelaysInv
  <2> DEFINE q == IF p = 0 THEN 0 ELSE p - 1
  <2>3. q \in 0..Len(queue')
    BY <1>5
  <2>4. ASSUME NEW i \in 1..Len(queue') PROVE queue'[i].age = IF i <= q THEN 1 ELSE 0
    <3>1. i + 1 \in 1..Len(queue) /\ queue'[i] = queue[i + 1]
      BY <1>5
    <3>2. i + 1 <= p <=> i <= q
      BY <1>5
    <3> HIDE DEF q
    <3> QED
      BY <2>1, <3>1, <3>2
  <2>5. q > 0 => Len(queue') + Cardinality(targets') = q + UpperLimit(Cardinality(copies'))
    BY <1>1, <1>5, <2>1, <2>2
  <2> HIDE DEF q
  <2> QED
    BY <2>3, <2>4, <2>5
<1>8. QueueInv(d)'
  BY <1>6, <1>7 DEF QueueInv
<1> QED
  BY <1>1, <1>3, <1>4, <1>8

\* The other steps change no result.
LEMMA OtherWait ==
  ASSUME RelaysInv, NEW K, NEW d \in 0..1, WaitInv(K, d),
         CopyRelays \/ WithoutAuthorities \/ Refresh \/ UNCHANGED vars
  PROVE  WaitInv(K, d)'
<1> USE DEF WaitInv
<1>1. /\ queue' = queue /\ stored' = stored /\ targets' = targets /\ priority' = priority
      /\ waited' = waited /\ restarts' = restarts
  BY DEF CopyRelays, WithoutAuthorities, Refresh, vars, roundVars, restartVars
<1>2. \A g \in Fingerprints : Ages(g)' = Ages(g)
  BY <1>1 DEF Ages
<1>3. AgesInv(d)' /\ LostInv(K, d)' /\ TwiceInv(d)'
  BY <1>1, <1>2, SameWait
<1>4. RankInv'
  BY <1>1, <1>2, SameRank
<1>5. CASE CopyRelays
  <2>1. at = "loop" /\ at' = "copied" /\ copies' = list /\ d = 1
    BY <1>5 DEF CopyRelays
  <2>2. QueueInv(d)'
    BY <1>1, <2>1 DEF QueueInv
  <2> QED
    BY <1>3, <1>4, <2>1, <2>2 DEF RelaysInv
<1>6. CASE WithoutAuthorities
  <2>1. at = "copied" /\ at' = "ranking" /\ copies' = copies /\ d = 1
    BY <1>6, NothingSubtracted DEF WithoutAuthorities
  <2>2. QueueInv(d)'
    BY <1>1, <2>1 DEF QueueInv
  <2> QED
    BY <1>3, <1>4, <2>1, <2>2
<1>7. CASE Refresh \/ UNCHANGED vars
  <2>1. copies' = copies /\ (at' = at \/ at' = "ended")
    BY <1>7 DEF Refresh, vars, roundVars
  <2>2. QueueInv(d)'
    BY <1>1, <2>1 DEF QueueInv
  <2> QED
    BY <1>3, <1>4, <2>1, <2>2
<1> QED
  BY <1>5, <1>6, <1>7

\* The waits and the restarts are counted up to their bounds.
LEMMA NextWaitTypes == WaitTypes /\ [Next]_vars => WaitTypes'
<1> SUFFICES ASSUME WaitTypes, [Next]_vars PROVE WaitTypes'
  OBVIOUS
<1>1. MaxWait \in Nat /\ MaxRestarts \in Nat
  BY BoundsAssumption
<1>2. CASE BestPriority
  <2>1. PICK first \in FirstRelays :
          waited' = [fp \in Fingerprints |->
                       IF fp \in copies \ first THEN Min2(waited[fp] + 1, MaxWait + 1) ELSE 0]
    BY <1>2 DEF BestPriority
  <2>2. \A fp \in Fingerprints : Min2(waited[fp] + 1, MaxWait + 1) \in 0..MaxWait + 1
    BY <1>1 DEF WaitTypes, Min2
  <2>3. restarts' = restarts
    BY <1>2 DEF BestPriority, restartVars
  <2> QED
    BY <1>1, <2>1, <2>2, <2>3 DEF WaitTypes
<1>3. CASE Restart
  BY <1>1, <1>3 DEF Restart, WaitTypes
<1>4. CASE UNCHANGED <<waited, restarts>>
  BY <1>4 DEF WaitTypes
<1>5. ASSUME CopyRelays \/ WithoutAuthorities \/ EndRound \/ StoreResult \/ Refresh
             \/ UNCHANGED vars
      PROVE  UNCHANGED <<waited, restarts>>
  BY <1>5 DEF CopyRelays, WithoutAuthorities, EndRound, StoreResult, Refresh, vars, roundVars,
              restartVars
<1>6. ASSUME NEW fp \in Fingerprints, Rank(fp) \/ Measured(fp) PROVE UNCHANGED <<waited, restarts>>
  BY <1>6 DEF Rank, Measured, restartVars
<1> QED
  BY <1>2, <1>3, <1>4, <1>5, <1>6 DEF Next

\* At first nothing has been measured and no relay has waited.
LEMMA InitWaits == ASSUME NEW K PROVE Init => WaitsInv(K)
<1> SUFFICES ASSUME Init PROVE WaitsInv(K)
  OBVIOUS
<1>1. RelaysInv
  BY FS_EmptySet DEF Init, RelaysInv
<1>2. ResultsInv
  BY InitResults
<1>3. Period \in Nat \ {0} /\ MaxWait \in Nat /\ MaxRestarts \in Nat
  BY BoundsAssumption
<1>4. WaitTypes
  BY <1>3 DEF Init, WaitTypes
<1>5. /\ at = "loop" /\ targets = {} /\ priority = << >> /\ queue = << >>
      /\ stored = [fp \in Fingerprints |-> << >>] /\ waited = [fp \in Fingerprints |-> 0]
      /\ restarts = 0
  BY DEF Init
<1>6. \A fp \in Fingerprints : Ages(fp) = {} /\ Window(1, fp) = {}
  <2>1. Len(<< >>) = 0
    OBVIOUS
  <2> QED
    BY <1>3, <1>5, <2>1 DEF Ages, Window
<1>7. \A fp \in Fingerprints : Lost(K, 1, fp) = {}
  BY <1>6 DEF Lost
<1>8. QueueInv(1)
  BY <1>5 DEF QueueInv
<1>9. LostInv(K, 1)
  <2>1. Cardinality({}) = 0 /\ 2 * restarts = 0
    BY <1>5, FS_EmptySet
  <2> QED
    BY <1>7, <2>1 DEF LostInv
<1>10. RankInv /\ AgesInv(1) /\ TwiceInv(1)
  BY <1>5, <1>6 DEF RankInv, AgesInv, TwiceInv
<1>11. WaitInv(K, 1)
  BY <1>5, <1>8, <1>9, <1>10 DEF WaitInv
<1> QED
  BY <1>1, <1>2, <1>4, <1>11 DEF WaitsInv

\* Every step keeps it.
LEMMA NextWaits ==
  ASSUME NEW K, WaitIsLong(K), AtLeast(K)
  PROVE  WaitsInv(K) /\ [Next]_vars => WaitsInv(K)'
<1> SUFFICES ASSUME WaitsInv(K), [Next]_vars PROVE WaitsInv(K)'
  OBVIOUS
<1>1. RelaysInv /\ ResultsInv /\ WaitTypes
  BY DEF WaitsInv
<1>2. RelaysInv' /\ ResultsInv' /\ WaitTypes'
  BY <1>1, NextRelays, NextResults, NextWaitTypes
<1>3. PICK d \in 0..1 : WaitInv(K, d)
  BY DEF WaitsInv
<1>4. \A e \in 0..1 : WaitInv(K, e)' => WaitsInv(K)'
  BY <1>2 DEF WaitsInv
<1>5. /\ at = "measure" => d = 0
      /\ at \in {"loop", "copied", "ranking"} => d = 1
  BY <1>3 DEF WaitInv
<1>6. 0 \in 0..1 /\ 1 \in 0..1
  OBVIOUS
<1>7. CASE BestPriority
  <2>1. d = 1
    BY <1>5, <1>7 DEF BestPriority
  <2>2. WaitInv(K, 0)'
    BY <1>1, <1>3, <1>7, <2>1, BestPriorityWait
  <2> QED
    BY <1>4, <1>6, <2>2
<1>8. CASE EndRound
  <2>1. d = 0
    BY <1>5, <1>8 DEF EndRound
  <2>2. WaitInv(K, 1)'
    BY <1>1, <1>3, <1>8, <2>1, EndRoundWait
  <2> QED
    BY <1>4, <1>6, <2>2
<1>9. CASE Restart
  <2>1. WaitInv(K, 1)'
    BY <1>1, <1>3, <1>9, RestartWait
  <2> QED
    BY <1>4, <1>6, <2>1
<1>10. ASSUME NEW fp \in Fingerprints, Rank(fp) PROVE WaitsInv(K)'
  <2>1. d = 1
    BY <1>5, <1>10 DEF Rank
  <2>2. WaitInv(K, 1)'
    BY <1>1, <1>3, <1>10, <2>1, RankWait
  <2> QED
    BY <1>4, <1>6, <2>2
<1>11. ASSUME NEW fp \in Fingerprints, Measured(fp) PROVE WaitsInv(K)'
  <2>1. WaitInv(K, d)'
    BY <1>1, <1>3, <1>11, MeasuredWait
  <2> QED
    BY <1>4, <2>1
<1>12. CASE StoreResult
  <2>1. WaitInv(K, d)'
    BY <1>1, <1>3, <1>12, StoreResultWait
  <2> QED
    BY <1>4, <2>1
<1>13. CASE CopyRelays \/ WithoutAuthorities \/ Refresh \/ UNCHANGED vars
  <2>1. WaitInv(K, d)'
    BY <1>1, <1>3, <1>13, OtherWait
  <2> QED
    BY <1>4, <2>1
<1> QED
  BY <1>7, <1>8, <1>9, <1>10, <1>11, <1>12, <1>13 DEF Next

\* A relay that stays in the list is measured again, however the rounds, the
\* storing, the refreshes and the restarts interleave, within rounds enough to
\* measure every other relay twice, after the Period rounds of which results count
\* (relayprioritizer.py, best_priority).
THEOREM NoRelayStarvesHolds ==
  ASSUME NEW K, WaitIsLong(K), AtLeast(K)
  PROVE  Spec => []NoRelayStarves
<1>1. Init => WaitsInv(K)
  BY InitWaits
<1>2. WaitsInv(K) /\ [Next]_vars => WaitsInv(K)'
  BY NextWaits
<1>3. WaitsInv(K) => NoRelayStarves
  <2> SUFFICES ASSUME WaitsInv(K) PROVE NoRelayStarves
    OBVIOUS
  <2>1. PICK d \in 0..1 : WaitInv(K, d)
    BY DEF WaitsInv
  <2> QED
    BY <2>1, NoMoreRounds DEF WaitsInv, WaitInv
<1> QED
  BY <1>1, <1>2, <1>3, PTL DEF Spec

=============================================================================
