--------------------------- MODULE RelayListProofs ---------------------------
(***************************************************************************)
(* Theorems about RelayList, for any number of threads, relays and         *)
(* consensuses, any period and any length of the deques.                   *)
(***************************************************************************)
EXTENDS RelayList, NaturalsInduction, WellFoundedInduction, FiniteSetTheorems,
        SequenceTheorems, TLAPS

-----------------------------------------------------------------------------
(***************************************************************************)
(* Induction on sets of numbers, for what is computed of a sequence. The   *)
(* theorems of the library on induction are about an operator; these are   *)
(* about a set, that a proof defines.                                      *)
(***************************************************************************)
\* The order of the numbers, as a relation.
LessThan == {p \in Nat \X Nat : p[1] < p[2]}

\* A set of numbers that is not empty has a least one.
LEMMA LeastNumber ==
  ASSUME NEW T \in SUBSET Nat, T # {}
  PROVE  \E x \in T : \A y \in T : x <= y
<1>1. IsWellFoundedOn(LessThan, Nat)
  <2>1. IsWellFoundedOn(OpToRel(<, Nat), Nat)
    BY NatLessThanWellFounded, Zenon
  <2>2. OpToRel(<, Nat) = LessThan
    BY Zenon DEF OpToRel, LessThan
  <2> QED
    BY <2>1, <2>2, Zenon
<1>2. PICK x \in T : \A y \in T : ~(<<y, x>> \in LessThan)
  BY <1>1, WFMin
<1>3. ASSUME NEW y \in T PROVE x <= y
  <2>1. x \in Nat /\ y \in Nat /\ <<y, x>> \in Nat \X Nat
    OBVIOUS
  <2>2. ~(y < x)
    BY <1>2, <2>1 DEF LessThan
  <2> QED
    BY <2>1, <2>2
<1> QED
  BY <1>3

\* A set that has 0, and n + 1 when it has n, has every number.
LEMMA NumbersByInduction ==
  ASSUME NEW T, 0 \in T, \A n \in Nat : n \in T => n + 1 \in T
  PROVE  \A n \in Nat : n \in T
<1> SUFFICES ASSUME Nat \ T # {} PROVE FALSE
  OBVIOUS
<1>1. PICK x \in Nat \ T : \A y \in Nat \ T : x <= y
  BY LeastNumber
<1>2. x # 0 /\ x \in Nat
  OBVIOUS
<1>3. x - 1 \in Nat /\ x - 1 < x /\ x = (x - 1) + 1
  BY <1>2
<1>4. x - 1 \in T
  BY <1>1, <1>3
<1> QED
  BY <1>3, <1>4

-----------------------------------------------------------------------------
(***************************************************************************)
(* The sequences of timestamps.                                            *)
(***************************************************************************)
Ages == 0..Period + 1

\* The oldest first.
Ordered(seq) == \A i, j \in DOMAIN seq : i < j => seq[j] <= seq[i]

\* What a DateTimeSeq holds when it has been updated.
Times(seq) == seq \in Seq(Ages) /\ Len(seq) \in 1..MaxCount /\ Ordered(seq)

\* Where the items that are not old begin.
LEMMA FirstNotOld ==
  ASSUME NEW seq \in Seq(Ages), Ordered(seq)
  PROVE  \E k \in 1..Len(seq) + 1 :
           /\ \A i \in 1..k - 1 : IsOld(seq[i])
           /\ \A i \in k..Len(seq) : ~IsOld(seq[i])
<1> DEFINE T == {i \in 1..Len(seq) + 1 : i = Len(seq) + 1 \/ ~IsOld(seq[i])}
<1>1. Len(seq) \in Nat /\ DOMAIN seq = 1..Len(seq) /\ \A i \in 1..Len(seq) : seq[i] \in Ages
  BY ElementOfSeq, LenProperties
<1>2. T \in SUBSET Nat /\ Len(seq) + 1 \in T
  BY <1>1
<1>3. PICK k \in T : \A j \in T : k <= j
  BY <1>2, LeastNumber
<1>4. ASSUME NEW i \in 1..k - 1 PROVE IsOld(seq[i])
  <2>1. i \in 1..Len(seq) /\ i < k /\ i \in Nat /\ k \in Nat
    BY <1>1, <1>3
  <2>2. i \notin T
    BY <1>3, <2>1
  <2> QED
    BY <1>1, <2>1, <2>2
<1>5. ASSUME NEW i \in k..Len(seq) PROVE ~IsOld(seq[i])
  <2>1. k \in 1..Len(seq) /\ i \in 1..Len(seq) /\ k <= i /\ ~IsOld(seq[k])
    BY <1>1, <1>3
  <2>2. seq[k] \in Nat /\ seq[i] \in Nat /\ seq[i] <= seq[k] /\ Period \in Nat
    BY <1>1, <2>1, TimeAssumption DEF Ordered, Ages
  <2>3. seq[k] <= Period
    BY <2>1, <2>2 DEF IsOld
  <2>4. seq[i] <= Period
    BY <2>2, <2>3
  <2> QED
    BY <2>2, <2>4 DEF IsOld
<1> QED
  BY <1>3, <1>4, <1>5

\* _remove_old keeps an end of the sequence: the old items are the first ones.
LEMMA NotOldIsAnEnd ==
  ASSUME NEW seq \in Seq(Ages), Ordered(seq),
         NEW k \in 1..Len(seq) + 1,
         \A i \in 1..k - 1 : IsOld(seq[i]), \A i \in k..Len(seq) : ~IsOld(seq[i])
  PROVE  NotOld(seq) = SubSeq(seq, k, Len(seq))
<1> DEFINE L == Len(seq)
           Kept(f) == [n \in 0..L |->
                         IF n = 0 THEN << >>
                         ELSE IF IsOld(seq[n]) THEN f[n - 1] ELSE Append(f[n - 1], seq[n])]
           kept == CHOOSE f : f = Kept(f)
           g == [n \in 0..L |-> SubSeq(seq, k, n)]
<1>1. L \in Nat /\ (\A i \in 1..L : seq[i] \in Ages) /\ k \in Nat \ {0} /\ k <= L + 1
  BY ElementOfSeq, LenProperties
<1>2. ASSUME NEW n \in 1..L
      PROVE  SubSeq(seq, k, n) = IF IsOld(seq[n]) THEN SubSeq(seq, k, n - 1)
                                 ELSE Append(SubSeq(seq, k, n - 1), seq[n])
  <2>1. CASE n < k
    <3>1. IsOld(seq[n])
      BY <1>1, <2>1
    <3>2. SubSeq(seq, k, n) = << >> /\ SubSeq(seq, k, n - 1) = << >>
      BY <1>1, <2>1, SubSeqEmpty
    <3> QED
      BY <3>1, <3>2
  <2>2. CASE n >= k
    <3>1. ~IsOld(seq[n])
      BY <1>1, <2>2
    <3>2. k \in 1..L /\ n \in k..L
      BY <1>1, <2>2
    <3>3. SubSeq(seq, k, n) = SubSeq(seq, k, n - 1) \o << seq[n] >>
      BY <3>2, SubSeqRecursiveSecond
    <3>4. SubSeq(seq, k, n - 1) \in Seq(Ages)
      <4>1. \A i \in k..n - 1 : seq[i] \in Ages
        BY <1>1
      <4>2. k \in Int /\ n - 1 \in Int
        BY <1>1
      <4> QED
        BY <4>1, <4>2, SubSeqProperties
    <3>5. Append(SubSeq(seq, k, n - 1), seq[n]) = SubSeq(seq, k, n - 1) \o << seq[n] >>
      BY <1>1, <3>4, AppendIsConcat
    <3> QED
      BY <3>1, <3>3, <3>5
  <2> QED
    BY <1>1, <2>1, <2>2
<1>3. SubSeq(seq, k, 0) = << >>
  BY <1>1, SubSeqEmpty
<1>4. g = Kept(g)
  <2>1. ASSUME NEW n \in 0..L PROVE g[n] = Kept(g)[n]
    <3>1. CASE n = 0
      BY <1>1, <1>3, <3>1
    <3>2. CASE n # 0
      <4>1. n \in 1..L /\ n - 1 \in 0..L
        BY <1>1, <3>2
      <4>2. g[n - 1] = SubSeq(seq, k, n - 1) /\ g[n] = SubSeq(seq, k, n)
        BY <4>1
      <4> QED
        BY <1>2, <3>2, <4>1, <4>2
    <3> QED
      BY <3>1, <3>2
  <2> QED
    BY <2>1
<1>5. kept = Kept(kept)
  BY <1>4
<1> HIDE DEF kept
<1>6. \A n \in 0..L : kept[n] = IF n = 0 THEN << >>
                                ELSE IF IsOld(seq[n]) THEN kept[n - 1]
                                ELSE Append(kept[n - 1], seq[n])
  BY <1>5
<1> DEFINE T == {n \in Nat : n <= L => kept[n] = SubSeq(seq, k, n)}
<1>7. 0 \in T
  <2>1. 0 \in 0..L
    BY <1>1
  <2>2. kept[0] = << >>
    BY <1>6, <2>1
  <2> QED
    BY <1>3, <2>2
<1>8. ASSUME NEW n \in Nat, n \in T PROVE n + 1 \in T
  <2> SUFFICES ASSUME n + 1 <= L PROVE kept[n + 1] = SubSeq(seq, k, n + 1)
    OBVIOUS
  <2>1. n + 1 \in 1..L /\ n <= L /\ (n + 1) - 1 = n /\ n + 1 # 0 /\ n + 1 \in 0..L
    BY <1>1
  <2>2. kept[n] = SubSeq(seq, k, n)
    BY <1>8, <2>1
  <2> QED
    BY <1>2, <1>6, <2>1, <2>2
<1>9. \A n \in Nat : n \in T
  <2> HIDE DEF T
  <2> QED
    BY <1>7, <1>8, NumbersByInduction
<1>10. kept[L] = SubSeq(seq, k, L)
  BY <1>1, <1>9
<1> QED
  BY <1>10 DEF NotOld, kept

\* update: what is left is an end of the sequence, then the item; the others
\* were old, or there was no room for one.
LEMMA UpdatedItems ==
  ASSUME NEW seq, Times(seq), NEW item \in Ages, \A i \in 1..Len(seq) : item <= seq[i]
  PROVE  /\ Times(Updated(seq, item))
         /\ Last(Updated(seq, item)) = item
         /\ \E q \in 0..Len(seq) :
              /\ Len(Updated(seq, item)) = q + 1
              /\ \A i \in 1..q : Updated(seq, item)[i] = seq[Len(seq) - q + i]
              /\ \A i \in 1..Len(seq) - q : IsOld(seq[i]) \/ q = MaxCount - 1
<1> DEFINE L == Len(seq)
           U == Updated(seq, item)
<1>1. /\ seq \in Seq(Ages) /\ Ordered(seq) /\ L \in 1..MaxCount /\ L \in Nat \ {0}
      /\ DOMAIN seq = 1..L /\ (\A i \in 1..L : seq[i] \in Ages) /\ MaxCount \in Nat \ {0}
  BY ElementOfSeq, LenProperties, TimeAssumption DEF Times
<1>2. PICK k \in 1..L + 1 :
        /\ \A i \in 1..k - 1 : IsOld(seq[i])
        /\ \A i \in k..L : ~IsOld(seq[i])
  BY <1>1, FirstNotOld
<1> DEFINE rest == SubSeq(seq, k, L)
           all  == Append(rest, item)
<1>3. k \in Nat \ {0} /\ k <= L + 1 /\ L - k + 1 \in 0..L
  BY <1>1
<1>4. rest \in Seq(Ages) /\ Len(rest) = L - k + 1 /\ \A i \in 1..L - k + 1 : rest[i] = seq[k + i - 1]
  <2>1. /\ rest \in Seq(Ages)
        /\ Len(rest) = IF k <= L THEN L - k + 1 ELSE 0
        /\ \A i \in 1..L - k + 1 : rest[i] = seq[k + i - 1]
    <3>1. \A i \in k..L : seq[i] \in Ages
      BY <1>1, <1>3
    <3> QED
      BY <1>1, <1>3, <3>1, SubSeqProperties
  <2>2. (IF k <= L THEN L - k + 1 ELSE 0) = L - k + 1
    BY <1>1, <1>3
  <2> QED
    BY <2>1, <2>2
<1>5. NotOld(seq) = rest
  BY <1>1, <1>2, NotOldIsAnEnd
<1>6. U = IF Len(all) > MaxCount THEN Tail(all) ELSE all
  BY <1>5 DEF Updated
<1> HIDE DEF rest
<1>7. /\ all \in Seq(Ages) /\ Len(all) = L - k + 2
      /\ \A i \in 1..L - k + 1 : all[i] = seq[k + i - 1]
      /\ all[L - k + 2] = item
  <2>1. /\ Append(rest, item) \in Seq(Ages) /\ Len(Append(rest, item)) = Len(rest) + 1
        /\ \A i \in 1..Len(rest) : Append(rest, item)[i] = rest[i]
        /\ Append(rest, item)[Len(rest) + 1] = item
    <3>1. rest \in Seq(Ages) /\ item \in Ages
      BY <1>4
    <3> HIDE DEF L, U
    <3> QED
      BY <3>1, AppendProperties
  <2> QED
    BY <1>1, <1>3, <1>4, <2>1
<1> HIDE DEF all
<1>8. \E q \in 0..L :
        /\ U \in Seq(Ages) /\ Len(U) = q + 1 /\ q + 1 <= MaxCount
        /\ \A i \in 1..q : U[i] = seq[L - q + i]
        /\ U[q + 1] = item
        /\ \A i \in 1..L - q : IsOld(seq[i]) \/ q = MaxCount - 1
  <2>1. CASE L - k + 2 > MaxCount
    <3>1. L = MaxCount /\ k = 1
      <4>1. L \in Nat /\ k \in Nat /\ MaxCount \in Nat /\ L <= MaxCount /\ 1 <= k
        BY <1>1, <1>3
      <4>2. k < 2
        BY <2>1, <4>1
      <4>3. k = 1
        BY <4>1, <4>2
      <4> QED
        BY <2>1, <4>1, <4>3
    <3>2. U = Tail(all) /\ Len(all) = MaxCount + 1 /\ all # << >>
      BY <1>6, <1>7, <2>1, <1>1, <3>1
    <3>3. /\ Tail(all) \in Seq(Ages) /\ Len(Tail(all)) = Len(all) - 1
          /\ \A i \in 1..Len(Tail(all)) : Tail(all)[i] = all[i + 1]
      BY <1>7, <3>2, HeadTailProperties
    <3>4. Len(U) = MaxCount /\ \A i \in 1..MaxCount : U[i] = all[i + 1]
      BY <1>1, <3>2, <3>3
    <3>5. ASSUME NEW i \in 1..MaxCount - 1 PROVE U[i] = seq[L - (MaxCount - 1) + i]
      <4>1. i + 1 \in 1..L - k + 1 /\ i \in 1..MaxCount /\ k + (i + 1) - 1 = i + 1
            /\ L - (MaxCount - 1) + i = i + 1
        BY <1>1, <3>1
      <4> QED
        BY <1>7, <3>4, <4>1
    <3>6. U[MaxCount] = item
      <4>1. MaxCount \in 1..MaxCount /\ MaxCount + 1 = L - k + 2
        BY <1>1, <3>1
      <4> QED
        BY <1>7, <3>4, <4>1
    <3>7. MaxCount - 1 \in 0..L /\ (MaxCount - 1) + 1 = MaxCount
      BY <1>1, <3>1
    <3>8. U \in Seq(Ages)
      BY <3>2, <3>3
    <3> DEFINE q == MaxCount - 1
    <3>9. /\ q \in 0..L /\ Len(U) = q + 1 /\ q + 1 <= MaxCount /\ U[q + 1] = item
          /\ \A i \in 1..q : U[i] = seq[L - q + i]
      BY <1>1, <3>4, <3>5, <3>6, <3>7
    <3>10. \A i \in 1..L - q : IsOld(seq[i]) \/ q = MaxCount - 1
      OBVIOUS
    <3> HIDE DEF q
    <3> QED
      BY <3>8, <3>9, <3>10
  <2>2. CASE ~(L - k + 2 > MaxCount)
    <3> DEFINE q == L - k + 1
    <3>1. U = all /\ q \in 0..L /\ q + 1 = L - k + 2 /\ q + 1 <= MaxCount
      BY <1>1, <1>3, <1>6, <1>7, <2>2
    <3>2. ASSUME NEW i \in 1..q PROVE U[i] = seq[L - q + i]
      <4>1. k + i - 1 = L - q + i
        BY <1>1, <1>3
      <4> QED
        BY <1>7, <3>1, <4>1
    <3>3. \A i \in 1..L - q : IsOld(seq[i])
      <4>1. L - q = k - 1
        BY <1>1, <1>3
      <4> QED
        BY <1>2, <4>1
    <3> QED
      BY <1>7, <3>1, <3>2, <3>3
  <2> QED
    BY <2>1, <2>2
<1> HIDE DEF U
<1>9. PICK q \in 0..L :
        /\ U \in Seq(Ages) /\ Len(U) = q + 1 /\ q + 1 <= MaxCount
        /\ \A i \in 1..q : U[i] = seq[L - q + i]
        /\ U[q + 1] = item
        /\ \A i \in 1..L - q : IsOld(seq[i]) \/ q = MaxCount - 1
  BY <1>8
<1>10. Times(U)
  <2>1. q \in Nat /\ q <= L /\ DOMAIN U = 1..q + 1
    BY <1>1, <1>9, LenProperties
  <2>2. ASSUME NEW i \in 1..q + 1, NEW j \in 1..q + 1, i < j PROVE U[j] <= U[i]
    <3>1. i \in 1..q /\ L - q + i \in 1..L /\ U[i] = seq[L - q + i]
      BY <1>1, <1>9, <2>1, <2>2
    <3>2. CASE j = q + 1
      BY <1>9, <3>1, <3>2
    <3>3. CASE j # q + 1
      <4>1. j \in 1..q /\ L - q + j \in 1..L /\ L - q + i < L - q + j
        BY <1>1, <2>1, <2>2, <3>3
      <4> QED
        BY <1>1, <1>9, <3>1, <4>1 DEF Ordered
    <3> QED
      BY <3>2, <3>3
  <2>3. Ordered(U)
    BY <2>1, <2>2 DEF Ordered
  <2>4. Len(U) \in 1..MaxCount
    BY <1>1, <1>9, <2>1
  <2> QED
    BY <1>9, <2>3, <2>4 DEF Times
<1>11. Last(U) = item
  BY <1>9 DEF Last
<1> QED
  BY <1>9, <1>10, <1>11 DEF U

-----------------------------------------------------------------------------
(***************************************************************************)
(* The threads and the lock.                                               *)
(***************************************************************************)
Refreshing == {"statuses", "list", "minbw", "params"}

\* The thread that holds the lock is the one that refreshes.
ThreadsInv ==
  /\ pc \in [Threads -> Pcs]
  /\ refreshLock = {t \in Threads : pc[t] \in Refreshing}
  /\ \A t, u \in refreshLock : t = u

\* A thread goes on with the lock, or without it.
LEMMA GoesOn ==
  ASSUME ThreadsInv, NEW t \in Threads, NEW from, NEW to \in Pcs, Goes(t, from, to),
         from \in Refreshing <=> to \in Refreshing, UNCHANGED refreshLock
  PROVE  ThreadsInv'
<1>1. pc' \in [Threads -> Pcs]
  BY DEF ThreadsInv, Goes
<1>2. \A u \in Threads : pc'[u] \in Refreshing <=> pc[u] \in Refreshing
  BY DEF ThreadsInv, Goes
<1> QED
  BY <1>1, <1>2 DEF ThreadsInv

\* A thread gives the lock back, and no other had it.
LEMMA GivesBack ==
  ASSUME ThreadsInv, NEW t \in Threads, NEW from \in Refreshing, NEW to \in Pcs \ Refreshing,
         Goes(t, from, to), Release(t)
  PROVE  ThreadsInv'
<1>1. pc' \in [Threads -> Pcs]
  BY DEF ThreadsInv, Goes
<1>2. \A u \in Threads : pc'[u] \in Refreshing <=> u # t /\ pc[u] \in Refreshing
  BY DEF ThreadsInv, Goes
<1> QED
  BY <1>1, <1>2 DEF ThreadsInv, Release

\* A thread takes the lock that no other has.
LEMMA Takes ==
  ASSUME ThreadsInv, NEW t \in Threads, Goes(t, "wait", "statuses"),
         refreshLock = {}, refreshLock' = {t}
  PROVE  ThreadsInv'
<1>1. pc' \in [Threads -> Pcs]
  BY DEF ThreadsInv, Goes, Pcs
<1>2. \A u \in Threads : pc'[u] \in Refreshing <=> u = t
  BY DEF ThreadsInv, Goes, Refreshing
<1> QED
  BY <1>1, <1>2 DEF ThreadsInv

\* No step of a thread breaks it.
LEMMA ThreadsStep ==
  ASSUME ThreadsInv, [Next]_vars
  PROVE  ThreadsInv'
<1>1. ASSUME NEW t \in Threads, Use(t) PROVE ThreadsInv'
  <2>1. CASE Goes(t, "idle", "read")
    BY <1>1, <2>1, GoesOn DEF Use, Pcs, Refreshing
  <2>2. CASE Goes(t, "got", "idle")
    BY <1>1, <2>2, GoesOn DEF Use, Pcs, Refreshing
  <2>3. CASE Goes(t, "failed", "idle")
    BY <1>1, <2>3, GoesOn DEF Use, Pcs, Refreshing
  <2> QED
    BY <1>1, <2>1, <2>2, <2>3 DEF Use
<1>2. ASSUME NEW t \in Threads, ReadFresh(t) PROVE ThreadsInv'
  BY <1>2, GoesOn DEF ReadFresh, Pcs, Refreshing
<1>3. ASSUME NEW t \in Threads, ReadStale(t) PROVE ThreadsInv'
  BY <1>3, GoesOn DEF ReadStale, Pcs, Refreshing
<1>4. ASSUME NEW t \in Threads, TakeLock(t) PROVE ThreadsInv'
  <2>1. CASE Goes(t, "wait", "statuses") /\ refreshLock' = {t}
    BY <1>4, <2>1, Takes DEF TakeLock
  <2>2. CASE Goes(t, "wait", "got") /\ UNCHANGED refreshLock
    BY <2>2, GoesOn DEF Pcs, Refreshing
  <2> QED
    BY <1>4, <2>1, <2>2 DEF TakeLock
<1>5. ASSUME NEW t \in Threads, GetStatuses(t) PROVE ThreadsInv'
  BY <1>5, GoesOn DEF GetStatuses, Pcs, Refreshing
<1>6. ASSUME NEW t \in Threads, NoStatuses(t) PROVE ThreadsInv'
  BY <1>6, GivesBack DEF NoStatuses, Pcs, Refreshing
<1>7. ASSUME NEW t \in Threads, SetList(t) PROVE ThreadsInv'
  BY <1>7, GoesOn DEF SetList, Pcs, Refreshing
<1>8. ASSUME NEW t \in Threads, SetMinBw(t) PROVE ThreadsInv'
  BY <1>8, GoesOn DEF SetMinBw, Pcs, Refreshing
<1>9. ASSUME NEW t \in Threads, NoExits(t) PROVE ThreadsInv'
  BY <1>9, GivesBack DEF NoExits, Pcs, Refreshing
<1>10. ASSUME NEW t \in Threads, SetParams(t) PROVE ThreadsInv'
  BY <1>10, GivesBack DEF SetParams, Pcs, Refreshing
<1>11. ASSUME NEW t \in Threads, NoParams(t) PROVE ThreadsInv'
  BY <1>11, GivesBack DEF NoParams, Pcs, Refreshing
<1>12. CASE NewConsensus \/ Tick \/ UNCHANGED vars
  <2>1. UNCHANGED <<pc, refreshLock>>
    BY <1>12 DEF NewConsensus, Tick, vars
  <2> QED
    BY <2>1 DEF ThreadsInv
<1> QED
  BY <1>1, <1>2, <1>3, <1>4, <1>5, <1>6, <1>7, <1>8, <1>9, <1>10, <1>11, <1>12
     DEF Next, ReadRelays

\* The steps that change the times of the consensuses, or those of the relays.
LEMMA ListSteps ==
  ASSUME [Next]_vars
  PROVE  \/ UNCHANGED <<recentConsensus, relays, presence, listAge, statuses>>
         \/ \E t \in Threads : GetStatuses(t)
         \/ \E t \in Threads : SetList(t)
         \/ Tick
<1>1. ASSUME NEW t \in Threads, Use(t)
      PROVE  UNCHANGED <<recentConsensus, relays, presence, listAge, statuses>>
  BY <1>1 DEF Use, Looks, listVars
<1>2. ASSUME NEW t \in Threads, ReadRelays(t), ~GetStatuses(t), ~SetList(t)
      PROVE  UNCHANGED <<recentConsensus, relays, presence, listAge, statuses>>
  <2>1. CASE ReadFresh(t) \/ ReadStale(t) \/ TakeLock(t) \/ NoStatuses(t)
    BY <2>1 DEF ReadFresh, ReadStale, TakeLock, NoStatuses, Looks, listVars
  <2>2. CASE SetMinBw(t) \/ NoExits(t) \/ SetParams(t) \/ NoParams(t)
    BY <2>2 DEF SetMinBw, NoExits, SetParams, NoParams, Looks, listVars
  <2> QED
    BY <1>2, <2>1, <2>2 DEF ReadRelays
<1>3. CASE NewConsensus \/ UNCHANGED vars
  BY <1>3 DEF NewConsensus, vars, listVars
<1> QED
  BY <1>1, <1>2, <1>3 DEF Next

-----------------------------------------------------------------------------
(***************************************************************************)
(* The times of the consensuses and those of the relays.                   *)
(***************************************************************************)

\* A tick keeps the order of the ages, and those that were old.
LEMMA OlderAges ==
  /\ \A a \in Ages : Older(a) \in Ages /\ a <= Older(a) /\ (IsOld(a) => IsOld(Older(a)))
  /\ \A a, b \in Ages : a <= b => Older(a) <= Older(b)
  /\ \A a, b \in Ages : a <= b /\ ~IsOld(Older(b)) => Older(b) - Older(a) = b - a
<1>1. Period \in Nat
  BY TimeAssumption
<1> QED
  BY <1>1 DEF Ages, Older, IsOld

\* The last time is the newest.
LEMMA LastIsNewest ==
  ASSUME NEW seq, Times(seq)
  PROVE  /\ seq \in Seq(Ages) /\ Len(seq) \in Nat \ {0} /\ Len(seq) <= MaxCount
         /\ DOMAIN seq = 1..Len(seq)
         /\ \A i \in 1..Len(seq) : seq[i] \in Ages /\ seq[i] \in Nat
         /\ Last(seq) = seq[Len(seq)] /\ Last(seq) \in Ages /\ Last(seq) \in Nat
         /\ \A i \in 1..Len(seq) : Last(seq) <= seq[i]
<1>1. /\ seq \in Seq(Ages) /\ Len(seq) \in Nat \ {0} /\ Len(seq) <= MaxCount
      /\ DOMAIN seq = 1..Len(seq) /\ \A i \in 1..Len(seq) : seq[i] \in Ages
  BY ElementOfSeq, LenProperties, TimeAssumption DEF Times
<1>2. Period \in Nat /\ \A a \in Ages : a \in Nat
  BY TimeAssumption DEF Ages
<1>3. Len(seq) \in 1..Len(seq)
  BY <1>1
<1>4. Last(seq) = seq[Len(seq)] /\ Last(seq) \in Ages /\ Last(seq) \in Nat
  BY <1>1, <1>2, <1>3 DEF Last
<1>5. ASSUME NEW i \in 1..Len(seq) PROVE Last(seq) <= seq[i]
  <2>1. CASE i = Len(seq)
    BY <1>4, <2>1
  <2>2. CASE i # Len(seq)
    <3>1. i < Len(seq)
      <4>1. i \in Nat /\ Len(seq) \in Nat /\ i <= Len(seq)
        BY <1>1
      <4> QED
        BY <2>2, <4>1
    <3> QED
      BY <1>1, <1>3, <1>4, <3>1 DEF Times, Ordered
  <2> QED
    BY <2>1, <2>2
<1> QED
  BY <1>1, <1>2, <1>4, <1>5

\* A tick later the times are still in order.
LEMMA OlderTimes ==
  ASSUME NEW seq, Times(seq)
  PROVE  LET older == [i \in DOMAIN seq |-> Older(seq[i])]
         IN  /\ Times(older) /\ Len(older) = Len(seq) /\ Last(older) = Older(Last(seq))
             /\ \A i \in 1..Len(seq) : older[i] = Older(seq[i])
<1> DEFINE older == [i \in DOMAIN seq |-> Older(seq[i])]
<1>1. /\ Len(seq) \in Nat \ {0} /\ DOMAIN seq = 1..Len(seq)
      /\ \A i \in 1..Len(seq) : seq[i] \in Ages
      /\ Last(seq) = seq[Len(seq)] /\ Len(seq) \in 1..MaxCount
  BY LastIsNewest DEF Times
<1>2. older \in [1..Len(seq) -> Ages]
  BY <1>1, OlderAges
<1>3. older \in Seq(Ages) /\ Len(older) = Len(seq)
  <2> HIDE DEF older
  <2>1. Len(seq) \in Nat
    BY <1>1
  <2>2. older \in Seq(Ages)
    BY <1>2, <2>1, IsASeq
  <2> QED
    BY <1>2, <2>1, <2>2, LenProperties
<1>4. \A i \in 1..Len(seq) : older[i] = Older(seq[i])
  BY <1>1
<1>5. Ordered(older)
  <2>1. ASSUME NEW i \in 1..Len(seq), NEW j \in 1..Len(seq), i < j PROVE older[j] <= older[i]
    <3>1. seq[j] <= seq[i]
      BY <1>1, <2>1 DEF Times, Ordered
    <3> QED
      BY <1>1, <1>4, <3>1, OlderAges
  <2> QED
    BY <1>1, <2>1 DEF Ordered
<1>6. Last(older) = Older(Last(seq))
  <2>1. Len(seq) \in 1..Len(seq)
    BY <1>1
  <2> QED
    BY <1>1, <1>3, <1>4, <2>1 DEF Last
<1> QED
  BY <1>1, <1>3, <1>4, <1>5, <1>6 DEF Times

\* No relay has a time that is newer than the last consensus.
TimesInv ==
  /\ consensus \in Consensuses /\ statuses \subseteq Fingerprints
  /\ Times(recentConsensus)
  /\ DOMAIN relays \subseteq Fingerprints
  /\ \A fp \in DOMAIN relays : Times(relays[fp]) /\ Last(recentConsensus) <= Last(relays[fp])

\* The first time of a sequence.
LEMMA OneTime ==
  ASSUME NEW age \in Ages
  PROVE  Times(<<age>>) /\ Last(<<age>>) = age /\ Len(<<age>>) = 1
<1>1. MaxCount \in Nat \ {0}
  BY TimeAssumption
<1>2. <<age>> \in Seq(Ages) /\ Len(<<age>>) = 1 /\ DOMAIN <<age>> = {1} /\ <<age>>[1] = age
  OBVIOUS
<1> QED
  BY <1>1, <1>2 DEF Times, Ordered, Last

\* RecordConsensus in order: now is the newest time.
LEMMA RecordedTimes ==
  ASSUME Times(recentConsensus), RecordConsensus
  PROVE  Times(recentConsensus') /\ Last(recentConsensus') = 0
<1>1. 0 \in Ages
  BY TimeAssumption DEF Ages
<1>2. \A i \in 1..Len(recentConsensus) : 0 <= recentConsensus[i]
  <2>1. \A i \in 1..Len(recentConsensus) : recentConsensus[i] \in Nat
    BY LastIsNewest
  <2> QED
    BY <2>1
<1> QED
  BY <1>1, <1>2, UpdatedItems DEF RecordConsensus

\* What _init_relays makes of the times of a relay.
LEMMA NewListTimes ==
  ASSUME TimesInv
  PROVE  /\ DOMAIN NewList = statuses
         /\ \A fp \in statuses : Times(NewList[fp]) /\ Last(NewList[fp]) = Last(recentConsensus)
<1>1. Last(recentConsensus) \in Ages /\ Last(recentConsensus) \in Nat
  BY LastIsNewest DEF TimesInv
<1>2. DOMAIN NewList = statuses
  BY DEF NewList
<1>3. ASSUME NEW fp \in statuses
      PROVE  Times(NewList[fp]) /\ Last(NewList[fp]) = Last(recentConsensus)
  <2>1. CASE fp \in DOMAIN relays
    <3>1. Times(relays[fp]) /\ Last(recentConsensus) <= Last(relays[fp])
      BY <2>1 DEF TimesInv
    <3>2. \A i \in 1..Len(relays[fp]) :
            relays[fp][i] \in Nat /\ Last(relays[fp]) \in Nat /\ Last(relays[fp]) <= relays[fp][i]
      BY <3>1, LastIsNewest
    <3>3. \A i \in 1..Len(relays[fp]) : Last(recentConsensus) <= relays[fp][i]
      BY <1>1, <3>1, <3>2
    <3>4. NewList[fp] = Updated(relays[fp], Last(recentConsensus))
      BY <2>1 DEF NewList
    <3> QED
      BY <1>1, <3>1, <3>3, <3>4, UpdatedItems
  <2>2. CASE fp \notin DOMAIN relays
    <3>1. NewList[fp] = <<Last(recentConsensus)>>
      BY <2>2 DEF NewList
    <3> QED
      BY <1>1, <3>1, OneTime
  <2> QED
    BY <2>1, <2>2
<1> QED
  BY <1>2, <1>3

\* Every step keeps the times in order.
LEMMA TimesStep ==
  ASSUME TimesInv, [Next]_vars
  PROVE  TimesInv'
<1>1. consensus' \in Consensuses
  BY DEF TimesInv, Next, ReadRelays, Use, ReadFresh, ReadStale, TakeLock, GetStatuses, NoStatuses,
         SetList, SetMinBw, NoExits, SetParams, NoParams, NewConsensus, Tick, Looks, vars
<1>2. CASE UNCHANGED <<recentConsensus, relays, presence, listAge, statuses>>
  BY <1>1, <1>2 DEF TimesInv
<1>3. ASSUME NEW t \in Threads, GetStatuses(t) PROVE TimesInv'
  <2>1. Times(recentConsensus') /\ Last(recentConsensus') = 0
    BY <1>3, RecordedTimes DEF TimesInv, GetStatuses
  <2>2. relays' = relays /\ statuses' = consensus.relays
    BY <1>3 DEF GetStatuses, listVars
  <2>3. \A fp \in DOMAIN relays : Last(relays[fp]) \in Nat
    BY LastIsNewest DEF TimesInv
  <2>4. statuses' \subseteq Fingerprints
    BY <2>2, ConsensusesAssumption DEF TimesInv
  <2>5. \A fp \in DOMAIN relays : Times(relays[fp]) /\ Last(recentConsensus') <= Last(relays[fp])
    BY <2>1, <2>3 DEF TimesInv
  <2> QED
    BY <1>1, <2>1, <2>2, <2>4, <2>5 DEF TimesInv
<1>4. ASSUME NEW t \in Threads, SetList(t) PROVE TimesInv'
  <2>1. relays' = NewList /\ recentConsensus' = recentConsensus /\ statuses' = statuses
    BY <1>4 DEF SetList
  <2>2. Last(recentConsensus) \in Nat
    BY LastIsNewest DEF TimesInv
  <2>3. /\ DOMAIN relays' = statuses
        /\ \A fp \in statuses : Times(relays'[fp]) /\ Last(relays'[fp]) = Last(recentConsensus)
    BY <2>1, NewListTimes
  <2>4. \A fp \in statuses : Times(relays'[fp]) /\ Last(recentConsensus) <= Last(relays'[fp])
    BY <2>2, <2>3
  <2> QED
    BY <1>1, <2>1, <2>3, <2>4 DEF TimesInv
<1>5. CASE Tick
  <2>1. /\ recentConsensus' = [i \in DOMAIN recentConsensus |-> Older(recentConsensus[i])]
        /\ relays' = [fp \in DOMAIN relays |->
                        [i \in DOMAIN relays[fp] |-> Older(relays[fp][i])]]
        /\ statuses' = statuses
    BY <1>5 DEF Tick
  <2>2. Times(recentConsensus') /\ Last(recentConsensus') = Older(Last(recentConsensus))
    BY <2>1, OlderTimes DEF TimesInv
  <2>3. DOMAIN relays' = DOMAIN relays
    BY <2>1
  <2>4. ASSUME NEW fp \in DOMAIN relays
        PROVE  Times(relays'[fp]) /\ Last(recentConsensus') <= Last(relays'[fp])
    <3>1. Times(relays[fp]) /\ Last(recentConsensus) <= Last(relays[fp])
      BY DEF TimesInv
    <3>2. relays'[fp] = [i \in DOMAIN relays[fp] |-> Older(relays[fp][i])]
      BY <2>1
    <3>3. Times(relays'[fp]) /\ Last(relays'[fp]) = Older(Last(relays[fp]))
      BY <3>1, <3>2, OlderTimes
    <3>4. Last(relays[fp]) \in Ages /\ Last(recentConsensus) \in Ages
      BY <3>1, LastIsNewest DEF TimesInv
    <3> QED
      BY <2>2, <3>1, <3>3, <3>4, OlderAges
  <2> QED
    BY <1>1, <2>1, <2>2, <2>3, <2>4 DEF TimesInv
<1> QED
  BY <1>2, <1>3, <1>4, <1>5, ListSteps

-----------------------------------------------------------------------------
(***************************************************************************)
(* The refreshes.                                                          *)
(***************************************************************************)

\* A thread that asks for the statuses does it because the list is old, and the
\* times are of the same consensus but between the two assignments of a refresh.
RefreshInv ==
  /\ \A t \in Threads : pc[t] = "statuses" => NeedRefresh
  /\ (\A t \in Threads : pc[t] # "list") => listAge = Last(recentConsensus)
  /\ OneRefreshAnHour

ListInv == ThreadsInv /\ TimesInv /\ RefreshInv

\* Where the other steps bring a thread.
LEMMA OtherPcs ==
  ASSUME ThreadsInv, [Next]_vars, NEW u \in Threads,
         \A t \in Threads : ~GetStatuses(t) /\ ~SetList(t)
  PROVE  /\ pc'[u] = "list" <=> pc[u] = "list"
         /\ pc'[u] = "statuses" => pc[u] = "statuses" \/ NeedRefresh
         /\ pc'[u] = "minbw" => pc[u] = "minbw"
<1> USE DEF ThreadsInv, Goes
<1>1. ASSUME NEW t \in Threads, Use(t)
      PROVE  pc'[u] \in {pc[u], "read", "idle"} /\ (pc[u] = "list" => pc'[u] = "list")
  BY <1>1 DEF Use
<1>2. ASSUME NEW t \in Threads, ReadFresh(t) \/ ReadStale(t)
      PROVE  pc'[u] \in {pc[u], "got", "wait"} /\ (pc[u] = "list" => pc'[u] = "list")
  BY <1>2 DEF ReadFresh, ReadStale
<1>3. ASSUME NEW t \in Threads, TakeLock(t)
      PROVE  /\ pc'[u] = pc[u] \/ pc'[u] = "got" \/ (pc'[u] = "statuses" /\ NeedRefresh)
             /\ pc[u] = "list" => pc'[u] = "list"
  <2>1. CASE NeedRefresh /\ Goes(t, "wait", "statuses")
    BY <2>1
  <2>2. CASE Goes(t, "wait", "got")
    BY <2>2
  <2> QED
    BY <1>3, <2>1, <2>2 DEF TakeLock, StillNeeded
<1>4. ASSUME NEW t \in Threads, NoStatuses(t) \/ NoExits(t) \/ NoParams(t)
      PROVE  pc'[u] \in {pc[u], "failed"} /\ (pc[u] = "list" => pc'[u] = "list")
  BY <1>4 DEF NoStatuses, NoExits, NoParams
<1>5. ASSUME NEW t \in Threads, SetMinBw(t) \/ SetParams(t)
      PROVE  pc'[u] \in {pc[u], "params", "got"} /\ (pc[u] = "list" => pc'[u] = "list")
  BY <1>5 DEF SetMinBw, SetParams
<1>6. CASE NewConsensus \/ Tick \/ UNCHANGED vars
  BY <1>6 DEF NewConsensus, Tick, vars
<1> QED
  BY <1>1, <1>2, <1>3, <1>4, <1>5, <1>6 DEF Next, ReadRelays

\* A consensus is recorded when the last one is an hour old.
LEMMA RecordedAnHourApart ==
  ASSUME Times(recentConsensus), OneRefreshAnHour, NeedRefresh, RecordConsensus
  PROVE  OneRefreshAnHour'
<1> DEFINE s == recentConsensus
           L == Len(s)
<1>1. /\ L \in Nat \ {0} /\ s[L] >= Hour
      /\ \A i \in 1..L : s[i] \in Ages /\ s[i] \in Nat
  BY LastIsNewest DEF NeedRefresh
<1>2. 0 \in Ages /\ \A i \in 1..L : 0 <= s[i]
  <2>1. 0 \in Ages
    BY TimeAssumption DEF Ages
  <2> QED
    BY <1>1, <2>1
<1>3. PICK q \in 0..L :
        /\ Len(s') = q + 1
        /\ \A i \in 1..q : s'[i] = s[L - q + i]
  BY <1>2, UpdatedItems DEF RecordConsensus
<1>4. Last(s') = 0
  BY RecordedTimes
<1>5. ASSUME NEW i \in 1..Len(s') - 1, ~IsOld(s'[i]) PROVE s'[i] - s'[i + 1] >= Hour
  <2>1. i \in 1..q /\ s'[i] = s[L - q + i] /\ L - q + i \in 1..L
    BY <1>1, <1>3
  <2>2. CASE i = q
    <3>1. L - q + i = L /\ i + 1 = Len(s')
      BY <1>1, <1>3, <2>1, <2>2
    <3>2. s'[i] = s[L] /\ s'[i + 1] = 0 /\ s[L] \in Nat /\ s[L] >= Hour
      <4>1. L \in 1..L
        BY <1>1
      <4> QED
        BY <1>1, <1>4, <2>1, <3>1, <4>1 DEF Last
    <3> QED
      BY <3>2
  <2>3. CASE i # q
    <3>1. i + 1 \in 1..q /\ L - q + i \in 1..L - 1 /\ L - q + (i + 1) = (L - q + i) + 1
      BY <1>1, <1>3, <2>1, <2>3
    <3>2. s'[i + 1] = s[(L - q + i) + 1]
      BY <1>3, <3>1
    <3> QED
      BY <1>5, <2>1, <3>1, <3>2 DEF OneRefreshAnHour
  <2> QED
    BY <2>2, <2>3
<1> QED
  BY <1>5 DEF OneRefreshAnHour

\* ...and they are as far apart a tick later.
LEMMA OlderAnHourApart ==
  ASSUME Times(recentConsensus), OneRefreshAnHour,
         recentConsensus' = [i \in DOMAIN recentConsensus |-> Older(recentConsensus[i])]
  PROVE  OneRefreshAnHour'
<1> DEFINE s == recentConsensus
           L == Len(s)
<1>1. L \in Nat \ {0} /\ \A i \in 1..L : s[i] \in Ages
  BY LastIsNewest
<1>2. Len(s') = L /\ \A i \in 1..L : s'[i] = Older(s[i])
  BY OlderTimes
<1>3. ASSUME NEW i \in 1..L - 1, ~IsOld(s'[i]) PROVE s'[i] - s'[i + 1] >= Hour
  <2>1. i \in 1..L /\ i + 1 \in 1..L /\ i < i + 1
    BY <1>1
  <2>2. s[i + 1] <= s[i] /\ s[i] \in Ages /\ s[i + 1] \in Ages
    BY <1>1, <2>1, LastIsNewest DEF Times, Ordered
  <2>3. ~IsOld(Older(s[i]))
    BY <1>2, <1>3, <2>1
  <2>4. Older(s[i]) - Older(s[i + 1]) = s[i] - s[i + 1]
    BY <2>2, <2>3, OlderAges
  <2>5. ~IsOld(s[i])
    BY <2>2, <2>3, OlderAges
  <2>6. s[i] - s[i + 1] >= Hour
    BY <2>5 DEF OneRefreshAnHour
  <2> QED
    BY <1>2, <2>1, <2>4, <2>6
<1> QED
  BY <1>2, <1>3 DEF OneRefreshAnHour

\* Every step keeps the refreshes an hour apart.
LEMMA RefreshStep ==
  ASSUME ThreadsInv, TimesInv, RefreshInv, [Next]_vars
  PROVE  RefreshInv'
<1>1. ASSUME NEW t \in Threads, GetStatuses(t) PROVE RefreshInv'
  <2>1. Goes(t, "statuses", "list") /\ RecordConsensus
    BY <1>1 DEF GetStatuses
  <2>2. \A u \in Threads \ {t} : pc'[u] = pc[u] /\ pc[u] # "statuses"
    BY <2>1 DEF ThreadsInv, Goes, Refreshing
  <2>3. pc'[t] = "list"
    BY <2>1 DEF ThreadsInv, Goes
  <2>4. OneRefreshAnHour'
    BY <2>1, RecordedAnHourApart DEF TimesInv, RefreshInv, Goes
  <2> QED
    BY <2>2, <2>3, <2>4 DEF RefreshInv
<1>2. ASSUME NEW t \in Threads, SetList(t) PROVE RefreshInv'
  <2>1. /\ Goes(t, "list", "minbw") /\ recentConsensus' = recentConsensus
        /\ listAge' = Last(recentConsensus)
    BY <1>2 DEF SetList
  <2>2. \A u \in Threads : pc'[u] # "statuses"
    BY <2>1 DEF ThreadsInv, Goes, Refreshing
  <2>3. OneRefreshAnHour'
    BY <2>1 DEF OneRefreshAnHour, RefreshInv
  <2> QED
    BY <2>1, <2>2, <2>3 DEF RefreshInv
<1>3. CASE Tick
  <2>1. /\ recentConsensus' = [i \in DOMAIN recentConsensus |-> Older(recentConsensus[i])]
        /\ listAge' = Older(listAge) /\ pc' = pc
    BY <1>3 DEF Tick
  <2>2. Last(recentConsensus') = Older(Last(recentConsensus))
    BY <2>1, OlderTimes DEF TimesInv
  <2>3. NeedRefresh => NeedRefresh'
    <3>1. Last(recentConsensus) \in Ages /\ Last(recentConsensus) \in Nat
      BY LastIsNewest DEF TimesInv
    <3>2. Last(recentConsensus) <= Older(Last(recentConsensus))
          /\ Older(Last(recentConsensus)) \in Nat
      BY <3>1, OlderAges DEF Older
    <3>3. Hour \in Nat
      BY TimeAssumption
    <3> QED
      BY <2>2, <3>1, <3>2, <3>3 DEF NeedRefresh
  <2>4. OneRefreshAnHour'
    BY <2>1, OlderAnHourApart DEF TimesInv, RefreshInv
  <2> QED
    BY <2>1, <2>2, <2>3, <2>4 DEF RefreshInv
<1>4. CASE ~Tick /\ \A t \in Threads : ~GetStatuses(t) /\ ~SetList(t)
  <2>1. UNCHANGED <<recentConsensus, listAge>>
    BY <1>4, ListSteps
  <2>2. OneRefreshAnHour' /\ (NeedRefresh => NeedRefresh')
    BY <2>1 DEF OneRefreshAnHour, NeedRefresh, RefreshInv
  <2>3. \A u \in Threads : pc'[u] = "statuses" => NeedRefresh
    BY <1>4, OtherPcs DEF RefreshInv
  <2>4. \A u \in Threads : pc'[u] = "list" <=> pc[u] = "list"
    BY <1>4, OtherPcs
  <2> QED
    BY <2>1, <2>2, <2>3, <2>4 DEF RefreshInv
<1> QED
  BY <1>1, <1>2, <1>3, <1>4

\* What __init__ leaves.
LEMMA ListInit ==
  ASSUME Init
  PROVE  ListInv
<1>1. 0 \in Ages
  BY TimeAssumption DEF Ages
<1>2. Times(<<0>>) /\ Last(<<0>>) = 0 /\ Len(<<0>>) = 1
  BY <1>1, OneTime
<1>3. ThreadsInv
  BY DEF Init, ThreadsInv, Pcs, Refreshing
<1>4. TimesInv
  <2>1. consensus \in Consensuses /\ statuses \subseteq Fingerprints /\ recentConsensus = <<0>>
    BY DEF Init
  <2>2. DOMAIN relays \subseteq Fingerprints /\ \A fp \in DOMAIN relays : relays[fp] = <<0>>
    BY ConsensusesAssumption DEF Init
  <2> QED
    BY <1>2, <2>1, <2>2 DEF TimesInv
<1>5. RefreshInv
  <2>1. OneRefreshAnHour
    BY <1>2 DEF Init, OneRefreshAnHour
  <2> QED
    BY <1>2, <2>1 DEF Init, RefreshInv
<1> QED
  BY <1>3, <1>4, <1>5 DEF ListInv

\* ListInv is inductive.
THEOREM ListInvariant == Spec => []ListInv
<1>1. Init => ListInv
  BY ListInit
<1>2. ListInv /\ [Next]_vars => ListInv'
  BY ThreadsStep, TimesStep, RefreshStep DEF ListInv
<1> QED
  BY <1>1, <1>2, PTL DEF Spec

\* However many threads find the list stale together, relaylist.RelayList asks
\* for one consensus an hour, also when a refresh failed in the middle.
THEOREM OneRefreshAnHourHolds == Spec => []OneRefreshAnHour
<1>1. ListInv => OneRefreshAnHour
  BY DEF ListInv, RefreshInv
<1> QED
  BY <1>1, ListInvariant, PTL

\* The list that a thread is given without waiting is less than an hour old,
\* but between the two assignments of a refresh.
THEOREM StaleOnlyInRefreshHolds == Spec => []StaleOnlyInRefresh
<1>1. ListInv => StaleOnlyInRefresh
  BY DEF ListInv, RefreshInv, StaleOnlyInRefresh, NeedRefresh
<1> QED
  BY <1>1, ListInvariant, PTL

\* A set of which any two elements are the same has one at most.
LEMMA OneAtMost ==
  ASSUME NEW S, \A c, d \in S : c = d
  PROVE  Cardinality(S) <= 1
<1>1. CASE S = {}
  BY <1>1, FS_EmptySet
<1>2. CASE S # {}
  <2>1. PICK c \in S : S = {c}
    BY <1>2
  <2>2. Cardinality({c}) = 1
    BY FS_Singleton
  <2> QED
    BY <2>1, <2>2
<1> QED
  BY <1>1, <1>2

\* Times are a sequence of MaxCount ages at most.
LEMMA TimesInSeqOf ==
  ASSUME NEW seq, Times(seq)
  PROVE  seq \in SeqOf(0..Period + 1, MaxCount) \ {<< >>}
<1>1. /\ Len(seq) \in 0..MaxCount /\ Len(seq) # 0 /\ DOMAIN seq = 1..Len(seq)
      /\ \A i \in 1..Len(seq) : seq[i] \in 0..Period + 1
  BY LastIsNewest, TimeAssumption DEF Ages
<1>2. seq \in [1..Len(seq) -> 0..Period + 1]
  <2>1. seq = [i \in 1..Len(seq) |-> seq[i]]
    BY LastIsNewest
  <2> QED
    BY <1>1, <2>1
<1>3. seq # << >>
  BY <1>1
<1> QED
  BY <1>1, <1>2, <1>3 DEF SeqOf

\* The types, and the lock of one owner, who refreshes the list.
THEOREM ListTypes == Spec => []TypeOK
<1>1. ListInv => TypeOK
  <2> SUFFICES ASSUME ListInv PROVE TypeOK
    OBVIOUS
  <2>1. Cardinality(refreshLock) <= 1
    BY OneAtMost DEF ListInv, ThreadsInv
  <2>2. recentConsensus \in SeqOf(0..Period + 1, MaxCount) \ {<< >>}
    BY TimesInSeqOf DEF ListInv, TimesInv
  <2>3. \A fp \in DOMAIN relays : relays[fp] \in SeqOf(0..Period + 1, MaxCount) \ {<< >>}
    BY TimesInSeqOf DEF ListInv, TimesInv
  <2> QED
    BY <2>1, <2>2, <2>3 DEF ListInv, ThreadsInv, TimesInv, TypeOK, Refreshing
<1> QED
  BY <1>1, ListInvariant, PTL

-----------------------------------------------------------------------------
(***************************************************************************)
(* The minimum bandwidths of the second hop.                               *)
(***************************************************************************)

\* Relays that are not as fast as b, that are no faster, that are faster.
Slower(S, b) == {r \in S : Bandwidth[r] < b}
AtMost(S, b) == {r \in S : Bandwidth[r] <= b}
Faster(S, b) == {r \in S : Bandwidth[r] > b}

\* One of some relays is the fastest.
LEMMA FastestRelay ==
  ASSUME NEW S \in SUBSET Fingerprints, IsFiniteSet(S), S # {}
  PROVE  \E r \in S : \A u \in S : Bandwidth[u] <= Bandwidth[r]
<1> DEFINE Sizes == {Cardinality(Faster(S, Bandwidth[r])) : r \in S}
<1>1. \A r \in S : Bandwidth[r] \in Nat
  BY FingerprintsAssumption
<1>2. ASSUME NEW r \in S
      PROVE  /\ IsFiniteSet(Faster(S, Bandwidth[r]))
             /\ Cardinality(Faster(S, Bandwidth[r])) \in Nat
  <2>1. Faster(S, Bandwidth[r]) \subseteq S
    BY DEF Faster
  <2> QED
    BY <2>1, FS_Subset, FS_CardinalityType
<1>3. Sizes \in SUBSET Nat /\ Sizes # {}
  BY <1>2
<1>4. PICK n \in Sizes : \A m \in Sizes : n <= m
  <2> HIDE DEF Sizes
  <2> QED
    BY <1>3, LeastNumber
<1>5. PICK r \in S : n = Cardinality(Faster(S, Bandwidth[r]))
  BY <1>4
<1>6. ASSUME NEW u \in S, ~(Bandwidth[u] <= Bandwidth[r]) PROVE FALSE
  <2>1. Bandwidth[u] > Bandwidth[r] /\ Bandwidth[u] \in Nat /\ Bandwidth[r] \in Nat
    BY <1>1, <1>6
  <2>2. Faster(S, Bandwidth[u]) \subseteq Faster(S, Bandwidth[r])
    BY <1>1, <2>1 DEF Faster
  <2>3. u \in Faster(S, Bandwidth[r]) /\ u \notin Faster(S, Bandwidth[u])
    BY <2>1 DEF Faster
  <2>4. Cardinality(Faster(S, Bandwidth[u])) < Cardinality(Faster(S, Bandwidth[r]))
    <3>1. Faster(S, Bandwidth[u]) # Faster(S, Bandwidth[r])
      BY <2>3
    <3>2. IsFiniteSet(Faster(S, Bandwidth[r])) /\ IsFiniteSet(Faster(S, Bandwidth[u]))
      BY <1>2
    <3>3. /\ Cardinality(Faster(S, Bandwidth[u])) <= Cardinality(Faster(S, Bandwidth[r]))
          /\ Cardinality(Faster(S, Bandwidth[u])) # Cardinality(Faster(S, Bandwidth[r]))
      BY <2>2, <3>1, <3>2, FS_Subset
    <3>4. /\ Cardinality(Faster(S, Bandwidth[u])) \in Nat
          /\ Cardinality(Faster(S, Bandwidth[r])) \in Nat
      BY <1>2
    <3> QED
      BY <3>3, <3>4
  <2>5. n <= Cardinality(Faster(S, Bandwidth[u]))
    BY <1>4
  <2>6. /\ Cardinality(Faster(S, Bandwidth[u])) \in Nat
        /\ Cardinality(Faster(S, Bandwidth[r])) \in Nat
    BY <1>2
  <2> QED
    BY <1>5, <2>4, <2>5, <2>6
<1> QED
  BY <1>6

\* Some relays and the others of a set are all of them.
LEMMA SlowerAndNot ==
  ASSUME NEW S \in SUBSET Fingerprints, IsFiniteSet(S), NEW b \in Nat
  PROVE  /\ Cardinality(Slower(S, b)) \in Nat /\ Cardinality(AtMost(S, b)) \in Nat
         /\ Cardinality(S) \in Nat
         /\ Cardinality({r \in S : Bandwidth[r] >= b}) = Cardinality(S) - Cardinality(Slower(S, b))
<1> DEFINE Rest == {r \in S : Bandwidth[r] >= b}
<1>1. \A r \in S : Bandwidth[r] \in Nat
  BY FingerprintsAssumption
<1>2. Slower(S, b) \subseteq S /\ AtMost(S, b) \subseteq S
  BY DEF Slower, AtMost
<1>3. /\ Cardinality(Slower(S, b)) \in Nat /\ Cardinality(AtMost(S, b)) \in Nat
      /\ Cardinality(S) \in Nat
  BY <1>2, FS_Subset, FS_CardinalityType
<1>4. Rest = S \ Slower(S, b) /\ S \cap Slower(S, b) = Slower(S, b)
  BY <1>1 DEF Slower
<1>5. Cardinality(S \ Slower(S, b)) = Cardinality(S) - Cardinality(S \cap Slower(S, b))
  BY FS_Difference
<1> QED
  BY <1>3, <1>4, <1>5

\* The item int(len / 4) of the sorted relays is well defined, and three quarters
\* of the relays have its bandwidth or more.
LEMMA LowestOfTopIsOfTop75 ==
  ASSUME NEW S \in SUBSET Fingerprints, IsFiniteSet(S), S # {}
  PROVE  Top75(S, LowestOfTop(S))
<1> DEFINE C == Cardinality(S)
           B == {Bandwidth[r] : r \in S}
           T == {b \in B : Cardinality(AtMost(S, b)) > C \div 4}
<1>1. (\A r \in S : Bandwidth[r] \in Nat) /\ B \subseteq Nat
  BY FingerprintsAssumption
<1>2. C \in Nat \ {0} /\ C \div 4 \in Nat /\ C \div 4 < C /\ 4 * (C \div 4) <= C
  <2>1. C \in Nat /\ C # 0
    BY FS_CardinalityType, FS_EmptySet
  <2> HIDE DEF C
  <2> QED
    BY <2>1
<1>3. PICK top \in S : \A u \in S : Bandwidth[u] <= Bandwidth[top]
  BY FastestRelay
<1>4. Bandwidth[top] \in T
  <2>1. AtMost(S, Bandwidth[top]) = S
    BY <1>3 DEF AtMost
  <2>2. Cardinality(AtMost(S, Bandwidth[top])) > C \div 4
    BY <1>2, <2>1
  <2> QED
    BY <2>2
<1>5. T \in SUBSET Nat /\ T # {}
  BY <1>1, <1>4
<1>6. PICK b \in T : \A y \in T : b <= y
  <2> HIDE DEF T
  <2> QED
    BY <1>5, LeastNumber
<1>7. b \in B /\ b \in Nat
  BY <1>5, <1>6
<1>8. Cardinality(Slower(S, b)) <= C \div 4
  <2>1. CASE Slower(S, b) = {}
    BY <1>2, <2>1, FS_EmptySet
  <2>2. CASE Slower(S, b) # {}
    <3>1. Slower(S, b) \in SUBSET Fingerprints /\ IsFiniteSet(Slower(S, b))
      <4>1. Slower(S, b) \subseteq S
        BY DEF Slower
      <4> QED
        BY <4>1, FS_Subset
    <3>2. PICK r \in Slower(S, b) : \A u \in Slower(S, b) : Bandwidth[u] <= Bandwidth[r]
      BY <2>2, <3>1, FastestRelay
    <3>3. r \in S /\ Bandwidth[r] < b /\ Bandwidth[r] \in Nat
      BY <1>1, <3>2 DEF Slower
    <3>4. Slower(S, b) = AtMost(S, Bandwidth[r])
      <4>1. Slower(S, b) \subseteq AtMost(S, Bandwidth[r])
        BY <3>2 DEF Slower, AtMost
      <4>2. AtMost(S, Bandwidth[r]) \subseteq Slower(S, b)
        BY <1>1, <1>7, <3>3 DEF Slower, AtMost
      <4> QED
        BY <4>1, <4>2
    <3>5. ~(b <= Bandwidth[r])
      BY <1>7, <3>3
    <3>6. Bandwidth[r] \notin T
      BY <1>6, <3>5
    <3>7. ~(Cardinality(AtMost(S, Bandwidth[r])) > C \div 4)
      BY <3>3, <3>6
    <3>8. Cardinality(AtMost(S, Bandwidth[r])) \in Nat
      BY <3>3, SlowerAndNot
    <3> QED
      BY <1>2, <3>4, <3>7, <3>8
  <2> QED
    BY <2>1, <2>2
<1> DEFINE P(x) == Cardinality(Slower(S, x)) <= C \div 4 /\ Cardinality(AtMost(S, x)) > C \div 4
<1>9. P(b)
  BY <1>6, <1>8
<1>10. LowestOfTop(S) = CHOOSE x \in B : P(x)
  BY DEF LowestOfTop, Slower, AtMost
<1>11. LowestOfTop(S) \in B /\ Cardinality(Slower(S, LowestOfTop(S))) <= C \div 4
  <2>1. \E x \in B : P(x)
    BY <1>7, <1>9
  <2>2. LowestOfTop(S) \in B /\ P(LowestOfTop(S))
    <3> HIDE DEF P, B
    <3> QED
      BY <1>10, <2>1
  <2> QED
    BY <2>2
<1> DEFINE low == LowestOfTop(S)
<1>12. low \in Nat /\ \E r \in S : Bandwidth[r] = low
  BY <1>1, <1>11
<1> HIDE DEF low
<1>13. /\ Cardinality(Slower(S, low)) \in Nat
       /\ Cardinality({r \in S : Bandwidth[r] >= low}) = C - Cardinality(Slower(S, low))
  BY <1>12, SlowerAndNot
<1>14. 4 * Cardinality({r \in S : Bandwidth[r] >= low}) >= 3 * C
  <2> DEFINE slow == Cardinality(Slower(S, low))
             quarter == C \div 4
  <2>1. slow \in Nat /\ quarter \in Nat /\ C \in Nat /\ slow <= quarter /\ 4 * quarter <= C
    BY <1>2, <1>11, <1>13 DEF low
  <2> HIDE DEF slow, quarter, C
  <2>2. 4 * (C - slow) >= 3 * C
    BY <2>1
  <2> QED
    BY <1>13, <2>2 DEF slow
<1> QED
  BY <1>12, <1>14 DEF Top75, low

\* The minimums are of the list, when it has exits, but between SetList and
\* SetMinBw.
MinBwInv ==
  /\ IsFiniteSet(statuses) /\ IsFiniteSet(DOMAIN relays)
  /\ (\A t \in Threads : pc[t] # "minbw") /\ DOMAIN relays \cap Exits # {} =>
       /\ Top75(DOMAIN relays \cap Exits, minBw.exit)
       /\ Cardinality(DOMAIN relays \ Exits) >= 4 => Top75(DOMAIN relays \ Exits, minBw.nonExit)

\* _calculate_min_bw_second_hop, of any list with an exit.
LEMMA MinBwOfList ==
  ASSUME NEW list \in SUBSET Fingerprints, IsFiniteSet(list), list \cap Exits # {}, NEW old
  PROVE  /\ Top75(list \cap Exits, MinBwOf(list, old).exit)
         /\ Cardinality(list \ Exits) >= 4 => Top75(list \ Exits, MinBwOf(list, old).nonExit)
<1>1. /\ IsFiniteSet(list \cap Exits) /\ list \cap Exits \in SUBSET Fingerprints
      /\ IsFiniteSet(list \ Exits) /\ list \ Exits \in SUBSET Fingerprints
  BY FS_Intersection, FS_Difference
<1>2. Top75(list \cap Exits, MinBwOf(list, old).exit)
  BY <1>1, LowestOfTopIsOfTop75 DEF MinBwOf
<1>3. ASSUME Cardinality(list \ Exits) >= 4
      PROVE  Top75(list \ Exits, MinBwOf(list, old).nonExit)
  <2>1. list \ Exits # {}
    BY <1>3, FS_EmptySet
  <2> QED
    BY <1>1, <1>3, <2>1, LowestOfTopIsOfTop75 DEF MinBwOf
<1> QED
  BY <1>2, <1>3

\* Which steps set the minimums, and which thread that was to set them goes on.
LEMMA OtherMinBw ==
  ASSUME ThreadsInv, [Next]_vars,
         \A t \in Threads : ~GetStatuses(t) /\ ~SetList(t) /\ ~SetMinBw(t)
  PROVE  /\ minBw' = minBw
         /\ DOMAIN relays \cap Exits # {} => \A u \in Threads : pc[u] = "minbw" => pc'[u] = "minbw"
<1> USE DEF ThreadsInv, Goes
<1>1. ASSUME NEW t \in Threads, Use(t)
      PROVE  minBw' = minBw /\ \A u \in Threads : pc[u] = "minbw" => pc'[u] = "minbw"
  BY <1>1 DEF Use, Looks, derivedVars
<1>2. ASSUME NEW t \in Threads, ReadFresh(t) \/ ReadStale(t) \/ TakeLock(t)
      PROVE  minBw' = minBw /\ \A u \in Threads : pc[u] = "minbw" => pc'[u] = "minbw"
  BY <1>2 DEF ReadFresh, ReadStale, TakeLock, Looks, derivedVars
<1>3. ASSUME NEW t \in Threads, NoStatuses(t) \/ SetParams(t) \/ NoParams(t)
      PROVE  minBw' = minBw /\ \A u \in Threads : pc[u] = "minbw" => pc'[u] = "minbw"
  BY <1>3 DEF NoStatuses, SetParams, NoParams, Looks, derivedVars
<1>4. ASSUME NEW t \in Threads, NoExits(t)
      PROVE  minBw' = minBw /\ DOMAIN relays \cap Exits = {}
  BY <1>4 DEF NoExits, Looks, derivedVars
<1>5. CASE NewConsensus \/ Tick \/ UNCHANGED vars
  BY <1>5 DEF NewConsensus, Tick, vars, derivedVars
<1> QED
  BY <1>1, <1>2, <1>3, <1>4, <1>5 DEF Next, ReadRelays

\* Every step keeps the minimums of the list.
LEMMA MinBwStep ==
  ASSUME ThreadsInv, TimesInv, MinBwInv, [Next]_vars
  PROVE  MinBwInv'
<1>1. ASSUME NEW t \in Threads, GetStatuses(t) PROVE MinBwInv'
  <2>1. statuses' = consensus.relays /\ relays' = relays /\ minBw' = minBw
        /\ Goes(t, "statuses", "list")
    BY <1>1 DEF GetStatuses, listVars, derivedVars
  <2>2. IsFiniteSet(statuses')
    BY <2>1, ConsensusesAssumption DEF TimesInv
  <2>3. \A u \in Threads : pc[u] = "minbw" => pc'[u] = "minbw"
    BY <2>1 DEF ThreadsInv, Goes
  <2> QED
    BY <2>1, <2>2, <2>3 DEF MinBwInv
<1>2. ASSUME NEW t \in Threads, SetList(t) PROVE MinBwInv'
  <2>1. Goes(t, "list", "minbw") /\ relays' = NewList /\ statuses' = statuses
    BY <1>2 DEF SetList
  <2>2. pc'[t] = "minbw"
    BY <2>1 DEF ThreadsInv, Goes
  <2>3. DOMAIN relays' = statuses
    BY <2>1 DEF NewList
  <2> QED
    BY <2>1, <2>2, <2>3 DEF MinBwInv
<1>3. ASSUME NEW t \in Threads, SetMinBw(t) PROVE MinBwInv'
  <2>1. /\ relays' = relays /\ statuses' = statuses /\ DOMAIN relays \cap Exits # {}
        /\ minBw' = MinBwOf(DOMAIN relays, minBw)
    BY <1>3 DEF SetMinBw, listVars
  <2>2. DOMAIN relays \in SUBSET Fingerprints /\ IsFiniteSet(DOMAIN relays)
    BY DEF TimesInv, MinBwInv
  <2>3. /\ Top75(DOMAIN relays \cap Exits, minBw'.exit)
        /\ Cardinality(DOMAIN relays \ Exits) >= 4 =>
             Top75(DOMAIN relays \ Exits, minBw'.nonExit)
    BY <2>1, <2>2, MinBwOfList
  <2> QED
    BY <2>1, <2>3 DEF MinBwInv
<1>4. CASE Tick
  <2>1. DOMAIN relays' = DOMAIN relays /\ minBw' = minBw /\ statuses' = statuses /\ pc' = pc
    BY <1>4 DEF Tick, derivedVars
  <2> QED
    BY <2>1 DEF MinBwInv
<1>5. CASE ~Tick /\ \A t \in Threads : ~GetStatuses(t) /\ ~SetList(t) /\ ~SetMinBw(t)
  <2>1. relays' = relays /\ statuses' = statuses
    BY <1>5, ListSteps
  <2>2. /\ minBw' = minBw
        /\ DOMAIN relays \cap Exits # {} =>
             \A u \in Threads : pc[u] = "minbw" => pc'[u] = "minbw"
    BY <1>5, OtherMinBw
  <2> QED
    BY <2>1, <2>2 DEF MinBwInv
<1> QED
  BY <1>1, <1>2, <1>3, <1>4, <1>5

\* The second hop of a relay is one of the top 75% of its category: with no
\* refresh under way three quarters of the exits of the list, and of the relays
\* that are not exits if they are four, have the minimum bandwidth or more, and
\* one has just that.
THEOREM MinBwOfTop75Holds == Spec => []MinBwOfTop75
<1>1. Init => MinBwInv
  <2> SUFFICES ASSUME Init PROVE MinBwInv
    OBVIOUS
  <2>1. /\ consensus \in Consensuses /\ DOMAIN relays = consensus.relays /\ statuses = {}
        /\ DOMAIN relays \cap Exits # {} /\ minBw = MinBwOf(DOMAIN relays, [nonExit |-> 0])
    BY DEF Init
  <2>2. DOMAIN relays \in SUBSET Fingerprints /\ IsFiniteSet(DOMAIN relays)
    BY <2>1, ConsensusesAssumption
  <2>3. IsFiniteSet(statuses)
    BY <2>1, FS_EmptySet
  <2> QED
    BY <2>1, <2>2, <2>3, MinBwOfList DEF MinBwInv
<1>2. ListInv /\ MinBwInv /\ [Next]_vars => MinBwInv'
  BY MinBwStep DEF ListInv
<1>3. ListInv /\ MinBwInv => MinBwOfTop75
  BY DEF ListInv, ThreadsInv, Refreshing, MinBwInv, MinBwOfTop75
<1> QED
  BY <1>1, <1>2, <1>3, ListInvariant, PTL DEF Spec

-----------------------------------------------------------------------------
(***************************************************************************)
(* The times of a relay against those of the consensuses, item by item     *)
(* from the last.                                                          *)
(***************************************************************************)

\* The times r of a relay that has been in p consensuses with no other between
\* them are the last p of s, but for old ones. When d is 1 the relay has not
\* been updated with the last time of s.
Aligned(r, s, p, d) ==
  \A j \in Nat :
    /\ j < Len(r) /\ j < p /\ j + d < Len(s) => r[Len(r) - j] = s[Len(s) - d - j]
    /\ j < Len(r) /\ ~(j < p /\ j + d < Len(s)) /\ j + d < MaxCount => IsOld(r[Len(r) - j])
    /\ ~(j < Len(r)) /\ j < p /\ j + d < Len(s) => IsOld(s[Len(s) - d - j])

\* Another consensus is recorded.
LEMMA AlignedRecorded ==
  ASSUME NEW r, Times(r), NEW s, Times(s), NEW p \in Nat, Aligned(r, s, p, 0),
         NEW item \in Ages, \A i \in 1..Len(s) : item <= s[i]
  PROVE  Aligned(r, Updated(s, item), p, 1)
<1> DEFINE u == Updated(s, item)
           m == Len(r)
           N == Len(s)
<1>1. m \in Nat /\ N \in Nat /\ MaxCount \in Nat
  BY LastIsNewest, TimeAssumption
<1>2. PICK q \in 0..N :
        /\ Len(u) = q + 1
        /\ \A i \in 1..q : u[i] = s[N - q + i]
        /\ \A i \in 1..N - q : IsOld(s[i]) \/ q = MaxCount - 1
  BY UpdatedItems
<1>3. ASSUME NEW j \in Nat
      PROVE  /\ j < m /\ j < p /\ j < N => r[m - j] = s[N - j]
             /\ j < m /\ ~(j < p /\ j < N) /\ j < MaxCount => IsOld(r[m - j])
             /\ ~(j < m) /\ j < p /\ j < N => IsOld(s[N - j])
  BY <1>1 DEF Aligned
<1> HIDE DEF u, m, N
<1>4. ASSUME NEW j \in Nat, j < q PROVE u[q - j] = s[N - j] /\ j < N
  <2>1. q \in Nat /\ q <= N
    BY <1>1, <1>2
  <2>2. q - j \in 1..q /\ N - q + (q - j) = N - j /\ j < N
    BY <1>1, <1>4, <2>1
  <2> QED
    BY <1>2, <2>2
<1>5. ASSUME NEW j \in Nat
      PROVE  /\ j < m /\ j < p /\ j < q => r[m - j] = u[q - j]
             /\ j < m /\ ~(j < p /\ j < q) /\ j + 1 < MaxCount => IsOld(r[m - j])
             /\ ~(j < m) /\ j < p /\ j < q => IsOld(u[q - j])
  <2>1. j < m /\ j < p /\ j < q => r[m - j] = u[q - j]
    BY <1>3, <1>4
  <2>2. ASSUME j < m, ~(j < p /\ j < q), j + 1 < MaxCount PROVE IsOld(r[m - j])
    <3>1. CASE ~(j < p /\ j < N)
      BY <1>1, <1>3, <2>2, <3>1
    <3>2. CASE j < p /\ j < N
      <4>1. q \in Nat /\ q <= N /\ ~(j < q)
        BY <1>1, <1>2, <2>2, <3>2
      <4>2. N - j \in 1..N - q /\ q # MaxCount - 1
        BY <1>1, <2>2, <3>2, <4>1
      <4> QED
        BY <1>2, <1>3, <2>2, <3>2, <4>2
    <3> QED
      BY <3>1, <3>2
  <2>3. ~(j < m) /\ j < p /\ j < q => IsOld(u[q - j])
    BY <1>3, <1>4
  <2> QED
    BY <2>1, <2>2, <2>3
<1>6. ASSUME NEW j \in Nat PROVE (j + 1 < Len(u) <=> j < q) /\ Len(u) - 1 - j = q - j
  <2>1. q \in Nat
    BY <1>1, <1>2
  <2> QED
    BY <1>2, <2>1
<1>7. Aligned(r, u, p, 1)
  BY <1>5, <1>6 DEF Aligned, m
<1> QED
  BY <1>7 DEF u

\* A relay is updated with the last time.
LEMMA AlignedUpdated ==
  ASSUME NEW r, Times(r), NEW s, Times(s), NEW p \in 0..MaxCount, Aligned(r, s, p, 1),
         Last(s) <= Last(r)
  PROVE  Aligned(Updated(r, Last(s)), s, IF p < MaxCount THEN p + 1 ELSE MaxCount, 0)
<1> DEFINE u == Updated(r, Last(s))
           m == Len(r)
           N == Len(s)
           p1 == IF p < MaxCount THEN p + 1 ELSE MaxCount
<1>1. /\ m \in Nat /\ N \in Nat /\ N > 0 /\ N <= MaxCount /\ MaxCount \in Nat /\ p \in Nat
      /\ p <= MaxCount /\ Last(s) = s[N]
  BY LastIsNewest, TimeAssumption
<1>2. \A i \in 1..m : Last(s) <= r[i]
  <2>1. \A i \in 1..m : Last(r) <= r[i] /\ r[i] \in Nat /\ Last(r) \in Nat /\ Last(s) \in Nat
    BY LastIsNewest
  <2> QED
    BY <2>1
<1>3. /\ Last(u) = Last(s) /\ Times(u)
      /\ \E q \in 0..m :
           /\ Len(u) = q + 1
           /\ \A i \in 1..q : u[i] = r[m - q + i]
           /\ \A i \in 1..m - q : IsOld(r[i]) \/ q = MaxCount - 1
  <2>1. Last(s) \in Ages
    BY LastIsNewest
  <2> QED
    BY <1>2, <2>1, UpdatedItems
<1>4. PICK q \in 0..m :
        /\ Len(u) = q + 1
        /\ \A i \in 1..q : u[i] = r[m - q + i]
        /\ \A i \in 1..m - q : IsOld(r[i]) \/ q = MaxCount - 1
  BY <1>3
<1>5. u[q + 1] = s[N] /\ q \in Nat /\ q <= m /\ q + 1 <= MaxCount
  <2>1. u[q + 1] = s[N]
    BY <1>1, <1>3, <1>4 DEF Last
  <2>2. q \in Nat /\ q <= m
    BY <1>1, <1>4
  <2>3. Len(u) <= MaxCount
    BY <1>3, LastIsNewest
  <2> QED
    BY <1>4, <2>1, <2>2, <2>3
<1>6. ASSUME NEW i \in Nat
      PROVE  /\ i < m /\ i < p /\ i + 1 < N => r[m - i] = s[N - 1 - i]
             /\ i < m /\ ~(i < p /\ i + 1 < N) /\ i + 1 < MaxCount => IsOld(r[m - i])
             /\ ~(i < m) /\ i < p /\ i + 1 < N => IsOld(s[N - 1 - i])
  BY DEF Aligned
<1> HIDE DEF u, m, N
<1>7. p1 \in Nat /\ p1 > 0
  BY <1>1
<1>8. ASSUME NEW i \in Nat PROVE i + 1 < p1 /\ i + 1 < N <=> i < p /\ i + 1 < N
  BY <1>1
<1> HIDE DEF p1
<1>9. ASSUME NEW i \in Nat, i < q PROVE u[q - i] = r[m - i] /\ i < m /\ i + 1 < MaxCount
  <2>1. q - i \in 1..q /\ m - q + (q - i) = m - i /\ i < m /\ i + 1 < MaxCount
    BY <1>1, <1>5, <1>9
  <2> QED
    BY <1>4, <2>1
<1>10. ASSUME NEW i \in Nat
       PROVE  /\ i < q /\ i + 1 < p1 /\ i + 1 < N => u[q - i] = s[N - 1 - i]
              /\ i < q /\ ~(i + 1 < p1 /\ i + 1 < N) => IsOld(u[q - i])
              /\ ~(i < q) /\ i + 1 < p1 /\ i + 1 < N => IsOld(s[N - 1 - i])
  <2>1. i < q /\ i + 1 < p1 /\ i + 1 < N => u[q - i] = s[N - 1 - i]
    BY <1>6, <1>8, <1>9
  <2>2. i < q /\ ~(i + 1 < p1 /\ i + 1 < N) => IsOld(u[q - i])
    BY <1>6, <1>8, <1>9
  <2>3. ASSUME ~(i < q), i < p, i + 1 < N PROVE IsOld(s[N - 1 - i])
    <3>1. CASE i < m
      <4>1. m - i \in 1..m - q /\ q # MaxCount - 1
        BY <1>1, <1>5, <2>3, <3>1
      <4> QED
        BY <1>4, <1>6, <2>3, <3>1, <4>1
    <3>2. CASE ~(i < m)
      BY <1>6, <2>3, <3>2
    <3> QED
      BY <3>1, <3>2
  <2> QED
    BY <1>8, <2>1, <2>2, <2>3
<1>11. ASSUME NEW j \in Nat
       PROVE  /\ j < q + 1 /\ j < p1 /\ j < N => u[q + 1 - j] = s[N - j]
              /\ j < q + 1 /\ ~(j < p1 /\ j < N) => IsOld(u[q + 1 - j])
              /\ ~(j < q + 1) /\ j < p1 /\ j < N => IsOld(s[N - j])
  <2>1. CASE j = 0
    <3>1. 0 < q + 1 /\ 0 < p1 /\ 0 < N /\ q + 1 - 0 = q + 1 /\ N - 0 = N
      BY <1>1, <1>5, <1>7
    <3> QED
      BY <1>5, <2>1, <3>1
  <2>2. CASE j # 0
    <3> DEFINE i == j - 1
    <3>1. /\ i \in Nat /\ j = i + 1 /\ (j < q + 1 <=> i < q)
          /\ q + 1 - j = q - i /\ N - j = N - 1 - i
      BY <1>1, <1>5, <2>2
    <3> HIDE DEF i
    <3> QED
      BY <1>10, <3>1
  <2> QED
    BY <2>1, <2>2
<1>12. ASSUME NEW j \in Nat PROVE j + 0 = j /\ N - 0 - j = N - j
  BY <1>1
<1>13. Aligned(u, s, p1, 0)
  BY <1>4, <1>11, <1>12 DEF Aligned, N
<1> QED
  BY <1>13 DEF u, p1

\* A relay that was not in the list.
LEMMA AlignedFirst ==
  ASSUME NEW s, Times(s)
  PROVE  Aligned(<<Last(s)>>, s, 1, 0)
<1>1. Len(s) \in Nat /\ Len(s) > 0 /\ Last(s) = s[Len(s)] /\ Last(s) \in Ages
  BY LastIsNewest
<1>2. Len(<<Last(s)>>) = 1 /\ <<Last(s)>>[1] = s[Len(s)]
  BY <1>1
<1>3. ASSUME NEW j \in Nat, j # 0 PROVE ~(j < 1)
  BY <1>3
<1>4. 1 - 0 = 1 /\ Len(s) - 0 - 0 = Len(s) /\ 0 < 1 /\ 0 + 0 < Len(s)
  BY <1>1
<1> QED
  BY <1>2, <1>3, <1>4 DEF Aligned

\* A tick later.
LEMMA AlignedOlder ==
  ASSUME NEW r, Times(r), NEW s, Times(s), NEW p \in Nat, NEW d \in {0, 1}, Aligned(r, s, p, d)
  PROVE  Aligned([i \in DOMAIN r |-> Older(r[i])], [i \in DOMAIN s |-> Older(s[i])], p, d)
<1> DEFINE m == Len(r)
           N == Len(s)
           r1 == [i \in DOMAIN r |-> Older(r[i])]
           s1 == [i \in DOMAIN s |-> Older(s[i])]
<1>1. /\ m \in Nat /\ N \in Nat /\ (\A i \in 1..m : r[i] \in Ages) /\ \A i \in 1..N : s[i] \in Ages
  BY LastIsNewest
<1>2. /\ Len(r1) = m /\ \A i \in 1..m : r1[i] = Older(r[i])
      /\ Len(s1) = N /\ \A i \in 1..N : s1[i] = Older(s[i])
  BY OlderTimes
<1>3. ASSUME NEW j \in Nat
      PROVE  /\ j < m /\ j < p /\ j + d < N => r[m - j] = s[N - d - j]
             /\ j < m /\ ~(j < p /\ j + d < N) /\ j + d < MaxCount => IsOld(r[m - j])
             /\ ~(j < m) /\ j < p /\ j + d < N => IsOld(s[N - d - j])
  BY DEF Aligned
<1> HIDE DEF m, N, r1, s1
<1>4. ASSUME NEW j \in Nat
      PROVE  /\ j < m => m - j \in 1..m
             /\ j + d < N => N - d - j \in 1..N
  BY <1>1
<1>5. ASSUME NEW j \in Nat
      PROVE  /\ j < m /\ j < p /\ j + d < N => r1[m - j] = s1[N - d - j]
             /\ j < m /\ ~(j < p /\ j + d < N) /\ j + d < MaxCount => IsOld(r1[m - j])
             /\ ~(j < m) /\ j < p /\ j + d < N => IsOld(s1[N - d - j])
  BY <1>1, <1>2, <1>3, <1>4, OlderAges
<1>6. Aligned(r1, s1, p, d)
  BY <1>2, <1>5 DEF Aligned
<1> QED
  BY <1>6 DEF r1, s1

\* Two sequences with the same items from the last, but for old ones, are the
\* same to _remove_old.
LEMMA SameNotOld ==
  ASSUME NEW r \in Seq(Ages), Ordered(r), NEW w \in Seq(Ages), Ordered(w),
         \A j \in Nat :
           /\ j < Len(r) /\ j < Len(w) => r[Len(r) - j] = w[Len(w) - j]
           /\ j < Len(r) /\ ~(j < Len(w)) => IsOld(r[Len(r) - j])
           /\ ~(j < Len(r)) /\ j < Len(w) => IsOld(w[Len(w) - j])
  PROVE  NotOld(r) = NotOld(w)
<1> DEFINE m == Len(r)
           n == Len(w)
<1>1. /\ m \in Nat /\ n \in Nat
      /\ (\A i \in 1..m : r[i] \in Ages) /\ \A i \in 1..n : w[i] \in Ages
  BY ElementOfSeq, LenProperties
<1>2. PICK k \in 1..m + 1 :
        /\ \A i \in 1..k - 1 : IsOld(r[i])
        /\ \A i \in k..m : ~IsOld(r[i])
  BY FirstNotOld
<1>3. PICK l \in 1..n + 1 :
        /\ \A i \in 1..l - 1 : IsOld(w[i])
        /\ \A i \in l..n : ~IsOld(w[i])
  BY FirstNotOld
<1>4. NotOld(r) = SubSeq(r, k, m) /\ NotOld(w) = SubSeq(w, l, n)
  BY <1>2, <1>3, NotOldIsAnEnd
<1> HIDE DEF m, n
<1>5. ASSUME NEW j \in Nat
      PROVE  /\ j < m /\ j < n => r[m - j] = w[n - j]
             /\ j < m /\ ~(j < n) => IsOld(r[m - j])
             /\ ~(j < m) /\ j < n => IsOld(w[n - j])
  BY DEF m, n
<1>6. /\ k \in Nat /\ 1 <= k /\ k <= m + 1 /\ l \in Nat /\ 1 <= l /\ l <= n + 1
  BY <1>1, <1>2, <1>3
<1>7. ~(m - k > n - l)
  <2> SUFFICES ASSUME m - k > n - l PROVE FALSE
    OBVIOUS
  <2> DEFINE j == n - l + 1
  <2>1. j \in Nat /\ j <= m - k /\ j < m /\ m - j \in k..m /\ j <= n
    BY <1>1, <1>6
  <2>2. (l = 1 => ~(j < n)) /\ (l # 1 => j < n /\ n - j = l - 1 /\ l - 1 \in 1..l - 1)
    BY <1>1, <1>6
  <2> HIDE DEF j
  <2>3. ~IsOld(r[m - j])
    BY <1>2, <2>1
  <2>4. l # 1
    BY <1>5, <2>1, <2>2, <2>3
  <2>5. r[m - j] = w[n - j]
    BY <1>5, <2>1, <2>2, <2>4
  <2>6. IsOld(w[n - j])
    BY <1>3, <2>2, <2>4
  <2> QED
    BY <2>3, <2>5, <2>6
<1>8. ~(n - l > m - k)
  <2> SUFFICES ASSUME n - l > m - k PROVE FALSE
    OBVIOUS
  <2> DEFINE j == m - k + 1
  <2>1. j \in Nat /\ j <= n - l /\ j < n /\ n - j \in l..n /\ j <= m
    BY <1>1, <1>6
  <2>2. (k = 1 => ~(j < m)) /\ (k # 1 => j < m /\ m - j = k - 1 /\ k - 1 \in 1..k - 1)
    BY <1>1, <1>6
  <2> HIDE DEF j
  <2>3. ~IsOld(w[n - j])
    BY <1>3, <2>1
  <2>4. k # 1
    BY <1>5, <2>1, <2>2, <2>3
  <2>5. r[m - j] = w[n - j]
    BY <1>5, <2>1, <2>2, <2>4
  <2>6. IsOld(r[m - j])
    BY <1>2, <2>2, <2>4
  <2> QED
    BY <2>3, <2>5, <2>6
<1>9. m - k = n - l
  BY <1>1, <1>6, <1>7, <1>8
<1> DEFINE a == SubSeq(r, k, m)
           b == SubSeq(w, l, n)
<1>10. a \in Seq(Ages) /\ Len(a) = m - k + 1 /\ \A i \in 1..m - k + 1 : a[i] = r[k + i - 1]
  <2>1. \A i \in k..m : r[i] \in Ages
    BY <1>1, <1>6
  <2>2. k \in Int /\ m \in Int /\ (IF k <= m THEN m - k + 1 ELSE 0) = m - k + 1
    BY <1>1, <1>6
  <2> QED
    BY <2>1, <2>2, SubSeqProperties
<1>11. b \in Seq(Ages) /\ Len(b) = n - l + 1 /\ \A i \in 1..n - l + 1 : b[i] = w[l + i - 1]
  <2>1. \A i \in l..n : w[i] \in Ages
    BY <1>1, <1>6
  <2>2. l \in Int /\ n \in Int /\ (IF l <= n THEN n - l + 1 ELSE 0) = n - l + 1
    BY <1>1, <1>6
  <2> QED
    BY <2>1, <2>2, SubSeqProperties
<1> HIDE DEF a, b
<1>12. ASSUME NEW i \in 1..m - k + 1 PROVE a[i] = b[i]
  <2> DEFINE j == m - k + 1 - i
  <2>1. /\ j \in Nat /\ j < m /\ j < n /\ m - j = k + i - 1 /\ n - j = l + i - 1
        /\ i \in 1..n - l + 1
    BY <1>1, <1>6, <1>9
  <2> HIDE DEF j
  <2> QED
    BY <1>5, <1>10, <1>11, <2>1
<1>13. a = b
  <2>1. Len(a) = Len(b) /\ \A i \in 1..Len(a) : a[i] = b[i]
    BY <1>9, <1>10, <1>11, <1>12
  <2> QED
    BY <1>10, <1>11, <2>1, SeqEqual
<1> QED
  BY <1>4, <1>13 DEF a, b

\* The last times of a sequence.
LEMMA LastOfTimes ==
  ASSUME NEW s, Times(s), NEW p \in Nat, p > 0
  PROVE  LET w == LastOf(s, p)
         IN  /\ w \in Seq(Ages) /\ Ordered(w)
             /\ \A j \in Nat : j < Len(w) <=> j < p /\ j < Len(s)
             /\ \A j \in Nat : j < Len(w) => w[Len(w) - j] = s[Len(s) - j]
<1> DEFINE w == LastOf(s, p)
           N == Len(s)
           n == IF N > p THEN p ELSE N
           first == N - n + 1
<1>1. N \in Nat /\ N > 0 /\ \A i \in 1..N : s[i] \in Ages /\ s[i] \in Nat
  BY LastIsNewest
<1>2. DOMAIN s = 1..N
  BY LastIsNewest
<1> HIDE DEF N
<1>3. n \in Nat /\ n > 0 /\ n <= N /\ \A j \in Nat : j < n <=> j < p /\ j < N
  BY <1>1
<1>4. (IF N > p THEN N - p + 1 ELSE 1) = first
  BY <1>1
<1> HIDE DEF n
<1>5. first \in Int /\ N \in Int /\ first >= 1 /\ first <= N /\ N - first + 1 = n
  BY <1>1, <1>3
<1>6. w = SubSeq(s, first, N)
  BY <1>4 DEF LastOf, N
<1> HIDE DEF w
<1>7. w \in Seq(Ages) /\ Len(w) = n /\ \A i \in 1..n : w[i] = s[first + i - 1]
  <2>1. \A i \in first..N : s[i] \in Ages
    BY <1>1, <1>5
  <2> HIDE DEF first
  <2> QED
    BY <1>5, <1>6, <2>1, SubSeqProperties
<1>8. ASSUME NEW i \in 1..n PROVE first + i - 1 = N - n + i /\ N - n + i \in 1..N
  BY <1>1, <1>3
<1>9. \A i \in 1..n : w[i] = s[N - n + i] /\ N - n + i \in 1..N
  BY <1>7, <1>8
<1>10. Ordered(w)
  <2>1. ASSUME NEW i \in 1..n, NEW j \in 1..n, i < j PROVE w[j] <= w[i]
    <3>1. N - n + i < N - n + j
      BY <1>1, <1>3, <2>1
    <3> QED
      BY <1>2, <1>9, <3>1 DEF Times, Ordered
  <2>2. DOMAIN w = 1..n
    BY <1>7, LenProperties
  <2> QED
    BY <2>1, <2>2 DEF Ordered
<1>11. ASSUME NEW j \in Nat, j < n PROVE w[n - j] = s[N - j]
  <2>1. n - j \in 1..n /\ N - n + (n - j) = N - j
    BY <1>1, <1>3, <1>11
  <2> QED
    BY <1>9, <2>1
<1>12. /\ w \in Seq(Ages) /\ Ordered(w)
       /\ \A j \in Nat : j < Len(w) <=> j < p /\ j < N
       /\ \A j \in Nat : j < Len(w) => w[Len(w) - j] = s[N - j]
  BY <1>3, <1>7, <1>10, <1>11
<1> QED
  BY <1>12 DEF w, N

\* What relay_in_recent_consensus_count is counted from.
LEMMA AlignedCounts ==
  ASSUME NEW r, Times(r), NEW s, Times(s), NEW p \in Nat, p > 0, Aligned(r, s, p, 0)
  PROVE  NotOld(r) = NotOld(LastOf(s, p))
<1> DEFINE w == LastOf(s, p)
<1>1. /\ w \in Seq(Ages) /\ Ordered(w)
      /\ \A j \in Nat : j < Len(w) <=> j < p /\ j < Len(s)
      /\ \A j \in Nat : j < Len(w) => w[Len(w) - j] = s[Len(s) - j]
  BY LastOfTimes
<1> HIDE DEF w
<1>2. Len(r) \in Nat /\ Len(r) <= MaxCount /\ Len(s) \in Nat /\ MaxCount \in Nat
  BY LastIsNewest, TimeAssumption
<1>3. ASSUME NEW j \in Nat
      PROVE  /\ j + 0 = j /\ Len(s) - 0 - j = Len(s) - j
             /\ j < Len(r) => j < MaxCount
  BY <1>2
<1>4. \A j \in Nat :
        /\ j < Len(r) /\ j < p /\ j < Len(s) => r[Len(r) - j] = s[Len(s) - j]
        /\ j < Len(r) /\ ~(j < p /\ j < Len(s)) => IsOld(r[Len(r) - j])
        /\ ~(j < Len(r)) /\ j < p /\ j < Len(s) => IsOld(s[Len(s) - j])
  BY <1>3 DEF Aligned
<1>5. \A j \in Nat :
        /\ j < Len(r) /\ j < Len(w) => r[Len(r) - j] = w[Len(w) - j]
        /\ j < Len(r) /\ ~(j < Len(w)) => IsOld(r[Len(r) - j])
        /\ ~(j < Len(r)) /\ j < Len(w) => IsOld(w[Len(w) - j])
  BY <1>1, <1>4
<1>6. r \in Seq(Ages) /\ Ordered(r)
  BY DEF Times
<1>7. NotOld(r) = NotOld(w)
  BY <1>1, <1>5, <1>6, SameNotOld
<1> QED
  BY <1>7 DEF w

\* The times of every relay of the list are those of the consensuses it has been
\* in; between the two assignments of a refresh, but for the last one.
PresenceInv ==
  /\ presence \in [Fingerprints -> 0..MaxCount]
  /\ DOMAIN relays = {fp \in Fingerprints : presence[fp] > 0}
  /\ (\A t \in Threads : pc[t] # "list") =>
       \A fp \in DOMAIN relays : Aligned(relays[fp], recentConsensus, presence[fp], 0)
  /\ (\E t \in Threads : pc[t] = "list") =>
       \A fp \in DOMAIN relays : Aligned(relays[fp], recentConsensus, presence[fp], 1)

\* Every step keeps the times of the relays those of the consensuses.
LEMMA PresenceStep ==
  ASSUME ThreadsInv, TimesInv, PresenceInv, [Next]_vars
  PROVE  PresenceInv'
<1>0. MaxCount \in Nat \ {0}
  BY TimeAssumption
<1>1. ASSUME NEW t \in Threads, GetStatuses(t) PROVE PresenceInv'
  <2>1. /\ Goes(t, "statuses", "list") /\ relays' = relays /\ presence' = presence
        /\ recentConsensus' = Updated(recentConsensus, 0)
    BY <1>1 DEF GetStatuses, RecordConsensus, listVars
  <2>2. pc'[t] = "list" /\ \A u \in Threads : pc[u] # "list"
    BY <2>1 DEF ThreadsInv, Goes, Refreshing
  <2>3. 0 \in Ages /\ \A i \in 1..Len(recentConsensus) : 0 <= recentConsensus[i]
    <3>1. \A i \in 1..Len(recentConsensus) : recentConsensus[i] \in Nat
      BY LastIsNewest DEF TimesInv
    <3>2. 0 \in Ages
      BY TimeAssumption DEF Ages
    <3> QED
      BY <3>1, <3>2
  <2>4. ASSUME NEW fp \in DOMAIN relays
        PROVE  Aligned(relays[fp], recentConsensus', presence[fp], 1)
    <3>1. Times(relays[fp]) /\ Times(recentConsensus) /\ presence[fp] \in Nat
      BY DEF TimesInv, PresenceInv
    <3>2. Aligned(relays[fp], recentConsensus, presence[fp], 0)
      BY <2>2 DEF PresenceInv
    <3> QED
      BY <2>1, <2>3, <3>1, <3>2, AlignedRecorded
  <2> QED
    BY <2>1, <2>2, <2>4 DEF PresenceInv
<1>2. ASSUME NEW t \in Threads, SetList(t) PROVE PresenceInv'
  <2>1. /\ Goes(t, "list", "minbw") /\ relays' = NewList
        /\ recentConsensus' = recentConsensus
        /\ presence' = [fp \in Fingerprints |->
                    IF fp \notin statuses THEN 0
                    ELSE IF presence[fp] < MaxCount THEN presence[fp] + 1 ELSE MaxCount]
    BY <1>2 DEF SetList
  <2>2. pc[t] = "list" /\ \A u \in Threads : pc'[u] # "list"
    BY <2>1 DEF ThreadsInv, Goes, Refreshing
  <2>3. \A fp \in Fingerprints : presence[fp] \in Nat /\ presence[fp] <= MaxCount
    BY <1>0 DEF PresenceInv
  <2>4. presence' \in [Fingerprints -> 0..MaxCount]
    <3>1. ASSUME NEW fp \in Fingerprints
          PROVE  (IF fp \notin statuses THEN 0
                  ELSE IF presence[fp] < MaxCount THEN presence[fp] + 1 ELSE MaxCount) \in 0..MaxCount
      BY <1>0, <2>3
    <3> QED
      BY <2>1, <3>1
  <2>5. DOMAIN relays' = statuses /\ statuses \subseteq Fingerprints
    BY <2>1 DEF NewList, TimesInv
  <2>6. ASSUME NEW fp \in Fingerprints PROVE presence'[fp] > 0 <=> fp \in statuses
    BY <1>0, <2>1, <2>3
  <2>7. ASSUME NEW fp \in statuses
        PROVE  Aligned(relays'[fp], recentConsensus', presence'[fp], 0)
    <3>1. fp \in Fingerprints /\ Times(recentConsensus)
      BY DEF TimesInv
    <3>2. presence'[fp] = IF presence[fp] < MaxCount THEN presence[fp] + 1 ELSE MaxCount
      BY <2>1, <3>1
    <3>3. CASE fp \in DOMAIN relays
      <4>1. Times(relays[fp]) /\ Last(recentConsensus) <= Last(relays[fp])
        BY <3>3 DEF TimesInv
      <4>2. Aligned(relays[fp], recentConsensus, presence[fp], 1) /\ presence[fp] \in 0..MaxCount
        BY <2>2, <3>1, <3>3 DEF PresenceInv
      <4>3. relays'[fp] = Updated(relays[fp], Last(recentConsensus))
        BY <2>1, <3>3 DEF NewList
      <4> QED
        BY <2>1, <3>1, <3>2, <4>1, <4>2, <4>3, AlignedUpdated
    <3>4. CASE fp \notin DOMAIN relays
      <4>1. relays'[fp] = <<Last(recentConsensus)>>
        BY <2>1, <3>4 DEF NewList
      <4>2. ~(presence[fp] > 0)
        BY <3>1, <3>4 DEF PresenceInv
      <4>3. presence'[fp] = 1
        BY <1>0, <2>3, <3>1, <3>2, <4>2
      <4> QED
        BY <2>1, <3>1, <4>1, <4>3, AlignedFirst
    <3> QED
      BY <3>3, <3>4
  <2> QED
    BY <2>2, <2>4, <2>5, <2>6, <2>7 DEF PresenceInv
<1>3. CASE Tick
  <2>1. /\ recentConsensus' = [i \in DOMAIN recentConsensus |-> Older(recentConsensus[i])]
        /\ relays' = [fp \in DOMAIN relays |->
                        [i \in DOMAIN relays[fp] |-> Older(relays[fp][i])]]
        /\ presence' = presence /\ pc' = pc
    BY <1>3 DEF Tick
  <2>2. DOMAIN relays' = DOMAIN relays
    BY <2>1
  <2>3. ASSUME NEW fp \in DOMAIN relays, NEW d \in {0, 1},
               Aligned(relays[fp], recentConsensus, presence[fp], d)
        PROVE  Aligned(relays'[fp], recentConsensus', presence'[fp], d)
    <3>1. Times(relays[fp]) /\ Times(recentConsensus) /\ presence[fp] \in Nat
      BY DEF TimesInv, PresenceInv
    <3>2. relays'[fp] = [i \in DOMAIN relays[fp] |-> Older(relays[fp][i])]
      BY <2>1
    <3> QED
      BY <2>1, <2>3, <3>1, <3>2, AlignedOlder
  <2> QED
    BY <2>1, <2>2, <2>3 DEF PresenceInv
<1>4. CASE ~Tick /\ \A t \in Threads : ~GetStatuses(t) /\ ~SetList(t)
  <2>1. UNCHANGED <<recentConsensus, relays, presence>>
    BY <1>4, ListSteps
  <2>2. \A u \in Threads : pc'[u] = "list" <=> pc[u] = "list"
    BY <1>4, OtherPcs
  <2> QED
    BY <2>1, <2>2 DEF PresenceInv
<1> QED
  BY <1>1, <1>2, <1>3, <1>4

\* relay_in_recent_consensus_count: with no refresh under way every relay of the
\* list has the times of the last consensuses since it came back to them, and
\* none from before, and a relay that is not in the last consensus is not listed.
THEOREM CountsConsecutiveHolds == Spec => []CountsConsecutive
<1>1. Init => PresenceInv
  <2> SUFFICES ASSUME Init PROVE PresenceInv
    OBVIOUS
  <2>1. 0 \in Ages /\ MaxCount \in Nat \ {0}
    BY TimeAssumption DEF Ages
  <2>2. Times(<<0>>) /\ Last(<<0>>) = 0
    BY <2>1, OneTime
  <2>3. Aligned(<<0>>, <<0>>, 1, 0)
    BY <2>2, AlignedFirst
  <2>4. presence = [fp \in Fingerprints |-> IF fp \in consensus.relays THEN 1 ELSE 0]
    BY DEF Init
  <2>5. DOMAIN relays = consensus.relays /\ consensus.relays \subseteq Fingerprints
        /\ recentConsensus = <<0>> /\ \A fp \in DOMAIN relays : relays[fp] = <<0>>
    BY ConsensusesAssumption DEF Init
  <2>6. \A t \in Threads : pc[t] = "idle"
    BY DEF Init
  <2>7. presence \in [Fingerprints -> 0..MaxCount]
    BY <2>1, <2>4
  <2>8. \A fp \in Fingerprints : presence[fp] > 0 <=> fp \in consensus.relays
    BY <2>4
  <2>9. \A fp \in DOMAIN relays : Aligned(relays[fp], recentConsensus, presence[fp], 0)
    BY <2>3, <2>4, <2>5
  <2> QED
    BY <2>5, <2>6, <2>7, <2>8, <2>9 DEF PresenceInv
<1>2. ListInv /\ PresenceInv /\ [Next]_vars => PresenceInv'
  BY PresenceStep DEF ListInv
<1>3. ListInv /\ PresenceInv => CountsConsecutive
  <2> SUFFICES ASSUME ListInv, PresenceInv, refreshLock = {} PROVE CountsConsecutive
    BY DEF CountsConsecutive
  <2>1. \A t \in Threads : pc[t] # "list"
    BY DEF ListInv, ThreadsInv, Refreshing
  <2>2. ASSUME NEW fp \in DOMAIN relays
        PROVE  NotOld(relays[fp]) = NotOld(LastOf(recentConsensus, presence[fp]))
    <3>1. Times(relays[fp]) /\ Times(recentConsensus)
      BY DEF ListInv, TimesInv
    <3>2. presence[fp] \in Nat /\ presence[fp] > 0
      BY DEF PresenceInv
    <3>3. Aligned(relays[fp], recentConsensus, presence[fp], 0)
      BY <2>1 DEF PresenceInv
    <3> QED
      BY <3>1, <3>2, <3>3, AlignedCounts
  <2> QED
    BY <2>2 DEF CountsConsecutive, PresenceInv
<1> QED
  BY <1>1, <1>2, <1>3, ListInvariant, PTL DEF Spec

=============================================================================
