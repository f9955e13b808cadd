------------------------- MODULE DestinationProofs -------------------------
(***************************************************************************)
(* What holds of Destination for any number of destinations and threads,   *)
(* any option and any cap: the types, and that the cap is exceeded only    *)
(* while a thread that will clamp it is on its way.                        *)
(***************************************************************************)
EXTENDS Destination, FiniteSetTheorems, TLAPS

\* The number of failures is a positive natural number.
LEMMA MaxNumFailuresType == MaxNumFailures \in Nat \ {0}
<1>1. Cardinality(Threads) \in Nat
  BY FS_CardinalityType, ThreadsAssumption
<1>2. Cardinality(Threads) # 0
  BY FS_EmptySet, ThreadsAssumption
<1> DEFINE c == Cardinality(Threads)
<1>3. \A m, n \in Nat \ {0} : m * n \in Nat \ {0}
  OBVIOUS
<1>4. QED
  BY <1>1, <1>2, <1>3, FailuresAssumption DEF MaxNumFailures

\* A deque keeps values of its type, one at least, and n at most.
LEMMA LastOfType ==
  ASSUME NEW n \in Nat \ {0}, NEW s \in Seq(BOOLEAN), Len(s) > 0
  PROVE  LastOf(n, s) \in Seq(BOOLEAN) /\ Len(LastOf(n, s)) \in 1..n
<1>1. CASE Len(s) <= n
  BY <1>1 DEF LastOf
<1>2. CASE ~(Len(s) <= n)
  <2>1. LastOf(n, s) = SubSeq(s, Len(s) - n + 1, Len(s))
    BY <1>2 DEF LastOf
  <2>2. Len(s) - n + 1 \in 1..Len(s)
    BY <1>2
  <2>3. QED
    BY <2>1, <2>2
<1>3. QED
  BY <1>1, <1>2

\* The initial state has the types.
LEMMA InitType == Init => TypeOK
<1> SUFFICES ASSUME Init PROVE TypeOK
  OBVIOUS
<1>1. 1 \in Dests
  BY DestsAssumption DEF Dests
<1>2. MaxNumFailures \in Nat
  BY MaxNumFailuresType
<1>3. <<TRUE>> \in Seq(BOOLEAN) /\ Len(<<TRUE>>) = 1
  OBVIOUS
<1>4. QED
  BY <1>1, <1>2, <1>3, StoredAssumption, DeltaAssumption, AgoAssumption
     DEF Init, TypeOK, Pcs, Calls

\* An attempt has the types.
LEMMA RecordType ==
  ASSUME TypeOK, NEW d \in Dests, NEW succeeded \in BOOLEAN, Record(d, succeeded)
  PROVE  /\ attempts' \in [Dests -> Seq(BOOLEAN)]
         /\ \A e \in Dests : Len(attempts'[e]) \in 1..NumAttemptsStored
         /\ ago' \in [Dests -> 0..MaxAgo]
         /\ delta' \in [Dests -> Nat]
         /\ streak' \in [Dests -> 0..MaxNumFailures]
         /\ suspect' \in SUBSET Dests
<1> DEFINE s == Append(attempts[d], succeeded)
<1>1. s \in Seq(BOOLEAN) /\ Len(s) > 0
  BY DEF TypeOK
<1>2. /\ LastOf(NumAttemptsStored, s) \in Seq(BOOLEAN)
      /\ Len(LastOf(NumAttemptsStored, s)) \in 1..NumAttemptsStored
  BY <1>1, LastOfType, StoredAssumption
<1>3. attempts' = [attempts EXCEPT ![d] = LastOf(NumAttemptsStored, s)]
  BY DEF Record
<1>4. /\ attempts' \in [Dests -> Seq(BOOLEAN)]
      /\ \A e \in Dests : Len(attempts'[e]) \in 1..NumAttemptsStored
  BY <1>2, <1>3 DEF TypeOK
<1>5. ago' \in [Dests -> 0..MaxAgo] /\ delta' \in [Dests -> Nat]
  BY AgoAssumption DEF Record, TypeOK
<1>6. streak' \in [Dests -> 0..MaxNumFailures]
  BY MaxNumFailuresType DEF Record, TypeOK
<1>7. suspect' \in SUBSET Dests
  BY DEF Record, TypeOK
<1>8. QED
  BY <1>4, <1>5, <1>6, <1>7

\* Each step of is_functional keeps the types.
LEMMA IsFunctionalType ==
  ASSUME TypeOK, NEW t \in Threads, IsFunctional(t)
  PROVE  TypeOK'
<1>1. dest[t] < NumDests => dest[t] + 1 \in Dests
  <2>1. dest[t] \in 1..NumDests
    BY DEF TypeOK, Dests
  <2>2. QED
    BY <2>1, DestsAssumption DEF Dests
<1> USE DEF TypeOK, Goes, historyVars
<1>2. 1 \in Dests
  BY DestsAssumption DEF Dests
<1>3. CASE NotFailing(t)
  BY <1>1, <1>2, <1>3, DeltaAssumption DEF NotFailing, Returns, Pcs
<1>4. CASE Failing(t)
  BY <1>4 DEF Failing, destVars, Pcs
<1>5. CASE NotOldEnough(t)
  BY <1>1, <1>2, <1>5 DEF NotOldEnough, Returns, Pcs
<1>6. CASE OldEnough(t)
  BY <1>6 DEF OldEnough, destVars, Pcs
<1>7. CASE Increment(t)
  BY <1>7 DEF Increment, destVars, Pcs
<1>8. CASE Store(t)
  BY <1>8, FactorAssumption DEF Store, Pcs
<1>9. CASE UnderTheCap(t)
  BY <1>1, <1>2, <1>9 DEF UnderTheCap, Returns, Pcs
<1>10. CASE OverTheCap(t)
  BY <1>10 DEF OverTheCap, destVars, Pcs
<1>11. CASE Clamp(t)
  BY <1>1, <1>2, <1>11, DeltaAssumption DEF Clamp, Returns, Pcs
<1>12. QED
  BY <1>3, <1>4, <1>5, <1>6, <1>7, <1>8, <1>9, <1>10, <1>11 DEF IsFunctional

\* Each other step of a thread keeps the types.
LEMMA MeasureType ==
  ASSUME TypeOK, NEW t \in Threads, Measure(t)
  PROVE  TypeOK'
<1> USE DEF TypeOK, Goes, Done, List, historyVars, Pcs, Calls
<1>1. 1 \in Dests
  BY DestsAssumption DEF Dests
<1>2. CASE Dispatch(t)
  BY <1>2 DEF Dispatch, destVars
<1>3. CASE NoneFunctional(t)
  BY <1>1, <1>3 DEF NoneFunctional, destVars
<1>4. CASE Dispatched(t)
  BY <1>4 DEF Dispatched, destVars
<1>5. CASE NoSession(t)
  BY <1>1, <1>5 DEF NoSession, destVars
<1>6. CASE NextCondition(t)
  BY <1>1, <1>6 DEF NextCondition, destVars
<1>7. CASE NextChoice(t)
  BY <1>1, <1>7 DEF NextChoice, destVars
<1>8. ASSUME NEW d \in Dests, Choose(t, d) PROVE TypeOK'
  BY <1>8 DEF Choose, destVars
<1>9. CASE ChooseRaises(t)
  BY <1>1, <1>9 DEF ChooseRaises, destVars
<1>10. ASSUME NEW succeeded \in BOOLEAN, Connect(t, succeeded) PROVE TypeOK'
  <2>1. dest[t] \in Dests /\ Record(dest[t], succeeded)
    BY <1>10 DEF Connect
  <2>2. /\ attempts' \in [Dests -> Seq(BOOLEAN)]
        /\ \A e \in Dests : Len(attempts'[e]) \in 1..NumAttemptsStored
        /\ ago' \in [Dests -> 0..MaxAgo]
        /\ delta' \in [Dests -> Nat]
        /\ streak' \in [Dests -> 0..MaxNumFailures]
        /\ suspect' \in SUBSET Dests
    BY <2>1, RecordType
  <2>3. QED
    BY <1>1, <1>10, <2>2 DEF Connect
<1>11. CASE ConnectFailsAsExit(t)
  <2>1. dest[t] \in Dests /\ Record(dest[t], FALSE)
    BY <1>11 DEF ConnectFailsAsExit
  <2>2. /\ attempts' \in [Dests -> Seq(BOOLEAN)]
        /\ \A e \in Dests : Len(attempts'[e]) \in 1..NumAttemptsStored
        /\ ago' \in [Dests -> 0..MaxAgo]
        /\ delta' \in [Dests -> Nat]
        /\ streak' \in [Dests -> 0..MaxNumFailures]
        /\ suspect' \in SUBSET Dests
    BY <2>1, RecordType
  <2>3. QED
    BY <1>11, <2>2 DEF ConnectFailsAsExit
<1>12. CASE NoAttempt(t)
  BY <1>1, <1>12 DEF NoAttempt, destVars
<1>13. QED
  BY <1>2, <1>3, <1>4, <1>5, <1>6, <1>7, <1>8, <1>9, <1>10, <1>11, <1>12
     DEF Measure

\* Every step keeps the types.
LEMMA NextType == TypeOK /\ [Next]_vars => TypeOK'
<1> SUFFICES ASSUME TypeOK, [Next]_vars PROVE TypeOK'
  OBVIOUS
<1>1. CASE Tick
  <2>1. ago' \in [Dests -> 0..MaxAgo]
    BY <1>1, AgoAssumption DEF Tick, TypeOK
  <2>2. QED
    BY <1>1, <2>1 DEF Tick, TypeOK, threadVars, historyVars
<1>2. ASSUME NEW t \in Threads, IsFunctional(t) \/ Measure(t) PROVE TypeOK'
  BY <1>2, IsFunctionalType, MeasureType
<1>3. CASE UNCHANGED vars
  BY <1>3 DEF TypeOK, vars, destVars, threadVars, historyVars
<1>4. QED
  BY <1>1, <1>2, <1>3 DEF Next

\* Every variable keeps its type.
THEOREM DestinationTypes == Spec => []TypeOK
<1>1. QED
  BY InitType, NextType, PTL DEF Spec

-----------------------------------------------------------------------------
(***************************************************************************)
(* The cap. A step that leaves delta above it leaves its thread between    *)
(* the multiplication and the clamp, and no other thread leaves that       *)
(* place but by finding delta under the cap or by putting it there.        *)
(***************************************************************************)

\* A step that does not change delta and takes no thread away from the
\* clamping keeps the cap.
LEMMA CapKept ==
  ASSUME CappedAtRest, UNCHANGED delta,
         \A u \in Threads : pc[u] \in {"cap", "clamp"} =>
            pc'[u] \in {"cap", "clamp"} /\ dest'[u] = dest[u]
  PROVE  CappedAtRest'
BY DEF CappedAtRest, Capping

\* Each step of is_functional keeps the cap.
LEMMA IsFunctionalCapped ==
  ASSUME TypeOK, CappedAtRest, NEW t \in Threads, IsFunctional(t)
  PROVE  CappedAtRest'
<1>1. /\ delta \in [Dests -> Nat] /\ dest[t] \in Dests
      /\ pc \in [Threads -> Pcs] /\ dest \in [Threads -> Dests]
  BY DEF TypeOK
<1>2. CASE NotFailing(t)
  BY <1>1, <1>2, DeltaAssumption
     DEF NotFailing, Returns, Goes, CappedAtRest, Capping
<1>3. CASE Failing(t)
  BY <1>1, <1>3, CapKept DEF Failing, Goes, destVars
<1>4. CASE NotOldEnough(t)
  BY <1>1, <1>4, CapKept DEF NotOldEnough, Returns, Goes
<1>5. CASE OldEnough(t)
  BY <1>1, <1>5, CapKept DEF OldEnough, Goes, destVars
<1>6. CASE Increment(t)
  BY <1>1, <1>6, CapKept DEF Increment, Goes, destVars
<1>7. CASE Store(t)
  BY <1>1, <1>7 DEF Store, Goes, CappedAtRest, Capping
<1>8. CASE UnderTheCap(t)
  BY <1>1, <1>8 DEF UnderTheCap, OverCap, Returns, Goes, CappedAtRest, Capping
<1>9. CASE OverTheCap(t)
  BY <1>1, <1>9, CapKept DEF OverTheCap, Goes, destVars
<1>10. CASE Clamp(t)
  BY <1>1, <1>10, DeltaAssumption DEF Clamp, Returns, Goes, CappedAtRest, Capping
<1>11. QED
  BY <1>2, <1>3, <1>4, <1>5, <1>6, <1>7, <1>8, <1>9, <1>10 DEF IsFunctional

\* Every step keeps the cap.
LEMMA NextCapped == TypeOK /\ CappedAtRest /\ [Next]_vars => CappedAtRest'
<1> SUFFICES ASSUME TypeOK, CappedAtRest, [Next]_vars PROVE CappedAtRest'
  OBVIOUS
<1>1. pc \in [Threads -> Pcs] /\ dest \in [Threads -> Dests]
  BY DEF TypeOK
<1>2. ASSUME NEW t \in Threads, IsFunctional(t) PROVE CappedAtRest'
  BY <1>2, IsFunctionalCapped
<1>3. ASSUME NEW t \in Threads, Measure(t) PROVE CappedAtRest'
  <2>1. pc[t] \notin {"cap", "clamp"}
    BY <1>1, <1>3 DEF Measure, Dispatch, NoneFunctional, Dispatched, NoSession,
       NextCondition, NextChoice, Choose, ChooseRaises, Connect,
       ConnectFailsAsExit, NoAttempt, Goes
  <2>2. \A u \in Threads \ {t} : pc'[u] = pc[u] /\ dest'[u] = dest[u]
    BY <1>1, <1>3 DEF Measure, Dispatch, NoneFunctional, Dispatched, NoSession,
       NextCondition, NextChoice, Choose, ChooseRaises, Connect,
       ConnectFailsAsExit, NoAttempt, Goes, Done, List
  <2>3. UNCHANGED delta
    BY <1>3 DEF Measure, Dispatch, NoneFunctional, Dispatched, NoSession,
       NextCondition, NextChoice, Choose, ChooseRaises, Connect,
       ConnectFailsAsExit, NoAttempt, Record, destVars
  <2>4. QED
    BY <2>1, <2>2, <2>3, CapKept
<1>4. CASE Tick
  BY <1>4, CapKept DEF Tick, threadVars
<1>5. CASE UNCHANGED vars
  BY <1>5, CapKept DEF vars, destVars, threadVars
<1>6. QED
  BY <1>2, <1>3, <1>4, <1>5 DEF Next

\* The time between retries exceeds max_seconds_between_retries only while a
\* thread is about to clamp it, for any number of threads.
THEOREM CapHolds == Spec => []CappedAtRest
<1>1. Init => CappedAtRest
  BY DeltaAssumption DEF Init, CappedAtRest
<1>2. QED
  BY <1>1, InitType, NextType, NextCapped, PTL DEF Spec

-----------------------------------------------------------------------------
(***************************************************************************)
(* The verdict. The deque says how many of the last attempts failed as     *)
(* long as it is not shorter than that number: behind the failures of a    *)
(* streak that is not over it still holds the success they follow.         *)
(***************************************************************************)

\* s ends in k failures, after a success unless k is n.
EndsInStreak(s, k, n) ==
  /\ k \in 0..n /\ k <= Len(s)
  /\ \A i \in 1..Len(s) : i > Len(s) - k => ~s[i]
  /\ k < n => k < Len(s) /\ s[Len(s) - k]

StreakInv ==
  MaxNumFailures <= NumAttemptsStored =>
     \A d \in Dests : EndsInStreak(attempts[d], streak[d], MaxNumFailures)

\* What the deque keeps is the end of what it held.
LEMMA LastOfItems ==
  ASSUME NEW n \in Nat \ {0}, NEW s \in Seq(BOOLEAN), Len(s) > 0
  PROVE  /\ Len(LastOf(n, s)) = IF Len(s) <= n THEN Len(s) ELSE n
         /\ \A i \in 1..Len(LastOf(n, s)) :
               LastOf(n, s)[i] = s[i + (Len(s) - Len(LastOf(n, s)))]
<1>1. CASE Len(s) <= n
  BY <1>1 DEF LastOf
<1>2. CASE ~(Len(s) <= n)
  <2>1. LastOf(n, s) = SubSeq(s, Len(s) - n + 1, Len(s))
    BY <1>2 DEF LastOf
  <2>2. Len(s) - n + 1 \in 1..Len(s)
    BY <1>2
  <2> QED
    BY <1>2, <2>1, <2>2
<1> QED
  BY <1>1, <1>2

\* Another attempt goes on with the streak or ends it...
LEMMA AppendStreak ==
  ASSUME NEW n \in Nat \ {0}, NEW s \in Seq(BOOLEAN), NEW k \in Nat,
         NEW x \in BOOLEAN, EndsInStreak(s, k, n)
  PROVE  EndsInStreak(Append(s, x), IF x THEN 0 ELSE IF k < n THEN k + 1 ELSE k, n)
<1> DEFINE t == Append(s, x)
<1>1. /\ Len(t) = Len(s) + 1 /\ t[Len(s) + 1] = x
      /\ \A i \in 1..Len(s) : t[i] = s[i]
  OBVIOUS
<1>2. Len(s) \in Nat
  OBVIOUS
<1> HIDE DEF t
<1>3. CASE x
  BY <1>1, <1>2, <1>3 DEF EndsInStreak
<1>4. CASE ~x /\ k < n
  BY <1>1, <1>2, <1>4 DEF EndsInStreak
<1>5. CASE ~x /\ ~(k < n)
  BY <1>1, <1>2, <1>5 DEF EndsInStreak
<1> QED
  BY <1>3, <1>4, <1>5 DEF t

\* ...and what the deque drops is not of the streak.
LEMMA LastOfStreak ==
  ASSUME NEW n \in Nat \ {0}, NEW stored \in Nat \ {0}, n <= stored,
         NEW s \in Seq(BOOLEAN), Len(s) > 0, NEW k \in Nat, EndsInStreak(s, k, n)
  PROVE  EndsInStreak(LastOf(stored, s), k, n)
<1> DEFINE u == LastOf(stored, s)
<1>1. /\ Len(u) = IF Len(s) <= stored THEN Len(s) ELSE stored
      /\ \A i \in 1..Len(u) : u[i] = s[i + (Len(s) - Len(u))]
  BY LastOfItems
<1>2. Len(s) \in Nat /\ Len(u) \in Nat
  BY <1>1
<1> HIDE DEF u
<1>3. /\ k \in 0..n /\ k <= Len(s) /\ (k < n => k < Len(s) /\ s[Len(s) - k])
      /\ \A i \in 1..Len(s) : i > Len(s) - k => ~s[i]
  BY DEF EndsInStreak
<1>4. k <= Len(u) /\ (k < n => k < Len(u))
  BY <1>1, <1>2, <1>3
<1>5. ASSUME NEW i \in 1..Len(u), i > Len(u) - k
      PROVE  ~u[i]
  <2> DEFINE j == i + (Len(s) - Len(u))
  <2>0. i \in Nat /\ i >= 1 /\ i <= Len(u) /\ Len(u) <= Len(s)
    BY <1>1, <1>2
  <2>1. j \in 1..Len(s) /\ j > Len(s) - k
    BY <1>2, <1>5, <2>0
  <2>2. u[i] = s[j]
    BY <1>1
  <2> HIDE DEF j
  <2> QED
    BY <1>3, <2>1, <2>2
<1>6. ASSUME k < n
      PROVE  u[Len(u) - k]
  <2>1. Len(u) - k \in 1..Len(u)
    BY <1>2, <1>4, <1>6
  <2>2. Len(u) - k + (Len(s) - Len(u)) = Len(s) - k
    BY <1>2
  <2>3. u[Len(u) - k] = s[Len(s) - k]
    BY <1>1, <2>1, <2>2
  <2> QED
    BY <1>3, <1>6, <2>3
<1> QED
  BY <1>3, <1>4, <1>5, <1>6 DEF EndsInStreak, u

\* A destination is failing exactly when its streak is complete.
LEMMA FailuresOfStreak ==
  ASSUME NEW n \in Nat \ {0}, NEW s \in Seq(BOOLEAN), Len(s) > 0, NEW k \in Nat,
         EndsInStreak(s, k, n)
  PROVE  Cardinality({i \in DOMAIN LastOf(n, s) : ~LastOf(n, s)[i]}) >= n <=> k = n
<1> DEFINE u == LastOf(n, s)
           failures == {i \in DOMAIN u : ~u[i]}
<1>1. n <= n /\ EndsInStreak(u, k, n)
  BY LastOfStreak
<1>2. u \in Seq(BOOLEAN) /\ Len(u) \in 1..n /\ DOMAIN u = 1..Len(u)
  BY LastOfType
<1> HIDE DEF u
<1>3. /\ Len(u) \in Nat /\ IsFiniteSet(1..Len(u))
      /\ Cardinality(1..Len(u)) = Len(u)
  <2>1. Len(u) \in Nat /\ ~(1 > Len(u)) /\ Len(u) - 1 + 1 = Len(u)
    BY <1>2
  <2>2. Len(u) \in Int /\ 1 \in Int
    BY <2>1
  <2>3. /\ IsFiniteSet(1..Len(u))
        /\ Cardinality(1..Len(u)) = IF 1 > Len(u) THEN 0 ELSE Len(u) - 1 + 1
    BY <2>2, FS_Interval
  <2> QED
    BY <2>1, <2>3
<1>4. CASE k = n
  <2>0. n <= Len(u) /\ Len(u) \in 1..n
    BY <1>1, <1>2, <1>4 DEF EndsInStreak
  <2>1. Len(u) = n
    BY <1>3, <2>0
  <2>2. \A i \in 1..Len(u) : i > Len(u) - n
    BY <2>1
  <2>3. \A i \in 1..Len(u) : ~u[i]
    BY <1>1, <1>4, <2>2 DEF EndsInStreak
  <2>4. failures = 1..Len(u)
    BY <1>2, <2>3
  <2>5. Cardinality(failures) = n
    BY <1>3, <2>1, <2>4
  <2>6. Cardinality(failures) >= n
    BY <2>5
  <2> QED
    BY <1>4, <2>6 DEF u
<1>5. CASE k # n
  <2> DEFINE p == Len(u) - k
  <2>1. p \in 1..Len(u) /\ u[p]
    BY <1>1, <1>2, <1>5 DEF EndsInStreak
  <2>2. failures \subseteq (1..Len(u)) \ {p}
    BY <1>2, <2>1
  <2>3. /\ IsFiniteSet((1..Len(u)) \ {p})
        /\ Cardinality((1..Len(u)) \ {p}) = Len(u) - 1
    <3> DEFINE S == 1..Len(u)
    <3> HIDE DEF p, S
    <3>1. IsFiniteSet(S) /\ p \in S /\ Cardinality(S) = Len(u)
      BY <1>3, <2>1 DEF S
    <3>2. IsFiniteSet(S \ {p}) /\ Cardinality(S \ {p}) = Cardinality(S) - 1
      BY <3>1, FS_RemoveElement
    <3> QED
      BY <3>1, <3>2 DEF S
  <2>4. IsFiniteSet(failures) /\ Cardinality(failures) <= Len(u) - 1
    BY <2>2, <2>3, FS_Subset
  <2>5. Cardinality(failures) \in Nat
    BY <2>4, FS_CardinalityType
  <2>6. ~(Cardinality(failures) >= n)
    BY <1>2, <2>4, <2>5
  <2> QED
    BY <1>5, <2>6 DEF u
<1> QED
  BY <1>4, <1>5

\* An attempt keeps the streaks.
LEMMA RecordStreak ==
  ASSUME TypeOK, StreakInv, NEW d \in Dests, NEW succeeded \in BOOLEAN,
         Record(d, succeeded)
  PROVE  StreakInv'
<1> SUFFICES ASSUME MaxNumFailures <= NumAttemptsStored, NEW e \in Dests
             PROVE  EndsInStreak(attempts'[e], streak'[e], MaxNumFailures)
  BY DEF StreakInv
<1>1. /\ attempts \in [Dests -> Seq(BOOLEAN)] /\ streak \in [Dests -> 0..MaxNumFailures]
      /\ attempts' = [attempts EXCEPT ![d] = LastOf(NumAttemptsStored, Append(@, succeeded))]
      /\ streak' = [streak EXCEPT ![d] =
                      IF succeeded THEN 0
                      ELSE IF @ < MaxNumFailures THEN @ + 1 ELSE @]
  BY DEF Record, TypeOK
<1>2. EndsInStreak(attempts[e], streak[e], MaxNumFailures)
  BY DEF StreakInv
<1>3. CASE e # d
  BY <1>1, <1>2, <1>3
<1>4. CASE e = d
  <2> DEFINE s == Append(attempts[d], succeeded)
             k == IF succeeded THEN 0
                  ELSE IF streak[d] < MaxNumFailures THEN streak[d] + 1 ELSE streak[d]
  <2>1. MaxNumFailures \in Nat \ {0} /\ streak[d] \in Nat
    BY <1>1, MaxNumFailuresType
  <2>2. EndsInStreak(s, k, MaxNumFailures)
    BY <1>1, <1>2, <1>4, <2>1, AppendStreak
  <2>3. s \in Seq(BOOLEAN) /\ Len(s) > 0 /\ k \in Nat
    BY <1>1, <2>1
  <2>4. attempts'[d] = LastOf(NumAttemptsStored, s) /\ streak'[d] = k
    BY <1>1
  <2> HIDE DEF s, k
  <2>5. EndsInStreak(LastOf(NumAttemptsStored, s), k, MaxNumFailures)
    BY <2>1, <2>2, <2>3, StoredAssumption, LastOfStreak
  <2> QED
    BY <1>4, <2>4, <2>5
<1> QED
  BY <1>3, <1>4

\* What changes the attempts of a destination is the record of one.
LEMMA AttemptsFrame ==
  ASSUME TypeOK, [Next]_vars
  PROVE  \/ \E d \in Dests, succeeded \in BOOLEAN : Record(d, succeeded)
         \/ UNCHANGED <<attempts, streak, suspect>>
<1>1. ASSUME NEW t \in Threads, IsFunctional(t)
      PROVE  UNCHANGED <<attempts, streak, suspect>>
  BY <1>1 DEF IsFunctional, NotFailing, Failing, NotOldEnough, OldEnough, Increment,
     Store, UnderTheCap, OverTheCap, Clamp, Returns, destVars, historyVars
<1>2. ASSUME NEW t \in Threads, Measure(t)
      PROVE  \/ \E d \in Dests, succeeded \in BOOLEAN : Record(d, succeeded)
             \/ UNCHANGED <<attempts, streak, suspect>>
  <2>1. dest[t] \in Dests
    BY DEF TypeOK
  <2> QED
    BY <1>2, <2>1 DEF Measure, Dispatch, NoneFunctional, Dispatched, NoSession,
       NextCondition, NextChoice, Choose, ChooseRaises, Connect,
       ConnectFailsAsExit, NoAttempt, destVars, historyVars
<1>3. CASE Tick \/ UNCHANGED vars
  BY <1>3 DEF Tick, vars, destVars, historyVars
<1> QED
  BY <1>1, <1>2, <1>3 DEF Next

\* Every step keeps the streaks.
LEMMA NextStreak == TypeOK /\ StreakInv /\ [Next]_vars => StreakInv'
<1> SUFFICES ASSUME TypeOK, StreakInv, [Next]_vars PROVE StreakInv'
  OBVIOUS
<1>1. CASE \E d \in Dests, succeeded \in BOOLEAN : Record(d, succeeded)
  BY <1>1, RecordStreak
<1>2. CASE UNCHANGED <<attempts, streak, suspect>>
  BY <1>2 DEF StreakInv
<1> QED
  BY <1>1, <1>2, AttemptsFrame

\* The streaks begin with a success.
LEMMA InitStreak == Init => StreakInv
<1> SUFFICES ASSUME Init, NEW d \in Dests
             PROVE  EndsInStreak(attempts[d], streak[d], MaxNumFailures)
  BY DEF StreakInv
<1>1. attempts[d] = <<TRUE>> /\ streak[d] = 0
  BY DEF Init
<1>2. MaxNumFailures \in Nat \ {0}
  BY MaxNumFailuresType
<1> QED
  BY <1>1, <1>2 DEF EndsInStreak

\* The verdict of a deque that is long enough...
LEMMA VerdictOfStreak ==
  ASSUME TypeOK, StreakInv, MaxNumFailures <= NumAttemptsStored
  PROVE  VerdictMatchesStreak
<1> SUFFICES ASSUME NEW d \in Dests
             PROVE  AreLastAttemptsFailures(d) <=> streak[d] = MaxNumFailures
  BY DEF VerdictMatchesStreak
<1>1. /\ attempts[d] \in Seq(BOOLEAN) /\ Len(attempts[d]) > 0
      /\ streak[d] \in 0..MaxNumFailures
  BY StoredAssumption DEF TypeOK
<1>2. MaxNumFailures \in Nat \ {0} /\ streak[d] \in Nat
  BY <1>1, MaxNumFailuresType
<1>3. EndsInStreak(attempts[d], streak[d], MaxNumFailures)
  BY DEF StreakInv
<1> QED
  BY <1>1, <1>2, <1>3, FailuresOfStreak DEF AreLastAttemptsFailures

\* ...and of one that is not.
LEMMA ShortDequeNeverFails ==
  ASSUME TypeOK, MaxNumFailures > NumAttemptsStored, NEW d \in Dests
  PROVE  ~AreLastAttemptsFailures(d)
<1> DEFINE s == attempts[d]
           u == LastOf(MaxNumFailures, s)
           failures == {i \in DOMAIN u : ~u[i]}
<1>1. s \in Seq(BOOLEAN) /\ Len(s) \in 1..NumAttemptsStored
  BY DEF TypeOK
<1>2. MaxNumFailures \in Nat \ {0}
  BY MaxNumFailuresType
<1>3. u = s
  BY <1>1, <1>2, StoredAssumption DEF LastOf
<1>4. IsFiniteSet(1..Len(s)) /\ Cardinality(1..Len(s)) = Len(s)
  BY <1>1, FS_Interval
<1>5. IsFiniteSet(failures) /\ Cardinality(failures) <= Len(s)
  <2>1. failures \subseteq 1..Len(s)
    BY <1>1, <1>3
  <2> QED
    BY <1>4, <2>1, FS_Subset
<1>6. Cardinality(failures) \in Nat
  BY <1>5, FS_CardinalityType
<1> QED
  BY <1>1, <1>2, <1>5, <1>6, StoredAssumption DEF AreLastAttemptsFailures

\* A destination is failing when its last max_num_failures attempts, times the
\* number of threads, failed consecutively, if the deque is not shorter.
THEOREM VerdictHolds ==
  Spec => [](MaxNumFailures <= NumAttemptsStored => VerdictMatchesStreak)
<1>1. TypeOK /\ StreakInv => (MaxNumFailures <= NumAttemptsStored => VerdictMatchesStreak)
  BY VerdictOfStreak
<1> QED
  BY <1>1, InitType, NextType, InitStreak, NextStreak, PTL DEF Spec

\* If it is shorter, which nothing in the configuration forbids (ten attempts are
\* stored; four threads of three failures each make twelve), no destination is
\* ever failing, whatever happens to it.
THEOREM ShortDequeHidesFailures ==
  Spec => [](MaxNumFailures > NumAttemptsStored =>
               \A d \in Dests : ~AreLastAttemptsFailures(d))
<1>1. TypeOK => (MaxNumFailures > NumAttemptsStored =>
                   \A d \in Dests : ~AreLastAttemptsFailures(d))
  BY ShortDequeNeverFails
<1> QED
  BY <1>1, DestinationTypes, PTL

-----------------------------------------------------------------------------
(***************************************************************************)
(* The listings. What a thread has left behind in its listing and has      *)
(* never been suspect is in it.                                            *)
(***************************************************************************)
Evaluating == {"failing", "old", "increment", "store", "cap", "clamp"}

\* A complete streak makes a destination suspect.
StreaksSuspected == \A d \in Dests : streak[d] = MaxNumFailures => d \in suspect

ListingOf(t) ==
  /\ pc[t] = "idle" => dest[t] = 1
  /\ pc[t] \in Evaluating => \A d \in Dests \ suspect : d < dest[t] => d \in listed[t]
  /\ pc[t] \in Evaluating \ {"failing"} => dest[t] \in suspect
  /\ pc[t] = "listed" => Dests \ suspect \subseteq listed[t]

ListedInv == StreaksSuspected /\ \A t \in Threads : ListingOf(t)

\* A failing destination is suspect.
LEMMA FailingIsSuspect ==
  ASSUME TypeOK, StreakInv, StreaksSuspected, NEW d \in Dests, AreLastAttemptsFailures(d)
  PROVE  d \in suspect
<1>1. MaxNumFailures \in Nat /\ NumAttemptsStored \in Nat
  BY MaxNumFailuresType, StoredAssumption
<1>2. MaxNumFailures <= NumAttemptsStored
  BY <1>1, ShortDequeNeverFails
<1>3. streak[d] = MaxNumFailures
  BY <1>2, VerdictOfStreak DEF VerdictMatchesStreak
<1> QED
  BY <1>3 DEF StreaksSuspected

\* An attempt keeps the suspicion, and takes it from no destination.
LEMMA RecordSuspects ==
  ASSUME TypeOK, StreaksSuspected, NEW d \in Dests, NEW succeeded \in BOOLEAN,
         Record(d, succeeded)
  PROVE  StreaksSuspected' /\ suspect \subseteq suspect'
BY DEF Record, StreaksSuspected, TypeOK

\* A thread whose listing and place do not change.
LEMMA ListingKept ==
  ASSUME NEW t \in Threads, ListingOf(t), suspect \subseteq suspect',
         pc'[t] = pc[t], dest'[t] = dest[t], listed'[t] = listed[t]
  PROVE  ListingOf(t)'
BY DEF ListingOf

\* The listing goes on past a destination that it lists, or that is suspect.
LEMMA ReturnsListing ==
  ASSUME TypeOK, NEW t \in Threads, ListingOf(t), NEW from \in Evaluating,
         NEW isFunctional \in BOOLEAN, Returns(t, from, isFunctional),
         isFunctional \/ dest[t] \in suspect
  PROVE  ListingOf(t)'
<1>1. /\ pc[t] = from /\ suspect' = suspect
      /\ pc'[t] = IF dest[t] < NumDests THEN "failing" ELSE "listed"
      /\ dest'[t] = IF dest[t] < NumDests THEN dest[t] + 1 ELSE 1
      /\ listed'[t] = IF isFunctional THEN listed[t] \cup {dest[t]} ELSE listed[t]
  BY DEF Returns, Goes, TypeOK, historyVars
<1>2. dest[t] \in 1..NumDests /\ NumDests \in Nat
  BY DestsAssumption DEF TypeOK, Dests
<1>3. \A d \in Dests \ suspect : d < dest[t] => d \in listed[t]
  BY <1>1 DEF ListingOf
<1>4. \A d \in Dests \ suspect : d <= dest[t] => d \in listed'[t]
  BY <1>1, <1>2, <1>3 DEF Dests
<1>5. CASE dest[t] < NumDests
  <2>1. \A d \in Dests : d < dest[t] + 1 => d <= dest[t]
    BY <1>2 DEF Dests
  <2> QED
    BY <1>1, <1>4, <1>5, <2>1 DEF ListingOf
<1>6. CASE ~(dest[t] < NumDests)
  <2>1. \A d \in Dests : d <= dest[t]
    BY <1>2, <1>6 DEF Dests
  <2> QED
    BY <1>1, <1>4, <1>6, <2>1 DEF ListingOf, Evaluating
<1> QED
  BY <1>5, <1>6

\* Each step of is_functional keeps the listing of its thread...
LEMMA IsFunctionalListing ==
  ASSUME TypeOK, StreakInv, StreaksSuspected, NEW t \in Threads, ListingOf(t),
         IsFunctional(t)
  PROVE  ListingOf(t)'
<1>1. /\ pc \in [Threads -> Pcs] /\ dest[t] \in Dests
      /\ pc[t] \in Evaluating \ {"failing"} => dest[t] \in suspect
  BY DEF TypeOK, ListingOf
<1>2. CASE NotFailing(t)
  BY <1>2, ReturnsListing DEF NotFailing, Evaluating
<1>3. CASE NotOldEnough(t)
  <2>1. pc[t] = "old"
    BY <1>3 DEF NotOldEnough, Returns, Goes
  <2> QED
    BY <1>1, <1>3, <2>1, ReturnsListing DEF NotOldEnough, Evaluating
<1>4. CASE UnderTheCap(t)
  BY <1>4, ReturnsListing DEF UnderTheCap, Evaluating
<1>5. CASE Clamp(t)
  BY <1>5, ReturnsListing DEF Clamp, Evaluating
<1>6. CASE Failing(t)
  <2>1. dest[t] \in suspect
    BY <1>1, <1>6, FailingIsSuspect DEF Failing
  <2>2. /\ pc[t] = "failing" /\ pc'[t] = "old"
        /\ UNCHANGED <<dest, listed, suspect>>
    BY <1>1, <1>6 DEF Failing, Goes, historyVars
  <2> QED
    BY <2>1, <2>2 DEF ListingOf, Evaluating
<1>7. CASE OldEnough(t) \/ Increment(t) \/ Store(t) \/ OverTheCap(t)
  <2>1. /\ pc[t] \in Evaluating \ {"failing"} /\ pc'[t] \in Evaluating \ {"failing"}
        /\ UNCHANGED <<dest, listed, suspect>>
    BY <1>1, <1>7 DEF OldEnough, Increment, Store, OverTheCap, Goes, historyVars, Evaluating
  <2> QED
    BY <1>1, <2>1 DEF ListingOf, Evaluating
<1> QED
  BY <1>2, <1>3, <1>4, <1>5, <1>6, <1>7 DEF IsFunctional

\* ...and each of the others begins one or is in none.
LEMMA MeasureListing ==
  ASSUME TypeOK, NEW t \in Threads, ListingOf(t), Measure(t), suspect \subseteq suspect'
  PROVE  ListingOf(t)'
<1>1. pc \in [Threads -> Pcs] /\ dest \in [Threads -> Dests]
  BY DEF TypeOK
<1>2. CASE Dispatch(t)
  <2>1. pc[t] = "idle" /\ pc'[t] = "failing" /\ dest'[t] = dest[t]
    BY <1>1, <1>2 DEF Dispatch, Goes
  <2>2. dest'[t] = 1 /\ \A d \in Dests : ~(d < 1)
    BY <2>1 DEF ListingOf, Dests
  <2> QED
    BY <2>1, <2>2 DEF ListingOf, Evaluating
<1>3. CASE NextCondition(t) \/ NextChoice(t)
  <2>1. pc'[t] = "failing" /\ dest'[t] = 1
    BY <1>1, <1>3 DEF NextCondition, NextChoice, Goes, List
  <2>2. \A d \in Dests : ~(d < 1)
    BY DEF Dests
  <2> QED
    BY <2>1, <2>2 DEF ListingOf, Evaluating
<1>4. CASE Dispatched(t) \/ ConnectFailsAsExit(t) \/ \E d \in Dests : Choose(t, d)
  <2>1. pc'[t] \in {"session", "again", "connect"}
    BY <1>1, <1>4 DEF Dispatched, ConnectFailsAsExit, Choose, Goes
  <2> QED
    BY <2>1 DEF ListingOf, Evaluating
<1>5. CASE NoneFunctional(t) \/ NoSession(t) \/ ChooseRaises(t) \/ NoAttempt(t)
             \/ \E succeeded \in BOOLEAN : Connect(t, succeeded)
  <2>1. pc'[t] = "idle" /\ dest'[t] = 1
    BY <1>1, <1>5 DEF NoneFunctional, NoSession, ChooseRaises, NoAttempt, Connect,
       Goes, Done, List
  <2> QED
    BY <2>1 DEF ListingOf, Evaluating
<1> QED
  BY <1>2, <1>3, <1>4, <1>5 DEF Measure

\* A step of one thread leaves the listings of the others.
LEMMA OthersListing ==
  ASSUME TypeOK, NEW t \in Threads, IsFunctional(t) \/ Measure(t), NEW u \in Threads \ {t}
  PROVE  pc'[u] = pc[u] /\ dest'[u] = dest[u] /\ listed'[u] = listed[u]
<1>1. /\ pc \in [Threads -> Pcs] /\ dest \in [Threads -> Dests]
      /\ listed \in [Threads -> SUBSET Dests]
  BY DEF TypeOK
<1>2. CASE IsFunctional(t)
  BY <1>1, <1>2 DEF IsFunctional, NotFailing, Failing, NotOldEnough, OldEnough,
     Increment, Store, UnderTheCap, OverTheCap, Clamp, Returns, Goes
<1>3. CASE Measure(t)
  BY <1>1, <1>3 DEF Measure, Dispatch, NoneFunctional, Dispatched, NoSession,
     NextCondition, NextChoice, Choose, ChooseRaises, Connect,
     ConnectFailsAsExit, NoAttempt, Goes, Done, List
<1> QED
  BY <1>2, <1>3

\* Every step keeps the listings.
LEMMA NextListed == TypeOK /\ StreakInv /\ ListedInv /\ [Next]_vars => ListedInv'
<1> SUFFICES ASSUME TypeOK, StreakInv, ListedInv, [Next]_vars PROVE ListedInv'
  OBVIOUS
<1>1. StreaksSuspected' /\ suspect \subseteq suspect'
  <2>1. CASE \E d \in Dests, succeeded \in BOOLEAN : Record(d, succeeded)
    BY <2>1, RecordSuspects DEF ListedInv
  <2>2. CASE UNCHANGED <<attempts, streak, suspect>>
    BY <2>2 DEF ListedInv, StreaksSuspected
  <2> QED
    BY <2>1, <2>2, AttemptsFrame
<1>2. ASSUME NEW u \in Threads PROVE ListingOf(u)'
  <2>1. ListingOf(u)
    BY DEF ListedInv
  <2>2. CASE IsFunctional(u) \/ Measure(u)
    BY <1>1, <2>1, <2>2, IsFunctionalListing, MeasureListing DEF ListedInv
  <2>3. ASSUME NEW t \in Threads \ {u}, IsFunctional(t) \/ Measure(t)
        PROVE  ListingOf(u)'
    BY <1>1, <2>1, <2>3, OthersListing, ListingKept
  <2>4. CASE Tick \/ UNCHANGED vars
    BY <1>1, <2>1, <2>4, ListingKept DEF Tick, vars, threadVars
  <2> QED
    BY <2>2, <2>3, <2>4 DEF Next
<1> QED
  BY <1>1, <1>2 DEF ListedInv

\* One failing destination hides no working one, for any number of threads
\* that record attempts while others list.
THEOREM WorkingDestinationsListedHolds == Spec => []WorkingDestinationsListed
<1>1. Init => ListedInv
  BY MaxNumFailuresType DEF Init, ListedInv, StreaksSuspected, ListingOf, Evaluating
<1>2. ListedInv => WorkingDestinationsListed
  BY DEF ListedInv, ListingOf, WorkingDestinationsListed
<1> QED
  BY <1>1, <1>2, InitType, NextType, InitStreak, NextStreak, NextListed, PTL DEF Spec
=============================================================================
