---------------------------- MODULE AdaptiveProofs ----------------------------
(* Proofs about the controls that react to outcomes: the chain of strategies   *)
(* (FallbackChain), what acts on it (Adaptation) and the breaker               *)
(* (CircuitBreaker), for every number of connections, strategies, profiles and *)
(* workers and for every limit.                                                *)
EXTENDS Adaptation, CircuitBreaker, FiniteSetTheorems, SequenceTheorems,
        WellFoundedInduction, TLAPS

\* A set of natural numbers that is not empty has a least element.
LEMMA LeastOf ==
  ASSUME NEW S \in SUBSET Nat, S # {}
  PROVE  \E i \in S : \A j \in S : i <= j
<1> DEFINE less == {p \in Nat \X Nat : p[1] < p[2]}
<1>1. IsWellFoundedOn(less, Nat)
  BY NatLessThanWellFounded, Zenon DEF OpToRel
<1>2. PICK i \in S : \A j \in S : <<j, i>> \notin less
  <2> HIDE DEF less
  <2> QED
    BY <1>1, WFMin, Zenon
<1>3. ASSUME NEW j \in S PROVE i <= j
  <2>1. i \in Nat /\ j \in Nat /\ <<j, i>> \notin less
    BY <1>2
  <2>2. <<j, i>> \in Nat \X Nat => ~(<<j, i>>[1] < <<j, i>>[2])
    BY <2>1, Zenon
  <2> QED
    BY <2>1, <2>2
<1> QED
  BY <1>3

-----------------------------------------------------------------------------
(* The chain.                                                                *)

\* Each error in the window is a failure since the last success, and so a full window
\* has been earned.  The history stops at Threshold.
ChainInv ==
  /\ sinceSwitch \in Nat
  /\ errors \in Seq(Nat) /\ earned \in Nat
  /\ Len(errors) <= earned \/ earned >= Threshold

LEMMA ChainInit == Init => ChainInv
BY ChainAssumption DEF Init, ChainInv

\* Time only drops errors.
LEMMA TickDrops == ChainInv /\ Tick => ChainInv'
<1> SUFFICES ASSUME ChainInv, Tick PROVE ChainInv'
  OBVIOUS
<1> DEFINE n == Len(errors)
           young == Cardinality({i \in 1 .. Len(errors) : Young(errors[i])})
<1>1. n \in Nat /\ errors \in [1 .. n -> Nat]
  BY DEF ChainInv
<1>2. young \in Nat /\ young <= n
  <2>1. IsFiniteSet(1 .. n) /\ Cardinality(1 .. n) = n
    BY <1>1, FS_Interval, Z3
  <2>2. {i \in 1 .. n : Young(errors[i])} \subseteq 1 .. n
    OBVIOUS
  <2>3. young \in Nat /\ young <= Cardinality(1 .. n)
    BY <2>1, <2>2, FS_Subset, FS_CardinalityType
  <2> QED
    BY <2>1, <2>3
<1>3. errors' = [i \in 1 .. young |-> errors[n - young + i] + 1] /\ earned' = earned
  BY DEF Tick
<1> HIDE DEF n, young
<1>4. errors' \in Seq(Nat) /\ Len(errors') = young
  <2>1. \A i \in 1 .. young : errors[n - young + i] + 1 \in Nat
    BY <1>1, <1>2
  <2>2. errors' \in [1 .. young -> Nat]
    BY <1>3, <2>1
  <2> QED
    BY <1>2, <2>2
<1>5. sinceSwitch' \in Nat
  BY DEF Tick, ChainInv
<1> QED
  BY <1>2, <1>3, <1>4, <1>5 DEF ChainInv, n

LEMMA ChainStep == ChainInv /\ [Next]_vars => ChainInv'
<1> SUFFICES ASSUME ChainInv, [Next]_vars PROVE ChainInv'
  OBVIOUS
<1>1. CASE Tick
  BY <1>1, TickDrops
<1>2. ASSUME NEW c \in Connections, Open(c) PROVE ChainInv'
  BY <1>2 DEF Open, ChainInv
<1>3. ASSUME NEW c \in Connections, record_success(c) PROVE ChainInv'
  BY <1>3 DEF record_success, ErrorsCleared, ChainInv
<1>4. ASSUME NEW c \in Connections, record_failure(c) PROVE ChainInv'
  <2>1. errors' = Append(errors, 0) /\ earned' = IF earned < Threshold THEN earned + 1 ELSE earned
    BY <1>4 DEF record_failure
  <2>2. errors' \in Seq(Nat) /\ Len(errors') = Len(errors) + 1 /\ Len(errors) \in Nat
    BY <2>1 DEF ChainInv
  <2>3. sinceSwitch' \in Nat
    BY <1>4 DEF record_failure, Advance, ChainInv
  <2> QED
    BY <2>1, <2>2, <2>3, ChainAssumption DEF ChainInv
<1>5. CASE UNCHANGED vars
  BY <1>5 DEF vars, ChainInv
<1> QED
  BY <1>1, <1>2, <1>3, <1>4, <1>5 DEF Next

\* Only a failure that finds the window full moves the chain on.
LEMMA SwitchNeedsErrors ==
  ASSUME ChainInv, ChainInv', [Next]_vars, current' # current
  PROVE  earned' >= Threshold
<1>1. PICK c \in Connections : record_failure(c)
  BY DEF Next, vars, Tick, Open, record_success
<1>2. Len(errors') >= Threshold /\ Advance(failures')
  BY <1>1 DEF record_failure
<1>3. Len(errors') \in Nat
  BY DEF ChainInv
<1> QED
  BY <1>2, <1>3, ChainAssumption DEF ChainInv

\* Tuning leaves the chain alone but for the calls that the chain has itself.
LEMMA TuningKeepsChain == [AdaptNext]_allVars => [Next]_vars
BY DEF AdaptNext, allVars, tuneVars, AdaptTick, TuneRequest, OpenTreated, Succeed, Fail,
       RecordRst, Choose, ChooseNothing, Activate, LoadOverrides, StoreOverrides, Next

-----------------------------------------------------------------------------
\* Whatever outcomes and tune requests do to profiles and overrides, the chain moves as
\* it does alone (engine/mod.rs, observe_connection_outcome).
THEOREM TuningImplementsChain == AdaptSpec => Spec
<1>1. AdaptInit => Init
  BY DEF AdaptInit
<1> QED
  BY <1>1, TuningKeepsChain, PTL DEF AdaptSpec, Spec

\* The chain leaves a strategy only after Threshold failures without a success in
\* between, whichever connections they are of (adaptive/fallback.rs, record_failure).
THEOREM SwitchesAreEarned == AdaptSpec => SwitchIsEarned
<1>1. ChainInv /\ ChainInv' /\ [Next]_vars
      => [current' # current => earned' >= Threshold]_vars
  BY SwitchNeedsErrors
<1> QED
  BY <1>1, ChainInit, ChainStep, TuningImplementsChain, PTL DEF Spec, SwitchIsEarned

-----------------------------------------------------------------------------
(* Escalation.                                                               *)

Targets == {TargetOf[c] : c \in Connections}

\* Timestamps are in the order of their times, and those that are kept are the last.
InTime(ages) == \A i, j \in DOMAIN ages : i < j => ages[j] <= ages[i]
Suffix(ages, all) ==
  /\ Len(ages) <= Len(all)
  /\ \A i \in DOMAIN ages : ages[i] = all[Len(all) - Len(ages) + i]

KeptRight(ages, all) ==
  /\ ages \in Seq(Nat) /\ all \in Seq(Nat)
  /\ InTime(ages) /\ Suffix(ages, all)

\* The young ages of a sequence that is in the order of time are its last ones.
LEMMA RecentAreLast ==
  ASSUME NEW ages \in Seq(Nat), InTime(ages)
  PROVE  /\ Recent(ages) \in 0 .. Len(ages)
         /\ {i \in DOMAIN ages : ages[i] < RstWindow} = Len(ages) - Recent(ages) + 1 .. Len(ages)
<1> DEFINE n == Len(ages)
           young == {i \in DOMAIN ages : ages[i] < RstWindow}
<1>1. n \in Nat /\ DOMAIN ages = 1 .. n /\ ages \in [1 .. n -> Nat]
  OBVIOUS
<1> HIDE DEF n
<1>2. CASE young = {}
  <2>1. Recent(ages) = 0
    BY <1>2, FS_EmptySet DEF Recent
  <2> QED
    BY <1>1, <1>2, <2>1 DEF n
<1>3. CASE young # {}
  <2>1. PICK m \in young : \A j \in young : m <= j
    <3>1. young \in SUBSET Nat
      BY <1>1
    <3> HIDE DEF young
    <3> QED
      BY <1>3, <3>1, LeastOf
  <2>2. m \in 1 .. n
    BY <1>1
  <2>3. ASSUME NEW i \in m .. n PROVE i \in young
    <3>1. i \in DOMAIN ages /\ m \in DOMAIN ages /\ ages[m] < RstWindow
      BY <1>1, <2>2
    <3>2. ages[i] <= ages[m]
      BY <1>1, <2>2, <3>1 DEF InTime
    <3> QED
      BY <1>1, <3>1, <3>2, AdaptationAssumption
  <2>4. young = m .. n
    BY <1>1, <2>1, <2>3
  <2>5. Recent(ages) = n - m + 1
    <3>1. Cardinality(m .. n) = n - m + 1
      <4>1. m \in Int /\ n \in Int /\ ~(m > n)
        BY <1>1, <2>2
      <4>2. Cardinality(m .. n) = IF m > n THEN 0 ELSE n - m + 1
        BY <4>1, FS_Interval, Z3
      <4> QED
        BY <4>1, <4>2
    <3> QED
      BY <2>4, <3>1 DEF Recent
  <2> HIDE DEF young
  <2>6. Recent(ages) \in 0 .. n /\ young = n - Recent(ages) + 1 .. n
    BY <1>1, <2>2, <2>4, <2>5
  <2> QED
    BY <2>6 DEF n, young
<1> QED
  BY <1>2, <1>3

\* Cutting the window keeps the last ages, all of them young.
LEMMA WithinKeeps ==
  ASSUME NEW ages, NEW all, KeptRight(ages, all)
  PROVE  /\ KeptRight(Within(ages), all)
         /\ Len(Within(ages)) <= Recent(all)
<1> DEFINE n == Len(ages)  k == Recent(ages)  w == Within(ages)  d == Len(all) - Len(ages)
<1>1. /\ n \in Nat /\ ages \in [1 .. n -> Nat] /\ k \in 0 .. n
      /\ {i \in DOMAIN ages : ages[i] < RstWindow} = n - k + 1 .. n
      /\ Len(all) \in Nat /\ DOMAIN all = 1 .. Len(all) /\ DOMAIN ages = 1 .. n
      /\ n <= Len(all) /\ d \in Nat
  <2>1. ages \in Seq(Nat) /\ all \in Seq(Nat) /\ InTime(ages) /\ Len(ages) <= Len(all)
    BY DEF KeptRight, Suffix
  <2>2. /\ n \in Nat /\ ages \in [1 .. n -> Nat] /\ DOMAIN ages = 1 .. n
        /\ Len(all) \in Nat /\ DOMAIN all = 1 .. Len(all) /\ n <= Len(all) /\ d \in Nat
    BY <2>1
  <2> QED
    BY <2>1, <2>2, RecentAreLast
<1>2. w = [i \in 1 .. k |-> ages[n - k + i]]
  BY DEF Within
<1>3. \A i \in DOMAIN ages : ages[i] = all[d + i]
  BY DEF KeptRight, Suffix
<1> HIDE DEF n, k, w
<1>4. w \in Seq(Nat) /\ Len(w) = k /\ DOMAIN w = 1 .. k
  <2>1. \A i \in 1 .. k : ages[n - k + i] \in Nat
    BY <1>1
  <2>2. w \in [1 .. k -> Nat]
    BY <1>2, <2>1
  <2> QED
    BY <1>1, <2>2
<1>5. \A i \in 1 .. k : n - k + i \in 1 .. n /\ w[i] = ages[n - k + i]
  BY <1>1, <1>2
<1>6. InTime(w)
  <2> SUFFICES ASSUME NEW i \in 1 .. k, NEW j \in 1 .. k, i < j PROVE w[j] <= w[i]
    BY <1>4 DEF InTime
  <2>1. n - k + i < n - k + j
    BY <1>1
  <2> QED
    BY <1>1, <1>5, <2>1 DEF KeptRight, InTime
<1>7. Suffix(w, all)
  <2>1. \A i \in 1 .. k : w[i] = all[d + (n - k + i)]
    BY <1>1, <1>3, <1>5
  <2>2. \A i \in 1 .. k : d + (n - k + i) = Len(all) - k + i
    BY <1>1 DEF n
  <2>3. k <= Len(all)
    BY <1>1
  <2> QED
    BY <1>4, <2>1, <2>2, <2>3 DEF Suffix
<1>8. k <= Recent(all)
  <2> DEFINE last == d + n - k + 1 .. d + n
             young == {i \in DOMAIN all : all[i] < RstWindow}
  <2>1. ASSUME NEW i \in last PROVE i \in young
    <3>1. i - d \in n - k + 1 .. n /\ i \in 1 .. Len(all) /\ i = d + (i - d)
      BY <1>1 DEF n
    <3>2. i - d \in DOMAIN ages /\ ages[i - d] < RstWindow
      BY <1>1, <3>1
    <3>3. ages[i - d] = all[i]
      BY <1>3, <3>1, <3>2
    <3> QED
      BY <1>1, <3>1, <3>2, <3>3
  <2>2. IsFiniteSet(1 .. Len(all))
    BY <1>1, FS_Interval, Z3
  <2>3. IsFiniteSet(young)
    <3>1. young \in SUBSET (1 .. Len(all))
      BY <1>1
    <3> HIDE DEF young
    <3> QED
      BY <2>2, <3>1, FS_Subset
  <2>4. Cardinality(last) = k
    <3>1. d + n - k + 1 \in Int /\ d + n \in Int
      BY <1>1
    <3>2. Cardinality(last) = IF d + n - k + 1 > d + n THEN 0 ELSE (d + n) - (d + n - k + 1) + 1
      BY <3>1, FS_Interval, Z3
    <3> QED
      BY <1>1, <3>2
  <2>5. last \in SUBSET young
    BY <2>1
  <2> HIDE DEF last, young
  <2>6. Cardinality(last) <= Cardinality(young)
    BY <2>3, <2>5, FS_Subset
  <2> QED
    BY <2>4, <2>6 DEF Recent, young
<1> QED
  BY <1>4, <1>6, <1>7, <1>8 DEF KeptRight, w

LEMMA OlderKeeps ==
  ASSUME NEW ages, NEW all, KeptRight(ages, all)
  PROVE  KeptRight(Older(ages), Older(all)) /\ Len(Older(ages)) = Len(ages)
<1> DEFINE Up(age) == IF age < RstWindow THEN age + 1 ELSE age
<1>1. ASSUME NEW q \in Seq(Nat)
      PROVE  /\ Older(q) \in Seq(Nat) /\ Len(Older(q)) = Len(q) /\ DOMAIN Older(q) = DOMAIN q
             /\ DOMAIN q = 1 .. Len(q) /\ Len(q) \in Nat
             /\ \A i \in DOMAIN q : q[i] \in Nat /\ Older(q)[i] = Up(q[i])
  <2>1. Older(q) = [i \in 1 .. Len(q) |-> Up(q[i])]
    BY DEF Older
  <2>2. \A i \in 1 .. Len(q) : q[i] \in Nat /\ Up(q[i]) \in Nat
    BY AdaptationAssumption
  <2> HIDE DEF Up
  <2>3. Older(q) \in [1 .. Len(q) -> Nat]
    BY <2>1, <2>2
  <2> QED
    BY <2>1, <2>2, <2>3
<1>2. \A x, y \in Nat : x <= y => Up(x) <= Up(y)
  BY AdaptationAssumption
<1> HIDE DEF Up
<1>3. ages \in Seq(Nat) /\ all \in Seq(Nat)
  BY DEF KeptRight
<1>4. InTime(Older(ages))
  BY <1>1, <1>2, <1>3 DEF KeptRight, InTime
<1>5. Suffix(Older(ages), Older(all))
  <2>1. \A i \in DOMAIN ages : /\ ages[i] = all[Len(all) - Len(ages) + i]
                              /\ Len(all) - Len(ages) + i \in DOMAIN all
    BY <1>1, <1>3 DEF KeptRight, Suffix
  <2>2. \A i \in DOMAIN ages : Older(ages)[i] = Older(all)[Len(all) - Len(ages) + i]
    BY <1>1, <1>3, <2>1
  <2> QED
    BY <1>1, <1>3, <2>2 DEF KeptRight, Suffix
<1> QED
  BY <1>1, <1>3, <1>4, <1>5 DEF KeptRight

LEMMA AppendKeeps ==
  ASSUME NEW ages, NEW all, KeptRight(ages, all)
  PROVE  KeptRight(Append(ages, 0), Append(all, 0))
<1> DEFINE p == Append(ages, 0)  q == Append(all, 0)
<1>1. /\ ages \in Seq(Nat) /\ all \in Seq(Nat) /\ Len(ages) \in Nat /\ Len(all) \in Nat
      /\ DOMAIN ages = 1 .. Len(ages) /\ DOMAIN all = 1 .. Len(all) /\ Len(ages) <= Len(all)
      /\ \A i \in 1 .. Len(ages) : ages[i] \in Nat /\ ages[i] = all[Len(all) - Len(ages) + i]
  BY DEF KeptRight, Suffix
<1>2. /\ p \in Seq(Nat) /\ Len(p) = Len(ages) + 1 /\ DOMAIN p = 1 .. Len(ages) + 1
      /\ p[Len(ages) + 1] = 0 /\ \A i \in 1 .. Len(ages) : p[i] = ages[i]
  BY <1>1
<1>3. /\ q \in Seq(Nat) /\ Len(q) = Len(all) + 1 /\ q[Len(all) + 1] = 0
      /\ \A i \in 1 .. Len(all) : q[i] = all[i]
  BY <1>1
<1> HIDE DEF p, q
<1>4. InTime(p)
  <2> SUFFICES ASSUME NEW i \in 1 .. Len(ages) + 1, NEW j \in 1 .. Len(ages) + 1, i < j
               PROVE  p[j] <= p[i]
    BY <1>2 DEF InTime
  <2>1. i \in 1 .. Len(ages) /\ p[i] = ages[i] /\ ages[i] \in Nat
    BY <1>1, <1>2
  <2>2. CASE j \in 1 .. Len(ages)
    BY <1>1, <1>2, <2>1, <2>2 DEF KeptRight, InTime
  <2>3. CASE j = Len(ages) + 1
    BY <1>2, <2>1, <2>3
  <2>4. j \in 1 .. Len(ages) \/ j = Len(ages) + 1
    BY <1>1
  <2> QED
    BY <2>2, <2>3, <2>4
<1>5. Suffix(p, q)
  <2> SUFFICES ASSUME NEW i \in 1 .. Len(ages) + 1 PROVE p[i] = q[Len(all) - Len(ages) + i]
    <3>1. Len(p) <= Len(q) /\ Len(q) - Len(p) = Len(all) - Len(ages)
      BY <1>1, <1>2, <1>3
    <3> QED
      BY <1>2, <3>1 DEF Suffix
  <2>1. CASE i \in 1 .. Len(ages)
    <3>1. Len(all) - Len(ages) + i \in 1 .. Len(all)
      BY <1>1, <2>1
    <3> QED
      BY <1>1, <1>2, <1>3, <2>1, <3>1
  <2>2. CASE i = Len(ages) + 1
    <3>1. Len(all) - Len(ages) + i = Len(all) + 1
      BY <1>1, <2>2
    <3> QED
      BY <1>2, <1>3, <2>2, <3>1
  <2> QED
    BY <1>1, <2>1, <2>2
<1> QED
  BY <1>2, <1>3, <1>4, <1>5 DEF KeptRight, p, q

\* The window of each target holds the last of its resets, and peak has seen as many.
WindowsAreKept ==
  /\ peak \in Nat
  /\ DOMAIN rsts = Targets /\ DOMAIN resets = Targets
  /\ \A t \in Targets : KeptRight(rsts[t], resets[t]) /\ Len(rsts[t]) <= peak

LEMMA WindowsInit == AdaptInit => WindowsAreKept
<1> SUFFICES ASSUME AdaptInit PROVE WindowsAreKept
  OBVIOUS
<1>1. KeptRight(<<>>, <<>>) /\ Len(<<>>) = 0
  BY DEF KeptRight, InTime, Suffix
<1> QED
  BY <1>1 DEF AdaptInit, WindowsAreKept, Targets

\* An RST grows the window of its target, and the most there ever were with it.
LEMMA RecordKeepsWindows ==
  ASSUME NEW c \in Connections, WindowsAreKept, RecordRst(c)
  PROVE  WindowsAreKept' /\ peak' >= peak
<1> DEFINE t == TargetOf[c]
           ages == Append(rsts[t], 0)
           all == Append(resets[t], 0)
<1>1. /\ t \in Targets
      /\ rsts' = [rsts EXCEPT ![t] = Within(ages)]
      /\ resets' = [resets EXCEPT ![t] = all]
      /\ peak' = IF Recent(resets'[t]) > peak THEN Recent(resets'[t]) ELSE peak
  BY DEF RecordRst, Targets
<1>2. KeptRight(ages, all)
  BY <1>1, AppendKeeps DEF WindowsAreKept
<1> HIDE DEF t, ages, all
<1>3. KeptRight(Within(ages), all) /\ Len(Within(ages)) <= Recent(all)
  BY <1>2, WithinKeeps
<1>4. /\ DOMAIN rsts' = Targets /\ DOMAIN resets' = Targets
      /\ rsts'[t] = Within(ages) /\ resets'[t] = all
      /\ \A u \in Targets \ {t} : rsts'[u] = rsts[u] /\ resets'[u] = resets[u]
  BY <1>1 DEF WindowsAreKept
<1>5. Recent(all) \in Nat
  <2>1. all \in Seq(Nat)
    BY <1>2 DEF KeptRight
  <2>2. Len(all) \in Nat /\ {i \in DOMAIN all : all[i] < RstWindow} \in SUBSET (1 .. Len(all))
    BY <2>1
  <2>3. IsFiniteSet(1 .. Len(all))
    BY <2>2, FS_Interval, Z3
  <2> QED
    BY <2>2, <2>3, FS_Subset, FS_CardinalityType DEF Recent
<1>6. peak \in Nat /\ peak' \in Nat /\ peak' >= peak /\ peak' >= Recent(all)
  BY <1>1, <1>4, <1>5 DEF WindowsAreKept
<1>7. Len(Within(ages)) <= peak'
  <2>1. Within(ages) \in Seq(Nat)
    BY <1>3 DEF KeptRight
  <2>2. Len(Within(ages)) \in Nat
    BY <2>1
  <2> QED
    BY <1>3, <1>5, <1>6, <2>2
<1>8. ASSUME NEW u \in Targets \ {t} PROVE Len(rsts[u]) <= peak'
  <2>1. rsts[u] \in Seq(Nat) /\ Len(rsts[u]) <= peak
    BY DEF WindowsAreKept, KeptRight
  <2>2. Len(rsts[u]) \in Nat
    BY <2>1
  <2> QED
    BY <1>6, <2>1, <2>2
<1>9. ASSUME NEW u \in Targets PROVE (KeptRight(rsts[u], resets[u]))' /\ Len(rsts'[u]) <= peak'
  <2>1. CASE u = t
    BY <1>3, <1>4, <1>7, <2>1 DEF KeptRight, InTime, Suffix
  <2>2. CASE u # t
    BY <1>4, <1>8, <2>2 DEF WindowsAreKept, KeptRight, InTime, Suffix
  <2> QED
    BY <2>1, <2>2
<1> QED
  BY <1>4, <1>6, <1>9 DEF WindowsAreKept

LEMMA TickKeepsWindows == ASSUME WindowsAreKept, AdaptTick PROVE WindowsAreKept'
<1>1. /\ rsts' = [t \in Targets |-> Older(rsts[t])] /\ resets' = [t \in Targets |-> Older(resets[t])]
      /\ peak' = peak
  BY DEF AdaptTick, WindowsAreKept
<1>2. ASSUME NEW t \in Targets
      PROVE  KeptRight(Older(rsts[t]), Older(resets[t])) /\ Len(Older(rsts[t])) <= peak
  BY OlderKeeps DEF WindowsAreKept
<1>3. ASSUME NEW t \in Targets PROVE (KeptRight(rsts[t], resets[t]))' /\ Len(rsts'[t]) <= peak'
  BY <1>1, <1>2 DEF KeptRight, InTime, Suffix
<1> QED
  BY <1>1, <1>3 DEF WindowsAreKept

-----------------------------------------------------------------------------
(* Who sets aggressive parameters.                                           *)

\* Nobody but the escalator asks for them.
OnlyEscalated ==
  /\ \A r \in Requests : r.params # Aggressive
  /\ \A i \in DOMAIN UserProfiles : UserProfiles[i].params # Aggressive

IsEarned(params) == params = Aggressive => peak >= RstThreshold

\* Wherever they are on their way to the overrides, they have been earned.
ParamsAreEarned ==
  /\ DOMAIN override = Names /\ \A n \in Names : IsEarned(override[n].params)
  /\ DOMAIN plan = Actors /\ \A a \in Actors : IsEarned(plan[a].params)
  /\ DOMAIN copy = Actors
  /\ \A a \in Actors : DOMAIN copy[a] = Names /\ \A n \in Names : IsEarned(copy[a][n].params)

EscalationInv == WindowsAreKept /\ ParamsAreEarned

LEMMA NoneIsNotAggressive == NoParams # Aggressive
BY DEF NoParams, Aggressive, Params

\* A set of positions that is not empty has a last one.
LEMMA LastOf ==
  ASSUME NEW n \in Nat, NEW S \in SUBSET (1 .. n), S # {}
  PROVE  \E i \in S : \A j \in S : j <= i
<1> DEFINE T == {n - i : i \in S}
<1>1. T \in SUBSET Nat /\ T # {}
  <2>1. \A i \in S : n - i \in Nat
    OBVIOUS
  <2>2. PICK i \in S : TRUE
    OBVIOUS
  <2> QED
    BY <2>1, <2>2
<1>2. PICK k \in T : \A l \in T : k <= l
  <2> HIDE DEF T
  <2> QED
    BY <1>1, LeastOf
<1>3. PICK i \in S : k = n - i
  OBVIOUS
<1>4. ASSUME NEW j \in S PROVE j <= i
  <2>1. n - i <= n - j
    BY <1>2, <1>3
  <2> QED
    BY <2>1
<1> QED
  BY <1>4

LEMMA StartIsMild ==
  ASSUME OnlyEscalated
  PROVE  DOMAIN AtStart = Names /\ \A n \in Names : AtStart[n].params # Aggressive
<1>1. ASSUME NEW n \in Names PROVE StartOverride(n).params # Aggressive
  <2> DEFINE own == {i \in DOMAIN UserProfiles : UserProfiles[i].name = n /\ UserProfiles[i].enabled}
  <2>1. CASE own = {}
    BY <2>1, NoneIsNotAggressive DEF StartOverride
  <2>2. CASE own # {}
    <3>1. Len(UserProfiles) \in Nat /\ own \in SUBSET (1 .. Len(UserProfiles))
      BY AdaptationAssumption
    <3> HIDE DEF own
    <3>2. \E i \in own : \A j \in own : j <= i
      BY <2>2, <3>1, LastOf
    <3> DEFINE last == CHOOSE i \in own : \A j \in own : j <= i
    <3>3. last \in own
      BY <3>2
    <3>4. last \in DOMAIN UserProfiles
      BY <3>3 DEF own
    <3>5. StartOverride(n).params = UserProfiles[last].params
      BY <2>2 DEF StartOverride, own
    <3> QED
      BY <3>4, <3>5 DEF OnlyEscalated
  <2> QED
    BY <2>1, <2>2
<1> QED
  BY <1>1 DEF AtStart

LEMMA ParamsInit == ASSUME OnlyEscalated, AdaptInit PROVE ParamsAreEarned
<1>1. DOMAIN override = Names /\ \A n \in Names : IsEarned(override[n].params)
  BY StartIsMild DEF AdaptInit, IsEarned
<1>2. DOMAIN plan = Actors /\ \A a \in Actors : IsEarned(plan[a].params)
  BY NoneIsNotAggressive DEF AdaptInit, IsEarned, NoPlan, Plan
<1>3. /\ DOMAIN copy = Actors
      /\ \A a \in Actors : DOMAIN copy[a] = Names /\ \A n \in Names : IsEarned(copy[a][n].params)
  BY StartIsMild DEF AdaptInit, IsEarned
<1> QED
  BY <1>1, <1>2, <1>3 DEF ParamsAreEarned

\* What has been earned stays so.
LEMMA EarnedStays ==
  ASSUME WindowsAreKept, peak' = peak \/ (peak' \in Nat /\ peak' >= peak),
         NEW params, IsEarned(params)
  PROVE  params = Aggressive => peak' >= RstThreshold
BY AdaptationAssumption DEF WindowsAreKept, IsEarned

\* A step that sets one plan.
LEMMA PlanKeeps ==
  ASSUME ParamsAreEarned, UNCHANGED <<override, copy, peak>>, NEW a \in Actors, NEW p,
         plan' = [plan EXCEPT ![a] = p], IsEarned(p.params)
  PROVE  ParamsAreEarned'
<1>1. DOMAIN plan' = Actors /\ \A b \in Actors : plan'[b] = IF b = a THEN p ELSE plan[b]
  BY DEF ParamsAreEarned
<1> QED
  BY <1>1 DEF ParamsAreEarned, IsEarned

LEMMA ParamsUntouched ==
  ASSUME ParamsAreEarned, WindowsAreKept, UNCHANGED <<override, copy, plan>>,
         peak' = peak \/ (peak' \in Nat /\ peak' >= peak)
  PROVE  ParamsAreEarned'
BY EarnedStays DEF ParamsAreEarned, IsEarned

\* The chosen parameters are aggressive only if the window of the target was full.
LEMMA ChooseKeeps ==
  ASSUME NEW c \in Connections, EscalationInv, Choose(c)
  PROVE  ParamsAreEarned'
<1> DEFINE params == IF should_escalate(c) THEN Aggressive ELSE NoParams
<1>1. /\ plan' = [plan EXCEPT ![c] = Plan(Chosen, params)]
      /\ UNCHANGED <<override, copy, peak>>
  BY DEF Choose
<1>2. IsEarned(params)
  <2>1. CASE should_escalate(c)
    <3>1. Len(rsts[TargetOf[c]]) >= RstThreshold /\ TargetOf[c] \in Targets
      BY <2>1 DEF should_escalate, Targets
    <3>2. rsts[TargetOf[c]] \in Seq(Nat) /\ Len(rsts[TargetOf[c]]) <= peak /\ peak \in Nat
      BY <3>1 DEF EscalationInv, WindowsAreKept, KeptRight
    <3>3. Len(rsts[TargetOf[c]]) \in Nat
      BY <3>2
    <3> QED
      BY <3>1, <3>2, <3>3, AdaptationAssumption DEF IsEarned
  <2>2. CASE ~should_escalate(c)
    BY <2>2, NoneIsNotAggressive DEF IsEarned
  <2> QED
    BY <2>1, <2>2
<1>3. Plan(Chosen, params).params = params /\ c \in Actors
  BY DEF Plan, Actors
<1> HIDE DEF params
<1> QED
  BY <1>1, <1>2, <1>3, PlanKeeps DEF EscalationInv

LEMMA PublishKeeps ==
  ASSUME OnlyEscalated, NEW a \in Actors, EscalationInv, LoadOverrides(a) \/ StoreOverrides(a)
  PROVE  ParamsAreEarned'
<1>1. CASE LoadOverrides(a)
  <2>1. copy' = [copy EXCEPT ![a] = override] /\ UNCHANGED <<override, plan, peak>>
    BY <1>1 DEF LoadOverrides
  <2>2. DOMAIN copy' = Actors /\ \A b \in Actors : copy'[b] = IF b = a THEN override ELSE copy[b]
    BY <2>1 DEF EscalationInv, ParamsAreEarned
  <2> QED
    BY <2>1, <2>2 DEF EscalationInv, ParamsAreEarned, IsEarned
<1>2. CASE StoreOverrides(a)
  <2> DEFINE own == [set |-> TRUE, params |-> plan[a].params]
  <2>1. /\ override' = [copy[a] EXCEPT ![plan[a].profile] = own]
        /\ copy' = [copy EXCEPT ![a] = AtStart] /\ plan' = [plan EXCEPT ![a] = NoPlan]
        /\ peak' = peak
    BY <1>2 DEF StoreOverrides
  <2>2. own.params = plan[a].params
    OBVIOUS
  <2> HIDE DEF own
  <2>3. DOMAIN override' = Names /\ \A n \in Names : override'[n] = own \/ override'[n] = copy[a][n]
    BY <2>1 DEF EscalationInv, ParamsAreEarned
  <2>4. DOMAIN plan' = Actors /\ \A b \in Actors : plan'[b] = IF b = a THEN NoPlan ELSE plan[b]
    BY <2>1 DEF EscalationInv, ParamsAreEarned
  <2>5. DOMAIN copy' = Actors /\ \A b \in Actors : copy'[b] = IF b = a THEN AtStart ELSE copy[b]
    BY <2>1 DEF EscalationInv, ParamsAreEarned
  <2>6. \A n \in Names : IsEarned(override'[n].params)
    BY <2>2, <2>3 DEF EscalationInv, ParamsAreEarned
  <2>7. \A b \in Actors : IsEarned(plan'[b].params)
    BY <2>4, NoneIsNotAggressive DEF EscalationInv, ParamsAreEarned, IsEarned, NoPlan, Plan
  <2>8. DOMAIN AtStart = Names /\ \A n \in Names : IsEarned(AtStart[n].params)
    BY StartIsMild DEF IsEarned
  <2> QED
    BY <2>1, <2>3, <2>4, <2>5, <2>6, <2>7, <2>8 DEF EscalationInv, ParamsAreEarned, IsEarned
<1> QED
  BY <1>1, <1>2

LEMMA EscalationStep ==
  ASSUME OnlyEscalated, EscalationInv, [AdaptNext]_allVars
  PROVE  EscalationInv'
<1> USE DEF EscalationInv
<1>1. CASE AdaptTick
  BY <1>1, TickKeepsWindows, ParamsUntouched DEF AdaptTick
<1>2. ASSUME NEW c \in Connections, RecordRst(c) PROVE EscalationInv'
  <2>1. WindowsAreKept' /\ peak' >= peak
    BY <1>2, RecordKeepsWindows
  <2>2. peak' \in Nat
    BY <2>1 DEF WindowsAreKept
  <2> QED
    BY <1>2, <2>1, <2>2, ParamsUntouched DEF RecordRst
<1>3. ASSUME UNCHANGED <<rsts, resets, peak>> PROVE WindowsAreKept'
  BY <1>3 DEF WindowsAreKept, KeptRight, InTime, Suffix
<1>4. ASSUME NEW c \in Connections, OpenTreated(c) \/ Succeed(c) \/ ChooseNothing(c)
      PROVE  EscalationInv'
  <2>1. PICK name : plan' = [plan EXCEPT ![c] = Plan(name, NoParams)]
    BY <1>4 DEF OpenTreated, Succeed, ChooseNothing, NoPlan
  <2>2. UNCHANGED <<override, copy, rsts, resets, peak>>
    BY <1>4 DEF OpenTreated, Succeed, ChooseNothing
  <2>3. IsEarned(Plan(name, NoParams).params) /\ c \in Actors
    BY NoneIsNotAggressive DEF IsEarned, Plan, Actors
  <2> QED
    BY <1>3, <2>1, <2>2, <2>3, PlanKeeps
<1>5. ASSUME NEW c \in Connections, Fail(c) PROVE EscalationInv'
  BY <1>3, <1>5, ParamsUntouched DEF Fail
<1>6. ASSUME NEW c \in Connections, Choose(c) PROVE EscalationInv'
  BY <1>3, <1>6, ChooseKeeps DEF Choose
<1>7. CASE TuneRequest
  <2>1. UNCHANGED <<override, copy, rsts, resets, peak>>
    BY <1>7 DEF TuneRequest
  <2>2. PICK r \in Requests : plan' = [plan EXCEPT !["api"] = r] \/ plan' = plan
    BY <1>7 DEF TuneRequest
  <2>3. IsEarned(r.params) /\ "api" \in Actors
    BY DEF OnlyEscalated, IsEarned, Actors
  <2> QED
    BY <1>3, <2>1, <2>2, <2>3, PlanKeeps, ParamsUntouched
<1>8. ASSUME NEW a \in Actors, Activate(a) PROVE EscalationInv'
  BY <1>3, <1>8, ParamsUntouched DEF Activate
<1>9. ASSUME NEW a \in Actors, LoadOverrides(a) \/ StoreOverrides(a) PROVE EscalationInv'
  BY <1>3, <1>9, PublishKeeps DEF LoadOverrides, StoreOverrides
<1>10. CASE UNCHANGED allVars
  BY <1>3, <1>10, ParamsUntouched DEF allVars, tuneVars
<1> QED
  BY <1>1, <1>2, <1>4, <1>5, <1>6, <1>7, <1>8, <1>9, <1>10 DEF AdaptNext

\* If nobody else asks for them, aggressive parameters are in force only after RstThreshold
\* resets of one target within one window, for any number of connections, any targets
\* and any order of the workers (target_escalate.rs, should_escalate).
THEOREM AggressionIsEarned ==
  ASSUME OnlyEscalated
  PROVE  AdaptSpec => []EscalationIsEarned
<1>1. AdaptInit => EscalationInv
  BY WindowsInit, ParamsInit DEF EscalationInv
<1>2. EscalationInv /\ [AdaptNext]_allVars => EscalationInv'
  BY EscalationStep
<1>3. EscalationInv => EscalationIsEarned
  BY DEF EscalationInv, ParamsAreEarned, IsEarned, EscalationIsEarned
<1> QED
  BY <1>1, <1>2, <1>3, PTL DEF AdaptSpec

-----------------------------------------------------------------------------
(* The profile follows the chain.                                            *)

\* The profiles are listed one after the other.
Listed(s) == Len(s) \in Nat /\ DOMAIN s = 1 .. Len(s) /\ s = [i \in DOMAIN s |-> s[i]]

LEMMA SeqListed == ASSUME NEW S, NEW q \in Seq(S) PROVE Listed(q)
BY DEF Listed

LEMMA FiveListed == ASSUME NEW a, NEW b, NEW c, NEW d, NEW e PROVE Listed(<<a, b, c, d, e>>)
BY DEF Listed

LEMMA EightListed ==
  ASSUME NEW a, NEW b, NEW c, NEW d, NEW e, NEW f, NEW g, NEW h
  PROVE  Listed(<<a, b, c, d, e, f, g, h>>)
BY DEF Listed

LEMMA JoinListed == ASSUME NEW s, NEW t, Listed(s), Listed(t) PROVE Listed(s \o t)
<1> DEFINE S == {s[i] : i \in DOMAIN s} \cup {t[i] : i \in DOMAIN t}
<1>1. s \in Seq(S) /\ t \in Seq(S)
  <2>1. s \in [1 .. Len(s) -> S] /\ t \in [1 .. Len(t) -> S]
    BY DEF Listed
  <2> HIDE DEF S
  <2> QED
    BY <2>1 DEF Listed
<1> HIDE DEF S
<1>2. s \o t \in Seq(S)
  BY <1>1
<1> QED
  BY <1>2, SeqListed

LEMMA RegistrationsAreListed == Listed(register)
<1>1. Listed(TlsDefaults)
  BY FiveListed DEF TlsDefaults
<1>2. Listed(OtherDefaults)
  BY EightListed DEF OtherDefaults
<1>3. Listed(with_defaults)
  BY <1>1, <1>2, JoinListed DEF with_defaults
<1> DEFINE own == [i \in DOMAIN UserProfiles |-> AsProfile(UserProfiles[i])]
<1>4. Listed(own)
  <2>1. Len(UserProfiles) \in Nat /\ DOMAIN UserProfiles = 1 .. Len(UserProfiles)
    BY AdaptationAssumption
  <2>2. Len(own) = Len(UserProfiles)
    BY <2>1
  <2> QED
    BY <2>1, <2>2 DEF Listed
<1> HIDE DEF own
<1> QED
  BY <1>3, <1>4, JoinListed DEF register, own

\* The chain's strategy belongs to a registered profile or to none.
LEMMA FoundIsNamed ==
  ASSUME NEW t, find_by_technique(t) # "none"
  PROVE  find_by_technique(t) \in Names
<1> DEFINE has == {i \in Registry : t \in get(register[i].name).techniques}
           first == CHOOSE i \in has : \A j \in has : i <= j
<1>1. has # {} /\ find_by_technique(t) = register[first].name
  BY DEF find_by_technique
<1>2. has \in SUBSET Registrations
  BY DEF Registry
<1>3. Registrations \in SUBSET Nat
  BY RegistrationsAreListed DEF Listed, Registrations
<1> HIDE DEF has
<1>4. first \in has
  BY <1>1, <1>2, <1>3, LeastOf
<1> QED
  BY <1>1, <1>2, <1>4 DEF Names

Waiting == {"failed", "booked"}
Tuning == {"chosen", "stored", "loaded"}

\* Among the workers, the one that holds the chain is the one that tunes.
HolderTunes ==
  /\ pc \in [Actors -> {"idle"} \cup Waiting \cup Tuning]
  /\ lock \in Connections \cup {"free"}
  /\ \A c \in Connections : (pc[c] \in Tuning) <=> (lock = c)

\* A request leaves its mark for good.
ApiIsIdle == tunes \in Nat /\ (tunes = 0 => pc["api"] = "idle")

TablesTyped ==
  /\ outcomes \in [Names -> [success : Nat, fail : Nat]]
  /\ DOMAIN override = Names /\ DOMAIN active = HotPath
  /\ DOMAIN plan = Actors /\ DOMAIN copy = Actors
  /\ \A a \in Actors : DOMAIN copy[a] = Names

ActiveFollows == get(Chosen).category \in HotPath => active[get(Chosen).category] = Chosen
Follows == override[Chosen].set /\ ActiveFollows

\* The holder is about to set the profile of the strategy that is current now, and
\* nobody has changed what it has set or read.
HolderLeads ==
  lock # "free" =>
    /\ Chosen # "none" /\ plan[lock].profile = Chosen
    /\ tunes = 0 => /\ pc[lock] \in {"stored", "loaded"} => ActiveFollows
                    /\ pc[lock] = "loaded" => copy[lock] = override

\* After a failure the profile follows, or a worker is still to see to it.
WillFollow ==
  (tunes = 0 /\ Failed /\ Chosen # "none")
    => Follows \/ \E c \in Connections : pc[c] # "idle"

FollowInv == HolderTunes /\ ApiIsIdle /\ TablesTyped /\ HolderLeads /\ WillFollow

LEMMA ChosenStays == ASSUME current' = current PROVE Chosen' = Chosen
BY DEF Chosen

LEMMA ActorsApart ==
  /\ "api" \in Actors /\ "api" \notin Connections /\ "free" \notin Connections
  /\ Connections \subseteq Actors /\ \A a \in Actors : a \in Connections \/ a = "api"
BY AdaptationAssumption DEF Actors

LEMMA FollowInit == AdaptInit => FollowInv
<1> SUFFICES ASSUME AdaptInit PROVE FollowInv
  OBVIOUS
<1> USE ActorsApart DEF AdaptInit
<1>1. HolderTunes /\ ApiIsIdle
  BY DEF HolderTunes, ApiIsIdle, Tuning
<1>2. TablesTyped
  BY DEF TablesTyped, AtStart
<1>3. HolderLeads
  BY DEF HolderLeads
<1>4. WillFollow
  BY DEF WillFollow, Failed
<1> QED
  BY <1>1, <1>2, <1>3, <1>4 DEF FollowInv

\* Where nothing is undone, what was following or waiting still is.
LEMMA FollowStays ==
  ASSUME WillFollow, UNCHANGED <<current, active, override, pc, tunes>>, Failed' => Failed
  PROVE  WillFollow'
BY ChosenStays DEF WillFollow, Follows, ActiveFollows

\* A worker that is not idle is waited for.
LEMMA WorkerIsBusy ==
  ASSUME NEW c \in Connections, pc'[c] # "idle"
  PROVE  WillFollow'
BY DEF WillFollow

\* A request to the API is nobody's business here.
LEMMA ApiHasTuned == ASSUME tunes' # 0 PROVE WillFollow'
BY DEF WillFollow

LEMMA UntouchedFollows ==
  ASSUME FollowInv, UNCHANGED <<current, active, override, outcomes, pc, plan, copy, lock, tunes>>
  PROVE  FollowInv'
<1>1. HolderTunes' /\ ApiIsIdle' /\ TablesTyped'
  BY DEF FollowInv, HolderTunes, ApiIsIdle, TablesTyped
<1>2. HolderLeads'
  BY ChosenStays DEF FollowInv, HolderLeads, ActiveFollows
<1>3. WillFollow'
  BY FollowStays DEF FollowInv, Failed
<1> QED
  BY <1>1, <1>2, <1>3 DEF FollowInv

\* A connection opens or succeeds: another worker may be tuning meanwhile.
LEMMA OpenFollows == ASSUME NEW c \in Connections, FollowInv, OpenTreated(c) PROVE FollowInv'
<1>1. /\ pc[c] = "idle" /\ plan' = [plan EXCEPT ![c] = Plan(active["Tls"], NoParams)]
      /\ UNCHANGED <<current, active, override, outcomes, pc, copy, lock, tunes>>
  BY DEF OpenTreated, Open
<1>2. HolderTunes' /\ ApiIsIdle' /\ TablesTyped'
  BY <1>1 DEF FollowInv, HolderTunes, ApiIsIdle, TablesTyped
<1>3. lock # c
  BY <1>1 DEF FollowInv, HolderTunes, Tuning
<1>4. lock # "free" => plan'[lock] = plan[lock]
  BY <1>1, <1>3, ActorsApart DEF FollowInv, HolderTunes, TablesTyped
<1>5. HolderLeads'
  BY <1>1, <1>4, ChosenStays DEF FollowInv, HolderLeads, ActiveFollows
<1>6. WillFollow'
  BY <1>1, FollowStays DEF FollowInv, Failed
<1> QED
  BY <1>2, <1>5, <1>6 DEF FollowInv

\* An outcome is counted in the metrics of the profile, which keep their type.
LEMMA CountTyped ==
  ASSUME NEW c \in Connections, FollowInv, NEW result \in {"success", "fail"},
         record_outcome(c, result)
  PROVE  /\ outcomes' \in [Names -> [success : Nat, fail : Nat]]
         /\ result = "success" => \A n \in Names : outcomes'[n].fail = outcomes[n].fail
<1> DEFINE p == plan[c].profile
<1>1. outcomes \in [Names -> [success : Nat, fail : Nat]]
  BY DEF FollowInv, TablesTyped
<1>2. outcomes' = [outcomes EXCEPT ![p][result] = @ + 1]
  BY DEF record_outcome
<1> HIDE DEF p
<1> DEFINE More(r) == [r EXCEPT ![result] = @ + 1]
<1>3. ASSUME NEW r \in [success : Nat, fail : Nat]
      PROVE  /\ More(r) \in [success : Nat, fail : Nat]
             /\ result = "success" => More(r).fail = r.fail
  <2>1. CASE result = "success"
    BY <2>1
  <2>2. CASE result = "fail"
    BY <2>2
  <2> QED
    BY <2>1, <2>2
<1>4. /\ DOMAIN outcomes' = Names /\ outcomes' = [n \in Names |-> outcomes'[n]]
      /\ \A n \in Names : outcomes'[n] = IF n = p THEN More(outcomes[n]) ELSE outcomes[n]
  BY <1>1, <1>2
<1> HIDE DEF More
<1>5. ASSUME NEW n \in Names
      PROVE  /\ outcomes'[n] \in [success : Nat, fail : Nat]
             /\ result = "success" => outcomes'[n].fail = outcomes[n].fail
  <2>1. outcomes[n] \in [success : Nat, fail : Nat]
    BY <1>1
  <2>2. CASE n = p
    BY <1>3, <1>4, <2>1, <2>2
  <2>3. CASE n # p
    BY <1>4, <2>1, <2>3
  <2> QED
    BY <2>2, <2>3
<1> QED
  BY <1>4, <1>5

LEMMA SucceedFollows == ASSUME NEW c \in Connections, FollowInv, Succeed(c) PROVE FollowInv'
<1>1. /\ lock = "free" /\ plan' = [plan EXCEPT ![c] = NoPlan] /\ record_outcome(c, "success")
      /\ UNCHANGED <<current, active, override, pc, copy, lock, tunes>>
  BY DEF Succeed, record_success
<1>2. outcomes' \in [Names -> [success : Nat, fail : Nat]] /\ (Failed' => Failed)
  BY <1>1, CountTyped DEF Failed
<1>3. HolderTunes' /\ ApiIsIdle' /\ TablesTyped'
  BY <1>1, <1>2 DEF FollowInv, HolderTunes, ApiIsIdle, TablesTyped
<1>4. HolderLeads'
  BY <1>1 DEF HolderLeads
<1>5. WillFollow'
  BY <1>1, <1>2, FollowStays DEF FollowInv
<1> QED
  BY <1>3, <1>4, <1>5 DEF FollowInv

LEMMA FailFollows == ASSUME NEW c \in Connections, FollowInv, Fail(c) PROVE FollowInv'
<1>1. /\ lock = "free" /\ pc[c] = "idle" /\ pc' = [pc EXCEPT ![c] = "failed"]
      /\ record_outcome(c, "fail")
      /\ UNCHANGED <<active, override, plan, copy, lock, tunes>>
  BY DEF Fail
<1>2. outcomes' \in [Names -> [success : Nat, fail : Nat]]
  BY <1>1, CountTyped
<1>3. HolderTunes' /\ ApiIsIdle' /\ TablesTyped' /\ pc'[c] = "failed"
  BY <1>1, <1>2, ActorsApart
     DEF FollowInv, HolderTunes, ApiIsIdle, TablesTyped, Tuning, Waiting
<1>4. HolderLeads'
  BY <1>1 DEF HolderLeads
<1> QED
  BY <1>3, <1>4, WorkerIsBusy DEF FollowInv

LEMMA RecordFollows == ASSUME NEW c \in Connections, FollowInv, RecordRst(c) PROVE FollowInv'
<1>1. /\ pc[c] = "failed" /\ pc' = [pc EXCEPT ![c] = "booked"]
      /\ UNCHANGED <<current, active, override, outcomes, plan, copy, lock, tunes>>
  BY DEF RecordRst, vars
<1>2. HolderTunes' /\ ApiIsIdle' /\ TablesTyped' /\ pc'[c] = "booked" /\ lock # c
  BY <1>1, ActorsApart DEF FollowInv, HolderTunes, ApiIsIdle, TablesTyped, Tuning, Waiting
<1>3. lock # "free" => pc'[lock] = pc[lock]
  BY <1>1, <1>2, ActorsApart DEF FollowInv, HolderTunes
<1>4. HolderLeads'
  BY <1>1, <1>3, ChosenStays DEF FollowInv, HolderLeads, ActiveFollows
<1> QED
  BY <1>2, <1>4, WorkerIsBusy DEF FollowInv

\* The worker takes the chain and what is current in it.
LEMMA ChooseFollows == ASSUME NEW c \in Connections, FollowInv, Choose(c) PROVE FollowInv'
<1>1. /\ lock = "free" /\ lock' = c /\ pc' = [pc EXCEPT ![c] = "chosen"] /\ Chosen # "none"
      /\ UNCHANGED <<current, active, override, outcomes, copy, tunes>>
      /\ \E params : plan' = [plan EXCEPT ![c] = Plan(Chosen, params)]
  BY DEF Choose, HoldsLock, vars
<1>2. HolderTunes' /\ pc'[c] = "chosen"
  BY <1>1, ActorsApart DEF FollowInv, HolderTunes, Tuning
<1>3. ApiIsIdle' /\ TablesTyped'
  BY <1>1, ActorsApart DEF FollowInv, HolderTunes, ApiIsIdle, TablesTyped
<1>4. plan'[c].profile = Chosen
  BY <1>1, ActorsApart DEF FollowInv, TablesTyped, Plan
<1>5. HolderLeads'
  BY <1>1, <1>2, <1>4, ChosenStays DEF HolderLeads
<1> QED
  BY <1>2, <1>3, <1>5, WorkerIsBusy DEF FollowInv

LEMMA ChooseNothingFollows ==
  ASSUME NEW c \in Connections, FollowInv, ChooseNothing(c)
  PROVE  FollowInv'
<1>1. /\ lock = "free" /\ pc' = [pc EXCEPT ![c] = "idle"] /\ pc[c] = "booked" /\ Chosen = "none"
      /\ plan' = [plan EXCEPT ![c] = NoPlan]
      /\ UNCHANGED <<current, active, override, outcomes, copy, lock, tunes>>
  BY DEF ChooseNothing, vars
<1>2. HolderTunes' /\ ApiIsIdle' /\ TablesTyped'
  BY <1>1, ActorsApart DEF FollowInv, HolderTunes, ApiIsIdle, TablesTyped, Tuning
<1>3. HolderLeads' /\ WillFollow'
  BY <1>1, ChosenStays DEF HolderLeads, WillFollow
<1> QED
  BY <1>2, <1>3 DEF FollowInv

\* The thread of the API holds no lock; it has tuned, and so nothing is promised.
LEMMA ApiFollows ==
  ASSUME FollowInv, \/ TuneRequest
                    \/ Activate("api") \/ LoadOverrides("api") \/ StoreOverrides("api")
  PROVE  FollowInv'
<1>1. /\ UNCHANGED <<current, outcomes>>
      /\ \E step \in {"idle"} \cup Tuning : pc' = [pc EXCEPT !["api"] = step] \/ pc' = pc
      /\ \E p : plan' = [plan EXCEPT !["api"] = p] \/ plan' = plan
  BY DEF TuneRequest, Activate, LoadOverrides, StoreOverrides, vars, Tuning
<1>2. lock' = lock
  BY ActorsApart DEF FollowInv, HolderTunes, TuneRequest, Activate, LoadOverrides, StoreOverrides
<1>3. tunes' \in Nat /\ tunes' # 0
  <2>1. CASE TuneRequest
    BY <2>1 DEF FollowInv, ApiIsIdle, TuneRequest
  <2>2. CASE Activate("api") \/ LoadOverrides("api") \/ StoreOverrides("api")
    BY <2>2 DEF FollowInv, ApiIsIdle, Activate, LoadOverrides, StoreOverrides
  <2> QED
    BY <2>1, <2>2
<1>4. \A c \in Connections : pc'[c] = pc[c] /\ plan'[c] = plan[c]
  BY <1>1, ActorsApart DEF FollowInv, HolderTunes, TablesTyped
<1>5. HolderTunes'
  <2>1. pc' \in [Actors -> {"idle"} \cup Waiting \cup Tuning]
    BY <1>1, ActorsApart DEF FollowInv, HolderTunes
  <2> QED
    BY <1>2, <1>4, <2>1 DEF FollowInv, HolderTunes
<1>6. ApiIsIdle'
  BY <1>3 DEF ApiIsIdle
<1>7. TablesTyped'
  <2>1. DOMAIN plan' = Actors
    BY <1>1 DEF FollowInv, TablesTyped
  <2>2. DOMAIN active' = HotPath
    BY DEF FollowInv, TablesTyped, TuneRequest, Activate, LoadOverrides, StoreOverrides, StoreActive
  <2>3. DOMAIN AtStart = Names
    BY DEF AtStart
  <2>4. DOMAIN override' = Names /\ DOMAIN copy' = Actors /\ \A a \in Actors : DOMAIN copy'[a] = Names
    BY <2>3, ActorsApart
       DEF FollowInv, TablesTyped, TuneRequest, Activate, LoadOverrides, StoreOverrides
  <2> QED
    BY <1>1, <2>1, <2>2, <2>4 DEF FollowInv, TablesTyped
<1>8. HolderLeads'
  BY <1>1, <1>2, <1>3, <1>4, ChosenStays DEF FollowInv, HolderTunes, HolderLeads
<1> QED
  BY <1>3, <1>5, <1>6, <1>7, <1>8, ApiHasTuned DEF FollowInv

\* The holder of the chain sets the profile, copies the overrides and publishes them.
LEMMA ActivateFollows == ASSUME NEW c \in Connections, FollowInv, Activate(c) PROVE FollowInv'
<1>1. /\ pc[c] = "chosen" /\ pc' = [pc EXCEPT ![c] = "stored"] /\ StoreActive(plan[c].profile)
      /\ UNCHANGED <<current, override, outcomes, plan, copy, lock, tunes>>
  BY DEF Activate, vars
<1>2. lock = c /\ plan[c].profile = Chosen /\ lock # "free"
  BY <1>1, ActorsApart DEF FollowInv, HolderTunes, HolderLeads, Tuning
<1>3. HolderTunes' /\ pc'[c] = "stored"
  BY <1>1, <1>2, ActorsApart DEF FollowInv, HolderTunes, Tuning
<1>4. ApiIsIdle' /\ TablesTyped'
  BY <1>1, ActorsApart DEF FollowInv, HolderTunes, ApiIsIdle, TablesTyped, StoreActive
<1>5. ActiveFollows'
  <2>1. get(Chosen).category \in HotPath => active'[get(Chosen).category] = Chosen
    BY <1>1, <1>2 DEF StoreActive, FollowInv, TablesTyped
  <2> QED
    BY <1>1, <2>1, ChosenStays DEF ActiveFollows
<1>6. HolderLeads'
  BY <1>1, <1>2, <1>3, <1>5, ChosenStays DEF FollowInv, HolderLeads
<1> QED
  BY <1>3, <1>4, <1>6, WorkerIsBusy DEF FollowInv

LEMMA LoadFollows == ASSUME NEW c \in Connections, FollowInv, LoadOverrides(c) PROVE FollowInv'
<1>1. /\ pc[c] = "stored" /\ pc' = [pc EXCEPT ![c] = "loaded"]
      /\ copy' = [copy EXCEPT ![c] = override]
      /\ UNCHANGED <<current, active, override, outcomes, plan, lock, tunes>>
  BY DEF LoadOverrides, vars
<1>2. lock = c
  BY <1>1 DEF FollowInv, HolderTunes, Tuning
<1>3. HolderTunes' /\ pc'[c] = "loaded"
  BY <1>1, <1>2, ActorsApart DEF FollowInv, HolderTunes, Tuning
<1>4. ApiIsIdle' /\ TablesTyped' /\ copy'[c] = override
  BY <1>1, ActorsApart DEF FollowInv, HolderTunes, ApiIsIdle, TablesTyped
<1>5. HolderLeads'
  BY <1>1, <1>2, <1>3, <1>4, ChosenStays DEF FollowInv, HolderLeads, ActiveFollows
<1> QED
  BY <1>3, <1>4, <1>5, WorkerIsBusy DEF FollowInv

LEMMA StoreFollows == ASSUME NEW c \in Connections, FollowInv, StoreOverrides(c) PROVE FollowInv'
<1> DEFINE own == [set |-> TRUE, params |-> plan[c].params]
<1>1. /\ pc[c] = "loaded" /\ pc' = [pc EXCEPT ![c] = "idle"]
      /\ override' = [copy[c] EXCEPT ![plan[c].profile] = own]
      /\ copy' = [copy EXCEPT ![c] = AtStart] /\ plan' = [plan EXCEPT ![c] = NoPlan]
      /\ lock' = IF lock = c THEN "free" ELSE lock
      /\ UNCHANGED <<current, active, outcomes, tunes>>
  BY DEF StoreOverrides, vars
<1>2. lock = c /\ lock' = "free" /\ lock # "free"
  BY <1>1, ActorsApart DEF FollowInv, HolderTunes, Tuning
<1>3. Chosen # "none" /\ plan[c].profile = Chosen /\ (tunes = 0 => ActiveFollows)
  BY <1>1, <1>2 DEF FollowInv, HolderLeads
<1>4. Chosen \in Names
  BY <1>3, FoundIsNamed DEF Chosen
<1>5. own.set = TRUE
  OBVIOUS
<1> HIDE DEF own
<1>6. DOMAIN override' = Names /\ override'[Chosen].set
  BY <1>1, <1>3, <1>4, <1>5, ActorsApart DEF FollowInv, TablesTyped
<1>7. HolderTunes'
  BY <1>1, <1>2, ActorsApart DEF FollowInv, HolderTunes, Tuning
<1>8. ApiIsIdle'
  BY <1>1, ActorsApart DEF FollowInv, HolderTunes, ApiIsIdle
<1>9. TablesTyped'
  <2>1. DOMAIN AtStart = Names
    BY DEF AtStart
  <2> QED
    BY <1>1, <1>6, <2>1 DEF FollowInv, TablesTyped
<1>10. HolderLeads'
  BY <1>2 DEF HolderLeads
<1>11. WillFollow'
  BY <1>1, <1>3, <1>6, ChosenStays DEF WillFollow, Follows, ActiveFollows
<1> QED
  BY <1>7, <1>8, <1>9, <1>10, <1>11 DEF FollowInv

LEMMA FollowStep == FollowInv /\ [AdaptNext]_allVars => FollowInv'
<1> SUFFICES ASSUME FollowInv, [AdaptNext]_allVars PROVE FollowInv'
  OBVIOUS
<1>1. CASE AdaptTick \/ UNCHANGED allVars
  BY <1>1, UntouchedFollows DEF AdaptTick, Tick, allVars, vars, tuneVars
<1>2. CASE TuneRequest
  BY <1>2, ApiFollows
<1>3. ASSUME NEW c \in Connections,
             OpenTreated(c) \/ Succeed(c) \/ Fail(c) \/ RecordRst(c) \/ Choose(c) \/ ChooseNothing(c)
      PROVE  FollowInv'
  BY <1>3, OpenFollows, SucceedFollows, FailFollows, RecordFollows, ChooseFollows, ChooseNothingFollows
<1>4. ASSUME NEW a \in Actors, Activate(a) \/ LoadOverrides(a) \/ StoreOverrides(a)
      PROVE  FollowInv'
  <2>1. CASE a \in Connections
    BY <1>4, <2>1, ActivateFollows, LoadFollows, StoreFollows
  <2>2. CASE a = "api"
    BY <1>4, <2>2, ApiFollows
  <2> QED
    BY <2>1, <2>2, ActorsApart
<1> QED
  BY <1>1, <1>2, <1>3, <1>4 DEF AdaptNext

\* However the workers' failures and successes interleave, once all of them are done the
\* profile of the strategy that is then current is the active one and has an override,
\* if the API has not tuned (engine/mod.rs, observe_connection_outcome, where the
\* chain stays locked until the override is stored).
THEOREM ProfileFollowsChain == AdaptSpec => []QuietProfileFollowsChain
<1>1. FollowInv => QuietProfileFollowsChain
  BY ActorsApart DEF FollowInv, WillFollow, Follows, ActiveFollows, Quiet, QuietProfileFollowsChain
<1> QED
  BY <1>1, FollowInit, FollowStep, PTL DEF AdaptSpec

-----------------------------------------------------------------------------
(* The breaker.                                                              *)

\* The steps of record_rst that are taken under the mutex of the window.
UnderLock == {"window", "trip", "stamp", "probe", "half"}

Calls == {"idle", "lock", "close", "zero"} \cup UnderLock

\* As much of BreakerTypeOK as the argument needs; the counters may be anything.
BreakerTyped ==
  /\ state \in States
  /\ clock \in Nat /\ now \in Nat /\ openedAt \in Nat /\ openRead \in Nat
  /\ opened \in BOOLEAN
  /\ at \in [Workers -> Calls]
  /\ mutex \in Workers \cup {NoWorker}

\* Whoever is under the mutex holds it: at most one worker is.
Locked == \A w \in Workers : at[w] \in UnderLock => mutex = w

\* The stored time of an open breaker is the one the call that opened it last had read,
\* unless that call, which has the time at hand, has still to store it.
StampIsCurrent ==
  /\ \A w \in Workers : at[w] = "stamp" => now = openRead
  /\ state = "Open" => \/ openedAt = openRead
                       \/ \E w \in Workers : mutex = w /\ at[w] = "stamp"

BreakerInv == BreakerTyped /\ Locked /\ OpenIsTimed /\ StampIsCurrent /\ HalfOpenOnOwnTime

LEMMA BreakerStarts == BreakerInit => BreakerInv
<1> SUFFICES ASSUME BreakerInit PROVE BreakerInv
  OBVIOUS
<1>1. BreakerTyped
  BY DEF BreakerInit, BreakerTyped, States, Calls
<1>2. Locked /\ OpenIsTimed /\ StampIsCurrent /\ HalfOpenOnOwnTime
  BY DEF BreakerInit, Locked, UnderLock, OpenIsTimed, StampIsCurrent, HalfOpenOnOwnTime
<1> QED
  BY <1>1, <1>2 DEF BreakerInv

\* Time passes: what was read of the clock stays as it was read.
LEMMA TickKeeps == BreakerInv /\ BreakerTick => BreakerInv'
<1> SUFFICES ASSUME BreakerInv, BreakerTick PROVE BreakerInv'
  OBVIOUS
<1> USE BreakerAssumption DEF BreakerInv, BreakerTick, history
<1>1. BreakerTyped'
  BY DEF BreakerTyped
<1>2. Locked' /\ OpenIsTimed'
  BY DEF Locked, OpenIsTimed
<1>3. StampIsCurrent'
  BY DEF StampIsCurrent, BreakerTyped
<1>4. HalfOpenOnOwnTime'
  BY DEF HalfOpenOnOwnTime, BreakerTyped
<1> QED
  BY <1>1, <1>2, <1>3, <1>4

\* A step of record_rst or record_success that touches neither the breaker's state
\* nor its times, and neither begins nor ends a step that the invariant names.
LEMMA QuietStepKeeps ==
  ASSUME NEW w \in Workers, BreakerInv,
         \/ RstCount(w) \/ RstLock(w) \/ RstNewWindow(w) \/ RstSameWindow(w)
         \/ SuccessLook(w) \/ SuccessZero(w)
  PROVE  BreakerInv'
<1> USE BreakerAssumption
    DEF BreakerInv, RstCount, RstLock, RstNewWindow, RstSameWindow, SuccessLook,
        SuccessZero, SameState, Goto, Return, Keep, history
<1>1. BreakerTyped'
  BY DEF BreakerTyped, Calls, UnderLock
<1>2. Locked'
  BY DEF BreakerTyped, Locked, UnderLock
<1>3. \A v \in Workers : (mutex = v /\ at[v] = "stamp")
                         => (mutex' = v /\ at'[v] = "stamp")
  BY DEF BreakerTyped, Locked, UnderLock
<1>4. \A v \in Workers : at'[v] \in {"stamp", "half"} => at[v] = at'[v] /\ now' = now
  BY DEF BreakerTyped, Locked, UnderLock
<1>5. OpenIsTimed' /\ StampIsCurrent'
  BY <1>3, <1>4 DEF OpenIsTimed, StampIsCurrent
<1>6. HalfOpenOnOwnTime'
  BY <1>4 DEF BreakerTyped, HalfOpenOnOwnTime
<1> QED
  BY <1>1, <1>2, <1>5, <1>6

\* The worker that opens the breaker goes on to store the time, and nobody else is under
\* the mutex: no worker is about to take the new opening for the old one.
LEMMA TripKeeps == ASSUME NEW w \in Workers, BreakerInv, RstTrip(w) PROVE BreakerInv'
<1> USE DEF BreakerInv, RstTrip, SetState, SameState, Goto, AfterTrip, Tripping, Keep, history
<1>1. BreakerTyped'
  BY DEF BreakerTyped, Calls, UnderLock, States
<1>2. Locked'
  BY DEF BreakerTyped, Locked, UnderLock
<1>3. mutex = w /\ mutex' = w
  BY DEF Locked, UnderLock
<1>4. CASE Tripping(w)
  <2>1. at'[w] = "stamp"
    BY <1>4 DEF BreakerTyped
  <2>2. OpenIsTimed' /\ StampIsCurrent'
    BY <1>3, <1>4, <2>1 DEF OpenIsTimed, StampIsCurrent, BreakerTyped, Locked, UnderLock
  <2>3. HalfOpenOnOwnTime'
    BY <1>2, <1>3, <2>1 DEF HalfOpenOnOwnTime, Locked, UnderLock
  <2> QED
    BY <1>1, <1>2, <2>2, <2>3
<1>5. CASE ~Tripping(w)
  <2>1. \A v \in Workers : ~(mutex = v /\ at[v] = "stamp")
    BY <1>3
  <2>2. OpenIsTimed' /\ StampIsCurrent'
    BY <1>5, <2>1 DEF OpenIsTimed, StampIsCurrent, BreakerTyped, Locked, UnderLock
  <2>3. HalfOpenOnOwnTime'
    BY <1>5 DEF HalfOpenOnOwnTime, BreakerTyped
  <2> QED
    BY <1>1, <1>2, <2>2, <2>3
<1> QED
  BY <1>4, <1>5

\* The time is stored.
LEMMA StampKeeps == ASSUME NEW w \in Workers, BreakerInv, RstStamp(w) PROVE BreakerInv'
<1> USE DEF BreakerInv, RstStamp, SameState, Goto, Stamp, Keep, history
<1>1. BreakerTyped'
  BY DEF BreakerTyped, Calls, UnderLock
<1>2. Locked'
  BY DEF BreakerTyped, Locked, UnderLock
<1>3. OpenIsTimed' /\ StampIsCurrent'
  BY DEF OpenIsTimed, StampIsCurrent, BreakerTyped, Locked, UnderLock
<1>4. HalfOpenOnOwnTime'
  BY DEF HalfOpenOnOwnTime, BreakerTyped
<1> QED
  BY <1>1, <1>2, <1>3, <1>4

\* A worker that finds the stored time old enough finds the time of the last opening old
\* enough: it holds the mutex itself, so no time waits to be stored.
LEMMA ProbeKeeps == ASSUME NEW w \in Workers, BreakerInv, RstProbe(w) PROVE BreakerInv'
<1> USE BreakerAssumption DEF BreakerInv, RstProbe, SameState, Goto, Return, Keep, history
<1>1. BreakerTyped'
  BY DEF BreakerTyped, Calls, UnderLock
<1>2. Locked'
  BY DEF BreakerTyped, Locked, UnderLock
<1>3. \A v \in Workers : ~(mutex = v /\ at[v] = "stamp")
  BY DEF Locked, UnderLock
<1>4. OpenIsTimed' /\ StampIsCurrent'
  BY <1>3 DEF OpenIsTimed, StampIsCurrent, BreakerTyped, Locked, UnderLock
<1>5. state = "Open" => openedAt = openRead
  BY <1>3 DEF StampIsCurrent
<1>6. HalfOpenOnOwnTime'
  BY <1>5 DEF HalfOpenOnOwnTime, BreakerTyped, Locked, UnderLock
<1> QED
  BY <1>1, <1>2, <1>4, <1>6

\* A breaker that is not open satisfies what is said of an open one.
LEMMA LeaveOpenKeeps ==
  ASSUME NEW w \in Workers, BreakerInv, RstHalfOpen(w) \/ SuccessClose(w)
  PROVE  BreakerInv'
<1> USE DEF BreakerInv, RstHalfOpen, SuccessClose, SetState, Goto, Return, Keep, history
<1>1. BreakerTyped'
  BY DEF BreakerTyped, Calls, UnderLock, States
<1>2. Locked'
  BY DEF BreakerTyped, Locked, UnderLock
<1>3. OpenIsTimed' /\ StampIsCurrent' /\ HalfOpenOnOwnTime'
  BY DEF OpenIsTimed, StampIsCurrent, HalfOpenOnOwnTime, BreakerTyped, Locked, UnderLock
<1> QED
  BY <1>1, <1>2, <1>3

LEMMA BreakerStep == BreakerInv /\ [BreakerNext]_breakerVars => BreakerInv'
<1> SUFFICES ASSUME BreakerInv, [BreakerNext]_breakerVars PROVE BreakerInv'
  OBVIOUS
<1>1. CASE BreakerTick
  BY <1>1, TickKeeps
<1>2. CASE RouteDesync
  BY <1>2 DEF RouteDesync, history, BreakerInv, BreakerTyped, Locked, OpenIsTimed, StampIsCurrent,
              HalfOpenOnOwnTime
<1>3. ASSUME NEW w \in Workers, RstCount(w) \/ SuccessLook(w) \/ InCall(w)
      PROVE  BreakerInv'
  BY <1>3, QuietStepKeeps, TripKeeps, StampKeeps, ProbeKeeps, LeaveOpenKeeps DEF InCall
<1>4. CASE UNCHANGED breakerVars
  BY <1>4 DEF breakerVars, history, BreakerInv, BreakerTyped, Locked, OpenIsTimed, StampIsCurrent,
              HalfOpenOnOwnTime
<1> QED
  BY <1>1, <1>2, <1>3, <1>4 DEF BreakerNext

-----------------------------------------------------------------------------
\* An open breaker always has the time its timeout runs from, or the worker that opened
\* it is about to store it: record_rst can take it to half open (adaptive_router.rs).
THEOREM OpenBreakerIsTimed == BreakerSpec => []OpenIsTimed
<1>1. BreakerInv => OpenIsTimed
  BY DEF BreakerInv
<1> QED
  BY <1>1, BreakerStarts, BreakerStep, PTL DEF BreakerSpec

\* However the relaxed atomics of record_rst and record_success interleave, a worker is
\* about to make an open breaker half open only if the clock it read itself is past the
\* timeout counted from what the call that opened the breaker last had read (record_rst,
\* adaptive_router.rs).
THEOREM HalfOpensOnTime == BreakerSpec => []HalfOpenOnOwnTime
<1>1. BreakerInv => HalfOpenOnOwnTime
  BY DEF BreakerInv
<1> QED
  BY <1>1, BreakerStarts, BreakerStep, PTL DEF BreakerSpec
=============================================================================
