--------------------------- MODULE ConntrackProofs ---------------------------
(* Proofs about Conntrack, for every number of keys, workers and slots.      *)
EXTENDS Conntrack, FiniteSetTheorems, TLAPS

(* An operation in progress, and a pass that holds a key, hold a real key.   *)
HeldKeys ==
  /\ \A w \in Workers : wpc[w] # "idle" => wkey[w] \in Keys
  /\ gc.pc \in {"look", "evict"} => gc.hand \in Keys

TypeInv == TypeOK /\ HeldKeys

-----------------------------------------------------------------------------
(* The wheel.                                                                *)

(* Appending a key to one queue of the wheel queues it, and loses none of the
   keys that were queued (SegQueue::push).                                   *)
LEMMA AppendQueues ==
  ASSUME NEW s \in Slots, NEW k \in Keys, wheel \in [Slots -> Seq(Keys)],
         wheel' = [wheel EXCEPT ![s] = Append(@, k)]
  PROVE  /\ wheel' \in [Slots -> Seq(Keys)]
         /\ InWheel(k)'
         /\ \A j \in Keys : InWheel(j) => InWheel(j)'
<1>1. wheel' \in [Slots -> Seq(Keys)]
  OBVIOUS
<1>2. wheel'[s] = Append(wheel[s], k) /\ wheel[s] \in Seq(Keys)
  OBVIOUS
<1>3. InWheel(k)'
  <2>1. Len(wheel'[s]) = Len(wheel[s]) + 1 /\ wheel'[s][Len(wheel[s]) + 1] = k
    BY <1>2
  <2>2. Len(wheel[s]) + 1 \in 1 .. Len(wheel'[s])
    BY <1>2, <2>1
  <2> QED
    BY <2>1, <2>2 DEF InWheel
<1>4. ASSUME NEW j \in Keys, InWheel(j)
      PROVE  InWheel(j)'
  <2>0. PICK t \in Slots : \E i \in 1 .. Len(wheel[t]) : wheel[t][i] = j
    BY <1>4 DEF InWheel
  <2>1. PICK i \in 1 .. Len(wheel[t]) : wheel[t][i] = j
    BY <2>0
  <2>2. i \in 1 .. Len(wheel'[t]) /\ wheel'[t][i] = j
    BY <2>1, <1>2
  <2> QED
    BY <2>2 DEF InWheel
<1> QED
  BY <1>1, <1>3, <1>4

(* Popping the head of one queue loses at most that key.                     *)
LEMMA PopLosesHeadOnly ==
  ASSUME NEW s \in Slots, wheel \in [Slots -> Seq(Keys)], wheel[s] # <<>>,
         wheel' = [wheel EXCEPT ![s] = Tail(@)]
  PROVE  /\ wheel' \in [Slots -> Seq(Keys)]
         /\ Head(wheel[s]) \in Keys
         /\ \A j \in Keys : InWheel(j) => InWheel(j)' \/ j = Head(wheel[s])
<1>1. wheel' \in [Slots -> Seq(Keys)] /\ Head(wheel[s]) \in Keys
  OBVIOUS
<1>2. wheel'[s] = Tail(wheel[s]) /\ wheel[s] \in Seq(Keys)
  OBVIOUS
<1>3. ASSUME NEW j \in Keys, InWheel(j), j # Head(wheel[s])
      PROVE  InWheel(j)'
  <2>0. PICK t \in Slots : \E i \in 1 .. Len(wheel[t]) : wheel[t][i] = j
    BY <1>3 DEF InWheel
  <2>1. PICK i \in 1 .. Len(wheel[t]) : wheel[t][i] = j
    BY <2>0
  <2>2. CASE t # s
    <3>1. wheel'[t] = wheel[t]
      BY <2>2
    <3> QED
      BY <2>1, <3>1 DEF InWheel
  <2>3. CASE t = s
    <3>1. i # 1
      BY <2>1, <2>3, <1>3, <1>2
    <3>2. i - 1 \in 1 .. Len(Tail(wheel[s])) /\ Tail(wheel[s])[i - 1] = j
      BY <2>1, <2>3, <3>1, <1>2
    <3> QED
      BY <3>2, <1>2 DEF InWheel
  <2> QED
    BY <2>2, <2>3
<1> QED
  BY <1>1, <1>3

(* Moving the head of a queue to its tail changes no membership: what happens
   to the key popped above the batch limit.                                  *)
LEMMA RotateKeeps ==
  ASSUME NEW s \in Slots, wheel \in [Slots -> Seq(Keys)], wheel[s] # <<>>,
         wheel' = [wheel EXCEPT ![s] = Append(Tail(@), Head(@))]
  PROVE  /\ wheel' \in [Slots -> Seq(Keys)]
         /\ \A j \in Keys : InWheel(j) => InWheel(j)'
<1>1. /\ wheel[s] \in Seq(Keys) /\ Head(wheel[s]) \in Keys
      /\ Tail(wheel[s]) \in Seq(Keys)
      /\ Len(Tail(wheel[s])) = Len(wheel[s]) - 1
      /\ Len(wheel[s]) \in Nat \ {0}
  OBVIOUS
<1>2. wheel'[s] = Append(Tail(wheel[s]), Head(wheel[s]))
  OBVIOUS
<1>3. wheel' \in [Slots -> Seq(Keys)]
  BY <1>1
<1>4. Len(wheel'[s]) = Len(wheel[s])
  BY <1>1, <1>2
<1>5. ASSUME NEW j \in Keys, InWheel(j)
      PROVE  InWheel(j)'
  <2>0. PICK t \in Slots : \E i \in 1 .. Len(wheel[t]) : wheel[t][i] = j
    BY <1>5 DEF InWheel
  <2>1. PICK i \in 1 .. Len(wheel[t]) : wheel[t][i] = j
    BY <2>0
  <2>2. CASE t # s
    <3>1. wheel'[t] = wheel[t]
      BY <2>2
    <3> QED
      BY <2>1, <3>1 DEF InWheel
  <2>3. CASE t = s /\ i = 1
    <3>1. wheel'[s][Len(wheel[s])] = j
      BY <1>1, <1>2, <2>1, <2>3
    <3>2. Len(wheel[s]) \in 1 .. Len(wheel'[s])
      BY <1>1, <1>4
    <3> QED
      BY <3>1, <3>2 DEF InWheel
  <2>4. CASE t = s /\ i # 1
    <3>1. i - 1 \in 1 .. Len(Tail(wheel[s])) /\ Tail(wheel[s])[i - 1] = j
      BY <2>1, <2>4, <1>1
    <3>2. i - 1 \in 1 .. Len(wheel'[s]) /\ wheel'[s][i - 1] = j
      BY <3>1, <1>1, <1>2, <1>4
    <3> QED
      BY <3>2 DEF InWheel
  <2> QED
    BY <2>2, <2>3, <2>4
<1> QED
  BY <1>3, <1>5
-----------------------------------------------------------------------------
(* Typing.                                                                   *)

(* A wrapped count is a value of the counter.                                *)
LEMMA WrappedTyped == \A n \in Int : Wrapped(n) \in 0 .. CounterSize - 1
BY ConntrackAssumption DEF Wrapped

LEMMA SlotArithmetic ==
  /\ gcTick \in Slots => (gcTick + 1) % NumSlots \in Slots
  /\ \A s \in Slots : (s + NumSlots \div 2) % NumSlots \in Slots
<1> USE ConntrackAssumption DEF Slots
<1>1. \A n \in Nat : n % NumSlots \in 0 .. NumSlots - 1
  OBVIOUS
<1>2. NumSlots \div 2 \in Nat
  OBVIOUS
<1> QED
  BY <1>1, <1>2

(* schedule_gc_key keeps the wheel well-typed.                               *)
LEMMA ScheduleTyped ==
  ASSUME TypeOK, NEW k \in Keys, schedule_gc_key(k)
  PROVE  wheel' \in [Slots -> Seq(Keys)]
BY AppendQueues, ConntrackAssumption DEF TypeOK, schedule_gc_key, Slots

LEMMA InitTyped == Init => TypeInv
BY ConntrackAssumption
   DEF Init, TypeInv, TypeOK, HeldKeys, GcType, Quiet, Slots, MaxAge

LEMMA WorkerTyped ==
  ASSUME TypeInv, NEW w \in Workers, WorkerCall(w) \/ WorkerFinish(w)
  PROVE  TypeInv'
<1> USE ConntrackAssumption DEF TypeInv, TypeOK, HeldKeys, MaxAge
<1>1. ASSUME NEW k \in Keys, UpsertVacant(w, k)
      PROVE  TypeInv'
  BY <1>1 DEF UpsertVacant, InsertNew, Begin
<1>2. ASSUME NEW k \in Keys, UpsertOccupied(w, k)
      PROVE  TypeInv'
  <2>1. wheel' \in [Slots -> Seq(Keys)]
    BY <1>2, ScheduleTyped DEF UpsertOccupied
  <2>2. idle' \in [Keys -> 0 .. MaxIdle + 1]
    BY <1>2 DEF UpsertOccupied
  <2>3. UNCHANGED <<tracked, desynced, active, gcTick, wpc, wkey, gc, rpc, sweep, twice>>
    BY <1>2 DEF UpsertOccupied
  <2> QED
    BY <2>1, <2>2, <2>3
<1>3. ASSUME NEW k \in Keys, ApplyDesyncVacant(w, k)
      PROVE  TypeInv'
  BY <1>3 DEF ApplyDesyncVacant, InsertNew, Begin
<1>4. ASSUME NEW k \in Keys, ApplyDesyncOccupied(w, k)
      PROVE  TypeInv'
  <2>1. wheel' \in [Slots -> Seq(Keys)]
    BY <1>4, ScheduleTyped DEF ApplyDesyncOccupied
  <2>2. /\ idle' \in [Keys -> 0 .. MaxIdle + 1]
        /\ desynced' \in [Keys -> BOOLEAN]
    BY <1>4 DEF ApplyDesyncOccupied
  <2>3. UNCHANGED <<tracked, active, gcTick, wpc, wkey, gc, rpc, sweep, twice>>
    BY <1>4 DEF ApplyDesyncOccupied
  <2> QED
    BY <2>1, <2>2, <2>3
<1>5. ASSUME NEW k \in Keys, UpdateSeq(w, k)
      PROVE  TypeInv'
  BY <1>5 DEF UpdateSeq, Begin
<1>6. ASSUME NEW k \in Keys, Touch(w, k)
      PROVE  TypeInv'
  BY <1>6 DEF Touch
<1>7. ASSUME CountNew(w)
      PROVE  TypeInv'
  <2>1. active' \in 0 .. CounterSize - 1
    BY <1>7, WrappedTyped DEF CountNew
  <2> QED
    BY <1>7, <2>1 DEF CountNew
<1>8. ASSUME PushKey(w)
      PROVE  TypeInv'
  <2>1. wheel' \in [Slots -> Seq(Keys)]
    BY <1>8, ScheduleTyped DEF PushKey
  <2>2. /\ wpc' \in [Workers -> {"idle", "count", "push"}]
        /\ wkey' \in [Workers -> Keys \cup {NoKey}]
        /\ \A v \in Workers : wpc'[v] # "idle" => wkey'[v] \in Keys
    BY <1>8 DEF PushKey, Begin
  <2>3. UNCHANGED <<tracked, idle, desynced, active, gcTick, gc, rpc, sweep, twice>>
    BY <1>8 DEF PushKey, Begin
  <2> QED
    BY <2>1, <2>2, <2>3
<1> QED
  BY <1>1, <1>2, <1>3, <1>4, <1>5, <1>6, <1>7, <1>8 DEF WorkerCall, WorkerFinish

LEMMA GcTyped ==
  ASSUME TypeInv, GcStart \/ GcStep
  PROVE  TypeInv'
<1> USE ConntrackAssumption DEF TypeInv, TypeOK, HeldKeys, GcType
<1>1. CASE GcStart
  BY <1>1, SlotArithmetic DEF GcStart, Quiet, NextTick
<1>2. CASE GcPop
  <2>1. wheel' \in [Slots -> Seq(Keys)] /\ Head(wheel[gc.slot]) \in Keys
    BY <1>2, PopLosesHeadOnly DEF GcPop
  <2>2. gc.count \in Nat /\ gc.count + 1 \in Nat
    OBVIOUS
  <2> DEFINE n == gc.count + 1
  <2>4. gc' = [gc EXCEPT !.pc = "look", !.hand = Head(wheel[gc.slot]), !.count = n]
    BY <1>2 DEF GcPop
  <2>5. gc' \in GcType /\ gc'.hand \in Keys
    <3> HIDE DEF n
    <3>1. n \in Nat
      BY <2>2 DEF n
    <3> QED
      BY <2>1, <2>4, <3>1
  <2>6. UNCHANGED <<tracked, idle, desynced, active, gcTick, wpc, wkey, rpc, sweep,
                    twice>>
    BY <1>2 DEF GcPop
  <2> QED
    BY <2>1, <2>5, <2>6
<1>3. CASE GcPopOverBatch
  <2>1. wheel' \in [Slots -> Seq(Keys)]
    BY <1>3, RotateKeeps DEF GcPopOverBatch
  <2> QED
    BY <1>3, <2>1 DEF GcPopOverBatch
<1>4. CASE GcDrained
  BY <1>4 DEF GcDrained
<1>5. CASE GcLookAbsent
  BY <1>5 DEF GcLookAbsent
<1>6. CASE GcLookActive
  <2>1. wheel' \in [Slots -> Seq(Keys)]
    BY <1>6, AppendQueues, SlotArithmetic DEF GcLookActive, Reschedule
  <2> QED
    BY <1>6, <2>1 DEF GcLookActive
<1>7. CASE GcLookStale
  BY <1>7 DEF GcLookStale
<1>8. CASE GcEvict
  <2> DEFINE n == gc.evicted + 1
  <2>0. n \in Nat
    OBVIOUS
  <2>1. gc' \in GcType /\ gc'.pc = "pop"
    <3>1. gc' = [gc EXCEPT !.pc = "pop", !.hand = NoKey, !.evicted = n]
      BY <1>8 DEF GcEvict
    <3> HIDE DEF n
    <3> QED
      BY <2>0, <3>1
  <2>2. /\ tracked' \in SUBSET Keys
        /\ idle' \in [Keys -> 0 .. MaxAge]
        /\ desynced' \in [Keys -> BOOLEAN]
    BY <1>8 DEF GcEvict, Discard, MaxAge
  <2>3. twice' \in Nat
    BY <1>8 DEF GcEvict
  <2>4. UNCHANGED <<active, wheel, gcTick, wpc, wkey, rpc, sweep>>
    BY <1>8 DEF GcEvict
  <2> QED
    BY <2>1, <2>2, <2>3, <2>4
<1>9. CASE GcSettle
  <2>1. active' \in 0 .. CounterSize - 1
    BY <1>9, WrappedTyped DEF GcSettle, Settled
  <2>2. gc' \in GcType /\ gc'.pc = "idle"
    BY <1>9 DEF GcSettle, Quiet, Slots
  <2> QED
    BY <1>9, <2>1, <2>2 DEF GcSettle
<1> QED
  BY <1>1, <1>2, <1>3, <1>4, <1>5, <1>6, <1>7, <1>8, <1>9 DEF GcStep

LEMMA RemoverTyped ==
  ASSUME TypeInv, NEW r \in Removers, RemoverStep(r)
  PROVE  TypeInv'
<1> USE ConntrackAssumption DEF TypeInv, TypeOK, HeldKeys, GcType, MaxAge
<1>1. ASSUME NEW k \in Keys, RemoveEntry(r, k)
      PROVE  TypeInv'
  BY <1>1 DEF RemoveEntry, Discard
<1>2. CASE FullGcStart(r)
  BY <1>2 DEF FullGcStart
<1>4. CASE SubtractRemoved(r)
  <2>1. active' \in 0 .. CounterSize - 1
    BY <1>4, WrappedTyped DEF SubtractRemoved
  <2> QED
    BY <1>4, <2>1 DEF SubtractRemoved
<1>3. ASSUME NEW k \in Keys, FullGcVisit(r, k)
      PROVE  TypeInv'
  <2>1. /\ sweep' \in [Removers -> SUBSET Keys]
        /\ UNCHANGED <<wheel, gcTick, wpc, wkey, gc, rpc, twice>>
    BY <1>3 DEF FullGcVisit
  <2>2. CASE k \in tracked /\ idle[k] >= FullIdle
    <3>1. Discard(k)
      BY <1>3, <2>2 DEF FullGcVisit
    <3>2. active' \in 0 .. CounterSize - 1
      BY <1>3, <2>2, WrappedTyped DEF FullGcVisit
    <3> QED
      BY <2>1, <3>1, <3>2 DEF Discard
  <2>3. CASE ~(k \in tracked /\ idle[k] >= FullIdle)
    <3>1. UNCHANGED <<tracked, idle, desynced, active>>
      BY <1>3, <2>3 DEF FullGcVisit
    <3> QED
      BY <2>1, <3>1
  <2> QED
    BY <2>2, <2>3
<1> QED
  BY <1>1, <1>2, <1>3, <1>4 DEF RemoverStep

LEMMA NextTyped == TypeInv /\ [Next]_vars => TypeInv'
<1> SUFFICES ASSUME TypeInv, [Next]_vars
             PROVE  TypeInv'
  OBVIOUS
<1>1. CASE Tick
  <2>1. idle' \in [Keys -> 0 .. MaxAge]
    BY <1>1, ConntrackAssumption DEF Tick, TypeInv, TypeOK, MaxAge
  <2>2. UNCHANGED <<tracked, desynced, active, wheel, gcTick, wpc, wkey, gc, rpc,
                    sweep, twice>>
    BY <1>1 DEF Tick
  <2> QED
    BY <2>1, <2>2 DEF TypeInv, TypeOK, HeldKeys
<1>2. CASE UNCHANGED vars
  BY <1>2 DEF vars, TypeInv, TypeOK, HeldKeys, GcType, MaxAge
<1> QED
  BY <1>1, <1>2, WorkerTyped, GcTyped, RemoverTyped DEF Next

(* Every table operation, in any interleaving, keeps every variable in its
   range, and a pass or a worker that holds a key holds a connection key.    *)
THEOREM TypeCorrect == Spec => []TypeOK
<1>1. TypeInv => TypeOK
  BY DEF TypeInv
<1> QED
  BY InitTyped, NextTyped, <1>1, PTL DEF Spec
-----------------------------------------------------------------------------
(* No entry is leaked.                                                       *)

(* A worker that starts an operation on key k was pushing nothing before, so
   the keys that other workers are pushing are still being pushed.           *)
LEMMA BeginKeepsPushes ==
  ASSUME TypeInv, NEW w \in Workers, NEW k \in Keys, NEW step \in {"count", "push"},
         wpc[w] = "idle", Begin(w, k, step)
  PROVE  /\ BeingPushed(k)'
         /\ \A j \in Keys : BeingPushed(j) => BeingPushed(j)'
BY DEF Begin, BeingPushed, TypeInv, TypeOK

LEMMA WorkerCovers ==
  ASSUME TypeInv, NoLeakedEntry, NEW w \in Workers, WorkerCall(w) \/ WorkerFinish(w)
  PROVE  NoLeakedEntry'
<1> USE DEF NoLeakedEntry
<1> tracked \in SUBSET Keys
  BY DEF TypeInv, TypeOK
<1>1. ASSUME NEW k \in Keys, NEW b \in BOOLEAN, wpc[w] = "idle", InsertNew(w, k, b)
      PROVE  NoLeakedEntry'
  <2>1. /\ BeingPushed(k)'
        /\ \A j \in Keys : BeingPushed(j) => BeingPushed(j)'
    BY <1>1, BeginKeepsPushes DEF InsertNew
  <2>2. tracked' = tracked \cup {k} /\ UNCHANGED <<wheel, gc>>
    BY <1>1 DEF InsertNew
  <2> QED
    BY <2>1, <2>2 DEF InWheel, InHand
<1>2. ASSUME NEW k \in Keys, schedule_gc_key(k),
             UNCHANGED <<tracked, wpc, wkey, gc>>
      PROVE  NoLeakedEntry'
  <2>1. \A j \in Keys : InWheel(j) => InWheel(j)'
    BY <1>2, AppendQueues, ConntrackAssumption
       DEF schedule_gc_key, TypeInv, TypeOK, Slots
  <2> QED
    BY <1>2, <2>1 DEF InHand, BeingPushed
<1>3. ASSUME NEW k \in Keys, UpdateSeq(w, k)
      PROVE  NoLeakedEntry'
  <2>1. \A j \in Keys : BeingPushed(j) => BeingPushed(j)'
    BY <1>3, BeginKeepsPushes DEF UpdateSeq
  <2> QED
    BY <1>3, <2>1 DEF UpdateSeq, InWheel, InHand
<1>4. ASSUME NEW k \in Keys, Touch(w, k)
      PROVE  NoLeakedEntry'
  BY <1>4 DEF Touch, InWheel, InHand, BeingPushed
<1>5. ASSUME CountNew(w)
      PROVE  NoLeakedEntry'
  <2>1. \A j \in Keys : BeingPushed(j) => BeingPushed(j)'
    BY <1>5 DEF CountNew, BeingPushed, TypeInv, TypeOK
  <2> QED
    BY <1>5, <2>1 DEF CountNew, InWheel, InHand
<1>6. ASSUME PushKey(w)
      PROVE  NoLeakedEntry'
  <2>1. PICK k \in Keys : k = wkey[w]
    BY <1>6 DEF PushKey, TypeInv, HeldKeys
  <2>2. wheel' = [wheel EXCEPT ![HomeSlot[k]] = Append(@, k)]
    BY <1>6, <2>1 DEF PushKey, schedule_gc_key
  <2>3. HomeSlot[k] \in Slots /\ wheel \in [Slots -> Seq(Keys)]
    BY ConntrackAssumption DEF Slots, TypeInv, TypeOK
  <2>4. /\ InWheel(k)'
        /\ \A j \in Keys : InWheel(j) => InWheel(j)'
    BY <2>2, <2>3, AppendQueues
  <2>5. \A j \in Keys : BeingPushed(j) => j = k \/ BeingPushed(j)'
    BY <1>6, <2>1 DEF PushKey, Begin, BeingPushed, TypeInv, TypeOK
  <2> QED
    BY <1>6, <2>4, <2>5 DEF PushKey, InHand
<1>7. ASSUME NEW k \in Keys, UpsertVacant(w, k) \/ ApplyDesyncVacant(w, k)
      PROVE  NoLeakedEntry'
  BY <1>7, <1>1 DEF UpsertVacant, ApplyDesyncVacant
<1>8. ASSUME NEW k \in Keys, UpsertOccupied(w, k) \/ ApplyDesyncOccupied(w, k)
      PROVE  NoLeakedEntry'
  BY <1>8, <1>2 DEF UpsertOccupied, ApplyDesyncOccupied
<1> QED
  BY <1>3, <1>4, <1>5, <1>6, <1>7, <1>8 DEF WorkerCall, WorkerFinish

LEMMA GcCovers ==
  ASSUME TypeInv, NoLeakedEntry, GcStart \/ GcStep
  PROVE  NoLeakedEntry'
<1> USE DEF NoLeakedEntry
<1> /\ tracked \in SUBSET Keys /\ wheel \in [Slots -> Seq(Keys)] /\ gc \in GcType
    /\ gc.slot \in Slots
  BY DEF TypeInv, TypeOK, GcType
<1>1. CASE GcStart
  BY <1>1 DEF GcStart, Quiet, InWheel, InHand, BeingPushed
<1>2. CASE GcPop
  <2>1. \A j \in Keys : InWheel(j) => InWheel(j)' \/ j = Head(wheel[gc.slot])
    BY <1>2, PopLosesHeadOnly DEF GcPop
  <2>2. gc'.pc = "look" /\ gc'.hand = Head(wheel[gc.slot])
    BY <1>2 DEF GcPop, GcType
  <2> QED
    BY <1>2, <2>1, <2>2 DEF GcPop, InHand, BeingPushed
<1>3. CASE GcPopOverBatch
  <2>1. \A j \in Keys : InWheel(j) => InWheel(j)'
    BY <1>3, RotateKeeps DEF GcPopOverBatch
  <2> QED
    BY <1>3, <2>1 DEF GcPopOverBatch, InHand, BeingPushed
<1>4. CASE GcDrained
  BY <1>4 DEF GcDrained, InWheel, InHand, BeingPushed
<1>5. CASE GcLookAbsent
  BY <1>5 DEF GcLookAbsent, InWheel, InHand, BeingPushed
<1>6. CASE GcLookActive
  <2>1. gc.hand \in Keys
    BY <1>6 DEF GcLookActive, TypeInv, HeldKeys
  <2>2. PICK k \in Keys : k = gc.hand
    BY <2>1
  <2>3. PICK s \in Slots : s = (gc.slot + NumSlots \div 2) % NumSlots
    BY SlotArithmetic
  <2>4. wheel' = [wheel EXCEPT ![s] = Append(@, k)]
    BY <1>6, <2>2, <2>3 DEF GcLookActive, Reschedule
  <2>5. InWheel(k)' /\ \A j \in Keys : InWheel(j) => InWheel(j)'
    BY <2>4, AppendQueues
  <2> QED
    BY <1>6, <2>2, <2>5 DEF GcLookActive, InHand, BeingPushed
<1>7. CASE GcLookStale
  BY <1>7 DEF GcLookStale, InWheel, InHand, BeingPushed, GcType
<1>8. CASE GcEvict
  BY <1>8 DEF GcEvict, Discard, InWheel, InHand, BeingPushed
<1>9. CASE GcSettle
  BY <1>9 DEF GcSettle, Settled, Quiet, InWheel, InHand, BeingPushed
<1> QED
  BY <1>1, <1>2, <1>3, <1>4, <1>5, <1>6, <1>7, <1>8, <1>9 DEF GcStep

(* Removing entries uncovers none of the entries that stay.                  *)
LEMMA RemoverCovers ==
  ASSUME NoLeakedEntry, NEW r \in Removers, RemoverStep(r)
  PROVE  NoLeakedEntry'
<1>1. tracked' \subseteq tracked /\ UNCHANGED <<wheel, gc, wpc, wkey>>
  <2>1. ASSUME NEW k \in Keys, RemoveEntry(r, k)
        PROVE  tracked' \subseteq tracked /\ UNCHANGED <<wheel, gc, wpc, wkey>>
    BY <2>1 DEF RemoveEntry, Discard
  <2>2. ASSUME NEW k \in Keys, FullGcVisit(r, k)
        PROVE  tracked' \subseteq tracked /\ UNCHANGED <<wheel, gc, wpc, wkey>>
    BY <2>2 DEF FullGcVisit, Discard
  <2>3. CASE FullGcStart(r) \/ SubtractRemoved(r)
    BY <2>3 DEF FullGcStart, SubtractRemoved
  <2> QED
    BY <2>1, <2>2, <2>3 DEF RemoverStep
<1> QED
  BY <1>1 DEF NoLeakedEntry, InWheel, InHand, BeingPushed

(* Every entry of the table can always be reached by the garbage collector:
   no interleaving of the workers' unlocked pushes with the pass, with remove
   or with the full gc takes the last queued key of a live entry away.       *)
THEOREM EntriesStayReachable == Spec => []NoLeakedEntry
<1>1. Init => NoLeakedEntry
  BY DEF Init, NoLeakedEntry
<1>2. TypeInv /\ NoLeakedEntry /\ [Next]_vars => NoLeakedEntry'
  <2> SUFFICES ASSUME TypeInv, NoLeakedEntry, [Next]_vars
               PROVE  NoLeakedEntry'
    OBVIOUS
  <2>1. CASE Tick
    BY <2>1 DEF Tick, NoLeakedEntry, InWheel, InHand, BeingPushed
  <2>2. CASE UNCHANGED vars
    BY <2>2 DEF vars, NoLeakedEntry, InWheel, InHand, BeingPushed
  <2> QED
    BY <2>1, <2>2, WorkerCovers, GcCovers, RemoverCovers DEF Next
<1> QED
  BY <1>1, <1>2, InitTyped, NextTyped, PTL DEF Spec

-----------------------------------------------------------------------------
(* active_count.                                                             *)

(* Division with a remainder, for a quotient that has a name.                *)
LEMMA Division ==
  ASSUME NEW a \in Int, NEW W \in Int, W > 0, NEW q \in Int, q = a \div W
  PROVE  a = W * q + (a % W) /\ a % W \in 0 .. W - 1
<1>1. a = W * q + (a % W)
  OBVIOUS
<1>2. a % W \in 0 .. W - 1
  OBVIOUS
<1> QED
  BY <1>1, <1>2

LEMMA Distributes ==
  ASSUME NEW W \in Int, NEW a \in Int, NEW b \in Int
  PROVE  W * (a - b) = W * a - W * b
OBVIOUS

LEMMA NoMultipleBetween ==
  ASSUME NEW W \in Nat \ {0}, NEW d \in Int, W * d < W, -W < W * d
  PROVE  d = 0
<1>1. d >= 1 => W * d >= W
  OBVIOUS
<1>2. d <= -1 => W * d <= -W
  OBVIOUS
<1> QED
  BY <1>1, <1>2

(* Multiples of the counter's size do not show.                              *)
LEMMA MultiplesVanish ==
  ASSUME NEW W \in Nat \ {0}, NEW x \in Int, NEW m \in Int, NEW y \in Int,
         y = x + W * m
  PROVE  y % W = x % W
<1>0. W \in Int /\ W > 0
  OBVIOUS
<1> DEFINE q == x \div W
           r == x % W
           p == y \div W
           t == y % W
<1>1. q \in Int /\ p \in Int
  BY <1>0
<1>2. r \in 0 .. W - 1 /\ x = W * q + r
  <2> HIDE DEF q
  <2>1. q = x \div W
    BY DEF q
  <2> QED
    BY <1>0, <1>1, <2>1, Division
<1>3. t \in 0 .. W - 1 /\ y = W * p + t
  <2> HIDE DEF p
  <2>1. p = y \div W
    BY DEF p
  <2> QED
    BY <1>0, <1>1, <2>1, Division
<1> HIDE DEF q, r, p, t
<1>4. W * q \in Int /\ W * p \in Int /\ W * m \in Int
  BY <1>1
<1> DEFINE e == p - q
           d == e - m
<1>5. e \in Int /\ W * e = W * p - W * q
  BY <1>0, <1>1, Distributes
<1> HIDE DEF e
<1>6. d \in Int /\ W * d = W * e - W * m
  BY <1>0, <1>5, Distributes
<1> HIDE DEF d
<1>7. W * d = r - t
  BY <1>2, <1>3, <1>4, <1>5, <1>6
<1>8. d = 0
  <2>1. W * d < W /\ -W < W * d
    BY <1>2, <1>3, <1>7
  <2> QED
    BY <1>6, <2>1, NoMultipleBetween
<1>9. r = t
  BY <1>2, <1>3, <1>7, <1>8
<1> QED
  BY <1>9 DEF r, t

(* What fetch_add and fetch_sub do to a counter that has wrapped is what they
   would do to one that never wraps.                                         *)
LEMMA WrappedAdds ==
  ASSUME NEW x \in Int, NEW d \in Int
  PROVE  Wrapped(Wrapped(x) + d) = Wrapped(x + d)
<1> DEFINE q == x \div CounterSize
           y == Wrapped(x) + d
<1>1. q \in Int /\ CounterSize \in Int /\ CounterSize > 0
  BY ConntrackAssumption
<1>2. Wrapped(x) \in Int /\ x = CounterSize * q + Wrapped(x)
  <2> HIDE DEF q
  <2>1. q = x \div CounterSize
    BY DEF q
  <2> QED
    BY <1>1, <2>1, Division DEF Wrapped
<1> HIDE DEF q
<1>3. CounterSize * q \in Int
  BY <1>1
<1>4. y \in Int /\ x + d = y + CounterSize * q
  BY <1>2, <1>3
<1> HIDE DEF y
<1> DEFINE z == x + d
<1>5. z \in Int /\ z = y + CounterSize * q
  BY <1>4
<1> HIDE DEF z
<1>6. z % CounterSize = y % CounterSize
  BY <1>1, <1>4, <1>5, MultiplesVanish, ConntrackAssumption
<1> QED
  BY <1>6 DEF y, z, Wrapped

(* Unless there are other removers, nobody else removes the stale entry between
   map.get and map.remove, so the pass never counts an eviction that did not
   happen.                                                                   *)
VictimPresent == gc.pc = "evict" => gc.hand \in tracked
OnlyWithRemovers == Removers = {} => twice = 0 /\ VictimPresent

(* A pass settles its evictions before it ends.                              *)
SettledAtRest == gc.pc = "idle" => gc.evicted = 0

CountInv == CountAgrees /\ OnlyWithRemovers /\ SettledAtRest

LEMMA FiniteTables ==
  ASSUME TypeInv
  PROVE  /\ IsFiniteSet(tracked) /\ Cardinality(tracked) \in Nat
         /\ IsFiniteSet(Uncounted) /\ Cardinality(Uncounted) \in Nat
         /\ IsFiniteSet(Unsubtracted) /\ Cardinality(Unsubtracted) \in Nat
<1>1. tracked \subseteq Keys /\ Uncounted \subseteq Workers /\ Unsubtracted \subseteq Removers
  BY DEF TypeInv, TypeOK, Uncounted, Unsubtracted
<1> QED
  BY <1>1, ConntrackAssumption, FS_Subset, FS_CardinalityType

(* CountAgrees survives a step that changes the counter and what it stands for
   by the same amount.                                                       *)
LEMMA SameShift ==
  ASSUME TypeInv, CountAgrees, NEW d \in Int,
         Owed \in Int, twice \in Int,
         active' = Wrapped(active + d),
         (Owed - twice)' = (Owed - twice) + d
  PROVE  CountAgrees'
<1> DEFINE x == Owed - twice
<1>1. x \in Int /\ active = Wrapped(x)
  BY DEF CountAgrees
<1>2. x' = x + d
  OBVIOUS
<1> HIDE DEF x
<1>3. active' = Wrapped(x + d)
  BY <1>1, WrappedAdds
<1>4. active' = Wrapped(x')
  BY <1>2, <1>3
<1> QED
  BY <1>4 DEF CountAgrees, x, Wrapped

(* A step that touches neither the counter nor what it stands for.           *)
LEMMA NothingOwed ==
  ASSUME CountAgrees, UNCHANGED <<tracked, active, twice>>,
         gc'.evicted = gc.evicted, Uncounted' = Uncounted,
         Unsubtracted' = Unsubtracted
  PROVE  CountAgrees'
BY DEF CountAgrees, Owed, Wrapped

LEMMA WorkerCounts ==
  ASSUME TypeInv, CountInv, NEW w \in Workers, WorkerCall(w) \/ WorkerFinish(w)
  PROVE  CountInv'
<1> USE DEF CountInv, OnlyWithRemovers, VictimPresent, SettledAtRest
<1> active \in Int /\ gc.evicted \in Nat /\ twice \in Nat
  BY ConntrackAssumption DEF TypeInv, TypeOK, GcType
<1> wpc \in [Workers -> {"idle", "count", "push"}]
  BY DEF TypeInv, TypeOK
<1>0. Owed \in Int
  BY FiniteTables DEF Owed
<1>1. ASSUME NEW k \in Keys, NEW b \in BOOLEAN, wpc[w] = "idle", k \notin tracked,
             InsertNew(w, k, b)
      PROVE  CountInv'
  <2>1. Cardinality(tracked') = Cardinality(tracked) + 1
    BY <1>1, FiniteTables, FS_AddElement DEF InsertNew
  <2>2. Uncounted' = Uncounted \cup {w} /\ w \notin Uncounted
    BY <1>1 DEF InsertNew, Begin, Uncounted
  <2>3. Cardinality(Uncounted') = Cardinality(Uncounted) + 1
    BY <2>2, FiniteTables, FS_AddElement
  <2>4. /\ active' = active /\ gc' = gc /\ tracked \subseteq tracked' /\ twice' = twice
        /\ Unsubtracted' = Unsubtracted
    BY <1>1 DEF InsertNew, Unsubtracted
  <2>5. Owed' = Owed
    BY <2>1, <2>3, <2>4, FiniteTables DEF Owed
  <2>6. CountAgrees'
    BY <2>4, <2>5 DEF CountAgrees, Wrapped
  <2> QED
    BY <2>4, <2>6
<1>2. ASSUME NEW k \in Keys, UpdateSeq(w, k)
      PROVE  CountInv'
  <2>1. Uncounted' = Uncounted /\ Unsubtracted' = Unsubtracted
    BY <1>2 DEF UpdateSeq, Begin, Uncounted, Unsubtracted
  <2> QED
    BY <1>2, <2>1, NothingOwed DEF UpdateSeq
<1>3. ASSUME CountNew(w)
      PROVE  CountInv'
  <2>1. Uncounted' = Uncounted \ {w} /\ w \in Uncounted
    BY <1>3 DEF CountNew, Uncounted
  <2>2. Cardinality(Uncounted') = Cardinality(Uncounted) - 1
    BY <2>1, FiniteTables, FS_RemoveElement
  <2>3. active' = Wrapped(active + 1) /\ UNCHANGED <<tracked, gc, twice>>
        /\ Unsubtracted' = Unsubtracted
    BY <1>3 DEF CountNew, Unsubtracted
  <2>4. (Owed - twice)' = (Owed - twice) + 1
    BY <2>2, <2>3, FiniteTables DEF Owed
  <2>5. CountAgrees'
    BY <1>0, <2>3, <2>4, SameShift
  <2> QED
    BY <2>3, <2>5
<1>4. ASSUME PushKey(w)
      PROVE  CountInv'
  <2>1. Uncounted' = Uncounted /\ Unsubtracted' = Unsubtracted
    BY <1>4 DEF PushKey, Begin, Uncounted, Unsubtracted
  <2> QED
    BY <1>4, <2>1, NothingOwed DEF PushKey
<1>5. ASSUME NEW k \in Keys, UpsertOccupied(w, k) \/ ApplyDesyncOccupied(w, k) \/ Touch(w, k)
      PROVE  CountInv'
  <2>1. Uncounted' = Uncounted /\ Unsubtracted' = Unsubtracted
        /\ UNCHANGED <<tracked, active, gc, twice>>
    BY <1>5 DEF UpsertOccupied, ApplyDesyncOccupied, Touch, Uncounted, Unsubtracted
  <2> QED
    BY <2>1, NothingOwed
<1>6. ASSUME NEW k \in Keys, UpsertVacant(w, k) \/ ApplyDesyncVacant(w, k)
      PROVE  CountInv'
  BY <1>6, <1>1 DEF UpsertVacant, ApplyDesyncVacant
<1> QED
  BY <1>2, <1>3, <1>4, <1>5, <1>6 DEF WorkerCall, WorkerFinish

LEMMA GcCounts ==
  ASSUME TypeInv, CountInv, GcStart \/ GcStep
  PROVE  CountInv'
<1> USE DEF CountInv, OnlyWithRemovers, VictimPresent, SettledAtRest
<1> /\ active \in Int /\ gc \in GcType /\ gc.evicted \in Nat /\ twice \in Nat
  BY ConntrackAssumption DEF TypeInv, TypeOK, GcType
<1>0. Owed \in Int
  BY FiniteTables DEF Owed
<1>00. ASSUME UNCHANGED <<wpc, rpc>>
       PROVE  Uncounted' = Uncounted /\ Unsubtracted' = Unsubtracted
  BY <1>00 DEF Uncounted, Unsubtracted
<1>1. CASE GcEvict
  <2> DEFINE n == gc.evicted + 1
  <2>1. gc'.pc = "pop" /\ gc'.evicted = n
    <3>1. gc' = [gc EXCEPT !.pc = "pop", !.hand = NoKey, !.evicted = n]
      BY <1>1 DEF GcEvict
    <3> HIDE DEF n
    <3> QED
      BY <3>1 DEF GcType
  <2>2. active' = active /\ Uncounted' = Uncounted /\ Unsubtracted' = Unsubtracted
    BY <1>1, <1>00 DEF GcEvict
  <2>3. tracked' = tracked \ {gc.hand}
    BY <1>1 DEF GcEvict, Discard
  <2>4. ASSUME gc.hand \in tracked
        PROVE  (Owed - twice)' = Owed - twice /\ twice' = twice
    <3>1. Cardinality(tracked') = Cardinality(tracked) - 1
      BY <2>3, <2>4, FiniteTables, FS_RemoveElement
    <3>2. twice' = twice
      BY <1>1, <2>4 DEF GcEvict
    <3> QED
      BY <2>1, <2>2, <3>1, <3>2, FiniteTables DEF Owed
  <2>5. ASSUME gc.hand \notin tracked
        PROVE  (Owed - twice)' = Owed - twice /\ Removers # {}
    <3>1. tracked' = tracked
      BY <2>3, <2>5
    <3>2. twice' = twice + 1
      BY <1>1, <2>5 DEF GcEvict
    <3>3. Removers # {}
      BY <1>1, <2>5 DEF GcEvict
    <3> QED
      BY <2>1, <2>2, <3>1, <3>2, <3>3, FiniteTables DEF Owed
  <2>6. CountAgrees'
    <3>1. (Owed - twice)' = Owed - twice
      BY <2>4, <2>5
    <3> QED
      BY <2>2, <3>1 DEF CountAgrees, Wrapped
  <2>7. OnlyWithRemovers'
    BY <2>1, <2>4, <2>5
  <2> QED
    BY <2>1, <2>6, <2>7
<1>2. CASE GcSettle
  <2> DEFINE n == gc.evicted
  <2>1. /\ active' = Wrapped(active - n) /\ tracked' = tracked /\ twice' = twice
        /\ Uncounted' = Uncounted /\ Unsubtracted' = Unsubtracted
    BY <1>2, <1>00 DEF GcSettle, Settled
  <2>2. gc'.pc = "idle" /\ gc'.evicted = 0
    BY <1>2 DEF GcSettle, Quiet
  <2>3. (Owed - twice)' = (Owed - twice) + (0 - n)
    BY <2>1, <2>2, FiniteTables DEF Owed
  <2>4. active' = Wrapped(active + (0 - n))
    BY <2>1
  <2>5. CountAgrees'
    <3> n \in Int /\ 0 - n \in Int
      OBVIOUS
    <3> HIDE DEF n
    <3> QED
      BY <1>0, <2>3, <2>4, SameShift
  <2> QED
    BY <2>1, <2>2, <2>5
<1>3. CASE GcStart
  <2>1. gc.evicted = 0 /\ gc'.evicted = 0 /\ gc'.pc = "pop"
    BY <1>3 DEF GcStart, Quiet
  <2>2. UNCHANGED <<tracked, active, twice>> /\ Uncounted' = Uncounted
        /\ Unsubtracted' = Unsubtracted
    BY <1>3, <1>00 DEF GcStart
  <2> QED
    BY <2>1, <2>2, NothingOwed
<1>4. CASE GcLookStale
  <2>1. gc'.evicted = gc.evicted /\ gc'.pc = "evict" /\ gc'.hand = gc.hand
    BY <1>4 DEF GcLookStale, GcType
  <2>2. UNCHANGED <<tracked, active, twice>> /\ Uncounted' = Uncounted
        /\ Unsubtracted' = Unsubtracted /\ gc.hand \in tracked
    BY <1>4, <1>00 DEF GcLookStale
  <2> QED
    BY <2>1, <2>2, NothingOwed
<1>5. ASSUME UNCHANGED <<tracked, active, wpc, rpc, twice>>, gc'.evicted = gc.evicted,
             gc'.pc \notin {"evict", "idle"}
      PROVE  CountInv'
  BY <1>5, <1>00, NothingOwed
<1>6. CASE GcPop
  BY <1>5, <1>6 DEF GcPop, GcType
<1>7. CASE GcPopOverBatch
  BY <1>5, <1>7 DEF GcPopOverBatch, GcType
<1>8. CASE GcDrained
  BY <1>5, <1>8 DEF GcDrained, GcType
<1>9. CASE GcLookAbsent
  BY <1>5, <1>9 DEF GcLookAbsent, GcType
<1>10. CASE GcLookActive
  BY <1>5, <1>10 DEF GcLookActive, GcType
<1> QED
  BY <1>1, <1>2, <1>3, <1>4, <1>6, <1>7, <1>8, <1>9, <1>10 DEF GcStep

LEMMA RemoverCounts ==
  ASSUME TypeInv, CountInv, NEW r \in Removers, RemoverStep(r)
  PROVE  CountInv'
<1> USE DEF CountInv, OnlyWithRemovers, SettledAtRest
<1> /\ active \in Int /\ gc.evicted \in Nat /\ twice \in Nat /\ Removers # {}
    /\ rpc \in [Removers -> {"idle", "subtract"}]
  BY ConntrackAssumption DEF TypeInv, TypeOK, GcType
<1>0. Owed \in Int
  BY FiniteTables DEF Owed
<1>1. ASSUME NEW k \in Keys, RemoveEntry(r, k)
      PROVE  CountInv'
  <2>1. Cardinality(tracked') = Cardinality(tracked) - 1
    BY <1>1, FiniteTables, FS_RemoveElement DEF RemoveEntry, Discard
  <2>2. Unsubtracted' = Unsubtracted \cup {r} /\ r \notin Unsubtracted
    BY <1>1 DEF RemoveEntry, Resting, Unsubtracted
  <2>3. Cardinality(Unsubtracted') = Cardinality(Unsubtracted) + 1
    BY <2>2, FiniteTables, FS_AddElement
  <2>4. UNCHANGED <<active, gc, twice>> /\ Uncounted' = Uncounted
    BY <1>1 DEF RemoveEntry, Uncounted
  <2>5. Owed' = Owed
    BY <2>1, <2>3, <2>4, FiniteTables DEF Owed
  <2>6. CountAgrees'
    BY <2>4, <2>5 DEF CountAgrees, Wrapped
  <2> QED
    BY <2>4, <2>6
<1>2. CASE SubtractRemoved(r)
  <2>1. Unsubtracted' = Unsubtracted \ {r} /\ r \in Unsubtracted
    BY <1>2 DEF SubtractRemoved, Unsubtracted
  <2>2. Cardinality(Unsubtracted') = Cardinality(Unsubtracted) - 1
    BY <2>1, FiniteTables, FS_RemoveElement
  <2>3. active' = Wrapped(active + (-1)) /\ UNCHANGED <<tracked, gc, twice>>
        /\ Uncounted' = Uncounted
    BY <1>2 DEF SubtractRemoved, Uncounted
  <2>4. (Owed - twice)' = (Owed - twice) + (-1)
    BY <2>2, <2>3, FiniteTables DEF Owed
  <2>5. CountAgrees'
    BY <1>0, <2>3, <2>4, SameShift
  <2> QED
    BY <2>3, <2>5
<1>3. ASSUME NEW k \in Keys, FullGcVisit(r, k)
      PROVE  CountInv'
  <2>0. UNCHANGED <<gc, twice>> /\ Uncounted' = Uncounted /\ Unsubtracted' = Unsubtracted
    BY <1>3 DEF FullGcVisit, Uncounted, Unsubtracted
  <2>1. CASE k \in tracked /\ idle[k] >= FullIdle
    <3>1. Cardinality(tracked') = Cardinality(tracked) - 1
      BY <1>3, <2>1, FiniteTables, FS_RemoveElement DEF FullGcVisit, Discard
    <3>2. active' = Wrapped(active + (-1))
      BY <1>3, <2>1 DEF FullGcVisit
    <3>3. (Owed - twice)' = (Owed - twice) + (-1)
      BY <2>0, <3>1, FiniteTables DEF Owed
    <3>4. CountAgrees'
      BY <1>0, <3>2, <3>3, SameShift
    <3> QED
      BY <2>0, <3>4
  <2>2. CASE ~(k \in tracked /\ idle[k] >= FullIdle)
    <3>1. UNCHANGED <<tracked, active>>
      BY <1>3, <2>2 DEF FullGcVisit
    <3> QED
      BY <2>0, <3>1, NothingOwed
  <2> QED
    BY <2>1, <2>2
<1>4. CASE FullGcStart(r)
  <2>1. UNCHANGED <<tracked, active, gc, twice>> /\ Uncounted' = Uncounted
        /\ Unsubtracted' = Unsubtracted
    BY <1>4 DEF FullGcStart, Uncounted, Unsubtracted
  <2> QED
    BY <2>1, NothingOwed
<1> QED
  BY <1>1, <1>2, <1>3, <1>4 DEF RemoverStep

LEMMA CountInvHolds == Spec => [](TypeInv /\ CountInv)
<1>1. Init => CountInv
  <2> SUFFICES ASSUME Init
               PROVE  CountInv
    OBVIOUS
  <2>1. /\ tracked = {} /\ Uncounted = {} /\ Unsubtracted = {}
        /\ active = 0 /\ gc = Quiet /\ twice = 0
    BY DEF Init, Uncounted, Unsubtracted
  <2>2. Owed - twice = 0
    BY <2>1, FS_EmptySet DEF Owed, Quiet
  <2>3. Wrapped(0) = 0
    BY ConntrackAssumption DEF Wrapped
  <2> QED
    BY <2>1, <2>2, <2>3
       DEF CountInv, CountAgrees, OnlyWithRemovers, VictimPresent, SettledAtRest, Quiet
<1>2. TypeInv /\ CountInv /\ [Next]_vars => CountInv'
  <2> SUFFICES ASSUME TypeInv, CountInv, [Next]_vars
               PROVE  CountInv'
    OBVIOUS
  <2>1. CASE Tick \/ UNCHANGED vars
    <3>1. UNCHANGED <<tracked, active, twice, wpc, rpc, gc>>
      BY <2>1 DEF Tick, vars
    <3>2. Uncounted' = Uncounted /\ Unsubtracted' = Unsubtracted
      BY <3>1 DEF Uncounted, Unsubtracted
    <3> QED
      BY <3>1, <3>2, NothingOwed
         DEF CountInv, OnlyWithRemovers, VictimPresent, SettledAtRest
  <2> QED
    BY <2>1, WorkerCounts, GcCounts, RemoverCounts DEF Next
<1> QED
  BY <1>1, <1>2, InitTyped, NextTyped, PTL DEF Spec

(* However insertions, removals and evictions interleave, active_count is off by
   the evictions counted twice and by nothing else, modulo its width.        *)
THEOREM CountNeverDrifts == Spec => []CountAgrees
<1>1. CountInv => CountAgrees
  BY DEF CountInv
<1> QED
  BY <1>1, CountInvHolds, PTL

(* As long as gc_incremental is the only one to remove entries, no eviction is
   counted twice: the counter is exact whenever nothing is under way.        *)
THEOREM CountExactAlone ==
  ASSUME Removers = {}
  PROVE  Spec => [](active = Wrapped(Owed))
<1>1. TypeInv /\ CountInv => active = Wrapped(Owed)
  <2> SUFFICES ASSUME TypeInv, CountInv
               PROVE  active = Wrapped(Owed)
    OBVIOUS
  <2>1. twice = 0 /\ Owed \in Int
    BY FiniteTables DEF CountInv, OnlyWithRemovers, Owed, TypeInv, TypeOK, GcType
  <2> QED
    BY <2>1 DEF CountInv, CountAgrees
<1> QED
  BY <1>1, CountInvHolds, PTL
=============================================================================
