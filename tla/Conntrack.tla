------------------------------ MODULE Conntrack ------------------------------
(***************************************************************************)
(* The connection table of src/core/src/conntrack.rs: a sharded map from   *)
(* 5-tuple keys to entries, and a timing wheel of lock-free FIFO queues    *)
(* from which gc_incremental takes the keys whose idleness it re-examines. *)
(*                                                                         *)
(* Shard workers call upsert, check_and_apply_desync, update_seq_monotonic *)
(* and get_mut concurrently with each other, with the task that runs       *)
(* gc_loop and with the callers of remove and gc.  One entry is protected  *)
(* by the lock of its map shard, so one map call is one step; what a       *)
(* function does after the entry guard is dropped (the counter, the push   *)
(* on the wheel) is a step of its own.                                     *)
(*                                                                         *)
(* last_activity is kept as the entry's idle time in abstract ticks, which *)
(* saturates just above MaxIdle: nothing the code does tells longer idle   *)
(* times apart.  active_count is an unsigned counter that wraps.           *)
(* total_created is a write-only statistic and is left out.                *)
(***************************************************************************)
EXTENDS Integers, Sequences, FiniteSets

CONSTANTS Keys,        \* connection keys
          Workers,     \* shard worker threads
          Removers,    \* threads that call remove or the full gc
          NumSlots,    \* queues in the wheel (256 in the code)
          HomeSlot,    \* hash of a key modulo NumSlots
          GcBatch,     \* keys examined in one pass (1000 in the code)
          MaxIdle,     \* idle time above which gc_incremental evicts
          FullIdle,    \* max_idle of the full gc
          GcAttached,  \* TRUE iff some task runs gc_loop on this table
          CounterSize, \* values of active_count, an AtomicU64 (2^64 in the code)
          WheelBound,  \* bound: keys queued in the wheel
          DriftBound,  \* bound: evictions counted twice
          NoKey

ASSUME ConntrackAssumption ==
  /\ IsFiniteSet(Keys) /\ IsFiniteSet(Workers) /\ IsFiniteSet(Removers)
  /\ NumSlots \in Nat \ {0}
  /\ HomeSlot \in [Keys -> 0 .. NumSlots - 1]
  /\ GcBatch \in Nat \ {0}
  /\ MaxIdle \in Nat /\ FullIdle \in Nat
  /\ GcAttached \in BOOLEAN
  /\ CounterSize \in Nat \ {0}
  /\ WheelBound \in Nat /\ DriftBound \in Nat
  /\ NoKey \notin Keys

VARIABLES
  tracked,   \* keys that have an entry in the map
  idle,      \* idle time of each entry
  desynced,  \* desync_applied of each entry
  active,    \* active_count
  wheel,     \* gc_wheel: one FIFO queue of keys per slot
  gcTick,    \* gc_tick modulo NumSlots
  wpc,       \* where each worker is inside a table operation
  wkey,      \* the key of that operation
  gc,        \* the pass of gc_incremental in progress
  rpc,       \* where each remover is inside remove
  sweep,     \* keys that each full gc has still to visit
  twice      \* history: evictions counted by the pass that took no entry

vars == <<tracked, idle, desynced, active, wheel, gcTick, wpc, wkey, gc, rpc, sweep,
          twice>>

Slots == 0 .. NumSlots - 1
MaxAge == MaxIdle + 1
Wrapped(n) == n % CounterSize
Quiet == [pc |-> "idle", slot |-> 0, count |-> 0, hand |-> NoKey, evicted |-> 0]

Init ==
  /\ tracked = {}
  /\ idle = [k \in Keys |-> 0]
  /\ desynced = [k \in Keys |-> FALSE]
  /\ active = 0
  /\ wheel = [s \in Slots |-> <<>>]
  /\ gcTick = 0
  /\ wpc = [w \in Workers |-> "idle"]
  /\ wkey = [w \in Workers |-> NoKey]
  /\ gc = Quiet
  /\ rpc = [r \in Removers |-> "idle"]
  /\ sweep = [r \in Removers |-> {}]
  /\ twice = 0

\* Time passes for every entry.
Tick ==
  /\ \E k \in tracked : idle[k] < MaxAge
  /\ idle' = [k \in Keys |-> IF k \in tracked /\ idle[k] < MaxAge
                             THEN idle[k] + 1 ELSE idle[k]]
  /\ UNCHANGED <<tracked, desynced, active, wheel, gcTick, wpc, wkey, gc, rpc,
                 sweep, twice>>

-----------------------------------------------------------------------------
(* Workers.                                                                *)

Queued[s \in 0 .. NumSlots] ==
  IF s = 0 THEN 0 ELSE Queued[s - 1] + Len(wheel[s - 1])

\* Bound: an operation that will push a key starts only while the wheel,
\* counting the pushes already under way, has room for it.
WheelHasRoom ==
  Queued[NumSlots] + Cardinality({w \in Workers : wpc[w] # "idle"}) < WheelBound

schedule_gc_key(k) == wheel' = [wheel EXCEPT ![HomeSlot[k]] = Append(@, k)]

Begin(w, k, step) ==
  /\ wpc' = [wpc EXCEPT ![w] = step]
  /\ wkey' = [wkey EXCEPT ![w] = k]

\* A vacant entry is inserted and its guard dropped; counting it and pushing
\* its key are still to come.
InsertNew(w, k, applied) ==
  /\ tracked' = tracked \cup {k}
  /\ idle' = [idle EXCEPT ![k] = 0]
  /\ desynced' = [desynced EXCEPT ![k] = applied]
  /\ Begin(w, k, "count")
  /\ UNCHANGED <<active, wheel, gcTick, gc, rpc, sweep, twice>>

UpsertVacant(w, k) ==
  /\ wpc[w] = "idle" /\ k \notin tracked /\ WheelHasRoom
  /\ InsertNew(w, k, FALSE)

\* An occupied entry is kept: only its activity is refreshed, and the key is
\* pushed while the entry is still locked.
UpsertOccupied(w, k) ==
  /\ wpc[w] = "idle" /\ k \in tracked /\ WheelHasRoom
  /\ idle' = [idle EXCEPT ![k] = 0]
  /\ schedule_gc_key(k)
  /\ UNCHANGED <<tracked, desynced, active, gcTick, wpc, wkey, gc, rpc, sweep,
                 twice>>

\* check_and_apply_desync on a key without an entry.
ApplyDesyncVacant(w, k) ==
  /\ wpc[w] = "idle" /\ k \notin tracked /\ WheelHasRoom
  /\ InsertNew(w, k, TRUE)

FlagClear(k) == ~desynced[k]

\* check_and_apply_desync on an entry: the flag is tested and set under the
\* entry's lock.  When it is already set the call returns false and changes
\* nothing, not even the entry's activity.
ApplyDesyncOccupied(w, k) ==
  /\ wpc[w] = "idle" /\ k \in tracked /\ WheelHasRoom
  /\ FlagClear(k)
  /\ desynced' = [desynced EXCEPT ![k] = TRUE]
  /\ idle' = [idle EXCEPT ![k] = 0]
  /\ schedule_gc_key(k)
  /\ UNCHANGED <<tracked, active, gcTick, wpc, wkey, gc, rpc, sweep, twice>>

\* The entry is touched under its lock and the key pushed after the drop.
UpdateSeq(w, k) ==
  /\ wpc[w] = "idle" /\ k \in tracked /\ WheelHasRoom
  /\ idle' = [idle EXCEPT ![k] = 0]
  /\ Begin(w, k, "push")
  /\ UNCHANGED <<tracked, desynced, active, wheel, gcTick, gc, rpc, sweep,
                 twice>>

\* The pipeline refreshes last_activity through get_mut and pushes no key.
Touch(w, k) ==
  /\ wpc[w] = "idle" /\ k \in tracked /\ idle[k] > 0
  /\ idle' = [idle EXCEPT ![k] = 0]
  /\ UNCHANGED <<tracked, desynced, active, wheel, gcTick, wpc, wkey, gc, rpc,
                 sweep, twice>>

CountNew(w) ==
  /\ wpc[w] = "count"
  /\ active' = Wrapped(active + 1)
  /\ wpc' = [wpc EXCEPT ![w] = "push"]
  /\ UNCHANGED <<tracked, idle, desynced, wheel, gcTick, wkey, gc, rpc, sweep,
                 twice>>

PushKey(w) ==
  /\ wpc[w] = "push"
  /\ schedule_gc_key(wkey[w])
  /\ Begin(w, NoKey, "idle")
  /\ UNCHANGED <<tracked, idle, desynced, active, gcTick, gc, rpc, sweep,
                 twice>>

-----------------------------------------------------------------------------
(* gc_incremental: one pass over one slot.                                 *)

\* What leaves the map with an entry, whoever removes it.
Discard(k) ==
  /\ tracked' = tracked \ {k}
  /\ idle' = [idle EXCEPT ![k] = 0]
  /\ desynced' = [desynced EXCEPT ![k] = FALSE]

NextTickUnwrapped == gcTick + 1  \* variant: the modulo is missing
NextTick == (gcTick + 1) % NumSlots

GcStart ==
  /\ GcAttached /\ gc.pc = "idle"
  /\ gc' = [Quiet EXCEPT !.pc = "pop", !.slot = gcTick]
  /\ gcTick' = NextTick
  /\ UNCHANGED <<tracked, idle, desynced, active, wheel, wpc, wkey, rpc, sweep,
                 twice>>

GcPop ==
  /\ gc.pc = "pop" /\ wheel[gc.slot] # <<>> /\ gc.count < GcBatch
  /\ wheel' = [wheel EXCEPT ![gc.slot] = Tail(@)]
  /\ gc' = [gc EXCEPT !.pc = "look", !.hand = Head(wheel[gc.slot]),
                      !.count = @ + 1]
  /\ UNCHANGED <<tracked, idle, desynced, active, gcTick, wpc, wkey, rpc, sweep,
                 twice>>

\* The key popped above the batch limit goes back to the tail of the queue.
GcPopOverBatch ==
  /\ gc.pc = "pop" /\ wheel[gc.slot] # <<>> /\ gc.count = GcBatch
  /\ wheel' = [wheel EXCEPT ![gc.slot] = Append(Tail(@), Head(@))]
  /\ gc' = [gc EXCEPT !.pc = "settle"]
  /\ UNCHANGED <<tracked, idle, desynced, active, gcTick, wpc, wkey, rpc, sweep,
                 twice>>

GcDrained ==
  /\ gc.pc = "pop" /\ wheel[gc.slot] = <<>>
  /\ gc' = [gc EXCEPT !.pc = "settle"]
  /\ UNCHANGED <<tracked, idle, desynced, active, wheel, gcTick, wpc, wkey, rpc, sweep,
                 twice>>

\* map.get: a key without an entry is forgotten.
GcLookAbsent ==
  /\ gc.pc = "look" /\ gc.hand \notin tracked
  /\ gc' = [gc EXCEPT !.pc = "pop", !.hand = NoKey]
  /\ UNCHANGED <<tracked, idle, desynced, active, wheel, gcTick, wpc, wkey, rpc, sweep,
                 twice>>

RescheduleLost(k) == wheel' = wheel  \* variant: an active key is not put back
Reschedule(k) ==
  wheel' = [wheel EXCEPT ![(gc.slot + NumSlots \div 2) % NumSlots] = Append(@, k)]

\* An entry still in use is looked at again half a revolution later.
GcLookActive ==
  /\ gc.pc = "look" /\ gc.hand \in tracked /\ idle[gc.hand] <= MaxIdle
  /\ Reschedule(gc.hand)
  /\ gc' = [gc EXCEPT !.pc = "pop", !.hand = NoKey]
  /\ UNCHANGED <<tracked, idle, desynced, active, gcTick, wpc, wkey, rpc, sweep,
                 twice>>

\* The guard of a stale entry is dropped before map.remove is called.
GcLookStale ==
  /\ gc.pc = "look" /\ gc.hand \in tracked /\ idle[gc.hand] > MaxIdle
  /\ gc' = [gc EXCEPT !.pc = "evict"]
  /\ UNCHANGED <<tracked, idle, desynced, active, wheel, gcTick, wpc, wkey, rpc, sweep,
                 twice>>

\* map.remove: takes whatever entry the key has by now, and counts an eviction
\* even when there was none.
GcEvict ==
  /\ gc.pc = "evict"
  /\ Discard(gc.hand)
  /\ gc' = [gc EXCEPT !.pc = "pop", !.hand = NoKey, !.evicted = @ + 1]
  /\ twice' = IF gc.hand \in tracked THEN twice ELSE twice + 1
  /\ UNCHANGED <<active, wheel, gcTick, wpc, wkey, rpc, sweep>>

Unsettled == active  \* variant: the evictions of the pass are not subtracted
Settled == Wrapped(active - gc.evicted)

GcSettle ==
  /\ gc.pc = "settle"
  /\ active' = Settled
  /\ gc' = Quiet
  /\ UNCHANGED <<tracked, idle, desynced, wheel, gcTick, wpc, wkey, rpc, sweep,
                 twice>>

GcStep == GcPop \/ GcPopOverBatch \/ GcDrained \/ GcLookAbsent \/ GcLookActive
          \/ GcLookStale \/ GcEvict \/ GcSettle

-----------------------------------------------------------------------------
(* The other ways out of the table.                                        *)

\* Bound: nobody else removes entries once the pass has counted DriftBound of its
\* evictions twice.
DriftHasRoom == twice < DriftBound

Resting(r) == rpc[r] = "idle" /\ sweep[r] = {} /\ DriftHasRoom

\* remove: map.remove under the shard lock, and the subtraction after it.  A key
\* without an entry changes nothing.
RemoveEntry(r, k) ==
  /\ Resting(r) /\ k \in tracked
  /\ Discard(k)
  /\ rpc' = [rpc EXCEPT ![r] = "subtract"]
  /\ UNCHANGED <<active, wheel, gcTick, wpc, wkey, gc, sweep, twice>>

SubtractRemoved(r) ==
  /\ rpc[r] = "subtract"
  /\ active' = Wrapped(active - 1)
  /\ rpc' = [rpc EXCEPT ![r] = "idle"]
  /\ UNCHANGED <<tracked, idle, desynced, wheel, gcTick, wpc, wkey, gc, sweep, twice>>

\* gc: retain visits every entry and judges it against a clock read before the
\* first visit.
FullGcStart(r) ==
  /\ Resting(r)
  /\ sweep' = [sweep EXCEPT ![r] = {k \in Keys : idle[k] >= FullIdle}]
  /\ UNCHANGED <<tracked, idle, desynced, active, wheel, gcTick, wpc, wkey, gc, rpc,
                 twice>>

\* The closure of retain subtracts, and retain removes, before the lock of the
\* entry's shard is released: one step.
FullGcVisit(r, k) ==
  /\ k \in sweep[r]
  /\ sweep' = [sweep EXCEPT ![r] = @ \ {k}]
  /\ IF k \in tracked /\ idle[k] >= FullIdle
     THEN Discard(k) /\ active' = Wrapped(active - 1)
     ELSE UNCHANGED <<tracked, idle, desynced, active>>
  /\ UNCHANGED <<wheel, gcTick, wpc, wkey, gc, rpc, twice>>

-----------------------------------------------------------------------------
WorkerCall(w) ==
  \E k \in Keys : \/ UpsertVacant(w, k) \/ UpsertOccupied(w, k)
                  \/ ApplyDesyncVacant(w, k) \/ ApplyDesyncOccupied(w, k)
                  \/ UpdateSeq(w, k) \/ Touch(w, k)

WorkerFinish(w) == CountNew(w) \/ PushKey(w)

RemoverStep(r) ==
  \/ FullGcStart(r) \/ SubtractRemoved(r)
  \/ \E k \in Keys : RemoveEntry(r, k) \/ FullGcVisit(r, k)

Next ==
  \/ Tick
  \/ \E w \in Workers : WorkerCall(w) \/ WorkerFinish(w)
  \/ GcStart \/ GcStep
  \/ \E r \in Removers : RemoverStep(r)

Spec == Init /\ [][Next]_vars

\* A call in progress returns, and the interval timer of gc_loop keeps firing.
FairSpec ==
  /\ Spec
  /\ \A w \in Workers : WF_vars(WorkerFinish(w))
  /\ WF_vars(GcStart) /\ WF_vars(GcStep)

-----------------------------------------------------------------------------
GcType == [pc : {"idle", "pop", "look", "evict", "settle"}, slot : Slots,
           count : Nat, hand : Keys \cup {NoKey}, evicted : Nat]

\* Type invariant: every variable stays in the range its Rust type gives it.
TypeOK ==
  /\ tracked \in SUBSET Keys
  /\ idle \in [Keys -> 0 .. MaxAge]
  /\ desynced \in [Keys -> BOOLEAN]
  /\ active \in 0 .. CounterSize - 1
  /\ wheel \in [Slots -> Seq(Keys)]
  /\ gcTick \in Slots
  /\ wpc \in [Workers -> {"idle", "count", "push"}]
  /\ wkey \in [Workers -> Keys \cup {NoKey}]
  /\ gc \in GcType
  /\ rpc \in [Removers -> {"idle", "subtract"}]
  /\ sweep \in [Removers -> SUBSET Keys]
  /\ twice \in Nat

InWheel(k) == \E s \in Slots : \E i \in 1 .. Len(wheel[s]) : wheel[s][i] = k
InHand(k) == gc.pc \in {"look", "evict"} /\ gc.hand = k
BeingPushed(k) == \E w \in Workers : wpc[w] # "idle" /\ wkey[w] = k

\* No leak: an entry always has a key on the wheel, in the hand of the running
\* pass, or in the hand of a worker about to push it.  An entry without one would
\* never be examined again (schedule_gc_key is the only way onto the wheel).
NoLeakedEntry == \A k \in tracked : InWheel(k) \/ InHand(k) \/ BeingPushed(k)

Uncounted == {w \in Workers : wpc[w] = "count"}
Unsubtracted == {r \in Removers : rpc[r] = "subtract"}

\* What active_count stands for while insertions, removals and evictions are under way.
Owed == Cardinality(tracked) + gc.evicted + Cardinality(Unsubtracted)
        - Cardinality(Uncounted)

\* Accounting: in any interleaving, active_count is off by exactly the evictions
\* counted twice (an entry that somebody else removes between the test and map.remove
\* of the pass), modulo its width; nothing else is ever lost or counted again.
CountAgrees == active = Wrapped(Owed - twice)

\* The counter never shows more entries than there are, up to removals under way.
CountNeverWraps ==
  active <= Cardinality(tracked) + gc.evicted + Cardinality(Unsubtracted)

\* The incremental pass evicts only entries that are stale when they are evicted.
NoFreshEviction ==
  [][\A k \in Keys : gc.pc = "evict" /\ gc'.pc = "pop" /\ k \in tracked \ tracked'
                     => idle[k] > MaxIdle]_vars

Stale(k) == k \in tracked /\ idle[k] > MaxIdle

\* A stale entry is eventually evicted, unless traffic revives it.
StaleEventuallyEvicted == \A k \in Keys : Stale(k) ~> ~Stale(k)
=============================================================================
