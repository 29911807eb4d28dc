---------------------------- MODULE FilterRotation ----------------------------
(***************************************************************************)
(* The capture budget governor (src/core/src/capture_budget.rs, its loop   *)
(* in engine/mod.rs) and the live replacement of the capture filter it     *)
(* triggers: PacketEngine::update_filter opens a second WinDivert handle,  *)
(* swaps it in and drops the old one, while recv_batch_into of the capture *)
(* thread may still hold the old one through its ArcSwap guard.            *)
(*                                                                         *)
(* The driver is external: a handle queues the packets its filter matches, *)
(* while two handles are open either may get a packet, and closing a       *)
(* handle discards its queue.  What makes a window overloaded (rate, drop  *)
(* ratio, queue depth) is a choice.  A packet is its arrival number, of a  *)
(* class every filter matches.  The filter of the first handle comes from  *)
(* the service: built from the configuration, or the user's own.           *)
(***************************************************************************)
EXTENDS Integers, Sequences, FiniteSets

CONSTANTS NumPackets,  \* packets that arrive
          MaxHandles,  \* bound: handles opened during the run
          RecvBatch,   \* packets per receive (64 in the code)
          MinDwell,    \* windows a mode is kept (min_mode_dwell, 10 s)
          MayFail,     \* TRUE iff opening or tuning a handle may fail
          Startup,     \* classes of traffic the first filter matches
          EnableQuic   \* TRUE iff a QUIC technique is configured

ASSUME RotationAssumption ==
  /\ NumPackets \in Nat /\ MaxHandles \in Nat \ {0} /\ RecvBatch \in Nat \ {0}
  /\ MinDwell \in Nat /\ MayFail \in BOOLEAN
  /\ Startup \subseteq {"hello", "data", "quic", "dns", "syn"} /\ EnableQuic \in BOOLEAN

VARIABLES
  mode,     \* mode of the governor
  dwell,    \* windows left before the governor may switch
  filterOf, \* what each handle's filter was built for
  opened,   \* handles opened so far
  divert,   \* the handle in PacketEngine::divert
  guard,    \* the handle recv_batch_into holds, 0 when it holds none
  updating, \* TRUE between the opening of a handle and the swap
  kqueue,   \* the queue of each handle
  isOpen,   \* the handles that are open
  arrived,
  read,     \* history: packets read, in order
  failures  \* TRUE once a rotation has failed

driver == <<kqueue, isOpen, arrived>>
vars == <<mode, dwell, filterOf, opened, divert, guard, updating, driver, read, failures>>

Handles == 1 .. MaxHandles
Modes == {"Strict", "Balanced", "SafeFallback"}

Init ==
  /\ mode = "Strict" /\ dwell = MinDwell
  /\ filterOf = [h \in Handles |-> "startup"]
  /\ opened = 1 /\ divert = 1 /\ guard = 0 /\ updating = FALSE
  /\ kqueue = [h \in Handles |-> <<>>]
  /\ isOpen = {1}
  /\ arrived = 0
  /\ read = <<>>
  /\ failures = FALSE

-----------------------------------------------------------------------------
(* The driver.                                                             *)

Arrive ==
  \E h \in isOpen :
    /\ arrived < NumPackets
    /\ arrived' = arrived + 1
    /\ kqueue' = [kqueue EXCEPT ![h] = Append(@, arrived + 1)]
    /\ UNCHANGED <<mode, dwell, filterOf, opened, divert, guard, updating, isOpen, read,
                   failures>>

\* The last reference to a handle is dropped: it closes with what it holds.
Close(h, queues) ==
  /\ isOpen' = isOpen \ {h}
  /\ kqueue' = [queues EXCEPT ![h] = <<>>]

-----------------------------------------------------------------------------
(* recv_batch_into.                                                        *)

\* divert.load(): the guard keeps the handle alive whatever is swapped in.
Load ==
  /\ guard = 0
  /\ guard' = divert
  /\ UNCHANGED <<mode, dwell, filterOf, opened, divert, updating, driver, read, failures>>

ReleaseGuard(queues) ==
  /\ guard' = 0
  /\ IF guard = divert THEN isOpen' = isOpen /\ kqueue' = queues
                       ELSE Close(guard, queues)

ReadBatch(n) ==
  /\ guard # 0 /\ n <= Len(kqueue[guard])
  /\ read' = read \o SubSeq(kqueue[guard], 1, n)
  /\ ReleaseGuard([kqueue EXCEPT ![guard] = SubSeq(@, n + 1, Len(@))])
  /\ UNCHANGED <<mode, dwell, filterOf, opened, divert, updating, arrived, failures>>

-----------------------------------------------------------------------------
(* observe_window, decide and update_filter.                               *)

decide(overloaded) == IF overloaded THEN "Strict" ELSE "Balanced"

InDwell == dwell > 0

WindowWithinDwell ==
  /\ ~updating /\ InDwell
  /\ dwell' = dwell - 1
  /\ UNCHANGED <<mode, filterOf, opened, divert, guard, updating, driver, read, failures>>

\* Bound: a rotation starts only while there is a handle left to open.
CanOpen == opened < MaxHandles

\* The governor switches before anyone knows whether the new handle opens.
Switch(overloaded) ==
  /\ ~updating /\ dwell = 0 /\ CanOpen
  /\ decide(overloaded) # mode
  /\ mode' = decide(overloaded)
  /\ dwell' = MinDwell

\* The classes that the filter of a mode matches: ClientHellos and other TCP data to
\* port 443, QUIC Initials, DNS queries.  None matches a SYN.
build_filter(m) ==
  IF m = "SafeFallback" THEN {"hello", "data", "quic", "dns"}
  ELSE {"hello", "dns"} \cup (IF EnableQuic THEN {"quic"} ELSE {})
Matches(h) == IF filterOf[h] = "startup" THEN Startup ELSE build_filter(filterOf[h])

ModeBefore(overloaded) == mode  \* variant: the mode that is being left
ModeAfter(overloaded) == decide(overloaded)

OpenNew(overloaded) ==
  /\ Switch(overloaded)
  /\ opened' = opened + 1
  /\ isOpen' = isOpen \cup {opened + 1}
  /\ filterOf' = [filterOf EXCEPT ![opened + 1] = ModeAfter(overloaded)]
  /\ updating' = TRUE
  /\ UNCHANGED <<divert, guard, kqueue, arrived, read, failures>>

\* The error is logged and counted; nothing retries the rotation.
OpenFails(overloaded) ==
  /\ MayFail /\ Switch(overloaded)
  /\ failures' = TRUE
  /\ UNCHANGED <<filterOf, opened, divert, guard, updating, driver, read>>

\* Variant: the old handle is closed although the capture thread reads from it.
StillHeldIgnored == FALSE
StillHeld == guard = divert

\* swap, then drop of the old handle.
Swap ==
  /\ updating
  /\ divert' = opened
  /\ updating' = FALSE
  /\ IF StillHeld THEN UNCHANGED <<isOpen, kqueue>> ELSE Close(divert, kqueue)
  /\ UNCHANGED <<mode, dwell, filterOf, opened, guard, arrived, read, failures>>

-----------------------------------------------------------------------------
ReadStep == Load \/ \E n \in 1 .. RecvBatch : ReadBatch(n)

Governor == \/ WindowWithinDwell \/ Swap
            \/ \E overloaded \in BOOLEAN : OpenNew(overloaded) \/ OpenFails(overloaded)

Next == Arrive \/ ReadStep \/ Governor

Spec == Init /\ [][Next]_vars

\* The capture thread keeps reading, and a rotation under way completes.
FairSpec == Spec /\ WF_vars(ReadStep) /\ WF_vars(Swap)

-----------------------------------------------------------------------------
\* Type invariant: every variable stays in its range.
TypeOK ==
  /\ mode \in Modes /\ dwell \in 0 .. MinDwell
  /\ filterOf \in [Handles -> Modes \cup {"startup"}]
  /\ opened \in Handles /\ divert \in Handles /\ guard \in 0 .. MaxHandles
  /\ updating \in BOOLEAN /\ failures \in BOOLEAN
  /\ kqueue \in [Handles -> Seq(1 .. NumPackets)]
  /\ isOpen \subseteq Handles
  /\ arrived \in 0 .. NumPackets
  /\ read \in Seq(1 .. NumPackets)

\* No blind window: the handle that is swapped in, and the one the capture thread is
\* reading from, are open at every moment of a rotation, and no handle that nobody
\* reads from any more stays open to swallow packets.
NoBlindWindow ==
  /\ divert \in isOpen
  /\ guard # 0 => guard \in isOpen
  /\ isOpen \subseteq {divert, guard} \cup (IF updating THEN {opened} ELSE {})

\* The filter in force is the one of the governor's mode, or the first one as long as
\* the mode is the initial one, unless a rotation is under way or one has failed.
FilterFollowsMode ==
  ~updating /\ ~failures =>
    filterOf[divert] = mode \/ (filterOf[divert] = "startup" /\ mode = "Strict")

\* What the service asked to capture stays captured: the SYNs that the redirect of
\* fake addresses needs are matched by the filter in force, after a rotation too.
SynIntercepted == "syn" \in Startup => "syn" \in Matches(divert)

\* "Not one packet is lost": what the driver captures is eventually read.
EveryPacketRead ==
  \A p \in 1 .. NumPackets : arrived >= p ~> \E i \in 1 .. Len(read) : read[i] = p
=============================================================================
