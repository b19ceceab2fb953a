--------------------------- MODULE FrameCompletion ---------------------------
(***************************************************************************)
(* A backend under its owner: frames that use native objects are submitted,*)
(* refused, read back or fail to present; objects are freed at any time;   *)
(* the GPU ends frames when it likes.  Any of the three backends.          *)
(***************************************************************************)
EXTENDS NativeFrames

CONSTANTS
  Items,        \* native objects: buffers, textures, views, pipelines
  MaxValue      \* bound: frame values handed out

ASSUME FramesBound == MaxValue \in Nat

VARIABLES
  frames,       \* the backend's record
  uses,         \* history: the objects each submitted frame uses
  freed         \* objects the owner has freed

vars == <<frames, uses, freed>>

Values == 1..MaxValue

Init ==
  /\ \E b \in Backends : frames = NewFrames(b)
  /\ uses = [v \in Values |-> {}] /\ freed = {}

\* A frame uses objects that are not freed.
Submit(used) ==
  /\ frames.next \in Values /\ CanPrepare(frames)
  /\ frames' = Submitted(frames)
  /\ uses' = [uses EXCEPT ![frames.next] = used]
  /\ UNCHANGED freed

SubmitReadBack(used) ==
  /\ frames.next \in Values /\ CanPrepare(frames)
  /\ frames' = ReadBack(frames)
  /\ uses' = [uses EXCEPT ![frames.next] = used]
  /\ UNCHANGED freed

Refuse ==
  /\ frames.next \in Values /\ CanPrepare(frames)
  /\ frames' = Refused(frames)
  /\ UNCHANGED <<uses, freed>>

FailPresent(used) ==
  /\ frames.backend # "metal"
  /\ frames.next + 1 \in Values /\ CanPrepare(frames)
  /\ frames' = PresentFailed(frames)
  /\ uses' = [uses EXCEPT ![frames.next] = used]
  /\ UNCHANGED freed

Free(item) ==
  /\ item \notin freed
  /\ freed' = freed \cup {item}
  /\ frames' = Defer(frames, item)
  /\ UNCHANGED uses

Poll ==
  /\ frames' \in Polled(frames)
  /\ UNCHANGED <<uses, freed>>

WaitIdle ==
  /\ frames.next \in Values
  /\ frames' \in {Idled(frames), IdledBadly(frames)}
  /\ UNCHANGED <<uses, freed>>

\* The GPU.
FrameEnds ==
  /\ frames.running # {}
  /\ frames' = OldestEnds(frames)
  /\ UNCHANGED <<uses, freed>>

Next ==
  \/ \E used \in SUBSET (Items \ freed) :
       Submit(used) \/ SubmitReadBack(used) \/ FailPresent(used)
  \/ \E item \in Items : Free(item)
  \/ Refuse \/ Poll \/ WaitIdle \/ FrameEnds

Spec == Init /\ [][Next]_vars

-----------------------------------------------------------------------------
Deferral == [item : Items, pending : SUBSET SlotIds, fence : Nat]

TypeOK ==
  /\ frames.backend \in Backends
  /\ frames \in [backend : Backends, cursor : SlotIds, slot : [SlotIds -> Nat],
                 next : Nat \ {0}, last : Nat, completed : Nat,
                 running : SUBSET Values, signaled : Nat,
                 deferred : SUBSET Deferral, destroyed : SUBSET Items]
  /\ uses \in [Values -> SUBSET Items] /\ freed \subseteq Items

\* A native object is never destroyed under a frame the GPU still runs,
\* whatever the backend had asked, reaped or waited for (defer_resource,
\* complete_frame_slot, reclaim_deferred).
DestroyedUnused ==
  \A v \in frames.running : uses[v] \cap frames.destroyed = {}

\* The completed value the backend reports covers ended frames only, so what
\* the context gates on it is safe; and never one that was not submitted.
CompletedIsPrefix ==
  /\ \A v \in frames.running : CompletedValue(frames) < v
  /\ CompletedValue(frames) <= LastFrame(frames)

\* A freed object is destroyed, or waits for something that will come: slots
\* in flight (whose completion clears its mask), or a fence value handed out.
\* None is forgotten and none is waited for twice.
DeferredWillEnd ==
  /\ \A i \in freed \ frames.destroyed : \E d \in frames.deferred : d.item = i
  /\ \A d, e \in frames.deferred : d.item = e.item => d = e
  /\ \A d \in frames.deferred :
       /\ d.item \in freed \ frames.destroyed
       /\ d.pending \subseteq InFlight(frames)
       /\ d.fence < frames.next
       /\ frames.backend # "dx12" => d.pending # {}
=============================================================================
