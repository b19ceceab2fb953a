---------------------------- MODULE NativeFrames ----------------------------
(***************************************************************************)
(* How a backend tracks its frames in flight and defers the destruction of *)
(* native objects past them, as operators on a record f.  Vulkan and Metal *)
(* keep one software flag per frame slot and a slot mask per deferred      *)
(* object; DirectX 12 compares fence values.                               *)
(*                                                                         *)
(* running is the truth the backend only learns by asking: the submitted   *)
(* values whose GPU work has not ended.  One graphics queue runs them in   *)
(* order.  signaled is the value of the graphics fence of DirectX 12.      *)
(***************************************************************************)
EXTENDS Naturals, FiniteSets

CONSTANT Slots    \* FRAMES_IN_FLIGHT

ASSUME SlotsAssumption == Slots \in Nat \ {0}

Highest(values) == CHOOSE v \in values : \A w \in values : w <= v
Lowest(values) == CHOOSE v \in values : \A w \in values : v <= w

SlotIds == 0..(Slots - 1)
Backends == {"vulkan", "dx12", "metal"}

\* slot[s] is the value a slot holds, 0 when its software flag is clear
\* (DirectX 12 has no flag and keeps the value).
NewFrames(backend) ==
  [backend |-> backend, cursor |-> 0, slot |-> [s \in SlotIds |-> 0],
   next |-> 1, last |-> 0, completed |-> 0,
   running |-> {}, signaled |-> 0,
   deferred |-> {}, destroyed |-> {}]

InFlight(f) == {s \in SlotIds : f.slot[s] # 0}
Finished(f, s) == f.slot[s] \notin f.running

-----------------------------------------------------------------------------
\* Deferred destruction.

Destroy(f, items) == [f EXCEPT !.destroyed = @ \cup items]

\* Vulkan and Metal: past every slot that is in flight now.
DeferBySlots(f, item) ==
  IF InFlight(f) = {} THEN Destroy(f, {item})
  ELSE [f EXCEPT !.deferred = @ \cup
          {[item |-> item, pending |-> InFlight(f), fence |-> 0]}]

\* DirectX 12: past the latest fence value handed out.
DeferByFence(f, item) ==
  IF f.next - 1 <= f.signaled THEN Destroy(f, {item})
  ELSE [f EXCEPT !.deferred = @ \cup
          {[item |-> item, pending |-> {}, fence |-> f.next - 1]}]

Defer(f, item) ==
  IF f.backend = "dx12" THEN DeferByFence(f, item) ELSE DeferBySlots(f, item)

\* complete_frame_slot, for the slots whose frames were seen to have ended.
CompleteSlots(f, slots) ==
  LET ready == {d \in f.deferred : d.pending \subseteq slots}
  IN [f EXCEPT
        !.slot = [s \in SlotIds |-> IF s \in slots THEN 0 ELSE @[s]],
        !.completed = Highest({@} \cup {f.slot[s] : s \in slots}),
        !.deferred = {[d EXCEPT !.pending = @ \ slots] : d \in f.deferred \ ready},
        !.destroyed = @ \cup {d.item : d \in ready}]

\* Fault: an object is destroyed one value before its fence.
ReclaimDeferredEarly(f) ==
  LET ready == {d \in f.deferred : d.fence <= f.signaled + 1}
  IN [f EXCEPT !.deferred = @ \ ready, !.destroyed = @ \cup {d.item : d \in ready}]
\* DirectX 12: reclaim_deferred.
ReclaimDeferred(f) ==
  LET ready == {d \in f.deferred : d.fence <= f.signaled}
  IN [f EXCEPT !.deferred = @ \ ready, !.destroyed = @ \cup {d.item : d \in ready}]

-----------------------------------------------------------------------------
\* Frames.

\* poll_frame_completion: slots are asked one after the other, so one whose
\* frame ends meanwhile may be missed.
Polled(f) ==
  IF f.backend = "dx12" THEN {f}
  ELSE {CompleteSlots(f, slots) :
          slots \in SUBSET {s \in InFlight(f) : Finished(f, s)}}

\* What the backend says has completed, and the latest submission.
CompletedValue(f) == IF f.backend = "dx12" THEN f.signaled ELSE f.completed
LastFrame(f) == IF f.backend = "dx12" THEN f.next - 1 ELSE f.last

\* Fault: a slot is taken over without a wait for its previous frame.
CanPrepareUnwaited(f) == TRUE
\* The slot at the cursor can be taken once its previous frame has ended;
\* until then the call blocks.
CanPrepare(f) == Finished(f, f.cursor)

Advanced(f) == [f EXCEPT !.cursor = (@ + 1) % Slots]

\* DirectX 12 asks its fence only; Vulkan and Metal complete the slot.
PrepareByFence(f) == ReclaimDeferred(Advanced(f))
\* Fault: the previous frame of a slot is forgotten without its completion.
PrepareBySlotUncompleted(f) == Advanced([f EXCEPT !.slot[f.cursor] = 0])
PrepareBySlot(f) ==
  IF f.slot[f.cursor] # 0 THEN Advanced(CompleteSlots(f, {f.cursor}))
  ELSE Advanced(f)
Prepare(f) ==
  IF f.backend = "dx12" THEN PrepareByFence(f) ELSE PrepareBySlot(f)

\* A recording that fails after its slot was prepared: Vulkan has used up the
\* frame's value, the others not yet taken one.
Refused(f) ==
  IF f.backend = "vulkan" THEN [Prepare(f) EXCEPT !.next = @ + 1] ELSE Prepare(f)

\* Submitted in the prepared slot.
Submitted(f) ==
  LET p == Prepare(f)
  IN [p EXCEPT !.slot[f.cursor] = p.next, !.next = @ + 1, !.last = p.next,
               !.running = @ \cup {p.next}]

\* The GPU finishes everything submitted; the fence of DirectX 12 follows.
Drained(f) ==
  [f EXCEPT !.running = {},
            !.signaled = Highest({@} \cup f.running)]

\* Submitted with readbacks: the call waits for the frame before it returns.
\* Vulkan completes the slot, Metal never marks it and moves its completed value,
\* DirectX 12 leaves everything to the fence.
ReadBackByFence(f) == Drained(Submitted(f))
ReadBackBySlot(f) == CompleteSlots(Drained(Submitted(f)), {f.cursor})
ReadBackUnmarked(f) ==
  LET s == Drained(Submitted(f))
  IN [s EXCEPT !.slot[f.cursor] = 0, !.completed = s.last]
ReadBack(f) ==
  CASE f.backend = "vulkan" -> ReadBackBySlot(f)
    [] f.backend = "metal" -> ReadBackUnmarked(f)
    [] OTHER -> ReadBackByFence(f)

\* wait_idle that succeeds.
IdledByFence(f) ==
  ReclaimDeferred([Drained(f) EXCEPT !.signaled = f.next, !.next = @ + 1])
IdledBySlots(f) ==
  [Drained(f) EXCEPT !.slot = [s \in SlotIds |-> 0], !.completed = f.last,
                     !.deferred = {},
                     !.destroyed = @ \cup {x.item : x \in f.deferred}]
Idled(f) == IF f.backend = "dx12" THEN IdledByFence(f) ELSE IdledBySlots(f)

\* wait_idle that fails after the native wait (a transfer worker had failed):
\* the queues are empty, the books are not closed.
IdledBadly(f) ==
  IF f.backend = "dx12"
  THEN [Drained(f) EXCEPT !.signaled = f.next, !.next = @ + 1] ELSE Drained(f)

\* A presentation that fails after the submission.  Vulkan has not marked the
\* slot, and waits idle to rebuild the swapchain; DirectX 12 waits for the frame.
PresentFailed(f) ==
  IF f.backend = "vulkan"
  THEN LET p == Prepare(f) IN Idled([p EXCEPT !.next = @ + 1])
  ELSE Drained(Submitted(f))

\* The oldest frame running ends, and its fence is signaled.
OldestEnds(f) ==
  [f EXCEPT !.running = @ \ {Lowest(f.running)}, !.signaled = Lowest(f.running)]
=============================================================================
