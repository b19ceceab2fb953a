---------------------------- MODULE Presentation ----------------------------
(***************************************************************************)
(* Surfaces of a context and the one Vulkan swapchain that presents them:  *)
(* the owner thread records, submits and presents frames; the queue, the   *)
(* presentation engine and the window system move between its steps.  An   *)
(* extent stands for an extent and a presentation mode: both are compared. *)
(***************************************************************************)
EXTENDS Naturals, Sequences, SequencesExt

CONSTANTS
    Surfaces, NoSurface,    \* window surfaces, and the absence of one
    Slots,                  \* FRAMES_IN_FLIGHT
    Images,                 \* images of a swapchain
    Sizes,                  \* drawable extents; 0 is a minimized window
    MaxFrames, MaxMoves, MaxFaults  \* bounds: frames begun, windows moved and records resized, injected errors

ASSUME PresentationAssumption ==
    /\ NoSurface \notin Surfaces
    /\ {Slots, Images} \subseteq Nat \ {0}
    /\ Sizes \subseteq Nat \ {0}
    /\ {MaxFrames, MaxMoves, MaxFaults} \subseteq Nat

VARIABLES
    surfaces,   \* per surface: handle held, record known, extent of the record
    frame,      \* the recording: on, target (no presentation), active surface, what it draws
    presented,  \* frame_presented
    vk,         \* the native context, its queue and the presentation engine
    call,       \* where the owner is in frame_submit and present
    env,        \* windows, and whether the host chooses extents
    seen        \* history and bounds

vars == <<surfaces, frame, presented, vk, call, env, seen>>

Image == 1..Images
Slot == 1..Slots
NoFrame == [on |-> FALSE, target |-> FALSE, surface |-> NoSurface,
            graphics |-> FALSE, depth |-> FALSE]
NoCall == [at |-> "idle", slot |-> 0, image |-> 0]
NoChain == [surface |-> NoSurface, stale |-> FALSE, retired |-> FALSE,
            image |-> [i \in Image |-> "engine"], waits |-> [i \in Image |-> 0]]

(* semaphore 0 is the context's image_available, the others are the slots' *)
Init ==
    /\ surfaces = [s \in Surfaces |-> [held |-> TRUE, known |-> TRUE, extent |-> 0]]
    /\ frame = NoFrame /\ call = NoCall /\ presented = FALSE
    /\ vk = [chain |-> NoChain, extent |-> 0,
             depth |-> 0, cursor |-> 1, inFlight |-> {}, gpu |-> <<>>, torn |-> FALSE, twice |-> FALSE,
             available |-> [k \in 0..Slots |-> "unsignaled"],
             finished |-> [i \in Image |-> "none"]]
    /\ \E h \in BOOLEAN :
           env = [window |-> [s \in Surfaces |-> CHOOSE z \in Sizes : TRUE],
                  hostManaged |-> h, moves |-> 0]
    /\ seen = [frames |-> 0, faults |-> 0, leaked |-> {}, unrecovered |-> 0]

-----------------------------------------------------------------------------
(* The native context *)

InQueue(v) == ToSet(v.gpu)
Presenting(v) == {i \in Image : v.chain.image[i] = "queued"}

(* wait_idle: submitted frames end and presentations stop waiting *)
Idle(v) ==
    LET waited == {f.slot : f \in {g \in InQueue(v) : g.image # 0}}
                  \cup {0 : i \in {j \in Presenting(v) : v.chain.waits[j] = 0}}
    IN [v EXCEPT
          !.gpu = <<>>, !.inFlight = {},
          !.available = [k \in 0..Slots |-> IF k \in waited THEN "unsignaled" ELSE @[k]],
          !.finished = [i \in Image |-> IF @[i] = "none" THEN "none" ELSE "unsignaled"],
          !.chain.waits = [i \in Image |-> 0],
          !.chain.image = [i \in Image |-> IF @[i] = "acquired" THEN @[i] ELSE "engine"]]

(* what a destruction does to work that still uses the object *)
Destroying(v) ==
    [v EXCEPT !.torn = @ \/ Presenting(v) # {} \/ \E f \in InQueue(v) : f.image # 0]

DepthDestroyed(v) == [Destroying(v) EXCEPT !.depth = 0]

(* recreate_swapchain after its wait: early is an error before the views are drained, late
   one of the creations that follow, which leaves the old swapchain retired, without views *)
Recreated(d, s, size, outcome) ==
    LET drained == [d EXCEPT !.finished = [i \in Image |-> "none"]]
    IN CASE outcome = "early" -> d
         [] outcome = "late" -> [drained EXCEPT !.chain.retired = d.chain.surface # NoSurface]
         [] outcome = "ok" ->
              [drained EXCEPT !.chain = [NoChain EXCEPT !.surface = s],
                 !.finished = [i \in Image |-> "unsignaled"],
                 !.extent = IF env.hostManaged THEN size ELSE env.window[s]]

\* Fault: the swapchain is replaced without waiting for what was submitted.
RecreateUnwaited(v, s, size, outcome) == Recreated(DepthDestroyed(v), s, size, outcome)
RecreateSwapchain(v, s, size, outcome) == Recreated(DepthDestroyed(Idle(v)), s, size, outcome)

Minimized(s) == ~env.hostManaged /\ env.window[s] = 0

(* what recreate_swapchain may answer, and what that costs of the error bound *)
Outcomes(s) ==
    IF Minimized(s) THEN {[is |-> "early", cost |-> 0]}
    ELSE {[is |-> "ok", cost |-> 0]}
         \cup {[is |-> o, cost |-> 1] : o \in
                  IF seen.faults < MaxFaults THEN {"early", "late"} ELSE {}}

NeedsSwapchain(v, size) == v.chain.surface = NoSurface \/ v.extent # size

(* prepare_surface, as the set of its results *)
Prepared(v, s, size) ==
    IF size = 0 THEN {[vk |-> v, ok |-> FALSE, cost |-> 0]}
    ELSE IF ~NeedsSwapchain(v, size) THEN {[vk |-> v, ok |-> TRUE, cost |-> 0]}
    ELSE {[vk |-> RecreateSwapchain(v, s, size, o.is), ok |-> o.is = "ok", cost |-> o.cost] :
             o \in Outcomes(s)}

(* ensure_depth_target *)
DepthEnsured(v, size, ok) ==
    IF v.depth = size THEN v
    ELSE [DepthDestroyed(Idle(v)) EXCEPT !.depth = IF ok THEN size ELSE 0]

OutOfDate(v) == v.chain.stale \/ v.chain.retired
Acquirable(v) == {i \in Image : v.chain.image[i] = "engine"}

(* acquire_next_image signals the semaphore later; one already signaled stays so *)
Acquired(v, k, i) ==
    [v EXCEPT !.chain.image[i] = "acquired",
              !.available[k] = IF @ = "unsignaled" THEN "acquiring" ELSE @]

(* submit_recorded_frame: queue_submit signals finished semaphore f, and queue_present of
   image i (0 when the frame has none) waits for it *)
SubmittedWith(v, k, i, f) ==
    IF i = 0 THEN [v EXCEPT !.gpu = Append(@, [slot |-> k, image |-> 0, signals |-> 0])]
    ELSE [v EXCEPT !.gpu = Append(@, [slot |-> k, image |-> i, signals |-> f]),
                   !.twice = @ \/ v.finished[f] # "unsignaled",
                   !.finished[f] = "pending",
                   !.chain.image[i] = "queued", !.chain.waits[i] = f]
\* Fault: the semaphore presentation waits for belongs to the frame slot.
SubmittedBySlot(v, k, i) == SubmittedWith(v, k, i, k)
Submitted(v, k, i) == SubmittedWith(v, k, i, i)

(* acquire_present hands the image back undrawn, behind the context's own semaphore *)
PresentedUndrawn(v, i) == [v EXCEPT !.chain.image[i] = "queued", !.chain.waits[i] = 0]

(* destroy_surface destroys the swapchain whichever surface it was made for *)
SurfaceDestroyed(v) ==
    [DepthDestroyed(Idle(v)) EXCEPT
        !.chain = NoChain, !.extent = 0]

-----------------------------------------------------------------------------
(* Calls of the owner outside a submission *)

Free == call.at = "idle"
Resized(s, size) == [surfaces EXCEPT ![s].extent = size]

(* begin_frame and configure_swapchain, which resizes the record first *)
Begin(s, size) ==
    /\ Free /\ ~frame.on /\ seen.frames < MaxFrames
    /\ surfaces[s].held /\ surfaces[s].known
    /\ surfaces' = Resized(s, size)
    /\ frame' = [NoFrame EXCEPT !.on = TRUE, !.surface = s]
    /\ presented' = FALSE
    /\ seen' = [seen EXCEPT !.frames = @ + 1]
    /\ UNCHANGED <<vk, call, env>>

BeginTarget ==
    /\ Free /\ ~frame.on /\ seen.frames < MaxFrames
    /\ frame' = [NoFrame EXCEPT !.on = TRUE, !.target = TRUE]
    /\ presented' = FALSE
    /\ seen' = [seen EXCEPT !.frames = @ + 1]
    /\ UNCHANGED <<surfaces, vk, call, env>>

Draw(depth) ==
    /\ Free /\ frame.on /\ ~frame.graphics /\ ~(frame.target /\ depth)
    /\ frame' = [frame EXCEPT !.graphics = TRUE, !.depth = depth]
    /\ UNCHANGED <<surfaces, presented, vk, call, env, seen>>

Abort ==
    /\ Free /\ frame.on
    /\ frame' = NoFrame /\ presented' = FALSE
    /\ UNCHANGED <<surfaces, vk, call, env, seen>>

(* resize_surface; a size of 0 is recorded, and answered NotReady *)
Resize(s, size) ==
    /\ Free /\ surfaces[s].held /\ surfaces[s].known /\ env.moves < MaxMoves
    /\ surfaces' = Resized(s, size)
    /\ env' = [env EXCEPT !.moves = @ + 1]
    /\ UNCHANGED <<frame, presented, vk, call, seen>>

(* a surface whose record is gone is answered InvalidContext *)
DestroySurface(s) ==
    /\ Free /\ surfaces[s].held
    /\ surfaces' = [surfaces EXCEPT ![s] = [held |-> FALSE, known |-> FALSE, extent |-> 0]]
    /\ IF surfaces[s].known
         THEN /\ vk' = SurfaceDestroyed(vk)
              /\ frame' = [frame EXCEPT !.surface = IF @ = s THEN NoSurface ELSE @]
         ELSE UNCHANGED <<vk, frame>>
    /\ UNCHANGED <<presented, call, env, seen>>

-----------------------------------------------------------------------------
(* frame_submit *)

At(where) == call' = [call EXCEPT !.at = where]
Spent(cost) == seen' = [seen EXCEPT !.faults = @ + cost]
MayFail == seen.faults < MaxFaults

(* an error of frame_submit aborts the frame and waits until the device is idle *)
Failed(v) ==
    /\ vk' = Idle(v)
    /\ frame' = NoFrame
    /\ call' = NoCall

(* the record taken out of the map for the native call is put back *)
Returned == IF frame.graphics /\ ~frame.target
            THEN [surfaces EXCEPT ![frame.surface].known = TRUE] ELSE surfaces

(* a frame of a surface destroyed meanwhile presents nothing *)
SubmitOrphan ==
    /\ Free /\ frame.on /\ frame.graphics /\ ~frame.target /\ frame.surface = NoSurface
    /\ frame' = NoFrame /\ call' = NoCall
    /\ UNCHANGED <<surfaces, presented, vk, env, seen>>

(* execute_vulkan_frame_plan takes the record out, prepares the surface and the pipelines,
   and returns early when either fails *)
SubmitSurface ==
    /\ Free /\ frame.on /\ frame.graphics /\ frame.surface # NoSurface
    /\ surfaces' = [surfaces EXCEPT ![frame.surface].known = FALSE]
    /\ \E r \in Prepared(vk, frame.surface, surfaces[frame.surface].extent) :
         \/ /\ r.ok /\ vk' = r.vk
            /\ At("execute") /\ Spent(r.cost) /\ UNCHANGED frame
         \/ ~r.ok /\ Failed(r.vk) /\ Spent(r.cost)
         \/ r.ok /\ MayFail /\ Failed(r.vk) /\ Spent(1)
    /\ UNCHANGED <<presented, env>>

(* prepare_frame_slot moves the cursor before it waits for the slot's fence *)
TakeSlot(v) ==
    /\ vk' = [v EXCEPT !.cursor = (@ % Slots) + 1]
    /\ call' = [call EXCEPT !.at = "fence", !.slot = v.cursor]

(* frames that draw nothing on a surface need no image *)
SubmitOther ==
    /\ Free /\ frame.on /\ (frame.target \/ ~frame.graphics)
    /\ TakeSlot(vk)
    /\ UNCHANGED <<surfaces, frame, presented, env, seen>>

(* execute_frame_source prepares the surface again and ensures the depth target *)
Execute ==
    /\ call.at = "execute"
    /\ \E r \in Prepared(vk, frame.surface, surfaces[frame.surface].extent), ok \in BOOLEAN :
         LET size == surfaces[frame.surface].extent
             v == IF r.ok /\ frame.depth THEN DepthEnsured(r.vk, size, ok) ELSE r.vk
             fits == frame.depth => v.depth = size
             cost == r.cost + (IF r.ok /\ ~fits THEN 1 ELSE 0)
         IN /\ seen.faults + cost <= MaxFaults /\ Spent(cost)
            /\ IF r.ok /\ fits THEN TakeSlot(v) /\ UNCHANGED <<surfaces, frame>>
                             ELSE Failed(v) /\ surfaces' = Returned
    /\ UNCHANGED <<presented, env>>

(* prepare_frame_slot after its wait; descriptors may then run out *)
Fence ==
    /\ call.at = "fence"
    /\ call.slot \in vk.inFlight => \A f \in InQueue(vk) : f.slot # call.slot
    /\ LET v == [vk EXCEPT !.inFlight = @ \ {call.slot},
                           !.torn = @ \/ \E f \in InQueue(vk) : f.slot = call.slot]
           surface == frame.graphics /\ ~frame.target
       IN \/ /\ vk' = v /\ At(IF surface THEN "acquire" ELSE "record")
             /\ UNCHANGED <<surfaces, frame, seen>>
          \/ MayFail /\ Spent(1) /\ Failed(v) /\ surfaces' = Returned
    /\ UNCHANGED <<presented, env>>

(* an image, or an out-of-date swapchain, which record_frame does not replace *)
Acquire ==
    /\ call.at = "acquire"
    /\ \/ /\ OutOfDate(vk) /\ Failed(vk) /\ surfaces' = Returned
          /\ UNCHANGED seen
       \/ /\ ~OutOfDate(vk)
          /\ \E i \in Acquirable(vk) :
               /\ vk' = Acquired(vk, call.slot, i)
               /\ call' = [call EXCEPT !.at = "record", !.image = i]
          /\ seen' = [seen EXCEPT !.leaked = @ \ {call.slot}]
          /\ UNCHANGED <<surfaces, frame>>
    /\ UNCHANGED <<presented, env>>

(* the recreation after an error that follows an acquisition; its own error is dropped *)
Recovered(v, extra, leaked) ==
    \E o \in Outcomes(frame.surface) :
       /\ seen.faults + extra + o.cost <= MaxFaults
       /\ Failed(RecreateSwapchain(v, frame.surface, surfaces[frame.surface].extent, o.is))
       /\ seen' = [seen EXCEPT !.faults = @ + extra + o.cost, !.leaked = @ \cup leaked,
                               !.unrecovered = @ + (IF o.is = "ok" THEN 0 ELSE 1)]
       /\ surfaces' = Returned

\* Fault: an error between acquisition and submission leaves the swapchain as it is.
RecordFailsOnly ==
    /\ call.at = "record" /\ MayFail
    /\ Failed(vk) /\ Spent(1) /\ surfaces' = Returned
    /\ UNCHANGED <<presented, env>>

(* record_frame fails before the submission *)
RecordFails ==
    /\ call.at = "record" /\ MayFail
    /\ IF call.image # 0 THEN Recovered(vk, 1, {call.slot})
                         ELSE Failed(vk) /\ Spent(1) /\ UNCHANGED surfaces
    /\ UNCHANGED <<presented, env>>

(* submit_recorded_frame; a present refused after the submission leaves the slot unmarked *)
Record ==
    /\ call.at = "record"
    /\ LET v == Submitted(vk, call.slot, call.image)
           done == [v EXCEPT !.inFlight = @ \cup {call.slot}]
       IN \/ /\ call.image # 0 => ~OutOfDate(vk)
             /\ vk' = done
             /\ surfaces' = Returned /\ presented' = (call.image # 0)
             /\ call' = IF frame.target THEN NoCall
                        ELSE [NoCall EXCEPT !.at = "present"]
             /\ frame' = IF frame.target THEN NoFrame ELSE frame
             /\ UNCHANGED seen
          \/ call.image # 0 /\ OutOfDate(vk) /\ Recovered(v, 0, {}) /\ UNCHANGED presented
    /\ UNCHANGED env

-----------------------------------------------------------------------------
(* present, which finish calls after a submission: it swaps only when the frame did not *)

Ended == call' = NoCall /\ frame' = NoFrame

PresentDone ==
    /\ call.at = "present" /\ presented
    /\ presented' = FALSE /\ Ended
    /\ UNCHANGED <<surfaces, vk, env, seen>>

AcquirePresent ==
    /\ call.at = "present" /\ ~presented
    /\ \/ frame.surface = NoSurface /\ Ended /\ UNCHANGED <<vk, seen>>
       \/ /\ frame.surface # NoSurface
          /\ \E r \in Prepared(vk, frame.surface, surfaces[frame.surface].extent) :
               /\ vk' = r.vk /\ Spent(r.cost)
               /\ IF r.ok THEN At("acquireUndrawn") /\ UNCHANGED frame ELSE Ended
    /\ UNCHANGED <<surfaces, presented, env>>

(* one retry on a new swapchain *)
AcquireUndrawn ==
    /\ call.at \in {"acquireUndrawn", "again"}
    /\ \/ /\ ~OutOfDate(vk)
          /\ \E i \in Acquirable(vk) : /\ vk' = Acquired(vk, 0, i)
                                       /\ call' = [call EXCEPT !.at = "swap", !.image = i]
          /\ UNCHANGED <<frame, seen>>
       \/ OutOfDate(vk) /\ call.at = "again" /\ Ended /\ UNCHANGED <<vk, seen>>
       \/ /\ OutOfDate(vk) /\ call.at = "acquireUndrawn"
          /\ \E o \in Outcomes(frame.surface) :
               /\ vk' = RecreateSwapchain(vk, frame.surface, surfaces[frame.surface].extent, o.is)
               /\ Spent(o.cost)
               /\ IF o.is = "ok" THEN At("again") /\ UNCHANGED frame ELSE Ended
    /\ UNCHANGED <<surfaces, presented, env>>

(* queue_present; a swapchain found out of date or suboptimal is replaced *)
Swap ==
    /\ call.at = "swap"
    /\ LET v == PresentedUndrawn(vk, call.image)
       IN \/ ~OutOfDate(vk) /\ vk' = v /\ UNCHANGED seen
          \/ /\ OutOfDate(vk)
             /\ \E o \in Outcomes(frame.surface) :
                  /\ vk' = RecreateSwapchain(v, frame.surface, surfaces[frame.surface].extent, o.is)
                  /\ Spent(o.cost)
    /\ Ended
    /\ UNCHANGED <<surfaces, presented, env>>

-----------------------------------------------------------------------------
(* The queue, the presentation engine and the window system *)

AcquireSignals(k) ==
    /\ vk.available[k] = "acquiring"
    /\ vk' = [vk EXCEPT !.available[k] = "signaled"]
    /\ UNCHANGED <<surfaces, frame, presented, call, env, seen>>

FrameEnds ==
    /\ vk.gpu # <<>>
    /\ LET f == Head(vk.gpu)
       IN /\ f.image # 0 => vk.available[f.slot] = "signaled"
          /\ vk' = IF f.image = 0 THEN [vk EXCEPT !.gpu = Tail(@)]
                   ELSE [vk EXCEPT !.gpu = Tail(@), !.available[f.slot] = "unsignaled",
                                   !.finished[f.signals] = "signaled"]
    /\ UNCHANGED <<surfaces, frame, presented, call, env, seen>>

ImageReturns(i) ==
    /\ vk.chain.image[i] = "queued"
    /\ LET w == vk.chain.waits[i]
       IN /\ IF w = 0 THEN vk.available[0] = "signaled" ELSE vk.finished[w] = "signaled"
          /\ vk' = [IF w = 0 THEN [vk EXCEPT !.available[0] = "unsignaled"]
                             ELSE [vk EXCEPT !.finished[w] = "unsignaled"]
                    EXCEPT !.chain.image[i] = "engine", !.chain.waits[i] = 0]
    /\ UNCHANGED <<surfaces, frame, presented, call, env, seen>>

(* a window moves, is resized or minimized; its swapchain may become out of date *)
WindowMoves(s, size, stale) ==
    /\ env.moves < MaxMoves
    /\ env' = [env EXCEPT !.window[s] = size, !.moves = @ + 1]
    /\ vk' = [vk EXCEPT !.chain.stale = @ \/ (stale /\ vk.chain.surface = s)]
    /\ UNCHANGED <<surfaces, frame, presented, call, seen>>

-----------------------------------------------------------------------------
Submission ==
    \/ Execute \/ Fence \/ Acquire \/ Record \/ RecordFails
    \/ PresentDone \/ AcquirePresent \/ AcquireUndrawn \/ Swap

Engine ==
    \/ \E k \in 0..Slots : AcquireSignals(k)
    \/ FrameEnds
    \/ \E i \in Image : ImageReturns(i)

Next ==
    \/ \E s \in Surfaces, size \in Sizes : Begin(s, size)
    \/ BeginTarget \/ Abort \/ SubmitOrphan \/ SubmitSurface \/ SubmitOther
    \/ \E depth \in BOOLEAN : Draw(depth)
    \/ \E s \in Surfaces, size \in Sizes \cup {0} : Resize(s, size)
    \/ \E s \in Surfaces : DestroySurface(s)
    \/ Submission
    \/ Engine
    \/ \E s \in Surfaces, size \in Sizes \cup {0}, stale \in BOOLEAN : WindowMoves(s, size, stale)

Spec == Init /\ [][Next]_vars

-----------------------------------------------------------------------------
TypeOK ==
    /\ surfaces \in [Surfaces -> [held : BOOLEAN, known : BOOLEAN, extent : Sizes \cup {0}]]
    /\ frame \in [on : BOOLEAN, target : BOOLEAN, surface : Surfaces \cup {NoSurface},
                  graphics : BOOLEAN, depth : BOOLEAN]
    /\ presented \in BOOLEAN
    /\ call.slot \in 0..Slots /\ call.image \in 0..Images
    /\ vk.cursor \in Slot /\ vk.inFlight \subseteq Slot
    /\ vk.extent \in Sizes \cup {0} /\ vk.depth \in Sizes \cup {0}
    /\ env.window \in [Surfaces -> Sizes \cup {0}]

(* A semaphore is handed out for signaling only when nothing is left of its last signal:
   the slot's at an acquisition, unless the slot's last frame acquired an image and failed
   before it was submitted (frame.rs recreates the swapchain, never the semaphore); the
   image's at a submission, whatever slot submitted it last. *)
SemaphoresReady ==
    /\ call.at = "acquire" =>
         vk.available[call.slot] = "unsignaled" \/ call.slot \in seen.leaked
    /\ ~vk.twice

(* No swapchain, view, semaphore or depth target is destroyed, and no command buffer reset,
   while a submitted frame or a presentation still uses it. *)
ObjectsOutlive == ~vk.torn

(* A submission is never stuck: its slot's frame can end, or the engine can give an image
   back, unless every image is held by a frame that failed and whose recovery failed too.
   Each step of the owner moves on in the call and each step of the engine uses up what was
   queued, so a submission that is never stuck ends. *)
CallsReturn ==
    call.at # "idle" => ENABLED (Submission \/ Engine) \/ seen.unrecovered >= Images
=============================================================================
