-------------------------- MODULE TexturePipeline --------------------------
(***************************************************************************)
(* Asynchronous texture loading: the pipeline of ez-gfx-texture-manager    *)
(* driven by the texture calls of ez-gfx/src/state.  One owner thread      *)
(* makes every public call; a call is a sequence of stages (`todo`), and   *)
(* between two steps of a stage decode workers finish jobs, the transfer   *)
(* timeline and the frame in flight advance, and the device may die.       *)
(*                                                                         *)
(* Handles are load numbers.  A mip is named by its rank, 1 the coarsest,  *)
(* so a residency count n exposes the ranks 1..n.  Bytes are counted in    *)
(* units of one decode reservation; a fine mip costs one unit as well.     *)
(* Not modelled: telemetry, runtime records, the SourceStaged event (always *)
(* the first), exhausted handles or generations, spawn failures (the pool  *)
(* refuses only after shutdown), and local native calls that cannot fail.  *)
(* A dead device answers every native call with DeviceLost.  One frame is  *)
(* in flight at a time.                                                    *)
(***************************************************************************)
EXTENDS TextureSlots, SequencesExt

CONSTANTS
  Operations,   \* the public calls the application makes, beside polling
  Needs,        \* the required_mips it asks for; 0 is an optional texture
  Chains,       \* decoded mip counts; 0 is a decode error
  NativeErrors, \* how native admission may fail while the device lives
  MayDie,       \* whether the device may be lost
  MaxLoads,     \* bound: textures loaded in one behaviour
  Threads,      \* decode workers
  Budget,       \* WORKING_SET_BUDGET_BYTES, in reservations
  MaxCalls,     \* bound: calls begun, beside polls
  MaxEvents     \* bound: events remembered for one load

ASSUME PipelineBounds ==
  /\ Needs \subseteq Nat /\ Chains \subseteq Nat /\ MayDie \in BOOLEAN
  /\ NativeErrors \subseteq {"OutOfMemory", "NativeFailure"}
  /\ MaxLoads \in Nat /\ Threads \in Nat \ {0} /\ Budget \in Nat \ {0}
  /\ MaxCalls \in Nat /\ MaxEvents \in Nat

VARIABLES
  manager,   \* owner-thread state: pipeline, registry, budget, events
  load,      \* per load: its registry id and its required_mips
  native,    \* per load: the transfer value of each mip rank (0: none)
  driver,    \* decode jobs running, results in the channel
  device,    \* transfer tokens issued and completed; whether it died
  fallback,  \* the context's fallback texture
  frame,     \* the frame in flight
  recording, \* the frame being recorded: interned textures, their waits
  todo, call, cursor, outcomes,  \* the owner's control
  calls      \* calls begun

vars == <<manager, load, native, driver, device, fallback, frame, recording,
          todo, call, cursor, outcomes, calls>>

Handles == 1..MaxLoads
Loaded == 1..Len(load)
Undecoded == 0 - 1
Failure == 0   \* a decode result: an error; otherwise the length of the chain

MinOf(a, b) == IF a <= b THEN a ELSE b
MaxOf(a, b) == IF a >= b THEN a ELSE b
Latest(S) == Max(S \cup {0})

NoWork == [token |-> 0, required |-> 0, fineToken |-> 0, fine |-> 0]
\* `wait` covers what the submission waits for or saw complete; `reads` is
\* the latest transfer of a mip the frame may sample; `bare` says a required
\* texture sampled fallback when the frame was recorded.
NoFrame == [phase |-> "none", wait |-> 0, reads |-> 0, bare |-> FALSE]
NoRecording == [open |-> FALSE, interned |-> {}, bare |-> FALSE,
                waits |-> [h \in Handles |-> 0]]

EmptyManager ==
  [registry |-> NewRegistry,
   pending |-> {}, queue |-> <<>>, order |-> <<>>,
   decoded |-> [h \in Handles |-> Undecoded],
   submitted |-> {}, total |-> [h \in Handles |-> 0],
   fine |-> [h \in Handles |-> <<>>], published |-> [h \in Handles |-> 0],
   ready |-> [h \in Handles |-> 0], notified |-> {},
   tracked |-> {}, work |-> [h \in Handles |-> NoWork],
   last |-> [h \in Handles |-> 0], targets |-> [h \in Handles |-> 0],
   texture |-> 0, background |-> 0,
   alive |-> {}, failures |-> {}, retired |-> {}, bindings |-> {},
   lost |-> FALSE, events |-> [h \in Handles |-> <<>>]]

Init ==
  /\ manager = EmptyManager /\ load = <<>>
  /\ native = [h \in Handles |-> <<>>]
  /\ driver = [running |-> {}, results |-> <<>>]
  /\ device = [issued |-> 0, completed |-> 0, dead |-> FALSE]
  /\ fallback = "none" /\ frame = NoFrame /\ recording = NoRecording
  /\ todo = <<>> /\ call = [op |-> "none", h |-> 0, n |-> 0]
  /\ cursor = 1 /\ outcomes = <<>> /\ calls = 0

-----------------------------------------------------------------------------
\* Operators on the manager m.

Id(h) == load[h].id
Optional(h) == load[h].need = 0
Active == Cardinality(driver.running) + Len(driver.results)
Without(q, h) == SelectSeq(q, LAMBDA k : k # h)

Report(m, h, event) ==
  IF Len(m.events[h]) >= MaxEvents THEN m
  ELSE [m EXCEPT !.events[h] = Append(@, event)]
\* release_texture saturates (a debug build asserts that it need not).
ReleaseTexture(m, n) ==
  [m EXCEPT !.texture = MaxOf(@ - n, 0)]
ReleaseBackground(m, n) ==
  [m EXCEPT !.background = MaxOf(@ - n, 0)]
\* Fault: the last byte of the budget is never lent.
BackgroundFitsStrictly(m) == m.texture + m.background + 1 < Budget
\* acquire_background: everything in flight counts, and nothing is exempt.
BackgroundFits(m) == m.texture + m.background + 1 <= Budget
\* BatchPlan.admits: the texture ledger alone, with progress from empty.
Admits(m) ==
  Active < Threads /\ (m.texture + 1 <= Budget \/ m.texture = 0)

RemovePending(m, h) ==
  [m EXCEPT !.queue = Without(@, h), !.order = Without(@, h),
            !.decoded[h] = Undecoded, !.notified = @ \ {h},
            !.pending = @ \ {h}]

\* forget_transfer, and the release of what it returns.
ForgetTransfer(m, h) ==
  LET held == IF h \in m.tracked THEN m.work[h] ELSE NoWork
      forgotten == [m EXCEPT !.ready[h] = 0, !.fine[h] = <<>>,
                             !.tracked = @ \ {h}, !.work[h] = NoWork]
  IN ReleaseBackground(ReleaseTexture(forgotten, held.required), held.fine)

ForgetSubmitted(m, h) ==
  [m EXCEPT !.submitted = @ \ {h}, !.published[h] = 0, !.targets[h] = 0,
            !.last[h] = 0, !.notified = @ \ {h}, !.decoded[h] = Undecoded,
            !.total[h] = 0]
\* remove_submitted leaves `decoded` alone.
RemoveSubmitted(m, h) ==
  [ForgetSubmitted(m, h) EXCEPT !.decoded[h] = m.decoded[h]]

RecordFailure(m, h) ==
  Report([ForgetSubmitted(ForgetTransfer(m, h), h) EXCEPT !.failures = @ \cup {h}],
         h, "Failed")

\* Once fallback owns the slot, it is withheld until no frame can see it.
RetirePendingBinding(m, h) ==
  IF fallback = "ready"
  THEN IF CanRetire(m.registry, Id(h))
       THEN [m EXCEPT !.registry = Retire(@, Id(h)), !.bindings = @ \cup {Id(h)}]
       ELSE m
  ELSE IF CanCancelUpload(m.registry, Id(h))
       THEN [m EXCEPT !.registry = CancelUpload(@, Id(h))] ELSE m

FailJob(m, h) == RecordFailure(RetirePendingBinding(m, h), h)

\* cancel_upload of every pending load.
CancelPending(m) ==
  LET slots == {Id(h).slot : h \in {k \in m.pending : CanCancelUpload(m.registry, Id(k))}}
  IN [slots |-> [s \in 1..Len(m.registry.slots) |->
                   IF s \in slots THEN Vacated(m.registry.slots[s].gen + 1)
                   ELSE m.registry.slots[s]],
      free |-> m.registry.free \cup slots]

\* Events for every load pending or awaiting readiness.
LossReported(m) ==
  [h \in Handles |-> IF h \in m.pending \/ m.ready[h] # 0
                      THEN Report(m, h, "Failed").events[h] ELSE m.events[h]]
\* Faults: the credit of the transfers in flight is not given back; retained
\* fine mips stay.
DrainedKeepingCredit(m) ==
  [m EXCEPT !.tracked = {}, !.work = [h \in Handles |-> NoWork],
            !.fine = [h \in Handles |-> <<>>], !.notified = {}]
\* drop_device_state, but for its last call.
DrainedWork(m) ==
  [ReleaseBackground(m, MapThenSumSet(LAMBDA h : m.work[h].fine, m.tracked))
     EXCEPT !.tracked = {}, !.work = [h \in Handles |-> NoWork],
            !.fine = [h \in Handles |-> <<>>], !.notified = {}]
\* note_device_lost: the texture ledger is cleared as a whole; `ready`,
\* submitted and published records stay.
NoteLost(m) ==
  [DrainedWork(m) EXCEPT
     !.events = LossReported(m), !.lost = TRUE,
     !.registry = CancelPending(m), !.pending = {}, !.queue = <<>>,
     !.order = <<>>, !.decoded = [h \in Handles |-> Undecoded],
     !.texture = 0]

\* A native call on a dead device: its error reaches with_context_mut.
Lose(m) == manager' = NoteLost(m) /\ todo' = <<>>

Unseen == frame.phase = "none"   \* no submitted frame may see a descriptor

-----------------------------------------------------------------------------
\* The pump (pump_async_textures), stage by stage.

Pump == <<"reclaim", "work", "collect", "submit", "translate", "fine",
          "fineFail", "schedule", "reclaim">>
At(stage) == todo # <<>> /\ Head(todo) = stage
Advances == todo' = Tail(todo)
Stays == UNCHANGED todo
\* What no stage of the pump changes.
PumpKeeps == UNCHANGED <<load, fallback, frame, recording, call, calls>>

\* Retired textures nothing on the device uses any more.
Reclaimable(m) ==
  {e \in m.retired : e.completion <= device.completed /\ Unseen}
WithoutBindings(m) ==
  IF ~Unseen THEN m
  ELSE [m EXCEPT !.bindings = {},
                 !.registry.free = @ \cup {id.slot : id \in m.bindings}]
Reclaimed(m) ==
  [m EXCEPT !.retired = @ \ Reclaimable(m),
            !.registry.free = @ \cup {e.id.slot : e \in Reclaimable(m)}]

\* reclaim_retired_textures: release_retired of each.
Reclaim ==
  /\ At("reclaim") /\ PumpKeeps
  /\ UNCHANGED <<native, driver, device, cursor, outcomes>>
  /\ LET m == WithoutBindings(manager) IN
     IF m.retired # {} /\ device.dead THEN Lose(m)
     ELSE manager' = Reclaimed(m) /\ Advances

\* release_completed on each work entry, in the order of the fields.
ReleasedWork(w) ==
  [w EXCEPT !.required = IF w.token <= device.completed THEN 0 ELSE @,
            !.fine = IF w.fineToken <= device.completed THEN 0 ELSE @,
            !.fineToken = IF w.fineToken <= device.completed THEN 0 ELSE @]
Cleared(m, work) ==
  {h \in m.tracked : work[h].required + work[h].fine = 0 /\ m.fine[h] = <<>>}
ReclaimedWork(m) ==
  LET work == [h \in Handles |-> ReleasedWork(m.work[h])]
      released(field) ==
        MapThenSumSet(LAMBDA h : m.work[h][field] - work[h][field], m.tracked)
      cleared == Cleared(m, work)
      kept == [m EXCEPT !.tracked = @ \ cleared,
                        !.work = [h \in Handles |->
                                    IF h \in m.tracked \ cleared
                                    THEN work[h] ELSE NoWork]]
  IN ReleaseBackground(ReleaseTexture(kept, released("required")),
                       released("fine"))

ReclaimWork ==
  /\ At("work") /\ PumpKeeps
  /\ UNCHANGED <<native, driver, device, cursor, outcomes>>
  /\ IF manager.tracked = {} THEN Advances /\ UNCHANGED manager
     ELSE IF device.dead THEN Lose(manager)
     ELSE manager' = ReclaimedWork(manager) /\ Advances

\* collect_result: the result of a job cancelled since frees its reservation.
Collected(m, h, result) ==
  IF h \in m.pending THEN [m EXCEPT !.decoded[h] = result]
  ELSE ReleaseTexture(m, 1)

Collect ==
  /\ At("collect") /\ PumpKeeps
  /\ UNCHANGED <<native, device, cursor, outcomes>>
  /\ IF driver.results = <<>> THEN Advances /\ UNCHANGED <<manager, driver>>
     ELSE LET r == Head(driver.results) IN
          /\ manager' = Collected(manager, r.h, r.chain)
          /\ driver' = [driver EXCEPT !.results = Tail(@)]
          /\ Stays

Decoded(m, h) == m.decoded[h] # Undecoded
\* next_submittable: a decoded head; behind an undecoded optional head, the
\* decoded required loads.  The first of these is submitted.
Submittable(m) ==
  IF m.order = <<>> THEN {}
  ELSE IF Decoded(m, Head(m.order)) THEN {1}
  ELSE IF ~Optional(Head(m.order)) THEN {}
  ELSE {i \in 1..Len(m.order) :
          Decoded(m, m.order[i]) /\ ~Optional(m.order[i])}

\* The load taken out of `order`, `decoded` and `pending`.
Taken(m, h) ==
  [m EXCEPT !.order = Without(@, h), !.decoded[h] = Undecoded,
            !.pending = @ \ {h}]

\* track_submission: one more coarse mip per token, then the requirement.
Tracked(r, id, required, tokens) ==
  LET uploads == [i \in 1..Len(tokens) |-> [token |-> tokens[i], mips |-> i]]
  IN [r EXCEPT !.slots[id.slot].phase = "uploading",
               !.slots[id.slot].pending = uploads,
               !.slots[id.slot].required = required]

\* submit_one once the backend accepted the prefix.
Submitted(m, h, total, tokens) ==
  LET prefix == Len(tokens) IN
  [m EXCEPT !.registry = Tracked(@, Id(h), load[h].need, tokens),
            !.submitted = @ \cup {h}, !.total[h] = total, !.targets[h] = total,
            !.published[h] = 0, !.last[h] = Last(tokens),
            !.ready[h] = Last(tokens), !.tracked = @ \cup {h},
            !.work[h] = [NoWork EXCEPT !.token = Last(tokens), !.required = 1],
            !.fine[h] = [i \in 1..(total - prefix) |-> total + 1 - i]]

\* Decode errors, mismatched dimensions and requirements beyond the chain
\* fail before native work; a refused native admission fails like them.
FailSubmission(m, h, lost) ==
  /\ manager' = [m EXCEPT !.registry = CancelUpload(@, Id(h))]
  /\ outcomes' = Append(outcomes, [h |-> h, lost |-> lost])
  /\ UNCHANGED <<native, device>>

SubmitOne(m, h, total) ==
  LET prefix == MaxOf(load[h].need, 1)
      tokens == [i \in 1..prefix |-> device.issued + i]
  IN IF total = Failure \/ load[h].need > total
     THEN FailSubmission(m, h, FALSE)
     ELSE IF device.dead THEN FailSubmission(m, h, TRUE)
     ELSE \/ /\ NativeErrors # {} /\ FailSubmission(m, h, FALSE)
          \/ /\ manager' = Submitted(m, h, total, tokens)
             /\ device' = [device EXCEPT !.issued = @ + prefix]
             /\ native' = [native EXCEPT ![h] =
                  [i \in 1..total |-> IF i <= prefix THEN tokens[i] ELSE 0]]
             /\ UNCHANGED outcomes

\* submit_ready_uploads, one load per step.  A load leaves `order` whenever
\* it leaves `pending`, so none is dropped; the backend returns one token
\* per prefix mip and the slot is fresh, so nothing is rolled back.
Submit ==
  /\ At("submit") /\ PumpKeeps /\ UNCHANGED <<driver, cursor>>
  /\ IF fallback # "ready" \/ Submittable(manager) = {}
     THEN Advances /\ UNCHANGED <<manager, native, device, outcomes>>
     ELSE LET first == CHOOSE i \in Submittable(manager) :
                         \A j \in Submittable(manager) : i <= j
              h == manager.order[first]
          IN SubmitOne(Taken(manager, h), h, manager.decoded[h]) /\ Stays

\* A failed submission: the terminal failure, then its reservation.
Translated(m, o) ==
  LET failed == FailJob(m, o.h) IN
  ReleaseTexture(IF o.lost THEN NoteLost(failed) ELSE failed, 1)

Translate ==
  /\ At("translate") /\ PumpKeeps
  /\ UNCHANGED <<native, driver, device, cursor>>
  /\ IF outcomes = <<>> THEN Advances /\ UNCHANGED <<manager, outcomes>>
     ELSE /\ manager' = Translated(manager, Head(outcomes))
          /\ outcomes' = Tail(outcomes) /\ Stays

\* Required readiness gates phase two.
MayRefine(m, h) ==
  /\ m.fine[h] # <<>> /\ m.ready[h] = 0
  /\ m.published[h] >= RequiredMips(m.registry, Id(h))

\* A fine mip admitted: tracked, charged to its work entry, unqueued.
Refined(m, h, token) ==
  [m EXCEPT !.registry = MarkMips(@, Id(h), Last(m.fine[h]), token),
            !.last[h] = token, !.background = @ + 1, !.fine[h] = Front(@),
            !.work[h].fineToken = token, !.work[h].fine = @ + 1]

NextTexture == cursor' = cursor + 1 /\ Stays

\* pump_fine_uploads, handle by handle and mip by mip.  Refused background
\* bytes and OutOfMemory defer the texture; another error drops its chain.
\* Retained mips belong to a submitted, tracked texture (FineHasWork).
Fine ==
  /\ At("fine") /\ PumpKeeps /\ UNCHANGED driver
  /\ IF cursor > MaxLoads
     THEN /\ Advances /\ cursor' = 1
          /\ UNCHANGED <<manager, native, device, outcomes>>
     ELSE IF ~MayRefine(manager, cursor) \/ ~BackgroundFits(manager)
     THEN NextTexture /\ UNCHANGED <<manager, native, device, outcomes>>
     ELSE \/ /\ "OutOfMemory" \in NativeErrors /\ ~device.dead
             /\ NextTexture /\ UNCHANGED <<manager, native, device, outcomes>>
          \/ /\ "NativeFailure" \in NativeErrors \/ device.dead
             /\ manager' = [manager EXCEPT !.fine[cursor] = <<>>]
             /\ outcomes' = Append(outcomes, [h |-> cursor, lost |-> device.dead])
             /\ NextTexture /\ UNCHANGED <<native, device>>
          \/ /\ ~device.dead
             /\ LET token == device.issued + 1 IN
                /\ manager' = Refined(manager, cursor, token)
                /\ native' = [native EXCEPT
                                ![cursor][Last(manager.fine[cursor])] = token]
                /\ device' = [device EXCEPT !.issued = token]
             /\ Stays /\ UNCHANGED <<cursor, outcomes>>

\* Terminal fine failures: no loss is noted here, and the native texture and
\* its slot stay until teardown.
FineFail ==
  /\ At("fineFail") /\ PumpKeeps
  /\ UNCHANGED <<native, driver, device, cursor>>
  /\ IF outcomes = <<>> THEN Advances /\ UNCHANGED <<manager, outcomes>>
     ELSE /\ manager' = RecordFailure(manager, Head(outcomes).h)
          /\ outcomes' = Tail(outcomes) /\ Stays

\* pop_queued_prioritized: the first required job, else the head.
NextQueued(q) ==
  LET required == SelectSeq(q, LAMBDA h : ~Optional(h)) IN
  IF required # <<>> THEN Head(required) ELSE Head(q)

Schedule ==
  /\ At("schedule") /\ PumpKeeps
  /\ UNCHANGED <<native, device, cursor, outcomes>>
  /\ IF ~Admits(manager) \/ manager.queue = <<>>
     THEN Advances /\ UNCHANGED <<manager, driver>>
     ELSE LET h == NextQueued(manager.queue) IN
          /\ manager' = [manager EXCEPT !.queue = Without(@, h), !.texture = @ + 1]
          /\ driver' = [driver EXCEPT !.running = @ \cup {h}]
          /\ Stays

PumpStep == Reclaim \/ ReclaimWork \/ Collect \/ Submit \/ Translate
            \/ Fine \/ FineFail \/ Schedule

-----------------------------------------------------------------------------
\* Residency.

\* poll_native_frame_completion
FrameReaped == IF frame.phase = "done" THEN NoFrame ELSE frame

Complete(token) == token # 0 /\ token <= device.completed
\* The coarse ranks of h complete without a gap.
CoarseComplete(h) ==
  {n \in 0..Len(native[h]) : \A r \in 1..n : Complete(native[h][r])}
\* The count advance_residency would publish for h.
NextPublished(m, h) ==
  LET target == MinOf(m.targets[h], ResidentMips(m.registry, Id(h)))
      coarse == Max(CoarseComplete(h))
  IN IF target > m.published[h]
     THEN MinOf(target, MaxOf(coarse, m.published[h])) ELSE target
Publishes(m, h) ==
  /\ h \in m.submitted /\ HasResidentMips(m.registry, Id(h))
  /\ NextPublished(m, h) \in CoarseComplete(h)
\* Fault: the frame in flight is not consulted.
PublishedUnderFrame(m) ==
  [m EXCEPT !.published = [h \in Handles |->
     IF Publishes(m, h) THEN NextPublished(m, h) ELSE @[h]]]
Published(m) ==
  IF FrameReaped.phase # "none" THEN m
  ELSE [m EXCEPT !.published = [h \in Handles |->
          IF Publishes(m, h) THEN NextPublished(m, h) ELSE @[h]]]
\* advance_texture_residency, with the frame it reaps: frame' = FrameReaped.
Advanced(m) == Published([m EXCEPT !.registry = Poll(@, device.completed)])

Requirement(m, h) ==
  IF h \in m.pending \cup m.submitted /\ Live(m.registry, Id(h))
  THEN RequiredMips(m.registry, Id(h)) ELSE 1
\* Fault: readiness waits for the whole chain.
SampleableWhole(m, h) ==
  Complete(m.ready[h]) /\ m.published[h] >= MaxOf(m.total[h], 1)
Sampleable(m, h) ==
  Complete(m.ready[h]) /\ m.published[h] >= MaxOf(Requirement(m, h), 1)
\* Fault: a region update that re-arms readiness reports it again.
ObservedAgain(m, H) ==
  LET seen == {h \in H : Sampleable(m, h)} IN
  [m EXCEPT !.ready = [h \in Handles |-> IF h \in seen THEN 0 ELSE @[h]],
            !.notified = @ \cup seen,
            !.events = [h \in Handles |-> IF h \in seen
                          THEN Report(m, h, "Ready").events[h] ELSE @[h]]]
\* record_texture_ready for the handles H.
Observed(m, H) ==
  LET seen == {h \in H : Sampleable(m, h)} IN
  [m EXCEPT !.ready = [h \in Handles |-> IF h \in seen THEN 0 ELSE @[h]],
            !.notified = @ \cup seen,
            !.events = [h \in Handles |-> IF h \in seen \ m.notified
                          THEN Report(m, h, "Ready").events[h] ELSE @[h]]]

-----------------------------------------------------------------------------
\* Calls.  A call that fails leaves `todo` empty; DeviceLost also sweeps.

Stages(op) ==
  CASE op = "load" -> <<"reclaim", "load", "schedule">>
    [] op = "cancel" -> <<"cancel">>
    [] op = "waitIdle" -> <<"waitIdle">>
    [] op = "init" -> <<"init">>
    [] op = "draw" -> <<"draw">>
    [] op = "frameSubmit" -> <<"frameSubmit">>
    [] OTHER -> Pump \o <<op>>   \* unload, setResidency, residency, region, poll
\* Calls whose first act is check_thread_and_health.
Checked == {"cancel", "setResidency", "residency", "region", "waitIdle", "draw"}

\* The textures and counts a call may name.
Arguments(op) ==
  CASE op = "load" -> IF Len(load) < MaxLoads THEN {0} \X Needs ELSE {}
    [] op \in {"cancel", "unload", "residency"} -> Loaded \X {0}
    [] op \in {"setResidency", "region"} ->
         Loaded \X (1..Latest(Chains))
    [] OTHER -> {<<0, 0>>}

Start(op, argument) ==
  /\ call' = [op |-> op, h |-> argument[1], n |-> argument[2]]
  /\ IF manager.lost /\ op \in Checked THEN Lose(manager)
     ELSE todo' = Stages(op) /\ UNCHANGED manager
  /\ UNCHANGED <<load, native, driver, device, fallback, frame, recording,
                 cursor, outcomes>>
Call ==
  /\ todo = <<>> /\ calls < MaxCalls /\ calls' = calls + 1
  /\ \E op \in Operations : \E argument \in Arguments(op) : Start(op, argument)
\* poll_upload_event may be called again and again.
PollEvents == todo = <<>> /\ UNCHANGED calls /\ Start("poll", <<0, 0>>)

\* What no body below changes; each adds the rest.
BodyKeeps == UNCHANGED <<driver, call, cursor, outcomes, calls>>
Returns == todo' = <<>>

\* load_texture after its reclaim; a free slot may be refused (CapacityExceeded).
Admitted(m, h) ==
  [m EXCEPT !.pending = @ \cup {h}, !.queue = Append(@, h),
            !.order = Append(@, h), !.alive = @ \cup {h}]
Load ==
  /\ At("load") /\ BodyKeeps
  /\ UNCHANGED <<native, device, fallback, frame, recording>>
  /\ IF manager.lost THEN Lose(manager) /\ UNCHANGED load
     ELSE IF fallback = "uploading" \/ Allocatable(manager.registry) = {}
     THEN Returns /\ UNCHANGED <<manager, load>>
     ELSE \E s \in Allocatable(manager.registry) :
            LET h == Len(load) + 1
                id == BegunId(manager.registry, s)
            IN /\ load' = Append(load, [id |-> id, need |-> call.n])
               /\ manager' = [Admitted(manager, h) EXCEPT
                                !.registry = BeginUpload(@, s)]
               /\ Advances

\* A pending load dropped by its owner: binding, handle, decode state.
Abandoned(m, h) ==
  LET dropped == RemovePending(
                   RetirePendingBinding([m EXCEPT !.alive = @ \ {h}], h), h)
  IN ReleaseTexture(dropped, IF Decoded(m, h) THEN 1 ELSE 0)

CanRetireLive(m, h) ==
  h \in m.submitted /\ h \in m.alive /\ CanRetire(m.registry, Id(h))
\* retire_live_texture: the slot is withheld and the native texture kept
\* until the latest transfer completes and no frame is in flight.
RetiredLive(m, h) ==
  [RemoveSubmitted(ForgetTransfer(m, h), h) EXCEPT
     !.registry = Retire(@, Id(h)), !.alive = @ \ {h},
     !.retired = @ \cup {[id |-> Id(h), completion |-> m.last[h],
                          mips |-> native[h]]}]
RetireLive(m, h) ==
  /\ CanRetireLive(m, h) /\ manager' = RetiredLive(m, h)
  /\ native' = [native EXCEPT ![h] = <<>>]

\* cancel_texture_load: pending, or awaiting its transfer.
Cancel ==
  /\ At("cancel") /\ BodyKeeps /\ Returns
  /\ UNCHANGED <<load, device, fallback, frame, recording>>
  /\ LET h == call.h IN
     \/ /\ h \in manager.pending
        /\ manager' = Report(Abandoned(manager, h), h, "Cancelled")
        /\ UNCHANGED native
     \/ /\ h \notin manager.pending /\ manager.ready[h] # 0
        /\ CanRetireLive(manager, h)
        /\ manager' = Report(RetiredLive(manager, h), h, "Cancelled")
        /\ native' = [native EXCEPT ![h] = <<>>]
     \/ /\ h \notin manager.pending
        /\ manager.ready[h] = 0 \/ ~CanRetireLive(manager, h)
        /\ UNCHANGED <<manager, native>>

\* try_unload_texture after its pump.
UnloadTexture ==
  /\ At("unload") /\ BodyKeeps /\ Returns
  /\ UNCHANGED <<load, device, fallback, frame, recording>>
  /\ LET h == call.h IN
     \/ /\ h \in manager.pending
        /\ manager' = Abandoned(manager, h) /\ UNCHANGED native
     \/ /\ h \in manager.failures
        /\ manager' = [manager EXCEPT !.alive = @ \ {h}, !.failures = @ \ {h}]
        /\ UNCHANGED native
     \/ /\ h \notin manager.pending \cup manager.failures
        /\ RetireLive(manager, h)
     \/ /\ h \notin manager.pending \cup manager.failures
        /\ ~CanRetireLive(manager, h)
        /\ UNCHANGED <<manager, native>>

\* The native reads of a residency call: a dead device answers with loss.
Observing(m, H) ==
  IF device.dead THEN Lose(m) /\ UNCHANGED frame
  ELSE /\ manager' = Observed(Advanced(m), H)
       /\ frame' = FrameReaped /\ Returns

\* Calls on a submitted, healthy, live texture; others fail before any effect.
Usable(h) == h \in manager.submitted /\ h \in manager.alive

Residency ==
  /\ At("residency") /\ BodyKeeps
  /\ UNCHANGED <<load, native, device, fallback, recording>>
  /\ IF Usable(call.h) THEN Observing(manager, {call.h})
     ELSE Returns /\ UNCHANGED <<manager, frame>>

\* set_texture_residency: the request stays recorded when not ready.
SetResidency ==
  /\ At("setResidency") /\ BodyKeeps
  /\ UNCHANGED <<load, native, device, fallback, recording>>
  /\ IF Usable(call.h) /\ call.n <= manager.total[call.h]
     THEN Observing([manager EXCEPT !.targets[call.h] = call.n], {call.h})
     ELSE Returns /\ UNCHANGED <<manager, frame>>

\* An accepted region update: only exposed mips re-arm readiness.
Rewritten(m, h, rank, token) ==
  [m EXCEPT !.last[h] = token,
            !.ready[h] = IF rank <= m.published[h] THEN token ELSE @]

\* update_texture_region; a refused native admission changes nothing more.
Region ==
  /\ At("region") /\ BodyKeeps
  /\ UNCHANGED <<load, fallback, recording>>
  /\ LET h == call.h  m == Advanced(manager)  token == device.issued + 1 IN
     IF ~Usable(h)
     THEN Returns /\ UNCHANGED <<manager, native, device, frame>>
     ELSE IF device.dead
     THEN Lose(manager) /\ UNCHANGED <<native, device, frame>>
     ELSE /\ frame' = FrameReaped /\ Returns
          /\ \/ /\ HasResidentMips(m.registry, Id(h)) /\ call.n <= m.total[h]
                /\ manager' = Rewritten(m, h, call.n, token)
                /\ native' = [native EXCEPT ![h][call.n] = token]
                /\ device' = [device EXCEPT !.issued = token]
             \/ /\ \/ NativeErrors # {}
                   \/ ~(HasResidentMips(m.registry, Id(h)) /\ call.n <= m.total[h])
                /\ manager' = m /\ UNCHANGED <<native, device>>

\* progress_texture_upload_events after its pump.
Progress(next) ==
  IF manager.lost THEN Lose(manager) /\ UNCHANGED frame
  ELSE IF manager.submitted = {} /\ \A h \in Handles : manager.ready[h] = 0
  THEN next /\ UNCHANGED <<manager, frame>>
  ELSE IF device.dead THEN Lose(manager) /\ UNCHANGED frame
  ELSE /\ manager' = Observed(Advanced(manager), Handles)
       /\ frame' = FrameReaped /\ next

PollProgress ==
  /\ At("poll") /\ BodyKeeps /\ Progress(Returns)
  /\ UNCHANGED <<load, native, device, fallback, recording>>

\* wait_idle: progress_texture_upload_events pumps again before it observes.
Drained(m) == m.pending = {} /\ \A h \in Handles : m.fine[h] = <<>>
WaitIdle ==
  /\ At("waitIdle") /\ BodyKeeps
  /\ todo' = IF fallback # "ready" /\ manager.pending # {} THEN <<>>
             ELSE Pump \o Pump \o <<"idleProgress", "idleAgain">>
  /\ UNCHANGED <<manager, load, native, device, fallback, frame, recording>>
IdleProgress ==
  /\ At("idleProgress") /\ BodyKeeps /\ Progress(Advances)
  /\ UNCHANGED <<load, native, device, fallback, recording>>
\* Once drained the device is waited for, and progress is made once more.
IdleAgain ==
  /\ At("idleAgain") /\ BodyKeeps
  /\ UNCHANGED <<load, native, fallback, recording>>
  /\ IF ~Drained(manager)
     THEN /\ todo' = Pump \o Pump \o <<"idleProgress", "idleAgain">>
          /\ UNCHANGED <<manager, device, frame>>
     ELSE IF device.dead THEN Lose(manager) /\ UNCHANGED <<device, frame>>
     ELSE /\ device' = [device EXCEPT !.completed = device.issued]
          /\ frame' = NoFrame /\ todo' = Pump \o <<"idleProgress">>
          /\ UNCHANGED manager

\* initialize_texture_fallback: a failed wait leaves it uploading for a retry.
InitFallback ==
  /\ At("init") /\ BodyKeeps
  /\ IF device.dead /\ fallback # "ready"
     THEN Lose(manager) /\ UNCHANGED fallback
     ELSE /\ Returns /\ UNCHANGED manager
          /\ \/ fallback' = "ready"
             \/ /\ "NativeFailure" \in NativeErrors /\ fallback # "ready"
                /\ fallback' = "uploading"
  /\ UNCHANGED <<load, native, device, frame, recording>>

-----------------------------------------------------------------------------
\* Frames.

RequiredPending(m) == \E h \in m.pending : ~Optional(h)
UnpublishedRequired(m) ==
  {h \in m.submitted \ m.failures :
     m.published[h] < RequiredMips(m.registry, Id(h))}

\* Fault: the wait for required decodes is skipped.
GateUndriven(m) ==
  IF fallback # "ready" \/ UnpublishedRequired(m) = {} THEN <<"record">>
  ELSE <<"drain">>
\* gate_required_textures_for_submit: what a draw does next.
Gate(m) ==
  IF ~RequiredPending(m) /\ UnpublishedRequired(m) = {}
  THEN (IF m.pending = {} THEN <<>> ELSE Pump) \o <<"record">>
  ELSE IF fallback # "ready" THEN <<"record">>
  ELSE IF RequiredPending(m) THEN Pump \o <<"drive">>
  ELSE <<"drain">>

DrawKeeps ==
  /\ BodyKeeps
  /\ UNCHANGED <<load, native, device, fallback>>
Draw ==
  /\ At("draw") /\ DrawKeeps /\ todo' = Gate(manager)
  /\ UNCHANGED <<manager, frame, recording>>
\* Required decodes are driven to submission; the wait may time out.
Drive ==
  /\ At("drive") /\ DrawKeeps /\ UNCHANGED <<manager, frame, recording>>
  /\ IF RequiredPending(manager) THEN todo' \in {Pump \o <<"drive">>, <<>>}
     ELSE todo' = IF UnpublishedRequired(manager) = {} THEN <<"record">>
                  ELSE <<"drain">>

\* reference_required_prefix of every texture not failed.
Referenced(m) ==
  [m EXCEPT !.published = [h \in Handles |->
     IF h \in UnpublishedRequired(m) THEN RequiredMips(m.registry, Id(h)) ELSE @[h]]]
\* Prior frames drain (or the wait times out), then prefixes are installed.
Drain ==
  /\ At("drain") /\ DrawKeeps /\ UNCHANGED recording
  /\ IF device.dead THEN Lose(manager) /\ UNCHANGED frame
     ELSE /\ frame' = FrameReaped
          /\ IF FrameReaped.phase = "none"
             THEN manager' = Referenced(manager) /\ todo' = <<"record">>
             ELSE UNCHANGED manager /\ todo' \in {todo, <<>>}

\* Fault: only textures already observed ready are interned.
InternedReady(m) == {h \in m.submitted : m.published[h] # 0 /\ m.ready[h] = 0}
Interned(m) == {h \in m.submitted : m.published[h] # 0}
\* add_texture_accesses: textures with a published mip are interned, once,
\* with the readiness they wait for.
Record ==
  /\ At("record") /\ DrawKeeps /\ Returns /\ UNCHANGED <<manager, frame>>
  /\ LET seen == Interned(manager)
         waits == [h \in Handles |->
                     IF h \in seen \ recording.interned THEN manager.ready[h]
                     ELSE recording.waits[h]]
         bare == /\ fallback = "ready"
                 /\ RequiredPending(manager) \/ UnpublishedRequired(manager) # {}
     IN recording' = [open |-> TRUE, waits |-> waits,
                      interned |-> recording.interned \cup seen,
                      bare |-> recording.bare \/ bare]

\* frame_submit refreshes the waits of interned textures.
SubmitWaits ==
  [h \in Handles |->
     IF h \in recording.interned /\ manager.ready[h] # 0
     THEN manager.ready[h] ELSE recording.waits[h]]

FrameSubmit ==
  /\ At("frameSubmit") /\ DrawKeeps
  /\ recording' = NoRecording
  /\ IF ~recording.open \/ frame.phase = "running"
     THEN Returns /\ UNCHANGED <<manager, frame>>
     ELSE IF device.dead THEN Lose(manager) /\ UNCHANGED frame
     ELSE /\ Returns /\ UNCHANGED manager
          /\ frame' =
               [phase |-> "running", bare |-> recording.bare,
                wait |-> Latest({SubmitWaits[h] : h \in Handles}
                                \cup {device.completed}),
                reads |-> Latest({native[h][r] : <<h, r>> \in
                   {a \in manager.submitted \X (1..Latest(Chains)) :
                      a[2] <= manager.published[a[1]]}})]

-----------------------------------------------------------------------------
\* The threads and the device.

OwnerKeeps ==
  UNCHANGED <<manager, load, native, fallback, recording, todo, call, cursor,
              outcomes, calls>>

\* A worker finishes; whatever a cancelled job returns is thrown away.
DecodeFinish ==
  /\ \E h \in driver.running : \E chain \in Chains :
       /\ h \notin manager.pending => chain = Failure
       /\ driver' = [running |-> driver.running \ {h},
                     results |-> Append(driver.results, [h |-> h, chain |-> chain])]
  /\ OwnerKeeps /\ UNCHANGED <<device, frame>>

\* The transfer timeline advances in order.
TransferComplete ==
  /\ ~device.dead /\ device.completed < device.issued
  /\ device' = [device EXCEPT !.completed = @ + 1]
  /\ OwnerKeeps /\ UNCHANGED <<driver, frame>>

\* The frame runs once its waits are over; its fence then signals.
FrameFinish ==
  /\ ~device.dead /\ frame.phase = "running" /\ frame.wait <= device.completed
  /\ frame' = [frame EXCEPT !.phase = "done"]
  /\ OwnerKeeps /\ UNCHANGED <<driver, device>>

DeviceDies ==
  /\ MayDie /\ ~device.dead
  /\ device' = [device EXCEPT !.dead = TRUE]
  /\ OwnerKeeps /\ UNCHANGED <<driver, frame>>

OwnerStep ==
  \/ PumpStep \/ Load \/ Cancel \/ UnloadTexture \/ Residency \/ SetResidency
  \/ Region \/ PollProgress \/ WaitIdle \/ IdleProgress \/ IdleAgain \/ InitFallback
  \/ Draw \/ Drive \/ Drain \/ Record \/ FrameSubmit

Next == Call \/ PollEvents \/ OwnerStep
        \/ DecodeFinish \/ TransferComplete \/ FrameFinish \/ DeviceDies

Spec == Init /\ [][Next]_vars
\* The owner finishes its calls and keeps polling; workers and device run.
FairSpec ==
  /\ Spec /\ WF_vars(OwnerStep) /\ WF_vars(PollEvents)
  /\ WF_vars(DecodeFinish) /\ WF_vars(TransferComplete) /\ WF_vars(FrameFinish)

-----------------------------------------------------------------------------
\* Properties.

\* Until the device is lost, the texture ledger holds exactly one reservation
\* for each job running, result uncollected or unsubmitted, failure not yet
\* translated, and prefix in transfer; and the background ledger is at all times
\* what the tracked textures hold: nothing is returned twice or kept.
LedgersExact ==
  /\ ~manager.lost =>
       manager.texture =
         Active + Cardinality({h \in Handles : Decoded(manager, h)})
         + MapThenSumSet(LAMBDA h : manager.work[h].required, manager.tracked)
         + (IF At("submit") \/ At("translate") THEN Len(outcomes) ELSE 0)
  /\ manager.background =
       MapThenSumSet(LAMBDA h : manager.work[h].fine, manager.tracked)

\* What a submitted frame may read stays as it is: no descriptor is rewritten
\* under it, and a native texture is destroyed, and its slot reset, only between
\* frames and after all its transfers completed.
FramesUndisturbed ==
  [][/\ frame.phase = "running" /\ frame'.phase = "running" =>
          \A h \in manager.submitted \cap manager'.submitted :
            manager'.published[h] = manager.published[h]
     /\ \A e \in manager.retired \ manager'.retired :
          /\ frame.phase # "running"
          /\ \A r \in 1..Len(e.mips) : e.mips[r] <= device.completed]_vars

\* One outcome per load: readiness once, then at most a failure of a finer
\* mip; nothing after a cancellation, and after a failure only its repetition
\* by the sweeps of a lost device.
EventProtocol ==
  \A h \in Handles : LET log == manager.events[h] IN
    \A i, j \in 1..Len(log) : i < j =>
      /\ log[i] # "Cancelled"
      /\ log[i] = "Failed" => log[j] = "Failed" /\ manager.lost
      /\ log[i] = "Ready" => log[j] # "Ready"

\* A draw never samples fallback for a required texture, once fallback exists.
FrameSamplesRequired == ~frame.bare

\* The frame waits for every transfer of a mip it may sample that had not
\* completed when it was submitted.
FrameWaitsForView == frame.reads <= frame.wait

\* Once fallback exists every load ends while the application polls: it is
\* submitted, its readiness observed (advance_residency, observe_ready), and the
\* fine mips retained of it are submitted or dropped (pump_fine_uploads).
LoadsEnd ==
  \A h \in Handles :
    /\ (h \in manager.pending /\ fallback = "ready") ~>
         (h \notin manager.pending /\ manager.ready[h] = 0)
    /\ (manager.fine[h] # <<>>) ~> (manager.fine[h] = <<>>)

\* wait_idle and the draw gate do not loop for ever, nor does any other call.
CallsReturn == (todo # <<>>) ~> (todo = <<>>)
=============================================================================
