------------------------------ MODULE GpuArena ------------------------------
(***************************************************************************)
(* A typed arena shared by threads, and the host-visible buffer it is      *)
(* copied into when a frame binds it.  Elements are reserved, set and      *)
(* removed under the arena's lock; a bind takes the lock, writes the dirty *)
(* slots or a larger buffer, and gives the lock back.  The frames that     *)
(* read the buffer, and the deferred release of a replaced one, are        *)
(* NativeFrames.                                                           *)
(*                                                                         *)
(* Slots count from 1; slot 1 is the sentinel (slot zero of the code),     *)
(* which no handle names.  A buffer's capacity is counted in elements.     *)
(***************************************************************************)
EXTENDS NativeFrames, Sequences

CONSTANTS
  Contents,       \* values of an element; 0 is zeroed
  MaxGeneration,  \* u32::MAX
  Limit,          \* elements in MAX_FACADE_BUFFER_BYTES and MAX_GPU_ARENA_BYTES
  MaxNative,      \* bound: buffers ever made
  MaxValue,       \* bound: frame values handed out
  MaxChanges      \* bound: elements set or removed

ASSUME ArenaAssumption ==
  /\ 0 \in Contents
  /\ MaxGeneration \in Nat \ {0} /\ Limit \in Nat \ {0}
  /\ {MaxNative, MaxValue, MaxChanges} \subseteq Nat

VARIABLES
  arena,      \* [slots, free, dirty]: ArenaStorage
  held,       \* does the application hold a GpuArena?
  sync,       \* the bind under way: [at, regions]
  store,      \* GpuArenaBuffer: [known, native, capacity, lastUse]
  bytes,      \* contents of each buffer ever made
  retired,    \* buffers retired against a frame, with its value
  recording,  \* [on, poisoned, bound, synced, drawn, size, sees]
  frames,     \* the backend's frames
  uses,       \* history: what each frame running reads, and is to see there
  issued,     \* history: the handles handed out
  changes     \* elements set or removed so far, for the bound

threadVars == <<arena, issued, changes>>
deviceVars == <<store, bytes, retired, frames>>
vars == <<threadVars, held, sync, deviceVars, recording, uses>>

Natives == 1..MaxNative
Values == 1..MaxValue
Slot == 1..Len(arena.slots)
NewSlot == [generation |-> 1, occupied |-> TRUE, value |-> 0]
NewArena == [slots |-> <<NewSlot>>, free |-> <<>>, dirty |-> {1}]
NoBind == [at |-> "idle", regions |-> {}]
NoRecording == [on |-> FALSE, poisoned |-> FALSE, bound |-> FALSE, synced |-> FALSE,
                drawn |-> FALSE, size |-> 0, sees |-> <<>>]
NoUse == [native |-> 0, sees |-> <<>>]
\* History: a frame that has ended is forgotten.
Outlived == uses' = [v \in Values |-> IF v \in frames'.running THEN uses[v] ELSE NoUse]
Made == {n \in Natives : bytes[n] # <<>>}

Init ==
  /\ arena = NewArena
  /\ held = TRUE /\ sync = NoBind
  /\ store = [known |-> TRUE, native |-> 0, capacity |-> 0, lastUse |-> 0]
  /\ bytes = [n \in Natives |-> <<>>] /\ retired = {}
  /\ recording = NoRecording
  /\ \E b \in Backends : frames = NewFrames(b)
  /\ uses = [v \in Values |-> NoUse]
  /\ issued = {} /\ changes = 0

-----------------------------------------------------------------------------
\* The arena.  Any thread that holds it calls these, under the lock.

\* Fault: the bind gives the lock back while it writes.
UnlockedAlways == TRUE
Unlocked == sync.at = "idle"

\* A handle of this arena, or of another one with elements of the same type:
\* both are a slot and a generation.
HandleOf(from, slot, generation) == [from |-> from, slot |-> slot, generation |-> generation]
Valid(h) ==
  /\ h.slot \in Slot
  /\ arena.slots[h.slot].occupied /\ arena.slots[h.slot].generation = h.generation

Reused(count) == IF count <= Len(arena.free) THEN count ELSE Len(arena.free)

\* reserve, reserve_many: the slots freed last come first.
Reserve(count) ==
  LET kept == Len(arena.free) - Reused(count)
      taken == {arena.free[i] : i \in kept + 1 .. Len(arena.free)}
      length == Len(arena.slots) + count - Reused(count)
      slots == [i \in 1..length |->
                  IF i \notin Slot THEN NewSlot
                  ELSE IF i \in taken
                  THEN [arena.slots[i] EXCEPT !.occupied = TRUE, !.value = 0]
                  ELSE arena.slots[i]]
      fresh == taken \cup (1..length \ Slot)
  IN /\ held /\ Unlocked /\ length <= Limit
     /\ arena' = [slots |-> slots, free |-> SubSeq(arena.free, 1, kept),
                  dirty |-> arena.dirty \cup fresh]
     /\ issued' = issued \cup {HandleOf("this", i, slots[i].generation) : i \in fresh}
     /\ UNCHANGED <<held, sync, deviceVars, recording, uses, changes>>

\* set, set_many: a batch is a sequence of [handle, value], all of them valid.
Accepted(batch) == \A k \in DOMAIN batch : Valid(batch[k].handle)

Earlier(batch, slot, k) == {j \in DOMAIN batch : j < k /\ batch[j].handle.slot = slot}
ValueBefore(batch, slot, k) ==
  IF Earlier(batch, slot, k) = {} THEN arena.slots[slot].value
  ELSE batch[Highest(Earlier(batch, slot, k))].value

\* An element that keeps its bytes is not marked.
Changed(batch) ==
  {batch[k].handle.slot : k \in {j \in DOMAIN batch :
     batch[j].value # ValueBefore(batch, batch[j].handle.slot, j)}}

Set(batch) ==
  /\ held /\ Unlocked /\ Accepted(batch) /\ changes + Len(batch) <= MaxChanges
  /\ arena' = [arena EXCEPT
       !.slots = [i \in Slot |-> [@[i] EXCEPT !.value = ValueBefore(batch, i, Len(batch) + 1)]],
       !.dirty = @ \cup Changed(batch)]
  /\ changes' = changes + Len(batch)
  /\ UNCHANGED <<held, sync, deviceVars, recording, uses, issued>>

\* remove, remove_many: valid handles of different slots, removed one by one up
\* to one whose generation is exhausted.
Removable(handles) ==
  /\ \A k \in DOMAIN handles : Valid(handles[k])
  /\ \A j, k \in DOMAIN handles : j # k => handles[j].slot # handles[k].slot

Exhausted(handles) ==
  {k \in DOMAIN handles : arena.slots[handles[k].slot].generation = MaxGeneration}
RemovedCount(handles) ==
  IF Exhausted(handles) = {} THEN Len(handles) ELSE Lowest(Exhausted(handles)) - 1

\* Fault: a removed slot keeps its generation.
VacatedSame(slot) == [slot EXCEPT !.occupied = FALSE, !.value = 0]
Vacated(slot) == [slot EXCEPT !.occupied = FALSE, !.value = 0,
                                !.generation = slot.generation + 1]

Remove(handles) ==
  LET gone == [k \in 1..RemovedCount(handles) |-> handles[k].slot]
      removed == {gone[k] : k \in DOMAIN gone}
  IN /\ held /\ Unlocked /\ Removable(handles) /\ changes + Len(handles) <= MaxChanges
     /\ arena' = [slots |-> [i \in Slot |-> IF i \in removed THEN Vacated(arena.slots[i])
                                            ELSE arena.slots[i]],
                  free |-> arena.free \o gone,
                  dirty |-> arena.dirty \cup removed]
     /\ changes' = changes + Len(handles)
     /\ UNCHANGED <<held, sync, deviceVars, recording, uses, issued>>

-----------------------------------------------------------------------------
\* bind_gpu_arena: take the lock and the dirty ranges, write, give it back.

OwnerFree == sync.at = "idle"

Bind ==
  /\ OwnerFree /\ held /\ recording.on
  /\ sync' = [at |-> "writing", regions |-> arena.dirty]
  /\ UNCHANGED <<threadVars, held, deviceVars, recording, uses>>

\* A poisoned frame only ends: what it drew is of no account.
Poisoned == [NoRecording EXCEPT !.on = TRUE, !.poisoned = TRUE, !.bound = recording.bound]
CurrentValues == [i \in Slot |-> arena.slots[i].value]

\* What was dirty is clean, unless the write failed, which poisons the frame.
Bound ==
  /\ arena' = [arena EXCEPT !.dirty = {}]
  /\ recording' =
       IF recording.poisoned THEN [recording EXCEPT !.bound = TRUE]
       ELSE [recording EXCEPT !.bound = TRUE, !.synced = TRUE, !.sees = CurrentValues]
Unbound == recording' = Poisoned /\ UNCHANGED arena

NeedsResize == Len(arena.slots) > store.capacity
Writes == sync.regions # {} \/ NeedsResize

\* Fault: the last frame that reads the buffer is not waited for.
DrainedUnwaited(f) == {[frames |-> f, ok |-> TRUE]}
\* wait_native_idle when the last frame that reads the buffer has not completed.
DrainedFor(f) ==
  IF Writes /\ store.lastUse # 0 /\ CompletedValue(f) < store.lastUse
  THEN {[frames |-> Idled(f), ok |-> TRUE], [frames |-> IdledBadly(f), ok |-> FALSE]}
  ELSE {[frames |-> f, ok |-> TRUE]}

\* Nothing is written: the wait failed, the buffer cannot be made, or nothing
\* is dirty.
WriteNothing(f) == frames' = f /\ UNCHANGED <<store, bytes>>

\* checked_next_power_of_two, within the limit.
PowersOfTwo == {p \in 1..Limit : \E e \in 0..Limit : p = 2 ^ e}
NextPowers(n) == {p \in PowersOfTwo : p >= n /\ \A q \in PowersOfTwo : q >= n => p <= q}

\* A larger buffer takes over.
WriteNew(f) ==
  LET made == Cardinality(Made) + 1
  IN \E capacity \in NextPowers(Len(arena.slots)) :
     /\ made \in Natives
     /\ bytes' = [bytes EXCEPT ![made] =
          [i \in 1..capacity |-> IF i \in Slot THEN arena.slots[i].value ELSE 0]]
     /\ store' = [store EXCEPT !.native = made, !.capacity = capacity]
     /\ frames' = IF store.native = 0 THEN f ELSE Defer(f, store.native)

WriteSlots(f, written) ==
  /\ frames' = f /\ UNCHANGED store
  /\ bytes' = [bytes EXCEPT ![store.native] =
       [i \in DOMAIN @ |-> IF i \in written THEN arena.slots[i].value ELSE @[i]]]

\* The dirty slots in their order, or some of them before an error.
WriteRegions(f) ==
  IF sync.regions = {} THEN Bound /\ WriteNothing(f)
  ELSE \/ Bound /\ WriteSlots(f, sync.regions)
       \/ Unbound /\ \E k \in sync.regions : WriteSlots(f, {i \in sync.regions : i < k})

Write ==
  /\ sync.at = "writing" /\ sync' = NoBind /\ frames.next \in Values
  /\ \E f \in IF Writes /\ store.lastUse # 0 THEN Polled(frames) ELSE {frames} :
       \E d \in DrainedFor(f) :
          IF ~d.ok THEN Unbound /\ WriteNothing(d.frames)
          ELSE IF ~NeedsResize THEN WriteRegions(d.frames)
          ELSE \/ Bound /\ WriteNew(d.frames)
               \/ Unbound /\ WriteNothing(d.frames)
  /\ Outlived /\ UNCHANGED <<issued, changes, held, retired>>

-----------------------------------------------------------------------------
\* The end of an arena: its last owner, a GpuArena or a binding, is dropped,
\* and its elements and handles are forgotten.

\* release_gpu_arena_buffer, on the owner thread; elsewhere it finds no context.
Released(f) ==
  /\ store' = [store EXCEPT !.known = FALSE, !.native = 0, !.capacity = 0]
  /\ IF store.native # 0 /\ store.lastUse # 0
     THEN /\ retired' = retired \cup {[native |-> store.native, value |-> store.lastUse]}
          /\ frames' = f
     ELSE /\ UNCHANGED retired
          /\ frames' = IF store.native = 0 THEN f ELSE Defer(f, store.native)
Unreleased(f) == frames' = f /\ UNCHANGED <<store, retired>>

Ended == arena' = NewArena /\ issued' = {} /\ changes' = 0
Outlives(f) == Unreleased(f) /\ UNCHANGED threadVars

DropArena ==
  /\ OwnerFree /\ held /\ held' = FALSE
  /\ IF recording.bound THEN Outlives(frames)
     ELSE Ended /\ (Released(frames) \/ Unreleased(frames))
  /\ UNCHANGED <<sync, bytes, recording, uses>>

\* A binding goes: the frame ends, or another buffer takes its name.
DropsBinding(f) ==
  IF recording.bound /\ ~held THEN Ended /\ Released(f) ELSE Outlives(f)

Rebind ==
  /\ OwnerFree /\ recording.on /\ recording.bound
  /\ recording' = [recording EXCEPT !.bound = FALSE]
  /\ DropsBinding(frames)
  /\ UNCHANGED <<held, sync, bytes, uses>>

-----------------------------------------------------------------------------
\* Frames.

Begin ==
  /\ OwnerFree /\ ~recording.on /\ frames.next \in Values
  /\ recording' = [NoRecording EXCEPT !.on = TRUE]
  /\ UNCHANGED <<threadVars, held, sync, deviceVars, uses>>

\* The first draw adds the buffer to the graph with the size it has then; the
\* access of a later one must lie within.
Draw ==
  /\ OwnerFree /\ recording.on /\ recording.bound /\ ~recording.poisoned
  /\ recording' =
       IF recording.size \in {0, store.capacity}
       THEN [recording EXCEPT !.drawn = TRUE, !.size = store.capacity]
       ELSE Poisoned
  /\ UNCHANGED <<threadVars, held, sync, deviceVars, uses>>

\* The frame's bindings are dropped with it.
EndsRecording == recording' = NoRecording

Abort ==
  /\ OwnerFree /\ recording.on
  /\ EndsRecording /\ DropsBinding(frames)
  /\ UNCHANGED <<held, sync, bytes, uses>>

Submittable ==
  /\ OwnerFree /\ recording.on /\ ~recording.poisoned
  /\ frames.next \in Values /\ CanPrepare(frames)

\* A frame that drew from an arena released since is refused.
Resolved == recording.drawn => store.known

Submit ==
  /\ Submittable /\ Resolved
  /\ uses' = [uses EXCEPT ![frames.next] =
       IF recording.drawn THEN [native |-> store.native, sees |-> recording.sees] ELSE NoUse]
  /\ LET s == IF recording.synced /\ store.known THEN [store EXCEPT !.lastUse = frames.next]
              ELSE store
         drops == recording.bound /\ ~held
     IN /\ store' = IF drops THEN [s EXCEPT !.known = FALSE, !.native = 0, !.capacity = 0] ELSE s
        /\ retired' = IF drops THEN retired \cup {[native |-> s.native, value |-> s.lastUse]}
                      ELSE retired
        /\ IF drops THEN Ended ELSE UNCHANGED threadVars
  /\ frames' = Submitted(frames)
  /\ EndsRecording
  /\ UNCHANGED <<held, sync, bytes>>

\* Refused before its submission or after it; the device is then waited for.
SubmitFails ==
  /\ Submittable /\ frames.next + 1 \in Values
  /\ \E f \in (IF Resolved
               THEN {Refused(frames)} \cup
                    (IF frames.backend = "metal" THEN {} ELSE {PresentFailed(frames)})
               ELSE {frames}) :
       \E g \in {Idled(f), IdledBadly(f)} : DropsBinding(g)
  /\ EndsRecording /\ Outlived
  /\ UNCHANGED <<held, sync, bytes>>

\* wait_idle reclaims what is retired against transfers.
WaitIdle ==
  /\ OwnerFree /\ frames.next \in Values
  /\ frames' = Idled(frames) /\ Outlived
  /\ UNCHANGED <<threadVars, held, sync, store, bytes, retired, recording>>

FrameEnds ==
  /\ frames.running # {}
  /\ frames' = OldestEnds(frames) /\ Outlived
  /\ UNCHANGED <<threadVars, held, sync, store, bytes, retired, recording>>

-----------------------------------------------------------------------------
\* The handles of this arena, and the first one that another arena gave.
Handles == issued \cup {HandleOf("other", 2, 1)}
UpToTwo(S) == {<<a>> : a \in S} \cup (S \X S)
Entries == [handle : Handles, value : Contents]

Next ==
  \/ \E count \in 1..2 : Reserve(count)
  \/ held /\ Unlocked /\ changes < MaxChanges /\ \E batch \in UpToTwo(Entries) : Set(batch)
  \/ held /\ Unlocked /\ changes < MaxChanges /\ \E handles \in UpToTwo(Handles) : Remove(handles)
  \/ Bind \/ Write
  \/ DropArena \/ Rebind
  \/ Begin \/ Draw \/ Abort \/ Submit \/ SubmitFails
  \/ WaitIdle \/ FrameEnds

Spec == Init /\ [][Next]_vars

-----------------------------------------------------------------------------
TypeOK ==
  /\ arena.slots \in Seq([generation : 1..MaxGeneration, occupied : BOOLEAN, value : Contents])
  /\ arena.free \in Seq(Nat) /\ arena.dirty \subseteq Slot /\ arena.slots # <<>>
  /\ held \in BOOLEAN
  /\ sync.at \in {"idle", "writing"} /\ sync.regions \subseteq Slot
  /\ store.native \in 0..MaxNative /\ store.capacity \in 0..Limit
  /\ store.lastUse \in 0..MaxValue

\* The dirty marks are sound: once a bind has given the lock back, every slot
\* that is not marked is in the buffer with its present value, whichever
\* threads reserved, set and removed elements before, and however the write of
\* an earlier bind failed.
CleanSlotsUploaded ==
  OwnerFree /\ store.native # 0 =>
    \A i \in Slot \ arena.dirty :
      i <= Len(bytes[store.native]) /\ bytes[store.native][i] = arena.slots[i].value

\* A frame on the GPU reads the elements as the last bind of its recording
\* left them: no later bind writes the buffer, and no growth or release
\* destroys it, before the frame ends.
FramesSeeBound ==
  \A v \in frames.running :
    uses[v].native # 0 =>
      /\ uses[v].native \notin frames.destroyed
      /\ \A i \in 1..Len(uses[v].sees) : bytes[uses[v].native][i] = uses[v].sees[i]

\* Handles are fresh: no reservation can hand out a handle of the past, which
\* somebody may still hold.
HandlesFresh ==
  \A i \in Slot :
    /\ ~arena.slots[i].occupied => HandleOf("this", i, arena.slots[i].generation) \notin issued
    /\ \A h \in issued : h.slot = i => h.generation <= arena.slots[i].generation
=============================================================================
