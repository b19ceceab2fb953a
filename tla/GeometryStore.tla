---------------------------- MODULE GeometryStore ----------------------------
(***************************************************************************)
(* Geometry of a context: heaps on native buffers, uploads that may grow a *)
(* heap, allocations and heaps dropped at any time, frames that are        *)
(* recorded, submitted, aborted or fail, and the two queues of the GPU.    *)
(*                                                                         *)
(* The owner thread is sequential.  A call that reclaims first             *)
(* (reclaim_retired_geometry) is a sweep, one retired thing per step,      *)
(* followed by its body; the completed values are those the call read.     *)
(***************************************************************************)
EXTENDS NativeFrames, Sequences, GeometryHeap

CONSTANTS
  Names,         \* vertex heaps
  Index,         \* the index heap: made by its first upload, never dropped
  Stride,        \* element size of each heap
  Capacity,      \* first capacity of a heap
  Counts,        \* elements of an upload into each heap
  MaxHandle,     \* bound: allocations ever made (a refused one leaves no trace)
  MaxNative,     \* bound: buffers ever made
  MaxCopies,     \* bound: native copies ever made
  MaxValue,      \* bound: frame values handed out
  MaxSerial      \* bound: recordings ever begun

Heaps == Names \cup {Index}

ASSUME GeometryAssumption ==
  /\ Index \notin Names
  /\ Stride \in [Heaps -> Nat \ {0}] /\ Counts \in [Heaps -> SUBSET (Nat \ {0})]
  /\ Capacity \in Nat \ {0}
  /\ {MaxHandle, MaxNative, MaxCopies, MaxValue, MaxSerial} \subseteq Nat

VARIABLES
  heaps,         \* ranges of each heap (GeometryManager)
  storage,       \* [native, ready]: buffer and latest token; native 0: none
  tokens,        \* geometry_last_transfer: latest upload of a held allocation
  nextHandle, nextNative,
  retired,       \* [natives, ranges, heaps] that wait to be reclaimed
  sweep,         \* the call under way
  recording,     \* [active, serial, imported, drawn]
  frames,        \* the backend's frames (Vulkan)
  copies, done,  \* native copies submitted, and how many have completed
  uses,          \* history: what each running frame reads and waits for
  givenUp        \* history: recordings whose drops are quarantined

owner == <<heaps, storage, tokens, nextHandle, nextNative, retired>>
vars == <<owner, sweep, recording, frames, copies, done, uses, givenUp>>

Values == 1..MaxValue
Handles == 1..MaxHandle
Bytes(n, count) == count * Stride[n]
NoStorage == [native |-> 0, ready |-> 0]
NotImported == [is |-> FALSE, ready |-> 0, mark |-> 0]
NoFrame == [reads |-> {}, waits |-> 0]
Idle == [op |-> "none", heap |-> Index, arg |-> 0, seen |-> 0]

HeapOf(handle) == CHOOSE n \in Heaps : \E r \in heaps[n].live : r.handle = handle
RangeOf(handle) == CHOOSE r \in heaps[HeapOf(handle)].live : r.handle = handle
Held == {h \in Handles : tokens[h] # 0}

Init ==
  /\ heaps = [n \in Heaps |-> NoHeap] /\ storage = [n \in Heaps |-> NoStorage]
  /\ tokens = [h \in Handles |-> 0] /\ nextHandle = 1 /\ nextNative = 1
  /\ retired = [natives |-> {}, ranges |-> {}, heaps |-> {}]
  /\ sweep = Idle
  /\ recording = [active |-> FALSE, serial |-> 0,
                  imported |-> [n \in Heaps |-> NotImported], drawn |-> {}]
  /\ frames = NewFrames("vulkan") /\ copies = <<>> /\ done = 0
  /\ uses = [v \in Values |-> NoFrame] /\ givenUp = {}

-----------------------------------------------------------------------------
\* reclaim_retired_geometry.

\* The call reads what has completed, unless nothing is retired.
Sweep(op, n, arg) ==
  /\ sweep' = [op |-> op, heap |-> n, arg |-> arg, seen |-> done]
  /\ frames' \in IF retired.natives = {} /\ retired.ranges = {} THEN {frames}
                 ELSE Polled(frames)

\* Fault: an outgrown buffer does not wait for the copy out of it.
NativeReadyUncopied(x) == x.graphics <= frames.completed
NativeReady(x) == x.transfer <= sweep.seen /\ x.graphics <= frames.completed
\* Fault: a range dropped while recording does not wait for the recording.
RangeReadyRecording(x) ==
  x.transfer <= sweep.seen /\ x.graphics <= frames.completed
RangeReady(x) ==
  x.serial = 0 /\ x.transfer <= sweep.seen /\ x.graphics <= frames.completed

ReclaimNative(x) ==
  /\ x \in retired.natives /\ NativeReady(x)
  /\ frames' = Defer(frames, x.native)
  /\ retired' = [retired EXCEPT !.natives = @ \ {x}]
  /\ UNCHANGED <<heaps, storage, tokens, nextHandle, nextNative, sweep,
                 recording, copies, done, uses, givenUp>>

ReclaimRange(x) ==
  /\ ~\E y \in retired.natives : NativeReady(y)
  /\ x \in retired.ranges /\ RangeReady(x)
  /\ \E n \in Heaps : \E r \in heaps[n].live :
       /\ r.handle = x.handle
       /\ heaps' = [heaps EXCEPT ![n] = Released(@, r)]
  /\ retired' = [retired EXCEPT !.ranges = @ \ {x}]
  /\ UNCHANGED <<storage, tokens, nextHandle, nextNative, sweep, recording,
                 frames, copies, done, uses, givenUp>>

\* The sweep has nothing more to free in the first two lists.
RangesSwept ==
  /\ ~\E x \in retired.natives : NativeReady(x)
  /\ ~\E x \in retired.ranges : RangeReady(x)

ReclaimHeap(x) ==
  /\ RangesSwept
  /\ x \in retired.heaps /\ heaps[x.name].live = {}
  /\ heaps' = [heaps EXCEPT ![x.name] = NoHeap]
  /\ frames' = Defer(frames, x.native)
  /\ retired' = [retired EXCEPT !.heaps = @ \ {x}]
  /\ UNCHANGED <<storage, tokens, nextHandle, nextNative, sweep, recording,
                 copies, done, uses, givenUp>>

Swept ==
  /\ sweep.op # "none"
  /\ RangesSwept /\ ~\E x \in retired.heaps : heaps[x.name].live = {}

Reclaim ==
  /\ sweep.op # "none"
  /\ \/ \E x \in retired.natives : ReclaimNative(x)
     \/ \E x \in retired.ranges : ReclaimRange(x)
     \/ \E x \in retired.heaps : ReclaimHeap(x)

\* The call returns.
Return ==
  /\ Swept /\ sweep.op = "return"
  /\ sweep' = Idle
  /\ UNCHANGED <<owner, recording, frames, copies, done, uses, givenUp>>

-----------------------------------------------------------------------------
\* Heaps.

CreateHeap(n) ==
  /\ sweep.op = "none" /\ storage[n].native = 0 /\ nextNative <= MaxNative
  /\ Sweep("create", n, 0)
  /\ UNCHANGED <<owner, recording, copies, done, uses, givenUp>>

\* A name whose old heap still waits for its ranges is refused.
CreateBody ==
  /\ Swept /\ sweep.op = "create"
  /\ sweep' = Idle
  /\ LET n == sweep.heap
     IN IF Exists(heaps[n])
        THEN UNCHANGED owner
        ELSE /\ heaps' = [heaps EXCEPT ![n] = NewHeap(Capacity)]
             /\ storage' = [storage EXCEPT ![n] = [native |-> nextNative, ready |-> 0]]
             /\ nextNative' = nextNative + 1
             /\ UNCHANGED <<tokens, nextHandle, retired>>
  /\ UNCHANGED <<recording, frames, copies, done, uses, givenUp>>

DropHeap(n) ==
  /\ sweep.op = "none" /\ storage[n].native # 0
  /\ Sweep("drop", n, 0)
  /\ UNCHANGED <<owner, recording, copies, done, uses, givenUp>>

\* VertexHeapInner::drop asks once; a heap the last recording imported stays.
DropBody ==
  /\ Swept /\ sweep.op = "drop"
  /\ sweep' = Idle
  /\ LET n == sweep.heap
         native == storage[n].native
     IN \/ /\ recording.imported[n].is
           /\ UNCHANGED <<owner, frames>>
        \/ /\ ~recording.imported[n].is /\ heaps[n].live = {}
           /\ heaps' = [heaps EXCEPT ![n] = NoHeap]
           /\ storage' = [storage EXCEPT ![n] = NoStorage]
           /\ frames' = Defer(frames, native)
           /\ UNCHANGED <<tokens, nextHandle, nextNative, retired>>
        \/ /\ ~recording.imported[n].is /\ heaps[n].live # {}
           /\ storage' = [storage EXCEPT ![n] = NoStorage]
           /\ retired' = [retired EXCEPT !.heaps = @ \cup {[name |-> n, native |-> native]}]
           /\ UNCHANGED <<heaps, tokens, nextHandle, nextNative, frames>>
  /\ UNCHANGED <<recording, copies, done, uses, givenUp>>

-----------------------------------------------------------------------------
\* Uploads.

\* The copy of an upload, or of a heap into its replacement (handle 0).
Copy(handle, src, dst) == [handle |-> handle, src |-> src, dst |-> dst]

\* Fault: a heap keeps the token of an earlier upload.
StagedReadyKept(ready, token) == IF ready = 0 THEN token ELSE ready
StagedReady(ready, token) == token

\* stage_upload succeeds: the allocation is live and its token recorded.
Stage(n, h, handle, before, native) ==
  LET token == Len(before) + 1
  IN /\ heaps' = [heaps EXCEPT ![n] = h]
     /\ copies' = Append(before, Copy(handle, 0, native))
     /\ storage' = [storage EXCEPT ![n] =
          [native |-> native, ready |-> StagedReady(@.ready, token)]]
     /\ tokens' = [tokens EXCEPT ![handle] = token]
     /\ nextHandle' = nextHandle + 1

\* It fails: the range goes back, a heap that grew stays grown.
StageFails(n, h, handle, before, native, ready) ==
  /\ heaps' = [heaps EXCEPT ![n] =
       Released(h, CHOOSE r \in h.live : r.handle = handle)]
  /\ copies' = before
  /\ storage' = [storage EXCEPT ![n] = [native |-> native, ready |-> ready]]
  /\ UNCHANGED <<tokens, nextHandle>>

\* Into a free range.
Upload(n, count) ==
  /\ sweep.op = "none" /\ storage[n].native # 0
  /\ nextHandle \in Handles /\ Len(copies) < MaxCopies
  /\ Fits(heaps[n], Bytes(n, count)) # {}
  /\ LET h == Reserved(heaps[n], nextHandle, Bytes(n, count))
     IN \/ Stage(n, h, nextHandle, copies, storage[n].native)
        \/ StageFails(n, h, nextHandle, copies, storage[n].native, storage[n].ready)
  /\ UNCHANGED <<nextNative, retired, sweep, recording, frames, done, uses, givenUp>>

\* ensure_index_heap, and the upload into the heap it makes.
UploadFirstIndex(count) ==
  /\ sweep.op = "none" /\ storage[Index].native = 0 /\ nextNative <= MaxNative
  /\ nextHandle \in Handles /\ Len(copies) < MaxCopies
  /\ nextNative' = nextNative + 1
  /\ LET bytes == Bytes(Index, count)
         new == NewHeap(IF Capacity >= bytes THEN Capacity ELSE bytes)
         h == Reserved(new, nextHandle, bytes)
     IN \/ Stage(Index, h, nextHandle, copies, nextNative)
        \/ StageFails(Index, h, nextHandle, copies, nextNative, 0)
  /\ UNCHANGED <<retired, sweep, recording, frames, done, uses, givenUp>>

\* Nothing fits: the heap grows, unless the last recording imported it.
UploadGrowing(n, count) ==
  /\ sweep.op = "none" /\ storage[n].native # 0
  /\ nextHandle \in Handles /\ nextNative <= MaxNative /\ Len(copies) + 1 < MaxCopies
  /\ Fits(heaps[n], Bytes(n, count)) = {}
  /\ IF recording.imported[n].is THEN UNCHANGED <<sweep, frames>>
     ELSE Sweep("grow", n, count)
  /\ UNCHANGED <<owner, recording, copies, done, uses, givenUp>>

\* grow_storage after its sweep, which may have freed enough: it grows anyhow.
\* The replacement may not be had; the copy into it cannot be refused here
\* without the same outcome.
GrowBody ==
  /\ Swept /\ sweep.op = "grow"
  /\ sweep' = Idle
  /\ LET n == sweep.heap
         handle == nextHandle
         bytes == Bytes(n, sweep.arg)
         grown == Grown(heaps[n], GrownCapacity(heaps[n].capacity, bytes))
         h == Reserved(grown, handle, bytes)
         moved == Append(copies, Copy(0, storage[n].native, nextNative))
     IN \/ UNCHANGED <<owner, copies>>
        \/ /\ nextNative' = nextNative + 1
           /\ retired' = [retired EXCEPT !.natives = @ \cup
                {[native |-> storage[n].native, transfer |-> Len(moved),
                  graphics |-> LastFrame(frames)]}]
           /\ \/ Stage(n, h, handle, moved, nextNative)
              \/ StageFails(n, h, handle, moved, nextNative, Len(moved))
  /\ UNCHANGED <<recording, frames, done, uses, givenUp>>

-----------------------------------------------------------------------------
\* Dropping an allocation.

Remove(handle) ==
  /\ sweep.op = "none" /\ handle \in Held
  /\ Sweep("remove", HeapOf(handle), handle)
  /\ UNCHANGED <<owner, recording, copies, done, uses, givenUp>>

RemoveBody ==
  /\ Swept /\ sweep.op = "remove"
  /\ LET handle == sweep.arg
     IN /\ tokens' = [tokens EXCEPT ![handle] = 0]
        /\ retired' = [retired EXCEPT !.ranges = @ \cup
             {[handle |-> handle, transfer |-> tokens[handle],
               serial |-> IF recording.active THEN recording.serial ELSE 0,
               graphics |-> LastFrame(frames)]}]
  /\ sweep' = [sweep EXCEPT !.op = "return", !.seen = done]
  /\ frames' \in Polled(frames)
  /\ UNCHANGED <<heaps, storage, nextHandle, nextNative, recording, copies, done, uses, givenUp>>

-----------------------------------------------------------------------------
\* Frames.

Begin ==
  /\ sweep.op = "none" /\ ~recording.active /\ recording.serial < MaxSerial
  /\ recording' = [active |-> TRUE, serial |-> recording.serial + 1,
                   imported |-> [n \in Heaps |-> NotImported], drawn |-> {}]
  /\ UNCHANGED <<owner, sweep, frames, copies, done, uses, givenUp>>

\* A draw imports its heap once, with the token the heap had then.
Draw(handle) ==
  /\ sweep.op = "none" /\ recording.active /\ handle \in Held
  /\ LET n == HeapOf(handle)
         r == RangeOf(handle)
     IN /\ storage[n].native # 0
        /\ recording' = [recording EXCEPT
             !.imported[n] =
               IF @.is THEN @
               ELSE [is |-> TRUE, ready |-> storage[n].ready, mark |-> Len(copies)],
             !.drawn = @ \cup {[handle |-> handle, heap |-> n, at |-> r.at,
                                size |-> r.size, upload |-> tokens[handle]]}]
  /\ UNCHANGED <<owner, sweep, frames, copies, done, uses, givenUp>>

\* Fault: the drops of a recording are not finalised.
FinalizedNever(completion) == retired
\* finalize_recording_range_drops: ranges dropped in this recording now wait
\* for the given frame.
Finalized(completion) ==
  [retired EXCEPT !.ranges =
     {IF x.serial = recording.serial
      THEN [x EXCEPT !.serial = 0, !.graphics = completion] ELSE x : x \in @}]

Ended == [recording EXCEPT !.active = FALSE, !.drawn = {}]

\* The frame reads the buffers the heaps have now, and waits for the latest
\* token found at import.
FrameOf ==
  [reads |-> {[handle |-> d.handle, native |-> storage[d.heap].native, at |-> d.at,
               size |-> d.size, upload |-> d.upload,
               mark |-> recording.imported[d.heap].mark] : d \in recording.drawn},
   waits |-> Highest({0} \cup {recording.imported[n].ready : n \in Heaps})]

\* frame_submit that succeeds, with the sweep of its finalisation.
Submit ==
  /\ sweep.op = "none" /\ recording.active
  /\ frames.next \in Values /\ CanPrepare(frames)
  /\ recording' = Ended
  /\ uses' = [uses EXCEPT ![frames.next] = FrameOf]
  /\ retired' = Finalized(frames.next)
  /\ frames' \in Polled(Submitted(frames))
  /\ sweep' = [Idle EXCEPT !.op = "return", !.seen = done]
  /\ UNCHANGED <<heaps, storage, tokens, nextHandle, nextNative, copies, done, givenUp>>

\* It fails before anything native, or the recording is aborted.
Abort ==
  /\ sweep.op = "none" /\ recording.active
  /\ \E kept \in {recording.imported, [n \in Heaps |-> NotImported]} :
       recording' = [Ended EXCEPT !.imported = kept]
  /\ retired' = Finalized(LastFrame(frames))
  /\ frames' \in Polled(frames)
  /\ sweep' = [Idle EXCEPT !.op = "return", !.seen = done]
  /\ UNCHANGED <<heaps, storage, tokens, nextHandle, nextNative, copies, done, uses, givenUp>>

\* The native frame fails, and the context waits idle.
SubmitFails ==
  /\ sweep.op = "none" /\ recording.active
  /\ frames.next + 1 \in Values /\ CanPrepare(frames)
  /\ recording' = Ended
  /\ frames' \in {Idled(Refused(frames)), Idled(PresentFailed(frames))}
  /\ done' = Len(copies)
  /\ retired' = Finalized(LastFrame(frames))
  /\ sweep' = [Idle EXCEPT !.op = "return", !.seen = Len(copies)]
  /\ UNCHANGED <<heaps, storage, tokens, nextHandle, nextNative, copies, uses, givenUp>>

\* Neither works: what was dropped in the recording is given up.
SubmitFailsBadly ==
  /\ sweep.op = "none" /\ recording.active
  /\ frames.next \in Values /\ CanPrepare(frames)
  /\ recording' = Ended
  /\ frames' = IdledBadly(Refused(frames))
  /\ givenUp' = givenUp \cup {recording.serial}
  /\ UNCHANGED <<owner, sweep, copies, done, uses>>

-----------------------------------------------------------------------------
\* The GPU: copies in order, frames in order and after the copies they wait for.
\* A call reads what has completed when it begins, so what ends during a call
\* may as well end before or after it.

CopyCompletes ==
  /\ sweep.op = "none"
  /\ done < Len(copies) /\ done' = done + 1
  /\ UNCHANGED <<owner, sweep, recording, frames, copies, uses, givenUp>>

FrameEnds ==
  /\ sweep.op = "none"
  /\ frames.running # {} /\ uses[Lowest(frames.running)].waits <= done
  /\ frames' = OldestEnds(frames)
  /\ uses' = [uses EXCEPT ![Lowest(frames.running)] = NoFrame]
  /\ UNCHANGED <<owner, sweep, recording, copies, done, givenUp>>

Poll ==
  /\ sweep.op = "none"
  /\ frames' \in Polled(frames)
  /\ UNCHANGED <<owner, sweep, recording, copies, done, uses, givenUp>>

Next ==
  \/ Reclaim \/ Return
  \/ \E n \in Names : CreateHeap(n) \/ DropHeap(n)
  \/ CreateBody \/ DropBody
  \/ \E n \in Heaps : \E count \in Counts[n] : Upload(n, count) \/ UploadGrowing(n, count)
  \/ \E count \in Counts[Index] : UploadFirstIndex(count)
  \/ GrowBody
  \/ \E handle \in Handles : Remove(handle) \/ Draw(handle)
  \/ RemoveBody
  \/ Begin \/ Submit \/ Abort \/ SubmitFails \/ SubmitFailsBadly
  \/ CopyCompletes \/ FrameEnds \/ Poll

Spec == Init /\ [][Next]_vars
-----------------------------------------------------------------------------
\* The free and the live ranges of every heap divide it exactly, and free space
\* is not cut into neighbours, through uploads, refused uploads, growth, drops
\* and reclamation in any order.
HeapsExact == \A n \in Heaps : Exact(heaps[n])

NativeOf(n) ==
  IF storage[n].native # 0 THEN storage[n].native
  ELSE (CHOOSE x \in retired.heaps : x.name = n).native

\* What the frames on the GPU and the recording read.
Reads ==
  (UNION {uses[v].reads : v \in frames.running})
    \cup {[handle |-> d.handle, native |-> storage[d.heap].native, at |-> d.at,
           size |-> d.size] : d \in recording.drawn}

\* Bytes that a running frame or the recording reads are not handed to another
\* allocation, however the allocation was dropped (retired_range_graphics).
RangeKeptWhileRead ==
  \A x \in Reads, n \in Heaps : \A r \in heaps[n].live :
    NativeOf(n) = x.native /\ r.handle # x.handle => Apart(r, x)

\* No buffer is destroyed while a frame or the recording reads it, a copy
\* reads it, or an upload writes it.
NativesOutlive ==
  /\ \A x \in Reads : x.native # 0 /\ x.native \notin frames.destroyed
  /\ \A c \in (done + 1)..Len(copies) :
       /\ copies[c].src \notin frames.destroyed
       /\ copies[c].handle # 0 => copies[c].dst \notin frames.destroyed

\* Nothing dropped is lost.  Every buffer ever made is in one place: a heap, one
\* of the retired lists, the backend's deferred list, or destroyed.
BuffersKept ==
  \A b \in 1..(nextNative - 1) :
    Cardinality({n \in Heaps : storage[n].native = b})
      + Cardinality({x \in retired.natives : x.native = b})
      + Cardinality({x \in retired.heaps : x.native = b})
      + Cardinality({d \in frames.deferred : d.item = b})
      + Cardinality({b} \cap frames.destroyed) = 1

\* A dropped allocation is retired once and waits for a copy and a frame that
\* exist or for the present recording; only an end that could not wait idle
\* gives it up.
RangesKept ==
  /\ \A n \in Heaps : \A r \in heaps[n].live :
       tokens[r.handle] = 0 =>
         Cardinality({x \in retired.ranges : x.handle = r.handle}) = 1
  /\ \A x \in retired.ranges :
       /\ x.transfer <= Len(copies) /\ x.graphics <= LastFrame(frames)
       /\ \E n \in Heaps : \E r \in heaps[n].live : r.handle = x.handle
       /\ x.serial # 0 =>
            x.serial \in givenUp \/ (recording.active /\ x.serial = recording.serial)

\* All of this, and a heap without its buffer is one that was dropped.
RetiredWillReturn ==
  /\ BuffersKept /\ RangesKept
  /\ \A n \in Heaps :
       Exists(heaps[n]) <=> storage[n].native # 0 \/ \E x \in retired.heaps : x.name = n

\* A frame waits for every upload that its draws read and that came before the
\* heap was imported, also across growth, which replaces the token.
EarlierUploadsAwaited ==
  \A v \in frames.running : \A x \in uses[v].reads :
    x.upload <= uses[v].waits \/ x.upload > x.mark
=============================================================================
