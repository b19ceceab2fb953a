-------------------------- MODULE TransientBuffers --------------------------
(***************************************************************************)
(* Per-frame buffers and counters of a context, and the staging buckets    *)
(* that feed them.  A transient is acquired while recording, from a pool   *)
(* or anew; written through a staged copy on the transfer queue; imported  *)
(* into the frame graph by the first draw that binds it, with the transfer *)
(* value it must wait for; and recycled into its pool when its frame is    *)
(* submitted.  One that was never drawn goes back through the transfer     *)
(* queue's list of retired allocations.                                    *)
(*                                                                         *)
(* Three clocks meet here: the owner thread, the transfer queue and the    *)
(* graphics queue.  Vulkan's bookkeeping of frames is NativeFrames.        *)
(***************************************************************************)
EXTENDS NativeFrames, Sequences, FiniteSetsExt

CONSTANTS
  Sizes,        \* capacities a transient may ask for
  PoolBudget,   \* retention ceiling of one pool
  Aggregate,    \* retention ceiling of all pools
  Failures,     \* which calls may fail: "alloc", "stage", "draw", "submit", "idle"
  MaxBuffers,   \* bound: native buffers ever made
  MaxCopies,    \* bound: copies ever submitted
  MaxSerial     \* bound: recordings ever begun

Pools == {"staging", "buffer", "counter"}
Kinds == {"buffer", "counter"}

ASSUME TransientAssumption ==
  /\ Sizes \subseteq Nat \ {0}
  /\ {PoolBudget, Aggregate, MaxBuffers, MaxCopies, MaxSerial} \subseteq Nat

VARIABLES
  capacity,     \* capacity of each native buffer made so far
  transients,   \* buffer -> [kind, usage]: usage 0 is Available, n Interned(n)
  ready,        \* buffer -> transfer value of its last recorded upload
  pools,        \* entries [pool, buffer, value]; value 0: no retirement
  retired,      \* [buffer, value] retired against a transfer value
  recording,    \* [active, serial, imported, nodes]
  frames,       \* the backend's frames
  copies, done, \* copies submitted, in order, and how many have completed
  uses,         \* history: what each submitted frame reads and waits for
  unawaited     \* history: copies no import will wait for

history == <<uses, unawaited>>
vars == <<capacity, transients, ready, pools, retired, recording, frames,
          copies, done, history>>
memory == [capacity |-> capacity, pools |-> pools, retired |-> retired,
           frames |-> frames, copies |-> copies]

Buffers == DOMAIN capacity
Available == {b \in DOMAIN transients : transients[b].usage = 0}
Interned == {b \in DOMAIN transients : transients[b].usage = recording.serial}
Without(f, gone) == [b \in DOMAIN f \ gone |-> f[b]]
With(f, b, value) == [x \in DOMAIN f \cup {b} |-> IF x = b THEN value ELSE f[x]]

Init ==
  /\ capacity = <<>> /\ transients = <<>> /\ ready = <<>>
  /\ pools = {} /\ retired = {}
  /\ recording = [active |-> FALSE, serial |-> 0, imported |-> <<>>, nodes |-> {}]
  /\ frames = NewFrames("vulkan") /\ copies = <<>> /\ done = 0 /\ uses = <<>>
  /\ unawaited = {}

\* What the calls change of the memory at hand.
Become(m) ==
  /\ capacity' = m.capacity /\ pools' = m.pools /\ retired' = m.retired
  /\ frames' = m.frames /\ copies' = m.copies

-----------------------------------------------------------------------------
\* Native allocations.

\* free: each allocation waits for the frames in flight.
FreeIn(f, gone) ==
  IF InFlight(f) = {} THEN Destroy(f, gone)
  ELSE [f EXCEPT !.deferred = @ \cup
          {[item |-> b, pending |-> InFlight(f), fence |-> 0] : b \in gone}]
Free(m, gone) == [m EXCEPT !.frames = FreeIn(@, gone)]

\* retire against the last recorded upload, or free at once.
Disposed(m, gone) ==
  LET written == gone \cap DOMAIN ready
  IN Free([m EXCEPT !.retired = @ \cup {[buffer |-> b, value |-> ready[b]] : b \in written}],
          gone \ written)

\* completed_transfer_native also frees what the transfer queue has passed.
TransferSeen(m) ==
  LET over == {x \in m.retired : x.value <= done}
  IN Free([m EXCEPT !.retired = @ \ over], {x.buffer : x \in over})

GraphicsSeen(m) == {[m EXCEPT !.frames = f] : f \in Polled(m.frames)}

Made(m, size) == [m EXCEPT !.capacity = Append(@, size)]
CanMake(m) == Len(m.capacity) < MaxBuffers

-----------------------------------------------------------------------------
\* Pools.

\* retirement_completed, on the timeline of the entry's pool.
Completed(m, e) ==
  e.value <= IF e.pool = "staging" THEN done ELSE CompletedValue(m.frames)

Room(m, e) == m.capacity[e.buffer]
Retained(m, entries) == MapThenSumSet(LAMBDA e : Room(m, e), entries)

\* The smallest completed bucket that fits.
Fitting(m, pool, size) ==
  {e \in m.pools : e.pool = pool /\ Room(m, e) >= size /\ Completed(m, e)}
Takeable(m, pool, size) ==
  {e \in Fitting(m, pool, size) :
     \A o \in Fitting(m, pool, size) : Room(m, e) <= Room(m, o)}

\* Completed buckets are evicted largest first until the rest fits.
Evictable(m, entries, budget) ==
  LET candidates == {e \in entries : Completed(m, e)}
      Left(gone) == Retained(m, entries \ gone)
  IN {gone \in SUBSET candidates :
        /\ \A e \in gone, o \in candidates \ gone : Room(m, o) <= Room(m, e)
        /\ Left(gone) <= budget \/ gone = candidates
        /\ gone # {} => \E e \in gone :
              /\ \A o \in gone : Room(m, e) <= Room(m, o)
              /\ Left(gone \ {e}) > budget}

\* trim_to_budget, of one pool or of all; what is evicted is freed.
Trimmed(m, entries, budget) ==
  {Free([m EXCEPT !.pools = @ \ gone], {e.buffer : e \in gone}) :
     gone \in Evictable(m, entries, budget)}
PoolTrimmed(m, pool) == Trimmed(m, {e \in m.pools : e.pool = pool}, PoolBudget)

\* The transfer queue is asked only under aggregate pressure.
AggregateTrimmed(m) ==
  IF Retained(m, m.pools) <= Aggregate THEN {m}
  ELSE Trimmed(TransferSeen(m), m.pools, Aggregate)

Entry(pool, buffer, value) == [pool |-> pool, buffer |-> buffer, value |-> value]

-----------------------------------------------------------------------------
\* stage_upload: the memory after an upload into b, with its transfer value,
\* or 0 when it failed.

Staged(m, bucket, b) ==
  LET token == Len(m.copies) + 1
  IN [to |-> [m EXCEPT !.copies = Append(@, [from |-> bucket, to |-> b]),
                       !.pools = @ \cup {Entry("staging", bucket, token)}],
      token |-> token]
\* A failed write or copy puts the bucket back with nothing to wait for.
PutBack(m, bucket) ==
  [to |-> [m EXCEPT !.pools = @ \cup {Entry("staging", bucket, 0)}], token |-> 0]

\* Either outcome for a bucket at hand.
Uploaded(m, bucket, b) ==
  (IF Len(m.copies) < MaxCopies THEN {Staged(m, bucket, b)} ELSE {}) \cup
  (IF "stage" \in Failures THEN {PutBack(m, bucket)} ELSE {})

Stage(m, b) ==
  UNION {LET reuse == Takeable(n, "staging", 1) IN
         IF reuse # {}
         THEN UNION {Uploaded([n EXCEPT !.pools = @ \ {e}], e.buffer, b) : e \in reuse}
         ELSE (IF CanMake(n) THEN Uploaded(Made(n, 1), Len(n.capacity) + 1, b) ELSE {})
              \cup (IF "stage" \in Failures THEN {[to |-> n, token |-> 0]} ELSE {})
         : n \in PoolTrimmed(TransferSeen(m), "staging")}

-----------------------------------------------------------------------------
\* Calls on transients.

\* The copy of an upload into a buffer the recording has already imported.
Late(b, r) ==
  IF r.token # 0 /\ recording.active /\ b \in DOMAIN recording.imported
  THEN {r.token} ELSE {}
Recorded(b, token) == ready' = IF token = 0 THEN ready ELSE With(ready, b, token)

\* acquire_buffer, acquire_counter.
Acquire(kind, size) ==
  /\ recording.active
  /\ \E m \in GraphicsSeen(memory) :
     \/ \E e \in Takeable(m, kind, size) :
          \E n \in PoolTrimmed([m EXCEPT !.pools = @ \ {e}], kind) :
          \E o \in AggregateTrimmed(n) :
            /\ Become(o)
            /\ transients' = With(transients, e.buffer, [kind |-> kind, usage |-> 0])
     \/ /\ Takeable(m, kind, size) = {}
        /\ \E n \in PoolTrimmed(m, kind) : \E o \in AggregateTrimmed(n) :
           \/ /\ CanMake(o) /\ Become(Made(o, size))
              /\ transients' = With(transients, Len(o.capacity) + 1,
                                    [kind |-> kind, usage |-> 0])
           \/ /\ "alloc" \in Failures /\ Become(o) /\ UNCHANGED transients
  /\ UNCHANGED <<ready, recording, done, history>>

\* write_buffer, write_counter_bytes: one upload.
Write(b) ==
  /\ b \in Available
  /\ \E r \in Stage(memory, b) :
       /\ Become(r.to) /\ Recorded(b, r.token)
       /\ unawaited' = unawaited \cup Late(b, r)
  /\ UNCHANGED <<transients, recording, done, uses>>

\* write_counter_commands: the count, then the commands; the value of the
\* second upload is the only one recorded.
WriteCommands(b) ==
  /\ b \in Available /\ transients[b].kind = "counter"
  /\ \E r \in Stage(memory, b) :
       IF r.token = 0 THEN Become(r.to) /\ UNCHANGED <<ready, unawaited>>
       ELSE \E s \in Stage(r.to, b) :
              /\ Become(s.to) /\ Recorded(b, s.token)
              /\ unawaited' = unawaited \cup Late(b, r) \cup Late(b, s) \cup
                               (IF s.token = 0 THEN {r.token} ELSE {})
  /\ UNCHANGED <<transients, recording, done, uses>>

\* Fault: an allocation is freed though an upload into it was recorded.
GoneUnretired(m, gone) == Free(m, gone)
Gone(m, gone) == Disposed(m, gone)

\* release_buffer, release_counter.
Release(b) ==
  /\ b \in Available
  /\ Become(Gone(memory, {b}))
  /\ transients' = Without(transients, {b}) /\ ready' = Without(ready, {b})
  /\ UNCHANGED <<recording, done, history>>

\* release_staging_memory.
ReleaseStaging ==
  /\ \E m \in GraphicsSeen(TransferSeen(memory)) :
     \E n1 \in PoolTrimmed(m, "staging") : \E n2 \in PoolTrimmed(n1, "buffer") :
     \E n3 \in PoolTrimmed(n2, "counter") : \E n4 \in AggregateTrimmed(n3) :
       n4 # memory /\ Become(n4)
  /\ UNCHANGED <<transients, ready, recording, done, history>>

-----------------------------------------------------------------------------
\* Frames.

\* frame_begin: what no draw has bound is given back.
Begin ==
  /\ ~recording.active /\ recording.serial < MaxSerial
  /\ Become(Gone(memory, Available))
  /\ transients' = Without(transients, Available)
  /\ ready' = Without(ready, Available)
  /\ recording' = [active |-> TRUE, serial |-> recording.serial + 1,
                   imported |-> <<>>, nodes |-> {}]
  /\ UNCHANGED <<done, history>>

\* The transfer value a buffer's readers will wait for, 0 when none.
ReadyOf(b) == IF b \in DOMAIN ready THEN ready[b] ELSE 0
\* Fault: a buffer is imported without the value its readers must wait for.
ImportedUnready(bound) ==
  [b \in DOMAIN recording.imported \cup bound |->
     IF b \in DOMAIN recording.imported THEN recording.imported[b] ELSE 0]
\* intern_buffer_resource: the first import of a frame is kept.
Imported(bound) ==
  [b \in DOMAIN recording.imported \cup bound |->
     IF b \in DOMAIN recording.imported THEN recording.imported[b] ELSE ReadyOf(b)]

\* mark_transient_interned
Marked(bound) ==
  [b \in DOMAIN transients |->
     IF b \in bound THEN [transients[b] EXCEPT !.usage = recording.serial]
     ELSE transients[b]]

\* A draw or dispatch that records its node.
Draw(bound) ==
  /\ recording.active /\ bound \subseteq DOMAIN transients
  /\ \A b \in bound : transients[b].usage \in {0, recording.serial}
  /\ recording' = [recording EXCEPT !.imported = Imported(bound),
                                    !.nodes = @ \cup bound]
  /\ transients' = Marked(bound)
  /\ UNCHANGED <<capacity, ready, pools, retired, frames, copies, done, history>>

\* A draw that fails after it has imported some of its buffers: a named vertex
\* heap that does not exist yet, a refused image.
DrawFails(bound) ==
  /\ "draw" \in Failures
  /\ recording.active /\ bound \subseteq DOMAIN transients
  /\ recording' = [recording EXCEPT !.imported = Imported(bound)]
  /\ UNCHANGED <<capacity, transients, ready, pools, retired, frames, copies,
                 done, history>>

\* recycle_consumed_transients
Recycled(m, value) ==
  [m EXCEPT !.pools = @ \cup {Entry(transients[b].kind, b, value) : b \in Interned}]

\* frame_submit: drawn transients go to their pools, the others are given back.
Submit ==
  /\ recording.active
  /\ CanPrepare(frames)
  /\ LET value == frames.next
         m == [memory EXCEPT !.frames = Submitted(@)]
         waits == {recording.imported[b] : b \in recording.nodes} \cup {0}
     IN /\ Become(Gone(Recycled(m, value), Available))
        /\ uses' = With(uses, value, [reads |-> recording.nodes,
                                      waits |-> Highest(waits)])
  /\ transients' = Without(transients, Interned \cup Available)
  /\ ready' = Without(ready, Interned \cup Available)
  /\ recording' = [recording EXCEPT !.active = FALSE]
  /\ UNCHANGED <<done, unawaited>>

\* rollback_transient_internment
RolledBack ==
  [b \in DOMAIN transients |->
     IF b \in Interned THEN [transients[b] EXCEPT !.usage = 0] ELSE transients[b]]

\* frame_abort, or a submission refused before any native work.
Abort ==
  /\ recording.active
  /\ transients' = RolledBack
  /\ recording' = [recording EXCEPT !.active = FALSE, !.imported = <<>>]
  /\ UNCHANGED <<capacity, ready, pools, retired, frames, copies, done, history>>

\* A native failure: with the device idle the recording is rolled back.
SubmitFails ==
  /\ "submit" \in Failures /\ recording.active /\ CanPrepare(frames)
  /\ frames' = [Idled(Refused(frames)) EXCEPT
                  !.destroyed = @ \cup {x.buffer : x \in retired}]
  /\ retired' = {} /\ done' = Len(copies)
  /\ transients' = RolledBack
  /\ recording' = [recording EXCEPT !.active = FALSE]
  /\ UNCHANGED <<capacity, ready, pools, copies, history>>

\* Without it, its transients are invalid and their memory is quarantined.
SubmitFailsBadly ==
  /\ "idle" \in Failures /\ recording.active /\ CanPrepare(frames)
  /\ frames' = IdledBadly(Refused(frames)) /\ done' = Len(copies)
  /\ transients' = Without(transients, Interned)
  /\ recording' = [recording EXCEPT !.active = FALSE]
  /\ UNCHANGED <<capacity, ready, pools, retired, copies, history>>

-----------------------------------------------------------------------------
\* The queues.

CopyEnds ==
  /\ done < Len(copies) /\ done' = done + 1
  /\ UNCHANGED <<capacity, transients, ready, pools, retired, recording,
                 frames, copies, history>>

\* A frame runs once the transfers it waits for have completed.
Started(v) == uses[v].waits <= done
FrameEnds ==
  /\ frames.running # {} /\ Started(Lowest(frames.running))
  /\ frames' = OldestEnds(frames)
  /\ UNCHANGED <<capacity, transients, ready, pools, retired, recording,
                 copies, done, history>>

Next ==
  \/ \E kind \in Kinds, size \in Sizes : Acquire(kind, size)
  \/ \E b \in DOMAIN transients : Write(b) \/ WriteCommands(b) \/ Release(b)
  \/ \E bound \in (SUBSET DOMAIN transients) \ {{}} : Draw(bound) \/ DrawFails(bound)
  \/ ReleaseStaging \/ Begin \/ Submit \/ Abort \/ SubmitFails \/ SubmitFailsBadly
  \/ CopyEnds \/ FrameEnds

Spec == Init /\ [][Next]_vars

-----------------------------------------------------------------------------
\* Properties.

Pending == (done + 1)..Len(copies)

\* No upload writes a buffer a submitted frame reads without that frame
\* waiting for it: a draw imports the last upload, a drawn buffer takes no
\* other, and a recycled one is written again only after its frame; and the host
\* rewrites no staging bucket whose copy has not run.  Two kinds
\* of copies escape: the first of a pair whose second was refused, and one into
\* a buffer imported by a draw that then failed.
SeesUploads(copied) ==
  \A v \in frames.running : \A i \in copied :
    i > uses[v].waits => copies[i].to \notin uses[v].reads
BytesKept == \A i, j \in Pending : copies[i].from = copies[j].from => i = j
FramesSeeUploads == BytesKept /\ SeesUploads(Pending \ unawaited)

\* No buffer is destroyed while a frame reads it or a copy still to run reads
\* or writes it, whichever way it was given back; the same copies excepted.
NothingFreedInUse ==
  /\ \A v \in frames.running : uses[v].reads \cap frames.destroyed = {}
  /\ \A i \in Pending \ unawaited :
       {copies[i].from, copies[i].to} \cap frames.destroyed = {}

\* A native buffer has one owner at most: a transient, a pool, the transfer
\* queue's retired list, or the frames its destruction waits for.
Owners(b) ==
  {"transient" : x \in {b} \cap DOMAIN transients}
  \cup {e : e \in {x \in pools : x.buffer = b}}
  \cup {r : r \in {x \in retired : x.buffer = b}}
  \cup {d : d \in {x \in frames.deferred : x.item = b}}
  \cup {"destroyed" : x \in {b} \cap frames.destroyed}
OwnedOnce == \A b \in Buffers : Cardinality(Owners(b)) <= 1

\* A buffer is disposed of by one owner, after its last use.
DisposedSafely == OwnedOnce /\ NothingFreedInUse
=============================================================================
