# Verification of ez_gfx_api2

TLA+ models of the concurrent and stateful core of `ez_gfx_api2`, a Rust
graphics layer over Vulkan, DirectX 12 and Metal: modules translated from the
source, TLC configurations that check them on small instances, and proofs that
TLAPS checks for every value of the constants. Paths are relative to the
repository's `crates/`; a bare `texture.rs`, `context.rs`, `frame/...` is in
`ez-gfx/src/state/`, `pipeline/mod.rs` in `ez-gfx-texture-manager/src/`.

## 1. Inventory

### 1.1 The system

An application owns a *context* (`ez-gfx`), which is bound to the thread that
created it: every public call looks the context up in a thread-local table
(`with_context_mut`), runs to its end, and, when it ends in `DeviceLost`, sweeps
the context (`note_device_lost`). What runs beside that thread:

- a **transfer-owner thread** per device (`ez-gfx-hal/src/transfer/worker.rs`)
  that batches uploads into native submissions, and whose callback (one per
  backend) records and submits copies;
- a **decode pool** of worker threads (`decode_driver.rs`);
- the **GPU queues**: a graphics queue with `FRAMES_IN_FLIGHT` slots, a copy
  queue, their timelines, and the presentation engine;
- application threads that share a `GpuArena`, and C callbacks.

| Component | State it keeps | Operations | What makes it correct | Hard because |
|---|---|---|---|---|
| Transfer worker | channel, accepted watermark, poison latches, submission state | submit, submit_batch, flush, flush_through, shutdown; receive, gather, submit, fail, drain, exit | FIFO; a wait covers what preceded it; no call hangs; failure is sticky and named | threads, lock-free latches, condition variable, reply channels dropped half way |
| Frame slots of a backend | slots, fences, deferred objects | prepare, submit, refuse, read back, free, wait | nothing destroyed under a frame; completion is a prefix | completion learned late, failed presents |
| Texture slot registry | generational slots, free list, pending mip targets | begin, mark, poll, require, cancel, retire, release, unload | handles never repeat; withheld slots stay withheld; no slot leaks | stale handles, saturated generations |
| Texture pipeline and calls | pending, order, decoded, submitted, fine, ready, published, two ledgers; retired textures, events | load, cancel, unload, residency, region update, poll, wait_idle, draw gate | each reservation ends once; readiness only when resident; frames wait for what they sample | decodes finish in any order; every step can fail; loss at any step |
| Geometry heap | ordered ranges, retired ranges and buffers, growth | allocate, upload, drop, grow, reclaim | live ranges disjoint; freed after last use | release during a recording, growth copies |
| Buffers, transients, staging pools | per-frame buffers, three pools, two timelines | acquire, write, draw, submit, recycle, evict | nothing reused under its queue | failed stagings and draws |
| `GpuArena` | slots, free list, dirty marks; its buffer | reserve, set, remove, bind, drop | clean slots are uploaded; handles fresh; frames read what was bound | threads between two halves of a bind |
| Frame recorder, render graph | nodes, dependencies, templates | add, compile, submit, reset | conflicting accesses ordered; states established; cache invisible | combinations of ranges, queues, passes |
| Targets and images of a frame | state a target is left in; imports of a recording | attach, draw, copy, sample, read back, destroy | barriers start from the truth; contents last | failed submissions, two layers of state |
| Native transfers | worker slots, staging blocks, mip states, two queues | admit, release, copy, acquire, wake | hand-overs match; memory reused when idle; nobody waits for ever | three submissions per batch on two queues |
| Surfaces, swapchain | surface records, one swapchain, semaphores, depth | begin, submit, present, resize, destroy | nothing destroyed in use; semaphores free when signaled | failures between acquire and present |
| Lifecycle, events, diagnostics, C interface | contexts, bounded queues, callbacks | create, configure, lose, destroy, dispatch | loss sticky; events delivered | re-entrancy |
| Decoders, compiler, artifacts, assets, tools | none | pure conversion | conversion right | - |

How they interact: the texture calls drive the pipeline through one *pump*
(`pump_async_textures`); the pipeline calls the decode pool (bounded jobs,
results by channel), the registry (slots), the shared ledgers and the backend
(native storage, mip transfer values, descriptors); the backend hands copies to
the transfer worker, whose callback submits them on the copy queue. Recording a
draw calls the texture gate, imports heaps, transients, arenas and targets into
the frame graph with the transfer values they wait for; submission compiles the
graph, lowers it to the backend's frame plan, and hands the objects it uses to
the frame's slot; freeing an object defers its destruction past the slots in
flight.

`PROJECT.json` lists every component with its status and what its note leaves
out.

### 1.2 Order of the work

What is concurrent and holds GPU memory came first: worker, registry and
pipeline, then frames in flight and the geometry heap, transients, the graph,
images, native transfers, presentation, arenas. Proofs follow the same order.
Left for later: `TexturePipeline`, `NativeTransfer`, `FrameImages` and
`FrameRecorder` have no theorems of their own; the C interface and the teardown
of a context have no module (section 5 says what a draft of the first showed).

## 2. The modules

A module per component, one action per operation or per step that another party
can see; `MC...` modules give the constants values. Modules of pure operators
on a record (`TextureSlots`, `NativeFrames`, `GeometryHeap`, `GraphCompiler`)
are shared by the machines that use them: a machine EXTENDS the operators it
composes, so the same translation is checked in each context.

```
TextureSlots  <- TextureRegistry            <- TextureRegistryProofs
              <- TexturePipeline
NativeFrames  <- NativeFramesProofs (lemmas)
              <- FrameCompletion            <- FrameCompletionProofs
              <- GeometryStore (+ GeometryHeap) <- GeometryStoreProofs
              <- TransientBuffers           <- FrameGraphProofs
              <- GpuArena                   <- GpuArenaProofs
GraphCompiler <- FrameRecorder, FrameImages, FrameGraphProofs
TransferWorker (implements SubmissionLog)   <- TransferWorkerProofs
NativeTransfer
Presentation                                <- PresentationProofs
```

### 2.1 `TransferWorker`, `SubmissionLog`

One step is one indivisible access to shared state. A caller's program counter
`pc[c]` names the access it is about to make: `sending` is inside the critical
section of `accepted` (`submit_batch`), `flushSend`/`flushWait` a flush around
its channel send and its reply, `ftLock ... ftWoken` the monitor loop of
`flush_through` with `Condvar::wait` split into release, wake (also spurious)
and re-lock. The owner's `wpc` follows the loop: receive (a carried job first),
gather until the policy or an empty channel ends the batch, native submit,
publish, acknowledge; on failure latch `lost`, latch `failed`, wake, drain, drop
the inbox, and the two halves of `WorkerExit::drop`. The channel is one sequence
`inbox`; a bundle is expanded in place. A job's id is its position in `admitted`
(history), `mark` is history too.

`SubmissionLog` says what callers may rely on: an append-only log, a submitted
prefix that grows, bundles that enter whole, waits that succeed only when
covered, calls under way that fail only once the worker has ended.
`ImplementsLog` is that specification under the mapping *done = Len(log)*,
*ended = the loop left with an error*, *busy = callers inside a call*.

### 2.2 `NativeFrames`, `FrameCompletion`

`NativeFrames` is how the three backends track frames in flight and defer
destruction, as operators on a record: Vulkan and Metal keep a flag per slot and
a slot mask per deferred object, DirectX 12 compares fence values. `running`, the
frames whose GPU work has not ended, is the truth a backend only learns by
asking. `FrameCompletion` is a backend under its owner: frames submitted,
refused, read back, failed to present; objects freed at any time; the GPU ends
frames when it likes.

### 2.3 `TextureSlots`, `TextureRegistry`

`TextureSlots` holds the operations of `registry.rs` as operators on a registry
record (`Can...` for the early returns, the operation for its effect).
`TextureRegistry` lets the owner call any operation with any handle ever issued;
`issued`, `withheld` and `uploads` are history. The generation saturates at
`MaxGeneration` as `checked_add` does at `u32::MAX` in the code.

### 2.4 `TexturePipeline`

The owner thread is sequential: a call (`call`) is a list of stages still to run
(`todo`); `Pump` is `pump_async_textures` stage by stage. Between any two steps a
decode may finish (`DecodeFinish`), the transfer timeline may advance
(`TransferComplete`), the frame may end (`FrameFinish`), the device may die
(`DeviceDies`): these are all the points at which the owner reads something
another party writes. A call that fails empties `todo`; one that ends in
`DeviceLost` sweeps (`Lose`).

`manager` is the owner's state: the maps of the pipeline, the registry, the two
ledgers, retired textures and bindings, events. `native[h]` is the transfer value
of each mip. Handles are load numbers, mips are ranks (1 the coarsest), bytes are
reservations. `recording` holds the textures interned and the waits found at the
draws, `frame` what the submitted frame waits for and what it may sample.

Left out: telemetry and runtime records (nothing reads them); the `SourceStaged`
event (always first); handle exhaustion (the registry's model has it);
`REQUIRED_MIPS_FULL` (a requirement equal to the chain); branches no call
reaches; teardown; a second frame in flight (the descriptor gate waits for all of
them alike).

### 2.5 `GeometryHeap`, `GeometryStore`

`GeometryHeap` is the range allocator (first fit, split, joining of neighbours)
on sets of ranges. `GeometryStore` adds native buffers, the upload queue, growth
with its copy, handles dropped at any time, heaps dropped, recordings that import
heaps, frames that are submitted, aborted or fail, and reclamation as a sweep of
one retired thing per step with the completed values the call read.

### 2.6 `TransientBuffers`

Counter and indirect buffers, persistent and transient; three pools of retained
buckets on two timelines (`put`, `take`, eviction by pool budget and by the
aggregate budget); staged uploads that may fail at each step; imports by draws
with the transfer value they wait for; recycling at submission; quarantine after
a failure. Reachable through the raw and C calls: the safe facade poisons a frame
at its first error and reaches less.

### 2.7 `GraphCompiler`, `FrameRecorder`

`GraphCompiler` is the compiler as operators: ranges and their fragments,
validation, order, state tracking per subresource, waits, transitions, pass
merging, the command plan. `FrameRecorder` is the machine around it: a graph
filled call by call, the template cache, submissions taken and given back, and a
`FrameGraph` used alone. Its properties read the compiled graph as the backend
does and compare it with a direct definition (conflicts from cells touched, states
by replay). One state per resource and node; sets instead of order inside a
node; names, byte limits and pipeline stages are left out.

### 2.8 `FrameImages`

What draws, copies, samples and readbacks of textures, targets and the surface
record in the graph, which state each image is imported in, and what Vulkan's
barriers and passes then do to layouts and contents, over frames that are
submitted, aborted or fail before or after `queue_submit`. Whole-image copies;
every target has a depth; depth is imported from no state each frame.

### 2.9 `NativeTransfer`

What the worker's callback does with a batch on five kinds of device: release on
graphics, copy, acquire on graphics, their timelines, mip states, staging
blocks and command slots, cancellation, region updates, `wait_idle` and the
marker submission that wakes a waiting copy queue. A submission runs in one step;
two that nothing orders run in either order. Metal is excluded from `Idlers` and a
second queue of one family from `Updaters`, for reasons given in section 5.

### 2.10 `Presentation`

Window surfaces of one context and the one Vulkan swapchain behind them: the
owner begins, draws, submits, presents, resizes and destroys; the queue, the
presentation engine and the window system move between its steps; faults are
injected at every native call that can fail. An extent stands for an extent and a
presentation mode. Left out: headless surfaces, device loss, readbacks, empty
frames, surface creation, the other backends' surfaces.

### 2.11 `GpuArena`

The typed arena of the safe API: elements reserved, set and removed by any thread
under the arena's lock; a bind as two steps (the lock and dirty marks taken, the
native write and the marks cleared), with frames, growth, release and drop around
it, on each backend. Left out: reads, element sizes; a poisoned frame keeps only
its binding; a dropped arena's elements are forgotten.

### 2.12 Fault operators

Definitions marked `\* Fault:` are not part of the specification. Each is a
plausible slip in the code (a guard dropped, a reset forgotten, a comparison off
by one), written next to the definition it would replace; `PROJECT.json` pairs
it with a property, and replacing the definition by it makes that property fail.

## 3. The runs

| Run | Instance | Shows |
|---|---|---|
| `transfer_worker` | 2 callers (two threads relate to the owner and to each other in every way), 3 kinds of job (unordered, one that fills a batch, a second group), 2 jobs, bundles of 2, 3 calls | FIFO, waits cover, refinement of the log, every call returns, with callbacks that succeed, fail, lose the device or panic |
| `frame_completion` | 2 slots, 2 objects, 5 frame values, three backends | nothing is destroyed under a frame, completion is a prefix, what is deferred waits for frames that will end |
| `texture_registry` | 2 slots, 4 generations, 2 mips, 3 tokens | fresh handles, withheld slots, resident mips complete, over every sequence of calls with stale and current handles |
| `texture_frames` | 1 load, every operation, refusals and loss at any step | required prefixes are seen, ledgers exact, event protocol, nothing changes under a frame |
| `texture_liveness` | 2 loads, budget of one reservation | loads end, calls return, frames wait for what they sample |
| `geometry_store` | 1 vertex heap and the index heap, 2 allocations, 3 buffers, 3 copies, 2 frames, 2 recordings | ranges and buffers outlive their readers, retired things return, earlier uploads are awaited |
| `transient_buffers` | sizes {1, 2}, pools of 2, aggregate 3, 3 buffers, 2 copies, 2 recordings, five kinds of failure | frames see uploads, nothing is disposed of in use |
| `frame_graph` | six programs of one or two resources, 3 nodes | ordering, states, passes, cache against direct definitions |
| `frame_images` | a texture pair, one- and multisampled targets, 3 nodes, 2 frames | barriers true, plans accepted, contents kept |
| `native_transfer` | five devices, 2 images of 2 mips, 2 slots, 2 blocks, 3 jobs, 1 frame | hand-overs, sampled contents, memory idle when reused, everything ends |
| `presentation` | 2 symmetric surfaces, 2 slots, 2 images, 3 frames, 2 faults | semaphores, object lifetimes, no call stuck |
| `gpu_arena` | 2 slots beside the sentinel's growth, 2 values, 2 generations, 2 buffers, 2 frames | clean slots uploaded, frames see what was bound, handles fresh |

**Bounds.** Two slots in flight are what the code has (`FRAMES_IN_FLIGHT`), and
three or more frames reuse a slot (`gpu_arena` has two frames: reuse of a slot is
`frame_completion`'s question, and section 6 proves both for any number). Two
images, surfaces, heaps or objects are enough for the wrong one to be touched;
three buffers or natives for one to be replaced while its predecessor is read and
a third allocated. Two generations reach saturation; a budget of one reservation
makes every admission wait. Two jobs make a batch with a carried one. Every
`Max...` constant is a bound in a guard and none is in the code; `Capacity`,
`MaxGeneration`, `Limit`, `Budget`, `PoolBudget`, `Aggregate`, `BatchCopies`,
`BatchBytes`, `CacheEntries`, `Slots` stand for limits the code has. Larger
instances were checked while the models were written: `native_transfer` with 4
jobs and 2 frames (3.8 million states, safety), `transfer_worker` with 3 jobs,
`texture` runs of 3 loads and 3 workers.

**Fairness.** The worker: the operating system schedules runnable threads and
native callbacks return (`WF` of the owner, of join, of each caller's next step).
The pipeline: the owner finishes its calls and keeps polling (readiness is only
ever observed by a call), decodes end, the timeline and frames advance; liveness
is claimed of a live device after the fallback texture exists. `NativeTransfer`: the
worker and both queues run what can run, and a waiting owner sees completion.
`Presentation` states progress as an invariant with `ENABLED`: a submission
always has a next step of its own or of the engine. Nothing is assumed about when
calls are made.

**Deadlock** is checked except where the bound on histories may end a behaviour:
`FrameImages`, `FrameRecorder`, `NativeTransfer`, `Presentation`,
`TransientBuffers`, `GpuArena`.

## 4. Coverage

The map covers about 15 % of the repository's implementation lines. The rest is
mostly what has no state to model: decoders and container parsers, the shader
compiler and artifact formats, three backends' native object creation (three
variants of the same contract; the models follow Vulkan and take up where
DirectX 12 and Metal differ in frames, transfers and arenas), typed wrappers,
tools, tests.

## 5. Where the code and its words differ

Met while modelling. The passing properties state what the code does; each
entry says where a sentence of the repository, or an obvious wish, goes further.

**Surfaces and presentation.**
- `frame/vulkan.rs:841` takes the surface's record out of `context.surfaces` and
  returns early by `?` when preparing the surface (line 891, e.g. a minimized
  window), the pipelines or the bindings fail: the record is lost and every later
  call on the surface answers `InvalidContext`. The invariant
  `call.at = "idle" => \A s : surfaces[s].held => surfaces[s].known` of
  `Presentation` fails in four steps. DirectX 12 does the same.
- The slot's `image_available` stays signaled when recording fails after the
  acquisition (`backend-vulkan/src/frame.rs:718`); `SemaphoresReady` excepts exactly
  these slots (`seen.leaked`).
- An out-of-date answer at acquisition becomes `NotReady` without a recreation.
  A failed recreation leaves the retired swapchain installed.
- There is one swapchain per context: a second surface's frame of equal extent
  goes to the first one's swapchain, and destroying any surface destroys it. With
  differing extents it is recreated every frame.
- Frames without draws are presented undrawn, and two in a row use
  `image_available` while it is pending.
- Failed recordings whose recovery also fails can leave every image acquired; the
  next acquisition then waits for ever (`CallsReturn` excepts this).

**Arenas.**
- `api_arena.rs:81` compares slot and generation only: a handle of another arena
  that agrees in both is accepted, though line 340 promises an error for a
  "stale or foreign" one (`\A h \in Handles : Valid(h) => h.from = "this"` fails).
- `set_many` accepts a batch that names an element twice (line 189; line 348 says
  "duplicated" is refused).
- `buffers.rs:85` retires a used arena's buffer against the graphics queue, but
  `Allocator::reclaim` is only called for the transfer and texture queues
  (`native.rs:595-623`): it returns at teardown only
  (`[][WaitIdle => retired' = {}]_vars` fails).
- An arena dropped on another thread leaks; `remove_many` is not atomic at the
  last generation; an arena grown between two draws of one frame refuses the later
  draw; released between draw and submission it fails the submission; earlier
  draws see the values of a later bind; a failed write of a new buffer leaks it.

**Texture pipeline.**
- Loss clears the texture ledger while a decode runs; its late result releases the
  reservation again (`pipeline/mod.rs:682`) and the debug assertion of
  `release_texture` (`lib.rs:534`) would fire; a release build saturates.
- After a residency below the required mips the fine mips are never submitted nor
  dropped, and `wait_idle` polls for ever (`context.rs:547`, `pipeline/mod.rs:338`). A
  fine mip larger than the background ledger is deferred for ever (`:355`).
- A texture first published after the draw and updated before the submission is
  sampled without a wait (`frame/mod.rs:570` promises a refresh). A region update
  of a mip still retained is overwritten (`texture.rs:664`). An old ready value
  can report readiness while a region update is pending. Regions of mips not yet
  submitted are not checked (`texture.rs:669`).
- `pipeline/submit.rs:66` and `docs/textures.md:67` say an undecoded required load
  blocks later ones; behind an undecoded *optional* head it does not.
  `docs/textures.md:53` says cancellation wins only before readiness; a region
  update re-arms it. `texture.rs:277` says loss is marked once; later calls report
  `Failed` again. `EventProtocol` allows exactly these.
- `backend-vulkan/src/texture.rs:861`: a required mip rewritten before it is
  exposed is covered by its first upload's token only.
- `docs/textures.md:67` counts buffer and geometry pressure against admission;
  `acquire_required` reads the texture ledger alone.

**Transfer worker.** A flush that sends after the inbox was dropped answers
`Failed` on a lost worker (`worker.rs:446` says `DeviceLost`), as does
`flush_through` after a shutdown (`:456`).

**Native transfers.** A fine mip uploaded after the first prefix is released from
graphics as if it had been filled (`texture.rs:746` of Vulkan, `:610` of DirectX 12
against `transfer.rs:259`): with `FineUploads = TRUE` the invariant
`"unfilled" \notin wrong` fails. Metal's `wait_idle` returns while copies are only
submitted (`device.rs:355`). On a second queue of the same family a release
waits for nothing.

**Geometry and transients.** A heap is read early (`resources.rs:166` against
`docs/geometry.md:66`); an upload after a failed draw is unseen; a heap drop
refused during a recording swallows its error and leaks; growth answers `NotReady`
between submission and the next begin; a growth copy is not ordered after an
earlier upload. `write_counter_commands` that fails half way leaves a copy nobody
waits for (`DisposedSafely` excepts exactly these).

**Graph and images.** `add_node` refused for its second dependency has linked the
first: the edge waits for the next node (`graph.rs:509`). Reads of two queues
transition without a wait; equal-state writes emit no barrier; `alias()` slots may
overlap (no backend uses them). Two readbacks of one image mismatch
(`frame_record.rs:213` and `:239`); "Clears the target before the first graphics
pass" (`api_render_target.rs:181`) is not kept after a readback; frames whose
`queue_present` fails after `queue_submit` roll states back though the GPU runs
them. `BarriersTrue` names what it excepts.

**C interface** (a draft model was too large for a run). After a loss, `dispatch`
drains events and then drops them on the final error, so terminal events never
reach the callback (`callback.rs`; `context.rs:459` promises to preserve them).
Ending a frame of another context inside a callback unregisters a callback that
did not panic. A frame ended on a lost device keeps its handle although its draft
is cleared. Destroying a context drops drafts of live frames of other threads'
contexts.


## 6. Proofs

TLAPS checks every theorem for all values of the constants. The only assumptions
are the named ones the modules make about their constants (`WorkerAssumption`,
`RegistryAssumption`, `GeometryAssumption`, `FramesAssumption`, `ArenaAssumption`,
...), which TLC evaluates in the runs. Each inductive invariant was checked by TLC
on the module's run before it was proved.

`TransferWorkerProofs` (any callers, jobs, bundles, batch limits and bounds):

- `SubmitsInOrder` (`FifoOrder`): log, batch, carried job and inbox, in this order,
  are the admitted jobs. `OrderInv` adds which stages of the loop hold a batch, and
  that flush messages in the inbox stand behind what was admitted before them.
- `FlushThroughSafe` (`FlushThroughCovers`). `LogInv` is inductive: tokens rise along
  the admitted jobs and the published one is the largest of the submitted
  (`TokensRise`, `TokensPublished`), a flush is in one place at a time and behind what
  it covers (`FlushesTracked`), whoever was told Ok waited for an admitted token
  (`WaitsAdmitted`), and the loop ends with an error or after a shutdown that found
  everything submitted (`EndsWell`).
- `WorkerImplementsLog` (`ImplementsLog`): each step is a step of `SubmissionLog`
  under the mapping of section 2.1, or leaves it unchanged; this is the refinement,
  proved action by action from `LogInv`.

`TextureRegistryProofs` (any capacity, generation limit and bounds):

- `HandlesAreFresh`, `SlotsAccountedFor`: from `SlotsInv`: the free list names
  vacant slots once, generations never fall, every live, withheld or lost slot
  stands in one place.
- `ResidencyIsComplete` (`ResidentMipsComplete`): `MipsInv` adds that the mips a slot
  waits for rise above what is resident (`Rising`) and that every upload of a live
  handle has completed or is still awaited; the property alone says nothing of the
  mips the next poll publishes.

`NativeFramesProofs` is the library the modules with frames rest on: what every
operator of `NativeFrames` does to `Books(f, u, r)`, the relation of the frames a
backend remembers, the objects each running frame uses (`u`) and the objects that
are free (`r`), for any set of values, slots and objects and the three backends.

- `FrameCompletionProofs`: `NeverDestroyedInUse`, `CompletionIsPrefix`,
  `DeferralsPending`, each from `BooksInv`. Completion is learned late and out of
  slot order, so the invariant speaks of the running frames, not of what the backend
  knows: a deferred object's mask (or fence value) covers every running frame that
  uses it, and slots hold the youngest values.
- `GpuArenaProofs`: `HandlesStayFresh`, `MarksAreSound` (dirty marks against buffer
  contents across a bind cut in two by other threads) and `FramesReadWhatTheyBound`
  (`FramesSeeBound`), from `FramesInv`: a frame that reads a buffer was submitted
  before the buffer's last use was recorded, so an in-place write, a growth and a
  release all wait for it or go elsewhere.

`GeometryStoreProofs` (any heaps, strides, capacities, upload sizes, slots and
bounds), every property the run checks:

- `HeapsStayExact` (`HeapsExact`): first fit, release with joining and growth each keep
  a heap exactly divided (`ReservedGood`, `ReleasedGood`, `GrownGood`).
- `RetiredAlwaysReturns` (`RetiredWillReturn`), from `OwnersInv`: every handle is held
  or retired, once (`HandlesPlaced`); the buffers ever made are divided among heaps, the
  two retired lists and what the backend was asked to free (`NativesPlaced`); a heap has
  bytes exactly while its buffer is owned (`HeapsOwned`); and what a call found before
  its sweep is still true at its body (`CallSound`). The objects in the backend's
  `Books` are the buffers the owner gave up.
- `RangesAlwaysKept` (`RangeKeptWhileRead`) and `NativesAlwaysOutlive`
  (`NativesOutlive`). The properties speak of ranges that are live now; `ReadsKept`
  says why they stay live: what a frame reads is a live range of the heap that owns the
  buffer, if one still does, and a drop of it waits for that frame, or for the recording.
  `CopiesKept` says the same of the source and the target of a copy under way: an
  outgrown buffer waits for the copy out of it, and the target of an upload is either
  owned by the heap whose range it fills or was outgrown after it.
- `UploadsAlwaysAwaited` (`EarlierUploadsAwaited`): a heap remembers one token, so
  `UploadsCovered` says that it is not before those of the heap's live ranges, and that
  a token a recording imported covers every live range but those uploaded since.

`PresentationProofs` (any surfaces, slots, images, extents and bounds), from
`PresentInv`, with one lemma per operator of the native context and per action:

- `SemaphoresAlwaysReady` (`SemaphoresReady`): the property speaks of one moment, so
  `Flown` says that the frames on the queue occupy slots in flight and images of their
  own, `Paired` that an image's semaphore has a signal pending exactly while a
  presentation waits for it, and `Clean` that a slot's semaphore is at rest, awaited by
  a frame on the queue, or known to be leaked by a failed recording.
- `ObjectsAlwaysOutlive` (`ObjectsOutlive`): every destruction stands behind a wait that
  leaves nothing on the queue or with presentation (`Quiet`), also after a refused
  presentation, where `Flown` does not hold (the slot is unmarked) and `Kept` is what is
  left; a fence waited for leaves no frame of its slot (`FenceSound`).

`FrameGraphProofs` (any sizes, budgets, slots, failures and bounds), every property
the `transient_buffers` run checks, from `TransientInv` (`BuffersHeld`):

- `UploadsSeen` (`FramesSeeUploads`) and `DisposalSafe` (`DisposedSafely`). Neither
  is inductive: they speak of what is taken or freed now, and not of why the buffer
  was still elsewhere before. The invariant gives each place what it must wait for.
  A native buffer belongs to one transient, one pool entry, one retirement or the
  backend (`Placed`). The staging bucket of a copy under way is in the staging pool,
  behind that copy (`SourcesHeld`). The target of a copy that is awaited belongs to
  a transient whose recorded value covers it, or was retired no earlier than the
  copy, or is in a pool behind a frame that waits for it (`TargetHeld`); a recording
  that imported it waits for it too (`CopiesHeld`). What a frame reads is in a pool
  behind that frame (`ReadHeld`), so nothing it reads is destroyed or handed out.
  `Safe` says of two memories that nothing was taken in between that a copy or a
  frame needs: each operator has a lemma that ends in it (`TakenKept`,
  `TrimmedKept`, `StageKept`, `DisposedKept`, ...), so a call that stages several
  uploads and fails at any of them composes them.
- `OverlapsExact`, `IntersectionExact`, `SubtractExact`, `FragmentsApart`,
  `TrackExact`: overlap, intersection, subtraction and state tracking of the
  compiler's subresource ranges against the sets of subresources they denote, for
  every range.

**Model-checked only.** The properties of `TexturePipeline`,
`FrameRecorder`, `FrameImages` and `NativeTransfer`. Liveness (every call and load
ends, copies and frames end) needs fairness, and `CallsReturn` of `Presentation`
(submissions move on) is stated with `ENABLED`: the prover handles neither.
`FrameRecorder` and `FrameImages` compile graphs with definitions by recursion, whose
values for every input would need induction over data; for the same reason the proofs
about `GraphCompiler` are of its steps and not of whole graphs.

## 7. Running

In this directory:

```
tlc -workers 2 -config MCGpuArena.cfg MCGpuArena     # a run
tlapm GpuArenaProofs.tla                             # a proof module
```

`PROJECT.json` lists the module and configuration of each run. The longest run takes
about two minutes on two cores; the longest proof modules, `FrameGraphProofs` and
`GeometryStoreProofs`, three to five.
