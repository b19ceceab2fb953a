--------------------------- MODULE NativeTransfer ---------------------------
(***************************************************************************)
(* What a backend does with the texture copies its worker hands it: the    *)
(* submissions on the copy queue and the graphics queue, the timelines that *)
(* order them, the state every mip is in, and the staging blocks and the   *)
(* command buffers that are used again.                                    *)
(*                                                                         *)
(*   vulkan           transfer queue of another family: every copy hands   *)
(*                    its mips over to graphics                            *)
(*   vulkanOneFamily  a second queue of the graphics family                *)
(*   vulkanOneQueue   one queue for both                                   *)
(*   dx12             COPY queue, states moved by lists on graphics        *)
(*   metal            no states, events only                               *)
(*                                                                         *)
(* A submission runs in one step.  Two that nothing orders run in either   *)
(* order, so an unordered pair shows as a wrong content in one of them.    *)
(***************************************************************************)
EXTENDS Naturals, FiniteSets, SequencesExt

CONSTANTS
  Backends,     \* the backends to be considered
  Idlers,       \* those of them whose wait_idle is called
  Updaters,     \* those of them whose textures are updated after their creation
  ImageCount,   \* images, created in the order of their numbers
  Levels,       \* mips of an image; level Levels is the coarsest
  Slots,        \* command slots of a worker (4 in the code)
  Blocks,       \* staging blocks
  MaxJobs,      \* bound on the jobs admitted
  MaxFrames,    \* bound on the frames submitted
  FineUploads,  \* are mips beyond the first prefix uploaded later?
  MayFail       \* may the worker's callback fail?

ASSUME TransferAssumption ==
  /\ {ImageCount, Levels, Slots, Blocks, MaxJobs, MaxFrames} \subseteq Nat \ {0}
  /\ Backends \subseteq {"vulkan", "vulkanOneFamily", "vulkanOneQueue", "dx12", "metal"}
  /\ Idlers \subseteq Backends /\ Updaters \subseteq Backends
  /\ {FineUploads, MayFail} \subseteq BOOLEAN

Images == 1..ImageCount
Mips == Images \X (1..Levels)
Queues == {"copy", "graphics"}

VARIABLES
  backend,
  next,         \* next_texture_value
  created,      \* the images created so far
  cancelled,    \* the images whose cancellation flag is set
  completion,   \* [Mips -> Nat]: mip_completions, 0 for a mip never submitted
  staged,       \* [1..Blocks -> [holds, until]]: the values whose bytes a block
                \* holds, and the one that gives it back
  jobs,         \* jobs the worker has admitted and not taken
  worker,       \* the callback: [at, batch, scanned, live, slot, values, own]
  through,      \* the value through which callbacks have returned
  queue,        \* [Queues -> Seq(submission)]
  reached,      \* what the timelines have reached: done is the completion
                \* timeline, own the ownership timeline (copy fence, graphics event)
  mips,         \* [Mips -> [state, holds]]: the truth about every mip
  settled,      \* Metal: values whose TextureSubmission reports completed
  base,         \* Metal: completed_texture_value as wait_idle left it
  owed,         \* Metal: the value of a release marker not yet committed, or 0
  frames,       \* frames submitted
  idling,       \* is wait_idle under way?
  wrong         \* what a submission found wrong when it ran

apiVars == <<next, created, cancelled, completion, staged>>
gpuVars == <<reached, mips, settled, wrong>>
callVars == <<owed, frames, idling, base>>
vars == <<backend, apiVars, jobs, worker, through, queue, gpuVars, callVars>>

-----------------------------------------------------------------------------
\* The three ways of handing a mip over.

\* Is the completion signaled by a submission on graphics, after a host wait?
HandsOver == backend \in {"vulkan", "dx12"}
OneFamily == backend \in {"vulkanOneFamily", "vulkanOneQueue"}
CopyQueue == IF backend = "vulkanOneQueue" THEN "graphics" ELSE "copy"

\* completed_texture_transfer_value.  Metal asks the submissions in their order.
Completed ==
  IF backend = "metal"
  THEN CHOOSE v \in base..(next - 1) :
         /\ (base + 1)..v \subseteq settled
         /\ v + 1 \notin settled \/ v + 1 = next
  ELSE reached["done"]

-----------------------------------------------------------------------------
\* Commands.

Barrier(m, from, to) == [op |-> "barrier", mip |-> m, from |-> from, to |-> to]
CopyOf(j) == [op |-> "copy", mip |-> j.mip, value |-> j.value, block |-> j.block]
Sample(m, v) == [op |-> "sample", mip |-> m, value |-> v]

\* What is wrong with command c when it runs on mips in state s.
Flaws(s, c) ==
  LET m == s[c.mip] IN
  CASE c.op = "barrier" ->
         IF c.from \in {"any", m.state} THEN {}
         ELSE IF m.holds = 0 THEN {"unfilled"} ELSE {"handoff"}
    [] c.op = "copy" ->
         (IF backend = "metal" \/ m.state = "copy" THEN {} ELSE {"handoff"})
         \cup (IF c.value \in staged[c.block].holds THEN {} ELSE {"staging"})
    [] c.op = "sample" ->
         IF (backend = "metal" \/ m.state = "shader") /\ m.holds = c.value
         THEN {} ELSE {"sampled"}

Do(r, c) ==
  [mips |-> CASE c.op = "barrier" -> [r.mips EXCEPT ![c.mip].state = c.to]
              [] c.op = "copy" -> [r.mips EXCEPT ![c.mip].holds = c.value]
              [] OTHER -> r.mips,
   wrong |-> r.wrong \cup Flaws(r.mips, c)]

\* The mips a part moves between queues.  Vulkan names each once however many
\* regions are written; DirectX 12 goes by the jobs.
Touched(js) ==
  IF backend = "dx12" THEN [k \in DOMAIN js |-> js[k].mip]
  ELSE SetToSeq({js[k].mip : k \in DOMAIN js})

\* Before an update: graphics gives the mips up.
ReleaseCommands(js) ==
  LET moved == Touched(js)
  IN [k \in DOMAIN moved |->
        Barrier(moved[k], "shader", IF backend = "vulkan" THEN "released" ELSE "copy")]

\* Vulkan's barriers stand around the first and the last copy of a mip.
Entering(j) ==
  Barrier(j.mip, IF ~j.update THEN "any"
                 ELSE IF backend = "vulkan" THEN "released" ELSE "copy", "copy")
Leaving(j) ==
  Barrier(j.mip, "copy", IF backend = "vulkan" THEN "handed" ELSE "shader")
VulkanCopy(js, k) ==
  LET same == {n \in DOMAIN js : js[n].mip = js[k].mip}
  IN (IF \E n \in same : n < k THEN <<>> ELSE <<Entering(js[k])>>)
     \o <<CopyOf(js[k])>>
     \o (IF \E n \in same : n > k THEN <<>> ELSE <<Leaving(js[k])>>)
CopyCommands(js) ==
  IF backend \in {"dx12", "metal"} THEN [k \in DOMAIN js |-> CopyOf(js[k])]
  ELSE FlattenSeq([k \in DOMAIN js |-> VulkanCopy(js, k)])

\* After the copy: graphics takes the mips over.
AcquireCommands(js) ==
  LET moved == Touched(js)
  IN [k \in DOMAIN moved |->
        Barrier(moved[k], IF backend = "vulkan" THEN "handed" ELSE "copy", "shader")]

Submission(waits, commands, signal, slot) ==
  [waits |-> waits, cmds |-> commands, signal |-> signal, slot |-> slot]
Unsignaled == <<"none", 0>>

Submit(q, s) == queue' = [queue EXCEPT ![q] = Append(@, s)]

-----------------------------------------------------------------------------
\* Calls.  They come from the one thread that owns the context; a call that
\* waits keeps the others out.

Calling == ~idling /\ owed = 0
Failed == worker.at = "failed"

RetiresAt(first, last) == last

FreeBlocks == {b \in DOMAIN staged : staged[b].until <= Completed}
\* A block the pool gives back, or a new one; they are interchangeable.
StagingBlock == CHOOSE b \in FreeBlocks : \A c \in FreeBlocks : b <= c
Staged(b, values, until) ==
  staged' = [staged EXCEPT ![b] = [holds |-> values, until |-> until]]

Job(value, mip, update, stage, block) ==
  [value |-> value, mip |-> mip, update |-> update, stage |-> stage, block |-> block]

\* create_texture_with_prefix: the coarsest levels, as one admission.
Create(prefix) ==
  LET i == created + 1
      last == next + prefix - 1
      Level(k) == Levels - k + 1
  IN /\ Calling /\ ~Failed
     /\ i \in Images /\ last <= MaxJobs /\ FreeBlocks # {}
     /\ created' = i
     /\ jobs' = jobs \o [k \in 1..prefix |->
          Job(next + k - 1, <<i, Level(k)>>, FALSE, k - 1, StagingBlock)]
     /\ completion' = [m \in Mips |->
          IF m[1] = i /\ m[2] > Levels - prefix
          THEN next + Levels - m[2] ELSE completion[m]]
     /\ Staged(StagingBlock, next..last, RetiresAt(next, last))
     /\ next' = last + 1
     /\ UNCHANGED <<backend, cancelled, worker, through, queue, gpuVars, callVars>>

\* update_texture_region, by a region write or for a mip of phase two.  Metal
\* commits the marker that releases graphics after the admission.
Update(i, level) ==
  LET m == <<i, level>> IN
  /\ Calling /\ ~Failed /\ backend \in Updaters
  /\ i <= created /\ i \notin cancelled
  /\ completion[m] # 0 \/ FineUploads
  /\ next <= MaxJobs /\ FreeBlocks # {}
  /\ jobs' = Append(jobs, Job(next, m, TRUE, 0, StagingBlock))
  /\ completion' = [completion EXCEPT ![m] = next]
  /\ Staged(StagingBlock, {next}, next)
  /\ next' = next + 1
  /\ owed' = IF backend = "metal" THEN next ELSE 0
  /\ UNCHANGED <<backend, created, cancelled, worker, through, queue, gpuVars,
                 frames, idling, base>>

CommitMarker ==
  /\ owed # 0
  /\ Submit("graphics", Submission({}, <<>>, <<"own", owed>>, 0))
  /\ owed' = 0
  /\ UNCHANGED <<backend, apiVars, jobs, worker, through, gpuVars, frames, idling, base>>

\* Either call, refused by the worker: the block was written, no value is used.
Reject ==
  /\ Calling /\ FreeBlocks # {}
  /\ Staged(StagingBlock, {}, 0)
  /\ UNCHANGED <<backend, next, created, cancelled, completion, jobs, worker,
                 through, queue, gpuVars, callVars>>

\* The texture is destroyed: its pending copies may be skipped.
Cancel(i) ==
  /\ Calling
  /\ i <= created /\ i \notin cancelled
  /\ cancelled' = cancelled \cup {i}
  /\ UNCHANGED <<backend, next, created, completion, staged, jobs, worker, through,
                 queue, gpuVars, callVars>>

\* Fault: a frame does not wait for the worker's submissions.
FlushedUnasked(v) == TRUE
\* flush_through: the callback of value v has returned.
FlushedThrough(v) == through >= v

\* A frame that samples the coarsest levels of image i, and waits for them.
Frame(i, levels) ==
  LET view == {<<i, l>> : l \in (Levels - levels + 1)..Levels}
      required == CHOOSE v \in {completion[m] : m \in view} :
                    \A m \in view : completion[m] <= v
      pending == required > Completed
      seen == SetToSeq(view)
  IN /\ Calling
     /\ i <= created /\ i \notin cancelled /\ frames < MaxFrames
     /\ \A m \in view : completion[m] # 0
     /\ pending => FlushedThrough(required)
     /\ Submit("graphics",
          Submission(IF pending THEN {<<"done", required>>} ELSE {},
                     [k \in DOMAIN seen |-> Sample(seen[k], completion[seen[k]])],
                     Unsignaled, 0))
     /\ frames' = frames + 1
     /\ UNCHANGED <<backend, apiVars, jobs, worker, through, gpuVars, owed, idling, base>>

-----------------------------------------------------------------------------
\* The worker's callback.

\* job_group: an initial copy goes with copies of its stage, updates together.
Group(j) == IF j.update THEN Levels + 1 ELSE j.stage + 1

\* What one native submission takes of a batch.  DirectX 12 stops before an image
\* it already writes.
\* Fault: DirectX 12 too takes the whole batch.
WholeBatch(batch) == batch
FirstPart(batch) ==
  LET repeats == {n \in DOMAIN batch :
                    \E k \in 1..(n - 1) : batch[k].mip[1] = batch[n].mip[1]}
  IN IF backend = "dx12" /\ repeats # {}
     THEN SubSeq(batch, 1, (CHOOSE n \in repeats : \A k \in repeats : n <= k) - 1)
     ELSE batch

Part == FirstPart(worker.batch)
LastValue(js) == Last(js).value
LiveJobs == SelectSeq(Part, LAMBDA j : j.value \in worker.live)

IdleWorker == [worker EXCEPT !.at = "idle", !.batch = <<>>, !.scanned = 0, !.live = {}]

\* Jobs of one group that stand next to each other.
Take(n) ==
  /\ worker.at = "idle"
  /\ n \in DOMAIN jobs
  /\ \A k \in 1..n : Group(jobs[k]) = Group(jobs[1])
  /\ worker' = [worker EXCEPT !.at = IF backend = "metal" THEN "scan" ELSE "reuse",
                              !.batch = SubSeq(jobs, 1, n)]
  /\ jobs' = SubSeq(jobs, n + 1, Len(jobs))
  /\ UNCHANGED <<backend, apiVars, through, queue, gpuVars, callVars>>

SlotFinished == reached["done"] >= worker.values[worker.slot]

\* The command buffers of the slot are reset.
Reuse ==
  /\ worker.at = "reuse" /\ SlotFinished
  /\ worker' = [worker EXCEPT !.at = "scan"]
  /\ UNCHANGED <<backend, apiVars, jobs, through, queue, gpuVars, callVars>>

\* snapshot_live_indices, job by job.  Metal notes what it skips.
AfterScan(live) ==
  IF backend # "metal" /\ Part[1].update /\ live # {} THEN "release" ELSE "copy"
Scan ==
  LET j == Part[worker.scanned + 1]
      skip == j.mip[1] \in cancelled
      live == IF skip THEN worker.live ELSE worker.live \cup {j.value}
      complete == worker.scanned + 1 = Len(Part)
  IN /\ worker.at = "scan"
     /\ worker' = [worker EXCEPT !.live = live, !.scanned = @ + 1,
                                 !.at = IF complete THEN AfterScan(live) ELSE @]
     /\ settled' = IF skip /\ backend = "metal" THEN settled \cup {j.value} ELSE settled
     /\ UNCHANGED <<backend, apiVars, jobs, through, queue, reached, mips, wrong, callVars>>

\* Updates: graphics releases the mips, and the copy waits for it.
SubmitRelease ==
  /\ worker.at = "release"
  /\ Submit("graphics", Submission({}, ReleaseCommands(LiveJobs),
                                   <<"own", worker.own + 1>>, worker.slot))
  /\ worker' = [worker EXCEPT !.at = "copy", !.own = @ + 1]
  /\ UNCHANGED <<backend, apiVars, jobs, through, gpuVars, callVars>>

\* The part is submitted: the next one, in the next slot, or the end of the
\* callback.
Submitted(w) ==
  LET rest == SubSeq(w.batch, Len(Part) + 1, Len(w.batch))
      moved == IF backend = "metal" THEN w
               ELSE [w EXCEPT !.values[w.slot] = LastValue(Part),
                              !.slot = (@ % Slots) + 1]
  IN [moved EXCEPT !.at = IF rest = <<>> THEN "idle" ELSE "reuse",
                   !.batch = rest, !.scanned = 0, !.live = {}]
Returned ==
  through' = IF Len(Part) = Len(worker.batch) THEN LastValue(Part) ELSE through

\* What the copy waits for.
\* Fault: nothing.
CopyWaitsNothing == {}
CopyWaits ==
  IF backend = "metal"
  THEN {<<"own", LiveJobs[k].value>> : k \in {n \in DOMAIN LiveJobs : LiveJobs[n].update}}
  ELSE IF Part[1].update /\ LiveJobs # <<>> THEN {<<"own", worker.own>>} ELSE {}

\* Does the completion of this part follow graphics?  A part with nothing left
\* to copy goes the same way.
\* Fault: a part with nothing left signals at once.
FollowsGraphicsIfLive == HandsOver /\ LiveJobs # <<>>
FollowsGraphics == HandsOver

SubmitCopy ==
  /\ worker.at = "copy"
  /\ Submit(CopyQueue,
       Submission(CopyWaits, CopyCommands(LiveJobs),
         IF FollowsGraphics THEN <<"own", worker.own + 1>> ELSE <<"done", LastValue(Part)>>,
         worker.slot))
  /\ IF FollowsGraphics
     THEN /\ worker' = [worker EXCEPT !.at = "acquire", !.own = @ + 1]
          /\ UNCHANGED through
     ELSE worker' = Submitted(worker) /\ Returned
  /\ UNCHANGED <<backend, apiVars, jobs, gpuVars, callVars>>

CopyEnded == reached["own"] >= worker.own

\* The worker waits for the copy, then graphics takes the mips over.
SubmitAcquire ==
  /\ worker.at = "acquire" /\ CopyEnded
  /\ Submit("graphics",
       Submission({<<"own", worker.own>>}, AcquireCommands(LiveJobs),
                  <<"done", LastValue(Part)>>, worker.slot))
  /\ worker' = Submitted(worker) /\ Returned
  /\ UNCHANGED <<backend, apiVars, jobs, gpuVars, callVars>>

\* A native call fails: the callback returns, what it submitted stays submitted.
Fail ==
  /\ MayFail
  /\ worker.at \in {"reuse", "scan", "release", "copy", "acquire"}
  /\ worker' = [IdleWorker EXCEPT !.at = "failed"]
  /\ UNCHANGED <<backend, apiVars, jobs, through, queue, gpuVars, callVars>>

-----------------------------------------------------------------------------
\* The queues.

Runnable(q) ==
  /\ queue[q] # <<>>
  /\ \A w \in Head(queue[q]).waits : reached[w[1]] >= w[2]

Execute(q) ==
  LET s == Head(queue[q])
      r == FoldLeft(Do, [mips |-> mips, wrong |-> wrong], s.cmds)
      copied == {s.cmds[k].value : k \in {n \in DOMAIN s.cmds : s.cmds[n].op = "copy"}}
  IN /\ Runnable(q)
     /\ mips' = r.mips
     /\ wrong' = r.wrong
     /\ reached' = [t \in DOMAIN reached |-> IF t = s.signal[1] THEN s.signal[2] ELSE reached[t]]
     /\ settled' = IF backend = "metal" THEN settled \cup copied ELSE settled
     /\ queue' = [queue EXCEPT ![q] = Tail(@)]
     /\ UNCHANGED <<backend, apiVars, jobs, worker, through, callVars>>

-----------------------------------------------------------------------------
\* wait_idle.

IdleBegin ==
  /\ Calling /\ ~Failed /\ backend \in Idlers
  /\ idling' = TRUE
  /\ UNCHANGED <<backend, apiVars, jobs, worker, through, queue, gpuVars, owed, frames, base>>

Flushed == jobs = <<>> /\ worker.at = "idle"
Drained == queue["copy"] = <<>> /\ queue["graphics"] = <<>>

\* What each backend waits for after the flush: Vulkan for the device,
\* DirectX 12 for graphics and the last value, Metal for its frames.
NativeWaitOver ==
  CASE backend = "dx12" -> queue["graphics"] = <<>> /\ reached["done"] >= next - 1
    [] backend = "metal" ->
         \A k \in DOMAIN queue["graphics"] : queue["graphics"][k].cmds = <<>>
    [] OTHER -> Drained

IdleReturn ==
  /\ idling /\ Flushed /\ NativeWaitOver
  /\ idling' = FALSE
  /\ staged' = [b \in DOMAIN staged |-> [holds |-> {}, until |-> 0]]
  /\ base' = IF backend = "metal" THEN next - 1 ELSE base
  /\ UNCHANGED <<backend, next, created, cancelled, completion, jobs, worker, through,
                 queue, gpuVars, owed, frames>>

\* The worker failed meanwhile: its shutdown drains the queues, nothing is freed.
IdleFails ==
  /\ idling /\ Failed /\ Drained
  /\ idling' = FALSE
  /\ UNCHANGED <<backend, apiVars, jobs, worker, through, queue, gpuVars, owed, frames, base>>

-----------------------------------------------------------------------------
Init ==
  /\ backend \in Backends
  /\ next = 1 /\ created = 0 /\ cancelled = {}
  /\ completion = [m \in Mips |-> 0]
  /\ staged = [b \in 1..Blocks |-> [holds |-> {}, until |-> 0]]
  /\ jobs = <<>>
  /\ worker = [at |-> "idle", batch |-> <<>>, scanned |-> 0, live |-> {},
               slot |-> 1, values |-> [s \in 1..Slots |-> 0], own |-> 0]
  /\ through = 0
  /\ queue = [q \in Queues |-> <<>>]
  /\ reached = [t \in {"done", "own"} |-> 0]
  /\ mips = [m \in Mips |->
       [state |-> IF backend = "dx12" THEN "copy" ELSE "undefined", holds |-> 0]]
  /\ settled = {} /\ base = 0
  /\ owed = 0 /\ frames = 0 /\ idling = FALSE
  /\ wrong = {}

Call ==
  \/ \E prefix \in 1..Levels : Create(prefix)
  \/ \E i \in Images, level \in 1..Levels : Update(i, level)
  \/ Reject
  \/ \E i \in Images : Cancel(i)
  \/ \E i \in Images, levels \in 1..Levels : Frame(i, levels)
  \/ IdleBegin

Work ==
  \/ \E n \in 1..MaxJobs : Take(n)
  \/ Reuse \/ Scan \/ SubmitRelease \/ SubmitCopy \/ SubmitAcquire

Next ==
  \/ Call
  \/ CommitMarker
  \/ Work
  \/ Fail
  \/ \E q \in Queues : Execute(q)
  \/ IdleReturn \/ IdleFails

Spec == Init /\ [][Next]_vars

\* The worker's thread and the queues go on, and a call that is under way is
\* finished by its thread.
FairSpec ==
  /\ Spec
  /\ WF_vars(Work)
  /\ \A q \in Queues : WF_vars(Execute(q))
  /\ WF_vars(CommitMarker)
  /\ WF_vars(IdleReturn \/ IdleFails)

-----------------------------------------------------------------------------
TypeOK ==
  /\ backend \in Backends
  /\ next \in 1..(MaxJobs + 1) /\ created \in 0..ImageCount /\ cancelled \subseteq Images
  /\ completion \in [Mips -> 0..MaxJobs]
  /\ staged \in [1..Blocks -> [holds : SUBSET (1..MaxJobs), until : 0..MaxJobs]]
  /\ worker.at \in {"idle", "reuse", "scan", "release", "copy", "acquire", "failed"}
  /\ worker.live \subseteq 1..MaxJobs /\ worker.slot \in 1..Slots
  /\ through \in 0..MaxJobs /\ DOMAIN queue = Queues
  /\ DOMAIN reached = {"done", "own"} /\ DOMAIN mips = Mips
  /\ settled \subseteq 1..MaxJobs /\ base \in 0..MaxJobs /\ owed \in 0..MaxJobs
  /\ frames \in 0..MaxFrames /\ idling \in BOOLEAN
  /\ wrong \subseteq {"unfilled", "handoff", "staging", "sampled"}

\* A barrier names the state its mip is in and a copy writes a mip that is its
\* own, whatever was cancelled between the parts of a batch and in whatever order
\* the queues run (the ownership transfers of submit_batch in both backends).
HandoffsMatch == "handoff" \notin wrong

\* A frame samples, in the state for sampling, exactly the last copy of each mip
\* that was submitted before the frame: no later copy overtakes the frame and no
\* earlier one is missing.
SamplesExact == "sampled" \notin wrong

\* What is used again is not in use: a copy reads the bytes it was submitted
\* with, whatever was staged since, and the command buffers of a slot are reset
\* only after everything recorded in them has run.
ReusedIdle ==
  /\ "staging" \notin wrong
  /\ worker.at = "scan" /\ backend # "metal" =>
       \A q \in Queues : \A k \in DOMAIN queue[q] : queue[q][k].slot # worker.slot

\* Once the last value of a cancelled image has completed, no copy and no
\* barrier on a queue names the image, and none will: it can be destroyed as
\* soon as the frames that sample it have ended.
Named(s, i) == \E k \in DOMAIN s.cmds : s.cmds[k].mip[1] = i /\ s.cmds[k].op # "sample"
LastOf(i) == {completion[<<i, l>>] : l \in 1..Levels}
RetiredUnnamed ==
  \A i \in cancelled :
    (\A v \in LastOf(i) : v <= Completed) =>
      /\ \A q \in Queues : \A k \in DOMAIN queue[q] : ~Named(queue[q][k], i)
      /\ worker.at \in {"release", "copy", "acquire"} =>
           \A k \in DOMAIN LiveJobs : LiveJobs[k].mip[1] # i

\* Memory is given up only when nothing on a queue refers to it any longer:
\* staging blocks and command slots to later jobs, images to destruction.
MemoryIdle == ReusedIdle /\ RetiredUnnamed

\* What was admitted is copied, what was submitted runs, and wait_idle returns:
\* no frame stands, on the graphics queue, in front of the submission that would
\* wake it, and nobody waits for a value that no job was given.
Busy == ~Drained \/ idling \/ (~Failed /\ ~Flushed)
WorkEnds == Busy ~> ~Busy
=============================================================================
