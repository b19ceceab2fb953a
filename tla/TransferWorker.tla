--------------------------- MODULE TransferWorker ---------------------------
(***************************************************************************)
(* The transfer-owner thread of ez-gfx-hal (src/transfer/worker.rs) and    *)
(* the callers that share it.  Callers append jobs and flush requests to   *)
(* an unbounded channel; the owner drains it in FIFO order, coalesces      *)
(* adjacent jobs of one group into native batches, and publishes the       *)
(* largest completion token it has submitted.  A native failure poisons    *)
(* two latches (`failed`, `lost`), after which the owner drains the        *)
(* device, closes its inbox and stops.                                     *)
(*                                                                         *)
(* One step is one indivisible access to shared state: a channel send or   *)
(* receive, an atomic store, a critical section of `accepted` or `state`.  *)
(* failed() and admission_error() are one read of both latches: `lost` is  *)
(* stored before `failed`, so a caller never sees a cause-less failure     *)
(* that a later read of `lost` would rename.                               *)
(***************************************************************************)
EXTENDS Integers, Sequences, FiniteSets

CONSTANTS
  Callers,      \* threads that share the worker
  NoCaller,     \* "nobody": a free mutex, a flush nobody waits for
  Job,          \* jobs callers submit: a completion token (0: unordered work),
                \* a group key no native batch mixes, the bytes staged
  BatchCopies,  \* StagingPolicy.batch_copies
  BatchBytes,   \* StagingPolicy.batch_bytes
  MaxJobs,      \* bound: jobs admitted in one behaviour
  MaxBundle,    \* bound: jobs of one submit_batch
  MaxCalls      \* bound: calls begun, plus spurious wake-ups, in one behaviour

ASSUME CallersAssumption == NoCaller \notin Callers
ASSUME JobAssumption ==
  \A j \in Job : j.token \in Nat /\ j.bytes \in Nat /\ j.group \in Nat
ASSUME BoundsAssumption ==
  /\ BatchCopies \in Nat \ {0} /\ BatchBytes \in Nat \ {0}
  /\ MaxJobs \in Nat /\ MaxBundle \in Nat /\ MaxCalls \in Nat

VARIABLES
  admitted,   \* every job ever sent, in channel order; a job's id is its index
  log,        \* ids handed to the native queue by a submit that succeeded
  accepted,   \* highest token admitted (Mutex<u64>)
  admission,  \* the caller inside the critical section of `accepted`
  open,       \* the sender has not been taken by shutdown
  joining,    \* shutdown waits for the thread to end
  inbox,      \* the channel and the bundle being expanded, as one FIFO
  receiving,  \* the receiver has not been dropped
  queued,     \* jobs admitted and not yet taken by the owner (AtomicUsize)
  failed, lost,                 \* the poison latches (AtomicBool)
  submitted, stopped, drained,  \* SubmissionState
  monitor,    \* the caller inside the critical section of `state`
  wpc,        \* where the owner thread is
  carry,      \* id of the job that ended the previous batch; 0 for None
  batch,      \* ids of the batch being gathered or submitted
  total, final,  \* its bytes and its largest token
  ack,        \* the caller whose flush ended this batch
  outcome,    \* how the submission loop ended
  calls,      \* calls begun and spurious wake-ups taken
  pc, call, reply, result   \* per caller

queueVars  == <<admitted, accepted, inbox, queued>>
latchVars  == <<failed, lost>>
stateVars  == <<submitted, stopped, drained>>
ownerVars  == <<wpc, carry, batch, total, final, ack, outcome, log, receiving>>
callVars   == <<pc, call, reply, result>>
lifeVars   == <<open, joining>>
vars == <<queueVars, latchVars, stateVars, ownerVars, callVars, lifeVars,
          admission, monitor, calls>>

Tokens == {j.token : j \in Job}
Outcomes == {"Ok", "Failed", "DeviceLost", "Panic"}
NoCall == [op |-> "none", jobs |-> <<>>, value |-> 0, mark |-> 0]

JobItem(id) == [kind |-> "job", id |-> id, by |-> NoCaller]
\* A flush request remembers how many jobs were sent before it (history).
FlushItem(by, id) == [kind |-> "flush", id |-> id, by |-> by]

MaxOf(a, b) == IF a >= b THEN a ELSE b

\* admission_error: loss outranks generic failure.
AdmissionError == IF lost THEN "DeviceLost" ELSE "Failed"
Failing == failed \/ lost
ShouldFlush == Len(batch) >= BatchCopies \/ total >= BatchBytes

\* Fault: the owner ends without waking the parked callers.
NotifiedNobody == pc
\* Waking every parked caller: Condvar::notify_all.
Notified == [c \in Callers |-> IF pc[c] = "ftParked" THEN "ftWoken" ELSE pc[c]]

Init ==
  /\ admitted = <<>> /\ log = <<>> /\ accepted = 0 /\ admission = NoCaller
  /\ open = TRUE /\ joining = FALSE
  /\ inbox = <<>> /\ receiving = TRUE /\ queued = 0
  /\ failed = FALSE /\ lost = FALSE
  /\ submitted = 0 /\ stopped = FALSE /\ drained = FALSE /\ monitor = NoCaller
  /\ wpc = "receive" /\ carry = 0 /\ batch = <<>> /\ total = 0 /\ final = 0
  /\ ack = NoCaller /\ outcome = "Ok"
  /\ calls = 0
  /\ pc = [c \in Callers |-> "idle"]
  /\ call = [c \in Callers |-> NoCall]
  /\ reply = [c \in Callers |-> "pending"]
  /\ result = [c \in Callers |-> "none"]

-----------------------------------------------------------------------------
(* Callers *)

Begins(c, request, next) ==
  /\ call' = [call EXCEPT ![c] = request]
  /\ pc' = [pc EXCEPT ![c] = next]
  /\ result' = [result EXCEPT ![c] = "none"]

Returns(c, r) ==
  /\ pc' = [pc EXCEPT ![c] = "idle"]
  /\ result' = [result EXCEPT ![c] = r]

\* A call that returns before it touches the channel.
Rejects(c, request, r) ==
  /\ call' = [call EXCEPT ![c] = request]
  /\ Returns(c, r)

Callable(c) == pc[c] = "idle" /\ ~joining /\ calls < MaxCalls

\* Fault: a token equal to the watermark is admitted.
InOrderNotStrict(jobs) ==
  \A i \in 1..Len(jobs) :
    jobs[i].token # 0 =>
      /\ jobs[i].token >= accepted
      /\ \A j \in 1..(i - 1) : jobs[j].token <= jobs[i].token

\* Ordered jobs must rise strictly above the watermark and above each other.
InOrder(jobs) ==
  \A i \in 1..Len(jobs) :
    jobs[i].token # 0 =>
      /\ jobs[i].token > accepted
      /\ \A j \in 1..(i - 1) : jobs[j].token < jobs[i].token

Valid(jobs) == jobs # <<>> /\ InOrder(jobs)

\* The watermark after a bundle: unordered jobs leave it alone.
HighWater(jobs, w) == w >= accepted /\ \A i \in 1..Len(jobs) : jobs[i].token <= w

\* submit and submit_batch, up to the channel: validation, poison check and
\* queue count, inside the critical section of `accepted`.
Submit(c, jobs) ==
  LET rejected == [NoCall EXCEPT !.op = "submit"]
      request == [rejected EXCEPT !.jobs = jobs]
  IN
  /\ Callable(c) /\ admission = NoCaller
  /\ Len(admitted) + Len(jobs) <= MaxJobs
  /\ calls' = calls + 1
  /\ \/ /\ ~Valid(jobs)
        /\ Rejects(c, rejected, "Failed")
        /\ UNCHANGED <<queued, admission>>
     \/ /\ Valid(jobs) /\ Failing
        /\ Rejects(c, rejected, AdmissionError)
        /\ UNCHANGED <<queued, admission>>
     \/ /\ Valid(jobs) /\ ~Failing /\ ~open
        /\ Rejects(c, rejected, "Failed")
        /\ UNCHANGED <<queued, admission>>
     \/ /\ Valid(jobs) /\ ~Failing /\ open
        /\ Begins(c, request, "sending")
        /\ queued' = queued + Len(jobs)
        /\ admission' = c
  /\ UNCHANGED <<admitted, accepted, inbox, latchVars, stateVars, ownerVars,
                 lifeVars, monitor, reply>>

\* Fault: a bundle is expanded from its end.
BundledReversed(jobs) ==
  [i \in 1..Len(jobs) |-> JobItem(Len(admitted) + 1 + Len(jobs) - i)]
\* A bundle enters the channel whole and is expanded in its own order.
Bundled(jobs) == [i \in 1..Len(jobs) |-> JobItem(Len(admitted) + i)]

\* The channel send that ends the critical section.
Send(c) ==
  LET jobs == call[c].jobs IN
  /\ pc[c] = "sending"
  /\ admission' = NoCaller
  /\ call' = [call EXCEPT ![c].jobs = <<>>]   \* moved into the channel
  /\ \/ /\ receiving
        /\ inbox' = inbox \o Bundled(jobs)
        /\ admitted' = admitted \o jobs
        /\ \E w \in {accepted} \cup {jobs[i].token : i \in 1..Len(jobs)} :
             HighWater(jobs, w) /\ accepted' = w
        /\ Returns(c, "Ok")
        /\ UNCHANGED queued
     \/ /\ ~receiving
        /\ queued' = queued - Len(jobs)
        /\ Returns(c, AdmissionError)
        /\ UNCHANGED <<admitted, accepted, inbox>>
  /\ UNCHANGED <<latchVars, stateVars, ownerVars, lifeVars, monitor, reply,
                 calls>>

Flush(c) ==
  LET request == [NoCall EXCEPT !.op = "flush", !.mark = Len(admitted)] IN
  /\ Callable(c)
  /\ calls' = calls + 1
  /\ \/ Failing /\ Rejects(c, request, AdmissionError)
     \/ ~Failing /\ ~open /\ Rejects(c, request, "Failed")
     \/ ~Failing /\ open /\ Begins(c, request, "flushSend")
  /\ UNCHANGED <<queueVars, latchVars, stateVars, ownerVars, lifeVars,
                 admission, monitor, reply>>

FlushSend(c) ==
  /\ pc[c] = "flushSend"
  /\ \/ /\ receiving
        /\ inbox' = Append(inbox, FlushItem(c, Len(admitted)))
        /\ reply' = [reply EXCEPT ![c] = "pending"]
        /\ pc' = [pc EXCEPT ![c] = "flushWait"]
        /\ UNCHANGED result
     \/ /\ ~receiving
        /\ Returns(c, "Failed")
        /\ UNCHANGED <<inbox, reply>>
  /\ UNCHANGED <<admitted, accepted, queued, latchVars, stateVars, ownerVars,
                 lifeVars, admission, monitor, call, calls>>

FlushReturn(c) ==
  /\ pc[c] = "flushWait"
  /\ \/ reply[c] = "ready" /\ Returns(c, "Ok")
     \/ reply[c] = "dropped" /\ Returns(c, AdmissionError)
  /\ UNCHANGED <<queueVars, latchVars, stateVars, ownerVars, lifeVars,
                 admission, monitor, call, reply, calls>>

FlushThrough(c, v) ==
  LET request == [NoCall EXCEPT !.op = "flush_through", !.value = v] IN
  /\ Callable(c) /\ admission = NoCaller
  /\ calls' = calls + 1
  /\ \/ v > accepted /\ Rejects(c, request, "Failed")
     \/ v <= accepted /\ Begins(c, request, "ftLock")
  /\ UNCHANGED <<queueVars, latchVars, stateVars, ownerVars, lifeVars,
                 admission, monitor, reply>>

\* Locks `state` and, when the token is still outstanding, wakes the owner.
FtLock(c) ==
  LET outstanding == submitted < call[c].value IN
  /\ pc[c] = "ftLock" /\ monitor = NoCaller
  /\ \/ /\ ~outstanding \/ (open /\ receiving)
        /\ inbox' = IF outstanding
                    THEN Append(inbox, FlushItem(NoCaller, Len(admitted)))
                    ELSE inbox
        /\ monitor' = c
        /\ pc' = [pc EXCEPT ![c] = "ftCheck"]
        /\ UNCHANGED result
     \/ /\ outstanding /\ ~open
        /\ Returns(c, "Failed")
        /\ UNCHANGED <<inbox, monitor>>
     \/ /\ outstanding /\ open /\ ~receiving
        /\ Returns(c, AdmissionError)
        /\ UNCHANGED <<inbox, monitor>>
  /\ UNCHANGED <<admitted, accepted, queued, latchVars, stateVars, ownerVars,
                 lifeVars, admission, call, reply, calls>>

\* One turn of the wait loop, still holding the lock.
FtCheck(c) ==
  /\ pc[c] = "ftCheck" /\ monitor = c
  /\ \/ /\ Failing \/ (stopped /\ submitted < call[c].value)
        /\ Returns(c, AdmissionError)
        /\ monitor' = NoCaller
     \/ /\ ~Failing /\ submitted >= call[c].value
        /\ Returns(c, "Ok")
        /\ monitor' = NoCaller
     \/ /\ ~Failing /\ submitted < call[c].value /\ ~stopped
        /\ pc' = [pc EXCEPT ![c] = "ftPark"]
        /\ UNCHANGED <<result, monitor>>
  /\ UNCHANGED <<queueVars, latchVars, stateVars, ownerVars, lifeVars,
                 admission, call, reply, calls>>

\* Condvar::wait releases the lock and parks in one step ...
FtPark(c) ==
  /\ pc[c] = "ftPark" /\ monitor = c
  /\ monitor' = NoCaller
  /\ pc' = [pc EXCEPT ![c] = "ftParked"]
  /\ UNCHANGED <<queueVars, latchVars, stateVars, ownerVars, lifeVars,
                 admission, call, reply, result, calls>>

\* ... may wake without a notification, and locks again before it returns.
FtWakeSpuriously(c) ==
  /\ pc[c] = "ftParked" /\ calls < MaxCalls
  /\ calls' = calls + 1
  /\ pc' = [pc EXCEPT ![c] = "ftWoken"]
  /\ UNCHANGED <<queueVars, latchVars, stateVars, ownerVars, lifeVars,
                 admission, monitor, call, reply, result>>

FtRelock(c) ==
  /\ pc[c] = "ftWoken" /\ monitor = NoCaller
  /\ monitor' = c
  /\ pc' = [pc EXCEPT ![c] = "ftCheck"]
  /\ UNCHANGED <<queueVars, latchVars, stateVars, ownerVars, lifeVars,
                 admission, call, reply, result, calls>>

\* shutdown takes the worker by exclusive reference: no call is under way.
Shutdown ==
  /\ open /\ \A c \in Callers : pc[c] = "idle"
  /\ open' = FALSE /\ joining' = TRUE
  /\ UNCHANGED <<queueVars, latchVars, stateVars, ownerVars, callVars,
                 admission, monitor, calls>>

Join ==
  /\ joining /\ wpc = "dead"
  /\ joining' = FALSE
  /\ UNCHANGED <<queueVars, latchVars, stateVars, ownerVars, callVars, open,
                 admission, monitor, calls>>

-----------------------------------------------------------------------------
(* The owner thread *)

OwnerFrame == UNCHANGED <<admitted, accepted, latchVars, stateVars, outcome,
                          log, receiving, lifeVars, admission, monitor, calls,
                          pc, call, result>>

Waiting(kind) == inbox # <<>> /\ Head(inbox).kind = kind

\* A batch starts with the carried job, or with the next job of the channel.
Starts(id) ==
  /\ batch' = <<id>> /\ carry' = 0
  /\ total' = admitted[id].bytes /\ final' = admitted[id].token
  /\ wpc' = "gather"

ReceiveCarry ==
  /\ wpc = "receive" /\ carry # 0
  /\ Starts(carry)
  /\ UNCHANGED <<inbox, queued, reply, ack>> /\ OwnerFrame

ReceiveJob ==
  /\ wpc = "receive" /\ carry = 0 /\ Waiting("job")
  /\ inbox' = Tail(inbox) /\ queued' = queued - 1
  /\ Starts(Head(inbox).id)
  /\ UNCHANGED <<reply, ack>> /\ OwnerFrame

\* An idle owner has nothing unsubmitted: it acknowledges a flush at once.
ReceiveFlush ==
  /\ wpc = "receive" /\ carry = 0 /\ Waiting("flush")
  /\ inbox' = Tail(inbox)
  /\ reply' = [c \in Callers |->
                 IF c = Head(inbox).by THEN "ready" ELSE reply[c]]
  /\ UNCHANGED <<carry, batch, total, final, wpc, queued, ack>> /\ OwnerFrame

\* The sender is gone and the channel empty.
ReceiveEnd ==
  /\ wpc = "receive" /\ carry = 0 /\ inbox = <<>> /\ ~open
  /\ wpc' = "drain"
  /\ UNCHANGED <<inbox, queued, reply, carry, batch, total, final, ack>>
  /\ OwnerFrame

\* The policy, or an empty channel (the 200us deadline, the sender gone), ends
\* the batch: try_recv comes before the deadline is looked at.
GatherEnd ==
  /\ wpc = "gather" /\ (ShouldFlush \/ inbox = <<>>)
  /\ wpc' = "submit"
  /\ UNCHANGED <<inbox, queued, batch, total, final, carry, ack, reply>>
  /\ OwnerFrame

\* A job of the same group joins; the first of another group is carried over.
GatherJob ==
  /\ wpc = "gather" /\ ~ShouldFlush /\ Waiting("job")
  /\ inbox' = Tail(inbox) /\ queued' = queued - 1
  /\ LET id == Head(inbox).id IN
     \/ /\ admitted[id].group = admitted[batch[1]].group
        /\ batch' = Append(batch, id)
        /\ total' = total + admitted[id].bytes
        /\ final' = MaxOf(final, admitted[id].token)
        /\ UNCHANGED <<carry, wpc>>
     \/ /\ admitted[id].group # admitted[batch[1]].group
        /\ carry' = id /\ wpc' = "submit"
        /\ UNCHANGED <<batch, total, final>>
  /\ UNCHANGED <<ack, reply>> /\ OwnerFrame

\* Fault: a flush is answered before the batch it ends.
GatherFlushEarly ==
  /\ wpc = "gather" /\ ~ShouldFlush /\ Waiting("flush")
  /\ inbox' = Tail(inbox)
  /\ reply' = [c \in Callers |->
                 IF c = Head(inbox).by THEN "ready" ELSE reply[c]]
  /\ wpc' = "submit"
  /\ UNCHANGED <<queued, batch, total, final, carry, ack>> /\ OwnerFrame

\* A flush ends the batch and is answered after its submission.
GatherFlush ==
  /\ wpc = "gather" /\ ~ShouldFlush /\ Waiting("flush")
  /\ inbox' = Tail(inbox)
  /\ ack' = Head(inbox).by
  /\ wpc' = "submit"
  /\ UNCHANGED <<queued, batch, total, final, carry, reply>> /\ OwnerFrame

\* The native callback.  On an error the loop is left with `?` (or unwound),
\* which drops the reply channel of the flush that ended the batch.
SubmitNative ==
  /\ wpc = "submit"
  /\ \E o \in Outcomes :
       \/ /\ o = "Ok"
          /\ log' = log \o batch /\ batch' = <<>>
          /\ wpc' = "publish"
          /\ UNCHANGED <<ack, outcome, reply>>
       \/ /\ o # "Ok"
          /\ outcome' = o /\ wpc' = "latchLost"
          /\ ack' = NoCaller
          /\ reply' = [c \in Callers |->
                         IF c = ack THEN "dropped" ELSE reply[c]]
          /\ UNCHANGED <<log, batch>>
  /\ UNCHANGED <<queueVars, latchVars, stateVars, carry, total, final,
                 receiving, lifeVars, admission, monitor, calls, pc, call,
                 result>>

Publish ==
  /\ wpc = "publish" /\ monitor = NoCaller
  /\ submitted' = MaxOf(submitted, final)
  /\ pc' = Notified
  /\ wpc' = "acknowledge"
  /\ UNCHANGED <<queueVars, latchVars, stopped, drained, carry, batch, total,
                 final, ack, outcome, log, receiving, lifeVars, admission,
                 monitor, calls, call, reply, result>>

Acknowledge ==
  /\ wpc = "acknowledge"
  /\ reply' = [c \in Callers |-> IF c = ack THEN "ready" ELSE reply[c]]
  /\ ack' = NoCaller /\ total' = 0 /\ final' = 0
  /\ wpc' = "receive"
  /\ UNCHANGED <<queueVars, latchVars, stateVars, carry, batch, outcome, log,
                 receiving, lifeVars, admission, monitor, calls, pc, call,
                 result>>

\* After a failed submission: name the loss, then latch the failure, then wake
\* the parked callers under the lock.
LatchLost ==
  /\ wpc = "latchLost"
  /\ lost' = (lost \/ outcome = "DeviceLost")
  /\ wpc' = "latchFailed"
  /\ UNCHANGED <<queueVars, failed, stateVars, carry, batch, total, final, ack,
                 outcome, log, receiving, lifeVars, admission, monitor, calls,
                 callVars>>

LatchFailed ==
  /\ wpc = "latchFailed"
  /\ failed' = TRUE
  /\ wpc' = "wake"
  /\ UNCHANGED <<queueVars, lost, stateVars, carry, batch, total, final, ack,
                 outcome, log, receiving, lifeVars, admission, monitor, calls,
                 callVars>>

WakeFailed ==
  /\ wpc = "wake" /\ monitor = NoCaller
  /\ pc' = Notified
  /\ wpc' = "drain"
  /\ UNCHANGED <<queueVars, latchVars, stateVars, carry, batch, total, final,
                 ack, outcome, log, receiving, lifeVars, admission, monitor,
                 calls, call, reply, result>>

\* The shutdown callback; a drain that reports loss poisons the latch too.
Drain ==
  /\ wpc = "drain"
  /\ \E o \in Outcomes :
       /\ lost' = (lost \/ o = "DeviceLost")
       /\ outcome' = IF o = "Ok" THEN outcome ELSE "DrainFailed"
  /\ wpc' = "recordDrain"
  /\ UNCHANGED <<queueVars, failed, stateVars, carry, batch, total, final, ack,
                 log, receiving, lifeVars, admission, monitor, calls, callVars>>

RecordDrain ==
  /\ wpc = "recordDrain" /\ monitor = NoCaller
  /\ drained' = (outcome # "DrainFailed")
  /\ wpc' = "dropInbox"
  /\ UNCHANGED <<queueVars, latchVars, submitted, stopped, carry, batch, total,
                 final, ack, outcome, log, receiving, lifeVars, admission,
                 monitor, calls, callVars>>

\* Locals drop in reverse order: the inbox with every undelivered request ...
DropInbox ==
  /\ wpc = "dropInbox"
  /\ receiving' = FALSE /\ inbox' = <<>> /\ carry' = 0
  /\ reply' = [c \in Callers |->
                 IF \E i \in 1..Len(inbox) : inbox[i].by = c
                 THEN "dropped" ELSE reply[c]]
  /\ wpc' = "exitLatch"
  /\ UNCHANGED <<admitted, accepted, queued, latchVars, stateVars, batch, total,
                 final, ack, outcome, log, lifeVars, admission, monitor, calls,
                 pc, call, result>>

\* ... then WorkerExit, which latches an unclean end and wakes everybody.
ExitLatch ==
  /\ wpc = "exitLatch"
  /\ failed' = (failed \/ outcome # "Ok")
  /\ wpc' = "exitStop"
  /\ UNCHANGED <<queueVars, lost, stateVars, carry, batch, total, final, ack,
                 outcome, log, receiving, lifeVars, admission, monitor, calls,
                 callVars>>

ExitStop ==
  /\ wpc = "exitStop" /\ monitor = NoCaller
  /\ stopped' = TRUE
  /\ pc' = Notified
  /\ wpc' = "dead"
  /\ UNCHANGED <<queueVars, latchVars, submitted, drained, carry, batch, total,
                 final, ack, outcome, log, receiving, lifeVars, admission,
                 monitor, calls, call, reply, result>>

-----------------------------------------------------------------------------

\* What one thread does after it has entered a call.
Proceed(c) ==
  \/ Send(c) \/ FlushSend(c) \/ FlushReturn(c)
  \/ FtLock(c) \/ FtCheck(c) \/ FtPark(c) \/ FtRelock(c)

Owner ==
  \/ ReceiveCarry \/ ReceiveJob \/ ReceiveFlush \/ ReceiveEnd
  \/ GatherEnd \/ GatherJob \/ GatherFlush \/ SubmitNative \/ Publish \/ Acknowledge
  \/ LatchLost \/ LatchFailed \/ WakeFailed \/ Drain \/ RecordDrain
  \/ DropInbox \/ ExitLatch \/ ExitStop

\* Bundles a caller may submit; a single submit is a bundle of one.
Bundles == UNION {[1..n -> Job] : n \in 0..MaxBundle}

\* A behaviour may rest once its calls are spent: MaxCalls bounds the model.
Rest == calls = MaxCalls /\ UNCHANGED vars

Next ==
  \/ \E c \in Callers :
       \/ \E jobs \in Bundles : Submit(c, jobs)
       \/ Flush(c)
       \/ \E v \in Tokens : FlushThrough(c, v)
       \/ Proceed(c) \/ FtWakeSpuriously(c)
  \/ Owner \/ Shutdown \/ Join \/ Rest

Spec == Init /\ [][Next]_vars

\* The native callbacks return and the OS schedules every runnable thread.
Fairness == WF_vars(Owner) /\ WF_vars(Join)
            /\ \A c \in Callers : WF_vars(Proceed(c))

LiveSpec == Spec /\ Fairness

-----------------------------------------------------------------------------
(* What the worker promises *)

CallerPcs == {"idle", "sending", "flushSend", "flushWait", "ftLock", "ftCheck",
              "ftPark", "ftParked", "ftWoken"}
OwnerPcs == {"receive", "gather", "submit", "publish", "acknowledge",
             "latchLost", "latchFailed", "wake", "drain", "recordDrain",
             "dropInbox", "exitLatch", "exitStop", "dead"}
Item == [kind : {"job", "flush"}, id : Nat, by : Callers \cup {NoCaller}]
Call == [op : {"none", "submit", "flush", "flush_through"}, jobs : Seq(Job),
         value : Nat, mark : Nat]

\* The shape of every variable; the type invariant.
TypeOK ==
  /\ admitted \in Seq(Job) /\ log \in Seq(Nat) /\ accepted \in Nat
  /\ admission \in Callers \cup {NoCaller} /\ monitor \in Callers \cup {NoCaller}
  /\ open \in BOOLEAN /\ joining \in BOOLEAN
  /\ inbox \in Seq(Item) /\ receiving \in BOOLEAN /\ queued \in Int
  /\ failed \in BOOLEAN /\ lost \in BOOLEAN
  /\ submitted \in Nat /\ stopped \in BOOLEAN /\ drained \in BOOLEAN
  /\ wpc \in OwnerPcs /\ carry \in Nat /\ batch \in Seq(Nat)
  /\ total \in Nat /\ final \in Nat /\ ack \in Callers \cup {NoCaller}
  /\ outcome \in Outcomes \cup {"DrainFailed"} /\ calls \in Nat
  /\ pc \in [Callers -> CallerPcs] /\ call \in [Callers -> Call]
  /\ reply \in [Callers -> {"pending", "ready", "dropped"}]
  /\ result \in [Callers -> {"none", "Ok", "Failed", "DeviceLost"}]

\* Jobs the owner has taken out of the inbox.
Taken == Len(log) + Len(batch) + (IF carry = 0 THEN 0 ELSE 1)

\* No job is lost, repeated or reordered between admission and the native
\* queue: the submitted log, the batch in flight, the carried job and the
\* inbox are, in this order, exactly the admitted jobs in admission order.
FifoOrder ==
  /\ \A i \in 1..Len(log) : log[i] = i
  /\ \A i \in 1..Len(batch) : batch[i] = Len(log) + i
  /\ carry # 0 => carry = Len(log) + Len(batch) + 1
  /\ Len(log) + Len(batch) <= Len(admitted)
  /\ receiving =>
       /\ \A i \in 1..Len(inbox) :
            inbox[i].id = (IF i = 1 THEN Taken ELSE inbox[i - 1].id)
                          + (IF inbox[i].kind = "job" THEN 1 ELSE 0)
       /\ Len(admitted) = IF inbox = <<>> THEN Taken ELSE inbox[Len(inbox)].id

\* flush_through: Ok means every ordered job up to the token has been submitted,
\* and no job admitted later can carry such a token.
FlushThroughCovers ==
  \A c \in Callers :
    call[c].op = "flush_through" /\ result[c] = "Ok" =>
      \A i \in 1..Len(admitted) :
        admitted[i].token # 0 /\ admitted[i].token <= call[c].value
          => i <= Len(log)

\* Every call returns, whatever the owner meets: a failed batch, a panic, a
\* failed drain, a stop with requests still in the channel; and shutdown joins an
\* owner that drains what was accepted and ends.
CallsReturn ==
  /\ \A c \in Callers : pc[c] # "idle" ~> pc[c] = "idle"
  /\ joining ~> ~joining

\* The worker is an admission-ordered log with a submitted prefix: no thread
\* schedule makes a wait succeed early, a batch half enter, a job enter after
\* the owner's loop has failed, or a call under way fail on a healthy owner.
Log == INSTANCE SubmissionLog WITH
         done   <- Len(log),
         ended  <- outcome # "Ok",
         busy   <- {c \in Callers : pc[c] # "idle"},
         op     <- [c \in Callers |-> call[c].op],
         mark   <- [c \in Callers |-> call[c].mark],
         value  <- [c \in Callers |-> call[c].value]
ImplementsLog == Log!Spec

=============================================================================
