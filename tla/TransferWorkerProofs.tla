------------------------ MODULE TransferWorkerProofs ------------------------
(***************************************************************************)
(* Proofs about TransferWorker, for any callers, jobs and bounds.          *)
(***************************************************************************)
EXTENDS TransferWorker, SequenceTheorems, TLAPS

\* Where the owner is decides what it holds.
OwnerHolds ==
  /\ receiving <=> wpc \notin {"exitLatch", "exitStop", "dead"}
  /\ ~receiving => inbox = <<>>
  /\ wpc \in {"receive", "publish", "acknowledge"} => batch = <<>>
  /\ wpc \in {"gather", "submit"} => batch # <<>>
  /\ wpc = "gather" => carry = 0

\* FifoOrder relates neighbours of the inbox; this relates any two items.
InboxSorted ==
  \A i, j \in 1..Len(inbox) :
    i <= j => /\ Taken <= inbox[i].id
              /\ inbox[i].id <= inbox[j].id
              /\ inbox[j].id <= Len(admitted)

OrderInv == TypeOK /\ FifoOrder /\ OwnerHolds /\ InboxSorted

LEMMA InitOrder == Init => OrderInv
<1> SUFFICES ASSUME Init PROVE OrderInv
  OBVIOUS
<1>1. NoCall \in Call
  BY EmptySeq DEF NoCall, Call
<1>2. TypeOK
  <2>1. admitted \in Seq(Job) /\ log \in Seq(Nat) /\ inbox \in Seq(Item) /\ batch \in Seq(Nat)
    BY EmptySeq DEF Init
  <2>2. /\ pc \in [Callers -> CallerPcs] /\ call \in [Callers -> Call]
        /\ reply \in [Callers -> {"pending", "ready", "dropped"}]
        /\ result \in [Callers -> {"none", "Ok", "Failed", "DeviceLost"}]
    BY <1>1 DEF Init, CallerPcs
  <2>3. /\ accepted \in Nat /\ queued \in Int /\ submitted \in Nat /\ carry \in Nat
        /\ total \in Nat /\ final \in Nat /\ calls \in Nat
        /\ wpc \in OwnerPcs /\ outcome \in Outcomes \cup {"DrainFailed"}
    BY DEF Init, OwnerPcs, Outcomes
  <2>4. /\ admission \in Callers \cup {NoCaller} /\ monitor \in Callers \cup {NoCaller}
        /\ ack \in Callers \cup {NoCaller}
        /\ open \in BOOLEAN /\ joining \in BOOLEAN /\ receiving \in BOOLEAN
        /\ failed \in BOOLEAN /\ lost \in BOOLEAN
        /\ stopped \in BOOLEAN /\ drained \in BOOLEAN
    BY DEF Init
  <2>5. QED
    BY <2>1, <2>2, <2>3, <2>4 DEF TypeOK
<1>3. FifoOrder
  BY DEF Init, FifoOrder, Taken
<1>4. OwnerHolds /\ InboxSorted
  BY DEF Init, OwnerHolds, InboxSorted
<1>5. QED
  BY <1>2, <1>3, <1>4 DEF OrderInv

\* What the order invariants speak of.
orderVars == <<admitted, log, inbox, receiving, batch, carry, wpc>>

LEMMA OrderFrame ==
  ASSUME FifoOrder, OwnerHolds, InboxSorted, UNCHANGED orderVars
  PROVE  FifoOrder' /\ OwnerHolds' /\ InboxSorted'
  BY DEF orderVars, FifoOrder, OwnerHolds, InboxSorted, Taken

LEMMA TypeFacts ==
  ASSUME TypeOK
  PROVE  /\ inbox \in Seq(Item) /\ admitted \in Seq(Job) /\ batch \in Seq(Nat)
         /\ log \in Seq(Nat) /\ carry \in Nat
         /\ Len(inbox) \in Nat /\ Len(admitted) \in Nat /\ Len(batch) \in Nat
         /\ Len(log) \in Nat /\ Taken \in Nat
         /\ \A i \in 1..Len(inbox) : inbox[i] \in Item /\ inbox[i].id \in Nat
<1>1. /\ inbox \in Seq(Item) /\ admitted \in Seq(Job) /\ batch \in Seq(Nat)
      /\ log \in Seq(Nat) /\ carry \in Nat
  BY DEF TypeOK
<1>2. /\ Len(inbox) \in Nat /\ Len(admitted) \in Nat /\ Len(batch) \in Nat
      /\ Len(log) \in Nat
  BY <1>1, LenProperties
<1>3. Taken \in Nat
  BY <1>1, <1>2 DEF Taken
<1>4. \A i \in 1..Len(inbox) : inbox[i] \in Item
  BY <1>1, ElementOfSeq
<1>5. \A it \in Item : it.id \in Nat
  BY DEF Item
<1>6. QED
  BY <1>1, <1>2, <1>3, <1>4, <1>5

\* Items appended to the inbox keep the order when they continue it.
LEMMA OrderAppend ==
  ASSUME OrderInv, receiving, NEW items \in Seq(Item), items # <<>>,
         inbox' = inbox \o items, admitted' \in Seq(Job),
         \A i \in 1..Len(items) :
           /\ items[i].id = (IF i = 1 THEN Len(admitted) ELSE items[i - 1].id)
                            + (IF items[i].kind = "job" THEN 1 ELSE 0)
           /\ Len(admitted) <= items[i].id /\ items[i].id <= Len(admitted')
           /\ \A j \in 1..i : items[j].id <= items[i].id,
         items[Len(items)].id = Len(admitted'),
         UNCHANGED <<log, receiving, batch, carry, wpc>>
  PROVE  FifoOrder' /\ OwnerHolds' /\ InboxSorted' /\ inbox' \in Seq(Item)
<1>1. TypeOK
  BY DEF OrderInv
<1>2. /\ inbox' \in Seq(Item) /\ Len(inbox') = Len(inbox) + Len(items)
      /\ \A i \in 1..Len(inbox') :
           inbox'[i] = IF i <= Len(inbox) THEN inbox[i] ELSE items[i - Len(inbox)]
  BY <1>1, TypeFacts, ConcatProperties
<1>3. /\ Len(items) \in Nat /\ Len(items) >= 1
      /\ \A i \in 1..Len(items) : items[i] \in Item /\ items[i].id \in Nat
  <2>1. \A it \in Item : it.id \in Nat
    BY DEF Item
  <2>2. QED
    BY <2>1, EmptySeq, LenProperties, ElementOfSeq
<1> DEFINE m == Len(inbox)
<1>0. m \in Nat /\ Len(admitted) \in Nat /\ Len(inbox') = m + Len(items)
  BY <1>1, <1>2, TypeFacts
<1>4. Taken' = Taken /\ Len(admitted) <= Len(admitted')
  BY <1>3 DEF Taken
<1>5. /\ \A i \in 1..Len(inbox) : Taken <= inbox[i].id /\ inbox[i].id <= Len(admitted)
      /\ Taken <= Len(admitted)
      /\ Len(admitted) = IF Len(inbox) = 0 THEN Taken ELSE inbox[Len(inbox)].id
  <2>1. \A i \in 1..Len(inbox) : Taken <= inbox[i].id /\ inbox[i].id <= Len(admitted)
    BY DEF OrderInv, InboxSorted
  <2>2. Len(admitted) = IF inbox = <<>> THEN Taken ELSE inbox[Len(inbox)].id
    BY DEF OrderInv, FifoOrder
  <2>3. inbox = <<>> <=> Len(inbox) = 0
    BY <1>1, TypeFacts, EmptySeq
  <2>4. QED
    BY <1>1, <2>1, <2>2, <2>3, TypeFacts
<1>6. InboxSorted'
  <2> SUFFICES ASSUME NEW i \in 1..Len(inbox'), NEW j \in 1..Len(inbox'), i <= j
               PROVE  /\ Taken <= inbox'[i].id /\ inbox'[i].id <= inbox'[j].id
                      /\ inbox'[j].id <= Len(admitted')
    BY <1>4 DEF InboxSorted
  <2>1. CASE j <= Len(inbox)
    <3>1. /\ i \in 1..Len(inbox) /\ j \in 1..Len(inbox)
          /\ inbox'[i] = inbox[i] /\ inbox'[j] = inbox[j]
      BY <2>1, <1>0, <1>2
    <3>2. /\ Taken <= inbox[i].id /\ inbox[i].id <= inbox[j].id
          /\ inbox[j].id <= Len(admitted)
      BY <3>1 DEF OrderInv, InboxSorted
    <3>3. inbox[j].id \in Nat /\ Len(admitted) \in Nat /\ Len(admitted') \in Nat
      BY <1>1, <3>1, TypeFacts, LenProperties
    <3>4. QED
      BY <1>4, <3>1, <3>2, <3>3
  <2>2. CASE i <= Len(inbox) /\ j > Len(inbox)
    <3>1. j - Len(inbox) \in 1..Len(items)
      BY <2>2, <1>1, <1>2, <1>3, TypeFacts
    <3>2. inbox'[i] = inbox[i] /\ inbox'[j] = items[j - Len(inbox)]
      BY <2>2, <1>1, <1>2, TypeFacts
    <3>3. /\ Taken <= inbox[i].id /\ inbox[i].id <= Len(admitted)
          /\ inbox[i].id \in Nat /\ Taken \in Nat
      BY <2>2, <1>1, <1>2, <1>5, TypeFacts
    <3>4. /\ Len(admitted) <= items[j - Len(inbox)].id
          /\ items[j - Len(inbox)].id <= Len(admitted')
          /\ items[j - Len(inbox)].id \in Nat /\ Len(admitted) \in Nat
      BY <3>1, <1>1, <1>3, TypeFacts
    <3>5. QED
      BY <3>2, <3>3, <3>4
  <2>3. CASE i > Len(inbox)
    <3>1. /\ i - Len(inbox) \in 1..Len(items) /\ j - Len(inbox) \in 1..Len(items)
          /\ i - Len(inbox) \in 1..(j - Len(inbox)) /\ j > Len(inbox)
      BY <2>3, <1>1, <1>2, <1>3, TypeFacts
    <3>2. /\ inbox'[i] = items[i - Len(inbox)] /\ inbox'[j] = items[j - Len(inbox)]
      BY <2>3, <3>1, <1>1, <1>2, TypeFacts
    <3>3. /\ Len(admitted) <= items[i - Len(inbox)].id
          /\ items[i - Len(inbox)].id <= items[j - Len(inbox)].id
          /\ items[j - Len(inbox)].id <= Len(admitted')
          /\ items[i - Len(inbox)].id \in Nat /\ items[j - Len(inbox)].id \in Nat
      BY <3>1, <1>1, <1>3, TypeFacts
    <3>4. Taken \in Nat /\ Taken <= Len(admitted) /\ Len(admitted) \in Nat
      BY <1>1, <1>5, TypeFacts
    <3>5. QED
      BY <3>2, <3>3, <3>4
  <2>4. QED
    BY <2>1, <2>2, <2>3, <1>0, <1>3
<1>7. \A i \in 1..Len(inbox') :
        inbox'[i].id = (IF i = 1 THEN Taken' ELSE inbox'[i - 1].id)
                       + (IF inbox'[i].kind = "job" THEN 1 ELSE 0)
  <2> SUFFICES ASSUME NEW i \in 1..Len(inbox')
               PROVE inbox'[i].id = (IF i = 1 THEN Taken' ELSE inbox'[i - 1].id)
                                    + (IF inbox'[i].kind = "job" THEN 1 ELSE 0)
    OBVIOUS
  <2>1. CASE i <= Len(inbox)
    BY <2>1, <1>1, <1>2, <1>3, <1>4, TypeFacts DEF OrderInv, FifoOrder
  <2>2. CASE i = Len(inbox) + 1
    BY <2>2, <1>1, <1>2, <1>3, <1>4, <1>5, TypeFacts
  <2>3. CASE i > Len(inbox) + 1
    <3> DEFINE k == i - m
    <3>1. /\ k \in Int /\ k >= 2 /\ k <= Len(items) /\ i - 1 \in 1..Len(inbox')
          /\ (i - 1) - m = k - 1 /\ i > m /\ i - 1 > m /\ i # 1
      BY <2>3, <1>0, <1>3
    <3>2. /\ inbox'[i] = items[k] /\ inbox'[i - 1] = items[k - 1]
      BY <3>1, <1>0, <1>2
    <3> HIDE DEF k
    <3>3. k \in 1..Len(items)
      BY <3>1, <1>3
    <3>4. items[k].id = (IF k = 1 THEN Len(admitted) ELSE items[k - 1].id)
                        + (IF items[k].kind = "job" THEN 1 ELSE 0)
      BY <3>3
    <3>5. QED
      BY <3>1, <3>2, <3>4
  <2>4. i \in Int /\ m \in Nat
    BY <1>0, <1>3
  <2>5. QED
    BY <2>1, <2>2, <2>3, <2>4
<1>8. FifoOrder'
  <2>1. Len(inbox') >= 1 /\ inbox' # <<>> /\ inbox'[Len(inbox')].id = Len(admitted')
    <3>1. /\ Len(inbox') \in 1..Len(inbox') /\ Len(inbox') > m
          /\ Len(inbox') - m = Len(items)
      BY <1>0, <1>3
    <3>2. inbox'[Len(inbox')] = items[Len(items)]
      BY <1>0, <1>2, <3>1
    <3>3. QED
      BY <1>2, <3>1, <3>2, EmptySeq
  <2>2. /\ \A i \in 1..Len(log) : log[i] = i
        /\ \A i \in 1..Len(batch) : batch[i] = Len(log) + i
        /\ carry # 0 => carry = Len(log) + Len(batch) + 1
        /\ Len(log) + Len(batch) <= Len(admitted)
    BY DEF OrderInv, FifoOrder
  <2>3. Len(log) + Len(batch) <= Len(admitted')
    BY <2>2, <1>1, <1>3, <1>4, TypeFacts
  <2>4. QED
    BY <2>1, <2>2, <2>3, <1>7 DEF FifoOrder
<1>9. OwnerHolds'
  BY DEF OrderInv, OwnerHolds
<1>10. QED
  BY <1>2, <1>6, <1>8, <1>9

\* The owner takes the first item of the inbox.
LEMMA OrderTakeFirst ==
  ASSUME OrderInv, receiving, inbox # <<>>, inbox' = Tail(inbox),
         UNCHANGED <<admitted, log, receiving>>,
         Taken' = Head(inbox).id
  PROVE  /\ inbox' \in Seq(Item) /\ InboxSorted'
         /\ \A i \in 1..Len(inbox') :
              inbox'[i].id = (IF i = 1 THEN Taken' ELSE inbox'[i - 1].id)
                             + (IF inbox'[i].kind = "job" THEN 1 ELSE 0)
         /\ Len(admitted') = IF inbox' = <<>> THEN Taken'
                             ELSE inbox'[Len(inbox')].id
         /\ Head(inbox) \in Item /\ Head(inbox).id <= Len(admitted)
         /\ Head(inbox).id = Taken + (IF Head(inbox).kind = "job" THEN 1 ELSE 0)
<1>1. TypeOK
  BY DEF OrderInv
<1>2. /\ inbox' \in Seq(Item) /\ Len(inbox') = Len(inbox) - 1
      /\ \A i \in 1..Len(inbox') : inbox'[i] = inbox[i + 1]
      /\ Head(inbox) \in Item /\ Len(inbox) >= 1 /\ Head(inbox) = inbox[1]
  BY <1>1, TypeFacts, HeadTailProperties, EmptySeq
<1>3. inbox' = <<>> <=> Len(inbox') = 0
  BY <1>2, EmptySeq
<1>4. InboxSorted'
  BY <1>1, <1>2, TypeFacts DEF OrderInv, InboxSorted
<1>5. /\ \A i \in 1..Len(inbox) :
           inbox[i].id = (IF i = 1 THEN Taken ELSE inbox[i - 1].id)
                         + (IF inbox[i].kind = "job" THEN 1 ELSE 0)
      /\ Len(admitted) = inbox[Len(inbox)].id
      /\ inbox[1].id <= Len(admitted)
  BY <1>1, <1>2, TypeFacts DEF OrderInv, FifoOrder, InboxSorted
<1>6. Len(admitted') = IF inbox' = <<>> THEN Taken' ELSE inbox'[Len(inbox')].id
  BY <1>1, <1>2, <1>3, <1>5, TypeFacts
<1>7. ASSUME NEW i \in 1..Len(inbox')
      PROVE  inbox'[i].id = (IF i = 1 THEN Taken' ELSE inbox'[i - 1].id)
                            + (IF inbox'[i].kind = "job" THEN 1 ELSE 0)
  <2>1. /\ i + 1 \in 1..Len(inbox) /\ inbox'[i] = inbox[i + 1] /\ i + 1 # 1
        /\ (i + 1) - 1 = i
        /\ i # 1 => i - 1 \in 1..Len(inbox') /\ inbox'[i - 1] = inbox[i]
    BY <1>1, <1>2, TypeFacts
  <2>2. QED
    BY <2>1, <1>2, <1>5
<1>8. QED
  BY <1>2, <1>4, <1>5, <1>6, <1>7

-----------------------------------------------------------------------------
(* Calls *)

LEMMA ReturnsTypes ==
  ASSUME TypeOK, NEW c \in Callers, NEW r \in {"Ok", "Failed", "DeviceLost"},
         Returns(c, r)
  PROVE  /\ pc' \in [Callers -> CallerPcs]
         /\ result' \in [Callers -> {"none", "Ok", "Failed", "DeviceLost"}]
  BY DEF TypeOK, Returns, CallerPcs

LEMMA AdmissionErrorType == AdmissionError \in {"Ok", "Failed", "DeviceLost"}
  BY DEF AdmissionError

\* A step of a call that leaves the inbox and the owner alone.
LEMMA CallStep ==
  ASSUME OrderInv, UNCHANGED orderVars,
         UNCHANGED <<accepted, latchVars, stateVars, ownerVars>>,
         admission' \in Callers \cup {NoCaller},
         monitor' \in Callers \cup {NoCaller},
         open' \in BOOLEAN, joining' \in BOOLEAN, queued' \in Int, calls' \in Nat,
         pc' \in [Callers -> CallerPcs], call' \in [Callers -> Call],
         reply' \in [Callers -> {"pending", "ready", "dropped"}],
         result' \in [Callers -> {"none", "Ok", "Failed", "DeviceLost"}]
  PROVE  OrderInv'
<1>1. FifoOrder' /\ OwnerHolds' /\ InboxSorted'
  BY OrderFrame DEF OrderInv
<1>2. TypeOK'
  BY DEF OrderInv, TypeOK, orderVars, ownerVars, latchVars, stateVars
<1>3. QED
  BY <1>1, <1>2 DEF OrderInv

LEMMA BundlesAreSeqs == \A jobs \in Bundles : jobs \in Seq(Job) /\ Len(jobs) \in Nat
<1> SUFFICES ASSUME NEW n \in 0..MaxBundle, NEW jobs \in [1..n -> Job]
             PROVE  jobs \in Seq(Job) /\ Len(jobs) \in Nat
  BY DEF Bundles
<1>1. n \in Nat
  BY BoundsAssumption
<1>2. QED
  BY <1>1

LEMMA SubmitStep ==
  ASSUME OrderInv, NEW c \in Callers, NEW jobs \in Bundles, Submit(c, jobs)
  PROVE  OrderInv'
<1> DEFINE rejected == [NoCall EXCEPT !.op = "submit"]
           request == [rejected EXCEPT !.jobs = jobs]
<1>1. jobs \in Seq(Job) /\ Len(jobs) \in Nat
  BY BundlesAreSeqs
<1>2. rejected \in Call /\ request \in Call
  BY <1>1, EmptySeq DEF Call, NoCall
<1>3. TypeOK
  BY DEF OrderInv
<1>4. call' \in [Callers -> Call]
  BY <1>2, <1>3 DEF Submit, Rejects, Begins, TypeOK
<1>5. /\ pc' \in [Callers -> CallerPcs]
      /\ result' \in [Callers -> {"none", "Ok", "Failed", "DeviceLost"}]
  BY <1>3, ReturnsTypes, AdmissionErrorType
     DEF Submit, Rejects, Begins, TypeOK, CallerPcs
<1>6. queued' \in Int /\ admission' \in Callers \cup {NoCaller} /\ calls' \in Nat
  BY <1>1, <1>3 DEF Submit, TypeOK
<1>7. QED
  BY <1>3, <1>4, <1>5, <1>6, CallStep
     DEF Submit, orderVars, ownerVars, lifeVars, TypeOK

LEMMA FlushStep ==
  ASSUME OrderInv, NEW c \in Callers, Flush(c)
  PROVE  OrderInv'
<1>1. TypeOK
  BY DEF OrderInv
<1>2. [NoCall EXCEPT !.op = "flush", !.mark = Len(admitted)] \in Call
  BY <1>1, TypeFacts, EmptySeq DEF NoCall, Call
<1>3. call' \in [Callers -> Call]
  <2>1. call' = [call EXCEPT ![c] = [NoCall EXCEPT !.op = "flush",
                                                   !.mark = Len(admitted)]]
    BY DEF Flush, Rejects, Begins
  <2>2. QED
    BY <1>1, <1>2, <2>1 DEF TypeOK
<1>4. calls' \in Nat
  BY <1>1 DEF Flush, TypeOK
<1>5. /\ pc' \in [Callers -> CallerPcs]
      /\ result' \in [Callers -> {"none", "Ok", "Failed", "DeviceLost"}]
  BY <1>1, ReturnsTypes, AdmissionErrorType
     DEF Flush, Rejects, Begins, TypeOK, CallerPcs
<1>6. QED
  BY <1>1, <1>3, <1>4, <1>5, CallStep
     DEF Flush, queueVars, orderVars, ownerVars, lifeVars, TypeOK

LEMMA FlushThroughStep ==
  ASSUME OrderInv, NEW c \in Callers, NEW v \in Tokens, FlushThrough(c, v)
  PROVE  OrderInv'
<1>1. TypeOK
  BY DEF OrderInv
<1>2. [NoCall EXCEPT !.op = "flush_through", !.value = v] \in Call
  BY JobAssumption, EmptySeq DEF NoCall, Call, Tokens
<1>3. call' \in [Callers -> Call]
  <2>1. call' = [call EXCEPT ![c] = [NoCall EXCEPT !.op = "flush_through",
                                                   !.value = v]]
    BY DEF FlushThrough, Rejects, Begins
  <2>2. QED
    BY <1>1, <1>2, <2>1 DEF TypeOK
<1>4. calls' \in Nat
  BY <1>1 DEF FlushThrough, TypeOK
<1>5. /\ pc' \in [Callers -> CallerPcs]
      /\ result' \in [Callers -> {"none", "Ok", "Failed", "DeviceLost"}]
  BY <1>1, ReturnsTypes DEF FlushThrough, Rejects, Begins, TypeOK, CallerPcs
<1>6. QED
  BY <1>1, <1>3, <1>4, <1>5, CallStep
     DEF FlushThrough, queueVars, orderVars, ownerVars, lifeVars, TypeOK

\* Steps that only move a caller, a lock or the life of the worker.
LEMMA PlainCallSteps ==
  ASSUME OrderInv,
         \/ \E c \in Callers : FlushReturn(c) \/ FtCheck(c) \/ FtPark(c)
                               \/ FtRelock(c) \/ FtWakeSpuriously(c)
         \/ Shutdown \/ Join
  PROVE  OrderInv'
<1>1. TypeOK
  BY DEF OrderInv
<1>2. ASSUME NEW c \in Callers, FlushReturn(c) PROVE OrderInv'
  BY <1>1, <1>2, CallStep, ReturnsTypes, AdmissionErrorType
     DEF FlushReturn, queueVars, orderVars, ownerVars, lifeVars, TypeOK
<1>3. ASSUME NEW c \in Callers, FtCheck(c) PROVE OrderInv'
  <2>1. /\ pc' \in [Callers -> CallerPcs]
        /\ result' \in [Callers -> {"none", "Ok", "Failed", "DeviceLost"}]
    BY <1>1, <1>3, ReturnsTypes, AdmissionErrorType DEF FtCheck, TypeOK, CallerPcs
  <2>2. QED
    BY <1>1, <1>3, <2>1, CallStep
       DEF FtCheck, queueVars, orderVars, ownerVars, lifeVars, TypeOK
<1>4. ASSUME NEW c \in Callers, FtPark(c) \/ FtRelock(c) \/ FtWakeSpuriously(c)
      PROVE  OrderInv'
  <2>0. \E p \in {"ftParked", "ftCheck", "ftWoken"} : pc' = [pc EXCEPT ![c] = p]
    BY <1>4 DEF FtPark, FtRelock, FtWakeSpuriously
  <2>1. pc' \in [Callers -> CallerPcs] /\ calls' \in Nat
    BY <1>1, <1>4, <2>0 DEF FtPark, FtRelock, FtWakeSpuriously, TypeOK, CallerPcs
  <2>2. QED
    BY <1>1, <1>4, <2>1, CallStep
       DEF FtPark, FtRelock, FtWakeSpuriously, queueVars, orderVars, ownerVars,
           lifeVars, TypeOK
<1>5. ASSUME Shutdown \/ Join PROVE OrderInv'
  BY <1>1, <1>5, CallStep
     DEF Shutdown, Join, queueVars, orderVars, ownerVars, callVars, TypeOK
<1>6. QED
  BY <1>2, <1>3, <1>4, <1>5

-----------------------------------------------------------------------------
(* Sends *)

\* A send that appends a flush request, or finds the inbox closed.
LEMMA FlushRequestSent ==
  ASSUME OrderInv, receiving, NEW by \in Callers \cup {NoCaller},
         inbox' = Append(inbox, FlushItem(by, Len(admitted))),
         UNCHANGED <<admitted, log, receiving, batch, carry, wpc>>
  PROVE  FifoOrder' /\ OwnerHolds' /\ InboxSorted' /\ inbox' \in Seq(Item)
<1> DEFINE it == FlushItem(by, Len(admitted))
<1>1. TypeOK
  BY DEF OrderInv
<1>2. /\ it \in Item /\ it.id = Len(admitted) /\ it.kind = "flush"
      /\ Len(admitted) \in Nat /\ inbox \in Seq(Item)
  BY <1>1, TypeFacts DEF FlushItem, Item
<1> HIDE DEF it
<1>3. <<it>> \in Seq(Item) /\ Len(<<it>>) = 1 /\ <<it>>[1] = it /\ <<it>> # <<>>
  BY <1>2
<1>4. inbox' = inbox \o <<it>>
  BY <1>2 DEF it
<1>5. admitted' \in Seq(Job) /\ Len(admitted') = Len(admitted)
  BY <1>1, TypeFacts
<1>6. ASSUME NEW i \in 1..Len(<<it>>)
      PROVE  /\ i = 1 /\ <<it>>[i] = it
             /\ <<it>>[i].id = (IF i = 1 THEN Len(admitted) ELSE <<it>>[i - 1].id)
                               + (IF <<it>>[i].kind = "job" THEN 1 ELSE 0)
             /\ Len(admitted) <= <<it>>[i].id /\ <<it>>[i].id <= Len(admitted')
             /\ \A j \in 1..i : <<it>>[j].id <= <<it>>[i].id
  BY <1>2, <1>3, <1>5
<1>7. <<it>>[Len(<<it>>)].id = Len(admitted')
  BY <1>2, <1>3, <1>5
<1>8. QED
  BY <1>3, <1>4, <1>5, <1>6, <1>7, OrderAppend

LEMMA FlushSendStep ==
  ASSUME OrderInv, NEW c \in Callers, FlushSend(c)
  PROVE  OrderInv'
<1>1. TypeOK
  BY DEF OrderInv
<1>2. CASE receiving
  <2>1. FifoOrder' /\ OwnerHolds' /\ InboxSorted' /\ inbox' \in Seq(Item)
    BY <1>2, FlushRequestSent DEF FlushSend, ownerVars
  <2>2. TypeOK'
    BY <1>1, <1>2, <2>1
       DEF FlushSend, TypeOK, CallerPcs, ownerVars, lifeVars, latchVars, stateVars
  <2>3. QED
    BY <2>1, <2>2 DEF OrderInv
<1>3. CASE ~receiving
  <2>1. Returns(c, "Failed") /\ UNCHANGED <<inbox, reply>>
    BY <1>3 DEF FlushSend
  <2>2. QED
    BY <1>1, <2>1, CallStep, ReturnsTypes
       DEF FlushSend, orderVars, ownerVars, lifeVars, TypeOK
<1>4. QED
  BY <1>2, <1>3

LEMMA FtLockStep ==
  ASSUME OrderInv, NEW c \in Callers, FtLock(c)
  PROVE  OrderInv'
<1>1. TypeOK
  BY DEF OrderInv
<1>2. CASE inbox' # inbox
  <2>1. /\ receiving /\ inbox' = Append(inbox, FlushItem(NoCaller, Len(admitted)))
        /\ monitor' = c /\ pc' = [pc EXCEPT ![c] = "ftCheck"]
        /\ UNCHANGED result
    BY <1>2 DEF FtLock
  <2>2. FifoOrder' /\ OwnerHolds' /\ InboxSorted' /\ inbox' \in Seq(Item)
    BY <2>1, FlushRequestSent DEF FtLock, ownerVars
  <2>3. TypeOK'
    BY <1>1, <2>1, <2>2
       DEF FtLock, TypeOK, CallerPcs, ownerVars, lifeVars, latchVars, stateVars
  <2>4. QED
    BY <2>2, <2>3 DEF OrderInv
<1>3. CASE inbox' = inbox
  <2>1. /\ pc' \in [Callers -> CallerPcs]
        /\ result' \in [Callers -> {"none", "Ok", "Failed", "DeviceLost"}]
        /\ monitor' \in Callers \cup {NoCaller}
    BY <1>1, ReturnsTypes, AdmissionErrorType DEF FtLock, TypeOK, CallerPcs
  <2>2. QED
    BY <1>1, <1>3, <2>1, CallStep
       DEF FtLock, orderVars, ownerVars, lifeVars, TypeOK
<1>4. QED
  BY <1>2, <1>3

LEMMA SendStep ==
  ASSUME OrderInv, NEW c \in Callers, Send(c)
  PROVE  OrderInv'
<1> DEFINE jobs == call[c].jobs
           items == Bundled(jobs)
           n == Len(admitted)
<1>1. TypeOK
  BY DEF OrderInv
<1>2. jobs \in Seq(Job) /\ Len(jobs) \in Nat /\ n \in Nat
  BY <1>1, TypeFacts DEF TypeOK, Call
<1>3. call' \in [Callers -> Call]
  BY <1>1, EmptySeq DEF Send, TypeOK, Call
<1>4. CASE receiving
  <2>1. /\ inbox' = inbox \o items /\ admitted' = admitted \o jobs
        /\ Returns(c, "Ok") /\ queued' = queued
        /\ accepted' \in {accepted} \cup {jobs[i].token : i \in 1..Len(jobs)}
    BY <1>4 DEF Send
  <2>2. /\ admitted' \in Seq(Job) /\ Len(admitted') = n + Len(jobs)
    BY <1>1, <1>2, <2>1, TypeFacts, ConcatProperties
  <2>3. /\ items \in Seq(Item) /\ Len(items) = Len(jobs)
        /\ \A i \in 1..Len(items) : items[i].id = n + i /\ items[i].kind = "job"
    <3>1. \A i \in 1..Len(jobs) : JobItem(n + i) \in Item
      BY <1>2 DEF JobItem, Item
    <3>2. items = [i \in 1..Len(jobs) |-> JobItem(n + i)]
      BY DEF Bundled
    <3>3. items \in [1..Len(jobs) -> Item]
      BY <3>1, <3>2
    <3>4. items \in Seq(Item) /\ Len(items) = Len(jobs)
      BY <1>2, <3>3
    <3>5. QED
      BY <3>2, <3>4 DEF JobItem
  <2>4. accepted' \in Nat
    <3>1. \A i \in 1..Len(jobs) : jobs[i].token \in Nat
      BY <1>2, JobAssumption, ElementOfSeq
    <3>2. QED
      BY <1>1, <2>1, <3>1 DEF TypeOK
  <2> HIDE DEF items
  <2>5. UNCHANGED <<log, receiving, batch, carry, wpc>>
    BY DEF Send, ownerVars
  <2>6. ASSUME jobs = <<>>
        PROVE  FifoOrder' /\ OwnerHolds' /\ InboxSorted' /\ inbox' \in Seq(Item)
    <3>1. items = <<>>
      BY <2>3, <2>6, EmptySeq
    <3>2. UNCHANGED <<inbox, admitted>>
      BY <1>1, <2>1, <2>6, <3>1, TypeFacts, ConcatEmptySeq
    <3>3. FifoOrder' /\ OwnerHolds' /\ InboxSorted'
      BY <2>5, <3>2, OrderFrame DEF OrderInv, orderVars
    <3>4. QED
      BY <3>2, <3>3, <1>1, TypeFacts
  <2>7. ASSUME jobs # <<>>
        PROVE  FifoOrder' /\ OwnerHolds' /\ InboxSorted' /\ inbox' \in Seq(Item)
    <3>0. Len(jobs) >= 1
      BY <1>2, <2>7, EmptySeq
    <3>1. /\ items # <<>> /\ items[Len(items)].id = Len(admitted')
      BY <1>2, <2>2, <2>3, <3>0, EmptySeq
    <3>2. ASSUME NEW i \in 1..Len(items)
          PROVE  /\ items[i].id = (IF i = 1 THEN Len(admitted) ELSE items[i - 1].id)
                                  + (IF items[i].kind = "job" THEN 1 ELSE 0)
                 /\ Len(admitted) <= items[i].id /\ items[i].id <= Len(admitted')
                 /\ \A j \in 1..i : items[j].id <= items[i].id
      <4>1. i # 1 => i - 1 \in 1..Len(items)
        BY <1>2, <2>3
      <4>2. i # 1 => items[i - 1].id = n + (i - 1)
        BY <4>1, <2>3
      <4>3. \A j \in 1..i : items[j].id = n + j
        BY <1>2, <2>3
      <4>4. QED
        BY <4>2, <4>3, <1>2, <2>2, <2>3
    <3>3. QED
      BY <1>4, <2>1, <2>2, <2>3, <2>5, <3>1, <3>2, OrderAppend
  <2>8. FifoOrder' /\ OwnerHolds' /\ InboxSorted' /\ inbox' \in Seq(Item)
    BY <2>6, <2>7
  <2>9. TypeOK'
    BY <1>1, <1>3, <2>1, <2>2, <2>4, <2>8, ReturnsTypes
       DEF Send, TypeOK, ownerVars, lifeVars, latchVars, stateVars
  <2>10. QED
    BY <2>8, <2>9 DEF OrderInv
<1>5. CASE ~receiving
  <2>1. /\ queued' = queued - Len(jobs) /\ Returns(c, AdmissionError)
        /\ UNCHANGED <<admitted, accepted, inbox>>
    BY <1>5 DEF Send
  <2>2. queued' \in Int
    BY <1>1, <1>2, <2>1 DEF TypeOK
  <2>3. QED
    BY <1>1, <1>3, <2>1, <2>2, CallStep, ReturnsTypes, AdmissionErrorType
       DEF Send, orderVars, ownerVars, lifeVars, TypeOK
<1>6. QED
  BY <1>4, <1>5

-----------------------------------------------------------------------------
(* The owner *)

LEMMA NotifiedType == TypeOK => Notified \in [Callers -> CallerPcs]
  BY DEF TypeOK, Notified, CallerPcs

\* Steps that move the owner without touching a job.
LEMMA QuietOwnerSteps ==
  ASSUME OrderInv,
         \/ ReceiveEnd \/ GatherEnd \/ Publish \/ Acknowledge \/ LatchLost
         \/ LatchFailed \/ WakeFailed \/ Drain \/ RecordDrain \/ ExitLatch
         \/ ExitStop
  PROVE  OrderInv'
<1>1. TypeOK /\ FifoOrder /\ OwnerHolds /\ InboxSorted
  BY DEF OrderInv
<1>2. UNCHANGED <<admitted, log, inbox, receiving, batch, carry>>
  BY DEF ReceiveEnd, GatherEnd, Publish, Acknowledge, LatchLost, LatchFailed,
         WakeFailed, Drain, RecordDrain, ExitLatch, ExitStop, OwnerFrame, queueVars
<1>3. FifoOrder' /\ InboxSorted'
  BY <1>1, <1>2 DEF FifoOrder, InboxSorted, Taken
<1>4. OwnerHolds'
  BY <1>1, <1>2 DEF OwnerHolds, ReceiveEnd, GatherEnd, Publish, Acknowledge,
     LatchLost, LatchFailed, WakeFailed, Drain, RecordDrain, ExitLatch, ExitStop
<1>5. ASSUME ReceiveEnd \/ GatherEnd PROVE TypeOK'
  BY <1>1, <1>5 DEF ReceiveEnd, GatherEnd, TypeOK, OwnerPcs, OwnerFrame,
     latchVars, stateVars, lifeVars
<1>6. ASSUME Publish \/ Acknowledge PROVE TypeOK'
  <2>1. pc' \in [Callers -> CallerPcs]
    BY <1>1, <1>6, NotifiedType DEF Publish, Acknowledge, TypeOK
  <2>2. reply' \in [Callers -> {"pending", "ready", "dropped"}]
    BY <1>1, <1>6 DEF Publish, Acknowledge, TypeOK
  <2>3. QED
    BY <1>1, <1>6, <2>1, <2>2
       DEF Publish, Acknowledge, TypeOK, OwnerPcs, MaxOf, queueVars, latchVars,
           stateVars, lifeVars
<1>7. ASSUME LatchLost \/ LatchFailed \/ Drain \/ RecordDrain \/ ExitLatch
      PROVE  TypeOK'
  <2>1. failed' \in BOOLEAN /\ lost' \in BOOLEAN /\ drained' \in BOOLEAN
    BY <1>1, <1>7 DEF LatchLost, LatchFailed, Drain, RecordDrain, ExitLatch,
       TypeOK, latchVars, stateVars
  <2>2. wpc' \in OwnerPcs /\ outcome' \in Outcomes \cup {"DrainFailed"}
    BY <1>1, <1>7 DEF LatchLost, LatchFailed, Drain, RecordDrain, ExitLatch,
       TypeOK, OwnerPcs
  <2>3. UNCHANGED <<queueVars, submitted, stopped, carry, batch, total, final,
                    ack, log, receiving, lifeVars, admission, monitor, calls,
                    callVars>>
    BY <1>7 DEF LatchLost, LatchFailed, Drain, RecordDrain, ExitLatch, stateVars
  <2>4. QED
    BY <1>1, <2>1, <2>2, <2>3 DEF TypeOK, queueVars, lifeVars, callVars
<1>8. ASSUME WakeFailed \/ ExitStop PROVE TypeOK'
  <2>1. pc' \in [Callers -> CallerPcs]
    BY <1>1, <1>8, NotifiedType DEF WakeFailed, ExitStop
  <2>2. QED
    BY <1>1, <1>8, <2>1 DEF WakeFailed, ExitStop, TypeOK, OwnerPcs, queueVars,
       latchVars, stateVars, lifeVars
<1>9. QED
  BY <1>3, <1>4, <1>5, <1>6, <1>7, <1>8 DEF OrderInv

LEMMA ReplyType ==
  ASSUME TypeOK, NEW w \in {"ready", "dropped"}, NEW to,
         reply' = [c \in Callers |-> IF c = to THEN w ELSE reply[c]]
  PROVE  reply' \in [Callers -> {"pending", "ready", "dropped"}]
  BY DEF TypeOK

LEMMA ReceiveCarryStep ==
  ASSUME OrderInv, ReceiveCarry
  PROVE  OrderInv'
<1>1. TypeOK /\ FifoOrder /\ OwnerHolds /\ InboxSorted
  BY DEF OrderInv
<1>2. /\ wpc = "receive" /\ carry # 0 /\ batch' = <<carry>> /\ carry' = 0
      /\ wpc' = "gather" /\ batch = <<>>
      /\ UNCHANGED <<inbox, admitted, log, receiving>>
  BY <1>1 DEF ReceiveCarry, Starts, OwnerFrame, OwnerHolds
<1>3. /\ carry = Len(log) + 1 /\ Taken = Len(log) + 1 /\ Len(log) \in Nat
      /\ carry \in Nat /\ Len(admitted) \in Nat
  BY <1>1, <1>2, TypeFacts, EmptySeq DEF FifoOrder, Taken
<1>4. Taken' = Taken
  BY <1>2, <1>3 DEF Taken
<1>5. Taken <= Len(admitted)
  BY <1>1, <1>2, <1>3, TypeFacts, EmptySeq DEF FifoOrder, InboxSorted, OwnerHolds
<1>6. FifoOrder'
  BY <1>1, <1>2, <1>3, <1>4, <1>5 DEF FifoOrder
<1>7. InboxSorted' /\ OwnerHolds'
  BY <1>1, <1>2, <1>4 DEF InboxSorted, OwnerHolds
<1>8. total' \in Nat /\ final' \in Nat /\ batch' \in Seq(Nat)
  <2>1. carry \in 1..Len(admitted)
    BY <1>3, <1>5
  <2>2. admitted[carry] \in Job
    BY <1>1, <2>1, TypeFacts, ElementOfSeq
  <2>3. QED
    BY <1>2, <1>3, <2>2, JobAssumption DEF ReceiveCarry, Starts
<1>9. TypeOK'
  BY <1>1, <1>2, <1>8 DEF ReceiveCarry, Starts, TypeOK, OwnerPcs, OwnerFrame,
     latchVars, stateVars, lifeVars
<1>10. QED
  BY <1>6, <1>7, <1>9 DEF OrderInv

LEMMA ReceiveJobStep ==
  ASSUME OrderInv, ReceiveJob
  PROVE  OrderInv'
<1>1. TypeOK /\ FifoOrder /\ OwnerHolds /\ InboxSorted
  BY DEF OrderInv
<1> DEFINE id == Head(inbox).id
<1>2. /\ wpc = "receive" /\ carry = 0 /\ batch' = <<id>> /\ carry' = 0
      /\ wpc' = "gather" /\ batch = <<>> /\ inbox # <<>> /\ inbox' = Tail(inbox)
      /\ Head(inbox).kind = "job" /\ receiving /\ queued' = queued - 1
      /\ UNCHANGED <<admitted, log, receiving>>
  BY <1>1 DEF ReceiveJob, Waiting, Starts, OwnerFrame, OwnerHolds
<1>3. Head(inbox).id = Taken + 1 /\ Taken = Len(log) /\ Len(log) \in Nat
  <2>1. /\ Head(inbox) = inbox[1] /\ 1 \in 1..Len(inbox)
    BY <1>1, <1>2, TypeFacts, EmptySeq
  <2>2. QED
    BY <1>1, <1>2, <2>1, TypeFacts, EmptySeq DEF FifoOrder, Taken
<1>4. Taken' = id
  BY <1>2, <1>3 DEF Taken
<1>5. /\ inbox' \in Seq(Item) /\ InboxSorted'
      /\ \A i \in 1..Len(inbox') :
           inbox'[i].id = (IF i = 1 THEN Taken' ELSE inbox'[i - 1].id)
                          + (IF inbox'[i].kind = "job" THEN 1 ELSE 0)
      /\ Len(admitted') = IF inbox' = <<>> THEN Taken' ELSE inbox'[Len(inbox')].id
      /\ Head(inbox) \in Item /\ id <= Len(admitted)
  BY <1>2, <1>4, OrderTakeFirst
<1>6. FifoOrder'
  <2>1. Len(batch') = 1 /\ batch'[1] = Len(log) + 1
    BY <1>2, <1>3
  <2>2. Len(log) + Len(batch') <= Len(admitted)
    BY <1>1, <1>3, <1>5, <2>1, TypeFacts
  <2>3. \A i \in 1..Len(batch') : batch'[i] = Len(log) + i
    BY <2>1
  <2>4. QED
    BY <1>1, <1>2, <1>5, <2>2, <2>3 DEF FifoOrder
<1>7. OwnerHolds'
  BY <1>1, <1>2 DEF OwnerHolds
<1>8. total' \in Nat /\ final' \in Nat /\ batch' \in Seq(Nat)
  <2>1. id \in 1..Len(admitted) /\ id \in Nat
    BY <1>1, <1>3, <1>5, TypeFacts
  <2>2. admitted[id] \in Job
    BY <1>1, <2>1, TypeFacts, ElementOfSeq
  <2>3. QED
    BY <1>2, <2>1, <2>2, JobAssumption DEF ReceiveJob, Starts
<1>9. TypeOK'
  BY <1>1, <1>2, <1>5, <1>8 DEF ReceiveJob, Starts, TypeOK, OwnerPcs, OwnerFrame,
     latchVars, stateVars, lifeVars
<1>10. QED
  BY <1>5, <1>6, <1>7, <1>9 DEF OrderInv

\* Taking a flush request leaves the jobs alone.
LEMMA TakeFlushSteps ==
  ASSUME OrderInv, ReceiveFlush \/ GatherFlush
  PROVE  OrderInv'
<1>1. TypeOK /\ FifoOrder /\ OwnerHolds /\ InboxSorted
  BY DEF OrderInv
<1>2. /\ inbox # <<>> /\ inbox' = Tail(inbox) /\ Head(inbox).kind = "flush"
      /\ receiving /\ UNCHANGED <<admitted, log, receiving, batch, carry>>
  BY <1>1 DEF ReceiveFlush, GatherFlush, Waiting, OwnerFrame, OwnerHolds
<1>3. Taken' = Taken /\ Head(inbox).id = Taken
  <2>1. /\ Head(inbox) = inbox[1] /\ 1 \in 1..Len(inbox)
    BY <1>1, <1>2, TypeFacts, EmptySeq
  <2>2. inbox[1].id = Taken + 0
    BY <1>1, <1>2, <2>1 DEF FifoOrder
  <2>3. QED
    BY <1>1, <1>2, <2>1, <2>2, TypeFacts DEF Taken
<1>4. /\ inbox' \in Seq(Item) /\ InboxSorted'
      /\ \A i \in 1..Len(inbox') :
           inbox'[i].id = (IF i = 1 THEN Taken' ELSE inbox'[i - 1].id)
                          + (IF inbox'[i].kind = "job" THEN 1 ELSE 0)
      /\ Len(admitted') = IF inbox' = <<>> THEN Taken' ELSE inbox'[Len(inbox')].id
      /\ Head(inbox) \in Item
  BY <1>2, <1>3, OrderTakeFirst
<1>5. FifoOrder'
  BY <1>1, <1>2, <1>4 DEF FifoOrder
<1>6. OwnerHolds'
  BY <1>1, <1>2 DEF ReceiveFlush, GatherFlush, OwnerHolds
<1>7. Head(inbox).by \in Callers \cup {NoCaller}
  BY <1>4 DEF Item
<1>8. ASSUME ReceiveFlush PROVE TypeOK'
  BY <1>1, <1>4, <1>8, ReplyType DEF ReceiveFlush, TypeOK, OwnerFrame, latchVars,
     stateVars, lifeVars
<1>9. ASSUME GatherFlush PROVE TypeOK'
  BY <1>1, <1>4, <1>7, <1>9 DEF GatherFlush, TypeOK, OwnerPcs, OwnerFrame,
     latchVars, stateVars, lifeVars
<1>10. QED
  BY <1>4, <1>5, <1>6, <1>8, <1>9 DEF OrderInv

LEMMA GatherJobStep ==
  ASSUME OrderInv, GatherJob
  PROVE  OrderInv'
<1>1. TypeOK /\ FifoOrder /\ OwnerHolds /\ InboxSorted
  BY DEF OrderInv
<1> DEFINE id == Head(inbox).id
<1>2. /\ wpc = "gather" /\ carry = 0 /\ batch # <<>> /\ inbox # <<>>
      /\ inbox' = Tail(inbox) /\ Head(inbox).kind = "job" /\ receiving
      /\ queued' = queued - 1
      /\ UNCHANGED <<admitted, log, receiving>>
  BY <1>1 DEF GatherJob, Waiting, OwnerFrame, OwnerHolds
<1>3. /\ id = Taken + 1 /\ Taken = Len(log) + Len(batch)
      /\ Len(log) \in Nat /\ Len(batch) \in Nat /\ id \in Nat
      /\ Len(admitted) \in Nat
  <2>1. /\ Head(inbox) = inbox[1] /\ 1 \in 1..Len(inbox)
    BY <1>1, <1>2, TypeFacts, EmptySeq
  <2>2. inbox[1].id = Taken + 1
    BY <1>1, <1>2, <2>1 DEF FifoOrder
  <2>3. QED
    BY <1>1, <1>2, <2>1, <2>2, TypeFacts DEF Taken
<1>4. \/ /\ batch' = Append(batch, id) /\ carry' = carry /\ wpc' = wpc
         /\ total' = total + admitted[id].bytes
         /\ final' = MaxOf(final, admitted[id].token)
      \/ /\ carry' = id /\ wpc' = "submit" /\ UNCHANGED <<batch, total, final>>
  BY DEF GatherJob
<1>5. /\ batch' \in Seq(Nat)
      /\ Len(batch') = Len(batch) + (IF carry' = 0 THEN 1 ELSE 0)
      /\ \A i \in 1..Len(batch') : batch'[i] = Len(log) + i
      /\ batch' # <<>> /\ carry' \in {0, id}
  <2>1. CASE carry' = id /\ batch' = batch
    BY <1>1, <1>2, <1>3, <2>1, TypeFacts DEF FifoOrder
  <2>2. CASE batch' = Append(batch, id) /\ carry' = carry
    <3>1. /\ batch' \in Seq(Nat) /\ Len(batch') = Len(batch) + 1
          /\ \A i \in 1..Len(batch') :
               batch'[i] = IF i <= Len(batch) THEN batch[i] ELSE id
      BY <1>1, <1>3, <2>2, TypeFacts
    <3>2. \A i \in 1..Len(batch) : batch[i] = Len(log) + i
      BY <1>1 DEF FifoOrder
    <3>3. batch' # <<>>
      BY <1>3, <3>1, EmptySeq
    <3>4. ASSUME NEW i \in 1..Len(batch') PROVE batch'[i] = Len(log) + i
      <4> HIDE DEF id
      <4>1. CASE i <= Len(batch)
        <5>1. i \in 1..Len(batch)
          BY <1>3, <4>1
        <5>2. QED
          BY <3>1, <3>2, <4>1, <5>1
      <4>2. CASE i > Len(batch)
        <5>1. i = Len(batch) + 1 /\ batch'[i] = id
          BY <1>3, <3>1, <4>2
        <5>2. QED
          BY <1>3, <5>1
      <4>3. QED
        BY <1>3, <3>1, <4>1, <4>2
    <3>5. QED
      BY <1>2, <2>2, <3>1, <3>3, <3>4
  <2>3. QED
    BY <1>4, <2>1, <2>2
<1>6. Taken' = id
  BY <1>2, <1>3, <1>5 DEF Taken
<1>7. /\ inbox' \in Seq(Item) /\ InboxSorted'
      /\ \A i \in 1..Len(inbox') :
           inbox'[i].id = (IF i = 1 THEN Taken' ELSE inbox'[i - 1].id)
                          + (IF inbox'[i].kind = "job" THEN 1 ELSE 0)
      /\ Len(admitted') = IF inbox' = <<>> THEN Taken' ELSE inbox'[Len(inbox')].id
      /\ Head(inbox) \in Item /\ id <= Len(admitted)
  BY <1>2, <1>6, OrderTakeFirst
<1>8. FifoOrder'
  <2>1. Len(log) + Len(batch') <= Len(admitted)
    BY <1>3, <1>5, <1>7
  <2>2. carry' # 0 => carry' = Len(log) + Len(batch') + 1
    BY <1>3, <1>5
  <2>3. QED
    BY <1>1, <1>2, <1>5, <1>7, <2>1, <2>2 DEF FifoOrder
<1>9. OwnerHolds'
  BY <1>1, <1>2, <1>4, <1>5 DEF OwnerHolds
<1>10. total' \in Nat /\ final' \in Nat /\ wpc' \in OwnerPcs
  <2>1. id \in 1..Len(admitted)
    BY <1>1, <1>3, <1>7, TypeFacts
  <2>2. admitted[id] \in Job
    BY <1>1, <2>1, TypeFacts, ElementOfSeq
  <2>3. admitted[id].bytes \in Nat /\ admitted[id].token \in Nat
        /\ total \in Nat /\ final \in Nat /\ wpc \in OwnerPcs
    BY <1>1, <2>2, JobAssumption DEF TypeOK
  <2> HIDE DEF id
  <2>4. QED
    BY <1>4, <2>3 DEF OwnerPcs, MaxOf
<1>11. TypeOK'
  <2>1. carry' \in Nat /\ queued' \in Int
    BY <1>1, <1>2, <1>3, <1>5 DEF TypeOK
  <2>2. UNCHANGED <<ack, reply>> /\ OwnerFrame
    BY DEF GatherJob
  <2>3. QED
    BY <1>1, <1>5, <1>7, <1>10, <2>1, <2>2 DEF TypeOK, OwnerFrame, latchVars,
       stateVars, lifeVars
<1>12. QED
  BY <1>7, <1>8, <1>9, <1>11 DEF OrderInv

LEMMA SubmitNativeStep ==
  ASSUME OrderInv, SubmitNative
  PROVE  OrderInv'
<1>1. TypeOK /\ FifoOrder /\ OwnerHolds /\ InboxSorted
  BY DEF OrderInv
<1>2. /\ UNCHANGED <<admitted, inbox, receiving, carry>> /\ wpc = "submit"
  BY DEF SubmitNative, queueVars
<1>3. CASE wpc' = "publish"
  <2>1. /\ log' = log \o batch /\ batch' = <<>> /\ UNCHANGED <<ack, outcome, reply>>
    BY <1>3 DEF SubmitNative
  <2>2. /\ log' \in Seq(Nat) /\ Len(log') = Len(log) + Len(batch)
        /\ \A i \in 1..Len(log') :
             log'[i] = IF i <= Len(log) THEN log[i] ELSE batch[i - Len(log)]
        /\ Len(batch') = 0 /\ batch' \in Seq(Nat)
    BY <1>1, <2>1, TypeFacts, ConcatProperties, EmptySeq
  <2>3. Taken' = Taken
    BY <1>1, <1>2, <2>2, TypeFacts DEF Taken
  <2>4. \A i \in 1..Len(log') : log'[i] = i
    <3>1. ASSUME NEW i \in 1..Len(log'), i > Len(log)
          PROVE  log'[i] = i
      <4>1. i - Len(log) \in 1..Len(batch)
        BY <1>1, <2>2, <3>1, TypeFacts
      <4>2. batch[i - Len(log)] = Len(log) + (i - Len(log))
        BY <1>1, <4>1 DEF FifoOrder
      <4>3. QED
        BY <1>1, <2>2, <3>1, <4>2, TypeFacts
    <3>2. ASSUME NEW i \in 1..Len(log'), i <= Len(log)
          PROVE  log'[i] = i
      <4>1. i \in 1..Len(log)
        BY <1>1, <3>2, TypeFacts
      <4>2. QED
        BY <1>1, <2>2, <3>2, <4>1 DEF FifoOrder
    <3>3. QED
      BY <1>1, <2>2, <3>1, <3>2, TypeFacts
  <2>5. FifoOrder'
    BY <1>1, <1>2, <2>2, <2>3, <2>4, TypeFacts DEF FifoOrder
  <2>6. InboxSorted' /\ OwnerHolds'
    BY <1>1, <1>2, <1>3, <2>1, <2>3 DEF InboxSorted, OwnerHolds
  <2>7. TypeOK'
    BY <1>1, <1>2, <1>3, <2>1, <2>2 DEF SubmitNative, TypeOK, OwnerPcs, queueVars,
       latchVars, stateVars, lifeVars
  <2>8. QED
    BY <2>5, <2>6, <2>7 DEF OrderInv
<1>4. CASE wpc' = "latchLost"
  <2>1. /\ outcome' \in Outcomes /\ ack' = NoCaller /\ UNCHANGED <<log, batch>>
        /\ reply' = [c \in Callers |-> IF c = ack THEN "dropped" ELSE reply[c]]
    BY <1>4 DEF SubmitNative
  <2>2. FifoOrder' /\ InboxSorted' /\ OwnerHolds'
    BY <1>1, <1>2, <1>4, <2>1 DEF FifoOrder, InboxSorted, OwnerHolds, Taken
  <2>3. TypeOK'
    BY <1>1, <1>2, <1>4, <2>1, ReplyType DEF SubmitNative, TypeOK, OwnerPcs,
       queueVars, latchVars, stateVars, lifeVars
  <2>4. QED
    BY <2>2, <2>3 DEF OrderInv
<1>5. QED
  BY <1>3, <1>4 DEF SubmitNative

LEMMA DropInboxStep ==
  ASSUME OrderInv, DropInbox
  PROVE  OrderInv'
<1>1. TypeOK /\ FifoOrder /\ OwnerHolds /\ InboxSorted
  BY DEF OrderInv
<1>2. inbox' = <<>> /\ inbox' \in Seq(Item) /\ Len(inbox') = 0
  BY EmptySeq DEF DropInbox
<1>3. FifoOrder' /\ OwnerHolds' /\ InboxSorted'
  BY <1>1, <1>2 DEF DropInbox, FifoOrder, OwnerHolds, InboxSorted
<1>4. reply' \in [Callers -> {"pending", "ready", "dropped"}]
  BY <1>1 DEF DropInbox, TypeOK
<1>5. TypeOK'
  BY <1>1, <1>2, <1>4 DEF DropInbox, TypeOK, OwnerPcs, latchVars, stateVars,
     lifeVars
<1>6. QED
  BY <1>3, <1>5 DEF OrderInv

-----------------------------------------------------------------------------

LEMMA StepOrder == OrderInv /\ [Next]_vars => OrderInv'
<1> SUFFICES ASSUME OrderInv, [Next]_vars PROVE OrderInv'
  OBVIOUS
<1>1. ASSUME NEW c \in Callers, NEW jobs \in Bundles, Submit(c, jobs)
      PROVE  OrderInv'
  BY <1>1, SubmitStep
<1>2. ASSUME NEW c \in Callers, NEW v \in Tokens, FlushThrough(c, v)
      PROVE  OrderInv'
  BY <1>2, FlushThroughStep
<1>3. ASSUME NEW c \in Callers, Flush(c) \/ Proceed(c) \/ FtWakeSpuriously(c)
      PROVE  OrderInv'
  BY <1>3, FlushStep, SendStep, FlushSendStep, FtLockStep, PlainCallSteps
     DEF Proceed
<1>4. CASE Owner
  BY <1>4, ReceiveCarryStep, ReceiveJobStep, TakeFlushSteps, GatherJobStep,
     SubmitNativeStep, DropInboxStep, QuietOwnerSteps DEF Owner
<1>5. CASE Shutdown \/ Join
  BY <1>5, PlainCallSteps
<1>6. CASE Rest \/ UNCHANGED vars
  <2>1. UNCHANGED vars
    BY <1>6 DEF Rest
  <2>2. UNCHANGED orderVars
    BY <2>1 DEF vars, orderVars, queueVars, ownerVars
  <2>3. TypeOK'
    BY <2>1 DEF OrderInv, TypeOK, vars, queueVars, latchVars, stateVars,
       ownerVars, callVars, lifeVars
  <2>4. QED
    BY <2>2, <2>3, OrderFrame DEF OrderInv
<1>7. QED
  BY <1>1, <1>2, <1>3, <1>4, <1>5, <1>6 DEF Next

\* Every reachable state has the shape TypeOK gives it (the variables of
\* TransferWorker and its WorkerExit, Inbox and SubmissionState).
THEOREM TypeCorrect == Spec => []TypeOK
<1>1. OrderInv => TypeOK
  BY DEF OrderInv
<1>2. QED
  BY <1>1, InitOrder, StepOrder, PTL DEF Spec

\* The owner loses, repeats and reorders no job, for any number of callers, any
\* bundles, any batch limits and any failures: what it has submitted, then what
\* it holds, then the inbox are the admitted jobs in admission order.
THEOREM SubmitsInOrder == Spec => []FifoOrder
<1>1. OrderInv => FifoOrder
  BY DEF OrderInv
<1>2. QED
  BY <1>1, InitOrder, StepOrder, PTL DEF Spec

-----------------------------------------------------------------------------
(* What flush_through and flush promise, and the log the worker implements. *)

Token(i) == admitted[i].token
FtPcs == {"ftLock", "ftCheck", "ftPark", "ftParked", "ftWoken"}
Ending == {"drain", "recordDrain", "dropInbox", "exitLatch", "exitStop", "dead"}

\* How the worker may end: with an error, or after shutdown with everything
\* submitted; shutdown meets no call, and no call but flush_through goes past
\* it.
EndsWell ==
  /\ joining => ~open /\ \A c \in Callers : pc[c] = "idle"
  /\ ~open => joining \/ wpc = "dead"
  /\ \A c \in Callers : pc[c] \in {"sending", "flushSend", "flushWait"} => open
  /\ wpc \in {"receive", "gather", "submit", "publish", "acknowledge"} => outcome = "Ok"
  /\ wpc \in {"latchLost", "latchFailed", "wake"} => outcome # "Ok"
  /\ Failing => outcome # "Ok"
  /\ stopped => wpc = "dead"
  /\ outcome = "Ok" /\ wpc \in Ending => ~open /\ Len(log) = Len(admitted)

\* What a caller inside a call has asked for, and with which promise.
CallsKnown ==
  \A c \in Callers :
    /\ pc[c] = "sending" =>
         /\ call[c].op = "submit" /\ call[c].jobs # <<>>
         /\ admission = c /\ InOrder(call[c].jobs)
    /\ pc[c] \in {"flushSend", "flushWait"} =>
         call[c].op = "flush" /\ call[c].mark <= Len(admitted)
    /\ pc[c] \in FtPcs => call[c].op = "flush_through" /\ call[c].value <= accepted
    /\ pc[c] # "idle" => result[c] = "none"

\* A flush is in one place at a time: in the inbox behind what it covers, with
\* the batch it ends, or answered.
FlushesTracked ==
  /\ \A i \in 1..Len(inbox) : inbox[i].by # NoCaller =>
       /\ inbox[i].kind = "flush" /\ inbox[i].by # ack
       /\ pc[inbox[i].by] = "flushWait" /\ reply[inbox[i].by] = "pending"
       /\ call[inbox[i].by].mark <= inbox[i].id
       /\ \A j \in 1..Len(inbox) : inbox[j].by = inbox[i].by => j = i
  /\ ack # NoCaller =>
       /\ wpc \in {"submit", "publish", "acknowledge"}
       /\ pc[ack] = "flushWait" /\ reply[ack] = "pending"
       /\ call[ack].mark <= Len(log) + Len(batch)
  /\ \A c \in Callers : pc[c] = "flushWait" =>
       /\ reply[c] = "ready" => call[c].mark <= Len(log)
       /\ reply[c] = "dropped" => outcome # "Ok"

\* Tokens rise along the admitted jobs, and the published one is the largest
\* of the submitted jobs.
TokensRise ==
  /\ \A i, j \in 1..Len(admitted) :
       i < j /\ Token(i) # 0 /\ Token(j) # 0 => Token(i) < Token(j)
  /\ \A i \in 1..Len(admitted) : Token(i) <= accepted
  /\ accepted = 0 \/ \E i \in 1..Len(admitted) : Token(i) = accepted
TokensPublished ==
  /\ submitted = 0 \/ \E i \in 1..Len(log) : Token(i) = submitted
  /\ \A i \in 1..Len(log) :
       Token(i) <= submitted \/ (wpc = "publish" /\ Token(i) <= final)
  /\ wpc \in {"gather", "submit"} =>
       \A i \in 1..Len(batch) : Token(batch[i]) <= final
  /\ wpc \in {"gather", "submit"} => final = 0 \/ \E i \in 1..Len(batch) : Token(batch[i]) = final
  /\ wpc = "publish" => final = 0 \/ \E i \in 1..Len(log) : Token(i) = final

\* A caller of flush_through that was told Ok waited for an admitted token.
WaitsAdmitted ==
  \A c \in Callers :
    call[c].op = "flush_through" /\ result[c] = "Ok" => call[c].value <= accepted

LogInv ==
   OrderInv /\ EndsWell /\ CallsKnown /\ FlushesTracked /\ TokensRise
   /\ TokensPublished /\ WaitsAdmitted /\ FlushThroughCovers

-----------------------------------------------------------------------------
(* What a step of a caller, and one of the owner, leaves alone. *)

CallerStep(c) ==
  \/ \E jobs \in Bundles : Submit(c, jobs)
  \/ \E v \in Tokens : FlushThrough(c, v)
  \/ Flush(c) \/ Proceed(c) \/ FtWakeSpuriously(c)

LEMMA CallerFacts ==
  ASSUME TypeOK, NEW c \in Callers, CallerStep(c)
  PROVE  /\ UNCHANGED <<ownerVars, latchVars, stateVars, lifeVars>>
         /\ \E p \in CallerPcs : pc' = [pc EXCEPT ![c] = p]
         /\ \A d \in Callers : d # c =>
              /\ pc'[d] = pc[d] /\ call'[d] = call[d]
              /\ reply'[d] = reply[d] /\ result'[d] = result[d]
<1> USE DEF TypeOK, ownerVars, latchVars, stateVars, lifeVars, CallerPcs
<1>1. ASSUME NEW jobs \in Bundles, Submit(c, jobs)
      PROVE  /\ UNCHANGED <<ownerVars, latchVars, stateVars, lifeVars>>
             /\ \E p \in CallerPcs : pc' = [pc EXCEPT ![c] = p]
             /\ \A d \in Callers : d # c =>
                  /\ pc'[d] = pc[d] /\ call'[d] = call[d]
                  /\ reply'[d] = reply[d] /\ result'[d] = result[d]
  BY <1>1 DEF Submit, Rejects, Begins, Returns
<1>2. ASSUME NEW v \in Tokens, FlushThrough(c, v)
      PROVE  /\ UNCHANGED <<ownerVars, latchVars, stateVars, lifeVars>>
             /\ \E p \in CallerPcs : pc' = [pc EXCEPT ![c] = p]
             /\ \A d \in Callers : d # c =>
                  /\ pc'[d] = pc[d] /\ call'[d] = call[d]
                  /\ reply'[d] = reply[d] /\ result'[d] = result[d]
  BY <1>2 DEF FlushThrough, Rejects, Begins, Returns
<1>3. ASSUME Flush(c) \/ Send(c) \/ FlushSend(c) \/ FlushReturn(c)
      PROVE  /\ UNCHANGED <<ownerVars, latchVars, stateVars, lifeVars>>
             /\ \E p \in CallerPcs : pc' = [pc EXCEPT ![c] = p]
             /\ \A d \in Callers : d # c =>
                  /\ pc'[d] = pc[d] /\ call'[d] = call[d]
                  /\ reply'[d] = reply[d] /\ result'[d] = result[d]
  BY <1>3 DEF Flush, Send, FlushSend, FlushReturn, Rejects, Begins, Returns
<1>4. ASSUME FtLock(c) \/ FtCheck(c) \/ FtPark(c) \/ FtRelock(c) \/ FtWakeSpuriously(c)
      PROVE  /\ UNCHANGED <<ownerVars, latchVars, stateVars, lifeVars>>
             /\ \E p \in CallerPcs : pc' = [pc EXCEPT ![c] = p]
             /\ \A d \in Callers : d # c =>
                  /\ pc'[d] = pc[d] /\ call'[d] = call[d]
                  /\ reply'[d] = reply[d] /\ result'[d] = result[d]
  BY <1>4 DEF FtLock, FtCheck, FtPark, FtRelock, FtWakeSpuriously, Returns
<1>5. QED
  BY <1>1, <1>2, <1>3, <1>4 DEF CallerStep, Proceed

\* The owner only wakes parked callers.
LEMMA OwnerFacts ==
  ASSUME TypeOK, Owner
  PROVE  /\ UNCHANGED <<admitted, accepted, admission, lifeVars, call, result>>
         /\ pc' \in {pc, Notified}
  BY DEF Owner, ReceiveCarry, ReceiveJob, ReceiveFlush, ReceiveEnd, GatherEnd,
     GatherJob, GatherFlush, SubmitNative, Publish, Acknowledge, LatchLost,
     LatchFailed, WakeFailed, Drain, RecordDrain, DropInbox, ExitLatch, ExitStop,
     OwnerFrame, queueVars, callVars, lifeVars

LEMMA NotifiedFacts ==
  ASSUME TypeOK, pc' \in {pc, Notified}, NEW c \in Callers
  PROVE  /\ pc'[c] = "idle" <=> pc[c] = "idle"
         /\ pc'[c] \in FtPcs <=> pc[c] \in FtPcs
         /\ pc'[c] \notin FtPcs => pc'[c] = pc[c]
  BY DEF TypeOK, Notified, FtPcs, CallerPcs

-----------------------------------------------------------------------------
(* The worker ends well. *)

LEMMA CallerEndsWell ==
  ASSUME LogInv, NEW c \in Callers, CallerStep(c)
  PROVE  EndsWell'
<1>1. TypeOK /\ OwnerHolds /\ EndsWell
  BY DEF LogInv, OrderInv
<1>2. /\ UNCHANGED <<wpc, outcome, failed, lost, stopped, log, open, joining, receiving>>
      /\ \E p \in CallerPcs : pc' = [pc EXCEPT ![c] = p]
      /\ \A d \in Callers : d # c => pc'[d] = pc[d]
  BY <1>1, CallerFacts DEF ownerVars, latchVars, stateVars, lifeVars
<1>3. ~joining /\ (pc'[c] \in {"sending", "flushSend", "flushWait"} => open)
  <2>1. ASSUME NEW jobs \in Bundles, Submit(c, jobs)
        PROVE ~joining /\ (pc'[c] \in {"sending", "flushSend", "flushWait"} => open)
    BY <1>1, <2>1 DEF Submit, Callable, Rejects, Begins, Returns, TypeOK
  <2>2. ASSUME NEW v \in Tokens, FlushThrough(c, v)
        PROVE ~joining /\ (pc'[c] \in {"sending", "flushSend", "flushWait"} => open)
    BY <1>1, <2>2 DEF FlushThrough, Callable, Rejects, Begins, Returns, TypeOK
  <2>3. ASSUME Flush(c) \/ Proceed(c) \/ FtWakeSpuriously(c)
        PROVE ~joining /\ (pc'[c] \in {"sending", "flushSend", "flushWait"} => open)
    BY <1>1, <2>3 DEF EndsWell, Flush, Proceed, FtWakeSpuriously, Callable, Rejects, Begins,
       Returns, TypeOK, Send, FlushSend, FlushReturn, FtLock, FtCheck, FtPark, FtRelock
  <2>4. QED
    BY <2>1, <2>2, <2>3 DEF CallerStep
<1>4. outcome = "Ok" /\ wpc \in Ending => admitted' = admitted
  <2>1. ASSUME NEW jobs \in Bundles, Submit(c, jobs) PROVE admitted' = admitted
    BY <2>1 DEF Submit
  <2>2. ASSUME NEW v \in Tokens, FlushThrough(c, v) PROVE admitted' = admitted
    BY <2>2 DEF FlushThrough, queueVars
  <2>3. ASSUME Flush(c) \/ FlushSend(c) \/ FlushReturn(c) \/ FtLock(c) \/ FtCheck(c)
               \/ FtPark(c) \/ FtRelock(c) \/ FtWakeSpuriously(c)
        PROVE  admitted' = admitted
    BY <2>3 DEF Flush, FlushSend, FlushReturn, FtLock, FtCheck, FtPark, FtRelock,
       FtWakeSpuriously, queueVars
  <2>4. ASSUME Send(c), outcome = "Ok", wpc \in Ending PROVE FALSE
    BY <1>1, <2>4 DEF Send, EndsWell
  <2>5. QED
    BY <2>1, <2>2, <2>3, <2>4 DEF CallerStep, Proceed
<1>5. QED
  BY <1>1, <1>2, <1>3, <1>4 DEF EndsWell, Failing

LEMMA OwnerEndsWell ==
  ASSUME LogInv, Owner
  PROVE  EndsWell'
<1>1. TypeOK /\ OwnerHolds /\ FifoOrder /\ EndsWell
  BY DEF LogInv, OrderInv
<1>2. /\ UNCHANGED <<admitted, open, joining>>
      /\ \A c \in Callers : pc'[c] = "idle" <=> pc[c] = "idle"
      /\ \A c \in Callers : pc'[c] \in {"sending", "flushSend", "flushWait"} => pc'[c] = pc[c]
  BY <1>1, OwnerFacts, NotifiedFacts DEF lifeVars, FtPcs
<1>3. /\ joining' => ~open' /\ \A c \in Callers : pc'[c] = "idle"
      /\ \A c \in Callers : pc'[c] \in {"sending", "flushSend", "flushWait"} => open'
  BY <1>1, <1>2 DEF EndsWell
<1>4. CASE ReceiveEnd
  <2>1. Len(log) = Len(admitted)
    BY <1>1, <1>4, TypeFacts, EmptySeq DEF ReceiveEnd, OwnerHolds, FifoOrder, Taken
  <2>2. QED
    BY <1>1, <1>2, <1>3, <1>4, <2>1
       DEF ReceiveEnd, OwnerFrame, EndsWell, Failing, latchVars, stateVars, Ending
<1>5. CASE ReceiveCarry \/ ReceiveJob \/ ReceiveFlush \/ GatherEnd \/ GatherJob \/ GatherFlush
  <2>1. /\ wpc \in {"receive", "gather"} /\ wpc' \in {"receive", "gather", "submit"}
        /\ UNCHANGED <<failed, lost, stopped, outcome, log>>
    BY <1>5 DEF ReceiveCarry, ReceiveJob, ReceiveFlush, GatherEnd, GatherJob, GatherFlush,
       Starts, OwnerFrame, latchVars, stateVars
  <2>2. QED
    BY <1>1, <1>2, <1>3, <2>1 DEF EndsWell, Failing, Ending
<1>6. CASE SubmitNative
  BY <1>1, <1>2, <1>3, <1>6 DEF SubmitNative, EndsWell, Failing, Ending, latchVars, stateVars
<1>7. CASE Publish \/ Acknowledge
  <2>1. /\ wpc \in {"publish", "acknowledge"} /\ wpc' \in {"acknowledge", "receive"}
        /\ UNCHANGED <<failed, lost, stopped, outcome, log>>
    BY <1>7 DEF Publish, Acknowledge, latchVars, stateVars
  <2>2. QED
    BY <1>1, <1>2, <1>3, <2>1 DEF EndsWell, Failing, Ending
<1>8. CASE LatchLost \/ LatchFailed \/ WakeFailed
  <2>1. /\ wpc \in {"latchLost", "latchFailed", "wake"}
        /\ wpc' \in {"latchFailed", "wake", "drain"}
        /\ UNCHANGED <<stopped, outcome, log>>
    BY <1>8 DEF LatchLost, LatchFailed, WakeFailed, latchVars, stateVars
  <2>2. QED
    BY <1>1, <1>2, <1>3, <2>1 DEF EndsWell, Failing, Ending
<1>9. CASE Drain \/ RecordDrain \/ DropInbox \/ ExitLatch \/ ExitStop
  <2>1. /\ wpc \in Ending \ {"dead"} /\ wpc' \in Ending /\ log' = log
        /\ stopped' => stopped \/ wpc' = "dead"
    BY <1>9 DEF Drain, RecordDrain, DropInbox, ExitLatch, ExitStop, latchVars, stateVars, Ending
  <2>2. /\ outcome' = "Ok" => outcome = "Ok" /\ ~failed' /\ ~lost'
        /\ outcome # "Ok" => outcome' # "Ok"
    <3>1. CASE Drain
      BY <1>1, <3>1 DEF Drain, EndsWell, Failing
    <3>2. CASE RecordDrain \/ DropInbox \/ ExitStop
      <4>1. UNCHANGED <<failed, lost, outcome>>
        BY <3>2 DEF RecordDrain, DropInbox, ExitStop, latchVars
      <4>2. QED
        BY <1>1, <4>1 DEF EndsWell, Failing
    <3>4. CASE ExitLatch
      BY <1>1, <3>4 DEF ExitLatch, EndsWell, Failing, TypeOK
    <3>3. QED
      BY <1>9, <3>1, <3>2, <3>4
  <2>3. QED
    BY <1>1, <1>2, <1>3, <2>1, <2>2 DEF EndsWell, Failing, Ending
<1>10. QED
  BY <1>4, <1>5, <1>6, <1>7, <1>8, <1>9 DEF Owner

-----------------------------------------------------------------------------
(* Callers know what they asked for. *)

LEMMA InOrderFrame ==
  ASSUME UNCHANGED accepted, NEW jobs
  PROVE  InOrder(jobs)' <=> InOrder(jobs)
  BY DEF InOrder

\* Only a send admits, and what is admitted stays.
LEMMA AdmittedGrows ==
  ASSUME TypeOK, NEW c \in Callers, CallerStep(c)
  PROVE  /\ accepted' >= accepted /\ Len(admitted') >= Len(admitted)
         /\ \A i \in 1..Len(admitted) : admitted'[i] = admitted[i]
         /\ ~Send(c) => UNCHANGED <<admitted, accepted>>
<1>1. ASSUME NEW jobs \in Bundles, Submit(c, jobs) PROVE UNCHANGED <<admitted, accepted>>
  BY <1>1 DEF Submit
<1>2. ASSUME NEW v \in Tokens, FlushThrough(c, v) PROVE UNCHANGED <<admitted, accepted>>
  BY <1>2 DEF FlushThrough, queueVars
<1>3. ASSUME Flush(c) \/ FlushSend(c) \/ FlushReturn(c) \/ FtLock(c) \/ FtCheck(c)
             \/ FtPark(c) \/ FtRelock(c) \/ FtWakeSpuriously(c)
      PROVE  UNCHANGED <<admitted, accepted>>
  BY <1>3 DEF Flush, FlushSend, FlushReturn, FtLock, FtCheck, FtPark, FtRelock,
     FtWakeSpuriously, queueVars
<1>4. ASSUME Send(c)
      PROVE  /\ accepted' >= accepted /\ Len(admitted') >= Len(admitted)
             /\ \A i \in 1..Len(admitted) : admitted'[i] = admitted[i]
  <2>0. accepted \in Nat /\ admitted \in Seq(Job) /\ call[c].jobs \in Seq(Job)
    BY DEF TypeOK, Call
  <2>1. CASE receiving
    <3>1. /\ admitted' = admitted \o call[c].jobs /\ accepted' >= accepted
      BY <1>4, <2>1 DEF Send, HighWater
    <3>2. QED
      BY <2>0, <3>1, ConcatProperties, LenProperties
  <2>2. CASE ~receiving
    BY <1>4, <2>0, <2>2, LenProperties DEF Send
  <2>3. QED
    BY <2>1, <2>2
<1>5. (admitted' = admitted /\ accepted' = accepted) \/ Send(c)
  BY <1>1, <1>2, <1>3 DEF CallerStep, Proceed
<1>6. accepted \in Nat /\ Len(admitted) \in Nat
  BY TypeFacts DEF TypeOK
<1>7. QED
  BY <1>4, <1>5, <1>6

LEMMA CallerAdmission ==
  ASSUME LogInv, NEW c \in Callers, CallerStep(c), NEW d \in Callers, d # c,
         pc[d] = "sending"
  PROVE  UNCHANGED <<admission, accepted>>
<1>1. admission = d /\ admission # NoCaller
  BY CallersAssumption DEF LogInv, CallsKnown
<1>2. ~Send(c)
  BY <1>1 DEF LogInv, CallsKnown, Send
<1>3. ASSUME NEW jobs \in Bundles, Submit(c, jobs) PROVE FALSE
  BY <1>1, <1>3 DEF Submit
<1>4. ASSUME NEW v \in Tokens, FlushThrough(c, v) PROVE FALSE
  BY <1>1, <1>4 DEF FlushThrough
<1>5. ASSUME Flush(c) \/ FlushSend(c) \/ FlushReturn(c) \/ FtLock(c) \/ FtCheck(c)
             \/ FtPark(c) \/ FtRelock(c) \/ FtWakeSpuriously(c)
      PROVE  UNCHANGED <<admission, accepted>>
  BY <1>5 DEF Flush, FlushSend, FlushReturn, FtLock, FtCheck, FtPark, FtRelock,
     FtWakeSpuriously, queueVars
<1>6. QED
  BY <1>2, <1>3, <1>4, <1>5 DEF CallerStep, Proceed

CallKnown(c) ==
  /\ pc[c] = "sending" =>
       /\ call[c].op = "submit" /\ call[c].jobs # <<>>
       /\ admission = c /\ InOrder(call[c].jobs)
  /\ pc[c] \in {"flushSend", "flushWait"} =>
       call[c].op = "flush" /\ call[c].mark <= Len(admitted)
  /\ pc[c] \in FtPcs => call[c].op = "flush_through" /\ call[c].value <= accepted
  /\ pc[c] # "idle" => result[c] = "none"

LEMMA CallerCallsKnown ==
  ASSUME LogInv, NEW c \in Callers, CallerStep(c)
  PROVE  CallsKnown'
<1>1. TypeOK /\ \A d \in Callers : CallKnown(d)
  BY DEF LogInv, OrderInv, CallsKnown, CallKnown
<1>2. /\ \A d \in Callers : d # c =>
           pc'[d] = pc[d] /\ call'[d] = call[d] /\ result'[d] = result[d]
      /\ accepted' >= accepted /\ Len(admitted') >= Len(admitted)
  BY <1>1, CallerFacts, AdmittedGrows
<1>0. /\ accepted \in Nat /\ accepted' \in Nat /\ Len(admitted) \in Nat /\ Len(admitted') \in Nat
      /\ \A d \in Callers : call[d].mark \in Nat /\ call[d].value \in Nat
  <2>1. OrderInv'
    BY SubmitStep, FlushThroughStep, FlushStep, SendStep, FlushSendStep, FtLockStep,
       PlainCallSteps DEF LogInv, CallerStep, Proceed
  <2>2. QED
    BY <1>1, <2>1, TypeFacts, LenProperties DEF OrderInv, TypeOK, Call
<1>3. ASSUME NEW d \in Callers, d # c PROVE CallKnown(d)'
  <2>1. pc[d] = "sending" => admission' = admission /\ accepted' = accepted
    BY <1>3, CallerAdmission
  <2>2. pc[d] = "sending" => InOrder(call[d].jobs)'
    BY <1>1, <1>2, <1>3, <2>1 DEF CallKnown, InOrder
  <2>3. QED
    BY <1>0, <1>1, <1>2, <1>3, <2>1, <2>2 DEF CallKnown
<1>4. CallKnown(c)'
  <2>1. ASSUME NEW jobs \in Bundles, Submit(c, jobs) PROVE CallKnown(c)'
    <3>1. CASE pc'[c] = "idle"
      BY <3>1 DEF CallKnown, FtPcs
    <3>2. CASE pc'[c] # "idle"
      <4>1. /\ Valid(jobs) /\ admission' = c /\ accepted' = accepted
            /\ Begins(c, [[NoCall EXCEPT !.op = "submit"] EXCEPT !.jobs = jobs], "sending")
        BY <1>1, <2>1, <3>2 DEF Submit, Rejects, Returns, TypeOK
      <4>2. /\ call'[c] = [[NoCall EXCEPT !.op = "submit"] EXCEPT !.jobs = jobs]
            /\ pc'[c] = "sending" /\ result'[c] = "none"
        BY <1>1, <4>1 DEF Begins, TypeOK
      <4>3. call'[c].jobs = jobs /\ call'[c].op = "submit"
        BY <4>2 DEF NoCall
      <4>4. InOrder(jobs)' /\ jobs # <<>>
        BY <4>1, InOrderFrame DEF Valid
      <4>5. InOrder(call[c].jobs)'
        BY <4>3, <4>4 DEF InOrder
      <4>6. QED
        BY <4>1, <4>2, <4>3, <4>4, <4>5 DEF CallKnown, FtPcs
    <3>3. QED
      BY <3>1, <3>2
  <2>2. ASSUME NEW v \in Tokens, FlushThrough(c, v) PROVE CallKnown(c)'
    <3>1. CASE pc'[c] = "idle"
      BY <3>1 DEF CallKnown, FtPcs
    <3>2. CASE pc'[c] # "idle"
      <4>1. v <= accepted /\ Begins(c, [NoCall EXCEPT !.op = "flush_through", !.value = v], "ftLock")
        BY <1>1, <2>2, <3>2 DEF FlushThrough, Rejects, Returns, TypeOK
      <4>2. /\ call'[c] = [NoCall EXCEPT !.op = "flush_through", !.value = v]
            /\ pc'[c] = "ftLock" /\ result'[c] = "none" /\ accepted' = accepted
        BY <1>1, <2>2, <4>1 DEF Begins, TypeOK, FlushThrough, queueVars
      <4>3. call'[c].op = "flush_through" /\ call'[c].value = v
        BY <4>2 DEF NoCall
      <4>4. QED
        BY <4>1, <4>2, <4>3 DEF CallKnown, FtPcs
    <3>3. QED
      BY <3>1, <3>2
  <2>3. ASSUME Flush(c) PROVE CallKnown(c)'
    <3>1. CASE pc'[c] = "idle"
      BY <3>1 DEF CallKnown, FtPcs
    <3>2. CASE pc'[c] # "idle"
      <4>1. Begins(c, [NoCall EXCEPT !.op = "flush", !.mark = Len(admitted)], "flushSend")
        BY <1>1, <2>3, <3>2 DEF Flush, Rejects, Returns, TypeOK
      <4>2. /\ call'[c] = [NoCall EXCEPT !.op = "flush", !.mark = Len(admitted)]
            /\ pc'[c] = "flushSend" /\ result'[c] = "none" /\ admitted' = admitted
        BY <1>1, <2>3, <4>1 DEF Begins, TypeOK, Flush, queueVars
      <4>3. call'[c].op = "flush" /\ call'[c].mark = Len(admitted)
        BY <4>2 DEF NoCall
      <4>4. QED
        BY <1>0, <4>2, <4>3 DEF CallKnown, FtPcs
    <3>3. QED
      BY <3>1, <3>2
  <2>4. ASSUME Send(c) PROVE CallKnown(c)'
    <3>1. pc'[c] = "idle"
      BY <1>1, <2>4 DEF Send, Returns, TypeOK
    <3>2. QED
      BY <3>1 DEF CallKnown, FtPcs
  <2>5. ASSUME FlushSend(c) \/ FlushReturn(c) \/ FtLock(c) \/ FtCheck(c)
               \/ FtPark(c) \/ FtRelock(c) \/ FtWakeSpuriously(c)
        PROVE  CallKnown(c)'
    <3>1. UNCHANGED <<call, admitted, accepted>>
      BY <2>5 DEF FlushSend, FlushReturn, FtLock, FtCheck, FtPark, FtRelock,
         FtWakeSpuriously, queueVars
    <3>2. \/ pc'[c] = "idle"
          \/ pc[c] = "flushSend" /\ pc'[c] = "flushWait" /\ result' = result
          \/ pc[c] \in FtPcs /\ pc'[c] \in FtPcs /\ result' = result
      BY <1>1, <2>5 DEF FlushSend, FlushReturn, FtLock, FtCheck, FtPark, FtRelock,
         FtWakeSpuriously, Returns, TypeOK, FtPcs
    <3>3. QED
      BY <1>1, <3>1, <3>2 DEF CallKnown, FtPcs
  <2>6. QED
    BY <2>1, <2>2, <2>3, <2>4, <2>5 DEF CallerStep, Proceed
<1>5. QED
  BY <1>3, <1>4 DEF CallsKnown, CallKnown

LEMMA OwnerCallsKnown ==
  ASSUME LogInv, Owner
  PROVE  CallsKnown'
<1>1. TypeOK /\ CallsKnown
  BY DEF LogInv, OrderInv
<1>2. /\ UNCHANGED <<admitted, accepted, admission, call, result>>
      /\ pc' \in {pc, Notified}
  BY <1>1, OwnerFacts
<1>3. ASSUME NEW c \in Callers PROVE InOrder(call[c].jobs)' <=> InOrder(call[c].jobs)
  BY <1>2 DEF InOrder
<1>4. \A c \in Callers :
         /\ pc'[c] = "idle" <=> pc[c] = "idle"
         /\ pc'[c] \in FtPcs <=> pc[c] \in FtPcs
         /\ pc'[c] \notin FtPcs => pc'[c] = pc[c]
  BY <1>1, <1>2, NotifiedFacts
<1>5. QED
  BY <1>1, <1>2, <1>3, <1>4 DEF CallsKnown, FtPcs

-----------------------------------------------------------------------------
(* Tokens rise. *)

LEMMA TokensOf ==
  ASSUME TypeOK
  PROVE  \A i \in 1..Len(admitted) : Token(i) \in Nat
<1>1. \A i \in 1..Len(admitted) : admitted[i] \in Job
  BY TypeFacts, ElementOfSeq
<1>2. QED
  BY <1>1, JobAssumption DEF Token

LEMMA SendTokensRise ==
  ASSUME LogInv, NEW c \in Callers, Send(c)
  PROVE  TokensRise'
<1> DEFINE jobs == call[c].jobs
           n == Len(admitted)
<1>1. /\ TypeOK /\ TokensRise /\ InOrder(jobs)
  BY DEF LogInv, OrderInv, CallsKnown, Send
<1>2. CASE ~receiving
  BY <1>1, <1>2 DEF Send, TokensRise, Token
<1>3. CASE receiving
  <2>1. /\ admitted' = admitted \o jobs /\ HighWater(jobs, accepted')
        /\ accepted' \in {accepted} \cup {jobs[i].token : i \in 1..Len(jobs)}
    BY <1>3 DEF Send
  <2>2. /\ jobs \in Seq(Job) /\ Len(jobs) \in Nat /\ n \in Nat /\ admitted \in Seq(Job)
        /\ accepted \in Nat
    BY <1>1, TypeFacts DEF TypeOK, Call
  <2>3. /\ Len(admitted') = n + Len(jobs)
        /\ \A i \in 1..Len(admitted') :
             admitted'[i] = IF i <= n THEN admitted[i] ELSE jobs[i - n]
    BY <2>1, <2>2, ConcatProperties
  <2>4. \A i \in 1..Len(jobs) : jobs[i].token \in Nat
    BY <2>2, JobAssumption, ElementOfSeq
  <2>5. \A i \in 1..n : Token(i) \in Nat /\ Token(i) <= accepted
    BY <1>1, TokensOf DEF TokensRise
  <2>6. \A i \in 1..Len(admitted') :
          \/ i \in 1..n /\ Token(i)' = Token(i)
          \/ i - n \in 1..Len(jobs) /\ i > n /\ Token(i)' = jobs[i - n].token
    BY <2>2, <2>3 DEF Token
  <2>7. ASSUME NEW i \in 1..Len(admitted'), NEW j \in 1..Len(admitted'), i < j,
               Token(i)' # 0, Token(j)' # 0
        PROVE  Token(i)' < Token(j)'
    <3>1. CASE j \in 1..n /\ Token(j)' = Token(j)
      <4>1. i \in 1..n /\ Token(i)' = Token(i)
        BY <2>2, <2>3, <2>6, <2>7, <3>1
      <4>2. QED
        BY <1>1, <2>7, <3>1, <4>1 DEF TokensRise
    <3>2. CASE j - n \in 1..Len(jobs) /\ j > n /\ Token(j)' = jobs[j - n].token
      <4>0. /\ jobs[j - n].token # 0 /\ jobs[j - n].token > accepted
            /\ \A k \in 1..((j - n) - 1) : jobs[k].token < jobs[j - n].token
        BY <1>1, <2>7, <3>2 DEF InOrder
      <4>1. CASE i \in 1..n /\ Token(i)' = Token(i)
        <5>1. /\ Token(i) \in Nat /\ Token(i) <= accepted /\ Token(i)' = Token(i)
              /\ jobs[j - n].token \in Nat
          BY <2>4, <2>5, <3>2, <4>1
        <5>2. /\ Token(j)' = jobs[j - n].token /\ jobs[j - n].token > accepted
          BY <3>2, <4>0
        <5> HIDE DEF n, jobs
        <5>3. QED
          BY <2>2, <5>1, <5>2
      <4>2. CASE i - n \in 1..Len(jobs) /\ Token(i)' = jobs[i - n].token
        <5>1. i - n \in 1..((j - n) - 1)
          BY <2>2, <2>7, <3>2, <4>2
        <5>2. QED
          BY <3>2, <4>0, <4>2, <5>1
      <4>3. QED
        BY <2>6, <4>1, <4>2
    <3>3. QED
      BY <2>6, <3>1, <3>2
  <2>8. \A i \in 1..Len(admitted') : Token(i)' <= accepted'
    <3>1. accepted' >= accepted /\ \A i \in 1..Len(jobs) : jobs[i].token <= accepted'
      BY <2>1 DEF HighWater
    <3>2. accepted' \in Nat
      BY <2>1, <2>2, <2>4
    <3>3. ASSUME NEW i \in 1..Len(admitted') PROVE Token(i)' <= accepted'
      <4>1. CASE i \in 1..n /\ Token(i)' = Token(i)
        <5>1. Token(i) \in Nat /\ Token(i) <= accepted
          BY <2>5, <4>1
        <5>2. QED
          BY <2>2, <3>1, <3>2, <4>1, <5>1
      <4>2. CASE i - n \in 1..Len(jobs) /\ Token(i)' = jobs[i - n].token
        BY <3>1, <4>2
      <4>3. QED
        BY <2>6, <4>1, <4>2
    <3>4. QED
      BY <3>3
  <2>9. accepted' = 0 \/ \E i \in 1..Len(admitted') : Token(i)' = accepted'
    <3>1. CASE accepted' = accepted
      <4>1. CASE accepted = 0
        BY <3>1, <4>1
      <4>2. CASE accepted # 0
        <5>1. PICK i \in 1..n : Token(i) = accepted
          BY <1>1, <4>2 DEF TokensRise
        <5>2. i \in 1..Len(admitted') /\ Token(i)' = Token(i)
          BY <2>2, <2>3, <5>1 DEF Token
        <5>3. QED
          BY <3>1, <5>1, <5>2
      <4>3. QED
        BY <4>1, <4>2
    <3>2. CASE accepted' # accepted
      <4>1. PICK i \in 1..Len(jobs) : jobs[i].token = accepted'
        BY <2>1, <3>2
      <4>2. PICK k \in 1..Len(admitted') : k = n + i
        BY <2>2, <2>3
      <4>3. ~(k <= n) /\ k - n = i
        BY <2>2, <4>2
      <4>4. Token(k)' = accepted'
        BY <2>3, <4>1, <4>3 DEF Token
      <4>5. QED
        BY <4>4
    <3>3. QED
      BY <3>1, <3>2
  <2>10. QED
    BY <2>7, <2>8, <2>9 DEF TokensRise
<1>4. QED
  BY <1>2, <1>3

LEMMA TokensRiseFrame ==
  ASSUME TokensRise, UNCHANGED <<admitted, accepted>>
  PROVE  TokensRise'
  BY DEF TokensRise, Token

LEMMA CallerTokensRise ==
  ASSUME LogInv, NEW c \in Callers, CallerStep(c)
  PROVE  TokensRise'
<1>1. ~Send(c) => UNCHANGED <<admitted, accepted>>
  BY AdmittedGrows DEF LogInv, OrderInv
<1>2. TokensRise
  BY DEF LogInv
<1>3. QED
  BY <1>1, <1>2, SendTokensRise, TokensRiseFrame

-----------------------------------------------------------------------------
(* The published token. *)

LEMMA BatchAdmitted ==
  ASSUME TypeOK, FifoOrder
  PROVE  /\ \A i \in 1..Len(log) : i \in 1..Len(admitted)
         /\ \A i \in 1..Len(batch) : batch[i] \in 1..Len(admitted)
<1>1. /\ Len(log) \in Nat /\ Len(batch) \in Nat /\ Len(admitted) \in Nat
      /\ Len(log) + Len(batch) <= Len(admitted)
  BY TypeFacts DEF FifoOrder
<1>2. \A i \in 1..Len(batch) : batch[i] = Len(log) + i
  BY DEF FifoOrder
<1>3. QED
  BY <1>1, <1>2

LEMMA CallerTokensPublished ==
  ASSUME LogInv, NEW c \in Callers, CallerStep(c)
  PROVE  TokensPublished'
<1>1. TypeOK /\ FifoOrder /\ TokensPublished
  BY DEF LogInv, OrderInv
<1>2. UNCHANGED <<submitted, log, wpc, batch, final>>
  BY <1>1, CallerFacts DEF ownerVars, stateVars
<1>3. \A i \in 1..Len(admitted) : Token(i)' = Token(i)
  BY <1>1, AdmittedGrows DEF Token
<1>4. /\ \A i \in 1..Len(log) : i \in 1..Len(admitted)
      /\ \A i \in 1..Len(batch) : batch[i] \in 1..Len(admitted)
  BY <1>1, BatchAdmitted
<1>5. /\ \A i \in 1..Len(log) : Token(i)' = Token(i)
      /\ \A i \in 1..Len(batch) : Token(batch[i])' = Token(batch[i])
  <2>1. ASSUME NEW i \in 1..Len(batch) PROVE Token(batch[i])' = Token(batch[i])
    <3>1. admitted'[batch[i]] = admitted[batch[i]] /\ batch' = batch
      BY <1>1, <1>2, <1>4, AdmittedGrows
    <3>2. QED
      BY <3>1 DEF Token
  <2>2. QED
    BY <1>3, <1>4, <2>1
<1>6. QED
  BY <1>1, <1>2, <1>5 DEF TokensPublished

LEMMA TokensPublishedFrame ==
  ASSUME TokensPublished, UNCHANGED <<submitted, log, admitted>>,
         \/ UNCHANGED <<wpc, batch, final>>
         \/ /\ wpc \notin {"publish"} /\ wpc' \notin {"gather", "submit", "publish"}
         \/ /\ wpc = "gather" /\ wpc' \in {"gather", "submit"} /\ UNCHANGED <<batch, final>>
  PROVE  TokensPublished'
  BY DEF TokensPublished, Token

\* A batch of one.
LEMMA StartsPublished ==
  ASSUME LogInv, NEW id \in 1..Len(admitted), Starts(id), wpc = "receive",
         UNCHANGED <<submitted, log, admitted>>
  PROVE  TokensPublished'
<1>1. /\ batch' = <<id>> /\ final' = Token(id) /\ wpc' = "gather"
  BY DEF Starts, Token
<1>2. Len(batch') = 1 /\ batch'[1] = id /\ Token(batch[1])' = Token(id)
  BY <1>1 DEF Token
<1>3. Token(id) \in Nat
  BY TokensOf DEF LogInv, OrderInv
<1>4. \A i \in 1..Len(batch') : i = 1
  BY <1>2
<1>5. /\ \A i \in 1..Len(batch') : Token(batch[i])' <= final'
      /\ \E i \in 1..Len(batch') : Token(batch[i])' = final'
  <2>1. 1 \in 1..Len(batch')
    BY <1>2
  <2>2. QED
    BY <1>1, <1>2, <1>3, <1>4, <2>1 DEF Token
<1>6. QED
  BY <1>1, <1>5 DEF LogInv, TokensPublished, Token

LEMMA GatherPublished ==
  ASSUME LogInv, GatherJob
  PROVE  TokensPublished'
<1> DEFINE id == Head(inbox).id
<1>1. TypeOK /\ FifoOrder /\ OwnerHolds /\ InboxSorted /\ TokensPublished
  BY DEF LogInv, OrderInv
<1>2. /\ wpc = "gather" /\ UNCHANGED <<submitted, log, admitted>>
      /\ \/ /\ batch' = Append(batch, id) /\ wpc' = wpc
            /\ final' = MaxOf(final, Token(id))
         \/ wpc' = "submit" /\ UNCHANGED <<batch, final>>
  BY DEF GatherJob, OwnerFrame, stateVars, Token
<1>3. CASE UNCHANGED <<batch, final>> /\ wpc' = "submit"
  BY <1>1, <1>2, <1>3, TokensPublishedFrame
<1>4. CASE batch' = Append(batch, id) /\ wpc' = wpc /\ final' = MaxOf(final, Token(id))
  <2>1. id \in 1..Len(admitted)
    <3>1. Head(inbox) = inbox[1] /\ 1 \in 1..Len(inbox)
      BY <1>1, TypeFacts, EmptySeq DEF GatherJob, Waiting
    <3>2. inbox[1].id \in Nat /\ inbox[1].id <= Len(admitted) /\ inbox[1].id = Taken + 1
      BY <1>1, <3>1, TypeFacts DEF InboxSorted, FifoOrder, GatherJob, Waiting, OwnerHolds
    <3>3. QED
      BY <1>1, <3>1, <3>2, TypeFacts
  <2>2. Token(id) \in Nat /\ final \in Nat
    BY <1>1, <2>1, TokensOf DEF TypeOK
  <2>3. /\ Len(batch') = Len(batch) + 1 /\ Len(batch) \in Nat
        /\ \A i \in 1..Len(batch') :
             batch'[i] = IF i <= Len(batch) THEN batch[i] ELSE id
    <3>1. batch \in Seq(Nat) /\ Len(batch) \in Nat /\ id \in Nat
      BY <1>1, <2>1, TypeFacts
    <3> HIDE DEF id
    <3>2. QED
      BY <1>4, <3>1
  <2>4. \A i \in 1..Len(batch) : batch[i] \in 1..Len(admitted) /\ Token(batch[i]) <= final
    <3>1. \A i \in 1..Len(batch) : batch[i] \in 1..Len(admitted)
      BY <1>1, BatchAdmitted
    <3>2. QED
      BY <1>1, <1>2, <3>1 DEF TokensPublished
  <2> HIDE DEF id
  <2>5. final <= final' /\ Token(id) <= final' /\ final' \in {final, Token(id)}
    BY <1>4, <2>2 DEF MaxOf
  <2>6. ASSUME NEW i \in 1..Len(batch') PROVE Token(batch[i])' <= final'
    <3>1. Token(batch[i])' = Token(batch'[i])
      BY <1>2 DEF Token
    <3>2. CASE i <= Len(batch)
      <4>1. i \in 1..Len(batch) /\ batch'[i] = batch[i]
        BY <2>3, <3>2
      <4>2. Token(batch[i]) \in Nat /\ Token(batch[i]) <= final
        BY <1>1, <2>4, <4>1, TokensOf
      <4>3. QED
        BY <2>2, <2>5, <3>1, <4>1, <4>2
    <3>3. CASE i > Len(batch)
      BY <2>3, <2>5, <3>1, <3>3
    <3>4. QED
      BY <2>3, <3>2, <3>3
  <2>7. final' = 0 \/ \E i \in 1..Len(batch') : Token(batch[i])' = final'
    <3>1. CASE final' = final /\ final # 0
      <4>1. PICK i \in 1..Len(batch) : Token(batch[i]) = final
        BY <1>1, <1>2, <3>1 DEF TokensPublished
      <4>2. i \in 1..Len(batch') /\ batch'[i] = batch[i]
        BY <2>3
      <4>3. Token(batch[i])' = final'
        BY <1>2, <3>1, <4>1, <4>2 DEF Token
      <4>4. QED
        BY <4>2, <4>3
    <3>2. CASE final' = Token(id)
      <4>1. PICK i \in 1..Len(batch') : i = Len(batch) + 1
        BY <2>3
      <4>2. batch'[i] = id
        BY <2>3, <4>1
      <4>3. Token(batch[i])' = final'
        BY <1>2, <3>2, <4>2 DEF Token
      <4>4. QED
        BY <4>3
    <3>3. QED
      BY <2>5, <3>1, <3>2
  <2>8. QED
    BY <1>1, <1>2, <1>4, <2>6, <2>7 DEF TokensPublished, Token
<1>5. QED
  BY <1>2, <1>3, <1>4

LEMMA SubmitPublished ==
  ASSUME LogInv, SubmitNative
  PROVE  TokensPublished'
<1>1. TypeOK /\ FifoOrder /\ TokensPublished
  BY DEF LogInv, OrderInv
<1>2. /\ wpc = "submit" /\ UNCHANGED <<submitted, admitted, final>>
  BY DEF SubmitNative, queueVars, stateVars
<1>3. CASE wpc' = "latchLost"
  BY <1>1, <1>2, <1>3, TokensPublishedFrame DEF SubmitNative
<1>4. CASE log' = log \o batch /\ wpc' = "publish"
  <2>1. /\ Len(log') = Len(log) + Len(batch) /\ Len(log) \in Nat /\ Len(batch) \in Nat
    BY <1>1, <1>4, TypeFacts, ConcatProperties
  <2>2. \A i \in 1..Len(batch) : batch[i] = Len(log) + i
    BY <1>1 DEF FifoOrder
  <2>3. ASSUME NEW i \in 1..Len(log')
        PROVE  Token(i)' <= submitted' \/ Token(i)' <= final'
    <3>1. CASE i \in 1..Len(log)
      BY <1>1, <1>2, <3>1 DEF TokensPublished, Token
    <3>2. CASE i \notin 1..Len(log)
      <4>1. PICK j \in 1..Len(batch) : i = Len(log) + j
        <5>1. i - Len(log) \in 1..Len(batch) /\ i = Len(log) + (i - Len(log))
          BY <2>1, <3>2
        <5>2. QED
          BY <5>1
      <4>2. Token(batch[j]) <= final /\ batch[j] = i
        BY <1>1, <1>2, <2>2, <4>1 DEF TokensPublished
      <4>3. QED
        BY <1>2, <4>2 DEF Token
    <3>3. QED
      BY <3>1, <3>2
  <2>4. final' = 0 \/ \E i \in 1..Len(log') : Token(i)' = final'
    <3>1. ASSUME NEW j \in 1..Len(batch), Token(batch[j]) = final
          PROVE  \E i \in 1..Len(log') : Token(i)' = final'
      <4>1. PICK i \in 1..Len(log') : i = batch[j]
        BY <2>1, <2>2
      <4>2. Token(i)' = final'
        BY <1>2, <3>1, <4>1 DEF Token
      <4>3. QED
        BY <4>2
    <3>2. QED
      BY <1>1, <1>2, <3>1 DEF TokensPublished
  <2>5. submitted' = 0 \/ \E i \in 1..Len(log') : Token(i)' = submitted'
    <3>1. ASSUME NEW j \in 1..Len(log), Token(j) = submitted
          PROVE  \E i \in 1..Len(log') : Token(i)' = submitted'
      <4>1. j \in 1..Len(log') /\ Token(j)' = submitted'
        BY <1>2, <2>1, <3>1 DEF Token
      <4>2. QED
        BY <4>1
    <3>2. QED
      BY <1>1, <1>2, <3>1 DEF TokensPublished
  <2>6. QED
    BY <1>4, <2>3, <2>4, <2>5 DEF TokensPublished, Token
<1>5. QED
  BY <1>3, <1>4 DEF SubmitNative

LEMMA PublishPublished ==
  ASSUME LogInv, Publish
  PROVE  TokensPublished'
<1>1. TypeOK /\ FifoOrder /\ TokensPublished
  BY DEF LogInv, OrderInv
<1>2. /\ wpc = "publish" /\ wpc' = "acknowledge" /\ submitted' = MaxOf(submitted, final)
      /\ UNCHANGED <<admitted, log>>
  BY DEF Publish, queueVars
<1>3. submitted \in Nat /\ final \in Nat
  BY <1>1 DEF TypeOK
<1>4. submitted <= submitted' /\ final <= submitted' /\ submitted' \in {submitted, final}
  BY <1>2, <1>3 DEF MaxOf
<1>5. \A i \in 1..Len(log) : Token(i)' = Token(i) /\ Token(i) \in Nat
  <2>1. \A i \in 1..Len(log) : i \in 1..Len(admitted)
    BY <1>1, TypeFacts DEF FifoOrder
  <2>2. QED
    BY <1>1, <1>2, <2>1, TokensOf DEF Token
<1>6. \A i \in 1..Len(log') : Token(i)' <= submitted'
  <2>1. ASSUME NEW i \in 1..Len(log) PROVE Token(i)' <= submitted'
    <3>1. /\ Token(i)' = Token(i) /\ Token(i) \in Nat
          /\ Token(i) <= submitted \/ Token(i) <= final
      BY <1>1, <1>5 DEF TokensPublished
    <3>2. QED
      BY <1>3, <1>4, <3>1
  <2>2. QED
    BY <1>2, <2>1
<1>7. submitted' = 0 \/ \E i \in 1..Len(log') : Token(i)' = submitted'
  <2>1. \/ submitted' = 0
        \/ \E i \in 1..Len(log) : Token(i) = submitted'
    BY <1>1, <1>2, <1>4 DEF TokensPublished
  <2>2. QED
    BY <1>2, <1>5, <2>1
<1>8. QED
  BY <1>2, <1>6, <1>7 DEF TokensPublished

LEMMA OwnerTokensPublished ==
  ASSUME LogInv, Owner
  PROVE  TokensPublished'
<1>1. TypeOK /\ FifoOrder /\ OwnerHolds /\ InboxSorted /\ TokensPublished
  BY DEF LogInv, OrderInv
<1>2. CASE ReceiveCarry
  <2>1. Starts(carry) /\ wpc = "receive" /\ UNCHANGED <<submitted, log, admitted>>
    BY <1>2 DEF ReceiveCarry, OwnerFrame, stateVars
  <2>2. carry \in 1..Len(admitted)
    <3>1. /\ carry = Len(log) + 1 /\ Taken = Len(log) + 1 /\ receiving
      BY <1>1, <1>2, TypeFacts, EmptySeq DEF ReceiveCarry, OwnerHolds, FifoOrder, Taken
    <3>2. Taken <= Len(admitted)
      BY <1>1, <3>1, TypeFacts, EmptySeq DEF FifoOrder, InboxSorted
    <3>3. QED
      BY <1>1, <3>1, <3>2, TypeFacts
  <2>3. QED
    BY <2>1, <2>2, StartsPublished
<1>3. CASE ReceiveJob
  <2>1. /\ Starts(Head(inbox).id) /\ wpc = "receive" /\ UNCHANGED <<submitted, log, admitted>>
    BY <1>3 DEF ReceiveJob, OwnerFrame, stateVars
  <2>2. Head(inbox).id \in 1..Len(admitted)
    <3>1. Head(inbox) = inbox[1] /\ 1 \in 1..Len(inbox)
      BY <1>1, <1>3, TypeFacts, EmptySeq DEF ReceiveJob, Waiting
    <3>2. inbox[1].id \in Nat /\ inbox[1].id <= Len(admitted) /\ inbox[1].id = Taken + 1
      BY <1>1, <1>3, <3>1, TypeFacts DEF InboxSorted, FifoOrder, ReceiveJob, Waiting, OwnerHolds
    <3>3. QED
      BY <1>1, <3>1, <3>2, TypeFacts
  <2>3. QED
    BY <2>1, <2>2, StartsPublished
<1>4. CASE ReceiveFlush \/ ReceiveEnd \/ GatherEnd \/ GatherFlush
  BY <1>1, <1>4, TokensPublishedFrame DEF ReceiveFlush, ReceiveEnd, GatherEnd, GatherFlush,
     OwnerFrame, stateVars
<1>5. CASE Acknowledge \/ LatchLost \/ LatchFailed \/ WakeFailed \/ Drain \/ RecordDrain
           \/ DropInbox \/ ExitLatch \/ ExitStop
  <2>1. /\ UNCHANGED <<submitted, log, admitted>>
        /\ wpc # "publish" /\ wpc' \notin {"gather", "submit", "publish"}
    BY <1>5 DEF Acknowledge, LatchLost, LatchFailed, WakeFailed, Drain, RecordDrain,
       DropInbox, ExitLatch, ExitStop, queueVars, stateVars
  <2>2. QED
    BY <1>1, <2>1, TokensPublishedFrame
<1>6. QED
  BY <1>2, <1>3, <1>4, <1>5, GatherPublished, SubmitPublished, PublishPublished DEF Owner

-----------------------------------------------------------------------------
(* Flushes are tracked. *)

\* The first conjunct of FlushesTracked, of one item.
ItemTracked(i) ==
  inbox[i].by # NoCaller =>
    /\ inbox[i].kind = "flush" /\ inbox[i].by # ack
    /\ pc[inbox[i].by] = "flushWait" /\ reply[inbox[i].by] = "pending"
    /\ call[inbox[i].by].mark <= inbox[i].id
    /\ \A j \in 1..Len(inbox) : inbox[j].by = inbox[i].by => j = i
AckTracked ==
  ack # NoCaller =>
    /\ wpc \in {"submit", "publish", "acknowledge"}
    /\ pc[ack] = "flushWait" /\ reply[ack] = "pending"
    /\ call[ack].mark <= Len(log) + Len(batch)
AnswerTracked(c) ==
  pc[c] = "flushWait" =>
    /\ reply[c] = "ready" => call[c].mark <= Len(log)
    /\ reply[c] = "dropped" => outcome # "Ok"

LEMMA TrackedParts ==
  FlushesTracked <=> /\ \A i \in 1..Len(inbox) : ItemTracked(i)
                     /\ AckTracked /\ \A c \in Callers : AnswerTracked(c)
  BY DEF FlushesTracked, ItemTracked, AckTracked, AnswerTracked

LEMMA ItemCallers ==
  ASSUME TypeOK
  PROVE  /\ \A i \in 1..Len(inbox) : inbox[i].by \in Callers \cup {NoCaller}
         /\ ack \in Callers \cup {NoCaller}
<1>1. \A i \in 1..Len(inbox) : inbox[i] \in Item
  BY TypeFacts
<1>2. QED
  BY <1>1 DEF TypeOK, Item

\* A caller that moves waits for no answer.
LEMMA Unwaited ==
  ASSUME LogInv, NEW c \in Callers, CallerStep(c)
  PROVE  /\ c # ack /\ \A i \in 1..Len(inbox) : inbox[i].by # c
<1>1. ~(pc[c] = "flushWait" /\ reply[c] = "pending")
  <2>1. ASSUME NEW jobs \in Bundles, Submit(c, jobs) PROVE pc[c] # "flushWait"
    BY <2>1 DEF Submit, Callable
  <2>2. ASSUME NEW v \in Tokens, FlushThrough(c, v) PROVE pc[c] # "flushWait"
    BY <2>2 DEF FlushThrough, Callable
  <2>3. ASSUME Flush(c) \/ Proceed(c) \/ FtWakeSpuriously(c)
        PROVE  ~(pc[c] = "flushWait" /\ reply[c] = "pending")
    BY <2>3 DEF Flush, Callable, Proceed, Send, FlushSend, FlushReturn, FtLock, FtCheck, FtPark,
       FtRelock, FtWakeSpuriously
  <2>4. QED
    BY <2>1, <2>2, <2>3 DEF CallerStep
<1>2. c # NoCaller
  BY CallersAssumption
<1>3. QED
  BY <1>1, <1>2 DEF LogInv, FlushesTracked

\* What any step but a flush's send appends to the inbox, nobody waits for.
LEMMA InboxGrows ==
  ASSUME TypeOK, NEW c \in Callers, CallerStep(c), ~FlushSend(c)
  PROVE  /\ Len(inbox') >= Len(inbox) /\ Len(inbox') \in Nat
         /\ \A i \in 1..Len(inbox) : inbox'[i] = inbox[i]
         /\ \A i \in 1..Len(inbox') : i > Len(inbox) => inbox'[i].by = NoCaller
         /\ pc'[c] # "flushWait" /\ reply' = reply
<1>0. inbox \in Seq(Item) /\ Len(inbox) \in Nat
  BY TypeFacts
<1>1. ASSUME NEW jobs \in Bundles, Submit(c, jobs)
      PROVE  inbox' = inbox /\ pc'[c] # "flushWait" /\ reply' = reply
  BY <1>1 DEF Submit, Rejects, Begins, Returns, TypeOK
<1>2. ASSUME NEW v \in Tokens, FlushThrough(c, v)
      PROVE  inbox' = inbox /\ pc'[c] # "flushWait" /\ reply' = reply
  BY <1>2 DEF FlushThrough, Rejects, Begins, Returns, TypeOK, queueVars
<1>3. ASSUME Flush(c) \/ FlushReturn(c) \/ FtCheck(c) \/ FtPark(c) \/ FtRelock(c)
             \/ FtWakeSpuriously(c)
      PROVE  inbox' = inbox /\ pc'[c] # "flushWait" /\ reply' = reply
  BY <1>3 DEF Flush, FlushReturn, FtCheck, FtPark, FtRelock, FtWakeSpuriously, Rejects,
     Begins, Returns, TypeOK, queueVars
<1>4. ASSUME FtLock(c)
      PROVE  /\ inbox' = inbox \/ inbox' = Append(inbox, FlushItem(NoCaller, Len(admitted)))
             /\ pc'[c] # "flushWait" /\ reply' = reply
  BY <1>4 DEF FtLock, Returns, TypeOK
<1>5. ASSUME Send(c)
      PROVE  /\ inbox' = inbox \/ inbox' = inbox \o Bundled(call[c].jobs)
             /\ pc'[c] # "flushWait" /\ reply' = reply
  BY <1>5 DEF Send, Returns, TypeOK
<1>6. \/ inbox' = inbox
      \/ inbox' = Append(inbox, FlushItem(NoCaller, Len(admitted)))
      \/ inbox' = inbox \o Bundled(call[c].jobs)
  BY <1>1, <1>2, <1>3, <1>4, <1>5 DEF CallerStep, Proceed
<1>7. pc'[c] # "flushWait" /\ reply' = reply
  BY <1>1, <1>2, <1>3, <1>4, <1>5 DEF CallerStep, Proceed
<1>8. CASE inbox' = inbox
  BY <1>0, <1>7, <1>8
<1>9. CASE inbox' = Append(inbox, FlushItem(NoCaller, Len(admitted)))
  <2>1. FlushItem(NoCaller, Len(admitted)) \in Item
    BY TypeFacts DEF FlushItem, Item
  <2>2. FlushItem(NoCaller, Len(admitted)).by = NoCaller
    BY DEF FlushItem
  <2>3. QED
    BY <1>0, <1>7, <1>9, <2>1, <2>2
<1>10. CASE inbox' = inbox \o Bundled(call[c].jobs)
  <2> DEFINE items == Bundled(call[c].jobs)
  <2>1. call[c].jobs \in Seq(Job) /\ Len(call[c].jobs) \in Nat /\ Len(admitted) \in Nat
    BY TypeFacts DEF TypeOK, Call
  <2>2. /\ items \in [1..Len(call[c].jobs) -> Item]
        /\ \A i \in 1..Len(call[c].jobs) : items[i].by = NoCaller
    BY <2>1 DEF Bundled, JobItem, Item
  <2>3. items \in Seq(Item) /\ Len(items) = Len(call[c].jobs)
    BY <2>1, <2>2
  <2>0. inbox' = inbox \o items
    BY <1>10
  <2> HIDE DEF items
  <2>4. /\ Len(inbox') = Len(inbox) + Len(items) /\ Len(items) \in Nat
        /\ \A i \in 1..Len(inbox') :
             inbox'[i] = IF i <= Len(inbox) THEN inbox[i] ELSE items[i - Len(inbox)]
    <3>1. Len(items) \in Nat
      BY <2>1, <2>3
    <3>2. inbox \in Seq(Item)
      BY <1>0
    <3>3. /\ Len(inbox \o items) = Len(inbox) + Len(items)
          /\ \A i \in 1..Len(inbox) + Len(items) :
               (inbox \o items)[i] = IF i <= Len(inbox) THEN inbox[i] ELSE items[i - Len(inbox)]
      BY <2>3, <3>2, ConcatProperties, Zenon
    <3>4. QED
      BY <2>0, <3>1, <3>3, Zenon
  <2>5. ASSUME NEW i \in 1..Len(inbox'), i > Len(inbox) PROVE inbox'[i].by = NoCaller
    <3>1. i - Len(inbox) \in 1..Len(items) /\ inbox'[i] = items[i - Len(inbox)]
      BY <1>0, <2>4, <2>5
    <3>2. QED
      BY <2>2, <2>3, <3>1
  <2>6. QED
    BY <1>0, <1>7, <2>4, <2>5
<1>11. QED
  BY <1>6, <1>8, <1>9, <1>10

LEMMA CallerFlushesTracked ==
  ASSUME LogInv, NEW c \in Callers, CallerStep(c)
  PROVE  FlushesTracked'
<1>1. /\ TypeOK /\ FlushesTracked /\ CallsKnown
      /\ c # ack /\ \A i \in 1..Len(inbox) : inbox[i].by # c
      /\ inbox \in Seq(Item) /\ Len(inbox) \in Nat
  BY Unwaited, TypeFacts DEF LogInv, OrderInv
<1>2. /\ UNCHANGED <<ack, wpc, log, batch, outcome, receiving>>
      /\ \A d \in Callers : d # c =>
           pc'[d] = pc[d] /\ call'[d] = call[d] /\ reply'[d] = reply[d]
  BY <1>1, CallerFacts DEF ownerVars
<1>3. AckTracked'
  BY <1>1, <1>2, TrackedParts, ItemCallers DEF AckTracked
<1>4. CASE ~FlushSend(c)
  <2>1. /\ Len(inbox') >= Len(inbox) /\ Len(inbox') \in Nat
        /\ \A i \in 1..Len(inbox) : inbox'[i] = inbox[i]
        /\ \A i \in 1..Len(inbox') : i > Len(inbox) => inbox'[i].by = NoCaller
        /\ pc'[c] # "flushWait"
    BY <1>1, <1>4, InboxGrows
  <2>2. ASSUME NEW i \in 1..Len(inbox') PROVE ItemTracked(i)'
    <3>1. CASE i > Len(inbox)
      BY <2>1, <3>1 DEF ItemTracked
    <3>2. CASE i <= Len(inbox) /\ inbox[i].by = NoCaller
      BY <1>1, <2>1, <3>2 DEF ItemTracked
    <3>3. CASE i <= Len(inbox) /\ inbox[i].by # NoCaller
      <4>1. /\ i \in 1..Len(inbox) /\ inbox'[i] = inbox[i] /\ ItemTracked(i)
        BY <1>1, <2>1, <3>3, TrackedParts
      <4>2. inbox[i].by \in Callers \ {c}
        BY <1>1, <3>3, <4>1, ItemCallers
      <4>3. \A j \in 1..Len(inbox') : inbox'[j].by = inbox[i].by => j = i
        BY <1>1, <2>1, <3>3, <4>1 DEF ItemTracked
      <4>4. QED
        BY <1>2, <3>3, <4>1, <4>2, <4>3 DEF ItemTracked
    <3>4. QED
      BY <1>1, <2>1, <3>1, <3>2, <3>3
  <2>3. ASSUME NEW d \in Callers PROVE AnswerTracked(d)'
    BY <1>1, <1>2, <2>1, TrackedParts DEF AnswerTracked
  <2>4. FlushesTracked' <=> /\ \A i \in 1..Len(inbox') : ItemTracked(i)'
                            /\ AckTracked' /\ \A d \in Callers : AnswerTracked(d)'
    BY DEF FlushesTracked, ItemTracked, AckTracked, AnswerTracked
  <2>5. QED
    BY <1>3, <2>2, <2>3, <2>4
<1>5. CASE FlushSend(c) /\ receiving
  <2> DEFINE it == FlushItem(c, Len(admitted))
  <2>1. /\ inbox' = Append(inbox, it) /\ reply'[c] = "pending" /\ pc'[c] = "flushWait"
        /\ call' = call /\ call[c].mark <= Len(admitted)
    BY <1>1, <1>5 DEF FlushSend, TypeOK, CallsKnown
  <2>2. /\ it \in Item /\ it.by = c /\ it.kind = "flush" /\ it.id = Len(admitted)
    BY <1>1, TypeFacts DEF FlushItem, Item
  <2> HIDE DEF it
  <2>3. /\ Len(inbox') = Len(inbox) + 1
        /\ \A i \in 1..Len(inbox) : inbox'[i] = inbox[i]
        /\ inbox'[Len(inbox) + 1] = it
    BY <1>1, <2>1, <2>2
  <2>4. ASSUME NEW i \in 1..Len(inbox') PROVE ItemTracked(i)'
    <3>1. CASE i = Len(inbox) + 1
      <4>1. \A j \in 1..Len(inbox') : inbox'[j].by = c => j = i
        BY <1>1, <2>3, <3>1
      <4>2. inbox'[i] = it
        BY <2>3, <3>1
      <4>3. QED
        BY <1>1, <1>2, <2>1, <2>2, <4>1, <4>2 DEF ItemTracked
    <3>2. CASE i \in 1..Len(inbox) /\ inbox[i].by = NoCaller
      BY <2>3, <3>2 DEF ItemTracked
    <3>3. CASE i \in 1..Len(inbox) /\ inbox[i].by # NoCaller
      <4>1. /\ inbox'[i] = inbox[i] /\ ItemTracked(i)
        BY <1>1, <2>3, <3>3, TrackedParts
      <4>2. inbox[i].by \in Callers \ {c}
        BY <1>1, <3>3, ItemCallers
      <4>3. \A j \in 1..Len(inbox') : inbox'[j].by = inbox[i].by => j = i
        BY <1>1, <2>2, <2>3, <3>3, <4>1, <4>2 DEF ItemTracked
      <4>4. QED
        BY <1>2, <3>3, <4>1, <4>2, <4>3 DEF ItemTracked
    <3>4. QED
      BY <1>1, <2>3, <3>1, <3>2, <3>3
  <2>5. ASSUME NEW d \in Callers PROVE AnswerTracked(d)'
    BY <1>1, <1>2, <2>1, TrackedParts DEF AnswerTracked
  <2>6. FlushesTracked' <=> /\ \A i \in 1..Len(inbox') : ItemTracked(i)'
                            /\ AckTracked' /\ \A d \in Callers : AnswerTracked(d)'
    BY DEF FlushesTracked, ItemTracked, AckTracked, AnswerTracked
  <2>7. QED
    BY <1>3, <2>4, <2>5, <2>6
<1>6. CASE FlushSend(c) /\ ~receiving
  <2>1. /\ inbox' = inbox /\ pc'[c] = "idle" /\ reply' = reply /\ call' = call
    BY <1>1, <1>6 DEF FlushSend, Returns, TypeOK
  <2>2. ASSUME NEW i \in 1..Len(inbox) PROVE ItemTracked(i)'
    <3>1. ItemTracked(i) /\ inbox[i].by \in Callers \cup {NoCaller} /\ inbox[i].by # c
      BY <1>1, TrackedParts, ItemCallers
    <3>2. QED
      BY <1>2, <2>1, <3>1 DEF ItemTracked
  <2>3. ASSUME NEW d \in Callers PROVE AnswerTracked(d)'
    BY <1>1, <1>2, <2>1, TrackedParts DEF AnswerTracked
  <2>4. FlushesTracked' <=> /\ \A i \in 1..Len(inbox') : ItemTracked(i)'
                            /\ AckTracked' /\ \A d \in Callers : AnswerTracked(d)'
    BY DEF FlushesTracked, ItemTracked, AckTracked, AnswerTracked
  <2>5. QED
    BY <1>3, <2>1, <2>2, <2>3, <2>4
<1>7. QED
  BY <1>4, <1>5, <1>6

\* The owner takes the first item.
LEMMA TakenTracked ==
  ASSUME LogInv, inbox # <<>>, inbox' = Tail(inbox), UNCHANGED <<pc, call>>,
         NEW first, first = Head(inbox).by,
         \A c \in Callers : c # first => reply'[c] = reply[c],
         ack' \in {ack, first}
  PROVE  /\ \A i \in 1..Len(inbox') : ItemTracked(i)'
         /\ first \in Callers \cup {NoCaller}
         /\ first # NoCaller =>
              /\ pc[first] = "flushWait" /\ reply[first] = "pending"
              /\ first # ack /\ call[first].mark <= Head(inbox).id
<1>1. TypeOK /\ FlushesTracked
  BY DEF LogInv, OrderInv
<1>2. /\ Len(inbox') = Len(inbox) - 1 /\ Len(inbox) \in Nat /\ Len(inbox) >= 1
      /\ \A i \in 1..Len(inbox') : inbox'[i] = inbox[i + 1]
      /\ Head(inbox) = inbox[1]
  BY <1>1, TypeFacts, HeadTailProperties, EmptySeq
<1>3. ItemTracked(1) /\ first \in Callers \cup {NoCaller}
  BY <1>1, <1>2, TrackedParts, ItemCallers
<1>4. ASSUME NEW i \in 1..Len(inbox') PROVE ItemTracked(i)'
  <2>1. PICK k \in 1..Len(inbox) : k = i + 1
    BY <1>2
  <2>2. ItemTracked(k) /\ inbox'[i] = inbox[k] /\ inbox[k].by \in Callers \cup {NoCaller}
    BY <1>1, <1>2, <2>1, TrackedParts, ItemCallers
  <2>3. inbox[k].by # NoCaller => inbox[k].by # first
    <3>1. 1 \in 1..Len(inbox) /\ k # 1
      BY <1>2, <2>1
    <3>2. QED
      BY <1>2, <2>2, <3>1 DEF ItemTracked
  <2>4. ASSUME inbox[k].by # NoCaller, NEW j \in 1..Len(inbox'), inbox'[j].by = inbox[k].by
        PROVE  j = i
    <3>1. j + 1 \in 1..Len(inbox) /\ inbox'[j] = inbox[j + 1]
      BY <1>2
    <3>2. j + 1 = k
      BY <2>2, <2>4, <3>1 DEF ItemTracked
    <3>3. QED
      BY <1>2, <2>1, <3>2
  <2>5. QED
    BY <2>2, <2>3, <2>4 DEF ItemTracked
<1>5. QED
  BY <1>2, <1>3, <1>4 DEF ItemTracked

\* A step of the owner that touches no request.
LEMMA TrackedFrame ==
  ASSUME LogInv, UNCHANGED <<inbox, call, reply, ack, log, batch>>,
         pc' \in {pc, Notified},
         ack # NoCaller => wpc' \in {"submit", "publish", "acknowledge"},
         outcome # "Ok" => outcome' # "Ok"
  PROVE  FlushesTracked'
<1>1. TypeOK /\ FlushesTracked
  BY DEF LogInv, OrderInv
<1>2. \A c \in Callers : pc'[c] = "flushWait" <=> pc[c] = "flushWait"
  BY <1>1, NotifiedFacts DEF FtPcs
<1>3. ASSUME NEW i \in 1..Len(inbox) PROVE ItemTracked(i)'
  <2>1. ItemTracked(i) /\ inbox[i].by \in Callers \cup {NoCaller}
    BY <1>1, TrackedParts, ItemCallers
  <2>2. QED
    BY <1>2, <2>1 DEF ItemTracked
<1>4. AckTracked'
  BY <1>1, <1>2, TrackedParts, ItemCallers DEF AckTracked
<1>5. ASSUME NEW c \in Callers PROVE AnswerTracked(c)'
  BY <1>1, <1>2, TrackedParts DEF AnswerTracked
<1>6. FlushesTracked' <=> /\ \A i \in 1..Len(inbox') : ItemTracked(i)'
                          /\ AckTracked' /\ \A d \in Callers : AnswerTracked(d)'
  BY DEF FlushesTracked, ItemTracked, AckTracked, AnswerTracked
<1>7. QED
  BY <1>3, <1>4, <1>5, <1>6

LEMMA TakeTracked ==
  ASSUME LogInv, ReceiveJob \/ ReceiveFlush \/ GatherJob \/ GatherFlush
  PROVE  FlushesTracked'
<1> DEFINE first == Head(inbox).by
<1>1. TypeOK /\ FifoOrder /\ OwnerHolds /\ FlushesTracked
  BY DEF LogInv, OrderInv
<1>2. /\ inbox # <<>> /\ inbox' = Tail(inbox) /\ UNCHANGED <<pc, call, log, outcome>>
      /\ wpc \in {"receive", "gather"}
  BY DEF ReceiveJob, ReceiveFlush, GatherJob, GatherFlush, OwnerFrame, Waiting
<1>3. ack = NoCaller
  BY <1>1, <1>2 DEF FlushesTracked
<1>4. /\ \A c \in Callers : c # first => reply'[c] = reply[c]
      /\ ack' \in {ack, first}
  BY <1>1 DEF ReceiveJob, ReceiveFlush, GatherJob, GatherFlush, TypeOK
<1>5. /\ \A i \in 1..Len(inbox') : ItemTracked(i)'
      /\ first \in Callers \cup {NoCaller}
      /\ first # NoCaller =>
           /\ pc[first] = "flushWait" /\ reply[first] = "pending"
           /\ first # ack /\ call[first].mark <= Head(inbox).id
  BY <1>2, <1>4, TakenTracked
<1>6. /\ Head(inbox) = inbox[1] /\ 1 \in 1..Len(inbox) /\ receiving
      /\ Head(inbox).id = Taken + (IF Head(inbox).kind = "job" THEN 1 ELSE 0)
  BY <1>1, <1>2, TypeFacts, EmptySeq DEF FifoOrder, OwnerHolds
<1>7. CASE ReceiveJob \/ GatherJob
  <2>1. reply' = reply /\ ack' = ack
    BY <1>7 DEF ReceiveJob, GatherJob
  <2>2. AckTracked'
    BY <1>3, <2>1 DEF AckTracked
  <2>3. ASSUME NEW c \in Callers PROVE AnswerTracked(c)'
    BY <1>1, <1>2, <2>1, TrackedParts DEF AnswerTracked
  <2>4. FlushesTracked' <=> /\ \A i \in 1..Len(inbox') : ItemTracked(i)'
                            /\ AckTracked' /\ \A d \in Callers : AnswerTracked(d)'
    BY DEF FlushesTracked, ItemTracked, AckTracked, AnswerTracked
  <2>5. QED
    BY <1>5, <2>2, <2>3, <2>4
<1>8. CASE ReceiveFlush
  <2>1. /\ ack' = ack /\ carry = 0 /\ Head(inbox).kind = "flush" /\ wpc = "receive"
        /\ reply' = [c \in Callers |-> IF c = first THEN "ready" ELSE reply[c]]
    BY <1>8 DEF ReceiveFlush, Waiting
  <2>2. AckTracked'
    BY <1>3, <2>1 DEF AckTracked
  <2>3. Head(inbox).id = Len(log)
    BY <1>1, <1>6, <2>1, TypeFacts, EmptySeq DEF OwnerHolds, Taken
  <2>4. ASSUME NEW c \in Callers PROVE AnswerTracked(c)'
    <3>1. CASE c = first
      <4>1. c # NoCaller
        BY CallersAssumption
      <4>2. QED
        BY <1>2, <1>5, <2>1, <2>3, <3>1, <4>1 DEF AnswerTracked
    <3>2. CASE c # first
      BY <1>1, <1>2, <2>1, <3>2, TrackedParts DEF AnswerTracked
    <3>3. QED
      BY <3>1, <3>2
  <2>5. FlushesTracked' <=> /\ \A i \in 1..Len(inbox') : ItemTracked(i)'
                            /\ AckTracked' /\ \A d \in Callers : AnswerTracked(d)'
    BY DEF FlushesTracked, ItemTracked, AckTracked, AnswerTracked
  <2>6. QED
    BY <1>5, <2>2, <2>4, <2>5
<1>9. CASE GatherFlush
  <2>1. /\ ack' = first /\ Head(inbox).kind = "flush" /\ wpc = "gather" /\ wpc' = "submit"
        /\ reply' = reply /\ batch' = batch
    BY <1>9 DEF GatherFlush, Waiting
  <2>2. Head(inbox).id = Len(log) + Len(batch)
    <3>1. carry = 0 /\ Len(log) \in Nat /\ Len(batch) \in Nat
      BY <1>1, <2>1, TypeFacts DEF OwnerHolds
    <3>2. Taken = Len(log) + Len(batch)
      BY <3>1 DEF Taken
    <3>3. Head(inbox).id = Taken + 0
      BY <1>6, <2>1
    <3>4. QED
      BY <3>1, <3>2, <3>3
  <2>3. AckTracked'
    BY <1>2, <1>5, <2>1, <2>2 DEF AckTracked
  <2>4. ASSUME NEW c \in Callers PROVE AnswerTracked(c)'
    BY <1>1, <1>2, <2>1, TrackedParts DEF AnswerTracked
  <2>5. FlushesTracked' <=> /\ \A i \in 1..Len(inbox') : ItemTracked(i)'
                            /\ AckTracked' /\ \A d \in Callers : AnswerTracked(d)'
    BY DEF FlushesTracked, ItemTracked, AckTracked, AnswerTracked
  <2>6. QED
    BY <1>5, <2>3, <2>4, <2>5
<1>10. QED
  BY <1>7, <1>8, <1>9

\* Steps that answer the flush that ended a batch.
LEMMA AnsweredTracked ==
  ASSUME LogInv, NEW word \in {"ready", "dropped"},
         reply' = [c \in Callers |-> IF c = ack THEN word ELSE reply[c]],
         ack' = NoCaller, UNCHANGED <<inbox, pc, call>>, Len(log') >= Len(log), Len(log') \in Nat,
         outcome # "Ok" => outcome' # "Ok",
         word = "ready" => batch = <<>>, word = "dropped" => outcome' # "Ok"
  PROVE  FlushesTracked'
<1>1. TypeOK /\ FlushesTracked /\ Len(log) \in Nat
  BY TypeFacts DEF LogInv, OrderInv
<1>2. ASSUME NEW i \in 1..Len(inbox) PROVE ItemTracked(i)'
  <2>1. ItemTracked(i) /\ inbox[i].by \in Callers \cup {NoCaller}
    BY <1>1, TrackedParts, ItemCallers
  <2>2. QED
    BY <2>1 DEF ItemTracked
<1>3. AckTracked'
  BY DEF AckTracked
<1>4. ASSUME NEW c \in Callers PROVE AnswerTracked(c)'
  <2>0. call[c].mark \in Nat
    BY <1>1 DEF TypeOK, Call
  <2>1. CASE c = ack
    <3>1. c # NoCaller
      BY CallersAssumption
    <3>2. word = "ready" => call[c].mark <= Len(log)
      <4>1. batch = <<>> => Len(log) + Len(batch) = Len(log)
        BY <1>1
      <4>2. QED
        BY <1>1, <2>1, <3>1, <4>1, TrackedParts DEF AckTracked
    <3>3. QED
      BY <1>1, <2>0, <2>1, <3>2 DEF AnswerTracked
  <2>2. CASE c # ack
    BY <1>1, <2>0, <2>2, TrackedParts DEF AnswerTracked
  <2>3. QED
    BY <2>1, <2>2
<1>5. FlushesTracked' <=> /\ \A i \in 1..Len(inbox') : ItemTracked(i)'
                          /\ AckTracked' /\ \A d \in Callers : AnswerTracked(d)'
  BY DEF FlushesTracked, ItemTracked, AckTracked, AnswerTracked
<1>6. QED
  BY <1>2, <1>3, <1>4, <1>5

LEMMA SubmitTracked ==
  ASSUME LogInv, SubmitNative
  PROVE  FlushesTracked'
<1>1. TypeOK /\ FlushesTracked /\ EndsWell
  BY DEF LogInv, OrderInv
<1>2. wpc = "submit" /\ outcome = "Ok" /\ UNCHANGED <<inbox, pc, call>>
  BY <1>1 DEF SubmitNative, EndsWell, queueVars
<1>3. CASE wpc' = "latchLost"
  <2>1. /\ reply' = [c \in Callers |-> IF c = ack THEN "dropped" ELSE reply[c]]
        /\ ack' = NoCaller /\ log' = log /\ outcome' # "Ok"
    BY <1>3 DEF SubmitNative
  <2>2. Len(log') >= Len(log) /\ Len(log') \in Nat
    BY <1>1, <2>1, TypeFacts
  <2>3. QED
    BY <1>2, <2>1, <2>2, AnsweredTracked
<1>4. CASE log' = log \o batch /\ wpc' = "publish" /\ batch' = <<>> /\ UNCHANGED <<ack, outcome, reply>>
  <2>1. /\ Len(log') = Len(log) + Len(batch) /\ Len(log) \in Nat /\ Len(batch) \in Nat
        /\ Len(batch') = 0
    BY <1>1, <1>4, TypeFacts, ConcatProperties
  <2>2. ASSUME NEW i \in 1..Len(inbox) PROVE ItemTracked(i)'
    <3>1. ItemTracked(i)
      BY <1>1, TrackedParts
    <3>2. QED
      BY <1>2, <1>4, <3>1 DEF ItemTracked
  <2>3. AckTracked'
    <3>1. Len(log') + Len(batch') = Len(log) + Len(batch)
      BY <2>1
    <3>2. QED
      BY <1>1, <1>2, <1>4, <3>1, TrackedParts DEF AckTracked
  <2>4. ASSUME NEW c \in Callers PROVE AnswerTracked(c)'
    <3>0. call[c].mark \in Nat
      BY <1>1 DEF TypeOK, Call
    <3>1. QED
      BY <1>1, <1>2, <1>4, <2>1, <3>0, TrackedParts DEF AnswerTracked
  <2>5. FlushesTracked' <=> /\ \A i \in 1..Len(inbox') : ItemTracked(i)'
                            /\ AckTracked' /\ \A d \in Callers : AnswerTracked(d)'
    BY DEF FlushesTracked, ItemTracked, AckTracked, AnswerTracked
  <2>6. QED
    BY <1>2, <2>2, <2>3, <2>4, <2>5
<1>5. QED
  BY <1>3, <1>4 DEF SubmitNative

LEMMA DropTracked ==
  ASSUME LogInv, DropInbox
  PROVE  FlushesTracked'
<1>1. TypeOK /\ FlushesTracked /\ EndsWell
  BY DEF LogInv, OrderInv
<1>2. /\ wpc = "dropInbox" /\ inbox' = <<>> /\ UNCHANGED <<pc, call, outcome, log, batch, ack>>
      /\ reply' = [c \in Callers |->
                     IF \E i \in 1..Len(inbox) : inbox[i].by = c
                     THEN "dropped" ELSE reply[c]]
  BY DEF DropInbox
<1>3. ack = NoCaller /\ \A i \in 1..Len(inbox') : FALSE
  BY <1>1, <1>2 DEF FlushesTracked
<1>4. ASSUME NEW c \in Callers PROVE AnswerTracked(c)'
  <2>1. pc[c] = "flushWait" => outcome # "Ok"
    BY <1>1, <1>2 DEF EndsWell, Ending
  <2>2. QED
    BY <1>1, <1>2, <2>1, TrackedParts DEF AnswerTracked
<1>5. FlushesTracked' <=> /\ \A i \in 1..Len(inbox') : ItemTracked(i)'
                          /\ AckTracked' /\ \A d \in Callers : AnswerTracked(d)'
  BY DEF FlushesTracked, ItemTracked, AckTracked, AnswerTracked
<1>6. QED
  BY <1>2, <1>3, <1>4, <1>5 DEF AckTracked

LEMMA OwnerFlushesTracked ==
  ASSUME LogInv, Owner
  PROVE  FlushesTracked'
<1>1. TypeOK /\ OwnerHolds /\ FlushesTracked
  BY DEF LogInv, OrderInv
<1>2. UNCHANGED call /\ pc' \in {pc, Notified}
  BY <1>1, OwnerFacts
<1>3. CASE ReceiveCarry
  <2>1. ack = NoCaller /\ UNCHANGED <<inbox, call, reply, ack, log, outcome, pc>> /\ batch = <<>>
    BY <1>1, <1>3 DEF ReceiveCarry, OwnerFrame, FlushesTracked, OwnerHolds
  <2>2. ASSUME NEW i \in 1..Len(inbox) PROVE ItemTracked(i)'
    <3>1. ItemTracked(i)
      BY <1>1, TrackedParts
    <3>2. QED
      BY <2>1, <3>1 DEF ItemTracked
  <2>3. ASSUME NEW c \in Callers PROVE AnswerTracked(c)'
    BY <1>1, <2>1, TrackedParts DEF AnswerTracked
  <2>4. FlushesTracked' <=> /\ \A i \in 1..Len(inbox') : ItemTracked(i)'
                            /\ AckTracked' /\ \A d \in Callers : AnswerTracked(d)'
    BY DEF FlushesTracked, ItemTracked, AckTracked, AnswerTracked
  <2>5. QED
    BY <2>1, <2>2, <2>3, <2>4 DEF AckTracked
<1>4. CASE Acknowledge
  <2>1. /\ reply' = [c \in Callers |-> IF c = ack THEN "ready" ELSE reply[c]]
        /\ ack' = NoCaller /\ UNCHANGED <<inbox, pc, call, log, outcome>> /\ batch = <<>>
    BY <1>1, <1>4 DEF Acknowledge, OwnerHolds, queueVars
  <2>2. Len(log') >= Len(log) /\ Len(log') \in Nat
    BY <1>1, <2>1, TypeFacts
  <2>3. QED
    BY <2>1, <2>2, AnsweredTracked
<1>5. CASE ReceiveEnd \/ GatherEnd \/ Publish \/ LatchLost \/ LatchFailed \/ WakeFailed
           \/ Drain \/ RecordDrain \/ ExitLatch \/ ExitStop
  <2>1. UNCHANGED <<inbox, reply, ack, log, batch>>
    BY <1>5 DEF ReceiveEnd, GatherEnd, Publish, LatchLost, LatchFailed, WakeFailed, Drain,
       RecordDrain, ExitLatch, ExitStop, OwnerFrame, queueVars, callVars
  <2>2. outcome # "Ok" => outcome' # "Ok"
    BY <1>5 DEF ReceiveEnd, GatherEnd, Publish, LatchLost, LatchFailed, WakeFailed, Drain,
       RecordDrain, ExitLatch, ExitStop, OwnerFrame
  <2>3. ack # NoCaller => wpc' \in {"submit", "publish", "acknowledge"}
    BY <1>1, <1>5 DEF FlushesTracked, ReceiveEnd, GatherEnd, Publish, LatchLost, LatchFailed,
       WakeFailed, Drain, RecordDrain, ExitLatch, ExitStop
  <2>4. QED
    BY <1>2, <2>1, <2>2, <2>3, TrackedFrame
<1>6. QED
  BY <1>3, <1>4, <1>5, TakeTracked, SubmitTracked, DropTracked DEF Owner

-----------------------------------------------------------------------------
(* flush_through waits for what was admitted. *)

LEMMA LogPrefix ==
  ASSUME LogInv
  PROVE  Len(log) \in Nat /\ Len(admitted) \in Nat /\ Len(log) <= Len(admitted)
<1>1. TypeOK /\ Len(log) + Len(batch) <= Len(admitted)
  BY DEF LogInv, OrderInv, FifoOrder
<1>2. QED
  BY <1>1, TypeFacts

\* What is submitted covers every token up to the published one.
LEMMA PublishedCovers ==
  ASSUME LogInv, NEW i \in 1..Len(admitted), Token(i) # 0, Token(i) <= submitted
  PROVE  i <= Len(log)
<1>1. /\ submitted \in Nat /\ Token(i) \in Nat
  <2>1. TypeOK
    BY DEF LogInv, OrderInv
  <2>2. admitted[i] \in Job
    BY <2>1, TypeFacts, ElementOfSeq
  <2>3. QED
    BY <2>1, <2>2, JobAssumption DEF TypeOK, Token
<1>2. submitted # 0
  BY <1>1
<1>3. PICK k \in 1..Len(log) : Token(k) = submitted
  BY <1>2 DEF LogInv, TokensPublished
<1>4. k \in 1..Len(admitted)
  BY LogPrefix, <1>3
<1>5. ~(k < i)
  BY <1>1, <1>2, <1>3, <1>4 DEF LogInv, TokensRise
<1>6. QED
  BY <1>3, <1>5, LogPrefix

LEMMA NewTokensRise ==
  ASSUME LogInv, NEW c \in Callers, CallerStep(c),
         NEW i \in 1..Len(admitted'), i > Len(admitted), admitted'[i].token # 0
  PROVE  admitted'[i].token > accepted
<1>1. TypeOK /\ CallsKnown /\ Len(admitted) \in Nat
  BY TypeFacts DEF LogInv, OrderInv
<1>2. Send(c)
  BY <1>1, AdmittedGrows
<1>3. call[c].jobs \in Seq(Job) /\ InOrder(call[c].jobs) /\ Len(call[c].jobs) \in Nat
  BY <1>1, <1>2 DEF Send, CallsKnown, TypeOK, Call
<1>4. CASE admitted' = admitted \o call[c].jobs
  <2>1. /\ Len(admitted') = Len(admitted) + Len(call[c].jobs)
        /\ admitted'[i] = call[c].jobs[i - Len(admitted)]
    BY <1>1, <1>3, <1>4, TypeFacts, ConcatProperties
  <2>2. i - Len(admitted) \in 1..Len(call[c].jobs)
    BY <1>1, <1>3, <2>1
  <2>3. QED
    BY <1>3, <2>1, <2>2 DEF InOrder
<1>5. CASE admitted' = admitted
  BY <1>1, <1>5
<1>6. QED
  BY <1>2, <1>4, <1>5 DEF Send

\* Only a turn of the wait loop that found the token published tells a caller
\* of flush_through Ok.
LEMMA ToldOk ==
  ASSUME LogInv, NEW c \in Callers, CallerStep(c),
         call'[c].op = "flush_through", result'[c] = "Ok"
  PROVE  FtCheck(c) /\ submitted >= call[c].value
<1>1. TypeOK /\ CallsKnown
  BY DEF LogInv, OrderInv
<1>2. ASSUME NEW jobs \in Bundles, Submit(c, jobs) PROVE FALSE
  BY <1>1, <1>2 DEF Submit, Rejects, Begins, Returns, TypeOK, AdmissionError
<1>3. ASSUME NEW v \in Tokens, FlushThrough(c, v) PROVE FALSE
  BY <1>1, <1>3 DEF FlushThrough, Rejects, Begins, Returns, TypeOK, AdmissionError
<1>4. ASSUME Flush(c) PROVE FALSE
  BY <1>1, <1>4 DEF Flush, Rejects, Begins, Returns, TypeOK, AdmissionError
<1>5. ASSUME Send(c) PROVE FALSE
  BY <1>1, <1>5 DEF Send, TypeOK, CallsKnown, Call
<1>6. ASSUME FlushSend(c) \/ FlushReturn(c) PROVE FALSE
  BY <1>1, <1>6 DEF FlushSend, FlushReturn, CallsKnown
<1>7. ASSUME FtLock(c) PROVE FALSE
  BY <1>1, <1>7 DEF FtLock, Returns, TypeOK, AdmissionError, CallsKnown
<1>8. ASSUME FtPark(c) \/ FtRelock(c) \/ FtWakeSpuriously(c) PROVE FALSE
  BY <1>1, <1>8 DEF FtPark, FtRelock, FtWakeSpuriously, CallsKnown
<1>9. ASSUME FtCheck(c) PROVE submitted >= call[c].value
  BY <1>1, <1>9 DEF FtCheck, Returns, TypeOK, AdmissionError, CallsKnown
<1>10. QED
  BY <1>2, <1>3, <1>4, <1>5, <1>6, <1>7, <1>8, <1>9 DEF CallerStep, Proceed

LEMMA CallerWaits ==
  ASSUME LogInv, NEW c \in Callers, CallerStep(c)
  PROVE  WaitsAdmitted' /\ FlushThroughCovers'
<1>1. TypeOK /\ CallsKnown /\ WaitsAdmitted /\ FlushThroughCovers
  BY DEF LogInv, OrderInv
<1>2. /\ log' = log /\ accepted \in Nat /\ accepted' \in Nat /\ accepted' >= accepted
      /\ Len(admitted) \in Nat /\ Len(admitted') \in Nat
      /\ \A i \in 1..Len(admitted) : admitted'[i] = admitted[i]
      /\ admitted' \in Seq(Job)
  <2>1. OrderInv'
    BY SubmitStep, FlushThroughStep, FlushStep, SendStep, FlushSendStep, FtLockStep,
       PlainCallSteps DEF LogInv, CallerStep, Proceed
  <2>2. QED
    BY <1>1, <2>1, CallerFacts, AdmittedGrows, TypeFacts, LenProperties
       DEF OrderInv, TypeOK, ownerVars
<1>3. ASSUME NEW d \in Callers, call'[d].op = "flush_through", result'[d] = "Ok"
      PROVE  /\ call'[d].value = call[d].value /\ call[d].value \in Nat
             /\ call[d].value <= accepted
             /\ \A i \in 1..Len(admitted) :
                  admitted[i].token # 0 /\ admitted[i].token <= call[d].value
                    => i <= Len(log)
  <2>0. call[d].value \in Nat /\ submitted \in Nat
    BY <1>1 DEF TypeOK, Call
  <2>1. CASE d # c
    <3>1. call'[d] = call[d] /\ result'[d] = result[d]
      BY <1>1, <2>1, CallerFacts
    <3>2. QED
      BY <1>1, <1>3, <2>0, <3>1 DEF WaitsAdmitted, FlushThroughCovers
  <2>2. CASE d = c
    <3>1. FtCheck(c) /\ submitted >= call[c].value
      BY <1>3, <2>2, ToldOk
    <3>2. call' = call /\ call[c].value <= accepted
      BY <1>1, <3>1 DEF FtCheck, CallsKnown, FtPcs
    <3>3. ASSUME NEW i \in 1..Len(admitted), admitted[i].token # 0,
                 admitted[i].token <= call[c].value
          PROVE  i <= Len(log)
      <4>1. admitted[i].token \in Nat
        BY <1>1, TypeFacts, ElementOfSeq, JobAssumption
      <4>2. admitted[i].token <= submitted
        BY <2>0, <2>2, <3>1, <3>3, <4>1
      <4>3. QED
        BY <3>3, <4>2, PublishedCovers DEF Token
    <3>4. QED
      BY <2>0, <2>2, <3>2, <3>3
  <2>3. QED
    BY <2>1, <2>2
<1>4. WaitsAdmitted'
  BY <1>2, <1>3 DEF WaitsAdmitted
<1>5. ASSUME NEW d \in Callers, call'[d].op = "flush_through", result'[d] = "Ok",
             NEW i \in 1..Len(admitted'), admitted'[i].token # 0,
             admitted'[i].token <= call'[d].value
      PROVE  i <= Len(log')
  <2>1. CASE i <= Len(admitted)
    <3>1. i \in 1..Len(admitted) /\ admitted'[i] = admitted[i]
      BY <1>2, <2>1
    <3>2. QED
      BY <1>2, <1>3, <1>5, <3>1
  <2>2. CASE i > Len(admitted)
    <3>1. admitted'[i].token > accepted
      BY <1>5, <2>2, NewTokensRise
    <3>2. admitted'[i].token \in Nat
      BY <1>2, ElementOfSeq, JobAssumption
    <3>3. QED
      BY <1>2, <1>3, <1>5, <3>1, <3>2
  <2>3. QED
    BY <1>2, <2>1, <2>2
<1>6. QED
  BY <1>4, <1>5 DEF FlushThroughCovers

LEMMA OwnerLogGrows ==
  ASSUME LogInv, Owner
  PROVE  Len(log') \in Nat /\ Len(log') >= Len(log)
<1>1. TypeOK /\ Len(log) \in Nat /\ Len(batch) \in Nat
  BY TypeFacts DEF LogInv, OrderInv
<1>2. CASE log' = log
  BY <1>1, <1>2
<1>3. CASE log' = log \o batch
  BY <1>1, <1>3, TypeFacts, ConcatProperties
<1>4. log' = log \/ log' = log \o batch
  BY DEF Owner, ReceiveCarry, ReceiveJob, ReceiveFlush, ReceiveEnd, GatherEnd,
     GatherJob, GatherFlush, SubmitNative, Publish, Acknowledge, LatchLost,
     LatchFailed, WakeFailed, Drain, RecordDrain, DropInbox, ExitLatch, ExitStop,
     OwnerFrame
<1>5. QED
  BY <1>2, <1>3, <1>4

LEMMA OwnerWaits ==
  ASSUME LogInv, Owner
  PROVE  WaitsAdmitted' /\ FlushThroughCovers'
<1>1. /\ UNCHANGED <<admitted, accepted, call, result>>
      /\ Len(log) \in Nat /\ Len(log') \in Nat /\ Len(log') >= Len(log)
      /\ Len(admitted) \in Nat
  BY OwnerFacts, OwnerLogGrows, LogPrefix DEF LogInv, OrderInv
<1>2. WaitsAdmitted'
  BY <1>1 DEF LogInv, WaitsAdmitted
<1>3. FlushThroughCovers'
  BY <1>1 DEF LogInv, FlushThroughCovers
<1>4. QED
  BY <1>2, <1>3

-----------------------------------------------------------------------------

LEMMA InitLog == Init => LogInv
<1> SUFFICES ASSUME Init PROVE LogInv
  OBVIOUS
<1>1. OrderInv
  BY InitOrder
<1>2. Len(admitted) = 0 /\ Len(log) = 0 /\ Len(inbox) = 0 /\ Len(batch) = 0
  BY DEF Init
<1>3. EndsWell
  BY DEF Init, EndsWell, Failing, Ending
<1>4. CallsKnown
  BY DEF Init, CallsKnown, FtPcs
<1>5. FlushesTracked
  BY <1>2 DEF Init, FlushesTracked
<1>6. TokensRise /\ TokensPublished
  BY <1>2 DEF Init, TokensRise, TokensPublished
<1>7. WaitsAdmitted /\ FlushThroughCovers
  BY <1>2 DEF Init, WaitsAdmitted, FlushThroughCovers
<1>8. QED
  BY <1>1, <1>3, <1>4, <1>5, <1>6, <1>7 DEF LogInv

\* A step that only moves shutdown along.
LEMMA LifeSteps ==
  ASSUME LogInv, Shutdown \/ Join
  PROVE  LogInv'
<1>1. /\ UNCHANGED <<queueVars, latchVars, stateVars, ownerVars, callVars,
                     admission, monitor, calls>>
  BY DEF Shutdown, Join
<1>2. OrderInv'
  BY PlainCallSteps DEF LogInv
<1>3. EndsWell'
  BY <1>1 DEF LogInv, EndsWell, Failing, Shutdown, Join, queueVars, latchVars, stateVars,
     ownerVars, callVars
<1>4. CallsKnown'
  BY <1>1 DEF LogInv, CallsKnown, InOrder, queueVars, callVars
<1>5. FlushesTracked'
  BY <1>1 DEF LogInv, FlushesTracked, queueVars, ownerVars, callVars
<1>6. TokensRise' /\ TokensPublished'
  BY <1>1 DEF LogInv, TokensRise, TokensPublished, Token, queueVars, stateVars, ownerVars
<1>7. WaitsAdmitted' /\ FlushThroughCovers'
  BY <1>1 DEF LogInv, WaitsAdmitted, FlushThroughCovers, queueVars, ownerVars, callVars
<1>8. QED
  BY <1>2, <1>3, <1>4, <1>5, <1>6, <1>7 DEF LogInv

LEMMA StutterLog ==
  ASSUME LogInv, UNCHANGED vars
  PROVE  LogInv'
<1>1. /\ UNCHANGED <<queueVars, latchVars, stateVars, ownerVars, callVars, lifeVars,
                     admission, monitor, calls>>
  BY DEF vars
<1>2. OrderInv'
  BY StepOrder DEF LogInv
<1>3. EndsWell'
  BY <1>1 DEF LogInv, EndsWell, Failing, queueVars, latchVars, stateVars, lifeVars,
     ownerVars, callVars
<1>4. CallsKnown'
  BY <1>1 DEF LogInv, CallsKnown, InOrder, queueVars, callVars
<1>5. FlushesTracked'
  BY <1>1 DEF LogInv, FlushesTracked, queueVars, ownerVars, callVars
<1>6. TokensRise' /\ TokensPublished'
  BY <1>1 DEF LogInv, TokensRise, TokensPublished, Token, queueVars, stateVars, ownerVars
<1>7. WaitsAdmitted' /\ FlushThroughCovers'
  BY <1>1 DEF LogInv, WaitsAdmitted, FlushThroughCovers, queueVars, ownerVars, callVars
<1>8. QED
  BY <1>2, <1>3, <1>4, <1>5, <1>6, <1>7 DEF LogInv

LEMMA NextCases ==
  ASSUME [Next]_vars
  PROVE  \/ \E c \in Callers : CallerStep(c)
         \/ Owner \/ Shutdown \/ Join \/ UNCHANGED vars
  BY DEF Next, CallerStep, Rest

LEMMA StepLog == LogInv /\ [Next]_vars => LogInv'
<1> SUFFICES ASSUME LogInv, [Next]_vars PROVE LogInv'
  OBVIOUS
<1>1. OrderInv'
  BY StepOrder DEF LogInv
<1>2. ASSUME NEW c \in Callers, CallerStep(c) PROVE LogInv'
  BY <1>1, <1>2, CallerEndsWell, CallerCallsKnown, CallerFlushesTracked, CallerTokensRise,
     CallerTokensPublished, CallerWaits DEF LogInv
<1>3. CASE Owner
  <2>1. TokensRise'
    BY <1>3, OwnerFacts, TokensRiseFrame DEF LogInv, OrderInv
  <2>2. QED
    BY <1>1, <1>3, <2>1, OwnerEndsWell, OwnerCallsKnown, OwnerFlushesTracked,
       OwnerTokensPublished, OwnerWaits DEF LogInv
<1>4. CASE Shutdown \/ Join
  BY <1>4, LifeSteps
<1>5. CASE UNCHANGED vars
  BY <1>5, StutterLog
<1>6. QED
  BY <1>2, <1>3, <1>4, <1>5, NextCases

\* flush_through keeps its promise, for any callers, bundles, tokens, batch
\* limits and failures of TransferWorker: once it has answered Ok, every ordered
\* job up to its token has been submitted, and none can be admitted later.
THEOREM FlushThroughSafe == Spec => []FlushThroughCovers
<1>1. LogInv => FlushThroughCovers
  BY DEF LogInv
<1>2. QED
  BY <1>1, InitLog, StepLog, PTL DEF Spec

-----------------------------------------------------------------------------
(* Every step of the worker is a step of the log it promises, or none. *)

Idle(c) == pc[c] = "idle"

\* Requests that stay what they are: Send moves the jobs out of one.
SameRequests ==
  \A c \in Callers : /\ call'[c].op = call[c].op /\ call'[c].mark = call[c].mark
                     /\ call'[c].value = call[c].value

LEMMA SameMaps ==
  ASSUME SameRequests
  PROVE  /\ [c \in Callers |-> call'[c].op] = [c \in Callers |-> call[c].op]
         /\ [c \in Callers |-> call'[c].mark] = [c \in Callers |-> call[c].mark]
         /\ [c \in Callers |-> call'[c].value] = [c \in Callers |-> call[c].value]
  BY DEF SameRequests

LEMMA StutterMaps ==
  ASSUME SameRequests, UNCHANGED <<admitted, result, log>>,
         outcome' # "Ok" <=> outcome # "Ok",
         \A c \in Callers : Idle(c)' <=> Idle(c)
  PROVE  UNCHANGED Log!vars
<1>1. {c \in Callers : pc'[c] # "idle"} = {c \in Callers : pc[c] # "idle"}
  BY DEF Idle
<1>2. (outcome' # "Ok") = (outcome # "Ok")
  OBVIOUS
<1>3. QED
  BY <1>1, <1>2, SameMaps DEF Log!vars

\* A call begins, or is refused at once.
LEMMA CallMaps ==
  ASSUME TypeOK, NEW c \in Callers, Idle(c),
         NEW o \in {"submit", "flush", "flush_through"}, NEW v \in Tokens \cup {0},
         NEW r \in Call, r.op = o, r.value = v,
         r.mark = IF o = "flush" THEN Len(admitted) ELSE 0,
         call' = [call EXCEPT ![c] = r], UNCHANGED <<admitted, log, outcome>>,
         \/ \E p \in CallerPcs \ {"idle"} :
              pc' = [pc EXCEPT ![c] = p] /\ result' = [result EXCEPT ![c] = "none"]
         \/ \E e \in {"Failed", "DeviceLost"} :
              pc' = [pc EXCEPT ![c] = "idle"] /\ result' = [result EXCEPT ![c] = e]
  PROVE  Log!Next
<1>1. call \in [Callers -> Call] /\ pc \in [Callers -> CallerPcs]
  BY DEF TypeOK
<1>2. /\ [d \in Callers |-> call'[d].op] = [[d \in Callers |-> call[d].op] EXCEPT ![c] = o]
      /\ [d \in Callers |-> call'[d].value]
           = [[d \in Callers |-> call[d].value] EXCEPT ![c] = v]
      /\ [d \in Callers |-> call'[d].mark]
           = [[d \in Callers |-> call[d].mark]
                EXCEPT ![c] = IF o = "flush" THEN Len(admitted) ELSE 0]
  BY <1>1
<1>3. c \notin {d \in Callers : pc[d] # "idle"}
  BY DEF Idle
<1>4. \/ /\ {d \in Callers : pc'[d] # "idle"} = {d \in Callers : pc[d] # "idle"} \cup {c}
         /\ result' = [result EXCEPT ![c] = "none"]
      \/ /\ \E e \in {"Failed", "DeviceLost"} : result' = [result EXCEPT ![c] = e]
         /\ {d \in Callers : pc'[d] # "idle"} = {d \in Callers : pc[d] # "idle"}
  BY <1>1 DEF Idle
<1>5. (outcome' # "Ok") = (outcome # "Ok") /\ Len(log') = Len(log)
  OBVIOUS
<1>6. Log!Call(c, o, v)
  BY <1>2, <1>3, <1>4, <1>5 DEF Log!Call
<1>7. QED
  BY <1>6 DEF Log!Next

\* A call under way returns.
LEMMA ReturnMaps ==
  ASSUME TypeOK, NEW c \in Callers, ~Idle(c), pc' = [pc EXCEPT ![c] = "idle"]
  PROVE  /\ c \in {d \in Callers : pc[d] # "idle"}
         /\ {d \in Callers : pc'[d] # "idle"} = {d \in Callers : pc[d] # "idle"} \ {c}
  BY DEF TypeOK, Idle

LEMMA RefuseMaps ==
  ASSUME TypeOK, NEW c \in Callers, ~Idle(c), outcome # "Ok",
         NEW e \in {"Failed", "DeviceLost"}, Returns(c, e),
         SameRequests, UNCHANGED <<admitted, log, outcome>>
  PROVE  Log!Next
<1>1. /\ pc' = [pc EXCEPT ![c] = "idle"] /\ result' = [result EXCEPT ![c] = e]
      /\ (outcome' # "Ok") = (outcome # "Ok") /\ Len(log') = Len(log)
  BY DEF Returns
<1>2. Log!Refuse(c)
  BY <1>1, ReturnMaps, SameMaps DEF Log!Refuse
<1>3. QED
  BY <1>2 DEF Log!Next

LEMMA SucceedMaps ==
  ASSUME TypeOK, NEW c \in Callers, ~Idle(c), call[c].op \in {"flush", "flush_through"},
         call[c].op = "flush" => call[c].mark <= Len(log),
         call[c].op = "flush_through" =>
           \A i \in 1..Len(admitted) :
             admitted[i].token # 0 /\ admitted[i].token <= call[c].value => i <= Len(log),
         Returns(c, "Ok"), SameRequests, UNCHANGED <<admitted, log, outcome>>
  PROVE  Log!Next
<1>1. /\ pc' = [pc EXCEPT ![c] = "idle"] /\ result' = [result EXCEPT ![c] = "Ok"]
      /\ (outcome' # "Ok") = (outcome # "Ok") /\ Len(log') = Len(log)
  BY DEF Returns
<1>2. Log!Covered(c, Len(log))
  BY DEF Log!Covered
<1>3. Log!Succeed(c)
  BY <1>1, <1>2, ReturnMaps, SameMaps DEF Log!Succeed
<1>4. QED
  BY <1>3 DEF Log!Next

\* A dead owner that ended well has published all that was accepted.
LEMMA DeadPublished ==
  ASSUME LogInv, outcome = "Ok", wpc = "dead"
  PROVE  accepted <= submitted
<1>1. TypeOK /\ Len(log) = Len(admitted)
  BY DEF LogInv, OrderInv, EndsWell, Ending
<1>2. accepted \in Nat /\ submitted \in Nat
  BY <1>1 DEF TypeOK
<1>3. CASE accepted = 0
  BY <1>2, <1>3
<1>4. CASE accepted # 0
  <2>1. PICK i \in 1..Len(admitted) : Token(i) = accepted
    BY <1>4 DEF LogInv, TokensRise
  <2>2. i \in 1..Len(log)
    BY <1>1
  <2>3. QED
    BY <2>1, <2>2 DEF LogInv, TokensPublished
<1>5. QED
  BY <1>3, <1>4

LEMMA SendMaps ==
  ASSUME LogInv, NEW c \in Callers, Send(c)
  PROVE  Log!Next
<1>1. TypeOK /\ CallsKnown /\ EndsWell /\ OwnerHolds
  BY DEF LogInv, OrderInv
<1>2. /\ pc[c] = "sending" /\ call[c].op = "submit" /\ call[c].jobs # <<>> /\ open
      /\ call' = [call EXCEPT ![c].jobs = <<>>] /\ UNCHANGED <<log, outcome>>
      /\ call[c].jobs \in Seq(Job) /\ admitted \in Seq(Job)
  BY <1>1 DEF Send, CallsKnown, EndsWell, ownerVars, TypeOK, Call
<1>3. SameRequests
  BY <1>1, <1>2 DEF SameRequests, TypeOK, Call
<1>4. CASE receiving
  <2>1. admitted' = admitted \o call[c].jobs /\ Returns(c, "Ok")
    BY <1>4 DEF Send
  <2>2. /\ admitted' \in Seq(Job) /\ Len(admitted') = Len(admitted) + Len(call[c].jobs)
        /\ \A i \in 1..Len(admitted) : admitted'[i] = admitted[i]
        /\ Len(admitted) \in Nat /\ Len(call[c].jobs) \in Nat /\ Len(call[c].jobs) # 0
    BY <1>2, <2>1, ConcatProperties, LenProperties, EmptySeq
  <2>3. SubSeq(admitted', 1, Len(admitted)) = admitted
    <3>1. /\ SubSeq(admitted', 1, Len(admitted)) \in Seq(Job)
          /\ Len(SubSeq(admitted', 1, Len(admitted))) = Len(admitted)
          /\ \A i \in 1..Len(admitted) : SubSeq(admitted', 1, Len(admitted))[i] = admitted'[i]
      BY <2>2
    <3>2. QED
      BY <1>2, <2>2, <3>1, SeqEqual
  <2>4. /\ pc' = [pc EXCEPT ![c] = "idle"] /\ result' = [result EXCEPT ![c] = "Ok"]
        /\ (outcome' # "Ok") = (outcome # "Ok") /\ Len(log') = Len(log)
    BY <1>2, <2>1 DEF Returns
  <2>5. Log!Admit(c)
    <3>1. /\ c \in {d \in Callers : pc[d] # "idle"}
          /\ {d \in Callers : pc'[d] # "idle"} = {d \in Callers : pc[d] # "idle"} \ {c}
      BY <1>1, <1>2, <2>4, ReturnMaps DEF Idle
    <3>2. Len(admitted') > Len(admitted)
      BY <2>2
    <3>3. [d \in Callers |-> call[d].op][c] = "submit"
      BY <1>2
    <3>4. QED
      BY <1>3, <2>2, <2>3, <2>4, <3>1, <3>2, <3>3, SameMaps DEF Log!Admit
  <2>6. QED
    BY <2>5 DEF Log!Next
<1>5. CASE ~receiving
  <2>1. outcome # "Ok"
    BY <1>1, <1>2, <1>5 DEF OwnerHolds, EndsWell, Ending, TypeOK, OwnerPcs
  <2>2. Returns(c, AdmissionError) /\ AdmissionError \in {"Failed", "DeviceLost"}
        /\ admitted' = admitted
    BY <1>5 DEF Send, AdmissionError
  <2>3. QED
    BY <1>1, <1>2, <1>3, <2>1, <2>2, RefuseMaps DEF Idle
<1>6. QED
  BY <1>4, <1>5

LEMMA BeginMaps ==
  ASSUME LogInv, NEW c \in Callers,
         \/ \E jobs \in Bundles : Submit(c, jobs)
         \/ Flush(c)
         \/ \E v \in Tokens : FlushThrough(c, v)
  PROVE  Log!Next
<1>1. TypeOK /\ <<>> \in Seq(Job) /\ Len(admitted) \in Nat
  BY TypeFacts, EmptySeq DEF LogInv, OrderInv
<1>2. AdmissionError \in {"Failed", "DeviceLost"}
  BY DEF AdmissionError
<1>3. ASSUME NEW jobs \in Bundles, Submit(c, jobs) PROVE Log!Next
  <2> DEFINE rejected == [NoCall EXCEPT !.op = "submit"]
             request == [rejected EXCEPT !.jobs = jobs]
  <2>1. /\ Idle(c) /\ UNCHANGED <<admitted, log, outcome>>
        /\ \/ /\ call' = [call EXCEPT ![c] = rejected]
              /\ \E e \in {"Failed", "DeviceLost"} :
                   pc' = [pc EXCEPT ![c] = "idle"] /\ result' = [result EXCEPT ![c] = e]
           \/ /\ call' = [call EXCEPT ![c] = request]
              /\ pc' = [pc EXCEPT ![c] = "sending"] /\ result' = [result EXCEPT ![c] = "none"]
    BY <1>2, <1>3 DEF Submit, Callable, Rejects, Returns, Begins, Idle, ownerVars
  <2>2. /\ rejected \in Call /\ rejected.op = "submit" /\ rejected.value = 0 /\ rejected.mark = 0
        /\ request \in Call /\ request.op = "submit" /\ request.value = 0 /\ request.mark = 0
    BY <1>1, BundlesAreSeqs DEF NoCall, Call
  <2> HIDE DEF rejected, request
  <2>3. "sending" \in CallerPcs \ {"idle"}
    BY DEF CallerPcs
  <2>4. CASE call' = [call EXCEPT ![c] = rejected]
    BY <1>1, <2>1, <2>2, <2>3, <2>4, CallMaps
  <2>5. CASE call' = [call EXCEPT ![c] = request]
    BY <1>1, <2>1, <2>2, <2>3, <2>5, CallMaps
  <2>6. QED
    BY <2>1, <2>4, <2>5
<1>4. ASSUME Flush(c) PROVE Log!Next
  <2> DEFINE request == [NoCall EXCEPT !.op = "flush", !.mark = Len(admitted)]
  <2>1. /\ Idle(c) /\ UNCHANGED <<admitted, log, outcome>>
        /\ call' = [call EXCEPT ![c] = request]
        /\ \/ \E e \in {"Failed", "DeviceLost"} :
                pc' = [pc EXCEPT ![c] = "idle"] /\ result' = [result EXCEPT ![c] = e]
           \/ pc' = [pc EXCEPT ![c] = "flushSend"] /\ result' = [result EXCEPT ![c] = "none"]
    BY <1>2, <1>4 DEF Flush, Callable, Rejects, Returns, Begins, Idle, ownerVars, queueVars
  <2>2. /\ request \in Call /\ request.op = "flush" /\ request.value = 0
        /\ request.mark = Len(admitted)
    BY <1>1 DEF NoCall, Call
  <2> HIDE DEF request
  <2>3. "flushSend" \in CallerPcs \ {"idle"}
    BY DEF CallerPcs
  <2>4. QED
    BY <1>1, <2>1, <2>2, <2>3, CallMaps
<1>5. ASSUME NEW v \in Tokens, FlushThrough(c, v) PROVE Log!Next
  <2> DEFINE request == [NoCall EXCEPT !.op = "flush_through", !.value = v]
  <2>1. /\ Idle(c) /\ UNCHANGED <<admitted, log, outcome>>
        /\ call' = [call EXCEPT ![c] = request]
        /\ \/ \E e \in {"Failed", "DeviceLost"} :
                pc' = [pc EXCEPT ![c] = "idle"] /\ result' = [result EXCEPT ![c] = e]
           \/ pc' = [pc EXCEPT ![c] = "ftLock"] /\ result' = [result EXCEPT ![c] = "none"]
    BY <1>2, <1>5 DEF FlushThrough, Callable, Rejects, Returns, Begins, Idle, ownerVars,
       queueVars
  <2>2. /\ request \in Call /\ request.op = "flush_through" /\ request.value = v
        /\ request.mark = 0
    BY <1>1, JobAssumption DEF NoCall, Call, Tokens
  <2> HIDE DEF request
  <2>3. "ftLock" \in CallerPcs \ {"idle"}
    BY DEF CallerPcs
  <2>4. QED
    BY <1>1, <2>1, <2>2, <2>3, CallMaps
<1>6. QED
  BY <1>3, <1>4, <1>5

\* A step inside a call: it stutters, succeeds on a covered wait, or fails on an
\* owner that has ended.
LEMMA InsideMaps ==
  ASSUME LogInv, NEW c \in Callers,
         FlushSend(c) \/ FlushReturn(c) \/ FtLock(c) \/ FtCheck(c) \/ FtPark(c)
         \/ FtRelock(c) \/ FtWakeSpuriously(c)
  PROVE  [Log!Next]_(Log!vars)
<1>1. TypeOK /\ CallsKnown /\ EndsWell /\ OwnerHolds /\ FlushesTracked
  BY DEF LogInv, OrderInv
<1>2. /\ ~Idle(c) /\ SameRequests /\ UNCHANGED <<admitted, log, outcome>>
      /\ AdmissionError \in {"Failed", "DeviceLost"}
  BY DEF FlushSend, FlushReturn, FtLock, FtCheck, FtPark, FtRelock, FtWakeSpuriously,
     Idle, SameRequests, queueVars, ownerVars, AdmissionError
<1>3. ASSUME result' = result, NEW p \in CallerPcs \ {"idle"}, pc' = [pc EXCEPT ![c] = p]
      PROVE  UNCHANGED Log!vars
  BY <1>1, <1>2, <1>3, StutterMaps DEF Idle, TypeOK
<1>4. CASE FlushSend(c)
  <2>1. CASE receiving
    BY <1>3, <1>4, <2>1 DEF FlushSend, CallerPcs
  <2>2. CASE ~receiving
    <3>1. Returns(c, "Failed")
      BY <1>4, <2>2 DEF FlushSend
    <3>2. outcome # "Ok"
      BY <1>1, <1>4, <2>2 DEF FlushSend, OwnerHolds, EndsWell, Ending, TypeOK, OwnerPcs
    <3>3. QED
      BY <1>1, <1>2, <3>1, <3>2, RefuseMaps
  <2>3. QED
    BY <2>1, <2>2
<1>5. CASE FlushReturn(c)
  <2>1. /\ pc[c] = "flushWait" /\ call[c].op = "flush"
        /\ reply[c] = "ready" => call[c].mark <= Len(log)
        /\ reply[c] = "dropped" => outcome # "Ok"
    BY <1>1, <1>5 DEF FlushReturn, CallsKnown, FlushesTracked
  <2>2. CASE reply[c] = "ready" /\ Returns(c, "Ok")
    BY <1>1, <1>2, <2>1, <2>2, SucceedMaps
  <2>3. CASE reply[c] = "dropped" /\ Returns(c, AdmissionError)
    BY <1>1, <1>2, <2>1, <2>3, RefuseMaps
  <2>4. QED
    BY <1>5, <2>2, <2>3 DEF FlushReturn
<1>6. ASSUME pc[c] \in FtPcs, submitted < call[c].value, wpc = "dead"
      PROVE  outcome # "Ok"
  <2>1. call[c].value <= accepted
    BY <1>1, <1>6 DEF CallsKnown
  <2>2. call[c].value \in Nat /\ accepted \in Nat /\ submitted \in Nat
    BY <1>1 DEF TypeOK, Call
  <2>3. QED
    BY <1>6, <2>1, <2>2, DeadPublished
<1>7. CASE FtLock(c)
  <2>1. pc[c] = "ftLock" /\ pc[c] \in FtPcs /\ ~joining
    BY <1>1, <1>7 DEF FtLock, FtPcs, EndsWell
  <2>2. CASE pc' = [pc EXCEPT ![c] = "ftCheck"] /\ result' = result
    BY <1>3, <2>2 DEF CallerPcs
  <2>3. CASE submitted < call[c].value /\ ~open /\ Returns(c, "Failed")
    <3>1. outcome # "Ok"
      BY <1>1, <1>6, <2>1, <2>3 DEF EndsWell
    <3>2. QED
      BY <1>1, <1>2, <2>3, <3>1, RefuseMaps
  <2>4. CASE open /\ ~receiving /\ Returns(c, AdmissionError)
    <3>1. outcome # "Ok"
      BY <1>1, <2>4 DEF OwnerHolds, EndsWell, Ending, TypeOK, OwnerPcs
    <3>2. QED
      BY <1>1, <1>2, <2>4, <3>1, RefuseMaps
  <2>5. QED
    BY <1>7, <2>2, <2>3, <2>4 DEF FtLock
<1>8. CASE FtCheck(c)
  <2>1. /\ pc[c] = "ftCheck" /\ pc[c] \in FtPcs /\ call[c].op = "flush_through"
        /\ call[c].value \in Nat /\ submitted \in Nat
    BY <1>1, <1>8 DEF FtCheck, FtPcs, CallsKnown, TypeOK, Call
  <2>2. CASE /\ Failing \/ (stopped /\ submitted < call[c].value)
             /\ Returns(c, AdmissionError)
    <3>1. outcome # "Ok"
      BY <1>1, <1>6, <2>1, <2>2 DEF EndsWell
    <3>2. QED
      BY <1>1, <1>2, <2>2, <3>1, RefuseMaps
  <2>3. CASE submitted >= call[c].value /\ Returns(c, "Ok")
    <3>1. ASSUME NEW i \in 1..Len(admitted), admitted[i].token # 0,
                 admitted[i].token <= call[c].value
          PROVE  i <= Len(log)
      <4>1. admitted[i].token \in Nat
        BY <1>1, TypeFacts, ElementOfSeq, JobAssumption
      <4>2. admitted[i].token <= submitted
        BY <2>1, <2>3, <3>1, <4>1
      <4>3. QED
        BY <3>1, <4>2, PublishedCovers DEF Token
    <3>2. QED
      BY <1>1, <1>2, <2>1, <2>3, <3>1, SucceedMaps
  <2>4. CASE pc' = [pc EXCEPT ![c] = "ftPark"] /\ result' = result
    BY <1>3, <2>4 DEF CallerPcs
  <2>5. QED
    BY <1>8, <2>2, <2>3, <2>4 DEF FtCheck
<1>9. CASE FtPark(c) \/ FtRelock(c) \/ FtWakeSpuriously(c)
  BY <1>3, <1>9 DEF FtPark, FtRelock, FtWakeSpuriously, CallerPcs
<1>10. QED
  BY <1>4, <1>5, <1>7, <1>8, <1>9

LEMMA OwnerMaps ==
  ASSUME LogInv, Owner
  PROVE  [Log!Next]_(Log!vars)
<1>1. /\ TypeOK /\ EndsWell /\ OwnerHolds
      /\ Len(log) + Len(batch) <= Len(admitted)
  BY DEF LogInv, OrderInv, FifoOrder
<1>2. /\ UNCHANGED <<admitted, call, result>> /\ SameRequests
      /\ \A c \in Callers : Idle(c)' <=> Idle(c)
  BY <1>1, OwnerFacts, NotifiedFacts DEF SameRequests, Idle
<1>3. {c \in Callers : pc'[c] # "idle"} = {c \in Callers : pc[c] # "idle"}
  BY <1>2 DEF Idle
<1>4. ASSUME log' = log, outcome' # "Ok" <=> outcome # "Ok" PROVE UNCHANGED Log!vars
  BY <1>2, <1>4, StutterMaps
<1>5. ASSUME log' = log, outcome = "Ok", outcome' # "Ok" PROVE Log!Next
  <2>1. Log!End
    BY <1>2, <1>3, <1>5, SameMaps DEF Log!End
  <2>2. QED
    BY <2>1 DEF Log!Next
<1>6. CASE SubmitNative
  <2>1. outcome = "Ok" /\ batch # <<>>
    BY <1>1, <1>6 DEF SubmitNative, EndsWell, OwnerHolds
  <2>2. CASE log' = log \o batch /\ outcome' = outcome
    <3>1. /\ Len(log') = Len(log) + Len(batch) /\ Len(log) \in Nat /\ Len(batch) \in Nat
          /\ Len(admitted) \in Nat /\ Len(batch) # 0
      BY <1>1, <2>1, <2>2, TypeFacts, ConcatProperties, EmptySeq
    <3>2. Len(log') \in (Len(log) + 1)..Len(admitted)
      BY <1>1, <3>1
    <3>3. Log!Progress
      BY <1>2, <1>3, <2>1, <2>2, <3>2, SameMaps DEF Log!Progress
    <3>4. QED
      BY <3>3 DEF Log!Next
  <2>3. CASE log' = log /\ outcome' # "Ok"
    BY <1>5, <2>1, <2>3
  <2>4. QED
    BY <1>6, <2>2, <2>3 DEF SubmitNative
<1>7. CASE Drain
  <2>1. log' = log /\ (outcome # "Ok" => outcome' # "Ok")
    BY <1>7 DEF Drain
  <2>2. QED
    BY <1>4, <1>5, <2>1
<1>8. CASE ~SubmitNative /\ ~Drain
  <2>1. UNCHANGED <<log, outcome>>
    BY <1>8 DEF Owner, ReceiveCarry, ReceiveJob, ReceiveFlush, ReceiveEnd, GatherEnd,
       GatherJob, GatherFlush, Publish, Acknowledge, LatchLost, LatchFailed, WakeFailed,
       RecordDrain, DropInbox, ExitLatch, ExitStop, OwnerFrame
  <2>2. QED
    BY <1>4, <2>1
<1>9. QED
  BY <1>6, <1>7, <1>8

LEMMA InitMaps == Init => Log!Init
<1> SUFFICES ASSUME Init PROVE Log!Init
  OBVIOUS
<1>1. {c \in Callers : pc[c] # "idle"} = {} /\ Len(log) = 0 /\ (outcome # "Ok") = FALSE
  BY DEF Init
<1>2. /\ [c \in Callers |-> call[c].op] = [c \in Callers |-> "none"]
      /\ [c \in Callers |-> call[c].mark] = [c \in Callers |-> 0]
      /\ [c \in Callers |-> call[c].value] = [c \in Callers |-> 0]
  BY DEF Init, NoCall
<1>3. QED
  BY <1>1, <1>2 DEF Init, Log!Init

LEMMA StepMaps == LogInv /\ [Next]_vars => [Log!Next]_(Log!vars)
<1> SUFFICES ASSUME LogInv, [Next]_vars PROVE [Log!Next]_(Log!vars)
  OBVIOUS
<1>1. ASSUME NEW c \in Callers, CallerStep(c) PROVE [Log!Next]_(Log!vars)
  BY <1>1, BeginMaps, SendMaps, InsideMaps DEF CallerStep, Proceed
<1>2. CASE Shutdown \/ Join \/ UNCHANGED vars
  <2>1. UNCHANGED <<admitted, result, log, outcome, pc, call>>
    BY <1>2 DEF Shutdown, Join, vars, queueVars, ownerVars, callVars
  <2>2. QED
    BY <2>1, StutterMaps DEF SameRequests, Idle
<1>3. QED
  BY <1>1, <1>2, OwnerMaps, NextCases

\* The worker implements the log its callers are promised (SubmissionLog), for
\* any callers, bundles and batch limits: a bundle enters whole or not at all,
\* only a covered wait succeeds, submission only moves forward along admission
\* order, and a call under way fails only once the owner has ended.
THEOREM WorkerImplementsLog == Spec => ImplementsLog
<1>1. LogInv /\ [Next]_vars => [Log!Next]_(Log!vars)
  BY StepMaps
<1>2. QED
  BY <1>1, InitLog, StepLog, InitMaps, PTL DEF Spec, ImplementsLog, Log!Spec

=============================================================================
