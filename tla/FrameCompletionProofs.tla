------------------------ MODULE FrameCompletionProofs ------------------------
(***************************************************************************)
(* Proofs about FrameCompletion for any number of slots, objects and       *)
(* values, and for the three backends.  The inductive invariant is Books   *)
(* of NativeFramesProofs, of the record, the uses and the objects freed.   *)
(***************************************************************************)
EXTENDS FrameCompletion, NativeFramesProofs

Listed == uses \in [Values -> SUBSET Items] /\ freed \subseteq Items
BooksInv == Listed /\ Books(frames, uses, freed)

LEMMA InitBooks == Init => BooksInv
<1> SUFFICES ASSUME Init PROVE BooksInv
  OBVIOUS
<1>1. PICK b \in Backends : frames = NewFrames(b)
  BY DEF Init
<1>2. uses = [v \in Values |-> {}] /\ freed = {} /\ Values \subseteq Nat \ {0}
  BY FramesBound DEF Init, Values
<1>3. Books(frames, uses, freed)
  BY <1>1, <1>2, NewFramesBooks
<1>4. QED
  BY <1>2, <1>3 DEF BooksInv, Listed

LEMMA NextBooks == BooksInv /\ [Next]_vars => BooksInv'
<1> SUFFICES ASSUME BooksInv, [Next]_vars PROVE BooksInv'
  OBVIOUS
<1>b. Listed /\ Books(frames, uses, freed) /\ DOMAIN uses = Values
  BY DEF BooksInv, Listed
<1>1. ASSUME NEW used \in SUBSET (Items \ freed), frames.next \in Values, CanPrepare(frames),
             frames' \in {Submitted(frames), ReadBack(frames), PresentFailed(frames)},
             uses' = [uses EXCEPT ![frames.next] = used], UNCHANGED freed
      PROVE  BooksInv'
  <2>1. Listed'
    BY <1>1, <1>b DEF Listed
  <2>2. used \cap freed = {}
    OBVIOUS
  <2> DEFINE u1 == [uses EXCEPT ![frames.next] = used]
  <2>3. /\ Books(Submitted(frames), u1, freed)
        /\ Books(ReadBack(frames), u1, freed)
        /\ Books(PresentFailed(frames), u1, freed)
    BY <1>1, <1>b, <2>2, SubmittedKeeps, ReadBackKeeps, PresentFailedKeeps
  <2> HIDE DEF u1
  <2>4. Books(frames', uses', freed')
    BY <1>1, <2>3 DEF u1
  <2>5. QED
    BY <2>1, <2>4 DEF BooksInv
<1>2. ASSUME NEW used \in SUBSET (Items \ freed),
             Submit(used) \/ SubmitReadBack(used) \/ FailPresent(used)
      PROVE  BooksInv'
  <2>1. frames.next \in Values
    BY <1>2, <1>b, FramesBound
       DEF Submit, SubmitReadBack, FailPresent, Values, Books, Typed, BooksType
  <2>2. QED
    BY <1>1, <1>2, <2>1 DEF Submit, SubmitReadBack, FailPresent
<1>3. ASSUME NEW item \in Items, Free(item) PROVE BooksInv'
  BY <1>3, <1>b, DeferKeeps DEF Free, BooksInv, Listed
<1>4. CASE Refuse
  BY <1>4, <1>b, RefusedKeeps DEF Refuse, BooksInv, Listed
<1>5. CASE Poll
  BY <1>5, <1>b, PollKeeps DEF Poll, BooksInv, Listed
<1>6. CASE WaitIdle
  BY <1>6, <1>b, IdledKeeps DEF WaitIdle, BooksInv, Listed
<1>7. CASE FrameEnds
  BY <1>7, <1>b, OldestEndsKeeps DEF FrameEnds, BooksInv, Listed
<1>8. CASE UNCHANGED vars
  BY <1>8, <1>b DEF vars, BooksInv, Listed
<1>9. QED
  BY <1>2, <1>3, <1>4, <1>5, <1>6, <1>7, <1>8 DEF Next

LEMMA BooksGive ==
  BooksInv => TypeOK /\ DestroyedUnused /\ CompletedIsPrefix /\ DeferredWillEnd
<1> SUFFICES ASSUME BooksInv
             PROVE  TypeOK /\ DestroyedUnused /\ CompletedIsPrefix /\ DeferredWillEnd
  OBVIOUS
<1>b. Listed /\ Books(frames, uses, freed) /\ DOMAIN uses = Values
  BY DEF BooksInv, Listed
<1>1. TypeOK
  <2>1. frames.deferred \subseteq Deferral /\ frames.destroyed \subseteq Items
    BY <1>b DEF Books, Typed, BooksType, DeferralOf, Deferral, Listed
  <2>2. QED
    BY <1>b, <2>1 DEF Books, Typed, BooksType, Listed, TypeOK
<1>2. DestroyedUnused
  BY <1>b DEF Books, Seated, DestroyedUnused
<1>3. CompletedIsPrefix
  BY <1>b, CompletedIs DEF CompletedIsPrefix
<1>4. DeferredWillEnd
  BY <1>b DEF Books, Deferred, DeferredWillEnd
<1>5. QED
  BY <1>1, <1>2, <1>3, <1>4

-----------------------------------------------------------------------------
\* The books stay well typed (every operation of device_lifecycle.rs,
\* native/device.rs and the frame code returns a record of the same shape).
THEOREM FramesTypeCorrect == Spec => []TypeOK
<1>1. BooksInv => TypeOK
  BY BooksGive
<1>2. QED
  BY InitBooks, NextBooks, <1>1, PTL DEF Spec

\* For any number of slots, objects and frames, and for the three backends, no
\* native object is destroyed under a frame the GPU still runs.
THEOREM NeverDestroyedInUse == Spec => []DestroyedUnused
<1>1. BooksInv => DestroyedUnused
  BY BooksGive
<1>2. QED
  BY InitBooks, NextBooks, <1>1, PTL DEF Spec

\* The completed value a backend reports never reaches a frame still running.
THEOREM CompletionIsPrefix == Spec => []CompletedIsPrefix
<1>1. BooksInv => CompletedIsPrefix
  BY BooksGive
<1>2. QED
  BY InitBooks, NextBooks, <1>1, PTL DEF Spec

\* Every object freed is destroyed, or waits exactly once and for something
\* that is still to come.
THEOREM DeferralsPending == Spec => []DeferredWillEnd
<1>1. BooksInv => DeferredWillEnd
  BY BooksGive
<1>2. QED
  BY InitBooks, NextBooks, <1>1, PTL DEF Spec
=============================================================================
