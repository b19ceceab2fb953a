--------------------------- MODULE GpuArenaProofs ---------------------------
(***************************************************************************)
(* For any limits, contents and bounds of GpuArena: no reservation hands   *)
(* out a handle of the past, every slot without a dirty mark is in the     *)
(* buffer with its present value, and a frame on the GPU reads what the    *)
(* last bind of its recording wrote.                                       *)
(*                                                                         *)
(* The first follows from the free list naming every slot at most once,    *)
(* and only vacant ones; the second from the marks a bind under way took   *)
(* being those of the arena, whose lock it holds; the third from the books *)
(* of the frames, and from lastUse bounding the frames that read the       *)
(* buffer of the store.                                                    *)
(***************************************************************************)
EXTENDS GpuArena, NativeFramesProofs, FiniteSetTheorems, SequenceTheorems

SlotType == [generation : Nat, occupied : BOOLEAN, value : Contents]
ArenaType == [slots : Seq(SlotType), free : Seq(Nat), dirty : SUBSET Nat]
HandleType == [from : {"this", "other"}, slot : Nat, generation : Nat]

Stored == arena \in ArenaType /\ arena.slots # <<>> /\ arena.dirty \subseteq Slot

\* The free list names vacant slots, each at most once.
FreeListed ==
  /\ \A k \in 1..Len(arena.free) :
       arena.free[k] \in Slot /\ ~arena.slots[arena.free[k]].occupied
  /\ \A j, k \in 1..Len(arena.free) : arena.free[j] = arena.free[k] => j = k

\* A handle is at most as old as its slot, and older once the slot is vacant.
IssuedPast ==
  /\ issued \subseteq HandleType
  /\ \A h \in issued :
       /\ h.slot \in Slot /\ h.generation <= arena.slots[h.slot].generation
       /\ ~arena.slots[h.slot].occupied => h.generation # arena.slots[h.slot].generation

HandlesInv == Stored /\ FreeListed /\ IssuedPast

StoreType == [known : BOOLEAN, native : 0..MaxNative, capacity : Nat, lastUse : Nat]

BuffersTyped ==
  /\ store \in StoreType
  /\ store.native = 0 => store.capacity = 0
  /\ bytes = [n \in Natives |-> bytes[n]]
  /\ store.native # 0 => bytes[store.native] \in [1..store.capacity -> Contents]

MarksSound ==
  /\ sync.at = "writing" => sync.regions = arena.dirty
  /\ store.native # 0 =>
       \A i \in Slot \ arena.dirty :
         i <= store.capacity /\ bytes[store.native][i] = arena.slots[i].value

\* A step marks every slot it makes or changes.
KeepsUnmarked ==
  \A i \in Slot' \ arena'.dirty :
    i \in Slot \ arena.dirty /\ arena'.slots[i].value = arena.slots[i].value

MarksInv == BuffersTyped /\ MarksSound

-----------------------------------------------------------------------------
LEMMA BatchesAreSequences ==
  ASSUME NEW S, NEW s \in UpToTwo(S)
  PROVE  s \in Seq(S)
<1>1. CASE s \in {<<a>> : a \in S}
  BY <1>1
<1>2. CASE s \in S \X S
  <2>1. PICK a \in S, b \in S : s = <<a, b>>
    BY <1>2
  <2>2. QED
    BY <2>1
<1>3. QED
  BY <1>1, <1>2 DEF UpToTwo

-----------------------------------------------------------------------------
\* Handles.

LEMMA ReserveKeeps ==
  ASSUME HandlesInv, NEW count \in 1..2, Reserve(count)
  PROVE  HandlesInv' /\ KeepsUnmarked
<1> USE DEF HandlesInv
<1> DEFINE kept == Len(arena.free) - Reused(count)
           taken == {arena.free[i] : i \in kept + 1 .. Len(arena.free)}
           length == Len(arena.slots) + count - Reused(count)
           slots == [i \in 1..length |->
                       IF i \notin Slot THEN NewSlot
                       ELSE IF i \in taken
                       THEN [arena.slots[i] EXCEPT !.occupied = TRUE, !.value = 0]
                       ELSE arena.slots[i]]
           fresh == taken \cup (1..length \ Slot)
<1>1. /\ Len(arena.free) \in Nat /\ Len(arena.slots) \in Nat
      /\ Reused(count) \in 0..count /\ Reused(count) <= Len(arena.free)
  BY DEF Stored, ArenaType, Reused
<1>2. /\ kept \in Nat /\ kept <= Len(arena.free)
      /\ length \in Nat /\ Len(arena.slots) <= length
  <2>1. \A a, b, c, n \in Nat :
          c \in 0..n /\ c <= a =>
            /\ a - c \in Nat /\ a - c <= a
            /\ b + n - c \in Nat /\ b <= b + n - c
    OBVIOUS
  <2>2. count \in Nat /\ Reused(count) \in Nat
    BY <1>1
  <2> HIDE DEF taken, slots, fresh
  <2>3. QED
    BY <1>1, <2>1, <2>2
<1>3. arena' = [slots |-> slots, free |-> SubSeq(arena.free, 1, kept),
                dirty |-> arena.dirty \cup fresh]
      /\ issued' = issued \cup {HandleOf("this", i, slots[i].generation) : i \in fresh}
  BY DEF Reserve
<1>4. taken \subseteq Slot /\ fresh \subseteq 1..length /\ Slot \subseteq 1..length
  BY <1>1, <1>2 DEF FreeListed, Slot
<1>5. \A i \in 1..length : slots[i] \in SlotType
  <2>1. \A i \in Slot : arena.slots[i] \in SlotType
    BY DEF Stored, ArenaType, Slot
  <2>2. 0 \in Contents
    BY ArenaAssumption
  <2>3. QED
    BY <2>1, <2>2 DEF SlotType, NewSlot
<1>6. /\ \A i \in Slot : slots[i].generation = arena.slots[i].generation
      /\ \A i \in Slot \ taken : slots[i].occupied = arena.slots[i].occupied
      /\ \A i \in fresh : slots[i].occupied
  <2>1. \A i \in Slot : arena.slots[i] \in SlotType
    BY DEF Stored, ArenaType, Slot
  <2>2. QED
    BY <1>4, <2>1 DEF SlotType, NewSlot
<1>u. \A i \in 1..length \ fresh : i \in Slot /\ slots[i] = arena.slots[i]
  OBVIOUS
<1>t. slots \in [1..length -> SlotType]
  BY <1>5
<1> HIDE DEF slots
<1>7. slots \in Seq(SlotType) /\ Len(slots) = length
  <2> HIDE DEF length
  <2>1. QED
    BY <1>2, <1>t
<1>8. Slot' = 1..length
  BY <1>3, <1>7 DEF Slot
<1>9. Stored'
  <2>1. fresh \subseteq Nat
    <3>1. \A i \in 1..length : i \in Nat
      OBVIOUS
    <3>2. QED
      BY <1>4, <3>1
  <2>2. SubSeq(arena.free, 1, kept) \in Seq(Nat)
    BY <1>1, <1>2 DEF Stored, ArenaType
  <2>3. slots # <<>>
    BY <1>1, <1>2, <1>7 DEF Stored, ArenaType
  <2>4. arena.dirty \cup fresh \subseteq 1..length
    <3> HIDE DEF fresh, length
    <3>1. QED
      BY <1>4 DEF Stored
  <2>5. QED
    BY <1>3, <1>7, <1>8, <2>1, <2>2, <2>3, <2>4 DEF Stored, ArenaType
<1>10. FreeListed'
  <2>1. Len(arena'.free) = kept /\ \A k \in 1..kept : arena'.free[k] = arena.free[k]
    BY <1>1, <1>2, <1>3 DEF Stored, ArenaType
  <2>2. ASSUME NEW k \in 1..kept
        PROVE  k \in 1..Len(arena.free) /\ arena.free[k] \in Slot \ taken
    <3>1. k \in 1..Len(arena.free)
      BY <1>1, <1>2
    <3>2. arena.free[k] \in Slot
      BY <3>1 DEF FreeListed
    <3>3. ASSUME NEW i \in kept + 1 .. Len(arena.free), arena.free[k] = arena.free[i] PROVE FALSE
      <4>1. i \in 1..Len(arena.free) /\ i # k
        BY <1>1, <1>2
      <4>2. QED
        BY <3>1, <3>3, <4>1 DEF FreeListed
    <3>4. QED
      BY <3>1, <3>2, <3>3
  <2>3. \A k \in 1..kept : ~slots[arena.free[k]].occupied
    <3> HIDE DEF taken, kept
    <3>1. QED
      BY <1>6, <2>2 DEF FreeListed
  <2>4. \A j, k \in 1..kept : arena.free[j] = arena.free[k] => j = k
    BY <2>2 DEF FreeListed
  <2>5. arena'.slots = slots
    BY <1>3
  <2> HIDE DEF taken, kept, length
  <2>6. QED
    BY <1>4, <1>8, <2>1, <2>2, <2>3, <2>4, <2>5 DEF FreeListed
<1>11. IssuedPast'
  <2>1. ASSUME NEW h \in issued
        PROVE  /\ h \in HandleType /\ h.slot \in 1..length
               /\ h.generation <= slots[h.slot].generation
               /\ ~slots[h.slot].occupied => h.generation # slots[h.slot].generation
    BY <1>4, <1>6, <2>1 DEF IssuedPast
  <2>2. ASSUME NEW i \in fresh, NEW h, h = HandleOf("this", i, slots[i].generation)
        PROVE  /\ h \in HandleType /\ h.slot \in 1..length
               /\ h.generation <= slots[h.slot].generation
               /\ ~slots[h.slot].occupied => h.generation # slots[h.slot].generation
    <3>1. i \in 1..length /\ i \in Nat /\ slots[i].occupied /\ slots[i].generation \in Nat
      BY <1>2, <1>4, <1>5, <1>6 DEF SlotType
    <3>2. QED
      BY <2>2, <3>1 DEF HandleOf, HandleType
  <2>3. QED
    BY <1>3, <1>8, <2>1, <2>2 DEF IssuedPast
<1>12. KeepsUnmarked
  <2>1. /\ Slot' = 1..length /\ arena'.dirty = arena.dirty \cup fresh
        /\ arena'.slots = slots
    BY <1>3, <1>8
  <2> HIDE DEF fresh, length
  <2>2. QED
    BY <1>u, <2>1 DEF KeepsUnmarked
<1>13. QED
  BY <1>9, <1>10, <1>11, <1>12

\* What a batch leaves in a slot.
LEMMA EarlierIs ==
  ASSUME NEW batch \in Seq(Entries), NEW i, NEW k \in 1 .. Len(batch) + 1,
         Earlier(batch, i, k) # {}
  PROVE  LET h == Highest(Earlier(batch, i, k))
         IN h \in 1..Len(batch) /\ h < k /\ batch[h].handle.slot = i
<1>1. /\ Earlier(batch, i, k) \in SUBSET (1..Len(batch)) /\ Len(batch) \in Nat
      /\ Earlier(batch, i, k) \in SUBSET Nat
      /\ \A j \in Earlier(batch, i, k) : j <= Len(batch)
  BY DEF Earlier
<1>2. Highest(Earlier(batch, i, k)) \in Earlier(batch, i, k)
  BY <1>1, HighestIs
<1>3. QED
  BY <1>1, <1>2 DEF Earlier

LEMMA ValuesAreContents ==
  ASSUME Stored, NEW batch \in Seq(Entries), NEW i \in Slot, NEW k \in 1 .. Len(batch) + 1
  PROVE  ValueBefore(batch, i, k) \in Contents
<1>1. \A h \in 1..Len(batch) : batch[h].value \in Contents
  <2>1. \A h \in 1..Len(batch) : batch[h] \in Entries
    OBVIOUS
  <2>2. QED
    BY <2>1 DEF Entries
<1>2. arena.slots[i].value \in Contents
  <2>1. arena.slots[i] \in SlotType
    BY DEF Stored, ArenaType, Slot
  <2>2. QED
    BY <2>1 DEF SlotType
<1>3. QED
  BY <1>1, <1>2, EarlierIs DEF ValueBefore

\* A slot a batch does not mark keeps its value.
LEMMA UnmarkedIsKept ==
  ASSUME Stored, NEW batch \in Seq(Entries), NEW i \in Slot, i \notin Changed(batch)
  PROVE  ValueBefore(batch, i, Len(batch) + 1) = arena.slots[i].value
<1> DEFINE v == arena.slots[i].value
           T == {k \in 1 .. Len(batch) + 1 : ValueBefore(batch, i, k) # v}
<1>1. SUFFICES ASSUME T # {} PROVE FALSE
  <2>1. Len(batch) + 1 \in 1 .. Len(batch) + 1
    OBVIOUS
  <2>2. QED
    BY <2>1
<1>2. T \in SUBSET Nat
  OBVIOUS
<1>3. PICK k \in T : \A j \in T : k <= j
  <2> HIDE DEF T
  <2>1. QED
    BY <1>1, <1>2, LowestIs
<1>4. k \in 1 .. Len(batch) + 1 /\ ValueBefore(batch, i, k) # v
  OBVIOUS
<1>5. Earlier(batch, i, k) # {}
  BY <1>4 DEF ValueBefore
<1>6. PICK h \in 1..Len(batch) :
        h < k /\ batch[h].handle.slot = i /\ ValueBefore(batch, i, k) = batch[h].value
  BY <1>4, <1>5, EarlierIs DEF ValueBefore
<1>7. ValueBefore(batch, i, h) = batch[h].value
  BY <1>6 DEF Changed
<1>8. h \in T
  BY <1>4, <1>6, <1>7
<1>9. QED
  BY <1>3, <1>4, <1>6, <1>8

LEMMA SetKeeps ==
  ASSUME HandlesInv, NEW batch \in Seq(Entries), Set(batch)
  PROVE  HandlesInv' /\ KeepsUnmarked
<1> USE DEF HandlesInv
<1> DEFINE value(i) == ValueBefore(batch, i, Len(batch) + 1)
           slots == [i \in Slot |-> [arena.slots[i] EXCEPT !.value = value(i)]]
<1>1. arena' = [arena EXCEPT !.slots = slots, !.dirty = @ \cup Changed(batch)]
      /\ issued' = issued
  BY DEF Set
<1>2. \A i \in Slot : value(i) \in Contents /\ arena.slots[i] \in SlotType
  BY ValuesAreContents DEF Stored, ArenaType, Slot
<1>u. \A i \in Slot \ Changed(batch) : value(i) = arena.slots[i].value
  BY UnmarkedIsKept
<1> HIDE DEF value
<1>v. \A i \in Slot : slots[i].value = value(i)
  BY <1>2 DEF SlotType
<1>3. \A i \in Slot : /\ slots[i] \in SlotType
                      /\ slots[i].generation = arena.slots[i].generation
                      /\ slots[i].occupied = arena.slots[i].occupied
  BY <1>2 DEF SlotType
<1>4. slots \in [1..Len(arena.slots) -> SlotType] /\ Len(arena.slots) \in Nat
  <2>1. Len(arena.slots) \in Nat
    BY DEF Stored, ArenaType
  <2>2. slots \in [Slot -> SlotType]
    BY <1>3
  <2>3. QED
    BY <2>1, <2>2 DEF Slot
<1> HIDE DEF slots
<1>5. slots \in Seq(SlotType) /\ Len(slots) = Len(arena.slots)
  BY <1>4
<1>6. Changed(batch) \subseteq Slot /\ Changed(batch) \subseteq Nat
  <2>1. \A k \in DOMAIN batch : batch[k].handle.slot \in Slot
    BY DEF Set, Accepted, Valid
  <2>2. Slot \subseteq Nat
    BY DEF Slot
  <2>3. QED
    BY <2>1, <2>2 DEF Changed
<1>7. /\ arena'.slots = slots /\ arena'.free = arena.free
      /\ arena'.dirty = arena.dirty \cup Changed(batch)
      /\ arena' \in ArenaType
  BY <1>1, <1>5, <1>6 DEF Stored, ArenaType
<1>8. Slot' = Slot
  BY <1>5, <1>7 DEF Slot
<1>9. Stored'
  BY <1>5, <1>6, <1>7, <1>8 DEF Stored, ArenaType
<1>10. FreeListed' /\ IssuedPast'
  BY <1>1, <1>3, <1>7, <1>8 DEF FreeListed, IssuedPast
<1>11. KeepsUnmarked
  BY <1>u, <1>v, <1>7, <1>8 DEF KeepsUnmarked
<1>12. QED
  BY <1>9, <1>10, <1>11

LEMMA RemovedIs ==
  ASSUME NEW handles \in Seq(Handles)
  PROVE  RemovedCount(handles) \in 0..Len(handles)
<1>1. Exhausted(handles) \in SUBSET Nat /\ Exhausted(handles) \subseteq 1..Len(handles)
  BY DEF Exhausted
<1>2. CASE Exhausted(handles) = {}
  BY <1>2 DEF RemovedCount
<1>3. CASE Exhausted(handles) # {}
  <2>1. Lowest(Exhausted(handles)) \in 1..Len(handles)
    BY <1>1, <1>3, LowestIs
  <2>2. QED
    BY <1>3, <2>1 DEF RemovedCount
<1>4. QED
  BY <1>2, <1>3

LEMMA RemoveKeeps ==
  ASSUME HandlesInv, NEW handles \in Seq(Handles), Remove(handles)
  PROVE  HandlesInv' /\ KeepsUnmarked
<1> USE DEF HandlesInv
<1> DEFINE count == RemovedCount(handles)
           gone == [k \in 1..count |-> handles[k].slot]
           removed == {gone[k] : k \in DOMAIN gone}
           slots == [i \in Slot |-> IF i \in removed THEN Vacated(arena.slots[i])
                                   ELSE arena.slots[i]]
<1>1. arena' = [slots |-> slots, free |-> arena.free \o gone,
                dirty |-> arena.dirty \cup removed]
      /\ issued' = issued
  BY DEF Remove
<1>2. count \in Nat /\ count <= Len(handles)
  BY RemovedIs
<1>3. \A k \in 1..count : /\ gone[k] \in Slot /\ arena.slots[gone[k]].occupied
                          /\ gone[k] \in Nat
  BY <1>2 DEF Remove, Removable, Valid, Slot
<1>4. \A j, k \in 1..count : gone[j] = gone[k] => j = k
  BY <1>2 DEF Remove, Removable
<1>5. \A i \in Slot : arena.slots[i] \in SlotType
  BY DEF Stored, ArenaType, Slot
<1>6. /\ \A i \in Slot : slots[i] \in SlotType
      /\ \A i \in removed : /\ ~slots[i].occupied
                            /\ slots[i].generation = arena.slots[i].generation + 1
      /\ \A i \in Slot \ removed : slots[i] = arena.slots[i]
      /\ removed \subseteq Slot /\ removed \subseteq Nat
  <2>1. \A i \in Slot : i \in Nat
    BY DEF Slot
  <2>2. removed \subseteq Slot /\ removed \subseteq Nat
    BY <1>3
  <2>3. \A i \in Slot : /\ Vacated(arena.slots[i]) \in SlotType
                        /\ ~Vacated(arena.slots[i]).occupied
                        /\ Vacated(arena.slots[i]).generation = arena.slots[i].generation + 1
    <3>1. ASSUME NEW x \in SlotType
          PROVE  /\ Vacated(x) \in SlotType /\ ~Vacated(x).occupied
                 /\ Vacated(x).generation = x.generation + 1
      <4>1. x.generation + 1 \in Nat /\ 0 \in Contents
        BY ArenaAssumption DEF SlotType
      <4>2. Vacated(x) \in SlotType
        BY <4>1 DEF SlotType, Vacated
      <4>3. ~Vacated(x).occupied /\ Vacated(x).generation = x.generation + 1
        BY DEF SlotType, Vacated
      <4>4. QED
        BY <4>2, <4>3
    <3>2. QED
      BY <1>5, <3>1
  <2> HIDE DEF removed
  <2>4. QED
    BY <1>5, <2>2, <2>3
<1>7. slots \in [1..Len(arena.slots) -> SlotType] /\ Len(arena.slots) \in Nat
  BY <1>6 DEF Slot, Stored, ArenaType
<1>8. gone \in Seq(Nat) /\ Len(gone) = count
  <2>1. gone \in [1..count -> Nat]
    BY <1>3
  <2> HIDE DEF gone, count
  <2>2. QED
    BY <1>2, <2>1
<1>r. \A k \in 1..count : gone[k] \in removed
  OBVIOUS
<1> HIDE DEF slots, gone, removed, count
<1>9. slots \in Seq(SlotType) /\ Len(slots) = Len(arena.slots)
  BY <1>7
<1>10. arena'.slots = slots /\ arena'.free = arena.free \o gone /\ Slot' = Slot
  BY <1>1, <1>9 DEF Slot
<1>11. Stored'
  <2>1. slots # <<>>
    BY <1>9 DEF Stored, ArenaType
  <2>2. arena.free \o gone \in Seq(Nat) /\ arena.dirty \cup removed \subseteq Nat
    <3>1. arena.free \in Seq(Nat) /\ arena.dirty \subseteq Nat
      BY DEF Stored, ArenaType
    <3>2. QED
      BY <1>6, <1>8, <3>1, ConcatProperties
  <2>3. QED
    BY <1>1, <1>6, <1>9, <1>10, <2>1, <2>2 DEF Stored, ArenaType
<1>12. FreeListed'
  <2>1. /\ Len(arena.free) \in Nat /\ Len(arena.free \o gone) = Len(arena.free) + count
        /\ \A k \in 1..Len(arena.free) : (arena.free \o gone)[k] = arena.free[k]
        /\ \A k \in Len(arena.free) + 1 .. Len(arena.free) + count :
             (arena.free \o gone)[k] = gone[k - Len(arena.free)]
    <3>1. arena.free \in Seq(Nat)
      BY DEF Stored, ArenaType
    <3>2. arena.free \in Seq(Nat) /\ gone \in Seq(Nat) /\ Len(gone) = count
      BY <1>8, <3>1
    <3> DEFINE n == Len(arena.free)
               all == arena.free \o gone
    <3>3. /\ Len(all) = n + count /\ n \in Nat
          /\ \A k \in 1 .. n + count : all[k] = IF k <= n THEN arena.free[k] ELSE gone[k - n]
      <4>1. Len(arena.free \o gone) = Len(arena.free) + Len(gone)
        BY <3>2, ConcatProperties
      <4>2. \A k \in 1 .. Len(arena.free) + Len(gone) : (arena.free \o gone)[k] =
              IF k <= Len(arena.free) THEN arena.free[k] ELSE gone[k - Len(arena.free)]
        BY <3>2, ConcatProperties
      <4>3. QED
        BY <3>2, <4>1, <4>2
    <3> HIDE DEF n, all
    <3>4. /\ \A k \in 1..n : all[k] = arena.free[k]
          /\ \A k \in n + 1 .. n + count : all[k] = gone[k - n]
      BY <1>2, <3>3
    <3>5. QED
      BY <3>3, <3>4 DEF n, all
  <2> DEFINE old == 1..Len(arena.free)
             new == Len(arena.free) + 1 .. Len(arena.free) + count
  <2>2. /\ 1..Len(arena'.free) = old \cup new
        /\ \A k \in new : k - Len(arena.free) \in 1..count
    BY <1>2, <1>10, <2>1
  <2>3. \A k \in old : /\ arena'.free[k] = arena.free[k] /\ arena.free[k] \in Slot
                       /\ ~arena.slots[arena.free[k]].occupied
    BY <1>10, <2>1 DEF FreeListed
  <2>4. \A k \in new : /\ arena'.free[k] = gone[k - Len(arena.free)]
                       /\ arena'.free[k] \in removed /\ arena'.free[k] \in Slot
                       /\ arena.slots[arena'.free[k]].occupied
    BY <1>3, <1>10, <1>r, <2>1, <2>2
  <2>5. \A k \in old \cup new : arena'.free[k] \in Slot /\ ~slots[arena'.free[k]].occupied
    <3> HIDE DEF old, new
    <3>1. \A i \in Slot : ~arena.slots[i].occupied => ~slots[i].occupied
      BY <1>6
    <3>2. \A k \in old : arena'.free[k] \in Slot /\ ~slots[arena'.free[k]].occupied
      BY <2>3, <3>1
    <3>3. \A k \in new : arena'.free[k] \in Slot /\ ~slots[arena'.free[k]].occupied
      BY <1>6, <2>4
    <3>4. QED
      BY <3>2, <3>3
  <2>6. ASSUME NEW j \in old \cup new, NEW k \in old \cup new, arena'.free[j] = arena'.free[k]
        PROVE  j = k
    <3>1. CASE j \in old /\ k \in old
      BY <2>3, <2>6, <3>1 DEF FreeListed
    <3>2. CASE j \in new /\ k \in new
      <4>1. gone[j - Len(arena.free)] = gone[k - Len(arena.free)]
        BY <2>4, <2>6, <3>2
      <4>2. j - Len(arena.free) = k - Len(arena.free)
        BY <1>4, <2>2, <3>2, <4>1
      <4>3. QED
        BY <2>1, <3>2, <4>2
    <3>3. CASE (j \in old /\ k \in new) \/ (j \in new /\ k \in old)
      <4> HIDE DEF old, new
      <4>1. QED
        BY <2>3, <2>4, <2>6, <3>3
    <3>4. QED
      BY <3>1, <3>2, <3>3
  <2> HIDE DEF old, new
  <2>7. QED
    BY <1>10, <2>2, <2>5, <2>6 DEF FreeListed
<1>13. IssuedPast'
  <2>1. ASSUME NEW h \in issued
        PROVE  /\ h.slot \in Slot /\ h.generation <= slots[h.slot].generation
               /\ ~slots[h.slot].occupied => h.generation # slots[h.slot].generation
    <3>1. h.slot \in Slot /\ h.generation \in Nat /\ h.generation <= arena.slots[h.slot].generation
      BY DEF IssuedPast, HandleType
    <3>2. CASE h.slot \in removed
      <4>1. arena.slots[h.slot].generation \in Nat
        BY <1>5, <3>1 DEF SlotType
      <4>2. slots[h.slot].generation = arena.slots[h.slot].generation + 1
        BY <1>6, <3>2
      <4>3. h.generation < slots[h.slot].generation
        BY <3>1, <4>1, <4>2
      <4>4. QED
        BY <3>1, <4>1, <4>2, <4>3
    <3>3. CASE h.slot \notin removed
      BY <1>6, <3>1, <3>3 DEF IssuedPast
    <3>4. QED
      BY <3>2, <3>3
  <2>2. QED
    BY <1>1, <1>10, <2>1 DEF IssuedPast
<1>14. KeepsUnmarked
  BY <1>1, <1>6, <1>10 DEF KeepsUnmarked
<1>15. QED
  BY <1>11, <1>12, <1>13, <1>14

-----------------------------------------------------------------------------
\* The steps that leave the elements alone.

LEMMA SameKeeps ==
  ASSUME HandlesInv, UNCHANGED <<arena, issued>>
  PROVE  HandlesInv'
BY DEF HandlesInv, Stored, FreeListed, IssuedPast, Slot

LEMMA CleanedIs ==
  ASSUME HandlesInv, arena' = [arena EXCEPT !.dirty = {}]
  PROVE  /\ arena' \in ArenaType /\ arena'.slots = arena.slots /\ arena'.free = arena.free
         /\ arena'.dirty = {} /\ Slot' = Slot
<1>1. /\ arena' \in ArenaType /\ arena'.slots = arena.slots /\ arena'.free = arena.free
      /\ arena'.dirty = {}
  BY DEF HandlesInv, Stored, ArenaType
<1>2. QED
  BY <1>1 DEF Slot

LEMMA CleanedKeeps ==
  ASSUME HandlesInv, arena' = [arena EXCEPT !.dirty = {}], issued' = issued
  PROVE  HandlesInv'
<1>1. /\ arena' \in ArenaType /\ arena'.slots = arena.slots /\ arena'.free = arena.free
      /\ arena'.dirty = {}
  BY CleanedIs
<1>2. QED
  BY <1>1 DEF HandlesInv, Stored, FreeListed, IssuedPast, Slot

LEMMA NewArenaIs ==
  /\ NewArena \in ArenaType /\ NewArena.slots # <<>> /\ Len(NewArena.slots) = 1
  /\ NewArena.free = <<>> /\ NewArena.dirty = {1}
<1>1. NewSlot \in SlotType
  BY ArenaAssumption DEF NewSlot, SlotType
<1>2. QED
  BY <1>1 DEF NewArena, ArenaType

LEMMA EndedKeeps ==
  ASSUME Ended
  PROVE  HandlesInv' /\ Slot' \ arena'.dirty = {}
BY NewArenaIs DEF Ended, HandlesInv, Stored, FreeListed, IssuedPast, Slot

\* A step other than Reserve, Set and Remove leaves the arena, cleans it, or
\* ends it.
LEMMA OthersKeep ==
  ASSUME HandlesInv,
         \/ UNCHANGED <<arena, issued>>
         \/ arena' = [arena EXCEPT !.dirty = {}] /\ issued' = issued
         \/ Ended
  PROVE  HandlesInv'
BY SameKeeps, CleanedKeeps, EndedKeeps

LEMMA HandlesStep == HandlesInv /\ [Next]_vars => HandlesInv'
<1> SUFFICES ASSUME HandlesInv, [Next]_vars PROVE HandlesInv'
  OBVIOUS
<1>1. ASSUME NEW count \in 1..2, Reserve(count) PROVE HandlesInv'
  BY <1>1, ReserveKeeps
<1>2. ASSUME NEW batch \in UpToTwo(Entries), Set(batch) PROVE HandlesInv'
  BY <1>2, SetKeeps, BatchesAreSequences
<1>3. ASSUME NEW handles \in UpToTwo(Handles), Remove(handles) PROVE HandlesInv'
  BY <1>3, RemoveKeeps, BatchesAreSequences
<1>4. CASE Bind
  BY <1>4, SameKeeps DEF Bind, threadVars
<1>5. CASE Write
  <2>1. UNCHANGED issued /\ (Bound \/ Unbound)
    BY <1>5 DEF Write, WriteRegions
  <2>2. QED
    BY <2>1, OthersKeep DEF Bound, Unbound
<1>6. CASE DropArena
  BY <1>6, OthersKeep DEF DropArena, Outlives, threadVars
<1>7. CASE Rebind
  BY <1>7, OthersKeep DEF Rebind, DropsBinding, Outlives, threadVars
<1>8. CASE Begin \/ Draw \/ WaitIdle \/ FrameEnds \/ UNCHANGED vars
  BY <1>8, SameKeeps DEF Begin, Draw, WaitIdle, FrameEnds, vars, threadVars
<1>9. CASE Abort
  BY <1>9, OthersKeep DEF Abort, DropsBinding, Outlives, threadVars
<1>10. CASE Submit
  BY <1>10, OthersKeep DEF Submit, threadVars
<1>11. CASE SubmitFails
  BY <1>11, OthersKeep DEF SubmitFails, DropsBinding, Outlives, threadVars
<1>12. QED
  BY <1>1, <1>2, <1>3, <1>4, <1>5, <1>6, <1>7, <1>8, <1>9, <1>10, <1>11 DEF Next

\* Every handle handed out is in the past of its slot, in every reachable
\* state: ArenaStorage::reserve never gives out one that was given out before.
THEOREM HandlesStayFresh == Spec => []HandlesFresh
<1>1. Init => HandlesInv
  BY NewArenaIs DEF Init, HandlesInv, Stored, FreeListed, IssuedPast, Slot
<1>2. HandlesInv => HandlesFresh
  <2> SUFFICES ASSUME HandlesInv, NEW i \in Slot
               PROVE  /\ ~arena.slots[i].occupied =>
                           HandleOf("this", i, arena.slots[i].generation) \notin issued
                      /\ \A h \in issued : h.slot = i => h.generation <= arena.slots[i].generation
    BY DEF HandlesFresh
  <2>1. QED
    BY DEF HandlesInv, IssuedPast, HandleOf
<1>3. QED
  BY <1>1, <1>2, HandlesStep, PTL DEF Spec

-----------------------------------------------------------------------------
\* Marks.

LEMMA ThreadsKeepMarks ==
  ASSUME MarksInv, KeepsUnmarked, Unlocked, UNCHANGED <<sync, store, bytes>>
  PROVE  MarksInv'
<1>1. BuffersTyped'
  BY DEF MarksInv, BuffersTyped
<1>2. MarksSound'
  BY DEF MarksInv, MarksSound, KeepsUnmarked, Unlocked
<1>3. QED
  BY <1>1, <1>2 DEF MarksInv

LEMMA SameKeepsMarks ==
  ASSUME MarksInv, UNCHANGED <<arena, sync, bytes>>,
         store' \in StoreType, store'.native \in {0, store.native},
         store'.native # 0 => store'.capacity = store.capacity,
         store'.native = 0 => store'.capacity = 0
  PROVE  MarksInv'
<1>1. BuffersTyped'
  BY DEF MarksInv, BuffersTyped
<1>2. MarksSound'
  BY DEF MarksInv, MarksSound, Slot
<1>3. QED
  BY <1>1, <1>2 DEF MarksInv

LEMMA EndedKeepsMarks ==
  ASSUME MarksInv, Ended, sync.at = "idle", UNCHANGED <<sync, bytes>>,
         store' \in StoreType, store'.native \in {0, store.native},
         store'.native # 0 => store'.capacity = store.capacity,
         store'.native = 0 => store'.capacity = 0
  PROVE  MarksInv'
<1>1. BuffersTyped'
  BY DEF MarksInv, BuffersTyped
<1>2. MarksSound'
  BY EndedKeeps DEF MarksSound
<1>3. QED
  BY <1>1, <1>2 DEF MarksInv

LEMMA ReleasedIs ==
  ASSUME BuffersTyped, NEW f, Released(f) \/ Unreleased(f)
  PROVE  /\ store' \in StoreType /\ store'.native \in {0, store.native}
         /\ store'.native # 0 => store'.capacity = store.capacity
         /\ store'.native = 0 => store'.capacity = 0
<1>1. CASE Released(f)
  <2>1. store' = [store EXCEPT !.known = FALSE, !.native = 0, !.capacity = 0]
    BY <1>1 DEF Released
  <2>2. 0 \in 0..MaxNative
    BY ArenaAssumption
  <2>3. QED
    BY <2>1, <2>2 DEF BuffersTyped, StoreType
<1>2. CASE Unreleased(f)
  BY <1>2 DEF Unreleased, BuffersTyped, StoreType
<1>3. QED
  BY <1>1, <1>2

LEMMA DropsKeepMarks ==
  ASSUME MarksInv, NEW f, DropsBinding(f), sync.at = "idle", UNCHANGED <<sync, bytes>>
  PROVE  MarksInv'
<1>1. CASE Ended /\ Released(f)
  BY <1>1, ReleasedIs, EndedKeepsMarks DEF MarksInv
<1>2. CASE Outlives(f)
  <2>1. UNCHANGED arena /\ Unreleased(f)
    BY <1>2 DEF Outlives, threadVars
  <2>2. QED
    BY <2>1, ReleasedIs, SameKeepsMarks DEF MarksInv
<1>3. QED
  BY <1>1, <1>2 DEF DropsBinding

LEMMA NewBufferIsSound ==
  ASSUME HandlesInv, MarksInv, NEW f, Bound, WriteNew(f), sync' = NoBind
  PROVE  MarksInv'
<1> DEFINE made == Cardinality(Made) + 1
<1>1. PICK capacity \in NextPowers(Len(arena.slots)) :
        /\ made \in Natives
        /\ bytes' = [bytes EXCEPT ![made] =
             [i \in 1..capacity |-> IF i \in Slot THEN arena.slots[i].value ELSE 0]]
        /\ store' = [store EXCEPT !.native = made, !.capacity = capacity]
  BY DEF WriteNew
<1> HIDE DEF made
<1>2. capacity \in Nat /\ Slot \subseteq 1..capacity
  <2>1. capacity \in 1..Limit /\ capacity >= Len(arena.slots) /\ Len(arena.slots) \in Nat
    BY DEF NextPowers, PowersOfTwo, HandlesInv, Stored, ArenaType
  <2>2. QED
    BY <2>1, ArenaAssumption DEF Slot
<1>3. \A i \in Slot : arena.slots[i].value \in Contents
  <2>1. \A i \in Slot : arena.slots[i] \in SlotType
    BY DEF HandlesInv, Stored, ArenaType, Slot
  <2>2. QED
    BY <2>1 DEF SlotType
<1>4. /\ bytes'[made] \in [1..capacity -> Contents]
      /\ \A i \in Slot : bytes'[made][i] = arena.slots[i].value
      /\ bytes' = [n \in Natives |-> bytes'[n]]
  <2> DEFINE new == [i \in 1..capacity |-> IF i \in Slot THEN arena.slots[i].value ELSE 0]
  <2>1. new \in [1..capacity -> Contents] /\ \A i \in Slot : new[i] = arena.slots[i].value
    BY <1>2, <1>3, ArenaAssumption
  <2> HIDE DEF new
  <2>2. bytes = [n \in Natives |-> bytes[n]]
    BY DEF MarksInv, BuffersTyped
  <2>3. bytes' = [bytes EXCEPT ![made] = new]
    BY <1>1 DEF new
  <2>4. bytes' = [n \in Natives |-> IF n = made THEN new ELSE bytes[n]]
    BY <2>2, <2>3
  <2>5. QED
    BY <1>1, <2>1, <2>4
<1>5. /\ store' \in StoreType /\ store'.native # 0
      /\ store'.native = made /\ store'.capacity = capacity
  <2>1. made \in 0..MaxNative /\ made # 0
    BY <1>1, ArenaAssumption DEF Natives
  <2>2. store \in StoreType
    BY DEF MarksInv, BuffersTyped
  <2>3. QED
    BY <1>1, <1>2, <2>1, <2>2 DEF StoreType
<1>6. Slot' = Slot /\ arena'.slots = arena.slots /\ arena'.dirty = {}
  BY CleanedIs DEF Bound
<1>7. BuffersTyped'
  BY <1>2, <1>4, <1>5 DEF BuffersTyped
<1>8. MarksSound'
  BY <1>2, <1>4, <1>5, <1>6 DEF MarksSound, NoBind
<1>9. QED
  BY <1>7, <1>8 DEF MarksInv

LEMMA WrittenSlotsAre ==
  ASSUME HandlesInv, BuffersTyped, store.native # 0, ~NeedsResize,
         NEW f, NEW written \in SUBSET Slot, WriteSlots(f, written)
  PROVE  /\ BuffersTyped' /\ UNCHANGED store
         /\ \A i \in Slot : i <= store.capacity /\ bytes'[store.native][i] =
              IF i \in written THEN arena.slots[i].value ELSE bytes[store.native][i]
<1> DEFINE old == bytes[store.native]
           new == [i \in DOMAIN old |-> IF i \in written THEN arena.slots[i].value ELSE old[i]]
<1>1. /\ bytes' = [bytes EXCEPT ![store.native] = new] /\ UNCHANGED store
      /\ bytes = [n \in Natives |-> bytes[n]]
  BY DEF WriteSlots, BuffersTyped
<1>2. old \in [1..store.capacity -> Contents] /\ store.native \in Natives
  <2>1. store.native \in 0..MaxNative
    BY DEF BuffersTyped, StoreType
  <2>2. QED
    BY <2>1, ArenaAssumption DEF BuffersTyped, Natives
<1>3. \A i \in Slot : i \in 1..store.capacity /\ arena.slots[i].value \in Contents
  <2>1. \A i \in Slot : arena.slots[i] \in SlotType
    BY DEF HandlesInv, Stored, ArenaType, Slot
  <2>2. store.capacity \in Nat /\ Len(arena.slots) \in Nat /\ Len(arena.slots) <= store.capacity
    BY DEF HandlesInv, Stored, ArenaType, BuffersTyped, StoreType, NeedsResize
  <2>3. QED
    BY <2>1, <2>2 DEF SlotType, Slot
<1>4. /\ new \in [1..store.capacity -> Contents]
      /\ \A i \in Slot : new[i] = IF i \in written THEN arena.slots[i].value ELSE old[i]
  BY <1>2, <1>3
<1> HIDE DEF new
<1>5. bytes' = [n \in Natives |-> IF n = store.native THEN new ELSE bytes[n]]
  BY <1>1
<1>6. bytes'[store.native] = new /\ bytes' = [n \in Natives |-> bytes'[n]]
  BY <1>2, <1>5
<1>7. \A i \in Slot : i <= store.capacity
  BY <1>3
<1>8. QED
  BY <1>1, <1>4, <1>6, <1>7 DEF BuffersTyped

\* A buffer that is long enough has been made.
LEMMA BufferIsMade ==
  ASSUME HandlesInv, BuffersTyped, ~NeedsResize
  PROVE  store.native # 0
<1>1. Len(arena.slots) \in Nat /\ Len(arena.slots) # 0
  BY DEF HandlesInv, Stored, ArenaType
<1>2. QED
  BY <1>1 DEF BuffersTyped, NeedsResize

LEMMA RegionsAreSound ==
  ASSUME HandlesInv, MarksInv, sync.at = "writing", sync' = NoBind,
         NEW f, ~NeedsResize, WriteRegions(f)
  PROVE  MarksInv'
<1> USE BufferIsMade DEF MarksInv
<1>1. sync.regions = arena.dirty
  BY DEF MarksSound
<1>2. CASE Bound /\ WriteNothing(f) /\ sync.regions = {}
  <2>1. Slot' = Slot /\ arena'.slots = arena.slots
    BY <1>2, CleanedIs DEF Bound
  <2>2. QED
    BY <1>1, <1>2, <2>1 DEF WriteNothing, MarksSound, BuffersTyped, NoBind
<1>3. CASE Bound /\ WriteSlots(f, sync.regions)
  <2>1. Slot' = Slot /\ arena'.slots = arena.slots
    BY <1>3, CleanedIs DEF Bound
  <2>2. sync.regions \in SUBSET Slot
    BY <1>1 DEF HandlesInv, Stored
  <2>3. QED
    BY <1>1, <1>3, <2>1, <2>2, WrittenSlotsAre DEF MarksSound, NoBind
<1>4. CASE Unbound /\ \E k \in sync.regions : WriteSlots(f, {i \in sync.regions : i < k})
  <2>1. PICK k \in sync.regions : WriteSlots(f, {i \in sync.regions : i < k})
    BY <1>4
  <2> DEFINE written == {i \in sync.regions : i < k}
  <2>2. written \in SUBSET Slot
    BY <1>1 DEF HandlesInv, Stored
  <2> HIDE DEF written
  <2>3. /\ BuffersTyped' /\ UNCHANGED store
        /\ \A i \in Slot : i <= store.capacity /\ bytes'[store.native][i] =
             IF i \in written THEN arena.slots[i].value ELSE bytes[store.native][i]
    BY <2>1, <2>2, WrittenSlotsAre DEF written
  <2>4. UNCHANGED arena /\ Slot' = Slot
    BY <1>4 DEF Unbound, Slot
  <2>5. QED
    BY <2>3, <2>4 DEF MarksSound, NoBind
<1>5. QED
  BY <1>2, <1>3, <1>4 DEF WriteRegions

LEMMA NothingKeepsMarks ==
  ASSUME MarksInv, NEW f, Unbound, WriteNothing(f), sync' = NoBind
  PROVE  MarksInv'
<1>1. BuffersTyped'
  BY DEF MarksInv, BuffersTyped, WriteNothing
<1>2. MarksSound'
  BY DEF MarksInv, MarksSound, WriteNothing, Unbound, NoBind, Slot
<1>3. QED
  BY <1>1, <1>2 DEF MarksInv

LEMMA SubmitKeepsMarks ==
  ASSUME MarksInv, Submit
  PROVE  MarksInv'
<1> DEFINE s == IF recording.synced /\ store.known THEN [store EXCEPT !.lastUse = frames.next]
                ELSE store
           drops == recording.bound /\ ~held
<1>1. frames.next \in Nat
  BY ArenaAssumption DEF Submit, Submittable, Values
<1>2. s \in StoreType /\ s.native = store.native /\ s.capacity = store.capacity
  BY <1>1 DEF MarksInv, BuffersTyped, StoreType
<1>3. /\ store' = IF drops THEN [s EXCEPT !.known = FALSE, !.native = 0, !.capacity = 0] ELSE s
      /\ sync.at = "idle" /\ UNCHANGED <<sync, bytes>>
      /\ IF drops THEN Ended ELSE UNCHANGED threadVars
  BY DEF Submit, Submittable, OwnerFree
<1> HIDE DEF s
<1>4. CASE drops
  <2>1. store' = [s EXCEPT !.known = FALSE, !.native = 0, !.capacity = 0] /\ 0 \in 0..MaxNative
    BY <1>3, <1>4, ArenaAssumption
  <2>2. store' \in StoreType /\ store'.native = 0 /\ store'.capacity = 0
    BY <1>2, <2>1 DEF StoreType
  <2>3. QED
    BY <1>3, <1>4, <2>2, EndedKeepsMarks
<1>5. CASE ~drops
  <2>1. store' = s /\ UNCHANGED arena
    BY <1>3, <1>5 DEF threadVars
  <2>2. store.native = 0 => store.capacity = 0
    BY DEF MarksInv, BuffersTyped
  <2>3. QED
    BY <1>2, <1>3, <2>1, <2>2, SameKeepsMarks
<1>6. QED
  BY <1>4, <1>5

LEMMA MarksStep ==
  HandlesInv /\ MarksInv /\ [Next]_vars => MarksInv'
<1> SUFFICES ASSUME HandlesInv, MarksInv, [Next]_vars PROVE MarksInv'
  OBVIOUS
<1> USE DEF deviceVars
<1>1. ASSUME NEW count \in 1..2, Reserve(count) PROVE MarksInv'
  BY <1>1, ReserveKeeps, ThreadsKeepMarks DEF Reserve
<1>2. ASSUME NEW batch \in UpToTwo(Entries), Set(batch) PROVE MarksInv'
  <2>1. KeepsUnmarked
    BY <1>2, SetKeeps, BatchesAreSequences
  <2>2. QED
    BY <1>2, <2>1, ThreadsKeepMarks DEF Set
<1>3. ASSUME NEW handles \in UpToTwo(Handles), Remove(handles) PROVE MarksInv'
  <2>1. KeepsUnmarked
    BY <1>3, RemoveKeeps, BatchesAreSequences
  <2>2. Unlocked /\ UNCHANGED <<sync, store, bytes>>
    BY <1>3 DEF Remove
  <2>3. QED
    BY <2>1, <2>2, ThreadsKeepMarks
<1>4. CASE Bind
  <2>1. UNCHANGED <<arena, store, bytes>> /\ sync'.regions = arena.dirty
    BY <1>4 DEF Bind, threadVars
  <2>2. QED
    BY <2>1 DEF MarksInv, BuffersTyped, MarksSound, Slot
<1>5. CASE Write
  <2>1. sync.at = "writing" /\ sync' = NoBind
    BY <1>5 DEF Write
  <2>2. PICK f :
          \/ Unbound /\ WriteNothing(f)
          \/ ~NeedsResize /\ WriteRegions(f)
          \/ Bound /\ WriteNew(f)
    <3>1. PICK d :
            IF ~d.ok THEN Unbound /\ WriteNothing(d.frames)
            ELSE IF ~NeedsResize THEN WriteRegions(d.frames)
            ELSE \/ Bound /\ WriteNew(d.frames)
                 \/ Unbound /\ WriteNothing(d.frames)
      BY <1>5 DEF Write
    <3>2. QED
      BY <3>1
  <2>3. QED
    BY <2>1, <2>2, NothingKeepsMarks, RegionsAreSound, NewBufferIsSound
<1>6. CASE DropArena
  <2>1. sync.at = "idle" /\ UNCHANGED <<sync, bytes>>
    BY <1>6 DEF DropArena, OwnerFree
  <2>2. CASE Outlives(frames)
    <3>1. UNCHANGED arena /\ Unreleased(frames)
      BY <2>2 DEF Outlives, threadVars
    <3>2. QED
      BY <2>1, <3>1, ReleasedIs, SameKeepsMarks DEF MarksInv
  <2>3. CASE Ended /\ (Released(frames) \/ Unreleased(frames))
    BY <2>1, <2>3, ReleasedIs, EndedKeepsMarks DEF MarksInv
  <2>4. QED
    BY <1>6, <2>2, <2>3 DEF DropArena
<1>7. CASE Rebind
  BY <1>7, DropsKeepMarks DEF Rebind, OwnerFree
<1>8. CASE Begin \/ Draw \/ WaitIdle \/ FrameEnds \/ UNCHANGED vars
  <2>1. UNCHANGED <<arena, sync, store, bytes>>
    BY <1>8 DEF Begin, Draw, WaitIdle, FrameEnds, vars, threadVars
  <2>2. store \in StoreType /\ (store.native = 0 => store.capacity = 0)
    BY DEF MarksInv, BuffersTyped
  <2>3. QED
    BY <2>1, <2>2, SameKeepsMarks
<1>9. CASE Abort
  BY <1>9, DropsKeepMarks DEF Abort, OwnerFree
<1>10. CASE Submit
  BY <1>10, SubmitKeepsMarks
<1>11. CASE SubmitFails
  <2>1. sync.at = "idle" /\ UNCHANGED <<sync, bytes>> /\ \E g : DropsBinding(g)
    BY <1>11 DEF SubmitFails, Submittable, OwnerFree
  <2>2. QED
    BY <2>1, DropsKeepMarks
<1>12. QED
  BY <1>1, <1>2, <1>3, <1>4, <1>5, <1>6, <1>7, <1>8, <1>9, <1>10, <1>11 DEF Next

\* Whenever no bind is under way, a slot without a dirty mark has its present
\* value in the arena's buffer: what ArenaInner::synchronize clears has been
\* written, and what the threads change afterwards is marked.
THEOREM MarksAreSound == Spec => []CleanSlotsUploaded
<1>1. Init => HandlesInv
  BY NewArenaIs DEF Init, HandlesInv, Stored, FreeListed, IssuedPast, Slot
<1>2. Init => MarksInv
  BY ArenaAssumption DEF Init, MarksInv, BuffersTyped, MarksSound, StoreType, NoBind
<1>3. HandlesInv /\ MarksInv => CleanSlotsUploaded
  <2> SUFFICES ASSUME MarksInv, store.native # 0, NEW i \in Slot \ arena.dirty
               PROVE  i <= Len(bytes[store.native]) /\ bytes[store.native][i] = arena.slots[i].value
    BY DEF CleanSlotsUploaded
  <2>1. Len(bytes[store.native]) = store.capacity
    BY DEF MarksInv, BuffersTyped, StoreType
  <2>2. QED
    BY <2>1 DEF MarksInv, MarksSound
<1>4. QED
  BY <1>1, <1>2, <1>3, HandlesStep, MarksStep, PTL DEF Spec

-----------------------------------------------------------------------------
\* What the frames on the GPU read.

\* The buffer a frame reads.
Reads == [v \in Values |-> {uses[v].native} \ {0}]

RecordingType ==
  [on : BOOLEAN, poisoned : BOOLEAN, bound : BOOLEAN, synced : BOOLEAN,
   drawn : BOOLEAN, size : Nat, sees : Seq(Contents)]

\* Buffers are made in order, and the one of the store is not freed.
Placed ==
  /\ \E n \in 0..MaxNative : Made = 1..n
  /\ Freed(frames) \subseteq Made
  /\ store.native # 0 => store.native \in Made \ Freed(frames)

\* What is to be seen is in the buffer.
Shows(n, sees) == \A i \in 1..Len(sees) : bytes[n][i] = sees[i]

\* The frames that read the store's buffer are no later than its last use.
ReadUntilLastUse ==
  \A v \in frames.running :
    uses[v].native # 0 =>
      /\ uses[v].native \in Made
      /\ uses[v].native = store.native => v <= store.lastUse
      /\ Shows(uses[v].native, uses[v].sees)

\* A frame that draws from the arena was bound, and not poisoned since.
Recorded ==
  /\ recording \in RecordingType
  /\ recording.drawn \/ (recording.bound /\ ~recording.poisoned) => recording.synced
  /\ recording.synced => ~recording.poisoned
  /\ recording.synced /\ store.native # 0 => Shows(store.native, recording.sees)

FramesInv ==
  /\ uses = [v \in Values |-> uses[v]]
  /\ Books(frames, Reads, Freed(frames))
  /\ Placed /\ ReadUntilLastUse /\ Recorded

LEMMA ReadsAre ==
  /\ DOMAIN Reads = Values /\ Reads = [v \in Values |-> Reads[v]]
  /\ Values \subseteq Nat \ {0}
BY ArenaAssumption DEF Reads, Values

\* A frame that ends leaves what the others read.
LEMMA FramesGoOn ==
  ASSUME uses = [v \in Values |-> uses[v]], NEW r, Books(frames', Reads, r),
         Outlived \/ UNCHANGED uses
  PROVE  /\ uses' = [v \in Values |-> uses'[v]]
         /\ Books(frames', Reads', Freed(frames')) /\ Freed(frames') = r
         /\ \A v \in frames'.running : uses'[v] = uses[v]
<1>1. frames'.running \subseteq Values
  BY ReadsAre DEF Books, Typed, BooksType
<1>2. uses' = [v \in Values |-> uses'[v]] /\ \A v \in frames'.running : uses'[v] = uses[v]
  BY <1>1 DEF Outlived
<1>3. Reads' = [v \in DOMAIN Reads |-> Reads'[v]]
  BY ReadsAre DEF Reads, Values
<1>4. \A v \in frames'.running : Reads'[v] = Reads[v]
  BY <1>1, <1>2 DEF Reads, Values
<1>5. Books(frames', Reads', r)
  BY <1>3, <1>4, BooksAgree
<1>6. QED
  BY <1>2, <1>5, FreedIs

\* What a step may do to the store without writing a buffer.
KeepsStore ==
  /\ UNCHANGED bytes
  /\ store'.native \in {0, store.native} /\ store'.lastUse = store.lastUse

\* A step that ends frames, frees buffers and keeps the others as they are.
LEMMA QuietKeeps ==
  ASSUME FramesInv, KeepsStore, Books(frames', Reads, Freed(frames')),
         frames'.running \subseteq frames.running,
         Outlived \/ UNCHANGED uses,
         Freed(frames') \subseteq Made,
         store'.native # 0 => store'.native \notin Freed(frames'),
         Recorded'
  PROVE  FramesInv'
<1>1. /\ uses' = [v \in Values |-> uses'[v]]
      /\ Books(frames', Reads', Freed(frames'))
      /\ \A v \in frames'.running : uses'[v] = uses[v]
  BY FramesGoOn DEF FramesInv
<1>2. Made' = Made
  BY DEF KeepsStore, Made
<1>3. Placed'
  BY <1>2 DEF FramesInv, Placed, KeepsStore
<1>4. ReadUntilLastUse'
  <2>1. ASSUME NEW v \in frames'.running, uses'[v].native # 0
        PROVE  /\ uses'[v].native \in Made'
               /\ uses'[v].native = store'.native => v <= store'.lastUse
               /\ \A i \in 1..Len(uses'[v].sees) :
                    bytes'[uses'[v].native][i] = uses'[v].sees[i]
    <3>1. uses'[v] = uses[v] /\ v \in frames.running
      BY <1>1
    <3>2. /\ uses[v].native \in Made
          /\ uses[v].native = store.native => v <= store.lastUse
          /\ \A i \in 1..Len(uses[v].sees) : bytes[uses[v].native][i] = uses[v].sees[i]
      BY <2>1, <3>1 DEF FramesInv, ReadUntilLastUse, Shows
    <3>3. QED
      BY <1>2, <2>1, <3>1, <3>2 DEF KeepsStore
  <2>2. QED
    BY <2>1 DEF ReadUntilLastUse, Shows
<1>5. QED
  BY <1>1, <1>3, <1>4 DEF FramesInv, Values

LEMMA DropsKeepBooks ==
  ASSUME NEW f, Books(f, Reads, Freed(frames)), Placed, BuffersTyped,
         Released(f) \/ Unreleased(f), UNCHANGED bytes
  PROVE  /\ KeepsStore /\ Books(frames', Reads, Freed(frames'))
         /\ frames'.running = f.running /\ Freed(frames') \subseteq Made
         /\ store'.native # 0 => store'.native \notin Freed(frames')
<1> DEFINE r == Freed(frames)
<1>1. /\ r \subseteq Made
      /\ store.native # 0 => store.native \in Made \ r
      /\ Freed(f) = r
  BY FreedIs DEF Placed
<1>2. CASE Unreleased(f)
  BY <1>1, <1>2 DEF Unreleased, KeepsStore
<1>3. CASE Released(f) /\ frames' = f
  <2>1. store'.native = 0 /\ store'.lastUse = store.lastUse
    BY <1>3 DEF Released, BuffersTyped, StoreType
  <2>2. QED
    BY <1>1, <1>3, <2>1 DEF KeepsStore
<1>4. CASE Released(f) /\ store.native # 0 /\ frames' = Defer(f, store.native)
  <2>1. store'.native = 0 /\ store'.lastUse = store.lastUse
    BY <1>4 DEF Released, BuffersTyped, StoreType
  <2>2. Books(frames', Reads, r \cup {store.native})
    <3> HIDE DEF r
    <3>1. QED
      BY <1>1, <1>4, DeferKeeps DEF r
  <2>3. Freed(frames') = r \cup {store.native}
    BY <2>2, FreedIs
  <2>4. frames'.running = f.running
    BY <1>4, DeferIs
  <2>5. QED
    BY <1>1, <1>4, <2>1, <2>2, <2>3, <2>4 DEF KeepsStore
<1>5. QED
  BY <1>2, <1>3, <1>4 DEF Released

\* A recording that is ended, begun, poisoned or loses its binding.
LEMMA UnsyncedIs ==
  ASSUME Recorded, recording' \in {NoRecording, [NoRecording EXCEPT !.on = TRUE], Poisoned}
  PROVE  Recorded'
<1>1. recording.bound \in BOOLEAN /\ 0 \in Nat /\ <<>> \in Seq(Contents)
  BY DEF Recorded, RecordingType
<1>2. /\ recording' \in RecordingType
      /\ ~recording'.synced /\ ~recording'.drawn
      /\ recording'.bound => recording'.poisoned
  <2>1. CASE recording' = NoRecording
    BY <1>1, <2>1 DEF RecordingType, NoRecording
  <2>2. CASE recording' = [NoRecording EXCEPT !.on = TRUE]
    BY <1>1, <2>2 DEF RecordingType, NoRecording
  <2>3. CASE recording' = Poisoned
    BY <1>1, <2>3 DEF RecordingType, NoRecording, Poisoned
  <2>4. QED
    BY <2>1, <2>2, <2>3
<1>3. QED
  BY <1>2 DEF Recorded

LEMMA RecordedKeeps ==
  ASSUME Recorded, store'.native \in {0, store.native}, UNCHANGED bytes,
         recording' \in {NoRecording, [NoRecording EXCEPT !.on = TRUE], Poisoned,
                         recording, [recording EXCEPT !.bound = FALSE]}
  PROVE  Recorded'
<1>1. CASE recording' \in {recording, [recording EXCEPT !.bound = FALSE]}
  <2>1. /\ recording' \in RecordingType
        /\ recording'.synced = recording.synced /\ recording'.sees = recording.sees
        /\ recording'.drawn = recording.drawn /\ recording'.poisoned = recording.poisoned
        /\ recording'.bound => recording.bound
    BY <1>1 DEF Recorded, RecordingType
  <2>2. QED
    BY <2>1 DEF Recorded, Shows
<1>2. QED
  BY <1>1, UnsyncedIs

\* An ended, freed or forgotten arena, whatever frames the backend has left.
LEMMA DropKeepsReads ==
  ASSUME FramesInv, BuffersTyped, NEW f, Books(f, Reads, Freed(frames)),
         f.running \subseteq frames.running,
         Released(f) \/ Unreleased(f), UNCHANGED bytes, Outlived \/ UNCHANGED uses,
         recording' \in {NoRecording, recording, [recording EXCEPT !.bound = FALSE]}
  PROVE  FramesInv'
<1>1. /\ KeepsStore /\ Books(frames', Reads, Freed(frames'))
      /\ frames'.running = f.running /\ Freed(frames') \subseteq Made
      /\ store'.native # 0 => store'.native \notin Freed(frames')
  BY DropsKeepBooks DEF FramesInv
<1>2. Recorded'
  BY <1>1, RecordedKeeps DEF FramesInv, KeepsStore
<1>3. QED
  BY <1>1, <1>2, QuietKeeps

LEMMA DropsBindingIs ==
  ASSUME NEW f, DropsBinding(f)
  PROVE  Released(f) \/ Unreleased(f)
BY DEF DropsBinding, Outlives

\* Nothing of the device moves.
LEMMA StillKeeps ==
  ASSUME FramesInv, UNCHANGED <<store, bytes, frames, uses>>, Recorded'
  PROVE  FramesInv'
<1>1. Freed(frames) \subseteq Made /\ (store.native # 0 => store.native \notin Freed(frames))
  BY DEF FramesInv, Placed
<1>2. KeepsStore /\ Books(frames', Reads, Freed(frames'))
  BY DEF KeepsStore, FramesInv
<1>3. QED
  BY <1>1, <1>2, QuietKeeps

LEMMA DrawKeepsReads ==
  ASSUME FramesInv, BuffersTyped, Draw
  PROVE  FramesInv'
<1>1. UNCHANGED <<store, bytes, frames, uses>>
  BY DEF Draw, deviceVars
<1>2. CASE recording' = Poisoned
  BY <1>1, <1>2, RecordedKeeps, StillKeeps DEF FramesInv
<1>3. CASE recording' = [recording EXCEPT !.drawn = TRUE, !.size = store.capacity]
  <2>1. store.capacity \in Nat
    BY DEF BuffersTyped, StoreType
  <2>2. recording.synced
    BY DEF Draw, FramesInv, Recorded
  <2>3. Recorded'
    BY <1>1, <1>3, <2>1, <2>2 DEF FramesInv, Recorded, RecordingType, Shows
  <2>4. QED
    BY <1>1, <2>3, StillKeeps
<1>4. QED
  BY <1>2, <1>3 DEF Draw
LEMMA SubmitKeepsReads ==
  ASSUME FramesInv, BuffersTyped, Submit
  PROVE  FramesInv'
<1> DEFINE n == frames.next
           r == Freed(frames)
           use == IF recording.drawn THEN [native |-> store.native, sees |-> recording.sees]
                  ELSE NoUse
           used == {use.native} \ {0}
<1>1. /\ n \in Values /\ CanPrepare(frames) /\ uses' = [uses EXCEPT ![n] = use]
      /\ frames' = Submitted(frames) /\ UNCHANGED bytes /\ recording' = NoRecording
      /\ Books(frames, Reads, r)
  BY DEF Submit, Submittable, EndsRecording, FramesInv
<1>2. /\ uses' = [v \in Values |-> uses'[v]] /\ uses'[n] = use
      /\ \A v \in Values \ {n} : uses'[v] = uses[v]
  BY <1>1 DEF FramesInv
<1>3. use.native = 0 \/ (recording.drawn /\ use.native = store.native
                          /\ use.sees = recording.sees)
  BY DEF NoUse
<1>4. used \cap r = {}
  BY <1>3 DEF FramesInv, Placed
<1>5. Reads' = [Reads EXCEPT ![n] = used]
  <2>1. Reads' = [v \in Values |-> {uses'[v].native} \ {0}]
    BY DEF Reads, Values
  <2>2. \A v \in Values : {uses'[v].native} \ {0} = IF v = n THEN used ELSE Reads[v]
    BY <1>2 DEF Reads
  <2>3. QED
    BY <2>1, <2>2, ReadsAre
<1>6. Books(frames', Reads', r)
  <2> HIDE DEF used, n, r
  <2>1. QED
    BY <1>1, <1>4, <1>5, ReadsAre, SubmittedKeeps DEF n
<1>7. Freed(frames') = r
  BY <1>6, FreedIs
<1>8. frames'.running = frames.running \cup {n}
  BY <1>1, SubmittedIs
<1>9. \A v \in frames.running : v \in Values /\ v \in Nat /\ v < n /\ v # n
  BY <1>1, ReadsAre DEF Books, Typed, BooksType, Ordered
<1>10. /\ store'.native \in {0, store.native}
       /\ store'.native # 0 =>
            IF recording.synced /\ store.known THEN store'.lastUse = n
            ELSE store'.lastUse = store.lastUse
  <2> DEFINE s == IF recording.synced /\ store.known THEN [store EXCEPT !.lastUse = n] ELSE store
  <2>1. s \in [known : BOOLEAN, native : 0..MaxNative, capacity : Nat, lastUse : Nat]
        /\ s.native = store.native
        /\ (IF recording.synced /\ store.known THEN s.lastUse = n
            ELSE s.lastUse = store.lastUse)
    BY <1>1, ReadsAre DEF BuffersTyped, StoreType
  <2>2. \/ store' = s
        \/ store' = [s EXCEPT !.known = FALSE, !.native = 0, !.capacity = 0]
    BY DEF Submit
  <2> HIDE DEF s
  <2>3. QED
    BY <2>1, <2>2
<1>11. Placed'
  <2>1. Made' = Made
    BY <1>1 DEF Made
  <2>2. QED
    BY <1>7, <1>10, <2>1 DEF FramesInv, Placed
<1>12. Recorded'
  BY <1>1, <1>10, RecordedKeeps DEF FramesInv
<1>13. ReadUntilLastUse'
  <2>1. ASSUME NEW v \in frames.running, uses'[v].native # 0
        PROVE  /\ uses'[v].native \in Made
               /\ uses'[v].native = store'.native => v <= store'.lastUse
               /\ Shows(uses'[v].native, uses'[v].sees)
    <3>1. uses'[v] = uses[v]
      BY <1>2, <1>9
    <3>2. /\ uses[v].native \in Made
          /\ uses[v].native = store.native => v <= store.lastUse
          /\ Shows(uses[v].native, uses[v].sees)
      BY <2>1, <3>1 DEF FramesInv, ReadUntilLastUse
    <3>3. ASSUME uses'[v].native = store'.native PROVE v <= store'.lastUse
      <4>1. uses[v].native = store.native /\ store'.native # 0
        BY <1>10, <2>1, <3>1, <3>3
      <4>2. v <= store.lastUse
        BY <3>2, <4>1
      <4>3. v <= n /\ (store'.lastUse = n \/ store'.lastUse = store.lastUse)
        <5>1. n \in Nat
          BY <1>1, ReadsAre
        <5>2. QED
          BY <1>9, <1>10, <4>1, <5>1
      <4>4. QED
        BY <4>2, <4>3
    <3>4. QED
      BY <3>1, <3>2, <3>3
  <2>2. ASSUME use.native # 0
        PROVE  /\ use.native \in Made
               /\ use.native = store'.native => n <= store'.lastUse
               /\ Shows(use.native, use.sees)
    <3>1. /\ recording.drawn /\ use.native = store.native /\ use.sees = recording.sees
          /\ recording.synced /\ store.known
      BY <2>2, <1>3 DEF FramesInv, Recorded, Submit, Resolved
    <3>2. use.native \in Made /\ Shows(use.native, use.sees)
      BY <2>2, <3>1 DEF FramesInv, Placed, Recorded
    <3>3. n \in Nat
      BY <1>1, ReadsAre
    <3>4. QED
      BY <2>2, <3>1, <3>2, <3>3, <1>10
  <2> HIDE DEF use, n
  <2>3. \A v \in frames'.running :
          uses'[v].native # 0 =>
            /\ uses'[v].native \in Made
            /\ uses'[v].native = store'.native => v <= store'.lastUse
            /\ Shows(uses'[v].native, uses'[v].sees)
    BY <1>2, <1>8, <2>1, <2>2
  <2>4. Made' = Made /\ bytes' = bytes
    BY <1>1 DEF Made
  <2>5. QED
    BY <2>3, <2>4 DEF ReadUntilLastUse, Shows
<1>14. QED
  BY <1>2, <1>6, <1>7, <1>11, <1>12, <1>13 DEF FramesInv, Values

LEMMA SubmitFailsKeepsReads ==
  ASSUME FramesInv, BuffersTyped, SubmitFails
  PROVE  FramesInv'
<1> DEFINE r == Freed(frames)
<1>1. /\ frames.next + 1 \in Values /\ CanPrepare(frames) /\ Books(frames, Reads, r)
      /\ Outlived /\ UNCHANGED bytes /\ recording' = NoRecording
  BY DEF SubmitFails, Submittable, EndsRecording, FramesInv
<1>2. PICK f \in {Refused(frames), PresentFailed(frames), frames} :
        \E g \in {Idled(f), IdledBadly(f)} : DropsBinding(g)
  <2>1. PICK f \in (IF Resolved
                    THEN {Refused(frames)} \cup
                         (IF frames.backend = "metal" THEN {} ELSE {PresentFailed(frames)})
                    ELSE {frames}) :
          \E g \in {Idled(f), IdledBadly(f)} : DropsBinding(g)
    BY DEF SubmitFails
  <2>2. f \in {Refused(frames), PresentFailed(frames), frames}
    OBVIOUS
  <2>3. QED
    BY <2>1, <2>2
<1>3. frames.next \in Values
  BY <1>1, ArenaAssumption DEF Books, Typed, BooksType, Values, Submittable, SubmitFails
<1>4. \E u : DOMAIN u = Values /\ Books(f, u, r)
  <2>1. Books(Refused(frames), Reads, r)
    BY <1>1, RefusedKeeps
  <2>2. Books(PresentFailed(frames), [Reads EXCEPT ![frames.next] = {}], r)
    <3>1. {} \cap r = {}
      OBVIOUS
    <3>2. QED
      BY <1>1, <1>3, <3>1, ReadsAre, PresentFailedKeeps
  <2>3. DOMAIN [Reads EXCEPT ![frames.next] = {}] = Values
    BY ReadsAre
  <2>4. QED
    BY <1>1, <1>2, <2>1, <2>2, <2>3, ReadsAre
<1>5. PICK u : DOMAIN u = Values /\ Books(f, u, r)
  BY <1>4
<1>g. PICK g \in {Idled(f), IdledBadly(f)} : DropsBinding(g)
  BY <1>2
<1>6. Books(g, u, r) /\ g.running = {}
  BY <1>5, WaitedIs
<1>7. Books(g, Reads, r)
  BY <1>5, <1>6, ReadsAre, BooksAgree
<1>8. QED
  BY <1>1, <1>g, <1>6, <1>7, DropsBindingIs, DropKeepsReads

\* A buffer is written once no frame on the GPU reads it.
LEMMA DrainedForIs ==
  ASSUME FramesInv, BuffersTyped,
         NEW f \in IF Writes /\ store.lastUse # 0 THEN Polled(frames) ELSE {frames},
         NEW d \in DrainedFor(f)
  PROVE  /\ Books(d.frames, Reads, Freed(frames))
         /\ d.frames.running \subseteq frames.running
         /\ d.ok /\ Writes /\ store.native # 0 =>
              \A v \in d.frames.running : uses[v].native # store.native
<1> DEFINE r == Freed(frames)
<1>1. Books(frames, Reads, r)
  BY DEF FramesInv
<1>2. Books(f, Reads, r) /\ f.running = frames.running
  BY <1>1, PollKeeps
<1>3. \A v \in frames.running : v \in Nat \ {0}
  BY <1>1, ReadsAre DEF Books, Typed, BooksType
<1>4. store.lastUse \in Nat
  BY DEF BuffersTyped, StoreType
<1>5. CASE Writes /\ store.lastUse # 0 /\ CompletedValue(f) < store.lastUse
  <2>1. d.frames \in {Idled(f), IdledBadly(f)}
    BY <1>5 DEF DrainedFor
  <2>2. Books(d.frames, Reads, r) /\ d.frames.running = {}
    BY <1>2, <2>1, WaitedIs
  <2>3. QED
    BY <2>2
<1>6. CASE ~(Writes /\ store.lastUse # 0 /\ CompletedValue(f) < store.lastUse)
  <2>1. d.frames = f
    BY <1>6 DEF DrainedFor
  <2>2. ASSUME Writes, store.native # 0, NEW v \in frames.running,
               uses[v].native = store.native
        PROVE  FALSE
    <3>1. v <= store.lastUse
      BY <2>2 DEF FramesInv, ReadUntilLastUse
    <3>2. store.lastUse # 0
      BY <1>3, <1>4, <3>1
    <3>3. ~(CompletedValue(f) < store.lastUse)
      BY <1>6, <2>2, <3>2
    <3>4. CompletedValue(f) < v /\ CompletedValue(f) \in Nat
      BY <1>2, CompletedIs DEF Books, Typed, BooksType, CompletedValue
    <3>5. QED
      BY <1>3, <1>4, <3>1, <3>3, <3>4
  <2>3. QED
    BY <1>2, <2>1, <2>2
<1>7. QED
  BY <1>5, <1>6

\* What a bind has brought to the buffer is what its recording is to see.
LEMMA BoundShows ==
  ASSUME HandlesInv, Recorded, Bound, MarksInv'
  PROVE  Recorded'
<1>1. /\ Slot' = Slot /\ arena'.slots = arena.slots /\ arena'.dirty = {}
  BY CleanedIs DEF Bound
<1>2. store'.native # 0 =>
        \A i \in Slot : bytes'[store'.native][i] = arena.slots[i].value
  BY <1>1 DEF MarksInv, MarksSound
<1>3. /\ CurrentValues \in Seq(Contents) /\ Len(CurrentValues) = Len(arena.slots)
      /\ \A i \in Slot : CurrentValues[i] = arena.slots[i].value
  <2>1. \A i \in Slot : arena.slots[i].value \in Contents
    <3>1. \A i \in Slot : arena.slots[i] \in SlotType
      BY DEF HandlesInv, Stored, ArenaType, Slot
    <3>2. QED
      BY <3>1 DEF SlotType
  <2>2. CurrentValues \in [1..Len(arena.slots) -> Contents] /\ Len(arena.slots) \in Nat
    BY <2>1 DEF CurrentValues, Slot, HandlesInv, Stored, ArenaType
  <2>3. QED
    BY <2>2 DEF CurrentValues
<1>4. CASE recording.poisoned
  <2>1. /\ recording' \in RecordingType /\ recording'.poisoned
        /\ recording'.synced = recording.synced /\ recording'.drawn = recording.drawn
    BY <1>4 DEF Bound, Recorded, RecordingType
  <2>2. QED
    BY <1>4, <2>1 DEF Recorded
<1>5. CASE ~recording.poisoned
  <2>1. /\ recording' \in RecordingType /\ ~recording'.poisoned
        /\ recording'.synced /\ recording'.sees = CurrentValues
    BY <1>3, <1>5 DEF Bound, Recorded, RecordingType
  <2>2. QED
    BY <2>1, <1>2, <1>3 DEF Recorded, Shows, Slot
<1>6. QED
  BY <1>4, <1>5

\* A step that writes no buffer that a frame on the GPU reads.
LEMMA WritingKeeps ==
  ASSUME FramesInv, Outlived, Placed', Recorded',
         Books(frames', Reads, Freed(frames')), frames'.running \subseteq frames.running,
         \A v \in frames'.running : uses[v].native # 0 =>
           /\ uses[v].native \in Made'
           /\ bytes'[uses[v].native] = bytes[uses[v].native]
           /\ uses[v].native = store'.native =>
                uses[v].native = store.native /\ store'.lastUse = store.lastUse
  PROVE  FramesInv'
<1>1. /\ uses' = [v \in Values |-> uses'[v]]
      /\ Books(frames', Reads', Freed(frames'))
      /\ \A v \in frames'.running : uses'[v] = uses[v]
  BY FramesGoOn DEF FramesInv
<1>2. ReadUntilLastUse'
  <2>1. ASSUME NEW v \in frames'.running, uses'[v].native # 0
        PROVE  /\ uses'[v].native \in Made'
               /\ uses'[v].native = store'.native => v <= store'.lastUse
               /\ \A i \in 1..Len(uses'[v].sees) :
                    bytes'[uses'[v].native][i] = uses'[v].sees[i]
    <3>1. uses'[v] = uses[v] /\ v \in frames.running
      BY <1>1
    <3>2. /\ uses[v].native = store.native => v <= store.lastUse
          /\ \A i \in 1..Len(uses[v].sees) : bytes[uses[v].native][i] = uses[v].sees[i]
      BY <2>1, <3>1 DEF FramesInv, ReadUntilLastUse, Shows
    <3>3. QED
      BY <2>1, <3>1, <3>2
  <2>2. QED
    BY <2>1 DEF ReadUntilLastUse, Shows
<1>3. QED
  BY <1>1, <1>2 DEF FramesInv, Values

LEMMA NothingKeepsReads ==
  ASSUME FramesInv, Outlived, NEW g, Books(g, Reads, Freed(frames)),
         g.running \subseteq frames.running, WriteNothing(g), Recorded'
  PROVE  FramesInv'
<1>1. KeepsStore /\ Freed(frames') = Freed(frames) /\ frames' = g
  BY FreedIs DEF KeepsStore, WriteNothing
<1>2. QED
  BY <1>1, QuietKeeps DEF FramesInv, Placed, WriteNothing

LEMMA SlotsKeepReads ==
  ASSUME FramesInv, HandlesInv, BuffersTyped, ~NeedsResize, Outlived,
         NEW g, Books(g, Reads, Freed(frames)), g.running \subseteq frames.running,
         \A v \in g.running : uses[v].native # store.native,
         NEW written \in SUBSET Slot, WriteSlots(g, written), Recorded'
  PROVE  FramesInv'
<1>1. store.native # 0
  BY BufferIsMade
<1>2. BuffersTyped' /\ UNCHANGED store /\ frames' = g /\ Freed(frames') = Freed(frames)
  BY <1>1, WrittenSlotsAre, FreedIs DEF WriteSlots
<1>3. \A n \in Natives \ {store.native} : bytes'[n] = bytes[n]
  BY DEF WriteSlots, BuffersTyped
<1>4. bytes[store.native] # <<>> /\ bytes'[store.native] # <<>> /\ store.native \in Natives
  <2>1. store.native \in Natives /\ bytes[store.native] # <<>>
    BY <1>1 DEF FramesInv, Placed, Made
  <2>2. /\ bytes[store.native] \in [1..store.capacity -> Contents]
        /\ bytes'[store.native] \in [1..store.capacity -> Contents]
    BY <1>1, <1>2 DEF BuffersTyped
  <2>3. store.capacity \in Nat /\ store.capacity # 0
    BY <1>1, <2>1, <2>2 DEF BuffersTyped, StoreType
  <2>4. 1 \in DOMAIN bytes'[store.native]
    BY <2>2, <2>3
  <2>5. QED
    BY <2>1, <2>4
<1>5. Made' = Made
  BY <1>3, <1>4 DEF Made, Natives
<1>6. Placed'
  BY <1>2, <1>5 DEF FramesInv, Placed
<1>7. ASSUME NEW v \in frames'.running, uses[v].native # 0
      PROVE  uses[v].native \in Made /\ bytes'[uses[v].native] = bytes[uses[v].native]
  <2>1. uses[v].native \in Made /\ uses[v].native # store.native
    BY <1>2, <1>7 DEF FramesInv, ReadUntilLastUse
  <2>2. QED
    BY <1>3, <2>1 DEF Made
<1>8. QED
  BY <1>2, <1>5, <1>6, <1>7, WritingKeeps

LEMMA NewKeepsReads ==
  ASSUME FramesInv, HandlesInv, BuffersTyped, Outlived,
         NEW g, Books(g, Reads, Freed(frames)), g.running \subseteq frames.running,
         WriteNew(g), Recorded'
  PROVE  FramesInv'
<1> DEFINE made == Cardinality(Made) + 1
           r == Freed(frames)
<1>1. PICK n \in 0..MaxNative : Made = 1..n
  BY DEF FramesInv, Placed
<1>2. made = n + 1 /\ made \notin Made /\ n \in Nat
  <2>1. n \in Nat /\ Cardinality(1..n) = n
    BY FS_Interval, ArenaAssumption
  <2>2. QED
    BY <1>1, <2>1
<1>3. PICK capacity \in NextPowers(Len(arena.slots)) :
        /\ made \in Natives
        /\ bytes' = [bytes EXCEPT ![made] =
             [i \in 1..capacity |-> IF i \in Slot THEN arena.slots[i].value ELSE 0]]
        /\ store' = [store EXCEPT !.native = made, !.capacity = capacity]
        /\ frames' = IF store.native = 0 THEN g ELSE Defer(g, store.native)
  BY DEF WriteNew
<1> HIDE DEF made, r
<1>4. capacity \in Nat /\ 1 <= capacity
  BY <1>3, ArenaAssumption DEF NextPowers, PowersOfTwo
<1>5. /\ \A m \in Natives \ {made} : bytes'[m] = bytes[m]
      /\ 1 \in DOMAIN bytes'[made]
  <2> DEFINE new == [i \in 1..capacity |-> IF i \in Slot THEN arena.slots[i].value ELSE 0]
  <2>1. 1 \in DOMAIN new
    BY <1>4
  <2> HIDE DEF new
  <2>2. bytes' = [bytes EXCEPT ![made] = new]
    BY <1>3 DEF new
  <2>3. QED
    BY <1>3, <2>1, <2>2 DEF BuffersTyped
<1>6. Made' = Made \cup {made}
  <2>1. bytes'[made] # <<>>
    BY <1>5
  <2>2. \A m \in Natives : bytes'[m] # <<>> <=> bytes[m] # <<>> \/ m = made
    BY <1>5, <2>1
  <2>3. QED
    BY <1>3, <2>2 DEF Made, Natives
<1>7. /\ Books(frames', Reads, Freed(frames')) /\ frames'.running = g.running
      /\ Freed(frames') \subseteq Made
  <2>1. CASE store.native = 0
    BY <1>3, <2>1, FreedIs DEF FramesInv, Placed
  <2>2. CASE store.native # 0
    <3>1. store.native \in Made \ r /\ r \subseteq Made
      BY <2>2 DEF FramesInv, Placed, r
    <3>2. Books(frames', Reads, r \cup {store.native})
      BY <1>3, <2>2, <3>1, DeferKeeps DEF r
    <3>3. Freed(frames') = r \cup {store.native}
      BY <3>2, FreedIs
    <3>4. frames'.running = g.running
      BY <1>3, <2>2, DeferIs
    <3>5. QED
      BY <3>1, <3>2, <3>3, <3>4
  <2>3. QED
    BY <2>1, <2>2
<1>8. store'.native = made /\ store'.lastUse = store.lastUse
  BY <1>3 DEF BuffersTyped, StoreType
<1>9. Placed'
  <2>1. Made' = 1..n+1 /\ n + 1 \in 0..MaxNative
    <3>1. n + 1 \in 1..MaxNative
      BY <1>2, <1>3 DEF Natives
    <3>2. QED
      BY <1>1, <1>2, <1>6, <3>1, ArenaAssumption
  <2>2. made \in Made' \ Freed(frames')
    BY <1>2, <1>6, <1>7
  <2>3. QED
    BY <1>6, <1>7, <1>8, <2>1, <2>2 DEF Placed
<1>10. ASSUME NEW v \in frames'.running, uses[v].native # 0
       PROVE  /\ uses[v].native \in Made' /\ uses[v].native # store'.native
              /\ bytes'[uses[v].native] = bytes[uses[v].native]
  <2>1. uses[v].native \in Made
    BY <1>7, <1>10 DEF FramesInv, ReadUntilLastUse
  <2>2. QED
    BY <1>2, <1>5, <1>6, <1>8, <2>1 DEF Made
<1>11. QED
  BY <1>7, <1>9, <1>10, WritingKeeps

LEMMA WriteKeepsReads ==
  ASSUME FramesInv, HandlesInv, MarksInv, MarksInv', Write
  PROVE  FramesInv'
<1> DEFINE r == Freed(frames)
<1>1. sync.at = "writing" /\ Outlived /\ BuffersTyped /\ Recorded
  BY DEF Write, MarksInv, FramesInv
<1>2. PICK f \in IF Writes /\ store.lastUse # 0 THEN Polled(frames) ELSE {frames} :
        \E d \in DrainedFor(f) :
          IF ~d.ok THEN Unbound /\ WriteNothing(d.frames)
          ELSE IF ~NeedsResize THEN WriteRegions(d.frames)
          ELSE \/ Bound /\ WriteNew(d.frames)
               \/ Unbound /\ WriteNothing(d.frames)
  BY DEF Write
<1>3. PICK d \in DrainedFor(f) :
        IF ~d.ok THEN Unbound /\ WriteNothing(d.frames)
        ELSE IF ~NeedsResize THEN WriteRegions(d.frames)
        ELSE \/ Bound /\ WriteNew(d.frames)
             \/ Unbound /\ WriteNothing(d.frames)
  BY <1>2
<1>4. /\ Books(d.frames, Reads, Freed(frames))
      /\ d.frames.running \subseteq frames.running
      /\ d.ok /\ Writes /\ store.native # 0 =>
           \A v \in d.frames.running : uses[v].native # store.native
  BY <1>1, DrainedForIs
<1>5. (Bound \/ Unbound) => Recorded'
  BY <1>1, BoundShows, UnsyncedIs DEF Unbound
<1>6. CASE WriteNothing(d.frames) /\ (Bound \/ Unbound)
  BY <1>1, <1>4, <1>5, <1>6, NothingKeepsReads
<1>7. CASE d.ok /\ NeedsResize /\ Bound /\ WriteNew(d.frames)
  BY <1>1, <1>4, <1>5, <1>7, NewKeepsReads
<1>8. ASSUME d.ok, ~NeedsResize, sync.regions # {}, Bound \/ Unbound,
             NEW written \in SUBSET sync.regions, WriteSlots(d.frames, written)
      PROVE  FramesInv'
  <2>1. store.native # 0
    BY <1>1, <1>8, BufferIsMade
  <2>2. \A v \in d.frames.running : uses[v].native # store.native
    BY <1>4, <1>8, <2>1 DEF Writes
  <2>3. written \in SUBSET Slot
    BY <1>1, <1>8 DEF MarksInv, MarksSound, HandlesInv, Stored
  <2>4. QED
    BY <1>1, <1>4, <1>5, <1>8, <2>2, <2>3, SlotsKeepReads
<1>9. CASE d.ok /\ ~NeedsResize /\ WriteRegions(d.frames)
  <2>1. CASE Bound /\ WriteNothing(d.frames)
    BY <2>1, <1>6
  <2>2. CASE sync.regions # {} /\ Bound /\ WriteSlots(d.frames, sync.regions)
    BY <2>2, <1>8, <1>9
  <2>3. CASE /\ sync.regions # {} /\ Unbound
             /\ \E k \in sync.regions : WriteSlots(d.frames, {i \in sync.regions : i < k})
    <3>1. PICK k \in sync.regions : WriteSlots(d.frames, {i \in sync.regions : i < k})
      BY <2>3
    <3> DEFINE written == {i \in sync.regions : i < k}
    <3>2. written \in SUBSET sync.regions /\ WriteSlots(d.frames, written)
      BY <3>1
    <3> HIDE DEF written
    <3>3. QED
      BY <3>2, <2>3, <1>8, <1>9
  <2>4. QED
    BY <1>9, <2>1, <2>2, <2>3 DEF WriteRegions
<1>10. QED
  BY <1>3, <1>6, <1>7, <1>9

LEMMA FramesStep ==
  HandlesInv /\ MarksInv /\ FramesInv /\ [Next]_vars => FramesInv'
<1> SUFFICES ASSUME HandlesInv, MarksInv, FramesInv, [Next]_vars PROVE FramesInv'
  OBVIOUS
<1>b. BuffersTyped /\ Recorded /\ Books(frames, Reads, Freed(frames))
  BY DEF MarksInv, FramesInv
<1>1. ASSUME UNCHANGED <<store, bytes, frames, uses>>,
             recording' \in {recording, [NoRecording EXCEPT !.on = TRUE]}
      PROVE  FramesInv'
  <2>1. Recorded'
    BY <1>1, <1>b, RecordedKeeps
  <2>2. QED
    BY <1>1, <2>1, StillKeeps
<1>2. ASSUME NEW count \in 1..2, Reserve(count) PROVE FramesInv'
  BY <1>1, <1>2 DEF Reserve, deviceVars
<1>3. ASSUME NEW batch, Set(batch) PROVE FramesInv'
  BY <1>1, <1>3 DEF Set, deviceVars
<1>4. ASSUME NEW handles, Remove(handles) PROVE FramesInv'
  <2>1. UNCHANGED <<store, bytes, frames, uses, recording>>
    BY <1>4 DEF Remove, deviceVars
  <2>2. QED
    BY <1>1, <2>1
<1>5. CASE Bind \/ Begin \/ UNCHANGED vars
  BY <1>1, <1>5 DEF Bind, Begin, vars, deviceVars
<1>6. CASE Write
  BY <1>6, MarksStep, WriteKeepsReads
<1>7. CASE DropArena
  <2>1. Released(frames) \/ Unreleased(frames)
    BY <1>7 DEF DropArena, Outlives
  <2>2. UNCHANGED <<bytes, recording, uses>>
    BY <1>7 DEF DropArena
  <2>3. QED
    BY <1>b, <2>1, <2>2, DropKeepsReads
<1>8. CASE Rebind
  BY <1>b, <1>8, DropsBindingIs, DropKeepsReads DEF Rebind
<1>9. CASE Draw
  BY <1>b, <1>9, DrawKeepsReads
<1>10. CASE Abort
  BY <1>b, <1>10, DropsBindingIs, DropKeepsReads DEF Abort, EndsRecording
<1>11. CASE Submit
  BY <1>b, <1>11, SubmitKeepsReads
<1>12. CASE SubmitFails
  BY <1>b, <1>12, SubmitFailsKeepsReads
<1>13. ASSUME NEW g, Books(g, Reads, Freed(frames)), g.running \subseteq frames.running,
              frames' = g, Outlived, UNCHANGED <<store, bytes, recording>>
       PROVE  FramesInv'
  <2>1. KeepsStore /\ Freed(frames') = Freed(frames)
    BY <1>13, FreedIs DEF KeepsStore
  <2>2. Recorded'
    BY <1>b, <1>13, RecordedKeeps
  <2>3. QED
    BY <1>13, <2>1, <2>2, QuietKeeps DEF FramesInv, Placed
<1>14. CASE WaitIdle
  BY <1>b, <1>13, <1>14, WaitedIs DEF WaitIdle
<1>15. CASE FrameEnds
  <2>1. Books(OldestEnds(frames), Reads, Freed(frames))
    BY <1>b, <1>15, OldestEndsKeeps DEF FrameEnds
  <2>2. OldestEnds(frames).running \subseteq frames.running
    BY <1>b DEF OldestEnds, Books, Typed, BooksType
  <2>3. QED
    BY <1>13, <1>15, <2>1, <2>2 DEF FrameEnds
<1>16. QED
  BY <1>2, <1>3, <1>4, <1>5, <1>6, <1>7, <1>8, <1>9, <1>10, <1>11, <1>12, <1>14, <1>15
     DEF Next

LEMMA FramesInit == Init => FramesInv
<1> SUFFICES ASSUME Init PROVE FramesInv
  OBVIOUS
<1>1. PICK b \in Backends : frames = NewFrames(b)
  BY DEF Init
<1>2. Books(frames, Reads, {}) /\ frames.running = {}
  BY <1>1, ReadsAre, NewFramesBooks DEF NewFrames
<1>3. Freed(frames) = {}
  BY <1>2, FreedIs
<1>4. Made = {} /\ store.native = 0
  BY DEF Init, Made
<1>5. Placed
  <2>1. 0 \in 0..MaxNative /\ 1..0 = {}
    BY ArenaAssumption
  <2>2. QED
    BY <1>3, <1>4, <2>1 DEF Placed
<1>6. Recorded
  <2>1. <<>> \in Seq(Contents)
    OBVIOUS
  <2>2. QED
    BY <2>1 DEF Init, Recorded, RecordingType, NoRecording
<1>7. uses = [v \in Values |-> uses[v]]
  BY DEF Init
<1>8. QED
  BY <1>2, <1>3, <1>5, <1>6, <1>7 DEF FramesInv, ReadUntilLastUse

\* A frame on the GPU reads the elements as the last bind of its recording left
\* them, for any number of frames in flight and the three backends: no later
\* bind writes its buffer, and no growth or release destroys it, before it ends.
THEOREM FramesReadWhatTheyBound == Spec => []FramesSeeBound
<1>1. Init => HandlesInv /\ MarksInv
  BY ArenaAssumption, NewArenaIs DEF Init, HandlesInv, Stored, FreeListed, IssuedPast, Slot,
     MarksInv, BuffersTyped, MarksSound, StoreType, NoBind
<1>2. FramesInv => FramesSeeBound
  <2> SUFFICES ASSUME FramesInv, NEW v \in frames.running, uses[v].native # 0
               PROVE  /\ uses[v].native \notin frames.destroyed
                      /\ \A i \in 1..Len(uses[v].sees) :
                           bytes[uses[v].native][i] = uses[v].sees[i]
    BY DEF FramesSeeBound
  <2>1. v \in Values /\ Reads[v] \cap frames.destroyed = {}
    BY ReadsAre DEF FramesInv, Books, Typed, BooksType, Seated
  <2>2. uses[v].native \in Reads[v]
    BY <2>1 DEF Reads
  <2>3. QED
    BY <2>1, <2>2 DEF FramesInv, ReadUntilLastUse, Shows
<1>3. QED
  BY <1>1, <1>2, FramesInit, HandlesStep, MarksStep, FramesStep, PTL DEF Spec

=============================================================================
