------------------------ MODULE TextureRegistryProofs ------------------------
(***************************************************************************)
(* Proofs about TextureRegistry for every capacity, generation limit and   *)
(* bound.                                                                  *)
(***************************************************************************)
EXTENDS TextureRegistry, SequenceTheorems, WellFoundedInduction, TLAPS

\* The issued handles of a slot are of past generations, or of the present
\* one while the slot is occupied.
IssuedKnown ==
  \A id \in issued :
    /\ id.slot \in 1..Len(registry.slots)
    /\ id.gen \in 1..registry.slots[id.slot].gen
    /\ id.gen = registry.slots[id.slot].gen
         => registry.slots[id.slot].phase # "vacant"

SlotsInv ==
  TypeOK /\ IssuedKnown /\ WithheldHeld /\ ReleasesWithheldOnly /\ NoSlotLeaks

-----------------------------------------------------------------------------
\* What the registry operators return.

\* A set of naturals that is not empty has a least element.
LEMMA LeastNat ==
  ASSUME NEW T \in SUBSET Nat, T # {}
  PROVE  \E i \in T : \A j \in T : i <= j
<1>1. PICK i \in T : \A j \in T : ~(<<j, i>> \in OpToRel(<, Nat))
  BY NatLessThanWellFounded, WFMin
<1>2. ASSUME NEW j \in T PROVE i <= j
  <2>1. ~(j < i)
    BY <1>1 DEF OpToRel
  <2>2. QED
    BY <2>1
<1>3. QED
  BY <1>2

LEMMA FirstIncompleteExists ==
  ASSUME NEW slot \in Slot, NEW c \in Nat
  PROVE  FirstIncomplete(slot, c) \in 1..(Len(slot.pending) + 1)
<1>1. Len(slot.pending) \in Nat
  BY LenProperties DEF Slot
<1>2. /\ Len(slot.pending) + 1 \in Incomplete(slot, c)
      /\ Incomplete(slot, c) \subseteq 1..(Len(slot.pending) + 1)
  BY <1>1 DEF Incomplete
<1>3. \E i \in Incomplete(slot, c) : \A j \in Incomplete(slot, c) : i <= j
  BY <1>1, <1>2, LeastNat
<1>4. FirstIncomplete(slot, c) \in Incomplete(slot, c)
  BY <1>3 DEF FirstIncomplete
<1>5. QED
  BY <1>2, <1>4

\* poll changes neither the generation of a slot nor whether it is occupied.
LEMMA PolledSlotKeeps ==
  ASSUME NEW slot \in Slot, NEW c \in Nat
  PROVE  /\ PolledSlot(slot, c) \in Slot
         /\ PolledSlot(slot, c).gen = slot.gen
         /\ PolledSlot(slot, c).phase = "vacant" <=> slot.phase = "vacant"
<1>1. CASE slot.phase # "uploading"
  BY <1>1 DEF PolledSlot
<1>2. CASE slot.phase = "uploading"
  <2> DEFINE n == FirstIncomplete(slot, c) - 1
             rest == SubSeq(slot.pending, n + 1, Len(slot.pending))
  <2>1. slot.pending \in Seq(Upload) /\ Len(slot.pending) \in Nat
    BY LenProperties DEF Slot
  <2>2. n \in 0..Len(slot.pending)
    <3>1. FirstIncomplete(slot, c) \in 1..(Len(slot.pending) + 1)
      BY FirstIncompleteExists
    <3>2. QED
      BY <2>1, <3>1
  <2> HIDE DEF n
  <2>3. rest \in Seq(Upload)
    BY <2>1, <2>2, SubSeqProperties
  <2>4. n # 0 => slot.pending[n].mips \in Nat
    <3>1. n # 0 => slot.pending[n] \in Upload
      BY <2>1, <2>2, ElementOfSeq
    <3>2. QED
      BY <3>1 DEF Upload
  <2> HIDE DEF rest
  <2>5. PolledSlot(slot, c) =
          [slot EXCEPT !.pending = rest,
                       !.mips = IF n = 0 THEN @ ELSE slot.pending[n].mips,
                       !.phase = IF rest = <<>> THEN "resident" ELSE @]
    BY <1>2 DEF PolledSlot, PolledBy, n, rest
  <2>6. QED
    BY <1>2, <2>3, <2>4, <2>5 DEF Slot, Phases
<1>3. QED
  BY <1>1, <1>2

\* Overwriting one slot.
LEMMA SlotUpdate ==
  ASSUME NEW r \in Registry, NEW s \in 1..Len(r.slots), NEW x \in Slot
  PROVE  LET q == [r EXCEPT !.slots[s] = x] IN
         /\ q \in Registry /\ q.free = r.free
         /\ Len(q.slots) = Len(r.slots) /\ q.slots[s] = x
         /\ \A t \in 1..Len(r.slots) : t # s => q.slots[t] = r.slots[t]
<1>1. r.slots \in Seq(Slot)
  BY DEF Registry
<1>2. /\ [r.slots EXCEPT ![s] = x] \in Seq(Slot)
      /\ Len([r.slots EXCEPT ![s] = x]) = Len(r.slots)
      /\ \A t \in 1..Len(r.slots) :
           [r.slots EXCEPT ![s] = x][t] = IF t = s THEN x ELSE r.slots[t]
  BY <1>1, ExceptSeq
<1>3. [r EXCEPT !.slots[s] = x] = [r EXCEPT !.slots = [r.slots EXCEPT ![s] = x]]
  BY DEF Registry
<1>4. QED
  BY <1>2, <1>3 DEF Registry

LEMMA SlotValues ==
  ASSUME NEW g \in Nat
  PROVE  /\ NewSlot(g) \in Slot /\ NewSlot(g).gen = g /\ NewSlot(g).phase = "allocated"
         /\ Vacated(g) \in Slot /\ Vacated(g).gen = g /\ Vacated(g).phase = "vacant"
<1>1. <<>> \in Seq(Upload)
  BY EmptySeq
<1>2. QED
  BY <1>1 DEF NewSlot, Vacated, Slot, Phases

-----------------------------------------------------------------------------
\* The invariant.

LEMMA InitSlots == Init => SlotsInv
<1> SUFFICES ASSUME Init PROVE SlotsInv
  OBVIOUS
<1>1. registry.slots = <<>> /\ registry.free = {} /\ Len(registry.slots) = 0
  BY DEF Init, NewRegistry
<1>2. registry \in Registry
  BY EmptySeq DEF Init, NewRegistry, Registry
<1>3. TypeOK
  BY <1>1, <1>2, RegistryAssumption DEF Init, TypeOK
<1>4. QED
  BY <1>1, <1>3 DEF Init, SlotsInv, IssuedKnown, WithheldHeld, ReleasesWithheldOnly,
     NoSlotLeaks

\* What an operation that changes one slot has to establish, given the slot
\* after it, x, and the histories after it.
LEMMA StepAtSlot ==
  ASSUME SlotsInv, NEW s \in 1..Len(registry.slots), NEW x \in Slot,
         registry'.slots = [registry.slots EXCEPT ![s] = x],
         registry' \in Registry,
         x.gen \in registry.slots[s].gen..MaxGeneration,
         registry'.free \ {s} = registry.free \ {s},
         s \in registry'.free => x.phase = "vacant",
         issued \subseteq issued',
         \A id \in issued' : id.slot # s => id \in issued,
         \A id \in issued' : id \in TextureId,
         \A id \in issued' : id.slot = s => id.gen \in 1..x.gen,
         \A id \in issued' : id.slot = s /\ id.gen = x.gen => x.phase # "vacant",
         withheld' \subseteq issued',
         \A id \in issued' : id.slot # s => (id \in withheld' <=> id \in withheld),
         \A id \in withheld' : id.slot = s =>
            s \notin registry'.free /\ x.phase = "vacant" /\ x.gen = id.gen + 1,
         \/ x.phase # "vacant"
         \/ s \in registry'.free
         \/ x.gen = MaxGeneration
         \/ \E id \in withheld' : id.slot = s /\ x.gen = id.gen + 1,
         tokens' \in Nat, completed' \in 0..tokens',
         uploads' \subseteq [id : issued', mips : Nat, token : Nat]
  PROVE  SlotsInv'
<1>1. /\ Len(registry'.slots) = Len(registry.slots)
      /\ registry'.slots[s] = x
      /\ \A t \in 1..Len(registry.slots) : t # s => registry'.slots[t] = registry.slots[t]
  <2>1. registry.slots \in Seq(Slot)
    BY DEF SlotsInv, TypeOK, Registry
  <2>2. QED
    BY <2>1, ExceptSeq
<1>2. TypeOK /\ IssuedKnown /\ WithheldHeld /\ ReleasesWithheldOnly /\ NoSlotLeaks
  BY DEF SlotsInv
<1>3. /\ registry.slots[s].gen \in 1..MaxGeneration /\ registry.slots[s].gen \in Nat
      /\ x.gen \in Nat /\ MaxGeneration \in Nat /\ Len(registry.slots) \in Nat
  <2>1. registry.slots \in Seq(Slot)
    BY <1>2 DEF TypeOK, Registry
  <2>2. registry.slots[s] \in Slot /\ Len(registry.slots) \in Nat
    BY <2>1, ElementOfSeq, LenProperties
  <2>3. registry.slots[s].gen \in 1..MaxGeneration
    BY <1>2 DEF TypeOK
  <2>4. QED
    BY <2>2, <2>3, RegistryAssumption DEF Slot
<1>4. TypeOK'
  <2>1. \A t \in 1..Len(registry'.slots) : registry'.slots[t].gen \in 1..MaxGeneration
    BY <1>1, <1>2, <1>3 DEF TypeOK
  <2>2. registry'.free \subseteq {t \in 1..Len(registry'.slots) :
                                    registry'.slots[t].phase = "vacant"}
    <3> SUFFICES ASSUME NEW t \in registry'.free
                 PROVE  t \in 1..Len(registry'.slots) /\ registry'.slots[t].phase = "vacant"
      OBVIOUS
    <3>1. CASE t = s
      BY <1>1, <3>1
    <3>2. CASE t # s
      BY <1>1, <1>2, <3>2 DEF TypeOK
    <3>3. QED
      BY <3>1, <3>2
  <2>3. Len(registry'.slots) <= Capacity
    BY <1>1, <1>2 DEF TypeOK
  <2>4. issued' \subseteq TextureId /\ withheld' \subseteq issued'
    OBVIOUS
  <2>5. QED
    BY <2>1, <2>2, <2>3, <2>4 DEF TypeOK
<1>5. IssuedKnown'
  <2> SUFFICES ASSUME NEW id \in issued'
               PROVE  /\ id.slot \in 1..Len(registry'.slots)
                      /\ id.gen \in 1..registry'.slots[id.slot].gen
                      /\ id.gen = registry'.slots[id.slot].gen
                           => registry'.slots[id.slot].phase # "vacant"
    BY DEF IssuedKnown
  <2>1. CASE id.slot = s
    BY <1>1, <2>1
  <2>2. CASE id.slot # s
    <3>1. id \in issued
      BY <2>2
    <3>2. QED
      BY <1>1, <1>2, <2>2, <3>1 DEF IssuedKnown
  <2>3. QED
    BY <2>1, <2>2
<1>6. WithheldHeld'
  <2> SUFFICES ASSUME NEW id \in withheld'
               PROVE  id.slot \notin registry'.free /\ CanReleaseRetired(registry', id)
    BY DEF WithheldHeld
  <2>1. CASE id.slot = s
    <3>1. id.gen \in Nat /\ id.gen < MaxGeneration
      BY <1>3, <2>1 DEF TextureId
    <3>2. QED
      BY <1>1, <2>1, <3>1 DEF CanReleaseRetired
  <2>2. CASE id.slot # s
    <3>1. id \in withheld
      BY <2>2
    <3>2. QED
      BY <1>1, <1>2, <2>2, <3>1 DEF WithheldHeld, CanReleaseRetired
  <2>3. QED
    BY <2>1, <2>2
<1>7. ReleasesWithheldOnly'
  <2> SUFFICES ASSUME NEW id \in issued', id \notin withheld',
                      CanReleaseRetired(registry', id)
               PROVE  registry'.slots[id.slot].gen = MaxGeneration
    BY DEF ReleasesWithheldOnly
  <2>1. CASE id.slot = s
    <3>1. x.phase = "vacant" /\ s \notin registry'.free
      BY <1>1, <2>1 DEF CanReleaseRetired
    <3>2. SUFFICES ASSUME x.gen # MaxGeneration PROVE FALSE
      BY <1>1, <2>1
    <3>3. PICK w \in withheld' : w.slot = s /\ x.gen = w.gen + 1
      BY <3>1, <3>2
    <3>4. x.gen = id.gen + 1
      <4>1. id.gen \in Nat /\ id.gen \in 1..x.gen /\ (id.gen < MaxGeneration => x.gen = id.gen + 1)
        <5>1. id \in TextureId /\ id.gen \in 1..x.gen
          BY <2>1
        <5>2. x.gen = IF id.gen < MaxGeneration THEN id.gen + 1 ELSE id.gen
          BY <1>1, <2>1 DEF CanReleaseRetired
        <5>3. QED
          BY <5>1, <5>2 DEF TextureId
      <4>2. QED
        BY <1>3, <4>1, <3>2
    <3>5. w = id
      BY <2>1, <3>3, <3>4 DEF TextureId
    <3>6. QED
      BY <3>5
  <2>2. CASE id.slot # s
    <3>1. id \in issued /\ id \notin withheld
      BY <2>2
    <3>2. CanReleaseRetired(registry, id)
      BY <1>1, <2>2 DEF CanReleaseRetired
    <3>3. id.slot \in 1..Len(registry.slots)
      BY <3>2 DEF CanReleaseRetired
    <3>4. QED
      BY <1>1, <1>2, <2>2, <3>1, <3>2, <3>3 DEF ReleasesWithheldOnly
  <2>3. QED
    BY <2>1, <2>2
<1>8. NoSlotLeaks'
  <2> SUFFICES ASSUME NEW t \in 1..Len(registry'.slots),
                      registry'.slots[t].phase = "vacant", t \notin registry'.free,
                      registry'.slots[t].gen # MaxGeneration
               PROVE  \E id \in withheld' : id.slot = t
    BY DEF NoSlotLeaks
  <2>1. CASE t = s
    BY <1>1, <2>1
  <2>2. CASE t # s
    <3>1. PICK id \in withheld : id.slot = t
      BY <1>1, <1>2, <2>2 DEF NoSlotLeaks
    <3>2. id \in issued'
      BY <1>2 DEF TypeOK
    <3>3. QED
      BY <2>2, <3>1, <3>2
  <2>3. QED
    BY <2>1, <2>2
<1>9. QED
  BY <1>4, <1>5, <1>6, <1>7, <1>8 DEF SlotsInv

\* An issued handle names a slot, and a live one a slot it may change.
LEMMA HandleFacts ==
  ASSUME SlotsInv, NEW id \in issued
  PROVE  /\ id \in TextureId /\ id.slot \in 1..Len(registry.slots)
         /\ registry \in Registry /\ registry.slots \in Seq(Slot)
         /\ registry.slots[id.slot] \in Slot
         /\ registry.slots[id.slot].gen \in 1..MaxGeneration
         /\ id.gen \in 1..registry.slots[id.slot].gen
         /\ MaxGeneration \in Nat
<1>1. id \in TextureId /\ registry \in Registry
  BY DEF SlotsInv, TypeOK
<1>2. id.slot \in 1..Len(registry.slots) /\ id.gen \in 1..registry.slots[id.slot].gen
  BY DEF SlotsInv, IssuedKnown
<1>3. registry.slots \in Seq(Slot)
  BY <1>1 DEF Registry
<1>4. registry.slots[id.slot] \in Slot
  BY <1>2, <1>3, ElementOfSeq
<1>5. registry.slots[id.slot].gen \in 1..MaxGeneration
  BY <1>2 DEF SlotsInv, TypeOK
<1>6. QED
  BY <1>1, <1>2, <1>3, <1>4, <1>5, RegistryAssumption

\* A handle of the slot's present generation is the only one.
LEMMA CurrentHandle ==
  ASSUME SlotsInv, NEW id \in issued, NEW other \in issued,
         other.slot = id.slot, other.gen = id.gen
  PROVE  other = id
BY HandleFacts DEF TextureId

\* Changing what is on its way to a live texture, or its requirement.
LEMMA StepWithin ==
  ASSUME SlotsInv, NEW id \in issued, Live(registry, id), NEW x \in Slot,
         x.gen = id.gen, x.phase # "vacant",
         registry' = [registry EXCEPT !.slots[id.slot] = x],
         UNCHANGED <<issued, withheld>>,
         tokens' \in Nat, completed' \in 0..tokens',
         uploads' \subseteq [id : issued, mips : Nat, token : Nat]
  PROVE  SlotsInv'
<1> DEFINE s == id.slot
<1>1. /\ s \in 1..Len(registry.slots) /\ registry \in Registry
      /\ registry.slots \in Seq(Slot) /\ registry.slots[s] \in Slot
      /\ registry.slots[s].gen \in 1..MaxGeneration /\ MaxGeneration \in Nat
  BY HandleFacts
<1>2. registry.slots[s].gen = id.gen /\ registry.slots[s].phase # "vacant"
  BY DEF Live
<1>3. registry' \in Registry /\ registry'.free = registry.free
  BY <1>1, SlotUpdate
<1>4. registry'.slots = [registry.slots EXCEPT ![s] = x]
  BY <1>1 DEF Registry
<1>5. s \notin registry.free /\ withheld \subseteq issued /\ issued \subseteq TextureId
  BY <1>2 DEF SlotsInv, TypeOK
<1>6. \A w \in withheld : w.slot # s
  BY <1>2 DEF SlotsInv, WithheldHeld, CanReleaseRetired
<1>7. \A i \in issued : i.slot = s => i.gen \in 1..x.gen
  BY <1>2 DEF SlotsInv, IssuedKnown
<1>8. x.gen \in registry.slots[s].gen..MaxGeneration
  BY <1>1, <1>2
<1> HIDE DEF s
<1>9. QED
  BY <1>1, <1>3, <1>4, <1>5, <1>6, <1>7, <1>8, StepAtSlot

\* Vacating the slot of a live texture: it is either withheld for that
\* texture or free.
LEMMA StepVacate ==
  ASSUME SlotsInv, NEW id \in issued, Live(registry, id), id.gen < MaxGeneration,
         NEW F \in SUBSET {id.slot},
         registry' = [slots |-> [registry.slots EXCEPT ![id.slot] = Vacated(id.gen + 1)],
                      free |-> registry.free \cup F],
         withheld' = IF F = {} THEN withheld \cup {id} ELSE withheld,
         UNCHANGED <<issued, tokens, completed, uploads>>
  PROVE  SlotsInv'
<1> DEFINE s == id.slot
           x == Vacated(id.gen + 1)
<1>1. /\ s \in 1..Len(registry.slots) /\ registry \in Registry
      /\ registry.slots \in Seq(Slot) /\ registry.slots[s] \in Slot
      /\ registry.slots[s].gen \in 1..MaxGeneration /\ MaxGeneration \in Nat
      /\ id \in TextureId
  BY HandleFacts
<1>2. registry.slots[s].gen = id.gen /\ registry.slots[s].phase # "vacant"
  BY DEF Live
<1>3. x \in Slot /\ x.gen = id.gen + 1 /\ x.phase = "vacant"
  BY <1>1, SlotValues DEF TextureId
<1>4. registry'.slots = [registry.slots EXCEPT ![s] = x] /\ registry'.free = registry.free \cup F
  OBVIOUS
<1>5. registry' \in Registry
  <2>1. [registry.slots EXCEPT ![s] = x] \in Seq(Slot)
    BY <1>1, <1>3, ExceptSeq
  <2>2. s \in Nat
    BY <1>1 DEF TextureId
  <2>3. QED
    BY <1>1, <2>1, <2>2 DEF Registry
<1>6. /\ s \notin registry.free /\ withheld \subseteq issued /\ issued \subseteq TextureId
      /\ tokens \in Nat /\ completed \in 0..tokens
      /\ uploads \subseteq [id : issued, mips : Nat, token : Nat]
  BY <1>2 DEF SlotsInv, TypeOK
<1>7. \A w \in withheld : w.slot # s
  BY <1>2 DEF SlotsInv, WithheldHeld, CanReleaseRetired
<1>8. \A i \in issued : i.slot = s => i.gen \in 1..id.gen
  BY <1>2 DEF SlotsInv, IssuedKnown
<1>9. x.gen \in registry.slots[s].gen..MaxGeneration
  BY <1>1, <1>2, <1>3
<1>10. /\ \A i \in issued : i.slot = s => i.gen \in 1..x.gen
       /\ \A i \in issued : i.slot = s => i.gen # x.gen
  BY <1>1, <1>3, <1>8 DEF TextureId
<1>11. CASE F = {}
  <2>1. withheld' = withheld \cup {id} /\ s \notin registry'.free
    BY <1>4, <1>6, <1>11
  <2> HIDE DEF s, x
  <2>2. \A w \in withheld' : w.slot = s => w = id
    BY <1>7, <2>1
  <2>3. id.slot = s
    BY DEF s
  <2>4. \A i \in issued : i.slot # s => (i \in withheld' <=> i \in withheld)
    BY <2>1, <2>3
  <2>5. withheld' \subseteq issued /\ id \in withheld'
    BY <1>6, <2>1
  <2>6. \A w \in withheld' : w.slot = s =>
          s \notin registry'.free /\ x.phase = "vacant" /\ x.gen = w.gen + 1
    BY <1>3, <2>1, <2>2
  <2>7. \E w \in withheld' : w.slot = s /\ x.gen = w.gen + 1
    BY <1>3, <2>3, <2>5
  <2>8. registry'.free \ {s} = registry.free \ {s}
    BY <1>4, <1>11
  <2>9. /\ issued' = issued /\ withheld' \subseteq issued'
        /\ \A i \in issued' : i.slot # s => (i \in withheld' <=> i \in withheld)
        /\ tokens' \in Nat /\ completed' \in 0..tokens'
        /\ uploads' \subseteq [id : issued', mips : Nat, token : Nat]
    BY <1>6, <2>4, <2>5
  <2>10. /\ \A i \in issued' : i \in TextureId
         /\ \A i \in issued' : i.slot # s => i \in issued
         /\ \A i \in issued' : i.slot = s => i.gen \in 1..x.gen
         /\ \A i \in issued' : i.slot = s /\ i.gen = x.gen => x.phase # "vacant"
    BY <1>6, <1>10, <2>9
  <2>11. QED
    BY <1>1, <1>3, <1>4, <1>5, <1>9, <2>6, <2>7, <2>8, <2>9, <2>10, StepAtSlot
<1>12. CASE F = {s}
  <2>1. withheld' = withheld /\ s \in registry'.free
    BY <1>4, <1>12
  <2>2. registry'.free \ {s} = registry.free \ {s}
    BY <1>4, <1>12
  <2> HIDE DEF s, x
  <2>3. \A w \in withheld' : w.slot = s =>
          s \notin registry'.free /\ x.phase = "vacant" /\ x.gen = w.gen + 1
    BY <1>7, <2>1
  <2>4. /\ issued' = issued /\ withheld' \subseteq issued'
        /\ \A i \in issued' : i.slot # s => (i \in withheld' <=> i \in withheld)
        /\ tokens' \in Nat /\ completed' \in 0..tokens'
        /\ uploads' \subseteq [id : issued', mips : Nat, token : Nat]
    BY <1>6, <2>1
  <2>5. /\ \A i \in issued' : i \in TextureId
        /\ \A i \in issued' : i.slot # s => i \in issued
        /\ \A i \in issued' : i.slot = s => i.gen \in 1..x.gen
        /\ \A i \in issued' : i.slot = s /\ i.gen = x.gen => x.phase # "vacant"
    BY <1>6, <1>10, <2>4
  <2>6. QED
    BY <1>1, <1>3, <1>4, <1>5, <1>9, <2>1, <2>2, <2>3, <2>4, <2>5, StepAtSlot
<1>13. QED
  BY <1>11, <1>12

-----------------------------------------------------------------------------
\* One lemma per operation.

LEMMA BeginKeeps == ASSUME SlotsInv, Begin PROVE SlotsInv'
<1>1. PICK s \in Allocatable(registry) :
        /\ registry' = BeginUpload(registry, s)
        /\ issued' = issued \cup {BegunId(registry, s)}
  BY DEF Begin
<1> DEFINE id == BegunId(registry, s)
<1>2. /\ TypeOK /\ registry \in Registry /\ registry.slots \in Seq(Slot)
      /\ Len(registry.slots) \in Nat /\ registry.free \subseteq 1..Len(registry.slots)
  BY LenProperties DEF SlotsInv, TypeOK, Registry
<1>3. UNCHANGED <<tokens, completed, withheld, uploads>>
  BY DEF Begin
<1>4. CASE s \in registry.free
  <2> DEFINE x == NewSlot(registry.slots[s].gen)
  <2>1. /\ s \in 1..Len(registry.slots) /\ registry.slots[s] \in Slot
        /\ registry.slots[s].gen \in 1..MaxGeneration /\ registry.slots[s].phase = "vacant"
    BY <1>2, <1>4, ElementOfSeq DEF TypeOK
  <2>2. x \in Slot /\ x.gen = registry.slots[s].gen /\ x.phase = "allocated"
    BY <2>1, SlotValues DEF Slot
  <2>3. id = [slot |-> s, gen |-> x.gen] /\ id \in TextureId
    BY <1>2, <1>4, <2>1, <2>2 DEF BegunId, TextureId
  <2>4. /\ registry'.slots = [registry.slots EXCEPT ![s] = x]
        /\ registry'.free = registry.free \ {s}
    BY <1>1, <1>4 DEF BeginUpload
  <2>5. registry' \in Registry
    <3>1. registry' = [slots |-> [registry.slots EXCEPT ![s] = x], free |-> registry.free \ {s}]
      BY <1>1, <1>4 DEF BeginUpload
    <3>2. [registry.slots EXCEPT ![s] = x] \in Seq(Slot)
      BY <1>2, <2>1, <2>2, ExceptSeq
    <3>3. QED
      BY <1>2, <3>1, <3>2 DEF Registry
  <2>6. /\ withheld \subseteq issued /\ issued \subseteq TextureId
        /\ tokens \in Nat /\ completed \in 0..tokens
        /\ uploads \subseteq [id : issued, mips : Nat, token : Nat]
    BY <1>2 DEF TypeOK
  <2>7. \A w \in withheld : w.slot # s
    BY <1>4 DEF SlotsInv, WithheldHeld
  <2>8. \A i \in issued : i.slot = s => i.gen \in 1..x.gen
    BY <2>2 DEF SlotsInv, IssuedKnown
  <2>9. x.gen \in registry.slots[s].gen..MaxGeneration /\ x.gen \in 1..x.gen
    BY <2>1, <2>2
  <2> HIDE DEF x, id
  <2>10. issued' = issued \cup {id} /\ id.slot = s /\ id.gen = x.gen
    BY <1>1, <2>3 DEF id
  <2>11. /\ \A i \in issued' : i \in TextureId
         /\ \A i \in issued' : i.slot # s => i \in issued
         /\ \A i \in issued' : i.slot = s => i.gen \in 1..x.gen
         /\ \A i \in issued' : i.slot = s /\ i.gen = x.gen => x.phase # "vacant"
    BY <2>2, <2>3, <2>6, <2>8, <2>9, <2>10
  <2>12. /\ withheld' \subseteq issued' /\ issued \subseteq issued'
         /\ tokens' \in Nat /\ completed' \in 0..tokens'
         /\ uploads' \subseteq [id : issued', mips : Nat, token : Nat]
    BY <1>3, <2>6, <2>10
  <2>13. \A i \in issued' : i.slot # s => (i \in withheld' <=> i \in withheld)
    BY <1>3
  <2>14. /\ \A w \in withheld' : w.slot # s
         /\ s \notin registry'.free /\ registry'.free \ {s} = registry.free \ {s}
         /\ x.phase # "vacant"
    BY <1>3, <2>2, <2>4, <2>7
  <2>15. QED
    BY <2>1, <2>2, <2>4, <2>5, <2>9, <2>11, <2>12, <2>13, <2>14, StepAtSlot
<1>5. CASE s \notin registry.free
  <2> DEFINE n == Len(registry.slots)
             x == NewSlot(1)
  <2>1. s = n + 1 /\ n < Capacity /\ n \in Nat /\ registry.free = {}
    BY <1>1, <1>2, <1>5 DEF Allocatable
  <2>2. x \in Slot /\ x.gen = 1 /\ x.phase = "allocated"
    BY SlotValues
  <2>3. id = [slot |-> s, gen |-> 1] /\ id \in TextureId
    BY <1>5, <2>1 DEF BegunId, TextureId
  <2> HIDE DEF x, id
  <2>4. registry' = [slots |-> Append(registry.slots, x), free |-> registry.free]
    BY <1>1, <1>5 DEF BeginUpload, x
  <2>5. /\ Append(registry.slots, x) \in Seq(Slot)
        /\ Len(Append(registry.slots, x)) = n + 1
        /\ \A t \in 1..n : Append(registry.slots, x)[t] = registry.slots[t]
        /\ Append(registry.slots, x)[n + 1] = x
    BY <1>2, <2>2, AppendProperties
  <2>6. /\ registry' \in Registry /\ Len(registry'.slots) = n + 1
        /\ \A t \in 1..n : registry'.slots[t] = registry.slots[t]
        /\ registry'.slots[n + 1] = x /\ registry'.free = {}
    BY <1>2, <2>1, <2>4, <2>5 DEF Registry
  <2>7. issued' = issued \cup {id} /\ withheld' = withheld /\ registry \in Registry
    BY <1>1, <1>2, <1>3 DEF id
  <2> HIDE DEF n
  <2>8. \A i \in issued : i.slot \in 1..n
    BY DEF SlotsInv, IssuedKnown, n
  <2>9. TypeOK'
    <3>1. \A t \in 1..n : registry.slots[t].gen \in 1..MaxGeneration
      BY <1>2 DEF TypeOK, n
    <3>2. \A t \in 1..Len(registry'.slots) : registry'.slots[t].gen \in 1..MaxGeneration
      <4> SUFFICES ASSUME NEW t \in 1..(n + 1)
                   PROVE  registry'.slots[t].gen \in 1..MaxGeneration
        BY <2>6
      <4>1. CASE t = n + 1
        BY <2>2, <2>6, <4>1, RegistryAssumption
      <4>2. CASE t # n + 1
        BY <2>1, <2>6, <3>1, <4>2
      <4>3. QED
        BY <4>1, <4>2
    <3>3. n + 1 <= Capacity
      BY <2>1, RegistryAssumption
    <3>4. /\ issued \subseteq TextureId /\ withheld \subseteq issued
          /\ tokens \in Nat /\ completed \in 0..tokens
          /\ uploads \subseteq [id : issued, mips : Nat, token : Nat]
      BY <1>2 DEF TypeOK
    <3>5. QED
      BY <1>3, <2>3, <2>6, <2>7, <3>2, <3>3, <3>4 DEF TypeOK
  <2>10. IssuedKnown'
    <3> SUFFICES ASSUME NEW i \in issued'
                 PROVE  /\ i.slot \in 1..Len(registry'.slots)
                        /\ i.gen \in 1..registry'.slots[i.slot].gen
                        /\ i.gen = registry'.slots[i.slot].gen
                             => registry'.slots[i.slot].phase # "vacant"
      BY DEF IssuedKnown
    <3>1. CASE i \in issued
      <4>1. i.slot \in 1..n /\ registry'.slots[i.slot] = registry.slots[i.slot]
        BY <2>6, <2>8, <3>1
      <4>2. i.slot \in 1..Len(registry'.slots)
        BY <2>1, <2>6, <4>1
      <4>3. QED
        BY <3>1, <4>1, <4>2 DEF SlotsInv, IssuedKnown
    <3>2. CASE i = id
      BY <2>1, <2>2, <2>3, <2>6, <3>2
    <3>3. QED
      BY <2>7, <3>1, <3>2
  <2>11. \A i \in issued : CanReleaseRetired(registry', i) <=> CanReleaseRetired(registry, i)
    BY <2>1, <2>6, <2>8 DEF CanReleaseRetired, n
  <2>12. WithheldHeld'
    <3>1. withheld \subseteq issued
      BY <1>2 DEF TypeOK
    <3>2. QED
      BY <2>6, <2>7, <2>11, <3>1 DEF SlotsInv, WithheldHeld
  <2>13. ReleasesWithheldOnly'
    <3> SUFFICES ASSUME NEW i \in issued', i \notin withheld', CanReleaseRetired(registry', i)
                 PROVE  registry'.slots[i.slot].gen = MaxGeneration
      BY DEF ReleasesWithheldOnly
    <3>1. i # id
      BY <2>1, <2>2, <2>3, <2>6 DEF CanReleaseRetired
    <3>2. i \in issued /\ i \notin withheld /\ registry'.slots[i.slot] = registry.slots[i.slot]
      BY <2>6, <2>7, <2>8, <3>1
    <3>3. QED
      BY <2>11, <3>2 DEF SlotsInv, ReleasesWithheldOnly
  <2>14. NoSlotLeaks'
    <3> SUFFICES ASSUME NEW t \in 1..(n + 1), registry'.slots[t].phase = "vacant",
                        registry'.slots[t].gen # MaxGeneration
                 PROVE  \E w \in withheld' : w.slot = t
      BY <2>6 DEF NoSlotLeaks
    <3>1. t \in 1..n
      BY <2>1, <2>2, <2>6
    <3>2. QED
      BY <2>1, <2>6, <2>7, <3>1 DEF SlotsInv, NoSlotLeaks, n
  <2>15. QED
    BY <2>9, <2>10, <2>12, <2>13, <2>14 DEF SlotsInv
<1>6. QED
  BY <1>4, <1>5

\* What TypeOK says of the histories.
LEMMA HistoryFacts ==
  ASSUME SlotsInv
  PROVE  /\ tokens \in Nat /\ completed \in 0..tokens
         /\ issued \subseteq TextureId /\ withheld \subseteq issued
         /\ uploads \subseteq [id : issued, mips : Nat, token : Nat]
BY DEF SlotsInv, TypeOK

\* A token issued now goes with one more upload of a known handle.
LEMMA IssueToken ==
  ASSUME SlotsInv, NEW id \in issued, NEW mips \in Nat,
         tokens' = tokens + 1, UNCHANGED <<completed, issued>>,
         uploads' = uploads \cup {UploadOf(id, mips, tokens + 1)}
  PROVE  /\ tokens' \in Nat /\ completed' \in 0..tokens'
         /\ uploads' \subseteq [id : issued, mips : Nat, token : Nat]
BY HistoryFacts DEF UploadOf

LEMMA SubmitKeeps ==
  ASSUME SlotsInv, NEW id \in issued, Submit(id) PROVE SlotsInv'
<1> DEFINE old == registry.slots[id.slot]
           one == [token |-> tokens + 1, mips |-> 1]
           x == [old EXCEPT !.phase = "uploading", !.pending = <<one>>]
<1>1. /\ id.slot \in 1..Len(registry.slots) /\ registry \in Registry /\ old \in Slot
  BY HandleFacts
<1>2. Live(registry, id) /\ old.gen = id.gen
  BY DEF Submit, CanMarkSubmitted, PhaseOf, Live
<1>3. one \in Upload /\ <<one>> \in Seq(Upload)
  BY HistoryFacts DEF Upload
<1>4. x \in Slot /\ x.gen = id.gen /\ x.phase # "vacant"
  BY <1>1, <1>2, <1>3 DEF Slot, Phases
<1>5. registry' = [registry EXCEPT !.slots[id.slot] = x]
  BY <1>1 DEF Submit, MarkSubmitted, Registry
<1> HIDE DEF x
<1>6. QED
  BY <1>2, <1>4, <1>5, IssueToken, StepWithin DEF Submit

LEMMA SubmitMipsKeeps ==
  ASSUME SlotsInv, NEW id \in issued, NEW mips \in 1..MaxMips, SubmitMips(id, mips)
  PROVE  SlotsInv'
<1> DEFINE old == registry.slots[id.slot]
           one == [token |-> tokens + 1, mips |-> mips]
           x == [old EXCEPT !.phase = "uploading", !.pending = Append(@, one)]
<1>1. /\ id.slot \in 1..Len(registry.slots) /\ registry \in Registry /\ old \in Slot
  BY HandleFacts
<1>2. Live(registry, id) /\ old.gen = id.gen
  BY DEF SubmitMips, CanMarkMips, PhaseOf, Live
<1>3. one \in Upload /\ mips \in Nat
  BY HistoryFacts, RegistryBounds DEF Upload
<1>4. old.pending \in Seq(Upload)
  BY <1>1 DEF Slot
<1>5. Append(old.pending, one) \in Seq(Upload)
  BY <1>3, <1>4, AppendProperties
<1>6. x \in Slot /\ x.gen = id.gen /\ x.phase # "vacant"
  BY <1>1, <1>2, <1>5 DEF Slot, Phases
<1>7. registry' = [registry EXCEPT !.slots[id.slot] = x]
  BY <1>1 DEF SubmitMips, MarkMips, Registry
<1> HIDE DEF x
<1>8. QED
  BY <1>2, <1>3, <1>6, <1>7, IssueToken, StepWithin DEF SubmitMips

LEMMA RequireKeeps ==
  ASSUME SlotsInv, NEW id \in issued, NEW mips \in 0..MaxMips, Require(id, mips)
  PROVE  SlotsInv'
<1> DEFINE old == registry.slots[id.slot]
           x == [old EXCEPT !.required = mips]
<1>1. /\ id.slot \in 1..Len(registry.slots) /\ registry \in Registry /\ old \in Slot
  BY HandleFacts
<1>2. Live(registry, id) /\ old.gen = id.gen /\ old.phase # "vacant"
  BY DEF Require, Live
<1>3. mips \in Nat
  BY RegistryBounds
<1>4. x \in Slot /\ x.gen = id.gen /\ x.phase # "vacant"
  BY <1>1, <1>2, <1>3 DEF Slot
<1>5. registry' = [registry EXCEPT !.slots[id.slot] = x]
  BY <1>1 DEF Require, SetRequiredMips, Registry
<1> HIDE DEF x
<1>6. QED
  BY <1>2, <1>4, <1>5, HistoryFacts, StepWithin DEF Require

LEMMA VacateKeeps ==
  ASSUME SlotsInv, NEW id \in issued,
         Cancel(id) \/ RetireTexture(id) \/ UnloadTexture(id)
  PROVE  SlotsInv'
<1>1. registry \in Registry /\ id.slot \in 1..Len(registry.slots)
  BY HandleFacts
<1>2. Live(registry, id) /\ id.gen < MaxGeneration
  BY DEF Cancel, CanCancelUpload, RetireTexture, UnloadTexture, CanRetire
<1>3. Retire(registry, id) =
        [slots |-> [registry.slots EXCEPT ![id.slot] = Vacated(id.gen + 1)],
         free |-> registry.free]
  BY <1>1 DEF Retire, Registry
<1>4. CASE RetireTexture(id)
  <2>1. registry.free = registry.free \cup {}
    OBVIOUS
  <2>2. registry' = [slots |-> [registry.slots EXCEPT ![id.slot] = Vacated(id.gen + 1)],
                     free |-> registry.free \cup {}]
    BY <1>3, <1>4, <2>1 DEF RetireTexture
  <2>3. {} \in SUBSET {id.slot} /\ withheld' = IF {} = {} THEN withheld \cup {id} ELSE withheld
    BY <1>4 DEF RetireTexture
  <2>4. UNCHANGED <<issued, tokens, completed, uploads>>
    BY <1>4 DEF RetireTexture
  <2>5. QED
    BY <1>2, <2>2, <2>3, <2>4, StepVacate
<1>5. CASE Cancel(id) \/ UnloadTexture(id)
  <2>1. registry' = [slots |-> [registry.slots EXCEPT ![id.slot] = Vacated(id.gen + 1)],
                     free |-> registry.free \cup {id.slot}]
    BY <1>3, <1>5 DEF Cancel, UnloadTexture, Unload, CancelUpload
  <2>2. UNCHANGED <<issued, withheld, tokens, completed, uploads>>
    BY <1>5 DEF Cancel, UnloadTexture
  <2>3. {id.slot} # {}
    OBVIOUS
  <2>4. QED
    BY <1>2, <2>1, <2>2, <2>3, StepVacate
<1>6. QED
  BY <1>4, <1>5

LEMMA ReleaseKeeps == ASSUME SlotsInv, NEW id \in issued, Release(id) PROVE SlotsInv'
<1> DEFINE s == id.slot
           x == registry.slots[s]
<1>1. /\ s \in 1..Len(registry.slots) /\ registry \in Registry
      /\ registry.slots \in Seq(Slot) /\ x \in Slot /\ id \in TextureId
      /\ x.gen \in 1..MaxGeneration /\ MaxGeneration \in Nat
  BY HandleFacts
<1>2. /\ x.phase = "vacant" /\ s \notin registry.free
      /\ x.gen = IF id.gen < MaxGeneration THEN id.gen + 1 ELSE id.gen
      /\ registry' = [registry EXCEPT !.free = @ \cup {s}]
      /\ withheld' = withheld \ {id} /\ UNCHANGED <<tokens, completed, issued, uploads>>
  BY DEF Release, CanReleaseRetired, ReleaseRetired
<1>3. /\ registry'.slots = [registry.slots EXCEPT ![s] = x]
      /\ registry'.free = registry.free \cup {s} /\ registry' \in Registry
  <2>1. registry'.slots = registry.slots /\ registry'.free = registry.free \cup {s}
    BY <1>1, <1>2 DEF Registry
  <2>2. registry.slots = [registry.slots EXCEPT ![s] = x]
    BY <1>1
  <2>3. QED
    BY <1>1, <1>2, <2>1, <2>2 DEF Registry, TextureId
<1>4. \A i \in issued : i.slot = s => i.gen \in 1..x.gen /\ i.gen # x.gen
  BY <1>2 DEF SlotsInv, IssuedKnown
\* Whoever is withheld in this slot is the handle released.
<1>5. \A w \in withheld' : w.slot # s
  <2> SUFFICES ASSUME NEW w \in withheld, w # id, w.slot = s PROVE FALSE
    BY <1>2
  <2>1. w \in issued /\ w \in TextureId
    BY HistoryFacts
  <2>2. x.gen = IF w.gen < MaxGeneration THEN w.gen + 1 ELSE w.gen
    BY DEF SlotsInv, WithheldHeld, CanReleaseRetired
  <2>3. w.gen # x.gen /\ id.gen # x.gen
    BY <1>4, <2>1
  <2>4. w.gen = id.gen
    BY <1>1, <1>2, <2>1, <2>2, <2>3 DEF TextureId
  <2>5. QED
    BY <2>1, <2>4, CurrentHandle
<1>6. /\ \A i \in issued' : i.slot # s => (i \in withheld' <=> i \in withheld)
      /\ withheld' \subseteq issued' /\ issued' = issued
  BY <1>2, HistoryFacts
<1>7. /\ registry'.free \ {s} = registry.free \ {s} /\ s \in registry'.free
      /\ x.gen \in registry.slots[s].gen..MaxGeneration
  BY <1>1, <1>3
<1>8. /\ \A i \in issued' : i \in TextureId
      /\ \A i \in issued' : i.slot = s => i.gen \in 1..x.gen
      /\ \A i \in issued' : i.slot = s /\ i.gen = x.gen => x.phase # "vacant"
      /\ tokens' \in Nat /\ completed' \in 0..tokens'
      /\ uploads' \subseteq [id : issued', mips : Nat, token : Nat]
  BY <1>2, <1>4, HistoryFacts
<1>9. x.phase = "vacant" /\ s \in 1..Len(registry.slots) /\ x \in Slot
  BY <1>1, <1>2
<1> HIDE DEF s, x
<1>10. QED
  BY <1>3, <1>5, <1>6, <1>7, <1>8, <1>9, StepAtSlot

LEMMA PollKeeps == ASSUME SlotsInv, PollCompleted PROVE SlotsInv'
<1>1. /\ registry \in Registry /\ registry.slots \in Seq(Slot)
      /\ Len(registry.slots) \in Nat
  BY LenProperties DEF SlotsInv, TypeOK, Registry
<1>2. completed' \in Nat /\ completed' \in 0..tokens' /\ UNCHANGED <<tokens, issued, withheld, uploads>>
  BY HistoryFacts DEF PollCompleted
<1> DEFINE polled == [s \in 1..Len(registry.slots) |->
                        PolledSlot(registry.slots[s], completed')]
<1>3. registry' = [registry EXCEPT !.slots = polled]
  BY DEF PollCompleted, Poll
<1>4. \A s \in 1..Len(registry.slots) :
        /\ polled[s] \in Slot /\ polled[s].gen = registry.slots[s].gen
        /\ polled[s].phase = "vacant" <=> registry.slots[s].phase = "vacant"
  <2> SUFFICES ASSUME NEW s \in 1..Len(registry.slots)
               PROVE  /\ PolledSlot(registry.slots[s], completed') \in Slot
                      /\ PolledSlot(registry.slots[s], completed').gen = registry.slots[s].gen
                      /\ PolledSlot(registry.slots[s], completed').phase = "vacant"
                           <=> registry.slots[s].phase = "vacant"
    OBVIOUS
  <2>1. registry.slots[s] \in Slot
    BY <1>1, ElementOfSeq
  <2>2. QED
    BY <1>2, <2>1, PolledSlotKeeps
<1>5. polled \in Seq(Slot) /\ Len(polled) = Len(registry.slots)
  <2>1. polled \in [1..Len(registry.slots) -> Slot]
    BY <1>4
  <2>2. QED
    BY <1>1, <2>1, SeqDef, LenProperties
<1> HIDE DEF polled
<1>6. /\ registry' \in Registry /\ registry'.free = registry.free
      /\ registry'.slots = polled /\ Len(registry'.slots) = Len(registry.slots)
  BY <1>1, <1>3, <1>5 DEF Registry
<1>7. \A id \in issued :
        /\ id.slot \in 1..Len(registry.slots)
        /\ CanReleaseRetired(registry', id) <=> CanReleaseRetired(registry, id)
  <2> SUFFICES ASSUME NEW id \in issued
               PROVE  /\ id.slot \in 1..Len(registry.slots)
                      /\ CanReleaseRetired(registry', id) <=> CanReleaseRetired(registry, id)
    OBVIOUS
  <2>1. id.slot \in 1..Len(registry.slots)
    BY HandleFacts
  <2>2. QED
    BY <1>4, <1>6, <2>1 DEF CanReleaseRetired
<1>8. TypeOK'
  <2>1. \A s \in 1..Len(registry.slots) : polled[s].gen \in 1..MaxGeneration
    BY <1>4 DEF SlotsInv, TypeOK
  <2>2. registry.free \subseteq {s \in 1..Len(registry.slots) : polled[s].phase = "vacant"}
    BY <1>4 DEF SlotsInv, TypeOK
  <2>3. Len(registry.slots) <= Capacity
    BY DEF SlotsInv, TypeOK
  <2>4. QED
    BY <1>2, <1>6, <2>1, <2>2, <2>3, HistoryFacts DEF TypeOK
<1>9. IssuedKnown'
  BY <1>2, <1>4, <1>6 DEF SlotsInv, IssuedKnown
<1>10. WithheldHeld' /\ ReleasesWithheldOnly' /\ NoSlotLeaks'
  <2>1. WithheldHeld'
    BY <1>2, <1>6, <1>7, HistoryFacts DEF SlotsInv, WithheldHeld
  <2>2. ReleasesWithheldOnly'
    BY <1>2, <1>4, <1>6, <1>7 DEF SlotsInv, ReleasesWithheldOnly
  <2>3. NoSlotLeaks'
    BY <1>2, <1>4, <1>6 DEF SlotsInv, NoSlotLeaks
  <2>4. QED
    BY <2>1, <2>2, <2>3
<1>11. QED
  BY <1>8, <1>9, <1>10 DEF SlotsInv

LEMMA ClearKeeps == ASSUME SlotsInv, ClearAll PROVE SlotsInv'
<1>1. /\ registry \in Registry /\ registry.slots \in Seq(Slot)
      /\ Len(registry.slots) \in Nat /\ MaxGeneration \in Nat
      /\ \A s \in 1..Len(registry.slots) :
           registry.slots[s] \in Slot /\ registry.slots[s].gen \in 1..MaxGeneration
  BY LenProperties, ElementOfSeq, RegistryAssumption DEF SlotsInv, TypeOK, Registry
<1> DEFINE gen(s) == IF registry.slots[s].phase = "vacant"
                     THEN registry.slots[s].gen ELSE registry.slots[s].gen + 1
           cleared == [s \in 1..Len(registry.slots) |-> Vacated(gen(s))]
           free == {s \in 1..Len(registry.slots) : cleared[s].gen # MaxGeneration}
<1>2. \A s \in 1..Len(registry.slots) : gen(s) \in 1..MaxGeneration
  <2> SUFFICES ASSUME NEW s \in 1..Len(registry.slots) PROVE gen(s) \in 1..MaxGeneration
    OBVIOUS
  <2>1. registry.slots[s].phase # "vacant" => registry.slots[s].gen < MaxGeneration
    BY DEF ClearAll, CanClear
  <2>2. QED
    BY <1>1, <2>1
<1>3. \A s \in 1..Len(registry.slots) :
        cleared[s] \in Slot /\ cleared[s].gen = gen(s) /\ cleared[s].phase = "vacant"
  <2> SUFFICES ASSUME NEW s \in 1..Len(registry.slots)
               PROVE  /\ Vacated(gen(s)) \in Slot /\ Vacated(gen(s)).gen = gen(s)
                      /\ Vacated(gen(s)).phase = "vacant"
    OBVIOUS
  <2>1. gen(s) \in Nat
    BY <1>1, <1>2
  <2> HIDE DEF gen
  <2>2. QED
    BY <2>1, SlotValues
<1>4. cleared \in Seq(Slot) /\ Len(cleared) = Len(registry.slots)
  <2>1. cleared \in [1..Len(registry.slots) -> Slot]
    BY <1>3
  <2>2. QED
    BY <1>1, <2>1, SeqDef, LenProperties
<1>5. registry' = [slots |-> cleared, free |-> free]
  BY DEF ClearAll, Clear
<1>6. /\ withheld' = {} /\ UNCHANGED <<tokens, completed, issued, uploads>>
  BY DEF ClearAll
<1>7. free \subseteq 1..Len(registry.slots)
  OBVIOUS
<1>8. \A i \in issued : /\ i \in TextureId /\ i.slot \in 1..Len(registry.slots)
                        /\ i.gen \in 1..gen(i.slot) /\ i.gen # gen(i.slot)
  <2> SUFFICES ASSUME NEW i \in issued
               PROVE  /\ i \in TextureId /\ i.slot \in 1..Len(registry.slots)
                      /\ i.gen \in 1..gen(i.slot) /\ i.gen # gen(i.slot)
    OBVIOUS
  <2>1. /\ i \in TextureId /\ i.slot \in 1..Len(registry.slots)
        /\ i.gen \in 1..registry.slots[i.slot].gen
    BY HandleFacts
  <2>2. i.gen = registry.slots[i.slot].gen => registry.slots[i.slot].phase # "vacant"
    BY DEF SlotsInv, IssuedKnown
  <2>3. registry.slots[i.slot].gen \in Nat /\ i.gen \in Nat
    BY <1>1, <2>1
  <2>4. QED
    BY <2>1, <2>2, <2>3
<1>9. \A s \in 1..Len(registry.slots) : s \in free \/ cleared[s].gen = MaxGeneration
  OBVIOUS
<1> HIDE DEF gen, cleared, free
<1>10. /\ registry'.slots = cleared /\ registry'.free = free /\ registry' \in Registry
       /\ Len(registry'.slots) = Len(registry.slots)
  BY <1>1, <1>4, <1>5, <1>7 DEF Registry
<1>11. TypeOK'
  <2>1. Len(registry.slots) <= Capacity
    BY DEF SlotsInv, TypeOK
  <2>2. QED
    BY <1>2, <1>3, <1>6, <1>7, <1>10, <2>1, HistoryFacts DEF TypeOK
<1>12. IssuedKnown'
  BY <1>3, <1>6, <1>8, <1>10 DEF IssuedKnown
<1>13. WithheldHeld' /\ NoSlotLeaks'
  BY <1>6, <1>9, <1>10 DEF WithheldHeld, NoSlotLeaks
<1>14. ReleasesWithheldOnly'
  BY <1>6, <1>8, <1>9, <1>10 DEF ReleasesWithheldOnly, CanReleaseRetired
<1>15. QED
  BY <1>11, <1>12, <1>13, <1>14 DEF SlotsInv

LEMMA StepSlots == ASSUME SlotsInv, [Next]_vars PROVE SlotsInv'
<1>1. CASE Begin
  BY <1>1, BeginKeeps
<1>2. CASE PollCompleted
  BY <1>2, PollKeeps
<1>3. CASE ClearAll
  BY <1>3, ClearKeeps
<1>4. ASSUME NEW id \in issued, Submit(id) PROVE SlotsInv'
  BY <1>4, SubmitKeeps
<1>5. ASSUME NEW id \in issued, Cancel(id) \/ RetireTexture(id) \/ UnloadTexture(id)
      PROVE  SlotsInv'
  BY <1>5, VacateKeeps
<1>6. ASSUME NEW id \in issued, Release(id) PROVE SlotsInv'
  BY <1>6, ReleaseKeeps
<1>7. ASSUME NEW id \in issued, NEW mips \in 1..MaxMips, SubmitMips(id, mips) PROVE SlotsInv'
  BY <1>7, SubmitMipsKeeps
<1>8. ASSUME NEW id \in issued, NEW mips \in 0..MaxMips, Require(id, mips) PROVE SlotsInv'
  BY <1>8, RequireKeeps
<1>9. CASE UNCHANGED vars
  BY <1>9 DEF vars, SlotsInv, TypeOK, IssuedKnown, WithheldHeld, ReleasesWithheldOnly,
     NoSlotLeaks
<1>10. QED
  BY <1>1, <1>2, <1>3, <1>4, <1>5, <1>6, <1>7, <1>8, <1>9 DEF Next

-----------------------------------------------------------------------------
\* The registry stays well formed.
THEOREM RegistryTyped == Spec => []TypeOK
<1>1. SlotsInv => TypeOK
  BY DEF SlotsInv
<1>2. QED
  BY <1>1, InitSlots, StepSlots, PTL DEF Spec

\* begin_upload never reissues a handle: an issued handle of a vacant slot has
\* an older generation, and a slot not created yet has none.
THEOREM HandlesAreFresh == Spec => []FreshIds
<1>1. ASSUME SlotsInv, NEW s \in Allocatable(registry), BegunId(registry, s) \in issued
      PROVE  FALSE
  <2> DEFINE id == BegunId(registry, s)
  <2>1. /\ id.slot \in 1..Len(registry.slots) /\ id.gen \in 1..registry.slots[id.slot].gen
        /\ id.gen = registry.slots[id.slot].gen => registry.slots[id.slot].phase # "vacant"
    BY <1>1 DEF SlotsInv, IssuedKnown
  <2>2. id.slot = s
    BY DEF BegunId
  <2>3. s \in registry.free
    <3>1. registry.slots \in Seq(Slot) /\ Len(registry.slots) \in Nat
      BY <1>1, LenProperties DEF SlotsInv, TypeOK, Registry
    <3>2. QED
      BY <2>1, <2>2, <3>1 DEF Allocatable
  <2>4. registry.slots[s].phase = "vacant" /\ id.gen = registry.slots[s].gen
    BY <1>1, <2>3 DEF SlotsInv, TypeOK, BegunId
  <2>5. QED
    BY <2>1, <2>2, <2>4
<1>2. SlotsInv => FreshIds
  BY <1>1 DEF FreshIds
<1>3. QED
  BY <1>2, InitSlots, StepSlots, PTL DEF Spec

\* A retired slot is withheld until its release, which is always accepted and
\* accepted for nobody else; no slot is ever lost.
THEOREM SlotsAccountedFor == Spec => [](WithheldHeld /\ ReleasesWithheldOnly /\ NoSlotLeaks)
<1>1. SlotsInv => WithheldHeld /\ ReleasesWithheldOnly /\ NoSlotLeaks
  BY DEF SlotsInv
<1>2. QED
  BY <1>1, InitSlots, StepSlots, PTL DEF Spec

-----------------------------------------------------------------------------
(* Residency. *)

\* The mips on their way to a slot grow beyond its resident ones and beyond
\* each other, and a slot nothing was submitted for has none of either.
Rising(slot) ==
  /\ slot.phase = "allocated" => slot.mips = 0 /\ slot.pending = <<>>
  /\ \A k \in 1..Len(slot.pending) : slot.mips < slot.pending[k].mips
  /\ \A j, k \in 1..Len(slot.pending) :
       j < k => slot.pending[j].mips < slot.pending[k].mips

Awaits(slot, u) ==
  \E k \in 1..Len(slot.pending) :
    slot.pending[k].token = u.token /\ slot.pending[k].mips = u.mips

\* An upload of a live texture has completed, or its slot still waits for it.
\* ResidentMipsComplete alone is not inductive: it says nothing of the mips
\* the next poll will publish.
MipsInv ==
  /\ SlotsInv
  /\ \A s \in 1..Len(registry.slots) : Rising(registry.slots[s])
  /\ \A u \in uploads :
       Live(registry, u.id) =>
         u.token <= completed \/ Awaits(registry.slots[u.id.slot], u)

LEMMA UploadFacts ==
  ASSUME SlotsInv, NEW u \in uploads
  PROVE  u.id \in issued /\ u.token \in Nat /\ u.mips \in Nat
BY HistoryFacts

LEMMA SlotFacts ==
  ASSUME SlotsInv
  PROVE  /\ registry \in Registry /\ registry.slots \in Seq(Slot)
         /\ Len(registry.slots) \in Nat
         /\ \A s \in 1..Len(registry.slots) :
              /\ registry.slots[s] \in Slot
              /\ registry.slots[s].pending \in Seq(Upload)
              /\ Len(registry.slots[s].pending) \in Nat
              /\ registry.slots[s].mips \in Nat
<1>1. /\ registry \in Registry /\ registry.slots \in Seq(Slot)
      /\ Len(registry.slots) \in Nat
  BY LenProperties DEF SlotsInv, TypeOK, Registry
<1>2. ASSUME NEW s \in 1..Len(registry.slots)
      PROVE  /\ registry.slots[s] \in Slot
             /\ registry.slots[s].pending \in Seq(Upload)
             /\ Len(registry.slots[s].pending) \in Nat
             /\ registry.slots[s].mips \in Nat
  <2>1. registry.slots[s] \in Slot
    BY <1>1, ElementOfSeq
  <2>2. QED
    BY <2>1, LenProperties DEF Slot
<1>3. QED
  BY <1>1, <1>2

\* What an operation that changes one slot has to establish.
LEMMA MipsAtSlot ==
  ASSUME MipsInv, SlotsInv', NEW s \in 1..Len(registry.slots), NEW x \in Slot,
         registry'.slots = [registry.slots EXCEPT ![s] = x], Rising(x),
         UNCHANGED completed,
         \A u \in uploads' : u.id.slot # s => u \in uploads,
         \A u \in uploads' :
           u.id.slot = s /\ u.id.gen = x.gen /\ x.phase # "vacant"
             => u.token <= completed \/ Awaits(x, u)
  PROVE  MipsInv'
<1>1. /\ Len(registry'.slots) = Len(registry.slots)
      /\ registry'.slots[s] = x
      /\ \A t \in 1..Len(registry.slots) : t # s => registry'.slots[t] = registry.slots[t]
  BY SlotFacts, ExceptSeq DEF MipsInv
<1>2. \A t \in 1..Len(registry'.slots) : Rising(registry'.slots[t])
  BY <1>1 DEF MipsInv
<1>3. ASSUME NEW u \in uploads', Live(registry', u.id)
      PROVE  u.token <= completed \/ Awaits(registry'.slots[u.id.slot], u)
  <2>1. CASE u.id.slot = s
    BY <1>1, <1>3, <2>1 DEF Live
  <2>2. CASE u.id.slot # s
    <3>1. /\ u \in uploads /\ registry'.slots[u.id.slot] = registry.slots[u.id.slot]
          /\ Live(registry, u.id)
      BY <1>1, <1>3, <2>2 DEF Live
    <3>2. QED
      BY <3>1 DEF MipsInv
  <2>3. QED
    BY <2>1, <2>2
<1>4. QED
  BY <1>2, <1>3 DEF MipsInv, Rising, Awaits

LEMMA BlankRising ==
  ASSUME NEW g \in Nat
  PROVE  Rising(NewSlot(g)) /\ Rising(Vacated(g))
<1>1. Len(<<>>) = 0
  OBVIOUS
<1>2. /\ NewSlot(g).pending = <<>> /\ NewSlot(g).mips = 0
      /\ Vacated(g).pending = <<>> /\ Vacated(g).mips = 0
  BY DEF NewSlot, Vacated
<1>3. QED
  BY <1>1, <1>2 DEF Rising

\* begin_upload makes a handle live that no upload was submitted for.
LEMMA BeginMipsKeeps == ASSUME MipsInv, Begin PROVE MipsInv'
<1>1. SlotsInv /\ SlotsInv' /\ UNCHANGED <<completed, uploads>>
  BY BeginKeeps DEF MipsInv, Begin
<1>2. PICK s \in Allocatable(registry) : registry' = BeginUpload(registry, s)
  BY DEF Begin
<1>3. CASE s \in registry.free
  <2> DEFINE x == NewSlot(registry.slots[s].gen)
  <2>1. /\ s \in 1..Len(registry.slots) /\ registry.slots[s].phase = "vacant"
        /\ registry.slots[s].gen \in Nat
    BY <1>1, <1>3, SlotFacts DEF SlotsInv, TypeOK
  <2>2. registry'.slots = [registry.slots EXCEPT ![s] = x]
    BY <1>2, <1>3 DEF BeginUpload
  <2>3. x \in Slot /\ x.gen = registry.slots[s].gen /\ Rising(x)
    BY <2>1, SlotValues, BlankRising
  <2>4. ASSUME NEW u \in uploads, u.id.slot = s PROVE u.id.gen # x.gen
    BY <1>1, <2>1, <2>3, <2>4, UploadFacts DEF SlotsInv, IssuedKnown
  <2> HIDE DEF x
  <2>5. QED
    BY <1>1, <2>1, <2>2, <2>3, <2>4, MipsAtSlot
<1>4. CASE s \notin registry.free
  <2> DEFINE n == Len(registry.slots)
  <2>1. registry'.slots = Append(registry.slots, NewSlot(1))
    BY <1>2, <1>4 DEF BeginUpload
  <2>2. /\ Len(registry'.slots) = n + 1 /\ registry'.slots[n + 1] = NewSlot(1)
        /\ \A t \in 1..n : registry'.slots[t] = registry.slots[t]
        /\ n \in Nat /\ Rising(NewSlot(1))
    BY <1>1, <2>1, SlotFacts, SlotValues, AppendProperties, BlankRising
  <2>3. \A t \in 1..Len(registry'.slots) : Rising(registry'.slots[t])
    <3>1. ASSUME NEW t \in 1..Len(registry'.slots) PROVE t \in 1..n \/ t = n + 1
      BY <2>2
    <3>2. QED
      BY <2>2, <3>1 DEF MipsInv
  <2>4. ASSUME NEW u \in uploads, Live(registry', u.id)
        PROVE  u.token <= completed \/ Awaits(registry'.slots[u.id.slot], u)
    <3>1. u.id.slot \in 1..n
      BY <1>1, UploadFacts, HandleFacts
    <3>2. Live(registry, u.id) /\ registry'.slots[u.id.slot] = registry.slots[u.id.slot]
      BY <2>2, <2>4, <3>1 DEF Live
    <3>3. QED
      BY <3>2 DEF MipsInv
  <2>5. QED
    BY <1>1, <2>3, <2>4 DEF MipsInv, Rising, Awaits
<1>5. QED
  BY <1>3, <1>4

\* The first upload of a texture queues its first mip.
LEMMA FirstMipKeeps == ASSUME MipsInv, NEW id \in issued, Submit(id) PROVE MipsInv'
<1> DEFINE old == registry.slots[id.slot]
           one == [token |-> tokens + 1, mips |-> 1]
           x == [old EXCEPT !.phase = "uploading", !.pending = <<one>>]
<1>1. SlotsInv /\ SlotsInv' /\ UNCHANGED completed
  BY SubmitKeeps DEF MipsInv, Submit
<1>2. /\ id.slot \in 1..Len(registry.slots) /\ registry \in Registry /\ old \in Slot
      /\ tokens \in Nat
  BY <1>1, HandleFacts, HistoryFacts
<1>3. /\ old.gen = id.gen /\ old.phase = "allocated" /\ Live(registry, id)
  BY DEF Submit, CanMarkSubmitted, PhaseOf, Live
<1>4. old.mips = 0 /\ old.pending = <<>>
  BY <1>2, <1>3 DEF MipsInv, Rising
<1>5. one \in Upload /\ <<one>> \in Seq(Upload) /\ Len(<<one>>) = 1 /\ <<one>>[1] = one
  BY <1>2 DEF Upload
<1>6. x \in Slot /\ x.gen = id.gen /\ x.pending = <<one>> /\ x.mips = 0 /\ x.phase = "uploading"
  BY <1>2, <1>3, <1>4, <1>5 DEF Slot, Phases
<1>7. registry'.slots = [registry.slots EXCEPT ![id.slot] = x]
  BY <1>2 DEF Submit, MarkSubmitted, Registry
<1>8. Rising(x)
  BY <1>5, <1>6 DEF Rising
<1>9. /\ \A u \in uploads' : u.id.slot # id.slot => u \in uploads
  BY DEF Submit, UploadOf
<1>10. ASSUME NEW u \in uploads', u.id.slot = id.slot, u.id.gen = x.gen
       PROVE  u.token <= completed \/ Awaits(x, u)
  <2>1. CASE u = UploadOf(id, 1, tokens + 1)
    <3>1. u.token = one.token /\ u.mips = one.mips
      BY <2>1 DEF UploadOf
    <3> HIDE DEF one, x
    <3>2. QED
      BY <1>5, <1>6, <3>1 DEF Awaits
  <2>2. CASE u \in uploads
    <3>1. Live(registry, u.id)
      BY <1>3, <1>6, <1>10 DEF Live
    <3>2. ~Awaits(old, u)
      <4>1. Len(old.pending) = 0
        BY <1>4
      <4>2. QED
        BY <4>1 DEF Awaits
    <3>3. QED
      BY <1>10, <2>2, <3>1, <3>2 DEF MipsInv
  <2>3. QED
    BY <2>1, <2>2 DEF Submit
<1> HIDE DEF x
<1>11. QED
  BY <1>1, <1>2, <1>6, <1>7, <1>8, <1>9, <1>10, MipsAtSlot

LEMMA AppendFacts ==
  ASSUME NEW S, NEW q \in Seq(S), NEW e \in S
  PROVE  /\ Append(q, e) \in Seq(S) /\ Len(Append(q, e)) = Len(q) + 1
         /\ Append(q, e)[Len(q) + 1] = e
         /\ \A k \in 1..Len(q) : Append(q, e)[k] = q[k]
BY AppendProperties, LenProperties

\* Further mips queue behind those on their way, beyond the highest.
LEMMA MoreMipsKeeps ==
  ASSUME MipsInv, NEW id \in issued, NEW mips \in 1..MaxMips, SubmitMips(id, mips)
  PROVE  MipsInv'
<1> DEFINE old == registry.slots[id.slot]
           one == [token |-> tokens + 1, mips |-> mips]
           n == Len(old.pending)
           queue == Append(old.pending, one)
           x == [old EXCEPT !.phase = "uploading", !.pending = queue]
<1>1. SlotsInv /\ SlotsInv' /\ UNCHANGED completed
  BY SubmitMipsKeeps DEF MipsInv, SubmitMips
<1>2. /\ id.slot \in 1..Len(registry.slots) /\ registry \in Registry /\ old \in Slot
      /\ tokens \in Nat /\ mips \in Nat /\ old.pending \in Seq(Upload) /\ n \in Nat
      /\ old.mips \in Nat
  BY <1>1, HandleFacts, HistoryFacts, SlotFacts, RegistryBounds
<1>3. /\ old.gen = id.gen /\ old.phase \in {"uploading", "resident"} /\ mips > Highest(old)
      /\ Live(registry, id)
  BY DEF SubmitMips, CanMarkMips, PhaseOf, Live
<1>4. one \in Upload
  BY <1>2 DEF Upload
<1>5. /\ queue \in Seq(Upload) /\ Len(queue) = n + 1 /\ queue[n + 1] = one
      /\ \A k \in 1..n : queue[k] = old.pending[k]
  <2> HIDE DEF one, old
  <2>1. \A q \in Seq(Upload), e \in Upload :
          /\ Append(q, e) \in Seq(Upload) /\ Len(Append(q, e)) = Len(q) + 1
          /\ Append(q, e)[Len(q) + 1] = e
          /\ \A k \in 1..Len(q) : Append(q, e)[k] = q[k]
    BY AppendFacts
  <2>2. old.pending \in Seq(Upload) /\ one \in Upload
    BY <1>2, <1>4
  <2>3. QED
    BY <2>1, <2>2, Zenon
<1>6. /\ x \in Slot /\ x.gen = id.gen /\ x.pending = queue /\ x.mips = old.mips
      /\ x.phase = "uploading"
  BY <1>2, <1>3, <1>5 DEF Slot, Phases
<1>7. registry'.slots = [registry.slots EXCEPT ![id.slot] = x]
  BY <1>2 DEF SubmitMips, MarkMips, Registry
<1>8. Rising(old) /\ \A k \in 1..n : old.pending[k].mips \in Nat
  <2>1. \A k \in 1..n : old.pending[k] \in Upload
    BY <1>2, ElementOfSeq
  <2>2. \A up \in Upload : up.mips \in Nat
    BY DEF Upload
  <2>3. QED
    BY <1>2, <2>1, <2>2 DEF MipsInv
<1>9. old.mips < mips /\ \A k \in 1..n : old.pending[k].mips < mips
  <2>1. CASE n = 0
    <3>1. old.pending = <<>>
      BY <1>2, <2>1, EmptySeq
    <3>2. QED
      BY <1>2, <1>3, <2>1, <3>1 DEF Highest
  <2>2. CASE n > 0
    <3>1. old.pending # <<>> /\ n \in 1..n
      BY <1>2, <2>2
    <3>2. mips > old.pending[n].mips
      BY <1>3, <3>1 DEF Highest
    <3>3. ASSUME NEW k \in 1..n PROVE old.pending[k].mips <= old.pending[n].mips
      <4>1. k < n => old.pending[k].mips < old.pending[n].mips
        BY <1>8, <3>1 DEF Rising
      <4>2. k \in Nat /\ (k < n \/ k = n)
        BY <1>2
      <4>3. old.pending[k].mips \in Nat /\ old.pending[n].mips \in Nat
        BY <1>8, <3>1
      <4>4. QED
        BY <4>1, <4>2, <4>3
    <3>4. old.mips < old.pending[n].mips /\ old.pending[n].mips \in Nat
      BY <1>8, <3>1 DEF Rising
    <3>5. old.mips < mips
      BY <1>2, <3>2, <3>4
    <3>6. ASSUME NEW k \in 1..n PROVE old.pending[k].mips < mips
      <4>1. old.pending[k].mips <= old.pending[n].mips /\ old.pending[k].mips \in Nat
        BY <1>8, <3>3
      <4>2. QED
        BY <1>2, <3>2, <3>4, <4>1
    <3>7. QED
      BY <3>5, <3>6
  <2>3. QED
    BY <1>2, <2>1, <2>2
<1>10. one.mips = mips /\ one.token = tokens + 1
  OBVIOUS
<1>11. Rising(x)
  <2>1. ASSUME NEW k \in 1..(n + 1) PROVE old.mips < queue[k].mips
    BY <1>2, <1>5, <1>8, <1>9, <1>10, <2>1 DEF Rising
  <2>2. ASSUME NEW j \in 1..(n + 1), NEW k \in 1..(n + 1), j < k
        PROVE  queue[j].mips < queue[k].mips
    <3>1. j \in 1..n /\ queue[j] = old.pending[j]
      BY <1>2, <1>5, <2>2
    <3>2. CASE k \in 1..n
      BY <1>5, <1>8, <2>2, <3>1, <3>2 DEF Rising
    <3>3. CASE k = n + 1
      BY <1>5, <1>9, <1>10, <3>1, <3>3
    <3>4. k \in 1..n \/ k = n + 1
      <4>1. \A m \in Nat : \A i \in 1..(m + 1) : i \in 1..m \/ i = m + 1
        OBVIOUS
      <4> HIDE DEF n, old, one, queue, x
      <4>2. QED
        BY <1>2, <4>1
    <3>5. QED
      BY <3>2, <3>3, <3>4
  <2> HIDE DEF queue, x
  <2>3. QED
    BY <1>5, <1>6, <2>1, <2>2 DEF Rising
<1>12. \A u \in uploads' : u.id.slot # id.slot => u \in uploads
  BY DEF SubmitMips, UploadOf
<1>13. ASSUME NEW u \in uploads', u.id.slot = id.slot, u.id.gen = x.gen
       PROVE  u.token <= completed \/ Awaits(x, u)
  <2>1. CASE u = UploadOf(id, mips, tokens + 1)
    <3>1. u.token = one.token /\ u.mips = one.mips /\ n + 1 \in 1..(n + 1)
      BY <1>2, <2>1 DEF UploadOf
    <3> HIDE DEF one, queue, x, n
    <3>2. QED
      BY <1>5, <1>6, <3>1 DEF Awaits
  <2>2. CASE u \in uploads
    <3>1. Live(registry, u.id)
      BY <1>3, <1>6, <1>13 DEF Live
    <3>2. CASE Awaits(old, u)
      <4>1. PICK k \in 1..n : old.pending[k].token = u.token /\ old.pending[k].mips = u.mips
        BY <3>2 DEF Awaits
      <4>2. k \in 1..Len(x.pending) /\ x.pending[k] = old.pending[k]
        BY <1>2, <1>5, <1>6
      <4>3. QED
        BY <4>1, <4>2 DEF Awaits
    <3>3. QED
      BY <1>13, <2>2, <3>1, <3>2 DEF MipsInv
  <2>3. QED
    BY <2>1, <2>2 DEF SubmitMips
<1> HIDE DEF x
<1>14. QED
  BY <1>1, <1>2, <1>6, <1>7, <1>11, <1>12, <1>13, MipsAtSlot

\* Operations that leave what is on its way alone, or vacate the slot.
LEMMA RequireMips ==
  ASSUME MipsInv, NEW id \in issued, NEW mips \in 0..MaxMips, Require(id, mips)
  PROVE  MipsInv'
<1> DEFINE old == registry.slots[id.slot]
           x == [old EXCEPT !.required = mips]
<1>1. SlotsInv /\ SlotsInv' /\ UNCHANGED <<completed, uploads>>
  BY RequireKeeps DEF MipsInv, Require
<1>2. /\ id.slot \in 1..Len(registry.slots) /\ registry \in Registry /\ old \in Slot
      /\ mips \in Nat
  BY <1>1, HandleFacts, RegistryBounds
<1>3. Live(registry, id) /\ old.gen = id.gen /\ old.phase # "vacant"
  BY DEF Require, Live
<1>4. /\ x \in Slot /\ x.gen = old.gen /\ x.phase = old.phase /\ x.mips = old.mips
      /\ x.pending = old.pending
  BY <1>2 DEF Slot
<1>5. registry'.slots = [registry.slots EXCEPT ![id.slot] = x]
  BY <1>2 DEF Require, SetRequiredMips, Registry
<1>6. Rising(old)
  BY <1>2 DEF MipsInv
<1> HIDE DEF x
<1>7. Rising(x)
  BY <1>4, <1>6 DEF Rising
<1>8. ASSUME NEW u \in uploads, u.id.slot = id.slot, u.id.gen = x.gen
      PROVE  u.token <= completed \/ Awaits(x, u)
  <2>1. Live(registry, u.id)
    BY <1>3, <1>4, <1>8 DEF Live
  <2>2. u.token <= completed \/ Awaits(old, u)
    BY <1>8, <2>1 DEF MipsInv
  <2>3. QED
    BY <1>4, <2>2 DEF Awaits
<1>9. QED
  BY <1>1, <1>2, <1>4, <1>5, <1>7, <1>8, MipsAtSlot

LEMMA VacateMips ==
  ASSUME MipsInv, NEW id \in issued,
         Cancel(id) \/ RetireTexture(id) \/ UnloadTexture(id)
  PROVE  MipsInv'
<1> DEFINE x == Vacated(id.gen + 1)
<1>1. SlotsInv /\ SlotsInv' /\ UNCHANGED <<completed, uploads>>
  BY VacateKeeps DEF MipsInv, Cancel, RetireTexture, UnloadTexture
<1>2. registry \in Registry /\ id.slot \in 1..Len(registry.slots) /\ id.gen + 1 \in Nat
  BY <1>1, HandleFacts
<1>3. registry'.slots = [registry.slots EXCEPT ![id.slot] = x]
  BY <1>2 DEF Cancel, RetireTexture, UnloadTexture, Unload, CancelUpload, Retire, Registry
<1>4. x \in Slot /\ x.phase = "vacant" /\ Rising(x)
  BY <1>2, SlotValues, BlankRising
<1> HIDE DEF x
<1>5. QED
  BY <1>1, <1>2, <1>3, <1>4, MipsAtSlot

LEMMA SameSlotsMips ==
  ASSUME MipsInv, SlotsInv', registry'.slots = registry.slots, UNCHANGED <<completed, uploads>>
  PROVE  MipsInv'
<1>1. \A u \in uploads : Live(registry', u.id) <=> Live(registry, u.id)
  BY DEF Live
<1>2. QED
  BY <1>1 DEF MipsInv, Rising, Awaits

LEMMA ReleaseMips ==
  ASSUME MipsInv, NEW id \in issued, Release(id) PROVE MipsInv'
<1>1. SlotsInv /\ SlotsInv' /\ UNCHANGED <<completed, uploads>>
  BY ReleaseKeeps DEF MipsInv, Release
<1>2. registry'.slots = registry.slots
  BY <1>1 DEF SlotsInv, TypeOK, Release, ReleaseRetired, Registry
<1>3. QED
  BY <1>1, <1>2, SameSlotsMips

LEMMA ClearMips == ASSUME MipsInv, ClearAll PROVE MipsInv'
<1>1. SlotsInv /\ SlotsInv'
  BY ClearKeeps DEF MipsInv
<1>2. ASSUME NEW s \in 1..Len(registry.slots)
      PROVE  registry'.slots[s].phase = "vacant" /\ Rising(registry'.slots[s])
  <2>1. PICK g \in {registry.slots[s].gen, registry.slots[s].gen + 1} :
          registry'.slots[s] = Vacated(g)
    BY DEF ClearAll, Clear
  <2>2. g \in Nat
    BY <1>1, <2>1, SlotFacts DEF Slot
  <2>3. QED
    BY <2>1, <2>2, SlotValues, BlankRising
<1>3. Len(registry'.slots) = Len(registry.slots)
  BY <1>1, SlotFacts DEF ClearAll, Clear
<1>4. \A u \in uploads' : ~Live(registry', u.id)
  BY <1>2, <1>3 DEF Live
<1>5. QED
  BY <1>1, <1>2, <1>3, <1>4 DEF MipsInv, Rising

\* A poll publishes the mips it takes off the queue, which have all completed,
\* and leaves the others waiting beyond them.
LEMMA PolledSlotMips ==
  ASSUME NEW slot \in Slot, NEW c \in Nat, Rising(slot)
  PROVE  /\ Rising(PolledSlot(slot, c))
         /\ \A u \in uploads : Awaits(slot, u) /\ u.token \in Nat =>
              u.token <= c \/ Awaits(PolledSlot(slot, c), u)
<1>1. CASE slot.phase # "uploading"
  BY <1>1 DEF PolledSlot
<1>2. CASE slot.phase = "uploading"
  <2> DEFINE n == FirstIncomplete(slot, c) - 1
             m == Len(slot.pending)
             rest == SubSeq(slot.pending, n + 1, m)
             y == PolledSlot(slot, c)
  <2>1. slot.pending \in Seq(Upload) /\ m \in Nat /\ slot.mips \in Nat
    BY LenProperties DEF Slot
  <2>2. \A k \in 1..m : slot.pending[k].mips \in Nat /\ slot.pending[k].token \in Nat
    <3>1. \A k \in 1..m : slot.pending[k] \in Upload
      BY <2>1, ElementOfSeq
    <3>2. \A up \in Upload : up.mips \in Nat /\ up.token \in Nat
      BY DEF Upload
    <3>3. QED
      BY <3>1, <3>2
  <2>3. FirstIncomplete(slot, c) \in 1..(m + 1)
    BY FirstIncompleteExists
  <2>4. n \in 0..m
    BY <2>1, <2>3
  <2>5. \A k \in 1..n : slot.pending[k].token <= c
    <3> SUFFICES ASSUME NEW k \in 1..n, slot.pending[k].token > c PROVE FALSE
      BY <2>1, <2>2, <2>4
    <3>1. k \in Incomplete(slot, c)
      BY <2>1, <2>4 DEF Incomplete
    <3>2. Incomplete(slot, c) \in SUBSET Nat
      BY <2>1 DEF Incomplete
    <3>3. \E i \in Incomplete(slot, c) : \A j \in Incomplete(slot, c) : i <= j
      BY <3>1, <3>2, LeastNat
    <3>4. \A j \in Incomplete(slot, c) : FirstIncomplete(slot, c) <= j
      BY <3>3 DEF FirstIncomplete
    <3>5. QED
      BY <2>1, <2>3, <3>1, <3>4
  <2> HIDE DEF n
  <2>6. /\ Len(rest) = m - n /\ \A k \in 1..(m - n) : rest[k] = slot.pending[n + k]
    BY <2>1, <2>4, SubSeqProperties
  <2> HIDE DEF rest
  <2>8. /\ y.pending = rest
        /\ y.mips = IF n = 0 THEN slot.mips ELSE slot.pending[n].mips
        /\ y.phase # "allocated"
    BY <1>2 DEF PolledSlot, PolledBy, n, rest, Slot
  <2> HIDE DEF y
  <2>9. Rising(y)
    <3>1. ASSUME NEW k \in 1..(m - n) PROVE y.mips < rest[k].mips
      <4>1. n + k \in 1..m /\ rest[k] = slot.pending[n + k]
        BY <2>1, <2>4, <2>6
      <4>2. CASE n = 0
        BY <2>8, <4>1, <4>2 DEF Rising
      <4>3. CASE n # 0
        <5>1. n \in 1..m /\ n < n + k
          BY <2>1, <2>4, <4>3
        <5>2. slot.pending[n].mips < slot.pending[n + k].mips
          BY <4>1, <5>1 DEF Rising
        <5>3. QED
          BY <2>8, <4>1, <4>3, <5>2
      <4>4. QED
        BY <4>2, <4>3
    <3>2. ASSUME NEW j \in 1..(m - n), NEW k \in 1..(m - n), j < k
          PROVE  rest[j].mips < rest[k].mips
      <4>1. n + j \in 1..m /\ n + k \in 1..m /\ n + j < n + k
        BY <2>1, <2>4, <3>2
      <4>2. QED
        BY <2>6, <4>1 DEF Rising
    <3>3. QED
      BY <2>6, <2>8, <3>1, <3>2 DEF Rising
  <2>10. ASSUME NEW u \in uploads, Awaits(slot, u), u.token \in Nat, ~(u.token <= c)
         PROVE  Awaits(y, u)
    <3>1. PICK k \in 1..m : slot.pending[k].token = u.token /\ slot.pending[k].mips = u.mips
      BY <2>10 DEF Awaits
    <3>2. k \notin 1..n
      BY <2>5, <2>10, <3>1
    <3>3. k - n \in 1..(m - n) /\ n + (k - n) = k
      BY <2>1, <2>4, <3>2
    <3>4. rest[k - n] = slot.pending[k]
      BY <2>6, <3>3
    <3>5. QED
      BY <2>6, <2>8, <3>1, <3>3, <3>4 DEF Awaits
  <2>11. QED
    BY <2>9, <2>10 DEF y
<1>3. QED
  BY <1>1, <1>2

LEMMA PollMips == ASSUME MipsInv, PollCompleted PROVE MipsInv'
<1>1. SlotsInv /\ SlotsInv' /\ uploads' = uploads
  BY PollKeeps DEF MipsInv, PollCompleted
<1>2. completed \in Nat /\ completed' \in Nat /\ completed <= completed'
  BY <1>1, HistoryFacts DEF PollCompleted
<1>3. /\ Len(registry'.slots) = Len(registry.slots)
      /\ \A s \in 1..Len(registry.slots) :
           registry'.slots[s] = PolledSlot(registry.slots[s], completed')
  <2>1. registry'.slots = [s \in 1..Len(registry.slots) |->
                             PolledSlot(registry.slots[s], completed')]
    BY <1>1, SlotFacts DEF PollCompleted, Poll, Registry
  <2>2. QED
    BY <1>1, <2>1, SlotFacts
<1>4. ASSUME NEW s \in 1..Len(registry.slots)
      PROVE  /\ Rising(registry'.slots[s])
             /\ registry'.slots[s].gen = registry.slots[s].gen
             /\ registry'.slots[s].phase = "vacant" <=> registry.slots[s].phase = "vacant"
             /\ \A u \in uploads : Awaits(registry.slots[s], u) =>
                  u.token <= completed' \/ Awaits(registry'.slots[s], u)
  <2>1. registry.slots[s] \in Slot /\ Rising(registry.slots[s])
    BY <1>1, SlotFacts DEF MipsInv
  <2>2. registry'.slots[s] = PolledSlot(registry.slots[s], completed')
    BY <1>3
  <2>3. /\ registry'.slots[s].gen = registry.slots[s].gen
        /\ registry'.slots[s].phase = "vacant" <=> registry.slots[s].phase = "vacant"
    BY <1>2, <2>1, <2>2, PolledSlotKeeps
  <2>4. /\ Rising(registry'.slots[s])
        /\ \A u \in uploads : Awaits(registry.slots[s], u) /\ u.token \in Nat =>
             u.token <= completed' \/ Awaits(registry'.slots[s], u)
    BY <1>2, <2>1, <2>2, PolledSlotMips, Zenon
  <2>5. QED
    BY <1>1, <2>3, <2>4, UploadFacts
<1>5. ASSUME NEW u \in uploads, Live(registry', u.id)
      PROVE  u.token <= completed' \/ Awaits(registry'.slots[u.id.slot], u)
  <2>1. Live(registry, u.id) /\ u.id.slot \in 1..Len(registry.slots)
    BY <1>3, <1>4, <1>5 DEF Live
  <2>2. u.token <= completed \/ Awaits(registry.slots[u.id.slot], u)
    BY <2>1 DEF MipsInv
  <2>3. u.token \in Nat
    BY <1>1, UploadFacts
  <2>4. QED
    BY <1>2, <1>4, <2>1, <2>2, <2>3
<1>6. QED
  BY <1>1, <1>3, <1>4, <1>5 DEF MipsInv, Rising, Awaits

LEMMA InitMips == Init => MipsInv
<1> SUFFICES ASSUME Init PROVE MipsInv
  OBVIOUS
<1>1. Len(registry.slots) = 0 /\ uploads = {}
  BY DEF Init, NewRegistry
<1>2. QED
  BY <1>1, InitSlots DEF MipsInv

LEMMA StepMips == ASSUME MipsInv, [Next]_vars PROVE MipsInv'
<1>1. CASE Begin \/ PollCompleted \/ ClearAll
  BY <1>1, BeginMipsKeeps, PollMips, ClearMips
<1>2. ASSUME NEW id \in issued,
             Submit(id) \/ Cancel(id) \/ RetireTexture(id) \/ Release(id) \/ UnloadTexture(id)
      PROVE  MipsInv'
  BY <1>2, FirstMipKeeps, VacateMips, ReleaseMips
<1>3. ASSUME NEW id \in issued, NEW mips \in 1..MaxMips, SubmitMips(id, mips) PROVE MipsInv'
  BY <1>3, MoreMipsKeeps
<1>4. ASSUME NEW id \in issued, NEW mips \in 0..MaxMips, Require(id, mips) PROVE MipsInv'
  BY <1>4, RequireMips
<1>5. CASE UNCHANGED vars
  <2>1. SlotsInv'
    BY StepSlots DEF MipsInv
  <2>2. QED
    BY <1>5, <2>1, SameSlotsMips DEF vars
<1>6. QED
  BY <1>1, <1>2, <1>3, <1>4, <1>5 DEF Next

\* A mip counts as resident only once its transfer, and that of every coarser
\* mip submitted for the texture, has completed: whatever is cancelled, retired
\* or cleared, and however polls and submissions of mips interleave.
THEOREM ResidencyIsComplete == Spec => []ResidentMipsComplete
<1>1. ASSUME MipsInv PROVE ResidentMipsComplete
  <2> SUFFICES ASSUME NEW u \in uploads, Live(registry, u.id),
                      u.mips <= ResidentMips(registry, u.id)
               PROVE  u.token <= completed
    BY DEF ResidentMipsComplete
  <2> DEFINE slot == registry.slots[u.id.slot]
  <2>1. u.id.slot \in 1..Len(registry.slots) /\ u.mips <= slot.mips
    BY DEF Live, ResidentMips
  <2>2. slot.mips \in Nat /\ u.mips \in Nat /\ Rising(slot)
    BY <1>1, <2>1, SlotFacts, UploadFacts DEF MipsInv
  <2>3. ~Awaits(slot, u)
    <3> SUFFICES ASSUME NEW k \in 1..Len(slot.pending), slot.pending[k].mips = u.mips
                 PROVE FALSE
      BY DEF Awaits
    <3>1. slot.mips < u.mips
      BY <2>2 DEF Rising
    <3>2. QED
      BY <2>1, <2>2, <3>1
  <2>4. QED
    BY <1>1, <2>3 DEF MipsInv
<1>2. QED
  BY <1>1, InitMips, StepMips, PTL DEF Spec

=============================================================================
