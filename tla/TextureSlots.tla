---------------------------- MODULE TextureSlots ----------------------------
(***************************************************************************)
(* The operations of the generational texture registry                     *)
(* (ez-gfx-texture-manager/src/registry.rs) as operators on a registry     *)
(* value r: the slots created so far and the set of vacant, reusable ones. *)
(* An operation that fails in the code has a predicate CanX(r, ...) here    *)
(* and leaves the registry alone when it does not hold.                    *)
(*                                                                         *)
(* Slots are numbered from 1 (the code's index plus one); the stack order  *)
(* of the free list is abstracted to a set.  The requirement map is keyed  *)
(* by the current handle only, so a slot carries its own requirement.      *)
(***************************************************************************)
EXTENDS Integers, Sequences, FiniteSets

CONSTANTS
  Capacity,       \* most texture slots, and most descriptor bindings
  MaxGeneration   \* u32::MAX: the generation a slot cannot advance past

ASSUME RegistryAssumption ==
  Capacity \in Nat \ {0} /\ MaxGeneration \in Nat \ {0}

Phases == {"vacant", "allocated", "uploading", "resident"}
Upload == [token : Nat, mips : Nat]
Slot == [gen : Nat, phase : Phases, mips : Nat, pending : Seq(Upload),
         required : Nat]
Registry == [slots : Seq(Slot), free : SUBSET Nat]
TextureId == [slot : Nat, gen : Nat]

NewSlot(g) ==
  [gen |-> g, phase |-> "allocated", mips |-> 0, pending |-> <<>>,
   required |-> 1]
Vacated(g) == [NewSlot(g) EXCEPT !.phase = "vacant"]

NewRegistry == [slots |-> <<>>, free |-> {}]

\* The slots begin_upload may hand out: a vacant one, or else a new one.
Allocatable(r) ==
  IF r.free # {} THEN r.free
  ELSE IF Len(r.slots) < Capacity THEN {Len(r.slots) + 1} ELSE {}

\* begin_upload, with the slot it takes and the handle it returns.
BeginUpload(r, s) ==
  IF s \in r.free
  THEN [slots |-> [r.slots EXCEPT ![s] = NewSlot(r.slots[s].gen)],
        free |-> r.free \ {s}]
  ELSE [slots |-> Append(r.slots, NewSlot(1)), free |-> r.free]
BegunId(r, s) ==
  [slot |-> s, gen |-> IF s \in r.free THEN r.slots[s].gen ELSE 1]

\* A handle resolves while its slot still has its generation and a state.
Live(r, id) ==
  /\ id.slot \in 1..Len(r.slots)
  /\ r.slots[id.slot].gen = id.gen
  /\ r.slots[id.slot].phase # "vacant"
PhaseOf(r, id) == IF Live(r, id) THEN r.slots[id.slot].phase ELSE "vacant"

\* The initial upload: one coarse mip under its completion token.
CanMarkSubmitted(r, id) == PhaseOf(r, id) = "allocated"
MarkSubmitted(r, id, token) ==
  [r EXCEPT !.slots[id.slot].phase = "uploading",
            !.slots[id.slot].pending = <<[token |-> token, mips |-> 1]>>]

\* The highest mip count resident or on its way.
Highest(slot) ==
  IF slot.pending = <<>> THEN slot.mips
  ELSE slot.pending[Len(slot.pending)].mips

\* More mips queue behind the transfers in flight; targets only grow.
CanMarkMips(r, id, mips) ==
  /\ PhaseOf(r, id) \in {"uploading", "resident"}
  /\ mips > Highest(r.slots[id.slot])
MarkMips(r, id, mips, token) ==
  [r EXCEPT !.slots[id.slot].phase = "uploading",
            !.slots[id.slot].pending =
              Append(@, [token |-> token, mips |-> mips])]

\* poll: every slot retires the prefix of its queue that has completed, up to
\* the first transfer (or the end of the queue) that has not.
Incomplete(slot, completed) ==
  {i \in 1..(Len(slot.pending) + 1) :
     i <= Len(slot.pending) => slot.pending[i].token > completed}
\* Fault: the first completion publishes every mip on its way.
PolledToHighest(slot, n) ==
  LET rest == SubSeq(slot.pending, n + 1, Len(slot.pending)) IN
  [slot EXCEPT !.pending = rest,
               !.mips = IF n = 0 THEN @ ELSE Highest(slot),
               !.phase = IF rest = <<>> THEN "resident" ELSE @]
PolledBy(slot, n) ==
  LET rest == SubSeq(slot.pending, n + 1, Len(slot.pending)) IN
  [slot EXCEPT !.pending = rest,
               !.mips = IF n = 0 THEN @ ELSE slot.pending[n].mips,
               !.phase = IF rest = <<>> THEN "resident" ELSE @]
FirstIncomplete(slot, completed) ==
  CHOOSE i \in Incomplete(slot, completed) :
    \A j \in Incomplete(slot, completed) : i <= j
PolledSlot(slot, completed) ==
  IF slot.phase # "uploading" THEN slot
  ELSE PolledBy(slot, FirstIncomplete(slot, completed) - 1)
Poll(r, completed) ==
  [r EXCEPT !.slots = [s \in 1..Len(r.slots) |->
                         PolledSlot(r.slots[s], completed)]]

\* resident_mips: an error until the first mip is resident.
HasResidentMips(r, id) == Live(r, id) /\ r.slots[id.slot].mips > 0
ResidentMips(r, id) == r.slots[id.slot].mips

SetRequiredMips(r, id, n) == [r EXCEPT !.slots[id.slot].required = n]
RequiredMips(r, id) == r.slots[id.slot].required

\* Invalidates the handle; a slot at the last generation keeps its texture.
CanRetire(r, id) == Live(r, id) /\ id.gen < MaxGeneration
\* Fault: the generation stays.
RetireInPlace(r, id) == [r EXCEPT !.slots[id.slot] = Vacated(id.gen)]
\* Fault: the slot is free at once.
RetireFreeing(r, id) ==
  [r EXCEPT !.slots[id.slot] = Vacated(id.gen + 1), !.free = @ \cup {id.slot}]
Retire(r, id) == [r EXCEPT !.slots[id.slot] = Vacated(id.gen + 1)]

\* Rolls back an upload nothing has observed: the slot is free at once.
CanCancelUpload(r, id) ==
  CanRetire(r, id) /\ PhaseOf(r, id) \in {"allocated", "uploading"}
CancelUpload(r, id) ==
  [Retire(r, id) EXCEPT !.free = @ \cup {id.slot}]

\* unload: like cancel_upload, from any state.
Unload(r, id) == CancelUpload(r, id)

\* A withheld slot becomes reusable; only for the generation just retired.
\* (At the last generation the code's saturating sum is that generation.)
CanReleaseRetired(r, id) ==
  /\ id.slot \in 1..Len(r.slots) /\ id.slot \notin r.free
  /\ r.slots[id.slot].phase = "vacant"
  /\ r.slots[id.slot].gen = IF id.gen < MaxGeneration THEN id.gen + 1 ELSE id.gen
ReleaseRetired(r, id) == [r EXCEPT !.free = @ \cup {id.slot}]

\* clear: all or nothing; a slot at the last generation is never reused.
CanClear(r) ==
  \A s \in 1..Len(r.slots) :
    r.slots[s].phase # "vacant" => r.slots[s].gen < MaxGeneration
Clear(r) ==
  LET cleared == [s \in 1..Len(r.slots) |->
                    Vacated(IF r.slots[s].phase = "vacant"
                            THEN r.slots[s].gen ELSE r.slots[s].gen + 1)]
  IN [slots |-> cleared,
      free |-> {s \in 1..Len(r.slots) : cleared[s].gen # MaxGeneration}]
=============================================================================
