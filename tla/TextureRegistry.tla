--------------------------- MODULE TextureRegistry ---------------------------
(***************************************************************************)
(* The generational texture registry as a state machine: its owner calls   *)
(* one operation of TextureSlots at a time, in any order, with any handle  *)
(* it was ever given; the transfer queue completes tokens in order.        *)
(*                                                                         *)
(* Textures and render targets share one registry, so a slot that is       *)
(* handed out twice gives two resources one descriptor.                    *)
(***************************************************************************)
EXTENDS TextureSlots

CONSTANTS
  MaxMips,     \* bound: levels of a mip chain
  MaxTokens    \* bound: transfer tokens issued in one behaviour

ASSUME RegistryBounds == MaxMips \in Nat \ {0} /\ MaxTokens \in Nat

VARIABLES
  registry,
  tokens, completed,   \* transfers submitted to, and completed by, the queue
  issued,              \* history: every handle begin_upload has returned
  withheld,            \* history: handles retired, their slot not released
  uploads              \* history: [id, mips, token] of every accepted upload

vars == <<registry, tokens, completed, issued, withheld, uploads>>

UploadOf(id, mips, token) == [id |-> id, mips |-> mips, token |-> token]

Init ==
  /\ registry = NewRegistry /\ tokens = 0 /\ completed = 0
  /\ issued = {} /\ withheld = {} /\ uploads = {}

Begin ==
  /\ \E s \in Allocatable(registry) :
       /\ registry' = BeginUpload(registry, s)
       /\ issued' = issued \cup {BegunId(registry, s)}
  /\ UNCHANGED <<tokens, completed, withheld, uploads>>

Submit(id) ==
  /\ tokens < MaxTokens /\ CanMarkSubmitted(registry, id)
  /\ tokens' = tokens + 1
  /\ registry' = MarkSubmitted(registry, id, tokens + 1)
  /\ uploads' = uploads \cup {UploadOf(id, 1, tokens + 1)}
  /\ UNCHANGED <<completed, issued, withheld>>

SubmitMips(id, mips) ==
  /\ tokens < MaxTokens /\ CanMarkMips(registry, id, mips)
  /\ tokens' = tokens + 1
  /\ registry' = MarkMips(registry, id, mips, tokens + 1)
  /\ uploads' = uploads \cup {UploadOf(id, mips, tokens + 1)}
  /\ UNCHANGED <<completed, issued, withheld>>

\* The queue completes some more transfers, and the owner polls.
PollCompleted ==
  /\ completed' \in completed..tokens
  /\ registry' = Poll(registry, completed')
  /\ UNCHANGED <<tokens, issued, withheld, uploads>>

Require(id, mips) ==
  /\ Live(registry, id)
  /\ registry' = SetRequiredMips(registry, id, mips)
  /\ UNCHANGED <<tokens, completed, issued, withheld, uploads>>

Cancel(id) ==
  /\ CanCancelUpload(registry, id)
  /\ registry' = CancelUpload(registry, id)
  /\ UNCHANGED <<tokens, completed, issued, withheld, uploads>>

RetireTexture(id) ==
  /\ CanRetire(registry, id)
  /\ registry' = Retire(registry, id)
  /\ withheld' = withheld \cup {id}
  /\ UNCHANGED <<tokens, completed, issued, uploads>>

Release(id) ==
  /\ CanReleaseRetired(registry, id)
  /\ registry' = ReleaseRetired(registry, id)
  /\ withheld' = withheld \ {id}
  /\ UNCHANGED <<tokens, completed, issued, uploads>>

UnloadTexture(id) ==
  /\ CanRetire(registry, id)
  /\ registry' = Unload(registry, id)
  /\ UNCHANGED <<tokens, completed, issued, withheld, uploads>>

ClearAll ==
  /\ CanClear(registry)
  /\ registry' = Clear(registry) /\ withheld' = {}
  /\ UNCHANGED <<tokens, completed, issued, uploads>>

Next ==
  \/ Begin \/ PollCompleted \/ ClearAll
  \/ \E id \in issued :
       \/ Submit(id) \/ Cancel(id) \/ RetireTexture(id) \/ Release(id)
       \/ UnloadTexture(id)
       \/ \E mips \in 1..MaxMips : SubmitMips(id, mips)
       \/ \E mips \in 0..MaxMips : Require(id, mips)

Spec == Init /\ [][Next]_vars

-----------------------------------------------------------------------------
\* Every slot, handle and pending upload is well formed, the free list holds
\* vacant slots only, and no more slots exist than the capacity.
TypeOK ==
  /\ registry \in Registry
  /\ Len(registry.slots) <= Capacity
  /\ \A s \in 1..Len(registry.slots) : registry.slots[s].gen \in 1..MaxGeneration
  /\ registry.free \subseteq {s \in 1..Len(registry.slots) :
                                registry.slots[s].phase = "vacant"}
  /\ tokens \in Nat /\ completed \in 0..tokens
  /\ issued \subseteq TextureId /\ withheld \subseteq issued
  /\ uploads \subseteq [id : issued, mips : Nat, token : Nat]

\* begin_upload never returns a handle it has returned before, whatever was
\* cancelled, retired, released, unloaded or cleared in between: a stale
\* handle can never name somebody else's texture.
FreshIds ==
  \A s \in Allocatable(registry) : BegunId(registry, s) \notin issued

\* A slot whose texture was retired stays out of reuse until its release, and
\* that release is never refused: the reclaim pass cannot get stuck on it.
WithheldHeld ==
  \A id \in withheld : id.slot \notin registry.free /\ CanReleaseRetired(registry, id)

\* A slot is released only for a handle it is withheld for.  (After clear, a
\* slot at its last generation is withheld for nobody and may come back.)
ReleasesWithheldOnly ==
  \A id \in issued \ withheld :
    CanReleaseRetired(registry, id) => registry.slots[id.slot].gen = MaxGeneration

\* No slot is lost: a slot that is neither live nor reusable is withheld for a
\* retired handle, or has used up its generations.
NoSlotLeaks ==
  \A s \in 1..Len(registry.slots) :
    \/ registry.slots[s].phase # "vacant"
    \/ s \in registry.free
    \/ \E id \in withheld : id.slot = s
    \/ registry.slots[s].gen = MaxGeneration

\* A mip counts as resident only when the transfers of it and of every coarser
\* mip have completed.
ResidentMipsComplete ==
  \A u \in uploads :
    Live(registry, u.id) /\ u.mips <= ResidentMips(registry, u.id)
      => u.token <= completed

=============================================================================
