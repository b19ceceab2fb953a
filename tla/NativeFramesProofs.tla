------------------------- MODULE NativeFramesProofs -------------------------
(***************************************************************************)
(* What the operators of NativeFrames keep, for any number of slots,       *)
(* objects and values, and for the three backends.  The proofs of every    *)
(* machine that holds such a record use these lemmas.                      *)
(*                                                                         *)
(* Books relates a record f to the objects u[v] that each frame v uses and *)
(* to the objects r whose destruction was asked for.  That nothing is      *)
(* destroyed in use needs that a frame the GPU still runs sits in a slot,  *)
(* and that an object it uses and that was freed waits for that slot (or   *)
(* for a fence value no smaller).  That the completed value covers ended   *)
(* frames only needs that every value a slot holds is either running or no *)
(* later than what has ended (signaled).                                   *)
(***************************************************************************)
EXTENDS NativeFrames, WellFoundedInduction, TLAPS

DeferralOf(r) == [item : r, pending : SUBSET SlotIds, fence : Nat]

BooksType(r, values) ==
  [backend : Backends, cursor : SlotIds, slot : [SlotIds -> Nat],
   next : Nat \ {0}, last : Nat, completed : Nat,
   running : SUBSET values, signaled : Nat,
   deferred : SUBSET DeferralOf(r), destroyed : SUBSET r]

Typed(f, u, r) ==
  /\ f \in BooksType(r, DOMAIN u)
  /\ u = [v \in DOMAIN u |-> u[v]] /\ DOMAIN u \subseteq Nat \ {0}

\* Values follow each other in the order of submission.
Ordered(f) ==
  /\ f.signaled < f.next /\ f.last < f.next
  /\ f.completed <= f.signaled /\ f.completed <= f.last
  /\ f.last \in f.running \/ f.last <= f.signaled
  /\ \A s \in SlotIds :
       f.slot[s] <= f.last /\ (f.slot[s] \in f.running \/ f.slot[s] <= f.signaled)
  /\ \A v \in f.running : f.signaled < v /\ v <= f.last

\* A running frame sits in a slot, and uses nothing that was destroyed.
Seated(f, u) ==
  \A v \in f.running :
    /\ \E s \in SlotIds : f.slot[s] = v
    /\ u[v] \cap f.destroyed = {}

\* A deferred object waits for every running frame that uses it.
Awaits(f, u, d) ==
  \A v \in f.running :
    d.item \in u[v] =>
      IF f.backend = "dx12" THEN v <= d.fence
      ELSE \E s \in d.pending : f.slot[s] = v

Deferred(f, u, r) ==
  /\ f.destroyed \subseteq r
  /\ \A i \in r \ f.destroyed : \E d \in f.deferred : d.item = i
  /\ \A d, e \in f.deferred : d.item = e.item => d = e
  /\ \A d \in f.deferred :
       /\ d.item \in r \ f.destroyed
       /\ d.pending \subseteq InFlight(f)
       /\ d.fence < f.next
       /\ f.backend # "dx12" => d.pending # {}
       /\ Awaits(f, u, d)

Books(f, u, r) == Typed(f, u, r) /\ Ordered(f) /\ Seated(f, u) /\ Deferred(f, u, r)

-----------------------------------------------------------------------------
\* A bounded set of naturals that is not empty has a least and a greatest
\* element.
LEMMA LowestIs ==
  ASSUME NEW T \in SUBSET Nat, T # {}
  PROVE  Lowest(T) \in T /\ \A w \in T : Lowest(T) <= w
<1>1. PICK i \in T : \A j \in T : ~(<<j, i>> \in OpToRel(<, Nat))
  BY NatLessThanWellFounded, WFMin
<1>2. ASSUME NEW j \in T PROVE i <= j
  <2>1. ~(j < i)
    BY <1>1 DEF OpToRel
  <2>2. QED
    BY <2>1
<1>3. QED
  BY <1>2 DEF Lowest

LEMMA HighestIs ==
  ASSUME NEW T \in SUBSET Nat, T # {}, NEW n \in Nat, \A t \in T : t <= n
  PROVE  Highest(T) \in T /\ \A w \in T : w <= Highest(T)
<1> DEFINE B == {m \in Nat : \A t \in T : t <= m}
<1>1. Lowest(B) \in B /\ \A m \in B : Lowest(B) <= m
  BY LowestIs
<1>2. Lowest(B) \in T
  <2>1. SUFFICES ASSUME Lowest(B) \notin T PROVE FALSE
    OBVIOUS
  <2>2. PICK t \in T : TRUE
    OBVIOUS
  <2>3. \A w \in T : w <= Lowest(B) /\ w # Lowest(B)
    BY <1>1, <2>1
  <2>4. Lowest(B) - 1 \in B
    BY <1>1, <2>2, <2>3
  <2>5. QED
    BY <1>1, <2>4
<1>3. \A w \in T : w <= Lowest(B)
  BY <1>1
<1>4. QED
  BY <1>2, <1>3 DEF Highest

-----------------------------------------------------------------------------
\* Every operation of a backend keeps the books.

LEMMA DeferKeeps ==
  ASSUME NEW f, NEW u, NEW r, Books(f, u, r), NEW item, item \notin r
  PROVE  Books(Defer(f, item), u, r \cup {item})
<1> USE SlotsAssumption DEF Typed, BooksType
<1> DEFINE g == Defer(f, item)
           r1 == r \cup {item}
<1>t. Typed(f, u, r) /\ f.running \subseteq Nat
  BY DEF Books
<1>d. f.deferred \subseteq DeferralOf(r1) /\ f.destroyed \subseteq r1
  BY <1>t DEF DeferralOf
<1>1. ASSUME f.running = {}, g = [f EXCEPT !.destroyed = @ \cup {item}]
      PROVE  Books(g, u, r1)
  <2>1. Typed(g, u, r1)
    <3> HIDE DEF g
    <3>1. f.destroyed \cup {item} \subseteq r1
      BY <1>d
    <3>2. QED
      BY <1>1, <1>t, <1>d, <3>1
  <2>2. Ordered(g)
    BY <1>1, <1>t DEF Books, Ordered
  <2>3. Seated(g, u)
    BY <1>1, <1>t DEF Seated
  <2>4. Deferred(g, u, r1)
    BY <1>1, <1>t DEF Books, Deferred, Awaits, InFlight
  <2>5. QED
    BY <2>1, <2>2, <2>3, <2>4 DEF Books
<1>2. ASSUME NEW d0 \in DeferralOf(r1), g = [f EXCEPT !.deferred = @ \cup {d0}],
             d0.item = item, d0.pending \subseteq InFlight(f), d0.fence < f.next,
             f.backend # "dx12" => d0.pending # {}, Awaits(f, u, d0)
      PROVE  Books(g, u, r1)
  <2>1. Typed(g, u, r1)
    <3> HIDE DEF g
    <3>1. f.deferred \cup {d0} \subseteq DeferralOf(r1)
      BY <1>2, <1>d
    <3>2. QED
      BY <1>2, <1>t, <1>d, <3>1
  <2>2. Ordered(g)
    BY <1>2, <1>t DEF Books, Ordered
  <2>3. Seated(g, u)
    BY <1>2, <1>t DEF Books, Seated
  <2>4. Deferred(g, u, r1)
    <3>1. f.destroyed \subseteq r1 /\ item \in r1 \ f.destroyed
      BY <1>2 DEF Books, Deferred
    <3>2. \A i \in r1 \ f.destroyed : \E d \in g.deferred : d.item = i
      BY <1>2, <1>t DEF Books, Deferred
    <3>3. ASSUME NEW d \in g.deferred
          PROVE  /\ d.item \in r1 \ f.destroyed /\ d.pending \subseteq InFlight(f)
                 /\ d.fence < f.next /\ (f.backend # "dx12" => d.pending # {})
                 /\ Awaits(f, u, d)
      BY <1>2, <1>t, <3>1 DEF Books, Deferred
    <3>4. \A d : Awaits(g, u, d) = Awaits(f, u, d)
      BY <1>2, <1>t DEF Awaits
    <3>7. \A d, e \in g.deferred : d.item = e.item => d = e
      <4>1. \A d \in f.deferred : d.item # item
        BY DEF Books, Deferred
      <4>2. \A d, e \in f.deferred : d.item = e.item => d = e
        BY DEF Books, Deferred
      <4>3. QED
        BY <4>1, <4>2, <1>2, <1>t
    <3>5. InFlight(g) = InFlight(f) /\ g.destroyed = f.destroyed /\ g.next = f.next
            /\ g.backend = f.backend
      BY <1>2, <1>t DEF InFlight
    <3>6. QED
      BY <3>1, <3>2, <3>3, <3>4, <3>5, <3>7 DEF Deferred
  <2>5. QED
    BY <2>1, <2>2, <2>3, <2>4 DEF Books
<1>3. CASE f.backend = "dx12"
  <2>1. CASE f.next - 1 <= f.signaled
    <3>1. g = [f EXCEPT !.destroyed = @ \cup {item}]
      BY <1>3, <2>1 DEF Defer, DeferByFence, Destroy
    <3>2. f.running = {}
      BY <2>1, <1>t DEF Books, Ordered
    <3>3. QED
      BY <3>1, <3>2, <1>1
  <2>2. CASE ~(f.next - 1 <= f.signaled)
    <3> DEFINE d0 == [item |-> item, pending |-> {}, fence |-> f.next - 1]
    <3>1. g = [f EXCEPT !.deferred = @ \cup {d0}]
      BY <1>3, <2>2 DEF Defer, DeferByFence
    <3>2. d0 \in DeferralOf(r1) /\ d0.fence < f.next
      BY <1>t DEF DeferralOf
    <3>3. \A v \in f.running : v <= f.next - 1
      BY <1>t DEF Books, Ordered
    <3>4. Awaits(f, u, d0)
      BY <1>3, <3>3 DEF Awaits
    <3>5. QED
      BY <1>3, <3>1, <3>2, <3>4, <1>2
  <2>3. QED
    BY <2>1, <2>2
<1>4. CASE f.backend # "dx12"
  <2>0. \A v \in f.running : \E s \in InFlight(f) : f.slot[s] = v
    BY <1>t DEF Books, Seated, InFlight
  <2>1. CASE InFlight(f) = {}
    <3>1. g = [f EXCEPT !.destroyed = @ \cup {item}]
      BY <1>4, <2>1 DEF Defer, DeferBySlots, Destroy
    <3>2. QED
      BY <2>0, <2>1, <3>1, <1>1
  <2>2. CASE InFlight(f) # {}
    <3> DEFINE d0 == [item |-> item, pending |-> InFlight(f), fence |-> 0]
    <3>1. g = [f EXCEPT !.deferred = @ \cup {d0}]
      BY <1>4, <2>2 DEF Defer, DeferBySlots
    <3>2. d0 \in DeferralOf(r1)
      BY DEF DeferralOf, InFlight
    <3>3. Awaits(f, u, d0)
      BY <1>4, <2>0 DEF Awaits
    <3>4. d0.item = item /\ d0.pending = InFlight(f) /\ d0.fence < f.next
      BY <1>t
    <3> HIDE DEF d0
    <3>5. QED
      BY <2>2, <3>1, <3>2, <3>3, <3>4, <1>2
  <2>3. QED
    BY <2>1, <2>2
<1>5. QED
  BY <1>3, <1>4

LEMMA CompleteKeeps ==
  ASSUME NEW f, NEW u, NEW r, Books(f, u, r), f.backend # "dx12",
         NEW slots \in SUBSET SlotIds, \A s \in slots : Finished(f, s)
  PROVE  /\ Books(CompleteSlots(f, slots), u, r)
         /\ CompleteSlots(f, slots).running = f.running
         /\ CompleteSlots(f, slots).slot =
              [s \in SlotIds |-> IF s \in slots THEN 0 ELSE f.slot[s]]
         /\ \A k \in {"backend", "cursor", "next", "last", "signaled"} :
              CompleteSlots(f, slots)[k] = f[k]
<1> USE SlotsAssumption DEF Typed, BooksType
<1> DEFINE g == CompleteSlots(f, slots)
           ready == {d \in f.deferred : d.pending \subseteq slots}
           values == {f.completed} \cup {f.slot[s] : s \in slots}
<1>t. Typed(f, u, r) /\ f.running \subseteq Nat
  BY DEF Books
<1>h. values \in SUBSET Nat /\ values # {} /\ \A v \in values : v <= f.last /\ v <= f.signaled
  BY <1>t DEF Books, Ordered, Finished
<1>m. Highest(values) \in values
  BY <1>t, <1>h, HighestIs
<1>g. g = [f EXCEPT
        !.slot = [s \in SlotIds |-> IF s \in slots THEN 0 ELSE f.slot[s]],
        !.completed = Highest(values),
        !.deferred = {[d EXCEPT !.pending = d.pending \ slots] : d \in f.deferred \ ready},
        !.destroyed = f.destroyed \cup {d.item : d \in ready}]
  BY DEF CompleteSlots
<1> DEFINE Cleared(d) == [d EXCEPT !.pending = d.pending \ slots]
<1>p. /\ g.deferred = {Cleared(d) : d \in f.deferred \ ready}
      /\ g.destroyed = f.destroyed \cup {d.item : d \in ready}
      /\ g.slot = [s \in SlotIds |-> IF s \in slots THEN 0 ELSE f.slot[s]]
      /\ g.running = f.running /\ g.backend = f.backend /\ g.cursor = f.cursor
      /\ g.next = f.next /\ g.last = f.last /\ g.signaled = f.signaled
      /\ g.completed = Highest(values)
  BY <1>g, <1>t
<1>e. \A d \in f.deferred :
        /\ Cleared(d) \in DeferralOf(r)
        /\ Cleared(d).item = d.item
        /\ Cleared(d).pending = d.pending \ slots
        /\ Cleared(d).fence = d.fence
  BY <1>t DEF DeferralOf
<1> HIDE DEF g, values, Cleared
<1>1. Typed(g, u, r)
  <2>1. g.deferred \subseteq DeferralOf(r)
    BY <1>p, <1>e
  <2>2. g.destroyed \subseteq r
    BY <1>g, <1>t DEF DeferralOf
  <2>3. Highest(values) \in Nat
    BY <1>m, <1>h
  <2>4. QED
    BY <1>g, <1>t, <2>1, <2>2, <2>3
<1>2. Ordered(g)
  BY <1>g, <1>t, <1>h, <1>m DEF Books, Ordered
<1>3. ASSUME NEW v \in f.running, NEW s \in SlotIds, f.slot[s] = v
      PROVE  s \notin slots /\ g.slot[s] = v
  BY <1>3, <1>g, <1>t DEF Finished
<1>4. ASSUME NEW d \in ready, NEW v \in f.running
      PROVE  d.item \notin u[v]
  BY <1>3 DEF Books, Deferred, Awaits
<1>5. Seated(g, u)
  BY <1>g, <1>t, <1>3, <1>4 DEF Books, Seated
<1>6. Deferred(g, u, r)
  <2>1. g.destroyed \subseteq r
    BY <1>g, <1>t DEF Books, Deferred
  <2>2. ASSUME NEW i \in r \ g.destroyed PROVE \E e \in g.deferred : e.item = i
    <3>1. PICK d \in f.deferred : d.item = i
      BY <1>g, <1>t DEF Books, Deferred
    <3>2. d \notin ready
      BY <3>1, <1>g, <1>t
    <3>3. QED
      BY <3>1, <3>2, <1>p, <1>e
  <2>3. ASSUME NEW e \in g.deferred
        PROVE  /\ e.item \in r \ g.destroyed
               /\ e.pending \subseteq InFlight(g)
               /\ e.fence < g.next
               /\ g.backend # "dx12" => e.pending # {}
               /\ Awaits(g, u, e)
    <3>1. PICK d \in f.deferred \ ready : e = Cleared(d)
      BY <1>p
    <3>2. /\ e.item = d.item /\ e.pending = d.pending \ slots /\ e.fence = d.fence
          /\ d.pending \in SUBSET InFlight(f) /\ d.item \in r \ f.destroyed
          /\ d.fence < f.next /\ Awaits(f, u, d)
      BY <3>1, <1>e DEF Books, Deferred
    <3>3. e.item \in r \ g.destroyed
      <4>1. ASSUME NEW x \in ready PROVE x.item # d.item
        <5>1. \A d1, d2 \in f.deferred : d1.item = d2.item => d1 = d2
          BY DEF Books, Deferred
        <5>2. QED
          BY <5>1, <3>1
      <4>2. QED
        BY <4>1, <3>2, <1>g, <1>t
    <3>4. e.pending \subseteq InFlight(g)
      BY <3>2, <1>g, <1>t DEF InFlight
    <3>5. e.pending # {}
      BY <3>1, <3>2
    <3>6. ASSUME NEW v \in f.running, e.item \in u[v]
          PROVE  \E s \in e.pending : g.slot[s] = v
      <4>1. PICK s \in d.pending : f.slot[s] = v
        BY <3>2, <3>6 DEF Awaits
      <4>2. s \in SlotIds
        BY <3>2 DEF InFlight
      <4>3. QED
        BY <4>1, <4>2, <3>2, <1>3
    <3>7. Awaits(g, u, e)
      BY <3>6, <1>p DEF Awaits
    <3>8. QED
      BY <3>2, <3>3, <3>4, <3>5, <3>7, <1>p
  <2>4. \A e1, e2 \in g.deferred : e1.item = e2.item => e1 = e2
    <3>1. \A d1, d2 \in f.deferred : d1.item = d2.item => d1 = d2
      BY DEF Books, Deferred
    <3>2. QED
      BY <3>1, <1>p, <1>e
  <2>5. QED
    BY <2>1, <2>2, <2>3, <2>4 DEF Deferred
<1>7. Books(g, u, r)
  BY <1>1, <1>2, <1>5, <1>6 DEF Books
<1>8. QED
  BY <1>7, <1>p DEF g

LEMMA ReclaimKeeps ==
  ASSUME NEW f, NEW u, NEW r, Books(f, u, r), f.backend = "dx12"
  PROVE  /\ Books(ReclaimDeferred(f), u, r)
         /\ \A k \in {"backend", "cursor", "slot", "next", "last", "running", "signaled"} :
              ReclaimDeferred(f)[k] = f[k]
<1> USE SlotsAssumption DEF Typed, BooksType
<1> DEFINE g == ReclaimDeferred(f)
           ready == {d \in f.deferred : d.fence <= f.signaled}
<1>t. Typed(f, u, r) /\ f.running \subseteq Nat
  BY DEF Books
<1>g. g = [f EXCEPT !.deferred = f.deferred \ ready,
                    !.destroyed = f.destroyed \cup {d.item : d \in ready}]
  BY DEF ReclaimDeferred
<1> HIDE DEF g
<1>p. /\ g.deferred = f.deferred \ ready
      /\ g.destroyed = f.destroyed \cup {d.item : d \in ready}
      /\ g.slot = f.slot /\ g.running = f.running /\ g.backend = f.backend
      /\ g.cursor = f.cursor /\ g.next = f.next /\ g.last = f.last
      /\ g.signaled = f.signaled /\ g.completed = f.completed
  BY <1>g, <1>t
<1>1. Typed(g, u, r)
  <2>1. g.deferred \subseteq DeferralOf(r)
    BY <1>p, <1>t
  <2>2. g.destroyed \subseteq r
    BY <1>p, <1>t DEF DeferralOf
  <2>3. QED
    BY <1>g, <1>p, <1>t, <2>1, <2>2
<1>2. Ordered(g)
  BY <1>p DEF Books, Ordered
<1>3. ASSUME NEW d \in ready, NEW v \in f.running
      PROVE  d.item \notin u[v]
  <2>1. f.signaled < v /\ d.fence <= f.signaled /\ d.fence \in Nat
    BY <1>t DEF Books, Ordered, DeferralOf
  <2>2. d.item \in u[v] => v <= d.fence
    BY DEF Books, Deferred, Awaits
  <2>3. QED
    BY <2>1, <2>2, <1>t
<1>4. Seated(g, u)
  BY <1>p, <1>3 DEF Books, Seated
<1>5. Deferred(g, u, r)
  <2>1. g.destroyed \subseteq r
    BY <1>p DEF Books, Deferred
  <2>2. \A i \in r \ g.destroyed : \E e \in g.deferred : e.item = i
    BY <1>p DEF Books, Deferred
  <2>3. \A d, e \in g.deferred : d.item = e.item => d = e
    BY <1>p DEF Books, Deferred
  <2>4. ASSUME NEW d \in g.deferred
        PROVE  /\ d.item \in r \ g.destroyed
               /\ d.pending \subseteq InFlight(g)
               /\ d.fence < g.next
               /\ g.backend # "dx12" => d.pending # {}
               /\ Awaits(g, u, d)
    <3>1. /\ d.item \in r \ f.destroyed /\ d.pending \subseteq InFlight(f)
          /\ d.fence < f.next /\ Awaits(f, u, d)
      BY <1>p DEF Books, Deferred
    <3>2. \A e \in ready : e.item # d.item
      <4>1. \A d1, d2 \in f.deferred : d1.item = d2.item => d1 = d2
        BY DEF Books, Deferred
      <4>2. QED
        BY <4>1, <1>p
    <3>3. QED
      BY <3>1, <3>2, <1>p DEF InFlight, Awaits
  <2>5. QED
    BY <2>1, <2>2, <2>3, <2>4 DEF Deferred
<1>6. QED
  BY <1>1, <1>2, <1>4, <1>5, <1>p DEF Books, g

LEMMA AdvancedKeeps ==
  ASSUME NEW f, NEW u, NEW r, Books(f, u, r)
  PROVE  /\ Books(Advanced(f), u, r)
         /\ \A k \in {"backend", "slot", "next", "last", "running", "signaled"} :
              Advanced(f)[k] = f[k]
<1> USE SlotsAssumption DEF Typed, BooksType
<1> DEFINE g == Advanced(f)
<1>t. Typed(f, u, r)
  BY DEF Books
<1>1. (f.cursor + 1) % Slots \in SlotIds
  BY <1>t DEF SlotIds
<1>g. g = [f EXCEPT !.cursor = (f.cursor + 1) % Slots]
  BY DEF Advanced
<1> HIDE DEF g
<1>p. /\ g.deferred = f.deferred /\ g.destroyed = f.destroyed
      /\ g.slot = f.slot /\ g.running = f.running /\ g.backend = f.backend
      /\ g.next = f.next /\ g.last = f.last
      /\ g.signaled = f.signaled /\ g.completed = f.completed
  BY <1>g, <1>t
<1>2. Typed(g, u, r)
  BY <1>g, <1>t, <1>1
<1>3. Ordered(g) /\ Seated(g, u) /\ Deferred(g, u, r)
  BY <1>p DEF Books, Ordered, Seated, Deferred, Awaits, InFlight
<1>4. QED
  BY <1>2, <1>3, <1>p DEF Books, g

\* The slot at the cursor is ready for a new frame.
LEMMA PrepareKeeps ==
  ASSUME NEW f, NEW u, NEW r, Books(f, u, r), CanPrepare(f)
  PROVE  /\ Books(Prepare(f), u, r)
         /\ \A k \in {"backend", "next", "last", "running", "signaled"} :
              Prepare(f)[k] = f[k]
         /\ Finished(Prepare(f), f.cursor)
         /\ f.backend # "dx12" => Prepare(f).slot[f.cursor] = 0
<1>t. f.cursor \in SlotIds /\ f.slot \in [SlotIds -> Nat] /\ f.running \subseteq Nat \ {0}
  BY DEF Books, Typed, BooksType
<1>1. CASE f.backend = "dx12"
  <2>1. Prepare(f) = ReclaimDeferred(Advanced(f))
    BY <1>1 DEF Prepare, PrepareByFence
  <2>2. Books(Advanced(f), u, r) /\ Advanced(f).backend = "dx12"
    BY <1>1, AdvancedKeeps
  <2>3. QED
    BY <1>1, <2>1, <2>2, AdvancedKeeps, ReclaimKeeps DEF CanPrepare, Finished
<1>2. CASE f.backend # "dx12" /\ f.slot[f.cursor] # 0
  <2> DEFINE c == CompleteSlots(f, {f.cursor})
  <2>1. Prepare(f) = Advanced(c)
    BY <1>2 DEF Prepare, PrepareBySlot
  <2>2. /\ Books(c, u, r) /\ c.running = f.running
        /\ c.slot = [s \in SlotIds |-> IF s \in {f.cursor} THEN 0 ELSE f.slot[s]]
        /\ \A k \in {"backend", "cursor", "next", "last", "signaled"} : c[k] = f[k]
    <3>1. {f.cursor} \in SUBSET SlotIds /\ \A s \in {f.cursor} : Finished(f, s)
      BY <1>t DEF CanPrepare
    <3>2. QED
      BY <1>2, <3>1, CompleteKeeps
  <2> HIDE DEF c
  <2>3. QED
    BY <1>t, <2>1, <2>2, AdvancedKeeps DEF Finished
<1>3. CASE f.backend # "dx12" /\ f.slot[f.cursor] = 0
  <2>1. Prepare(f) = Advanced(f)
    BY <1>3 DEF Prepare, PrepareBySlot
  <2>2. QED
    BY <1>3, <2>1, AdvancedKeeps DEF CanPrepare, Finished
<1>4. QED
  BY <1>1, <1>2, <1>3

LEMMA RefusedKeeps ==
  ASSUME NEW f, NEW u, NEW r, Books(f, u, r), CanPrepare(f)
  PROVE  Books(Refused(f), u, r)
<1> USE SlotsAssumption DEF Typed, BooksType
<1> DEFINE p == Prepare(f)
           g == [p EXCEPT !.next = p.next + 1]
<1>b. Books(p, u, r)
  BY PrepareKeeps
<1> HIDE DEF p
<1>t. Typed(p, u, r)
  BY <1>b DEF Books
<1>p. /\ g.deferred = p.deferred /\ g.destroyed = p.destroyed
      /\ g.slot = p.slot /\ g.running = p.running /\ g.backend = p.backend
      /\ g.next = p.next + 1 /\ g.last = p.last
      /\ g.signaled = p.signaled /\ g.completed = p.completed
  BY <1>t
<1>1. Typed(g, u, r)
  BY <1>t
<1> HIDE DEF g
<1>2. Ordered(g)
  BY <1>p, <1>b, <1>t DEF Books, Ordered
<1>3. Seated(g, u)
  BY <1>p, <1>b, <1>t DEF Books, Seated
<1>4. Deferred(g, u, r)
  <2>1. \A d \in g.deferred : d.fence < g.next
    BY <1>p, <1>b, <1>t DEF Books, Deferred, DeferralOf
  <2>2. QED
    BY <2>1, <1>p, <1>b DEF Books, Deferred, Awaits, InFlight
<1>5. Books(g, u, r)
  BY <1>1, <1>2, <1>3, <1>4 DEF Books
<1>6. QED
  BY <1>5, <1>b DEF Refused, p, g

LEMMA SubmittedKeeps ==
  ASSUME NEW f, NEW u, NEW r, Books(f, u, r), CanPrepare(f), f.next \in DOMAIN u,
         NEW used, used \cap r = {}
  PROVE  /\ Books(Submitted(f), [u EXCEPT ![f.next] = used], r)
         /\ Submitted(f).backend = f.backend
         /\ Submitted(f).cursor \in SlotIds
         /\ Submitted(f).slot[f.cursor] = f.next
         /\ Submitted(f).last = f.next
<1> USE SlotsAssumption DEF Typed, BooksType
<1> DEFINE p == Prepare(f)
           g == Submitted(f)
           u1 == [u EXCEPT ![f.next] = used]
           c == f.cursor
<1>b. /\ Books(p, u, r) /\ Finished(p, c) /\ p.backend = f.backend
      /\ p.next = f.next /\ p.last = f.last /\ p.running = f.running
      /\ p.signaled = f.signaled
      /\ (f.backend # "dx12" => p.slot[c] = 0)
  BY PrepareKeeps
<1>c. c \in SlotIds
  BY DEF Books
<1>g. g = [p EXCEPT !.slot = [p.slot EXCEPT ![c] = p.next], !.next = p.next + 1,
                    !.last = p.next, !.running = p.running \cup {p.next}]
  BY DEF Submitted
<1> HIDE DEF p, g, c
<1>t. Typed(p, u, r) /\ p.running \subseteq Nat \ {0} /\ p.next \in Nat \ {0}
  BY <1>b DEF Books
<1>p. /\ g.deferred = p.deferred /\ g.destroyed = p.destroyed
      /\ g.slot = [p.slot EXCEPT ![c] = p.next] /\ g.running = p.running \cup {p.next}
      /\ g.backend = p.backend /\ g.cursor = p.cursor
      /\ g.next = p.next + 1 /\ g.last = p.next
      /\ g.signaled = p.signaled /\ g.completed = p.completed
  BY <1>g, <1>t
<1>f. \A v \in p.running : v # p.next /\ u1[v] = u[v]
  BY <1>b, <1>t DEF Books, Ordered
<1>u. u1[p.next] = used /\ u1 = [v \in DOMAIN u1 |-> u1[v]] /\ DOMAIN u1 = DOMAIN u
  BY <1>b, <1>t
<1> HIDE DEF u1
<1>1. Typed(g, u1, r)
  <2>1. g.slot \in [SlotIds -> Nat] /\ g.running \in SUBSET DOMAIN u
    BY <1>p, <1>t, <1>b
  <2>2. g.next \in Nat \ {0} /\ g.last \in Nat
    BY <1>p, <1>t
  <2>3. QED
    BY <1>g, <1>p, <1>t, <1>u, <2>1, <2>2
<1>2. Ordered(g)
  <2>1. \A s \in SlotIds : g.slot[s] = IF s = c THEN p.next ELSE p.slot[s]
    BY <1>p, <1>t
  <2>2. QED
    BY <2>1, <1>p, <1>t, <1>b DEF Books, Ordered
<1>s. ASSUME NEW v \in p.running, NEW s \in SlotIds, p.slot[s] = v
      PROVE  s # c /\ g.slot[s] = v
  BY <1>s, <1>b, <1>p, <1>t, <1>c DEF Finished
<1>3. Seated(g, u1)
  <2>1. ASSUME NEW v \in p.running
        PROVE  (\E s \in SlotIds : g.slot[s] = v) /\ u1[v] \cap g.destroyed = {}
    BY <1>s, <1>f, <1>b, <1>p DEF Books, Seated
  <2>2. g.slot[c] = p.next /\ u1[p.next] \cap g.destroyed = {}
    BY <1>u, <1>p, <1>c, <1>t, <1>b DEF Books, Deferred
  <2>3. QED
    BY <2>1, <2>2, <1>p, <1>c DEF Seated
<1>4. Deferred(g, u1, r)
  <2>1. ASSUME NEW d \in p.deferred
        PROVE  /\ d.pending \subseteq InFlight(g)
               /\ d.fence < g.next
               /\ Awaits(g, u1, d)
    <3>1. /\ d.pending \in SUBSET InFlight(p) /\ d.fence < p.next /\ Awaits(p, u, d)
          /\ d.item \in r /\ d.fence \in Nat
      BY <1>b, <1>t DEF Books, Deferred, DeferralOf
    <3>2. d.pending \subseteq InFlight(g)
      BY <3>1, <1>p, <1>t, <1>c DEF InFlight
    <3>3. d.item \notin u1[p.next]
      BY <3>1, <1>u
    <3>4. ASSUME NEW v \in p.running, d.item \in u1[v]
          PROVE IF g.backend = "dx12" THEN v <= d.fence
                ELSE \E s \in d.pending : g.slot[s] = v
      <4>1. IF p.backend = "dx12" THEN v <= d.fence
            ELSE \E s \in d.pending : p.slot[s] = v
        BY <3>1, <3>4, <1>f DEF Awaits
      <4>2. d.pending \subseteq SlotIds
        BY <3>1 DEF InFlight
      <4>3. QED
        BY <4>1, <4>2, <1>s, <1>p
    <3>5. Awaits(g, u1, d)
      BY <3>3, <3>4, <1>p DEF Awaits
    <3>6. QED
      BY <3>1, <3>2, <3>5, <1>p, <1>t
  <2>2. QED
    BY <2>1, <1>p, <1>b DEF Books, Deferred
<1>5. Books(g, u1, r)
  BY <1>1, <1>2, <1>3, <1>4 DEF Books
<1>6. g.cursor \in SlotIds /\ g.slot[c] = p.next
  BY <1>p, <1>t, <1>c
<1>7. QED
  BY <1>5, <1>6, <1>p, <1>b DEF g, u1, c

LEMMA DrainedKeeps ==
  ASSUME NEW f, NEW u, NEW r, Books(f, u, r)
  PROVE  /\ Books(Drained(f), u, r)
         /\ Drained(f).running = {}
         /\ \A k \in {"backend", "cursor", "slot", "next", "last", "completed",
                      "deferred", "destroyed"} : Drained(f)[k] = f[k]
         /\ f.last <= Drained(f).signaled
<1> USE SlotsAssumption DEF Typed, BooksType
<1> DEFINE g == Drained(f)
           T == {f.signaled} \cup f.running
<1>t. Typed(f, u, r) /\ f.running \subseteq Nat
  BY DEF Books
<1>h. T \in SUBSET Nat /\ T # {} /\ \A v \in T : v <= f.next - 1
  BY <1>t DEF Books, Ordered
<1>n. f.next - 1 \in Nat
  BY <1>t
<1>m. Highest(T) \in T /\ \A v \in T : v <= Highest(T)
  BY <1>h, <1>n, HighestIs
<1>g. g = [f EXCEPT !.running = {}, !.signaled = Highest(T)]
  BY DEF Drained
<1> HIDE DEF g
<1>p. /\ g.deferred = f.deferred /\ g.destroyed = f.destroyed
      /\ g.slot = f.slot /\ g.running = {} /\ g.backend = f.backend
      /\ g.cursor = f.cursor /\ g.next = f.next /\ g.last = f.last
      /\ g.signaled = Highest(T) /\ g.completed = f.completed
  BY <1>g, <1>t
<1> DEFINE H == Highest(T)
<1>k. H \in Nat /\ H < f.next /\ f.signaled <= H /\ \A v \in f.running : v <= H
  <2>1. H \in Nat /\ H <= f.next - 1 /\ f.next \in Nat
    BY <1>m, <1>h, <1>t
  <2>2. QED
    BY <2>1, <1>m
<1> HIDE DEF H, T
<1>1. Typed(g, u, r)
  <2>1. {} \subseteq DOMAIN u
    OBVIOUS
  <2>2. g \in BooksType(r, DOMAIN u)
    BY <1>g, <1>t, <1>k, <2>1 DEF H
  <2>3. QED
    BY <1>t, <2>2
<1>o. /\ f.completed <= f.signaled /\ f.last < f.next /\ f.completed <= f.last
      /\ f.last \in f.running \/ f.last <= f.signaled
      /\ \A s \in SlotIds :
           f.slot[s] <= f.last /\ (f.slot[s] \in f.running \/ f.slot[s] <= f.signaled)
  BY DEF Books, Ordered
<1>l. f.last <= H /\ f.completed <= H
  BY <1>o, <1>k, <1>t
<1>s. \A s \in SlotIds : f.slot[s] <= H
  BY <1>o, <1>k, <1>t
<1>2. Ordered(g)
  BY <1>p, <1>k, <1>o, <1>l, <1>s DEF Ordered, H
<1>3. Seated(g, u) /\ Deferred(g, u, r)
  BY <1>p DEF Books, Seated, Deferred, Awaits, InFlight
<1>4. QED
  BY <1>1, <1>2, <1>3, <1>p, <1>l DEF Books, g, H

LEMMA ReadBackKeeps ==
  ASSUME NEW f, NEW u, NEW r, Books(f, u, r), CanPrepare(f), f.next \in DOMAIN u,
         NEW used, used \cap r = {}
  PROVE  Books(ReadBack(f), [u EXCEPT ![f.next] = used], r)
<1> USE SlotsAssumption DEF Typed, BooksType
<1> DEFINE u1 == [u EXCEPT ![f.next] = used]
           b == Submitted(f)
           s == Drained(b)
           c == f.cursor
<1>b. Books(b, u1, r) /\ b.backend = f.backend /\ b.last = f.next
  BY SubmittedKeeps
<1>c. c \in SlotIds
  BY DEF Books
<1>d. /\ Books(s, u1, r) /\ s.running = {} /\ s.backend = f.backend
      /\ s.last <= s.signaled
  <2> HIDE DEF b, u1
  <2>1. QED
    BY <1>b, DrainedKeeps
<1> HIDE DEF s, b, u1
<1>1. CASE f.backend = "vulkan"
  <2>1. {c} \in SUBSET SlotIds /\ \A x \in {c} : Finished(s, x)
    BY <1>c, <1>d DEF Finished
  <2>2. Books(CompleteSlots(s, {c}), u1, r)
    BY <2>1, <1>1, <1>d, CompleteKeeps
  <2>3. QED
    BY <2>2, <1>1 DEF ReadBack, ReadBackBySlot, ReadBackByFence, s, b, u1
<1>2. CASE f.backend = "metal"
  <2> DEFINE g == [s EXCEPT !.slot = [s.slot EXCEPT ![c] = 0], !.completed = s.last]
             p == Prepare(f)
  <2>t. Typed(s, u1, r)
    BY <1>d DEF Books
  <2>p. /\ g.deferred = s.deferred /\ g.destroyed = s.destroyed
        /\ g.slot = [s.slot EXCEPT ![c] = 0] /\ g.running = {}
        /\ g.backend = s.backend /\ g.cursor = s.cursor
        /\ g.next = s.next /\ g.last = s.last
        /\ g.signaled = s.signaled /\ g.completed = s.last
    BY <1>d, <2>t
  <2>1. Typed(g, u1, r)
    BY <1>d, <2>t, <1>c
  <2>e. g = ReadBack(f)
    BY <1>2 DEF ReadBack, ReadBackUnmarked, s, b
  <2>f. \A d \in s.deferred : d.pending \subseteq InFlight(p)
    <3>1. Books(p, u, r) /\ p.deferred = b.deferred
      <4>1. Books(p, u, r)
        BY PrepareKeeps
      <4>2. b.deferred = p.deferred
        BY <4>1 DEF Submitted, b, p, Books
      <4>3. QED
        BY <4>1, <4>2
    <3>2. s.deferred = b.deferred
      BY <1>b, DrainedKeeps DEF s
    <3>3. QED
      BY <3>1, <3>2 DEF Books, Deferred
  <2>i. InFlight(p) \subseteq InFlight(g)
    <3>1. s.slot = b.slot
      BY <1>b, DrainedKeeps DEF s
    <3>2. Books(p, u, r) /\ p.slot[c] = 0
      BY <1>2, PrepareKeeps DEF c
    <3>3. b.slot = [p.slot EXCEPT ![c] = p.next]
      BY <3>2 DEF Submitted, b, p, c, Books
    <3>4. g.slot = [p.slot EXCEPT ![c] = 0]
      BY <3>1, <3>2, <3>3, <2>p DEF Books
    <3>5. QED
      BY <3>2, <3>4 DEF InFlight, Books
  <2> HIDE DEF g, p
  <2>2. Ordered(g)
    BY <2>p, <2>t, <1>d, <1>c DEF Books, Ordered
  <2>3. Seated(g, u1)
    BY <2>p DEF Seated
  <2>4. Deferred(g, u1, r)
    <3>1. \A d \in g.deferred : d.pending \subseteq InFlight(g)
      BY <2>p, <2>f, <2>i
    <3>2. QED
      BY <3>1, <2>p, <1>d DEF Books, Deferred, Awaits
  <2>5. QED
    BY <2>1, <2>2, <2>3, <2>4, <2>e DEF Books, u1
<1>3. CASE f.backend = "dx12"
  BY <1>3, <1>d DEF ReadBack, ReadBackBySlot, ReadBackByFence, s, b, u1
<1>4. QED
  <2>1. f.backend \in Backends
    BY DEF Books
  <2>2. QED
    BY <2>1, <1>1, <1>2, <1>3 DEF Backends

\* DirectX 12 signals one more value when it waits idle.
LEMMA SignalKeeps ==
  ASSUME NEW f, NEW u, NEW r, Books(f, u, r), f.running = {}
  PROVE  Books([f EXCEPT !.signaled = f.next, !.next = f.next + 1], u, r)
<1> USE SlotsAssumption DEF Typed, BooksType
<1> DEFINE g == [f EXCEPT !.signaled = f.next, !.next = f.next + 1]
<1>t. Typed(f, u, r)
  BY DEF Books
<1>p. /\ g.deferred = f.deferred /\ g.destroyed = f.destroyed
      /\ g.slot = f.slot /\ g.running = {} /\ g.backend = f.backend
      /\ g.cursor = f.cursor /\ g.next = f.next + 1 /\ g.last = f.last
      /\ g.signaled = f.next /\ g.completed = f.completed
  BY <1>t
<1>1. Typed(g, u, r)
  <2>1. f.next \in Nat \ {0} /\ f.next + 1 \in Nat \ {0}
    BY <1>t
  <2>2. Typed(f, u, r)
    BY <1>t
  <2>3. g.next = f.next + 1 /\ g.signaled = f.next /\ g.running = {}
    BY <1>p
  <2>4. g \in BooksType(r, DOMAIN u)
    BY <2>1, <2>2, <2>3 DEF g
  <2>5. QED
    BY <2>2, <2>4
<1> HIDE DEF g
<1>2. Ordered(g)
  BY <1>p, <1>t DEF Books, Ordered
<1>3. Seated(g, u)
  BY <1>p DEF Seated
<1>4. Deferred(g, u, r)
  <2>1. \A d \in g.deferred : d.fence < g.next
    BY <1>p, <1>t DEF Books, Deferred, DeferralOf
  <2>2. QED
    BY <2>1, <1>p DEF Books, Deferred, Awaits, InFlight
<1>5. QED
  BY <1>1, <1>2, <1>3, <1>4 DEF Books, g

LEMMA IdledKeeps ==
  ASSUME NEW f, NEW u, NEW r, Books(f, u, r)
  PROVE  Books(Idled(f), u, r) /\ Books(IdledBadly(f), u, r)
<1> USE SlotsAssumption DEF Typed, BooksType
<1> DEFINE d == Drained(f)
<1>d. /\ Books(d, u, r) /\ d.running = {} /\ d.backend = f.backend /\ d.next = f.next
      /\ d.last = f.last /\ d.last <= d.signaled /\ d.deferred = f.deferred
  BY DrainedKeeps
<1> HIDE DEF d
<1>1. CASE f.backend = "dx12"
  <2> DEFINE g == [d EXCEPT !.signaled = d.next, !.next = d.next + 1]
  <2>1. Books(g, u, r)
    BY <1>d, SignalKeeps
  <2>2. g.backend = "dx12"
    BY <1>1, <1>d DEF Books
  <2>3. Idled(f) = ReclaimDeferred(g) /\ IdledBadly(f) = g
    BY <1>1, <1>d DEF Idled, IdledByFence, IdledBadly, d
  <2> HIDE DEF g
  <2>4. QED
    BY <2>1, <2>2, <2>3, ReclaimKeeps
<1>2. CASE f.backend # "dx12"
  <2> DEFINE g == Idled(f)
  <2>t. Typed(d, u, r)
    BY <1>d DEF Books
  <2>g. g = [d EXCEPT !.slot = [s \in SlotIds |-> 0], !.completed = d.last,
                      !.deferred = {},
                      !.destroyed = d.destroyed \cup {x.item : x \in d.deferred}]
    BY <1>2, <1>d DEF Idled, IdledBySlots, d
  <2> HIDE DEF g
  <2>p. /\ g.deferred = {} /\ g.destroyed = d.destroyed \cup {x.item : x \in d.deferred}
        /\ g.slot = [s \in SlotIds |-> 0] /\ g.running = {} /\ g.backend = d.backend
        /\ g.cursor = d.cursor /\ g.next = d.next /\ g.last = d.last
        /\ g.signaled = d.signaled /\ g.completed = d.last
    BY <2>g, <2>t, <1>d
  <2>1. Typed(g, u, r)
    <3>1. g.destroyed \subseteq r
      BY <2>p, <2>t DEF DeferralOf
    <3>2. QED
      BY <2>g, <2>p, <2>t, <3>1
  <2>2. Ordered(g)
    BY <2>p, <2>t, <1>d DEF Books, Ordered
  <2>3. Seated(g, u)
    BY <2>p DEF Seated
  <2>4. Deferred(g, u, r)
    BY <2>p, <1>d DEF Books, Deferred
  <2>5. IdledBadly(f) = d
    BY <1>2 DEF IdledBadly, d
  <2>6. QED
    BY <2>1, <2>2, <2>3, <2>4, <2>5, <1>d DEF Books, g
<1>3. QED
  BY <1>1, <1>2

\* The books speak of the frames that run.
LEMMA BooksAgree ==
  ASSUME NEW f, NEW u, NEW r, Books(f, u, r),
         NEW u1, u1 = [v \in DOMAIN u |-> u1[v]], \A v \in f.running : u1[v] = u[v]
  PROVE  Books(f, u1, r)
<1>1. DOMAIN u1 = DOMAIN u
  OBVIOUS
<1>2. Typed(f, u1, r)
  BY <1>1 DEF Books, Typed
<1>3. Seated(f, u1)
  BY DEF Books, Seated
<1>4. Deferred(f, u1, r)
  BY DEF Books, Deferred, Awaits
<1>5. QED
  BY <1>2, <1>3, <1>4 DEF Books

LEMMA PresentFailedKeeps ==
  ASSUME NEW f, NEW u, NEW r, Books(f, u, r), CanPrepare(f), f.next \in DOMAIN u,
         NEW used, used \cap r = {}
  PROVE  Books(PresentFailed(f), [u EXCEPT ![f.next] = used], r)
<1> DEFINE u1 == [u EXCEPT ![f.next] = used]
<1>1. CASE f.backend = "vulkan"
  <2> DEFINE g == Refused(f)
  <2>1. Books(g, u, r)
    BY RefusedKeeps
  <2>2. Books(g, u1, r)
    <3>1. \A v \in g.running : u1[v] = u[v]
      <4>1. Books(Prepare(f), u, r) /\ Prepare(f).next = f.next
        BY PrepareKeeps
      <4>2. g.running = Prepare(f).running
        BY <1>1, <4>1 DEF Refused, Books, Typed, BooksType
      <4>3. \A v \in Prepare(f).running : v < f.next
        BY <4>1 DEF Books, Ordered, Typed, BooksType
      <4>4. QED
        BY <4>1, <4>2, <4>3, <2>1 DEF Books, Typed, BooksType
    <3>2. u1 = [v \in DOMAIN u |-> u1[v]]
      OBVIOUS
    <3>3. QED
      BY <2>1, <3>1, <3>2, BooksAgree
  <2>3. PresentFailed(f) = Idled(g)
    BY <1>1 DEF PresentFailed, Refused
  <2> HIDE DEF g, u1
  <2>4. QED
    BY <2>2, <2>3, IdledKeeps DEF u1
<1>2. CASE f.backend # "vulkan"
  BY <1>2, SubmittedKeeps, DrainedKeeps DEF PresentFailed
<1>3. QED
  BY <1>1, <1>2

LEMMA OldestEndsKeeps ==
  ASSUME NEW f, NEW u, NEW r, Books(f, u, r), f.running # {}
  PROVE  Books(OldestEnds(f), u, r)
<1> USE SlotsAssumption DEF Typed, BooksType
<1> DEFINE g == OldestEnds(f)
           L == Lowest(f.running)
<1>t. Typed(f, u, r) /\ f.running \in SUBSET Nat
  BY DEF Books
<1>l. L \in f.running /\ \A v \in f.running : L <= v
  BY <1>t, LowestIs
<1>g. g = [f EXCEPT !.running = f.running \ {L}, !.signaled = L]
  BY DEF OldestEnds
<1> HIDE DEF g, L
<1>p. /\ g.deferred = f.deferred /\ g.destroyed = f.destroyed
      /\ g.slot = f.slot /\ g.running = f.running \ {L} /\ g.backend = f.backend
      /\ g.cursor = f.cursor /\ g.next = f.next /\ g.last = f.last
      /\ g.signaled = L /\ g.completed = f.completed
  BY <1>g, <1>t
<1>o. f.signaled < L /\ L <= f.last /\ L \in Nat
  BY <1>l, <1>t DEF Books, Ordered
<1>1. Typed(g, u, r)
  BY <1>g, <1>t, <1>o
<1>2. Ordered(g)
  <2>1. f.last \in g.running \/ f.last <= L
    BY <1>p, <1>o, <1>t DEF Books, Ordered
  <2>2. \A s \in SlotIds : f.slot[s] \in g.running \/ f.slot[s] <= L
    BY <1>p, <1>o, <1>t DEF Books, Ordered
  <2>3. \A v \in g.running : L < v /\ v <= f.last
    BY <1>p, <1>l, <1>t DEF Books, Ordered
  <2>4. QED
    BY <2>1, <2>2, <2>3, <1>p, <1>o, <1>t DEF Books, Ordered
<1>3. Seated(g, u) /\ Deferred(g, u, r)
  BY <1>p DEF Books, Seated, Deferred, Awaits, InFlight
<1>4. QED
  BY <1>1, <1>2, <1>3 DEF Books, g

LEMMA NewFramesBooks ==
  ASSUME NEW b \in Backends, NEW u,
         u = [v \in DOMAIN u |-> u[v]], DOMAIN u \subseteq Nat \ {0}
  PROVE  Books(NewFrames(b), u, {})
<1>1. 0 \in SlotIds
  BY SlotsAssumption DEF SlotIds
<1>2. Typed(NewFrames(b), u, {})
  BY <1>1 DEF Typed, BooksType, NewFrames
<1>3. Ordered(NewFrames(b)) /\ Seated(NewFrames(b), u) /\ Deferred(NewFrames(b), u, {})
  BY DEF NewFrames, Ordered, Seated, Deferred
<1>4. QED
  BY <1>2, <1>3 DEF Books

LEMMA PollKeeps ==
  ASSUME NEW f, NEW u, NEW r, Books(f, u, r), NEW g \in Polled(f)
  PROVE  Books(g, u, r) /\ g.running = f.running /\ g.next = f.next
<1>1. CASE f.backend = "dx12"
  BY <1>1 DEF Polled
<1>2. CASE f.backend # "dx12"
  <2>1. PICK slots \in SUBSET {s \in InFlight(f) : Finished(f, s)} :
          g = CompleteSlots(f, slots)
    BY <1>2 DEF Polled
  <2>2. slots \in SUBSET SlotIds /\ \A s \in slots : Finished(f, s)
    BY DEF InFlight
  <2>3. QED
    BY <2>1, <2>2, <1>2, CompleteKeeps
<1>3. QED
  BY <1>1, <1>2

\* What a backend reports as completed covers ended frames only.
LEMMA CompletedIs ==
  ASSUME NEW f, NEW u, NEW r, Books(f, u, r)
  PROVE  /\ \A v \in f.running : CompletedValue(f) < v
         /\ CompletedValue(f) <= LastFrame(f)
<1>1. CASE f.backend = "dx12"
  BY <1>1 DEF Books, Typed, BooksType, Ordered, CompletedValue, LastFrame
<1>2. CASE f.backend # "dx12"
  BY <1>2 DEF Books, Typed, BooksType, Ordered, CompletedValue, LastFrame
<1>3. QED
  BY <1>1, <1>2
-----------------------------------------------------------------------------
\* What the operations leave of the frames that run and the values handed out.

\* The objects whose destruction was asked for.
Freed(f) == f.destroyed \cup {d.item : d \in f.deferred}

LEMMA FreedIs ==
  ASSUME NEW f, NEW u, NEW r, Books(f, u, r)
  PROVE  Freed(f) = r
BY DEF Books, Deferred, Freed

LEMMA DeferIs ==
  ASSUME NEW f, NEW u, NEW r, Books(f, u, r), NEW item
  PROVE  /\ Defer(f, item).running = f.running /\ Defer(f, item).last = f.last
         /\ Defer(f, item).completed = f.completed
         /\ Defer(f, item).backend = f.backend
<1>1. f \in BooksType(r, DOMAIN u)
  BY DEF Books, Typed
<1>2. QED
  BY <1>1 DEF BooksType, Defer, DeferByFence, DeferBySlots, Destroy

LEMMA PolledIs ==
  ASSUME NEW f, NEW u, NEW r, Books(f, u, r), NEW g \in Polled(f)
  PROVE  g.last = f.last /\ g.backend = f.backend
<1>1. CASE f.backend = "dx12"
  BY <1>1 DEF Polled
<1>2. CASE f.backend # "dx12"
  <2>1. PICK slots \in SUBSET {s \in InFlight(f) : Finished(f, s)} :
          g = CompleteSlots(f, slots)
    BY <1>2 DEF Polled
  <2>2. slots \in SUBSET SlotIds /\ \A s \in slots : Finished(f, s)
    BY DEF InFlight
  <2>3. QED
    BY <2>1, <2>2, <1>2, CompleteKeeps
<1>3. QED
  BY <1>1, <1>2

\* The device waits for its frames, or the wait fails: they have ended.
LEMMA WaitedIs ==
  ASSUME NEW f, NEW u, NEW r, Books(f, u, r), NEW g \in {Idled(f), IdledBadly(f)}
  PROVE  /\ Books(g, u, r) /\ g.running = {}
         /\ g.last = f.last /\ g.backend = f.backend
<1> DEFINE d == Drained(f)
<1>1. Books(g, u, r)
  BY IdledKeeps
<1>2. /\ d.running = {} /\ d.backend = f.backend /\ d.last = f.last
      /\ Books(d, u, r)
  BY DrainedKeeps
<1>3. d \in BooksType(r, DOMAIN u)
  BY <1>2 DEF Books, Typed
<1>4. g.running = {} /\ g.last = f.last /\ g.backend = f.backend
  <2>1. \A x : LET e == [d EXCEPT !.signaled = f.next, !.next = x]
               IN e.running = {} /\ e.last = f.last /\ e.backend = f.backend
    BY <1>2, <1>3 DEF BooksType
  <2> HIDE DEF d
  <2>2. QED
    BY <1>2, <1>3, <2>1
    DEF Idled, IdledBadly, IdledByFence, IdledBySlots, ReclaimDeferred, BooksType, d
<1>5. QED
  BY <1>1, <1>4

LEMMA RefusedIs ==
  ASSUME NEW f, NEW u, NEW r, Books(f, u, r), CanPrepare(f)
  PROVE  /\ Refused(f).running = f.running
         /\ Refused(f).last = f.last /\ Refused(f).backend = f.backend
<1> DEFINE p == Prepare(f)
<1>1. /\ Books(p, u, r)
      /\ p.running = f.running /\ p.last = f.last /\ p.backend = f.backend
  BY PrepareKeeps
<1>2. p \in BooksType(r, DOMAIN u)
  BY <1>1 DEF Books, Typed
<1> HIDE DEF p
<1>3. QED
  BY <1>1, <1>2 DEF Refused, BooksType, p

LEMMA SubmittedIs ==
  ASSUME NEW f, NEW u, NEW r, Books(f, u, r), CanPrepare(f)
  PROVE  Submitted(f).running = f.running \cup {f.next}
<1>1. /\ Books(Prepare(f), u, r)
      /\ Prepare(f).running = f.running /\ Prepare(f).next = f.next
  BY PrepareKeeps
<1>2. Prepare(f) \in BooksType(r, DOMAIN u)
  BY <1>1 DEF Books, Typed
<1> DEFINE p == Prepare(f)
<1> HIDE DEF p
<1>3. QED
  BY <1>1, <1>2 DEF Submitted, BooksType, p

\* On Vulkan the frame of a failed presentation was never counted.
LEMMA PresentFailedIs ==
  ASSUME NEW f, NEW u, NEW r, Books(f, u, r), CanPrepare(f), f.backend = "vulkan"
  PROVE  /\ Books(PresentFailed(f), u, r)
         /\ PresentFailed(f).running = {} /\ PresentFailed(f).last = f.last
         /\ PresentFailed(f).backend = "vulkan"
<1> DEFINE g == Refused(f)
<1>1. Books(g, u, r) /\ g.last = f.last /\ g.backend = "vulkan"
  BY RefusedKeeps, RefusedIs
<1>2. PresentFailed(f) = Idled(g)
  BY DEF PresentFailed, Refused
<1> HIDE DEF g
<1>3. QED
  BY <1>1, <1>2, WaitedIs

LEMMA OldestEndsIs ==
  ASSUME NEW f, NEW u, NEW r, Books(f, u, r)
  PROVE  /\ OldestEnds(f).running = f.running \ {Lowest(f.running)}
         /\ OldestEnds(f).last = f.last /\ OldestEnds(f).backend = f.backend
<1>1. f \in BooksType(r, DOMAIN u)
  BY DEF Books, Typed
<1>2. QED
  BY <1>1 DEF BooksType, OldestEnds
=============================================================================
