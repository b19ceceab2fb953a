-------------------------- MODULE FrameGraphProofs --------------------------
(***************************************************************************)
(* What a frame's graph rests on.                                          *)
(*                                                                         *)
(* First the buffers it names (TransientBuffers): every native buffer is   *)
(* at one place at a time, and each place stands behind whatever still     *)
(* uses the buffer.  TransientInv says what "behind" means at each place:  *)
(* a staging bucket is pooled behind the copy out of it (SourcesHeld); the *)
(* target of a copy belongs to a transient that remembers the copy, or is  *)
(* retired no earlier than it, or is pooled behind a frame that waits for  *)
(* it (TargetHeld); what a frame reads is pooled behind that frame         *)
(* (ReadHeld). UnderWay says what a call has found before it goes on.      *)
(*                                                                         *)
(* Then the ranges its accesses name (GraphCompiler): what the compiler's  *)
(* arithmetic does to the subresources a range stands for.                 *)
(***************************************************************************)
EXTENDS TransientBuffers, GraphCompiler, NativeFramesProofs, FiniteSetTheorems, SequenceTheorems

-----------------------------------------------------------------------------
\* No fact about deferred destruction is needed here: what is freed is used by
\* no frame.
NoUses == [v \in Nat \ {0} |-> {}]

EntryType == [pool : Pools, buffer : Nat, value : Nat]
RetiredType == [buffer : Nat, value : Nat]
CopyType == [from : Nat, to : Nat]
Memories ==
  [capacity : Seq(Nat), pools : SUBSET EntryType, retired : SUBSET RetiredType,
   frames : BooksType(Nat, Nat \ {0}), copies : Seq(CopyType)]

InPools(m) == {e.buffer : e \in m.pools}
InRetired(m) == {x.buffer : x \in m.retired}
Given(m) == 1..Len(m.capacity)

\* Each buffer of a memory has one place at most, and T are the buffers that
\* are elsewhere: the transients, and the bucket at hand.
Placed(m, T) ==
  /\ T \cup InPools(m) \cup InRetired(m) \cup Freed(m.frames) \subseteq Given(m)
  /\ \A d, e \in m.pools : d.buffer = e.buffer => d = e
  /\ \A x, y \in m.retired : x.buffer = y.buffer => x = y
  /\ InPools(m) \cap InRetired(m) = {}
  /\ (InPools(m) \cup InRetired(m)) \cap Freed(m.frames) = {}
  /\ T \cap (InPools(m) \cup InRetired(m) \cup Freed(m.frames)) = {}

\* The bucket a copy still reads waits in the staging pool for that copy.
SourcesHeld(m) ==
  \A i \in (done + 1)..Len(m.copies) : Entry("staging", m.copies[i].from, i) \in m.pools

FramesKept(f) == Books(f, NoUses, Freed(f)) /\ f.backend = "vulkan"
WellKept(m, T) ==
  /\ m \in Memories /\ FramesKept(m.frames) /\ done \in Nat
  /\ Placed(m, T) /\ SourcesHeld(m)

\* From m to n nothing was taken that a frame or a copy still needs.
Safe(m, n) ==
  /\ Len(m.capacity) <= Len(n.capacity)
  /\ n.frames.running = m.frames.running /\ n.frames.next = m.frames.next
  /\ \A e \in m.pools : e.pool \in Kinds => e \in n.pools \/ e.value \notin m.frames.running
  /\ \A x \in m.retired : x \in n.retired \/ x.value <= done

LEMMA SafeSelf == ASSUME NEW m \in Memories PROVE Safe(m, m)
  BY DEF Safe, Memories

LEMMA SafeTrans ==
  ASSUME NEW m \in Memories, NEW n \in Memories, NEW o \in Memories, Safe(m, n), Safe(n, o)
  PROVE  Safe(m, o)
<1>1. /\ Len(m.capacity) \in Nat /\ Len(n.capacity) \in Nat /\ Len(o.capacity) \in Nat
  BY DEF Memories
<1>2. QED
  BY <1>1 DEF Safe

-----------------------------------------------------------------------------
\* Freeing.

LEMMA FreedBooks ==
  ASSUME NEW f, FramesKept(f), NEW gone \in SUBSET Nat, gone \cap Freed(f) = {}
  PROVE  /\ FramesKept(FreeIn(f, gone))
         /\ Freed(FreeIn(f, gone)) = Freed(f) \cup gone
         /\ FreeIn(f, gone).running = f.running
         /\ FreeIn(f, gone).next = f.next
<1> DEFINE g == FreeIn(f, gone)
           r == Freed(f)
           r1 == r \cup gone
           New(b) == [item |-> b, pending |-> InFlight(f), fence |-> 0]
<1>t. Books(f, NoUses, r) /\ f \in BooksType(r, Nat \ {0}) /\ f.backend = "vulkan"
  BY DEF FramesKept, Books, Typed, NoUses
<1>n. \A b \in gone : New(b) \in DeferralOf(r1)
                      /\ New(b).item = b /\ New(b).pending = InFlight(f) /\ New(b).fence = 0
  BY DEF DeferralOf, InFlight
<1>d. f.deferred \subseteq DeferralOf(r1) /\ f.destroyed \subseteq r1 /\ f.next \in Nat \ {0}
  BY <1>t DEF DeferralOf, BooksType
<1>x. /\ f.destroyed \subseteq r
      /\ \A i \in r \ f.destroyed : \E d \in f.deferred : d.item = i
      /\ \A d, e \in f.deferred : d.item = e.item => d = e
      /\ \A d \in f.deferred :
           /\ d.item \in r \ f.destroyed /\ d.pending \subseteq InFlight(f)
           /\ d.fence < f.next /\ d.pending # {}
  BY <1>t DEF Books, Deferred
<1> HIDE DEF r, New
<1>1. CASE InFlight(f) = {}
  <2>1. g = [f EXCEPT !.destroyed = f.destroyed \cup gone]
    BY <1>1 DEF FreeIn, Destroy
  <2> HIDE DEF g
  <2>p. /\ g.deferred = f.deferred /\ g.destroyed = f.destroyed \cup gone
        /\ g.slot = f.slot /\ g.running = f.running /\ g.backend = f.backend
        /\ g.cursor = f.cursor /\ g.next = f.next /\ g.last = f.last
        /\ g.signaled = f.signaled /\ g.completed = f.completed
    BY <2>1, <1>t DEF BooksType
  <2>2. g \in BooksType(r1, Nat \ {0})
    <3>1. f.destroyed \cup gone \in SUBSET r1 /\ f.deferred \in SUBSET DeferralOf(r1)
      BY <1>d
    <3>2. QED
      BY <2>1, <1>t, <3>1 DEF BooksType
  <2>3. Ordered(g)
    BY <2>p, <1>t DEF Books, Ordered
  <2>4. Seated(g, NoUses)
    BY <2>p, <1>t DEF Books, Seated, NoUses, BooksType
  <2>5. Deferred(g, NoUses, r1)
    <3>1. \A d \in g.deferred : Awaits(g, NoUses, d)
      BY <2>2 DEF Awaits, NoUses, BooksType
    <3>2. InFlight(g) = InFlight(f)
      BY <2>p DEF InFlight
    <3>3. \A d \in f.deferred : d.item \notin gone
      BY <1>x DEF r
    <3>4. QED
      BY <3>1, <3>2, <3>3, <2>p, <1>x, <1>t DEF Deferred
  <2>6. Typed(g, NoUses, r1)
    BY <2>2 DEF Typed, NoUses
  <2>7. Books(g, NoUses, r1)
    BY <2>3, <2>4, <2>5, <2>6 DEF Books
  <2>8. Freed(g) = r1
    BY <2>7, FreedIs
  <2>9. QED
    BY <2>7, <2>8, <2>p, <1>t DEF FramesKept, g, r
<1>2. CASE InFlight(f) # {}
  <2> DEFINE N == {New(b) : b \in gone}
  <2>1. g = [f EXCEPT !.deferred = f.deferred \cup N]
    BY <1>2 DEF FreeIn, New
  <2>0. N \subseteq DeferralOf(r1)
    BY <1>n
  <2>z. \A d \in N : d.item \in gone /\ d = New(d.item)
                      /\ d.pending = InFlight(f) /\ d.fence = 0
    BY <1>n
  <2>y. \A b \in gone : New(b) \in N
    OBVIOUS
  <2> HIDE DEF g, N
  <2>p. /\ g.deferred = f.deferred \cup N /\ g.destroyed = f.destroyed
        /\ g.slot = f.slot /\ g.running = f.running /\ g.backend = f.backend
        /\ g.cursor = f.cursor /\ g.next = f.next /\ g.last = f.last
        /\ g.signaled = f.signaled /\ g.completed = f.completed
    BY <2>1, <1>t DEF BooksType
  <2>2. g \in BooksType(r1, Nat \ {0})
    <3>1. f.destroyed \in SUBSET r1 /\ f.deferred \cup N \in SUBSET DeferralOf(r1)
      BY <1>d, <2>0
    <3>2. QED
      BY <2>1, <1>t, <3>1 DEF BooksType
  <2>3. Ordered(g)
    BY <2>p, <1>t DEF Books, Ordered
  <2>4. Seated(g, NoUses)
    BY <2>p, <1>t DEF Books, Seated, NoUses, BooksType
  <2>5. Deferred(g, NoUses, r1)
    <3>1. \A d \in g.deferred : Awaits(g, NoUses, d)
      BY <2>2 DEF Awaits, NoUses, BooksType
    <3>2. InFlight(g) = InFlight(f)
      BY <2>p DEF InFlight
    <3>3. \A d \in f.deferred : d.item \notin gone
      BY <1>x DEF r
    <3>4. \A d, e \in g.deferred : d.item = e.item => d = e
      BY <3>3, <2>p, <2>z, <1>x
    <3>5. g.destroyed \subseteq r1
      BY <1>d, <2>p
    <3>6. \A i \in r1 \ g.destroyed : \E d \in g.deferred : d.item = i
      BY <2>p, <2>y, <1>n, <1>x
    <3>7. ASSUME NEW d \in g.deferred
          PROVE  /\ d.item \in r1 \ g.destroyed /\ d.pending \subseteq InFlight(g)
                 /\ d.fence < g.next /\ d.pending # {}
      <4>1. CASE d \in f.deferred
        BY <4>1, <2>p, <3>2, <1>x
      <4>2. CASE d \in N
        <5>1. d.item \in gone /\ d.item \notin f.destroyed
          BY <4>2, <2>z, <1>x DEF r
        <5>2. QED
          BY <4>2, <5>1, <2>z, <2>p, <3>2, <1>d, <1>2
      <4>3. QED
        BY <4>1, <4>2, <2>p
    <3>8. QED
      BY <3>1, <3>4, <3>5, <3>6, <3>7 DEF Deferred
  <2>6. Typed(g, NoUses, r1)
    BY <2>2 DEF Typed, NoUses
  <2>7. Books(g, NoUses, r1)
    BY <2>3, <2>4, <2>5, <2>6 DEF Books
  <2>8. Freed(g) = r1
    BY <2>7, FreedIs
  <2>9. QED
    BY <2>7, <2>8, <2>p, <1>t DEF FramesKept, g, r
<1>3. QED
  BY <1>1, <1>2

LEMMA FreeKept ==
  ASSUME NEW m, NEW T, NEW gone \in SUBSET Nat, gone \cap T = {}, WellKept(m, T \cup gone),
         NEW n, n = Free(m, gone)
  PROVE  /\ WellKept(n, T) /\ Safe(m, n)
         /\ n.capacity = m.capacity /\ n.pools = m.pools
         /\ n.retired = m.retired /\ n.copies = m.copies
<1> DEFINE g == FreeIn(m.frames, gone)
<1>m. m \in Memories /\ FramesKept(m.frames) /\ Placed(m, T \cup gone) /\ SourcesHeld(m)
  BY DEF WellKept
<1>g. /\ FramesKept(g) /\ Freed(g) = Freed(m.frames) \cup gone
      /\ g.running = m.frames.running /\ g.next = m.frames.next
  <2>1. gone \cap Freed(m.frames) = {}
    BY <1>m DEF Placed
  <2>2. QED
    BY <1>m, <2>1, FreedBooks
<1>1. n = [m EXCEPT !.frames = g]
  BY DEF Free
<1> HIDE DEF g
<1>2. g \in BooksType(Nat, Nat \ {0})
  <2>1. Freed(m.frames) \cup gone \subseteq Nat
    BY <1>m DEF Placed, Given
  <2>2. g \in BooksType(Freed(g), Nat \ {0})
    BY <1>g DEF FramesKept, Books, Typed, NoUses
  <2>3. Freed(g) \subseteq Nat
    BY <1>g, <2>1
  <2> DEFINE F == Freed(g)
  <2> HIDE DEF F
  <2>4. DeferralOf(F) \subseteq DeferralOf(Nat)
    BY <2>3 DEF DeferralOf, F
  <2>5. QED
    BY <2>2, <2>3, <2>4 DEF BooksType, F
<1>3. /\ n \in Memories /\ n.frames = g /\ n.capacity = m.capacity /\ n.pools = m.pools
      /\ n.retired = m.retired /\ n.copies = m.copies
  BY <1>1, <1>2, <1>m DEF Memories
<1>4. Placed(n, T)
  BY <1>3, <1>m, <1>g DEF Placed, InPools, InRetired, Given
<1>5. SourcesHeld(n)
  BY <1>3, <1>m DEF SourcesHeld
<1>6. Safe(m, n)
  BY <1>3, <1>g, <1>m DEF Safe, Memories
<1>7. QED
  BY <1>3, <1>4, <1>5, <1>6, <1>g DEF WellKept

-----------------------------------------------------------------------------
\* Buckets and pools.

\* An entry whose value has been reached serves nobody.
LEMMA CompletedOver ==
  ASSUME NEW m \in Memories, FramesKept(m.frames), NEW e \in m.pools, Completed(m, e)
  PROVE  IF e.pool = "staging" THEN e.value <= done ELSE e.value \notin m.frames.running
<1>1. \A v \in m.frames.running : CompletedValue(m.frames) < v
  BY CompletedIs DEF FramesKept
<1>2. m.frames.running \subseteq Nat /\ e.value \in Nat /\ CompletedValue(m.frames) \in Nat
  BY DEF Memories, BooksType, EntryType, FramesKept, CompletedValue
<1>3. QED
  BY <1>1, <1>2 DEF Completed

WithPools(m, entries) == [m EXCEPT !.pools = entries]
BuffersIn(entries) == {e.buffer : e \in entries}

\* Completed entries of the pools.
Over(m, gone) == gone \subseteq m.pools /\ \A e \in gone : Completed(m, e)

\* They leave their pool.
LEMMA TakenKept ==
  ASSUME NEW m, NEW T, WellKept(m, T), NEW gone, Over(m, gone),
         NEW n, n = WithPools(m, m.pools \ gone)
  PROVE  /\ WellKept(n, T \cup BuffersIn(gone)) /\ Safe(m, n)
         /\ BuffersIn(gone) \cap T = {} /\ BuffersIn(gone) \in SUBSET Nat
         /\ n.capacity = m.capacity /\ n.copies = m.copies /\ n.retired = m.retired
         /\ n.pools = m.pools \ gone /\ n.frames = m.frames
<1> DEFINE B == BuffersIn(gone)
<1>m. m \in Memories /\ FramesKept(m.frames) /\ done \in Nat /\ Placed(m, T) /\ SourcesHeld(m)
  BY DEF WellKept
<1>1. /\ n \in Memories /\ n.frames = m.frames /\ n.capacity = m.capacity
      /\ n.pools = m.pools \ gone /\ n.retired = m.retired /\ n.copies = m.copies
  BY <1>m DEF Memories, WithPools
<1>0. gone \in SUBSET m.pools
  BY DEF Over
<1>2. \A e \in gone : IF e.pool = "staging" THEN e.value <= done
                      ELSE e.value \notin m.frames.running
  BY <1>m, <1>0, CompletedOver DEF Over
<1>3. B \subseteq InPools(m) /\ B \cap T = {} /\ B \in SUBSET Nat
  BY <1>m, <1>0 DEF BuffersIn, InPools, Placed, Memories, EntryType
<1>4. B \cap InPools(n) = {}
  <2>1. \A d, e \in m.pools : d.buffer = e.buffer => d = e
    BY <1>m DEF Placed
  <2>2. \A e \in gone : \A d \in n.pools : d.buffer # e.buffer
    BY <2>1, <1>0, <1>1
  <2>3. QED
    BY <2>2 DEF InPools, BuffersIn
<1>5. Placed(n, T \cup B)
  <2>1. InPools(n) \subseteq InPools(m) /\ InRetired(n) = InRetired(m) /\ Given(n) = Given(m)
    BY <1>1 DEF InPools, InRetired, Given
  <2>2. /\ T \cup InPools(m) \cup InRetired(m) \cup Freed(m.frames) \subseteq Given(m)
        /\ InPools(m) \cap InRetired(m) = {}
        /\ (InPools(m) \cup InRetired(m)) \cap Freed(m.frames) = {}
        /\ T \cap (InPools(m) \cup InRetired(m) \cup Freed(m.frames)) = {}
    BY <1>m DEF Placed
  <2>3. /\ \A d, e \in n.pools : d.buffer = e.buffer => d = e
        /\ \A x, y \in n.retired : x.buffer = y.buffer => x = y
    BY <1>m, <1>1 DEF Placed
  <2>4. Freed(n.frames) = Freed(m.frames)
    BY <1>1
  <2> HIDE DEF B
  <2>5. QED
    BY <2>1, <2>2, <2>3, <2>4, <1>3, <1>4 DEF Placed
<1>6. SourcesHeld(n)
  <2>1. ASSUME NEW i \in (done + 1)..Len(m.copies)
        PROVE  Entry("staging", m.copies[i].from, i) \notin gone
    <3>1. Entry("staging", m.copies[i].from, i).pool = "staging"
          /\ Entry("staging", m.copies[i].from, i).value = i /\ ~(i <= done)
      BY <1>m DEF Entry
    <3>2. QED
      BY <3>1, <1>2
  <2>2. QED
    BY <2>1, <1>1, <1>m DEF SourcesHeld
<1>7. Safe(m, n)
  <2>1. \A e \in gone : e.pool \in Kinds => e.value \notin m.frames.running
    BY <1>2 DEF Kinds
  <2>2. Len(m.capacity) <= Len(n.capacity)
    BY ONLY <1>1, <1>m DEF Memories
  <2>3. QED
    BY ONLY <2>1, <2>2, <1>1 DEF Safe
<1>8. QED
  BY <1>1, <1>3, <1>5, <1>6, <1>7, <1>m DEF WellKept

LEMMA TransferSeenKept ==
  ASSUME NEW m, NEW T, WellKept(m, T), NEW n, n = TransferSeen(m)
  PROVE  /\ WellKept(n, T) /\ Safe(m, n)
         /\ n.capacity = m.capacity /\ n.copies = m.copies
<1> DEFINE over == {x \in m.retired : x.value <= done}
           gone == {x.buffer : x \in over}
           o == [m EXCEPT !.retired = m.retired \ over]
<1>m. m \in Memories /\ FramesKept(m.frames) /\ done \in Nat /\ Placed(m, T) /\ SourcesHeld(m)
  BY DEF WellKept
<1>n. n = Free(o, gone)
  BY DEF TransferSeen
<1> HIDE DEF over, o
<1>1. /\ o \in Memories /\ o.frames = m.frames /\ o.capacity = m.capacity
      /\ o.pools = m.pools /\ o.retired = m.retired \ over /\ o.copies = m.copies
  BY <1>m DEF Memories, o
<1>o. over \subseteq m.retired /\ \A x \in over : x.value <= done
  BY DEF over
<1>2. gone \subseteq InRetired(m) /\ gone \cap T = {} /\ gone \in SUBSET Nat
  BY <1>m, <1>o DEF InRetired, Placed, Memories, RetiredType
<1>3. gone \cap InRetired(o) = {}
  <2>1. \A d, e \in m.retired : d.buffer = e.buffer => d = e
    BY <1>m DEF Placed
  <2>2. QED
    BY <2>1, <1>1, <1>o DEF InRetired
<1>4. Placed(o, T \cup gone)
  <2>1. InRetired(o) \subseteq InRetired(m) /\ InPools(o) = InPools(m) /\ Given(o) = Given(m)
    BY <1>1 DEF InPools, InRetired, Given
  <2>2. /\ T \cup InPools(m) \cup InRetired(m) \cup Freed(m.frames) \subseteq Given(m)
        /\ InPools(m) \cap InRetired(m) = {}
        /\ (InPools(m) \cup InRetired(m)) \cap Freed(m.frames) = {}
        /\ T \cap (InPools(m) \cup InRetired(m) \cup Freed(m.frames)) = {}
    BY <1>m DEF Placed
  <2>3. /\ \A d, e \in o.pools : d.buffer = e.buffer => d = e
        /\ \A x, y \in o.retired : x.buffer = y.buffer => x = y
    BY <1>m, <1>1 DEF Placed
  <2>4. Freed(o.frames) = Freed(m.frames)
    BY <1>1
  <2> HIDE DEF gone
  <2>5. QED
    BY <2>1, <2>2, <2>3, <2>4, <1>2, <1>3 DEF Placed
<1>5. SourcesHeld(o)
  BY <1>1, <1>m DEF SourcesHeld
<1>6. WellKept(o, T \cup gone)
  BY <1>1, <1>4, <1>5, <1>m DEF WellKept
<1>7. Safe(m, o)
  BY <1>1, <1>o, <1>m DEF Safe, Memories
<1> HIDE DEF gone
<1>8. WellKept(n, T) /\ Safe(o, n) /\ n.capacity = o.capacity /\ n.copies = o.copies
  BY <1>6, <1>2, <1>n, FreeKept
<1>9. Safe(m, n)
  BY <1>7, <1>8, <1>1, <1>m, SafeTrans DEF WellKept
<1>10. QED
  BY <1>8, <1>9, <1>1

LEMMA GraphicsSeenKept ==
  ASSUME NEW m, NEW T, WellKept(m, T), NEW n \in GraphicsSeen(m)
  PROVE  /\ WellKept(n, T) /\ Safe(m, n)
         /\ n.capacity = m.capacity /\ n.copies = m.copies
<1>m. m \in Memories /\ FramesKept(m.frames) /\ done \in Nat /\ Placed(m, T) /\ SourcesHeld(m)
  BY DEF WellKept
<1>1. PICK g \in Polled(m.frames) : n = [m EXCEPT !.frames = g]
  BY DEF GraphicsSeen
<1> DEFINE r == Freed(m.frames)
<1>2. /\ Books(g, NoUses, r) /\ g.running = m.frames.running /\ g.next = m.frames.next
      /\ g.backend = "vulkan"
  BY <1>m, PollKeeps, PolledIs DEF FramesKept
<1>3. Freed(g) = r
  BY <1>2, FreedIs
<1>4. FramesKept(g)
  BY <1>2, <1>3 DEF FramesKept
<1>5. g \in BooksType(Nat, Nat \ {0})
  <2>1. r \subseteq Nat
    BY <1>m DEF Placed, Given
  <2>2. g \in BooksType(r, Nat \ {0})
    BY <1>2 DEF Books, Typed, NoUses
  <2> HIDE DEF r
  <2>3. DeferralOf(r) \subseteq DeferralOf(Nat)
    BY <2>1 DEF DeferralOf
  <2>4. QED
    BY <2>1, <2>2, <2>3 DEF BooksType
<1> HIDE DEF r
<1>6. /\ n \in Memories /\ n.frames = g /\ n.capacity = m.capacity /\ n.pools = m.pools
      /\ n.retired = m.retired /\ n.copies = m.copies
  BY <1>1, <1>5, <1>m DEF Memories
<1>7. Placed(n, T)
  BY <1>6, <1>m, <1>3 DEF Placed, InPools, InRetired, Given, r
<1>8. SourcesHeld(n)
  BY <1>6, <1>m DEF SourcesHeld
<1>9. Safe(m, n)
  BY <1>6, <1>2, <1>m DEF Safe, Memories
<1>10. QED
  BY <1>4, <1>6, <1>7, <1>8, <1>9, <1>m DEF WellKept

\* A step that keeps the memory and what is needed of it.
Steps(m, n, T) ==
  WellKept(n, T) /\ Safe(m, n) /\ n.capacity = m.capacity /\ n.copies = m.copies

LEMMA StepsTrans ==
  ASSUME NEW m, NEW n, NEW o, NEW S, NEW T, NEW U,
         WellKept(m, S), Steps(m, n, T), Steps(n, o, U)
  PROVE  Steps(m, o, U)
<1>1. m \in Memories /\ n \in Memories /\ o \in Memories
  BY DEF WellKept, Steps
<1>2. QED
  BY <1>1, SafeTrans DEF Steps

LEMMA TrimmedKept ==
  ASSUME NEW m, NEW T, WellKept(m, T), NEW entries \in SUBSET m.pools, NEW budget,
         NEW n \in Trimmed(m, entries, budget)
  PROVE  Steps(m, n, T)
<1>1. PICK gone \in Evictable(m, entries, budget) :
        n = Free([m EXCEPT !.pools = @ \ gone], {e.buffer : e \in gone})
  BY DEF Trimmed
<1>2. Over(m, gone)
  BY DEF Evictable, Over
<1> DEFINE B == BuffersIn(gone)
           o == WithPools(m, m.pools \ gone)
<1>3. o = WithPools(m, m.pools \ gone) /\ B = BuffersIn(gone)
  OBVIOUS
<1>4. n = Free(o, B)
  BY <1>1 DEF WithPools, BuffersIn
<1> HIDE DEF o, B
<1>t. /\ WellKept(o, T \cup B) /\ Safe(m, o) /\ B \cap T = {} /\ B \in SUBSET Nat
      /\ o.capacity = m.capacity /\ o.copies = m.copies
  BY <1>2, <1>3, TakenKept
<1>5. /\ WellKept(n, T) /\ Safe(o, n) /\ n.capacity = o.capacity /\ n.copies = o.copies
  BY <1>t, <1>4, FreeKept
<1>6. m \in Memories /\ n \in Memories /\ o \in Memories
  BY <1>t, <1>5 DEF WellKept
<1>7. QED
  BY <1>t, <1>5, <1>6, SafeTrans DEF Steps

LEMMA PoolTrimmedKept ==
  ASSUME NEW m, NEW T, WellKept(m, T), NEW pool, NEW n \in PoolTrimmed(m, pool)
  PROVE  Steps(m, n, T)
<1>1. {e \in m.pools : e.pool = pool} \in SUBSET m.pools
  OBVIOUS
<1>2. QED
  BY <1>1, TrimmedKept DEF PoolTrimmed

LEMMA AggregateTrimmedKept ==
  ASSUME NEW m, NEW T, WellKept(m, T), NEW n \in AggregateTrimmed(m)
  PROVE  Steps(m, n, T)
<1>1. Steps(m, m, T)
  BY SafeSelf DEF Steps, WellKept
<1> DEFINE o == TransferSeen(m)
<1>2. Steps(m, o, T)
  BY TransferSeenKept DEF Steps
<1>3. m.pools \in SUBSET o.pools
  <2>1. m \in Memories
    BY DEF WellKept
  <2>2. o.pools = m.pools
    BY <2>1 DEF TransferSeen, Free, Memories
  <2>3. QED
    BY <2>2
<1> HIDE DEF o
<1>4. ASSUME n \in Trimmed(o, m.pools, Aggregate) PROVE Steps(m, n, T)
  <2>1. Steps(o, n, T)
    BY <1>2, <1>3, <1>4, TrimmedKept DEF Steps
  <2>2. QED
    BY <1>2, <2>1, StepsTrans
<1>5. n = m \/ n \in Trimmed(o, m.pools, Aggregate)
  BY DEF AggregateTrimmed, o
<1>6. QED
  BY <1>1, <1>4, <1>5

\* A native buffer is made, and is at hand.
LEMMA MadeKept ==
  ASSUME NEW m, NEW T, WellKept(m, T), NEW size \in Nat, NEW n, n = Made(m, size)
  PROVE  /\ WellKept(n, T \cup {Len(m.capacity) + 1}) /\ Safe(m, n)
         /\ Len(m.capacity) + 1 \in Nat \ T
         /\ n.copies = m.copies
<1> DEFINE b == Len(m.capacity) + 1
<1>m. m \in Memories /\ FramesKept(m.frames) /\ done \in Nat /\ Placed(m, T) /\ SourcesHeld(m)
  BY DEF WellKept
<1>l. Len(m.capacity) \in Nat /\ m.capacity \in Seq(Nat)
  BY <1>m DEF Memories
<1>c. Append(m.capacity, size) \in Seq(Nat) /\ Len(Append(m.capacity, size)) = b
  BY <1>l
<1>1. /\ n \in Memories /\ n.frames = m.frames /\ Len(n.capacity) = b
      /\ n.pools = m.pools /\ n.retired = m.retired /\ n.copies = m.copies
  BY <1>m, <1>c DEF Memories, Made
<1>2. /\ b \in Nat /\ Given(n) = Given(m) \cup {b} /\ b \notin Given(m)
  BY <1>l, <1>1 DEF Given
<1> HIDE DEF b
<1>3. Placed(n, T \cup {b})
  <2>1. /\ InPools(n) = InPools(m) /\ InRetired(n) = InRetired(m)
        /\ Freed(n.frames) = Freed(m.frames)
    BY <1>1 DEF InPools, InRetired
  <2>2. T \cup InPools(m) \cup InRetired(m) \cup Freed(m.frames) \subseteq Given(m)
    BY <1>m DEF Placed
  <2>3. (T \cup {b}) \cap (InPools(m) \cup InRetired(m) \cup Freed(m.frames)) = {}
    BY <1>2, <1>m, <2>2 DEF Placed
  <2>4. T \cup {b} \cup InPools(m) \cup InRetired(m) \cup Freed(m.frames) \subseteq Given(n)
    BY <1>2, <2>2
  <2>5. QED
    BY <1>1, <1>m, <2>1, <2>3, <2>4 DEF Placed
<1>4. SourcesHeld(n)
  BY <1>1, <1>m DEF SourcesHeld
<1>5. Safe(m, n)
  BY <1>1, <1>2, <1>m, <1>l DEF Safe, b
<1>6. b \notin T
  BY <1>2, <1>m DEF Placed
<1>7. QED
  BY <1>1, <1>2, <1>3, <1>4, <1>5, <1>6, <1>m DEF WellKept, b

\* A buffer at hand goes to a pool.
LEMMA PutKept ==
  ASSUME NEW m, NEW T, NEW b \in Nat \ T, WellKept(m, T \cup {b}),
         NEW pool \in Pools, NEW value \in Nat,
         NEW n, n = [m EXCEPT !.pools = m.pools \cup {Entry(pool, b, value)}]
  PROVE  Steps(m, n, T) /\ n.pools = m.pools \cup {Entry(pool, b, value)}
<1> DEFINE e0 == Entry(pool, b, value)
<1>m. /\ m \in Memories /\ FramesKept(m.frames) /\ done \in Nat /\ Placed(m, T \cup {b})
      /\ SourcesHeld(m)
  BY DEF WellKept
<1>e. e0 \in EntryType /\ e0.buffer = b
  BY DEF Entry, EntryType
<1> HIDE DEF e0
<1>1. /\ n \in Memories /\ n.frames = m.frames /\ n.capacity = m.capacity
      /\ n.pools = m.pools \cup {e0} /\ n.retired = m.retired /\ n.copies = m.copies
  BY <1>m, <1>e DEF Memories, e0
<1>2. InPools(n) = InPools(m) \cup {b} /\ InRetired(n) = InRetired(m) /\ Given(n) = Given(m)
  BY <1>1, <1>e DEF InPools, InRetired, Given
<1>3. \A d, e \in n.pools : d.buffer = e.buffer => d = e
  BY <1>1, <1>e, <1>m DEF Placed, InPools
<1>4. Placed(n, T)
  BY <1>1, <1>2, <1>3, <1>m DEF Placed
<1>5. SourcesHeld(n)
  BY <1>1, <1>m DEF SourcesHeld
<1>6. Safe(m, n)
  BY <1>1, <1>m DEF Safe, Memories
<1>7. QED
  BY <1>1, <1>4, <1>5, <1>6, <1>m DEF WellKept, Steps, e0

-----------------------------------------------------------------------------
\* Uploads.

\* What an upload into b leaves: the copy it submitted, or none.
Uploads(m, r, b, T) ==
  /\ WellKept(r.to, T) /\ Safe(m, r.to)
  /\ \/ r.token = 0 /\ r.to.copies = m.copies
     \/ /\ r.token = Len(m.copies) + 1 /\ Len(r.to.copies) = r.token
        /\ r.to.copies[r.token].to = b
        /\ \A i \in 1..Len(m.copies) : r.to.copies[i] = m.copies[i]

LEMMA StagedKept ==
  ASSUME NEW m, NEW T, NEW bucket \in Nat \ T, WellKept(m, T \cup {bucket}), NEW b \in Nat
  PROVE  Uploads(m, Staged(m, bucket, b), b, T)
<1> DEFINE token == Len(m.copies) + 1
           c == [from |-> bucket, to |-> b]
           e0 == Entry("staging", bucket, token)
           o == [m EXCEPT !.copies = Append(m.copies, c), !.pools = m.pools \cup {e0}]
           n == [m EXCEPT !.pools = m.pools \cup {e0}]
<1>m. m \in Memories /\ done \in Nat /\ SourcesHeld(m)
  BY DEF WellKept
<1>t. token \in Nat /\ m.copies \in Seq(CopyType) /\ Len(m.copies) \in Nat /\ "staging" \in Pools
  BY <1>m DEF Memories, Pools
<1>1. Steps(m, n, T) /\ n.pools = m.pools \cup {e0}
  <2> HIDE DEF token
  <2>1. n = [m EXCEPT !.pools = m.pools \cup {Entry("staging", bucket, token)}]
    OBVIOUS
  <2> HIDE DEF n
  <2>2. QED
    BY <2>1, <1>t, PutKept
<1>2. /\ Append(m.copies, c) \in Seq(CopyType) /\ Len(Append(m.copies, c)) = token
      /\ Append(m.copies, c)[token] = c
      /\ \A i \in 1..Len(m.copies) : Append(m.copies, c)[i] = m.copies[i]
  BY <1>t DEF CopyType
<1>3. Staged(m, bucket, b).to = o /\ Staged(m, bucket, b).token = token
  BY DEF Staged
<1>4. n \in Memories /\ e0.pool = "staging"
  BY <1>1 DEF Steps, WellKept, Entry
<1>5. /\ o \in Memories /\ o.frames = n.frames /\ o.capacity = n.capacity
      /\ o.pools = n.pools /\ o.retired = n.retired /\ o.copies = Append(m.copies, c)
  BY <1>1, <1>2, <1>4, <1>m DEF Memories
<1> HIDE DEF o, n
<1>6. Placed(o, T)
  BY <1>1, <1>5 DEF Steps, WellKept, Placed, InPools, InRetired, Given
<1>7. SourcesHeld(o)
  <2> SUFFICES ASSUME NEW i \in (done + 1)..token
               PROVE  Entry("staging", Append(m.copies, c)[i].from, i) \in m.pools \cup {e0}
    BY <1>1, <1>2, <1>5 DEF SourcesHeld
  <2>1. CASE i = token
    BY <2>1, <1>2
  <2>2. CASE i # token
    <3>1. i \in (done + 1)..Len(m.copies) /\ i \in 1..Len(m.copies)
      BY <2>2, <1>t, <1>m
    <3>2. QED
      BY <3>1, <1>2, <1>m DEF SourcesHeld
  <2>3. QED
    BY <2>1, <2>2
<1>8. WellKept(o, T)
  BY <1>1, <1>5, <1>6, <1>7 DEF Steps, WellKept
<1>9. Safe(m, o)
  BY <1>1, <1>5 DEF Steps, Safe
<1>10. c.to = b
  OBVIOUS
<1> HIDE DEF token, c
<1>11. QED
  BY <1>2, <1>3, <1>5, <1>8, <1>9, <1>10 DEF Uploads, token

LEMMA UploadedKept ==
  ASSUME NEW m, NEW T, NEW bucket \in Nat \ T, WellKept(m, T \cup {bucket}), NEW b \in Nat,
         NEW r \in Uploaded(m, bucket, b)
  PROVE  Uploads(m, r, b, T)
<1>1. CASE r = Staged(m, bucket, b)
  BY <1>1, StagedKept
<1>2. CASE r = PutBack(m, bucket)
  <2> DEFINE n == [m EXCEPT !.pools = m.pools \cup {Entry("staging", bucket, 0)}]
  <2>1. Steps(m, n, T)
    <3>1. n = [m EXCEPT !.pools = m.pools \cup {Entry("staging", bucket, 0)}]
      OBVIOUS
    <3>2. "staging" \in Pools /\ 0 \in Nat
      BY DEF Pools
    <3> HIDE DEF n
    <3>3. QED
      BY <3>1, <3>2, PutKept
  <2>2. r.to = n /\ r.token = 0
    BY <1>2 DEF PutBack
  <2> HIDE DEF n
  <2>3. QED
    BY <2>1, <2>2 DEF Steps, Uploads
<1>3. QED
  BY <1>1, <1>2 DEF Uploaded

LEMMA UploadsAfter ==
  ASSUME NEW m, NEW n, NEW r, NEW b, NEW T, NEW U, NEW S,
         WellKept(m, S), WellKept(n, U), Safe(m, n), n.copies = m.copies, Uploads(n, r, b, T)
  PROVE  Uploads(m, r, b, T)
<1>1. Safe(m, r.to)
  BY SafeTrans DEF WellKept, Uploads
<1>2. QED
  BY <1>1 DEF Uploads

LEMMA StageKept ==
  ASSUME NEW m, NEW T, WellKept(m, T), NEW b \in Nat, NEW r \in Stage(m, b)
  PROVE  Uploads(m, r, b, T)
<1>1. PICK n \in PoolTrimmed(TransferSeen(m), "staging") :
        r \in (LET reuse == Takeable(n, "staging", 1) IN
               IF reuse # {}
               THEN UNION {Uploaded([n EXCEPT !.pools = @ \ {e}], e.buffer, b) : e \in reuse}
               ELSE (IF CanMake(n) THEN Uploaded(Made(n, 1), Len(n.capacity) + 1, b) ELSE {})
                    \cup (IF "stage" \in Failures THEN {[to |-> n, token |-> 0]} ELSE {}))
  BY DEF Stage
<1>2. Steps(m, n, T)
  <2> DEFINE o == TransferSeen(m)
  <2>1. Steps(m, o, T)
    BY TransferSeenKept DEF Steps
  <2>2. n \in PoolTrimmed(o, "staging")
    OBVIOUS
  <2> HIDE DEF o
  <2>3. Steps(o, n, T)
    BY <2>1, <2>2, PoolTrimmedKept DEF Steps
  <2>4. QED
    BY <2>1, <2>3, StepsTrans
<1>n. WellKept(n, T) /\ Safe(m, n) /\ n.copies = m.copies /\ n \in Memories
  BY <1>2 DEF Steps, WellKept
<1>3. ASSUME NEW e \in Takeable(n, "staging", 1),
             r \in Uploaded([n EXCEPT !.pools = @ \ {e}], e.buffer, b)
      PROVE  Uploads(m, r, b, T)
  <2> DEFINE gone == {e}
             o == WithPools(n, n.pools \ gone)
  <2>1. Over(n, gone)
    BY DEF Takeable, Fitting, Over
  <2>2. r \in Uploaded(o, e.buffer, b)
    BY <1>3 DEF WithPools
  <2>4. BuffersIn(gone) = {e.buffer}
    BY DEF BuffersIn
  <2> HIDE DEF gone
  <2>3. /\ WellKept(o, T \cup BuffersIn(gone)) /\ Safe(n, o)
        /\ BuffersIn(gone) \cap T = {} /\ BuffersIn(gone) \in SUBSET Nat
        /\ o.copies = n.copies
    BY <2>1, <1>n, TakenKept
  <2> HIDE DEF o
  <2>5. WellKept(o, T \cup {e.buffer}) /\ e.buffer \in Nat \ T
    BY <2>3, <2>4
  <2>6. Uploads(o, r, b, T)
    BY <2>2, <2>5, UploadedKept
  <2>7. Safe(m, o)
    BY <2>3, <1>n, SafeTrans DEF WellKept
  <2>8. QED
    BY <2>3, <2>5, <2>6, <2>7, <1>n, UploadsAfter
<1>4. ASSUME r \in Uploaded(Made(n, 1), Len(n.capacity) + 1, b)
      PROVE  Uploads(m, r, b, T)
  <2> DEFINE o == Made(n, 1)
             k == Len(n.capacity) + 1
  <2>1. WellKept(o, T \cup {k}) /\ Safe(n, o) /\ k \in Nat \ T /\ o.copies = n.copies
    BY <1>n, MadeKept
  <2>2. r \in Uploaded(o, k, b)
    BY <1>4
  <2> HIDE DEF o, k
  <2>3. Uploads(o, r, b, T)
    BY <2>1, <2>2, UploadedKept
  <2>4. Safe(m, o)
    BY <2>1, <1>n, SafeTrans DEF WellKept
  <2>5. QED
    BY <2>1, <2>3, <2>4, <1>n, UploadsAfter
<1>5. ASSUME r = [to |-> n, token |-> 0] PROVE Uploads(m, r, b, T)
  BY <1>5, <1>n DEF Uploads
<1>6. QED
  BY <1>1, <1>3, <1>4, <1>5

-----------------------------------------------------------------------------
\* Buffers given back.

AsRetired(b) == [buffer |-> b, value |-> ready[b]]
RetiredNow(gone) == {AsRetired(b) : b \in gone \cap DOMAIN ready}

LEMMA DisposedKept ==
  ASSUME NEW m, NEW T, WellKept(m, T), NEW gone, gone \subseteq T,
         \A b \in gone \cap DOMAIN ready : ready[b] \in Nat,
         NEW n, n = Disposed(m, gone)
  PROVE  /\ Steps(m, n, T \ gone) /\ n.pools = m.pools
         /\ n.retired = m.retired \cup RetiredNow(gone)
<1> DEFINE written == gone \cap DOMAIN ready
           R == {AsRetired(b) : b \in written}
           o == [m EXCEPT !.retired = m.retired \cup R]
           U == T \ gone
           rest == gone \ written
<1>m. m \in Memories /\ FramesKept(m.frames) /\ done \in Nat /\ Placed(m, T) /\ SourcesHeld(m)
  BY DEF WellKept
<1>n. n = Free(o, rest)
  BY DEF Disposed, AsRetired
<1>t. T \subseteq Nat
  BY <1>m DEF Placed, Given
<1>r. /\ R \in SUBSET RetiredType
      /\ \A x \in R : x.buffer \in written
      /\ \A x, y \in R : x.buffer = y.buffer => x = y
      /\ \A b \in written : \E x \in R : x.buffer = b
  <2>1. \A b \in written : b \in Nat /\ ready[b] \in Nat
    BY <1>t
  <2>0. \A b : AsRetired(b).buffer = b
    BY DEF AsRetired
  <2>2. \A x \in R : x.buffer \in written /\ x = AsRetired(x.buffer)
    BY <2>0
  <2>3. \A b \in written : \E x \in R : x.buffer = b
    BY <2>0
  <2>4. R \subseteq RetiredType
    BY <2>1 DEF RetiredType, AsRetired
  <2> HIDE DEF R, written
  <2>5. QED
    BY <2>2, <2>3, <2>4
<1>s. R = RetiredNow(gone)
  BY DEF RetiredNow
<1>w. written \subseteq gone /\ rest = gone \ written
  OBVIOUS
<1> HIDE DEF R, written
<1>1. /\ o \in Memories /\ o.frames = m.frames /\ o.capacity = m.capacity
      /\ o.pools = m.pools /\ o.retired = m.retired \cup R /\ o.copies = m.copies
  BY <1>m, <1>r DEF Memories
<1> HIDE DEF o, rest
<1>2. InRetired(o) = InRetired(m) \cup written
  BY <1>1, <1>r DEF InRetired
<1>3. \A x, y \in o.retired : x.buffer = y.buffer => x = y
  <2>1. ASSUME NEW x \in R, NEW y \in m.retired PROVE x.buffer # y.buffer
    <3>1. x.buffer \in T /\ y.buffer \in InRetired(m)
      BY <1>r, <1>w DEF InRetired
    <3>2. T \cap InRetired(m) = {}
      BY <1>m DEF Placed
    <3>3. QED
      BY <3>1, <3>2
  <2>2. \A x, y \in m.retired : x.buffer = y.buffer => x = y
    BY <1>m DEF Placed
  <2>3. QED
    BY <2>1, <2>2, <1>1, <1>r
<1>4. Placed(o, U \cup rest)
  <2>1. InPools(o) = InPools(m) /\ Given(o) = Given(m) /\ Freed(o.frames) = Freed(m.frames)
    BY <1>1 DEF InPools, Given
  <2>2. /\ T \cup InPools(m) \cup InRetired(m) \cup Freed(m.frames) \subseteq Given(m)
        /\ InPools(m) \cap InRetired(m) = {}
        /\ (InPools(m) \cup InRetired(m)) \cap Freed(m.frames) = {}
        /\ T \cap (InPools(m) \cup InRetired(m) \cup Freed(m.frames)) = {}
    BY <1>m DEF Placed
  <2>3. \A d, e \in o.pools : d.buffer = e.buffer => d = e
    BY <1>m, <1>1 DEF Placed
  <2>4. (U \cup rest) \cap written = {} /\ U \cup rest \subseteq T /\ written \subseteq T
    BY <1>w
  <2> HIDE DEF U
  <2>5. QED
    BY <2>1, <2>2, <2>3, <2>4, <1>2, <1>3 DEF Placed
<1>5. SourcesHeld(o)
  BY <1>1, <1>m DEF SourcesHeld
<1>6. WellKept(o, U \cup rest)
  BY <1>1, <1>4, <1>5, <1>m DEF WellKept
<1>7. Safe(m, o)
  BY <1>1, <1>m DEF Safe, Memories
<1>8. rest \in SUBSET Nat /\ rest \cap U = {}
  BY <1>w, <1>t
<1> HIDE DEF U
<1>9. /\ WellKept(n, U) /\ Safe(o, n) /\ n.capacity = o.capacity /\ n.copies = o.copies
      /\ n.pools = o.pools /\ n.retired = o.retired
  BY <1>6, <1>8, <1>n, FreeKept
<1>10. Safe(m, n)
  BY <1>7, <1>9, <1>1, <1>m, SafeTrans DEF WellKept
<1>11. QED
  BY <1>9, <1>10, <1>1, <1>s DEF Steps, U

-----------------------------------------------------------------------------
\* The inductive invariant.

\* The target of copy i is a transient whose readers will wait for it, or it
\* was retired against a later copy, or it is in a pool behind a frame that
\* waits for it.
TargetHeld(m, t, y, u, b, i) ==
  \/ b \in DOMAIN t /\ b \in DOMAIN y /\ i <= y[b]
  \/ \E x \in m.retired : x.buffer = b /\ i <= x.value
  \/ \E e \in m.pools : /\ e.buffer = b /\ e.pool \in Kinds
                        /\ e.value \in DOMAIN u /\ i <= u[e.value].waits

\* What frame v reads is in a pool behind that frame.
ReadHeld(m, b, v) == \E e \in m.pools : e.buffer = b /\ e.pool \in Kinds /\ e.value = v

\* The copies some reader must wait for are held, and whoever of the recording
\* imported their target waits for them.
CopiesHeld(m, t, y, u, w) ==
  \A i \in (done + 1)..Len(m.copies) : i \notin w =>
    /\ TargetHeld(m, t, y, u, m.copies[i].to, i)
    /\ recording.active /\ m.copies[i].to \in DOMAIN recording.imported =>
         i <= recording.imported[m.copies[i].to]

\* A frame that has ended had been waiting for copies that have completed.
UsesFit(f, length, u) ==
  /\ f.running \subseteq DOMAIN u
  /\ \A v \in DOMAIN u :
       /\ v \in Nat /\ v < f.next /\ u[v].waits \in 0..length
       /\ v \in f.running \/ u[v].waits <= done
ReadsHeld(m, u) == \A v \in m.frames.running : \A b \in u[v].reads : ReadHeld(m, b, v)

UsageType == [kind : Kinds, usage : Nat]
TransientsKnown ==
  \A b \in DOMAIN transients :
    /\ transients[b] \in UsageType
    /\ transients[b].usage # 0 => recording.active /\ transients[b].usage = recording.serial
ReadyKnown == \A b \in DOMAIN ready : ready[b] \in 1..Len(copies)

Imports == UNION {[S -> Nat] : S \in SUBSET Nat}
RecordingType == [active : BOOLEAN, serial : Nat, imported : Imports, nodes : SUBSET Nat]
RecordingKnown ==
  /\ recording \in RecordingType
  /\ recording.active =>
       /\ recording.serial # 0
       /\ recording.nodes = Interned /\ Interned \subseteq DOMAIN recording.imported
       /\ \A b \in DOMAIN recording.imported : recording.imported[b] <= Len(copies)

UnderWay == TransientsKnown /\ ReadyKnown /\ RecordingKnown
TransientInv ==
  /\ WellKept(memory, DOMAIN transients) /\ done <= Len(copies)
  /\ CopiesHeld(memory, transients, ready, uses, unawaited)
  /\ ReadsHeld(memory, uses) /\ UsesFit(frames, Len(copies), uses)
  /\ UnderWay

\* The invariant gives what the memory consists of.
LEMMA MemoryIs ==
  ASSUME TransientInv
  PROVE  /\ memory \in Memories /\ memory.copies = copies /\ memory.pools = pools
         /\ memory.retired = retired /\ memory.frames = frames /\ memory.capacity = capacity
         /\ copies \in Seq(CopyType) /\ Len(copies) \in Nat /\ done \in Nat /\ done <= Len(copies)
         /\ DOMAIN transients \subseteq Nat /\ FramesKept(frames)
         /\ Placed(memory, DOMAIN transients)
<1>1. memory \in Memories /\ done \in Nat /\ Placed(memory, DOMAIN transients)
      /\ done <= Len(copies) /\ FramesKept(memory.frames)
  BY DEF TransientInv, WellKept
<1>2. /\ memory.copies = copies /\ memory.pools = pools
      /\ memory.retired = retired /\ memory.frames = frames /\ memory.capacity = capacity
  BY DEF memory
<1>3. DOMAIN transients \subseteq Nat
  BY <1>1 DEF Placed, Given
<1>4. copies \in Seq(CopyType)
  <2>1. memory.copies \in Seq(CopyType)
    BY <1>1 DEF Memories
  <2>2. QED
    BY <2>1, <1>2
<1>5. QED
  BY <1>1, <1>2, <1>3, <1>4

\* A memory that becomes the present one.
LEMMA BecomeIs ==
  ASSUME NEW o \in Memories, Become(o)
  PROVE  /\ memory' = o /\ copies' = o.copies /\ frames' = o.frames /\ pools' = o.pools
         /\ retired' = o.retired /\ capacity' = o.capacity
<1>1. o = [capacity |-> o.capacity, pools |-> o.pools, retired |-> o.retired,
           frames |-> o.frames, copies |-> o.copies]
  BY DEF Memories
<1>2. QED
  BY <1>1 DEF Become, memory

LEMMA KeptNext ==
  ASSUME NEW o, NEW T, WellKept(o, T), Become(o), done' = done, DOMAIN transients' = T
  PROVE  WellKept(memory, DOMAIN transients)'
<1>1. o \in Memories /\ memory' = o
  BY BecomeIs DEF WellKept
<1> HIDE DEF memory
<1>2. QED
  BY <1>1 DEF WellKept, SourcesHeld

LEMMA TargetSafe ==
  ASSUME NEW m \in Memories, NEW n, Safe(m, n), NEW t, NEW y, NEW u, NEW b, NEW i \in Nat,
         done \in Nat, done < i, TargetHeld(m, t, y, u, b, i), NEW length \in Nat,
         UsesFit(m.frames, length, u)
  PROVE  TargetHeld(n, t, y, u, b, i)
<1>1. CASE b \in DOMAIN t /\ b \in DOMAIN y /\ i <= y[b]
  BY <1>1 DEF TargetHeld
<1>2. CASE \E x \in m.retired : x.buffer = b /\ i <= x.value
  <2>1. PICK x \in m.retired : x.buffer = b /\ i <= x.value
    BY <1>2
  <2>2. x.value \in Nat /\ ~(x.value <= done)
    BY <2>1 DEF Memories, RetiredType
  <2>3. QED
    BY <2>1, <2>2 DEF Safe, TargetHeld
<1>3. CASE \E e \in m.pools : /\ e.buffer = b /\ e.pool \in Kinds
                              /\ e.value \in DOMAIN u /\ i <= u[e.value].waits
  <2>1. PICK e \in m.pools : /\ e.buffer = b /\ e.pool \in Kinds
                             /\ e.value \in DOMAIN u /\ i <= u[e.value].waits
    BY <1>3
  <2>2. u[e.value].waits \in Nat
        /\ (e.value \in m.frames.running \/ u[e.value].waits <= done)
    BY <2>1 DEF UsesFit
  <2>3. e.value \in m.frames.running
    BY <2>1, <2>2
  <2>4. e \in n.pools
    BY <2>1, <2>3 DEF Safe
  <2>5. QED
    BY <2>1, <2>4 DEF TargetHeld
<1>4. QED
  BY <1>1, <1>2, <1>3 DEF TargetHeld

LEMMA ReadsSafe ==
  ASSUME NEW m, NEW n, Safe(m, n), NEW u, ReadsHeld(m, u)
  PROVE  ReadsHeld(n, u)
<1>1. ASSUME NEW v \in n.frames.running, NEW b \in u[v].reads
      PROVE  ReadHeld(n, b, v)
  <2>1. v \in m.frames.running
    BY DEF Safe
  <2>2. PICK e \in m.pools : e.buffer = b /\ e.pool \in Kinds /\ e.value = v
    BY <2>1 DEF ReadsHeld, ReadHeld
  <2>3. e \in n.pools
    BY <2>1, <2>2 DEF Safe
  <2>4. QED
    BY <2>2, <2>3 DEF ReadHeld
<1>2. QED
  BY <1>1 DEF ReadsHeld

LEMMA UsesSafe ==
  ASSUME NEW m, NEW n, Safe(m, n), NEW u, NEW k \in Nat, NEW l \in Nat, k <= l,
         UsesFit(m.frames, k, u)
  PROVE  UsesFit(n.frames, l, u)
BY DEF Safe, UsesFit

\* A transient that is added changes nothing for the others.
LEMMA TargetMore ==
  ASSUME NEW m, NEW t, NEW s, NEW y, NEW u, NEW b, NEW i,
         TargetHeld(m, t, y, u, b, i), DOMAIN t \subseteq DOMAIN s
  PROVE  TargetHeld(m, s, y, u, b, i)
BY DEF TargetHeld

LEMMA CopiesSafe ==
  ASSUME NEW m \in Memories, NEW n \in Memories, Safe(m, n), n.copies = m.copies,
         done \in Nat, NEW t, NEW s, DOMAIN t \subseteq DOMAIN s,
         NEW y, NEW u, NEW w, NEW length \in Nat, UsesFit(m.frames, length, u),
         CopiesHeld(m, t, y, u, w)
  PROVE  CopiesHeld(n, s, y, u, w)
<1> SUFFICES ASSUME NEW i \in (done + 1)..Len(m.copies), i \notin w
             PROVE  TargetHeld(n, s, y, u, m.copies[i].to, i)
  BY DEF CopiesHeld
<1>1. TargetHeld(m, t, y, u, m.copies[i].to, i)
  BY DEF CopiesHeld
<1>2. i \in Nat /\ done < i
  BY DEF Memories
<1>3. TargetHeld(n, t, y, u, m.copies[i].to, i)
  BY <1>1, <1>2, TargetSafe
<1>4. QED
  BY <1>3, TargetMore

-----------------------------------------------------------------------------
\* Initial states, and the calls that only change the memory.

LEMMA FramesType ==
  ASSUME NEW f, FramesKept(f), Freed(f) \subseteq Nat
  PROVE  f \in BooksType(Nat, Nat \ {0})
<1> DEFINE F == Freed(f)
<1>1. f \in BooksType(F, Nat \ {0})
  BY DEF FramesKept, Books, Typed, NoUses
<1> HIDE DEF F
<1>2. DeferralOf(F) \subseteq DeferralOf(Nat) /\ F \subseteq Nat
  BY DEF DeferralOf, F
<1>3. QED
  BY <1>1, <1>2 DEF BooksType

LEMMA InitHolds ==
  ASSUME Init
  PROVE  TransientInv
<1> DEFINE f == NewFrames("vulkan")
<1>1. FramesKept(f) /\ Freed(f) = {} /\ f.running = {}
  <2>1. "vulkan" \in Backends /\ NoUses = [v \in DOMAIN NoUses |-> NoUses[v]]
        /\ DOMAIN NoUses \subseteq Nat \ {0}
    BY DEF Backends, NoUses
  <2>2. Books(f, NoUses, {})
    BY <2>1, NewFramesBooks
  <2>3. f.backend = "vulkan" /\ f.running = {}
    BY DEF NewFrames
  <2> HIDE DEF f
  <2>4. Freed(f) = {}
    BY <2>2, FreedIs
  <2>5. QED
    BY <2>2, <2>3, <2>4 DEF FramesKept
<1> HIDE DEF f
<1>2. f \in BooksType(Nat, Nat \ {0})
  BY <1>1, FramesType
<1>3. /\ memory.capacity = <<>> /\ memory.pools = {} /\ memory.retired = {}
      /\ memory.frames = f /\ memory.copies = <<>>
  BY DEF Init, memory, f
<1>4. memory \in Memories
  BY <1>2 DEF Init, memory, f, Memories
<1> HIDE DEF memory
<1>5. done = 0 /\ DOMAIN transients = {} /\ DOMAIN ready = {} /\ DOMAIN uses = {}
      /\ frames = f /\ copies = <<>> /\ Len(copies) = 0
  BY DEF Init, f
<1>6. WellKept(memory, DOMAIN transients)
  <2>1. Placed(memory, DOMAIN transients)
    BY <1>1, <1>3, <1>5 DEF Placed, InPools, InRetired
  <2>2. SourcesHeld(memory)
    BY <1>3, <1>5 DEF SourcesHeld
  <2>3. QED
    BY <1>1, <1>3, <1>4, <1>5, <2>1, <2>2 DEF WellKept
<1>7. CopiesHeld(memory, transients, ready, uses, unawaited)
  BY <1>3, <1>5 DEF CopiesHeld
<1>8. ReadsHeld(memory, uses) /\ UsesFit(frames, Len(copies), uses)
  BY <1>1, <1>3, <1>5 DEF ReadsHeld, UsesFit
<1>9. UnderWay
  <2>1. TransientsKnown /\ ReadyKnown
    BY <1>5 DEF TransientsKnown, ReadyKnown
  <2>2. <<>> \in Imports
    <3>1. <<>> \in [{} -> Nat]
      OBVIOUS
    <3>2. QED
      BY <3>1 DEF Imports
  <2>3. recording \in RecordingType /\ ~recording.active
    BY <2>2 DEF Init, RecordingType
  <2>4. QED
    BY <2>1, <2>3 DEF UnderWay, RecordingKnown
<1>10. QED
  BY <1>5, <1>6, <1>7, <1>8, <1>9 DEF TransientInv

\* The part of the invariant that is about the memory.
MemoryInv ==
  /\ WellKept(memory, DOMAIN transients) /\ done <= Len(copies)
  /\ CopiesHeld(memory, transients, ready, uses, unawaited)
  /\ ReadsHeld(memory, uses) /\ UsesFit(frames, Len(copies), uses)

\* The part that is about a memory at hand, once it becomes the present one.
Holds(m, t, y, u, w) ==
  /\ WellKept(m, DOMAIN t) /\ done <= Len(m.copies) /\ CopiesHeld(m, t, y, u, w)
  /\ ReadsHeld(m, u) /\ UsesFit(m.frames, Len(m.copies), u)

LEMMA HoldsNow ==
  ASSUME NEW o, Become(o), UNCHANGED <<recording, done>>,
         Holds(o, transients', ready', uses', unawaited')
  PROVE  MemoryInv'
<1>1. o \in Memories
  BY DEF Holds, WellKept
<1>2. memory' = o /\ copies' = o.copies /\ frames' = o.frames
  BY <1>1, BecomeIs
<1>3. WellKept(memory, DOMAIN transients)'
  BY KeptNext DEF Holds
<1> HIDE DEF memory
<1>4. CopiesHeld(memory, transients, ready, uses, unawaited)'
  <2>1. CopiesHeld(o, transients', ready', uses', unawaited')
    BY DEF Holds
  <2>2. QED
    BY <2>1, <1>2 DEF CopiesHeld, TargetHeld
<1>5. ReadsHeld(memory, uses)'
  BY <1>2 DEF Holds, ReadsHeld, ReadHeld
<1>6. UsesFit(frames, Len(copies), uses)' /\ done' <= Len(copies')
  BY <1>2 DEF Holds, UsesFit
<1>7. QED
  BY <1>3, <1>4, <1>5, <1>6 DEF MemoryInv

\* A memory from which nothing needed was taken.
LEMMA HoldsSafe ==
  ASSUME TransientInv, NEW o, NEW t, WellKept(o, DOMAIN t), Safe(memory, o),
         o.copies = copies, DOMAIN transients \subseteq DOMAIN t
  PROVE  Holds(o, t, ready, uses, unawaited)
<1>1. o \in Memories /\ memory \in Memories /\ memory.copies = copies /\ memory.frames = frames
      /\ done \in Nat /\ Len(copies) \in Nat /\ done <= Len(copies)
  BY MemoryIs DEF WellKept
<1>2. /\ CopiesHeld(memory, transients, ready, uses, unawaited)
      /\ ReadsHeld(memory, uses) /\ UsesFit(memory.frames, Len(copies), uses)
  BY <1>1 DEF TransientInv
<1> HIDE DEF memory
<1>3. CopiesHeld(o, t, ready, uses, unawaited)
  BY <1>1, <1>2, CopiesSafe
<1>4. ReadsHeld(o, uses)
  BY <1>2, ReadsSafe
<1>5. UsesFit(o.frames, Len(copies), uses)
  BY <1>1, <1>2, UsesSafe
<1>6. QED
  BY <1>1, <1>3, <1>4, <1>5 DEF Holds

LEMMA InvParts ==
  ASSUME MemoryInv, UnderWay
  PROVE  TransientInv
BY DEF MemoryInv, TransientInv

\* The recording goes on as it was, with one transient more that nothing has
\* imported yet.
LEMMA UnderWayWith ==
  ASSUME TransientInv, recording.active, NEW b \in Nat, NEW kind \in Kinds,
         b \notin DOMAIN transients,
         transients' = With(transients, b, [kind |-> kind, usage |-> 0]),
         UNCHANGED <<ready, recording>>, copies' = copies
  PROVE  UnderWay'
<1>1. UnderWay
  BY DEF TransientInv
<1>2. DOMAIN transients' = DOMAIN transients \cup {b}
      /\ \A x \in DOMAIN transients : transients'[x] = transients[x]
  BY DEF With
<1>3. transients'[b] \in UsageType /\ transients'[b].usage = 0
  BY DEF With, UsageType
<1>4. TransientsKnown'
  BY <1>1, <1>2, <1>3 DEF UnderWay, TransientsKnown
<1>5. ReadyKnown'
  BY <1>1 DEF UnderWay, ReadyKnown
<1>6. Interned' = Interned
  <2>1. recording.serial # 0
    BY <1>1 DEF UnderWay, RecordingKnown
  <2>2. QED
    BY <2>1, <1>2, <1>3 DEF Interned
<1>7. RecordingKnown'
  BY <1>1, <1>6 DEF UnderWay, RecordingKnown
<1>8. QED
  BY <1>4, <1>5, <1>7 DEF UnderWay

LEMMA UnderWaySame ==
  ASSUME TransientInv, UNCHANGED <<transients, ready, recording>>, copies' = copies
  PROVE  UnderWay'
<1>1. UnderWay
  BY DEF TransientInv
<1>2. Interned' = Interned
  BY DEF Interned
<1>3. QED
  BY <1>1, <1>2 DEF UnderWay, TransientsKnown, ReadyKnown, RecordingKnown

\* Pools are trimmed, one or all of them.
LEMMA BothTrimmedKept ==
  ASSUME NEW m, NEW S, NEW T, WellKept(m, S), NEW o, Steps(m, o, T),
         NEW pool, NEW n \in PoolTrimmed(o, pool), NEW p \in AggregateTrimmed(n)
  PROVE  Steps(m, p, T)
<1>1. Steps(o, n, T)
  BY PoolTrimmedKept DEF Steps
<1>2. Steps(n, p, T)
  BY <1>1, AggregateTrimmedKept DEF Steps
<1>3. Steps(m, n, T)
  BY <1>1, StepsTrans
<1>4. QED
  BY <1>2, <1>3, StepsTrans

LEMMA AcquireKeeps ==
  ASSUME TransientInv, NEW kind \in Kinds, NEW size \in Sizes, Acquire(kind, size)
  PROVE  TransientInv'
<1> DEFINE T == DOMAIN transients
<1>i. /\ memory \in Memories /\ memory.copies = copies /\ T \subseteq Nat
      /\ WellKept(memory, T) /\ Safe(memory, memory)
  BY MemoryIs, SafeSelf DEF TransientInv
<1>a. recording.active /\ UNCHANGED <<ready, recording, done, uses, unawaited>>
  BY DEF Acquire, history
<1>s. size \in Nat
  BY TransientAssumption
<1>1. PICK m \in GraphicsSeen(memory) :
     \/ \E e \in Takeable(m, kind, size) :
          \E n \in PoolTrimmed([m EXCEPT !.pools = @ \ {e}], kind) :
          \E o \in AggregateTrimmed(n) :
            /\ Become(o)
            /\ transients' = With(transients, e.buffer, [kind |-> kind, usage |-> 0])
     \/ /\ Takeable(m, kind, size) = {}
        /\ \E n \in PoolTrimmed(m, kind) : \E o \in AggregateTrimmed(n) :
           \/ /\ CanMake(o) /\ Become(Made(o, size))
              /\ transients' = With(transients, Len(o.capacity) + 1,
                                    [kind |-> kind, usage |-> 0])
           \/ /\ "alloc" \in Failures /\ Become(o) /\ UNCHANGED transients
  BY DEF Acquire
<1> HIDE DEF memory, T
<1>2. Steps(memory, m, T)
  BY <1>1, <1>i, GraphicsSeenKept DEF Steps
<1>m. WellKept(m, T) /\ m \in Memories
  BY <1>2 DEF Steps, WellKept
\* What is left to show of a memory that gains the transient b.
<1>3. ASSUME NEW b \in Nat, b \notin T, NEW o, WellKept(o, T \cup {b}), Safe(memory, o),
             o.copies = copies, Become(o),
             transients' = With(transients, b, [kind |-> kind, usage |-> 0])
      PROVE  TransientInv'
  <2>1. DOMAIN transients' = T \cup {b}
    BY <1>3 DEF With, T
  <2>2. T = DOMAIN transients
    BY DEF T
  <2>3. Holds(o, transients', ready, uses, unawaited)
    BY <2>1, <2>2, <1>3, HoldsSafe
  <2>4. Holds(o, transients', ready', uses', unawaited')
    BY <2>3, <1>a
  <2>5. MemoryInv'
    BY <2>4, <1>3, <1>a, HoldsNow
  <2>6. copies' = copies
    BY <1>3 DEF Become
  <2>7. UnderWay'
    BY <2>2, <2>6, <1>3, <1>a, UnderWayWith
  <2>8. QED
    BY <2>5, <2>7 DEF MemoryInv, TransientInv
<1>4. ASSUME NEW e \in Takeable(m, kind, size),
             NEW n \in PoolTrimmed([m EXCEPT !.pools = @ \ {e}], kind),
             NEW o \in AggregateTrimmed(n), Become(o),
             transients' = With(transients, e.buffer, [kind |-> kind, usage |-> 0])
      PROVE  TransientInv'
  <2> DEFINE gone == {e}
             p == WithPools(m, m.pools \ gone)
             b == e.buffer
  <2>1. Over(m, gone)
    BY DEF Takeable, Fitting, Over
  <2>2. n \in PoolTrimmed(p, kind)
    BY <1>4 DEF WithPools
  <2>3. BuffersIn(gone) = {b}
    BY DEF BuffersIn
  <2>p. p = WithPools(m, m.pools \ gone)
    OBVIOUS
  <2> HIDE DEF gone, p
  <2>4. /\ WellKept(p, T \cup BuffersIn(gone)) /\ Safe(m, p)
        /\ BuffersIn(gone) \cap T = {} /\ BuffersIn(gone) \in SUBSET Nat
        /\ p.capacity = m.capacity /\ p.copies = m.copies
    BY ONLY <2>1, <2>p, <1>m, TakenKept
  <2>5. Steps(memory, p, T \cup {b}) /\ b \in Nat /\ b \notin T
    <3>1. Steps(m, p, T \cup {b})
      BY <2>4, <2>3 DEF Steps
    <3>2. QED
      BY <3>1, <2>3, <2>4, <1>i, <1>2, StepsTrans
  <2>6. Steps(memory, o, T \cup {b})
    BY <2>2, <2>5, <1>4, <1>i, BothTrimmedKept
  <2>7. QED
    BY <2>5, <2>6, <1>3, <1>4, <1>i DEF Steps
<1>5. ASSUME NEW n \in PoolTrimmed(m, kind), NEW o \in AggregateTrimmed(n),
             Become(Made(o, size)),
             transients' = With(transients, Len(o.capacity) + 1,
                                [kind |-> kind, usage |-> 0])
      PROVE  TransientInv'
  <2> DEFINE p == Made(o, size)
             b == Len(o.capacity) + 1
  <2>1. Steps(memory, o, T)
    BY <1>5, <1>i, <1>2, BothTrimmedKept
  <2>2. WellKept(p, T \cup {b}) /\ Safe(o, p) /\ b \in Nat \ T /\ p.copies = o.copies
    BY <2>1, <1>s, MadeKept DEF Steps
  <2>0. Become(p) /\ transients' = With(transients, b, [kind |-> kind, usage |-> 0])
    BY <1>5
  <2> HIDE DEF p, b
  <2>3. Safe(memory, p)
    BY <2>1, <2>2, <1>i, SafeTrans DEF Steps, WellKept
  <2>4. QED
    BY <2>0, <2>1, <2>2, <2>3, <1>3, <1>i DEF Steps
<1>6. ASSUME NEW n \in PoolTrimmed(m, kind), NEW o \in AggregateTrimmed(n), Become(o),
             UNCHANGED transients
      PROVE  TransientInv'
  <2>1. Steps(memory, o, T)
    BY <1>6, <1>i, <1>2, BothTrimmedKept
  <2>2. Holds(o, transients, ready, uses, unawaited)
    BY <2>1, <1>i, HoldsSafe DEF Steps, T
  <2>3. MemoryInv'
    BY <2>2, <1>6, <1>a, HoldsNow
  <2>4. copies' = copies
    BY <2>1, <1>6, <1>i DEF Become, Steps
  <2>5. UnderWay'
    BY <2>4, <1>6, <1>a, UnderWaySame
  <2>6. QED
    BY <2>3, <2>5 DEF MemoryInv, TransientInv
<1>7. QED
  BY <1>1, <1>4, <1>5, <1>6

LEMMA ReleaseStagingKeeps ==
  ASSUME TransientInv, ReleaseStaging
  PROVE  TransientInv'
<1> DEFINE T == DOMAIN transients
<1>i. memory \in Memories /\ memory.copies = copies /\ WellKept(memory, T)
  BY MemoryIs DEF TransientInv
<1>1. PICK m \in GraphicsSeen(TransferSeen(memory)) :
        \E n1 \in PoolTrimmed(m, "staging") : \E n2 \in PoolTrimmed(n1, "buffer") :
        \E n3 \in PoolTrimmed(n2, "counter") : \E n4 \in AggregateTrimmed(n3) :
          n4 # memory /\ Become(n4)
  BY DEF ReleaseStaging
<1>n. PICK n1 \in PoolTrimmed(m, "staging") :
        \E n2 \in PoolTrimmed(n1, "buffer") : \E n3 \in PoolTrimmed(n2, "counter") :
        \E n4 \in AggregateTrimmed(n3) : Become(n4)
  BY <1>1
<1>p. PICK n2 \in PoolTrimmed(n1, "buffer") :
        \E n3 \in PoolTrimmed(n2, "counter") : \E n4 \in AggregateTrimmed(n3) : Become(n4)
  BY <1>n
<1>q. PICK n3 \in PoolTrimmed(n2, "counter") : \E n4 \in AggregateTrimmed(n3) : Become(n4)
  BY <1>p
<1>o. PICK o \in AggregateTrimmed(n3) : Become(o)
  BY <1>q
<1>a. UNCHANGED <<transients, ready, recording, done, uses, unawaited>>
  BY DEF ReleaseStaging, history
<1> DEFINE s == TransferSeen(memory)
<1>2. Steps(memory, s, T)
  BY <1>i, TransferSeenKept DEF Steps
<1>0. m \in GraphicsSeen(s)
  OBVIOUS
<1> HIDE DEF memory, s, T
<1>3. Steps(memory, m, T)
  <2>1. Steps(s, m, T)
    BY <1>0, <1>2, GraphicsSeenKept DEF Steps
  <2>2. QED
    BY <2>1, <1>2, <1>i, StepsTrans
<1>4. Steps(memory, n1, T)
  <2>1. Steps(m, n1, T)
    BY <1>3, PoolTrimmedKept DEF Steps
  <2>2. QED
    BY <2>1, <1>3, <1>i, StepsTrans
<1>5. Steps(memory, n2, T)
  <2>1. Steps(n1, n2, T)
    BY <1>4, PoolTrimmedKept DEF Steps
  <2>2. QED
    BY <2>1, <1>4, <1>i, StepsTrans
<1>6. Steps(memory, o, T)
  BY <1>5, <1>i, BothTrimmedKept
<1>7. Holds(o, transients, ready, uses, unawaited)
  BY <1>6, <1>i, HoldsSafe DEF Steps, T
<1>8. MemoryInv'
  BY <1>o, <1>7, <1>a, HoldsNow
<1>9. copies' = copies
  BY <1>o, <1>6, <1>i DEF Become, Steps
<1>10. UnderWay'
  BY <1>9, <1>a, UnderWaySame
<1>11. QED
  BY <1>8, <1>10 DEF MemoryInv, TransientInv

-----------------------------------------------------------------------------
\* Writes.

LEMMA HoldsAfter ==
  ASSUME NEW m, NEW t, NEW y, NEW u, NEW w, Holds(m, t, y, u, w),
         NEW o, NEW s, WellKept(o, DOMAIN s), Safe(m, o), o.copies = m.copies,
         DOMAIN t \subseteq DOMAIN s
  PROVE  Holds(o, s, y, u, w)
<1>1. /\ o \in Memories /\ m \in Memories /\ done \in Nat /\ Len(m.copies) \in Nat
      /\ CopiesHeld(m, t, y, u, w) /\ ReadsHeld(m, u) /\ done <= Len(m.copies)
      /\ UsesFit(m.frames, Len(m.copies), u)
  BY DEF Holds, WellKept, Memories
<1>2. CopiesHeld(o, s, y, u, w)
  BY <1>1, CopiesSafe
<1>3. ReadsHeld(o, u)
  BY <1>1, ReadsSafe
<1>4. UsesFit(o.frames, Len(m.copies), u)
  <2> DEFINE k == Len(m.copies)
  <2>1. k \in Nat /\ k <= k /\ UsesFit(m.frames, k, u)
    BY <1>1
  <2> HIDE DEF k
  <2>2. UsesFit(o.frames, k, u)
    BY ONLY <2>1, UsesSafe, Safe(m, o)
  <2>3. QED
    BY <2>2 DEF k
<1>5. QED
  BY <1>1, <1>2, <1>3, <1>4 DEF Holds

\* The copies before an upload are held as they were.
LEMMA EarlierHeld ==
  ASSUME NEW m, NEW t, NEW y, NEW u, NEW w, Holds(m, t, y, u, w),
         NEW b, NEW r, Uploads(m, r, b, DOMAIN t), r.token # 0,
         NEW i \in (done + 1)..Len(r.to.copies), i # r.token, i \notin w
  PROVE  /\ TargetHeld(r.to, t, y, u, r.to.copies[i].to, i)
         /\ recording.active /\ r.to.copies[i].to \in DOMAIN recording.imported =>
              i <= recording.imported[r.to.copies[i].to]
         /\ i \in Nat /\ i < r.token
<1>1. /\ m \in Memories /\ done \in Nat /\ Len(m.copies) \in Nat
      /\ CopiesHeld(m, t, y, u, w) /\ UsesFit(m.frames, Len(m.copies), u)
  BY DEF Holds, WellKept, Memories
<1>2. /\ Safe(m, r.to) /\ r.token = Len(m.copies) + 1 /\ Len(r.to.copies) = r.token
      /\ \A k \in 1..Len(m.copies) : r.to.copies[k] = m.copies[k]
  BY DEF Uploads
<1>3. i \in (done + 1)..Len(m.copies) /\ i \in 1..Len(m.copies) /\ i \in Nat /\ done < i
      /\ i < r.token
  BY <1>1, <1>2
<1>4. r.to.copies[i] = m.copies[i]
  BY <1>2, <1>3
<1>5. TargetHeld(m, t, y, u, m.copies[i].to, i)
  BY <1>1, <1>3 DEF CopiesHeld
<1>6. TargetHeld(r.to, t, y, u, m.copies[i].to, i)
  BY <1>1, <1>2, <1>3, <1>5, TargetSafe
<1>7. QED
  BY <1>1, <1>3, <1>4, <1>6 DEF CopiesHeld

\* What an upload leaves but for its copy.
LEMMA UploadLeaves ==
  ASSUME NEW m, NEW t, NEW y, NEW u, NEW w, Holds(m, t, y, u, w),
         NEW b, NEW r, Uploads(m, r, b, DOMAIN t), r.token # 0
  PROVE  /\ WellKept(r.to, DOMAIN t) /\ done <= Len(r.to.copies)
         /\ ReadsHeld(r.to, u) /\ UsesFit(r.to.frames, Len(r.to.copies), u)
<1>1. /\ m \in Memories /\ done \in Nat /\ Len(m.copies) \in Nat /\ done <= Len(m.copies)
      /\ ReadsHeld(m, u) /\ UsesFit(m.frames, Len(m.copies), u)
  BY DEF Holds, WellKept, Memories
<1>2. /\ Safe(m, r.to) /\ Len(r.to.copies) = Len(m.copies) + 1 /\ WellKept(r.to, DOMAIN t)
  BY DEF Uploads
<1>3. Len(r.to.copies) \in Nat /\ Len(m.copies) <= Len(r.to.copies)
      /\ done <= Len(r.to.copies)
  BY <1>1, <1>2
<1>4. ReadsHeld(r.to, u)
  BY <1>1, <1>2, ReadsSafe
<1>5. UsesFit(r.to.frames, Len(r.to.copies), u)
  <2> DEFINE k == Len(m.copies)
             l == Len(r.to.copies)
             f == r.to
  <2>1. k \in Nat /\ l \in Nat /\ k <= l /\ UsesFit(m.frames, k, u) /\ Safe(m, f)
    BY <1>1, <1>2, <1>3
  <2> HIDE DEF k, l, f
  <2>2. UsesFit(f.frames, l, u)
    BY ONLY <2>1, UsesSafe
  <2>3. QED
    BY <2>2 DEF l, f
<1>6. QED
  BY <1>2, <1>3, <1>4, <1>5

\* Its value is recorded: readers wait for it, but those that have imported the
\* buffer before.
LEMMA UploadRecorded ==
  ASSUME NEW m, NEW t, NEW y, NEW u, NEW w, Holds(m, t, y, u, w),
         NEW b \in DOMAIN t, NEW r, Uploads(m, r, b, DOMAIN t), r.token # 0
  PROVE  Holds(r.to, t, With(y, b, r.token), u, w \cup Late(b, r))
<1> DEFINE z == With(y, b, r.token)
<1>1. /\ WellKept(r.to, DOMAIN t) /\ done <= Len(r.to.copies)
      /\ ReadsHeld(r.to, u) /\ UsesFit(r.to.frames, Len(r.to.copies), u)
  BY UploadLeaves
<1>2. /\ DOMAIN z = DOMAIN y \cup {b} /\ z[b] = r.token
      /\ \A x \in DOMAIN y : x # b => z[x] = y[x]
  BY DEF With
<1>3. r.to.copies[r.token].to = b /\ r.token \in Nat
  <2>1. Len(m.copies) \in Nat
    BY DEF Holds, WellKept, Memories
  <2>2. QED
    BY <2>1 DEF Uploads
<1> HIDE DEF z
<1>4. ASSUME NEW i \in (done + 1)..Len(r.to.copies), i \notin w \cup Late(b, r)
      PROVE  /\ TargetHeld(r.to, t, z, u, r.to.copies[i].to, i)
             /\ recording.active /\ r.to.copies[i].to \in DOMAIN recording.imported =>
                  i <= recording.imported[r.to.copies[i].to]
  <2>1. CASE i = r.token
    <3>1. TargetHeld(r.to, t, z, u, b, i)
      BY <2>1, <1>2, <1>3 DEF TargetHeld
    <3>2. ~(recording.active /\ b \in DOMAIN recording.imported)
      BY <2>1, <1>4 DEF Late
    <3>3. QED
      BY <2>1, <3>1, <3>2, <1>3
  <2>2. CASE i # r.token
    <3> DEFINE c == r.to.copies[i].to
    <3>1. /\ TargetHeld(r.to, t, y, u, c, i) /\ i \in Nat /\ i < r.token
          /\ recording.active /\ c \in DOMAIN recording.imported =>
               i <= recording.imported[c]
      BY <2>2, <1>4, EarlierHeld
    <3> HIDE DEF c
    <3>2. TargetHeld(r.to, t, z, u, c, i)
      BY <3>1, <1>2, <1>3 DEF TargetHeld
    <3>3. QED
      BY <3>1, <3>2 DEF c
  <2>3. QED
    BY <2>1, <2>2
<1>5. CopiesHeld(r.to, t, z, u, w \cup Late(b, r))
  BY <1>4 DEF CopiesHeld
<1>6. QED
  BY <1>1, <1>5 DEF Holds, z

\* It is not: nobody waits for it.
LEMMA UploadForgotten ==
  ASSUME NEW m, NEW t, NEW y, NEW u, NEW w, Holds(m, t, y, u, w),
         NEW b \in DOMAIN t, NEW r, Uploads(m, r, b, DOMAIN t), r.token # 0
  PROVE  Holds(r.to, t, y, u, w \cup {r.token})
<1>1. /\ WellKept(r.to, DOMAIN t) /\ done <= Len(r.to.copies)
      /\ ReadsHeld(r.to, u) /\ UsesFit(r.to.frames, Len(r.to.copies), u)
  BY UploadLeaves
<1>2. CopiesHeld(r.to, t, y, u, w \cup {r.token})
  <2> SUFFICES ASSUME NEW i \in (done + 1)..Len(r.to.copies), i \notin w \cup {r.token}
               PROVE  /\ TargetHeld(r.to, t, y, u, r.to.copies[i].to, i)
                      /\ recording.active
                         /\ r.to.copies[i].to \in DOMAIN recording.imported =>
                           i <= recording.imported[r.to.copies[i].to]
    BY DEF CopiesHeld
  <2>1. i # r.token /\ i \notin w
    OBVIOUS
  <2>2. QED
    BY <2>1, EarlierHeld
<1>3. QED
  BY <1>1, <1>2 DEF Holds

LEMMA HoldsInv ==
  ASSUME TransientInv
  PROVE  /\ Holds(memory, transients, ready, uses, unawaited)
         /\ memory.copies = copies /\ WellKept(memory, DOMAIN transients)
<1>1. memory.copies = copies /\ memory.frames = frames
  BY DEF memory
<1> HIDE DEF memory
<1>2. QED
  BY <1>1 DEF TransientInv, Holds

\* The recording after an upload that was recorded, or none.
LEMMA UnderWayWritten ==
  ASSUME TransientInv, NEW b, NEW token \in 1..Len(copies'), Len(copies') \in Nat,
         Len(copies) <= Len(copies'), ready' \in {ready, With(ready, b, token)},
         UNCHANGED <<transients, recording>>
  PROVE  UnderWay'
<1>1. UnderWay /\ Len(copies) \in Nat
  BY MemoryIs DEF TransientInv
<1>2. Interned' = Interned
  BY DEF Interned
<1>3. TransientsKnown'
  BY <1>1 DEF UnderWay, TransientsKnown
<1>4. ReadyKnown'
  <2>1. \A x \in DOMAIN ready : ready[x] \in 1..Len(copies')
    BY <1>1 DEF UnderWay, ReadyKnown
  <2>2. QED
    BY <2>1 DEF With, ReadyKnown
<1>5. RecordingKnown'
  <2>1. ASSUME recording.active, NEW x \in DOMAIN recording.imported
        PROVE  recording.imported[x] <= Len(copies')
    <3>1. recording.imported \in Imports /\ recording.imported[x] <= Len(copies)
      BY <1>1, <2>1 DEF UnderWay, RecordingKnown, RecordingType
    <3>2. recording.imported[x] \in Nat
      BY <3>1 DEF Imports
    <3>3. QED
      BY <3>1, <3>2, <1>1
  <2>2. QED
    BY <2>1, <1>1, <1>2 DEF UnderWay, RecordingKnown
<1>6. QED
  BY <1>3, <1>4, <1>5 DEF UnderWay

LEMMA UploadLengths ==
  ASSUME NEW m, NEW r, NEW b, NEW T, NEW S, WellKept(m, S), Uploads(m, r, b, T)
  PROVE  /\ Len(m.copies) \in Nat /\ Len(r.to.copies) \in Nat
         /\ Len(m.copies) <= Len(r.to.copies)
         /\ r.token # 0 => r.token \in 1..Len(r.to.copies)
<1>1. Len(m.copies) \in Nat /\ Len(r.to.copies) \in Nat
  BY DEF WellKept, Memories, Uploads
<1>2. QED
  BY <1>1 DEF Uploads

\* An upload that failed leaves what was held.
LEMMA UploadRefused ==
  ASSUME NEW m, NEW t, NEW y, NEW u, NEW w, Holds(m, t, y, u, w),
         NEW b, NEW r, Uploads(m, r, b, DOMAIN t), r.token = 0
  PROVE  Holds(r.to, t, y, u, w)
<1>1. \/ r.to.copies = m.copies
      \/ r.token = Len(m.copies) + 1 /\ Len(m.copies) \in Nat
  BY UploadLengths DEF Holds, Uploads
<1>2. WellKept(r.to, DOMAIN t) /\ Safe(m, r.to) /\ r.to.copies = m.copies
  BY <1>1 DEF Uploads
<1>3. QED
  BY <1>2, HoldsAfter

LEMMA WriteKeeps ==
  ASSUME TransientInv, NEW b \in DOMAIN transients, Write(b)
  PROVE  TransientInv'
<1>1. PICK r \in Stage(memory, b) :
        Become(r.to) /\ Recorded(b, r.token) /\ unawaited' = unawaited \cup Late(b, r)
  BY DEF Write
<1>a. UNCHANGED <<transients, recording, done, uses>>
  BY DEF Write
<1>h. /\ Holds(memory, transients, ready, uses, unawaited)
      /\ memory.copies = copies /\ WellKept(memory, DOMAIN transients) /\ b \in Nat
  BY HoldsInv, MemoryIs
<1> HIDE DEF memory
<1>2. Uploads(memory, r, b, DOMAIN transients)
  BY <1>h, StageKept
<1>3. Holds(r.to, transients, ready', uses, unawaited')
  <2>1. CASE r.token = 0
    <3>1. ready' = ready /\ unawaited' = unawaited
      BY <2>1, <1>1 DEF Recorded, Late
    <3>2. QED
      BY <2>1, <3>1, <1>2, <1>h, UploadRefused
  <2>2. CASE r.token # 0
    <3>1. ready' = With(ready, b, r.token)
      BY <2>2, <1>1 DEF Recorded
    <3>2. QED
      BY <2>2, <3>1, <1>1, <1>2, <1>h, UploadRecorded
  <2>3. QED
    BY <2>1, <2>2
<1>4. MemoryInv'
  <2>1. Holds(r.to, transients', ready', uses', unawaited')
    BY <1>3, <1>a
  <2>2. QED
    BY <2>1, <1>1, <1>a, HoldsNow
<1>5. /\ Len(copies) \in Nat /\ Len(copies') \in Nat /\ Len(copies) <= Len(copies')
      /\ r.token # 0 => r.token \in 1..Len(copies')
  <2>1. copies' = r.to.copies
    BY <1>1 DEF Become
  <2>2. QED
    BY <2>1, <1>2, <1>h, UploadLengths
<1>6. UnderWay'
  <2>1. CASE r.token = 0
    <3>1. ready' = ready
      BY <2>1, <1>1 DEF Recorded
    <3>2. copies' = copies
      <4>1. r.to.copies = memory.copies
        BY <2>1, <1>2, <1>h, <1>5 DEF Uploads
      <4>2. QED
        BY <4>1, <1>1, <1>h DEF Become
    <3>3. QED
      BY <3>1, <3>2, <1>a, UnderWaySame
  <2>2. CASE r.token # 0
    <3>1. ready' = With(ready, b, r.token)
      BY <2>2, <1>1 DEF Recorded
    <3>2. QED
      BY <2>2, <3>1, <1>5, <1>a, UnderWayWritten
  <2>3. QED
    BY <2>1, <2>2
<1>7. QED
  BY <1>4, <1>6 DEF MemoryInv, TransientInv

LEMMA WithTwice ==
  ASSUME NEW y, NEW b, NEW j, NEW k
  PROVE  With(With(y, b, j), b, k) = With(y, b, k)
BY DEF With

LEMMA WriteCommandsKeeps ==
  ASSUME TransientInv, NEW b \in DOMAIN transients, WriteCommands(b)
  PROVE  TransientInv'
<1> DEFINE t == transients
<1>1. PICK r \in Stage(memory, b) :
        IF r.token = 0 THEN Become(r.to) /\ UNCHANGED <<ready, unawaited>>
        ELSE \E s \in Stage(r.to, b) :
               /\ Become(s.to) /\ Recorded(b, s.token)
               /\ unawaited' = unawaited \cup Late(b, r) \cup Late(b, s) \cup
                                (IF s.token = 0 THEN {r.token} ELSE {})
  BY DEF WriteCommands
<1>a. UNCHANGED <<transients, recording, done, uses>>
  BY DEF WriteCommands
<1>h. /\ Holds(memory, t, ready, uses, unawaited)
      /\ memory.copies = copies /\ WellKept(memory, DOMAIN t) /\ b \in Nat /\ b \in DOMAIN t
  BY HoldsInv, MemoryIs
<1> HIDE DEF memory, t
<1>2. Uploads(memory, r, b, DOMAIN t)
  BY <1>h, StageKept
<1>3. Len(copies) \in Nat /\ Len(r.to.copies) \in Nat /\ Len(copies) <= Len(r.to.copies)
      /\ WellKept(r.to, DOMAIN t)
  BY <1>2, <1>h, UploadLengths DEF Uploads
<1>4. CASE r.token = 0
  <2>1. Become(r.to) /\ UNCHANGED <<ready, unawaited>>
    BY <1>1, <1>4
  <2>2. Holds(r.to, t, ready, uses, unawaited)
    BY <1>4, <1>2, <1>h, UploadRefused
  <2>3. Holds(r.to, transients', ready', uses', unawaited')
    BY <2>1, <2>2, <1>a DEF t
  <2>4. MemoryInv'
    BY <2>1, <2>3, <1>a, HoldsNow
  <2>5. copies' = copies
    <3>1. r.to.copies = memory.copies
      BY <1>4, <1>2, <1>h, <1>3 DEF Uploads
    <3>2. QED
      BY <3>1, <2>1, <1>h DEF Become
  <2>6. UnderWay'
    BY <2>1, <2>5, <1>a, UnderWaySame
  <2>7. QED
    BY <2>4, <2>6 DEF MemoryInv, TransientInv
<1>5. CASE r.token # 0
  <2>1. PICK s \in Stage(r.to, b) :
          /\ Become(s.to) /\ Recorded(b, s.token)
          /\ unawaited' = unawaited \cup Late(b, r) \cup Late(b, s) \cup
                           (IF s.token = 0 THEN {r.token} ELSE {})
    BY <1>1, <1>5
  <2>2. Uploads(r.to, s, b, DOMAIN t)
    BY <1>3, <1>h, StageKept
  <2>3. /\ Len(s.to.copies) \in Nat /\ Len(r.to.copies) <= Len(s.to.copies)
        /\ s.token # 0 => s.token \in 1..Len(s.to.copies)
    BY <2>2, <1>3, UploadLengths
  <2>4. copies' = s.to.copies
    BY <2>1 DEF Become
  <2>5. Late(b, r) \subseteq {r.token}
    BY DEF Late
  <2>6. CASE s.token # 0
    <3> DEFINE y1 == With(ready, b, r.token)
               w1 == unawaited \cup Late(b, r)
    <3>1. Holds(r.to, t, y1, uses, w1)
      BY <1>5, <1>2, <1>h, UploadRecorded
    <3>2. ready' = With(y1, b, s.token)
      BY <2>1, <2>6, WithTwice DEF Recorded
    <3>3. unawaited' = w1 \cup Late(b, s)
      BY <2>1, <2>6
    <3> HIDE DEF y1, w1
    <3>4. Holds(s.to, t, With(y1, b, s.token), uses, w1 \cup Late(b, s))
      BY <2>6, <2>2, <3>1, <1>h, UploadRecorded
    <3>5. Holds(s.to, transients', ready', uses', unawaited')
      BY <3>2, <3>3, <3>4, <1>a DEF t
    <3>6. MemoryInv'
      BY <2>1, <3>5, <1>a, HoldsNow
    <3>7. ready' = With(ready, b, s.token)
      BY <2>1, <2>6 DEF Recorded
    <3>8. UnderWay'
      BY <2>3, <2>4, <2>6, <3>7, <1>3, <1>a, UnderWayWritten
    <3>9. QED
      BY <3>6, <3>8 DEF MemoryInv, TransientInv
  <2>7. CASE s.token = 0
    <3> DEFINE w1 == unawaited \cup {r.token}
    <3>1. Holds(r.to, t, ready, uses, w1)
      BY <1>5, <1>2, <1>h, UploadForgotten
    <3>2. ready' = ready /\ Late(b, s) = {}
      BY <2>1, <2>7 DEF Recorded, Late
    <3>3. unawaited' = w1
      BY <2>1, <2>5, <2>7, <3>2
    <3> HIDE DEF w1
    <3>4. Holds(s.to, t, ready, uses, w1)
      BY <2>7, <2>2, <3>1, UploadRefused
    <3>5. Holds(s.to, transients', ready', uses', unawaited')
      BY <3>2, <3>3, <3>4, <1>a DEF t
    <3>6. MemoryInv'
      BY <2>1, <3>5, <1>a, HoldsNow
    <3>7. 1 \in 1..Len(copies') /\ Len(copies) <= Len(copies') /\ Len(copies') \in Nat
      <4>1. r.token \in 1..Len(r.to.copies)
        BY <1>5, <1>2, <1>h, UploadLengths
      <4>2. QED
        BY <4>1, <2>3, <2>4, <1>3
    <3>8. UnderWay'
      BY <3>2, <3>7, <1>a, UnderWayWritten
    <3>9. QED
      BY <3>6, <3>8 DEF MemoryInv, TransientInv
  <2>8. QED
    BY <2>6, <2>7
<1>6. QED
  BY <1>4, <1>5

-----------------------------------------------------------------------------
\* Buffers given back, by a call or by a frame that begins.

\* Whoever of a recording imported the target of a copy waits for it.
ImportsWait(rec, m, w) ==
  \A i \in (done + 1)..Len(m.copies) : i \notin w =>
    (rec.active /\ m.copies[i].to \in DOMAIN rec.imported =>
       i <= rec.imported[m.copies[i].to])

\* The recording may change with the memory.
LEMMA HoldsThen ==
  ASSUME NEW o, Become(o), done' = done, ImportsWait(recording', o, unawaited'),
         Holds(o, transients', ready', uses', unawaited')
  PROVE  MemoryInv'
<1>1. o \in Memories
  BY DEF Holds, WellKept
<1>2. memory' = o /\ copies' = o.copies /\ frames' = o.frames
  BY <1>1, BecomeIs
<1>3. WellKept(memory, DOMAIN transients)'
  BY KeptNext DEF Holds
<1> HIDE DEF memory
<1>4. CopiesHeld(memory, transients, ready, uses, unawaited)'
  <2>1. CopiesHeld(o, transients', ready', uses', unawaited')
    BY DEF Holds
  <2>2. QED
    BY <2>1, <1>2 DEF CopiesHeld, TargetHeld, ImportsWait
<1>5. ReadsHeld(memory, uses)'
  BY <1>2 DEF Holds, ReadsHeld, ReadHeld
<1>6. UsesFit(frames, Len(copies), uses)' /\ done' <= Len(copies')
  BY <1>2 DEF Holds, UsesFit
<1>7. QED
  BY <1>3, <1>4, <1>5, <1>6 DEF MemoryInv

LEMMA GivenBack ==
  ASSUME NEW m, NEW t, NEW u, NEW w, Holds(m, t, ready, u, w),
         NEW gone, gone \subseteq DOMAIN t, \A b \in DOMAIN ready : ready[b] \in Nat,
         NEW n, n = Disposed(m, gone)
  PROVE  /\ Holds(n, Without(t, gone), Without(ready, gone), u, w)
         /\ n.copies = m.copies /\ n.pools = m.pools
<1> DEFINE s == Without(t, gone)
           y == Without(ready, gone)
<1>1. /\ m \in Memories /\ done \in Nat /\ Len(m.copies) \in Nat /\ WellKept(m, DOMAIN t)
      /\ CopiesHeld(m, t, ready, u, w) /\ ReadsHeld(m, u) /\ done <= Len(m.copies)
      /\ UsesFit(m.frames, Len(m.copies), u)
  BY DEF Holds, WellKept, Memories
<1>2. /\ Steps(m, n, (DOMAIN t) \ gone) /\ n.pools = m.pools
      /\ n.retired = m.retired \cup RetiredNow(gone)
  <2> DEFINE T == DOMAIN t
  <2>1. WellKept(m, T) /\ gone \subseteq T /\ \A b \in gone \cap DOMAIN ready : ready[b] \in Nat
    BY <1>1
  <2> HIDE DEF T
  <2>2. Steps(m, n, T \ gone) /\ n.pools = m.pools
        /\ n.retired = m.retired \cup RetiredNow(gone)
    BY <2>1, DisposedKept
  <2>3. QED
    BY <2>2 DEF T
<1>3. /\ DOMAIN s = (DOMAIN t) \ gone /\ DOMAIN y = (DOMAIN ready) \ gone
      /\ \A x \in DOMAIN y : y[x] = ready[x]
  BY DEF Without
<1>4. WellKept(n, DOMAIN s) /\ Safe(m, n) /\ n.copies = m.copies
  BY <1>2, <1>3 DEF Steps
<1> HIDE DEF s, y
<1>5. CopiesHeld(n, s, y, u, w)
  <2> SUFFICES ASSUME NEW i \in (done + 1)..Len(m.copies), i \notin w
               PROVE  TargetHeld(n, s, y, u, m.copies[i].to, i)
    BY <1>1, <1>4 DEF CopiesHeld
  <2> DEFINE c == m.copies[i].to
  <2>1. TargetHeld(m, t, ready, u, c, i) /\ i \in Nat /\ done < i
    BY <1>1 DEF CopiesHeld
  <2> HIDE DEF c
  <2>2. TargetHeld(n, t, ready, u, c, i)
    BY <2>1, <1>1, <1>4, TargetSafe
  <2>3. CASE c \in gone /\ c \in DOMAIN ready /\ i <= ready[c]
    <3>1. AsRetired(c) \in n.retired
      BY <2>3, <1>2 DEF RetiredNow
    <3>2. AsRetired(c).buffer = c /\ AsRetired(c).value = ready[c]
      BY DEF AsRetired
    <3>3. QED
      BY <3>1, <3>2, <2>3 DEF TargetHeld, c
  <2>4. CASE ~(c \in gone /\ c \in DOMAIN ready /\ i <= ready[c])
    BY <2>2, <2>4, <1>3 DEF TargetHeld, c
  <2>5. QED
    BY <2>3, <2>4
<1>6. ReadsHeld(n, u)
  BY <1>1, <1>4, ReadsSafe
<1>7. UsesFit(n.frames, Len(m.copies), u)
  <2> DEFINE k == Len(m.copies)
  <2>1. k \in Nat /\ k <= k /\ UsesFit(m.frames, k, u)
    BY <1>1
  <2> HIDE DEF k
  <2>2. UsesFit(n.frames, k, u)
    BY ONLY <2>1, <1>4, UsesSafe
  <2>3. QED
    BY <2>2 DEF k
<1>8. QED
  BY <1>1, <1>2, <1>4, <1>5, <1>6, <1>7 DEF Holds, s, y

LEMMA ReadyIsNat ==
  ASSUME TransientInv
  PROVE  \A b \in DOMAIN ready : ready[b] \in Nat
BY MemoryIs DEF TransientInv, UnderWay, ReadyKnown

LEMMA ReleaseKeeps ==
  ASSUME TransientInv, NEW b \in DOMAIN transients, Release(b)
  PROVE  TransientInv'
<1> DEFINE gone == {b}
           n == Disposed(memory, gone)
<1>1. /\ Become(n) /\ b \in Available
      /\ transients' = Without(transients, gone) /\ ready' = Without(ready, gone)
      /\ UNCHANGED <<recording, done, uses, unawaited>>
  BY DEF Release, Gone, history
<1>2. /\ Holds(memory, transients, ready, uses, unawaited)
      /\ gone \subseteq DOMAIN transients /\ \A x \in DOMAIN ready : ready[x] \in Nat
      /\ memory.copies = copies /\ n = Disposed(memory, gone)
  BY HoldsInv, ReadyIsNat
<1> HIDE DEF n, gone, memory
<1>3. /\ Holds(n, Without(transients, gone), Without(ready, gone), uses, unawaited)
      /\ n.copies = copies
  BY <1>2, GivenBack
<1>4. MemoryInv'
  <2>1. Holds(n, transients', ready', uses', unawaited')
    BY <1>1, <1>3
  <2>2. QED
    BY <2>1, <1>1, HoldsNow
<1>5. UnderWay'
  <2>1. UnderWay
    BY DEF TransientInv
  <2>2. copies' = copies
    BY <1>1, <1>3 DEF Become
  <2>3. /\ DOMAIN transients' \subseteq DOMAIN transients
        /\ \A x \in DOMAIN transients' : transients'[x] = transients[x]
        /\ \A x \in DOMAIN transients \ {b} : x \in DOMAIN transients'
        /\ DOMAIN ready' \subseteq DOMAIN ready
        /\ \A x \in DOMAIN ready' : ready'[x] = ready[x]
    BY <1>1 DEF Without, gone
  <2>4. TransientsKnown' /\ ReadyKnown'
    BY <2>1, <2>2, <2>3, <1>1 DEF UnderWay, TransientsKnown, ReadyKnown
  <2>5. recording.active => Interned' = Interned
    <3>1. recording.active => recording.serial # 0
      BY <2>1 DEF UnderWay, RecordingKnown
    <3>2. transients[b].usage = 0
      BY <1>1 DEF Available
    <3>3. QED
      BY <3>1, <3>2, <2>3, <1>1 DEF Interned
  <2>6. RecordingKnown'
    BY <2>1, <2>2, <2>5, <1>1 DEF UnderWay, RecordingKnown
  <2>7. QED
    BY <2>4, <2>6 DEF UnderWay
<1>6. QED
  BY <1>4, <1>5 DEF MemoryInv, TransientInv

LEMMA BeginKeeps ==
  ASSUME TransientInv, Begin
  PROVE  TransientInv'
<1> DEFINE gone == Available
           n == Disposed(memory, gone)
<1>1. /\ Become(n) /\ ~recording.active
      /\ transients' = Without(transients, gone) /\ ready' = Without(ready, gone)
      /\ recording' = [active |-> TRUE, serial |-> recording.serial + 1,
                       imported |-> <<>>, nodes |-> {}]
      /\ UNCHANGED <<done, uses, unawaited>>
  BY DEF Begin, Gone, history
<1>g. UnderWay
  BY DEF TransientInv
<1>0. gone = DOMAIN transients
  BY <1>1, <1>g DEF UnderWay, TransientsKnown, Available
<1>2. /\ Holds(memory, transients, ready, uses, unawaited)
      /\ gone \subseteq DOMAIN transients /\ \A x \in DOMAIN ready : ready[x] \in Nat
      /\ memory.copies = copies /\ n = Disposed(memory, gone)
  BY <1>0, HoldsInv, ReadyIsNat
<1> HIDE DEF n, gone, memory
<1>3. /\ Holds(n, Without(transients, gone), Without(ready, gone), uses, unawaited)
      /\ n.copies = copies
  BY <1>2, GivenBack
<1>i. DOMAIN recording'.imported = {} /\ recording'.active
  BY <1>1
<1>4. MemoryInv'
  <2>1. Holds(n, transients', ready', uses', unawaited')
    BY <1>1, <1>3
  <2>2. ImportsWait(recording', n, unawaited')
    BY <1>i DEF ImportsWait
  <2>3. QED
    BY <2>1, <2>2, <1>1, HoldsThen
<1>5. UnderWay'
  <2>2. copies' = copies
    BY <1>1, <1>3 DEF Become
  <2>3. /\ DOMAIN transients' = {}
        /\ DOMAIN ready' \subseteq DOMAIN ready
        /\ \A x \in DOMAIN ready' : ready'[x] = ready[x]
    BY <1>0, <1>1 DEF Without
  <2>4. TransientsKnown' /\ ReadyKnown'
    BY <2>2, <2>3, <1>g DEF UnderWay, TransientsKnown, ReadyKnown
  <2>5. Interned' = {}
    BY <2>3 DEF Interned
  <2>6. recording' \in RecordingType
    <3>1. <<>> \in Imports
      <4>1. <<>> \in [{} -> Nat]
        OBVIOUS
      <4>2. QED
        BY <4>1 DEF Imports
    <3>2. recording.serial \in Nat
      BY <1>g DEF UnderWay, RecordingKnown, RecordingType
    <3>3. QED
      BY <3>1, <3>2, <1>1 DEF RecordingType
  <2>7. recording'.serial # 0
    <3>1. recording.serial \in Nat
      BY <1>g DEF UnderWay, RecordingKnown, RecordingType
    <3>2. QED
      BY <3>1, <1>1
  <2>8. recording'.nodes = {}
    BY <1>1
  <2>9. RecordingKnown'
    BY <2>5, <2>6, <2>7, <2>8, <1>i DEF RecordingKnown
  <2>10. QED
    BY <2>4, <2>9 DEF UnderWay
<1>6. QED
  BY <1>4, <1>5 DEF MemoryInv, TransientInv

-----------------------------------------------------------------------------
\* Draws.

\* A call that changes the recording and the use of transients only.
LEMMA RecordedKeeps ==
  ASSUME TransientInv, UNCHANGED <<capacity, ready, pools, retired, frames, copies, done>>,
         UNCHANGED history,
         DOMAIN transients' = DOMAIN transients, ImportsWait(recording', memory, unawaited)
  PROVE  MemoryInv'
<1>1. Become(memory) /\ uses' = uses /\ unawaited' = unawaited
  BY DEF Become, memory, history
<1>2. /\ Holds(memory, transients, ready, uses, unawaited)
      /\ WellKept(memory, DOMAIN transients) /\ Safe(memory, memory)
  BY HoldsInv, SafeSelf DEF WellKept
<1> HIDE DEF memory
<1>3. Holds(memory, transients', ready, uses, unawaited)
  <2> DEFINE s == transients'
  <2>1. WellKept(memory, DOMAIN s) /\ DOMAIN transients \subseteq DOMAIN s
    BY <1>2
  <2> HIDE DEF s
  <2>2. Holds(memory, s, ready, uses, unawaited)
    BY ONLY <1>2, <2>1, HoldsAfter
  <2>3. QED
    BY <2>2 DEF s
<1>4. Holds(memory, transients', ready', uses', unawaited')
  BY <1>1, <1>3
<1>5. ImportsWait(recording', memory, unawaited')
  BY <1>1
<1>6. QED
  BY <1>1, <1>4, <1>5, HoldsThen

\* A transient that is imported now is imported with a value that covers every
\* copy into it that readers must wait for.
LEMMA ImportedWait ==
  ASSUME TransientInv, recording.active, NEW bound, bound \subseteq DOMAIN transients,
         NEW rec, rec.imported = Imported(bound)
  PROVE  ImportsWait(rec, memory, unawaited)
<1>1. /\ CopiesHeld(memory, transients, ready, uses, unawaited)
      /\ Placed(memory, DOMAIN transients)
  BY MemoryIs DEF TransientInv
<1>0. /\ DOMAIN Imported(bound) = DOMAIN recording.imported \cup bound
      /\ \A b \in DOMAIN recording.imported : Imported(bound)[b] = recording.imported[b]
      /\ \A b \in bound \ DOMAIN recording.imported : Imported(bound)[b] = ReadyOf(b)
  BY DEF Imported
<1> HIDE DEF memory
<1> SUFFICES ASSUME NEW i \in (done + 1)..Len(memory.copies), i \notin unawaited,
                    memory.copies[i].to \in DOMAIN Imported(bound)
             PROVE  i <= Imported(bound)[memory.copies[i].to]
  BY DEF ImportsWait
<1> DEFINE c == memory.copies[i].to
<1>2. /\ TargetHeld(memory, transients, ready, uses, c, i)
      /\ c \in DOMAIN recording.imported => i <= recording.imported[c]
  BY <1>1 DEF CopiesHeld
<1>3. c \in DOMAIN Imported(bound)
  OBVIOUS
<1> HIDE DEF c
<1>4. CASE c \in DOMAIN recording.imported
  BY <1>0, <1>2, <1>4 DEF c
<1>5. CASE c \notin DOMAIN recording.imported
  <2>1. c \in bound /\ c \in DOMAIN transients /\ Imported(bound)[c] = ReadyOf(c)
    BY <1>0, <1>3, <1>5
  <2>2. c \notin InRetired(memory) /\ c \notin InPools(memory)
    BY <2>1, <1>1 DEF Placed
  <2>3. c \in DOMAIN ready /\ i <= ready[c]
    BY <2>2, <1>2 DEF TargetHeld, InRetired, InPools
  <2>4. QED
    BY <2>1, <2>3 DEF ReadyOf, c
<1>6. QED
  BY <1>4, <1>5

LEMMA ImportedType ==
  ASSUME TransientInv, recording.active, NEW bound, bound \subseteq DOMAIN transients
  PROVE  /\ Imported(bound) \in Imports
         /\ DOMAIN Imported(bound) = DOMAIN recording.imported \cup bound
         /\ \A b \in DOMAIN Imported(bound) : Imported(bound)[b] <= Len(copies)
<1>1. /\ DOMAIN transients \subseteq Nat /\ Len(copies) \in Nat
      /\ recording.imported \in Imports
      /\ \A b \in DOMAIN recording.imported : recording.imported[b] <= Len(copies)
      /\ \A b \in DOMAIN ready : ready[b] \in 1..Len(copies)
  BY MemoryIs DEF TransientInv, UnderWay, RecordingKnown, RecordingType, ReadyKnown
<1>2. PICK S \in SUBSET Nat : recording.imported \in [S -> Nat]
  BY <1>1 DEF Imports
<1> DEFINE D == S \cup bound
<1>3. D \in SUBSET Nat /\ DOMAIN recording.imported = S
  BY <1>1, <1>2
<1>4. DOMAIN Imported(bound) = D
  BY <1>3 DEF Imported
<1>5. \A b \in bound : ReadyOf(b) \in Nat /\ ReadyOf(b) <= Len(copies)
  BY <1>1 DEF ReadyOf
<1>6. \A b \in D : Imported(bound)[b] \in Nat /\ Imported(bound)[b] <= Len(copies)
  BY <1>1, <1>2, <1>3, <1>5 DEF Imported
<1>7. Imported(bound) \in [D -> Nat]
  BY <1>3, <1>6 DEF Imported
<1> HIDE DEF D
<1>8. Imported(bound) \in Imports
  BY <1>3, <1>7 DEF Imports
<1>9. QED
  BY <1>3, <1>4, <1>6, <1>8 DEF D

LEMMA DrawKeeps ==
  ASSUME TransientInv, NEW bound \in SUBSET DOMAIN transients, Draw(bound)
  PROVE  TransientInv'
<1>1. /\ recording.active
      /\ \A b \in bound : transients[b].usage \in {0, recording.serial}
      /\ recording' = [recording EXCEPT !.imported = Imported(bound),
                                        !.nodes = recording.nodes \cup bound]
      /\ transients' = Marked(bound)
      /\ UNCHANGED <<capacity, ready, pools, retired, frames, copies, done>>
      /\ UNCHANGED history
  BY DEF Draw
<1>g. UnderWay
  BY DEF TransientInv
<1>r. /\ recording \in RecordingType /\ recording.serial # 0 /\ recording.serial \in Nat
      /\ recording.nodes = Interned /\ Interned \subseteq DOMAIN recording.imported
      /\ recording.nodes \in SUBSET Nat
  BY <1>1, <1>g DEF UnderWay, RecordingKnown, RecordingType
<1>t. /\ Imported(bound) \in Imports
      /\ DOMAIN Imported(bound) = DOMAIN recording.imported \cup bound
      /\ \A b \in DOMAIN Imported(bound) : Imported(bound)[b] <= Len(copies)
  BY <1>1, ImportedType
<1>2. /\ recording' \in RecordingType /\ recording'.imported = Imported(bound)
      /\ recording'.nodes = recording.nodes \cup bound
      /\ recording'.active /\ recording'.serial = recording.serial
  <2> DEFINE I == Imported(bound)
  <2>1. recording' = [recording EXCEPT !.imported = I, !.nodes = recording.nodes \cup bound]
        /\ I \in Imports
    BY <1>1, <1>t
  <2> HIDE DEF I
  <2>2. recording.nodes \cup bound \in SUBSET Nat
    BY <1>r, MemoryIs
  <2>3. recording \in [active : BOOLEAN, serial : Nat, imported : Imports, nodes : SUBSET Nat]
    BY <1>r DEF RecordingType
  <2>4. QED
    BY <2>1, <2>2, <2>3, <1>1 DEF RecordingType, I
<1>3. /\ DOMAIN transients' = DOMAIN transients
      /\ \A b \in DOMAIN transients \ bound : transients'[b] = transients[b]
      /\ \A b \in bound : transients'[b] \in UsageType /\ transients'[b].usage = recording.serial
  BY <1>1, <1>g, <1>r DEF Marked, UnderWay, TransientsKnown, UsageType
<1>4. MemoryInv'
  <2>1. ImportsWait(recording', memory, unawaited)
    BY <1>1, <1>2, ImportedWait
  <2>2. QED
    BY <2>1, <1>1, <1>3, RecordedKeeps
<1>5. UnderWay'
  <2>1. TransientsKnown'
    BY <1>1, <1>2, <1>3, <1>g DEF UnderWay, TransientsKnown
  <2>2. ReadyKnown'
    BY <1>1, <1>g DEF UnderWay, ReadyKnown
  <2>3. Interned' = Interned \cup bound
    BY <1>2, <1>3 DEF Interned
  <2>4. RecordingKnown'
    BY <2>3, <1>1, <1>2, <1>r, <1>t DEF RecordingKnown
  <2>5. QED
    BY <2>1, <2>2, <2>4 DEF UnderWay
<1>6. QED
  BY <1>4, <1>5 DEF MemoryInv, TransientInv

LEMMA DrawFailsKeeps ==
  ASSUME TransientInv, NEW bound \in SUBSET DOMAIN transients, DrawFails(bound)
  PROVE  TransientInv'
<1>1. /\ recording.active
      /\ recording' = [recording EXCEPT !.imported = Imported(bound)]
      /\ UNCHANGED <<capacity, transients, ready, pools, retired, frames, copies, done>>
      /\ UNCHANGED history
  BY DEF DrawFails
<1>g. UnderWay
  BY DEF TransientInv
<1>r. /\ recording \in RecordingType /\ recording.serial # 0
      /\ recording.nodes = Interned /\ Interned \subseteq DOMAIN recording.imported
  BY <1>1, <1>g DEF UnderWay, RecordingKnown, RecordingType
<1>t. /\ Imported(bound) \in Imports
      /\ DOMAIN Imported(bound) = DOMAIN recording.imported \cup bound
      /\ \A b \in DOMAIN Imported(bound) : Imported(bound)[b] <= Len(copies)
  BY <1>1, ImportedType
<1>2. /\ recording' \in RecordingType /\ recording'.imported = Imported(bound)
      /\ recording'.nodes = recording.nodes
      /\ recording'.active /\ recording'.serial = recording.serial
  <2> DEFINE I == Imported(bound)
  <2>1. recording' = [recording EXCEPT !.imported = I] /\ I \in Imports
    BY <1>1, <1>t
  <2> HIDE DEF I
  <2>2. recording \in [active : BOOLEAN, serial : Nat, imported : Imports, nodes : SUBSET Nat]
    BY <1>r DEF RecordingType
  <2>3. QED
    BY <2>1, <2>2, <1>1 DEF RecordingType, I
<1>3. MemoryInv'
  <2>1. ImportsWait(recording', memory, unawaited)
    BY <1>1, <1>2, ImportedWait
  <2>2. QED
    BY <2>1, <1>1, RecordedKeeps
<1>4. UnderWay'
  <2>1. TransientsKnown' /\ ReadyKnown'
    BY <1>1, <1>2, <1>g DEF UnderWay, TransientsKnown, ReadyKnown
  <2>2. Interned' = Interned
    BY <1>1, <1>2 DEF Interned
  <2>3. RecordingKnown'
    BY <2>2, <1>1, <1>2, <1>r, <1>t DEF RecordingKnown
  <2>4. QED
    BY <2>1, <2>3 DEF UnderWay
<1>5. QED
  BY <1>3, <1>4 DEF MemoryInv, TransientInv

-----------------------------------------------------------------------------
\* Recordings that end without a frame.

LEMMA RolledBackIs ==
  ASSUME TransientInv, recording.active
  PROVE  /\ DOMAIN RolledBack = DOMAIN transients
         /\ \A b \in DOMAIN transients :
              RolledBack[b] \in UsageType /\ RolledBack[b].usage = 0
<1>1. TransientsKnown
  BY DEF TransientInv, UnderWay
<1>2. QED
  BY <1>1 DEF TransientsKnown, RolledBack, Interned, UsageType

\* No recording, no transient in use.
LEMMA UnderWayOver ==
  ASSUME TransientInv, recording' \in RecordingType, ~recording'.active, copies' = copies,
         \A b \in DOMAIN transients' :
           transients'[b] \in UsageType /\ transients'[b].usage = 0,
         DOMAIN ready' \subseteq DOMAIN ready, \A b \in DOMAIN ready' : ready'[b] = ready[b]
  PROVE  UnderWay'
<1>1. ReadyKnown
  BY DEF TransientInv, UnderWay
<1>2. QED
  BY <1>1 DEF UnderWay, TransientsKnown, ReadyKnown, RecordingKnown

LEMMA AbortKeeps ==
  ASSUME TransientInv, Abort
  PROVE  TransientInv'
<1>1. /\ recording.active /\ transients' = RolledBack
      /\ recording' = [recording EXCEPT !.active = FALSE, !.imported = <<>>]
      /\ UNCHANGED <<capacity, ready, pools, retired, frames, copies, done>>
      /\ UNCHANGED history
  BY DEF Abort
<1>2. recording' \in RecordingType /\ ~recording'.active
  <2>1. recording \in RecordingType
    BY DEF TransientInv, UnderWay, RecordingKnown
  <2>2. <<>> \in Imports
    <3>1. <<>> \in [{} -> Nat]
      OBVIOUS
    <3>2. QED
      BY <3>1 DEF Imports
  <2>3. QED
    BY <2>1, <2>2, <1>1 DEF RecordingType
<1>3. /\ DOMAIN transients' = DOMAIN transients
      /\ \A b \in DOMAIN transients' :
           transients'[b] \in UsageType /\ transients'[b].usage = 0
  BY <1>1, RolledBackIs
<1>4. MemoryInv'
  <2>1. ImportsWait(recording', memory, unawaited)
    BY <1>2 DEF ImportsWait
  <2>2. QED
    BY <2>1, <1>1, <1>3, RecordedKeeps
<1>5. UnderWay'
  BY <1>1, <1>2, <1>3, UnderWayOver
<1>6. QED
  BY <1>4, <1>5 DEF MemoryInv, TransientInv

\* The device is idle: every copy and every frame has ended.
LEMMA IdleHolds ==
  ASSUME TransientInv, NEW g, FramesKept(g), g.running = {}, g.next \in Nat,
         frames.next <= g.next,
         \/ retired' = retired /\ Freed(g) = Freed(frames)
         \/ retired' = {} /\ Freed(g) = Freed(frames) \cup InRetired(memory),
         frames' = g, UNCHANGED <<copies, pools, capacity, uses, unawaited>>,
         done' = Len(copies), DOMAIN transients' \subseteq DOMAIN transients
  PROVE  MemoryInv'
<1> DEFINE T == DOMAIN transients
           o == memory'
<1>1. /\ memory \in Memories /\ memory.copies = copies /\ memory.pools = pools
      /\ memory.retired = retired /\ memory.frames = frames /\ memory.capacity = capacity
      /\ Len(copies) \in Nat /\ done <= Len(copies) /\ done \in Nat
      /\ FramesKept(frames) /\ Placed(memory, T)
  BY MemoryIs
<1>2. /\ o.copies = copies /\ o.pools = pools /\ o.capacity = capacity
      /\ o.retired = retired' /\ o.frames = g
      /\ o = [capacity |-> capacity, pools |-> pools, retired |-> retired',
              frames |-> g, copies |-> copies]
  BY DEF memory
<1>3. Freed(g) \subseteq Nat
  <2>1. Freed(frames) \cup InRetired(memory) \subseteq Nat
    BY <1>1 DEF Placed, Given
  <2>2. QED
    BY <2>1
<1>4. o \in Memories
  <2>1. g \in BooksType(Nat, Nat \ {0})
    BY <1>3, FramesType
  <2>2. /\ capacity \in Seq(Nat) /\ pools \in SUBSET EntryType /\ copies \in Seq(CopyType)
        /\ retired \in SUBSET RetiredType
    <3> HIDE DEF memory
    <3>1. QED
      BY <1>1 DEF Memories
  <2>3. retired' \in SUBSET RetiredType
    BY <2>2
  <2>4. QED
    BY <1>2, <2>1, <2>2, <2>3 DEF Memories
<1> HIDE DEF memory, o
<1>5. Placed(o, DOMAIN transients')
  <2>1. InPools(o) = InPools(memory) /\ Given(o) = Given(memory)
    BY <1>1, <1>2 DEF InPools, Given
  <2>2. \/ InRetired(o) = InRetired(memory) /\ Freed(o.frames) = Freed(memory.frames)
        \/ InRetired(o) = {} /\ Freed(o.frames) = Freed(memory.frames) \cup InRetired(memory)
    BY <1>1, <1>2 DEF InRetired
  <2>3. /\ T \cup InPools(memory) \cup InRetired(memory) \cup Freed(memory.frames)
             \subseteq Given(memory)
        /\ InPools(memory) \cap InRetired(memory) = {}
        /\ (InPools(memory) \cup InRetired(memory)) \cap Freed(memory.frames) = {}
        /\ T \cap (InPools(memory) \cup InRetired(memory) \cup Freed(memory.frames)) = {}
    BY <1>1 DEF Placed
  <2>4. /\ \A d, e \in o.pools : d.buffer = e.buffer => d = e
        /\ \A x, y \in o.retired : x.buffer = y.buffer => x = y
    BY <1>1, <1>2 DEF Placed
  <2> DEFINE S == DOMAIN transients'
  <2>5. S \subseteq T
    OBVIOUS
  <2> HIDE DEF S, T
  <2>6. Placed(o, S)
    BY ONLY <2>1, <2>2, <2>3, <2>4, <2>5 DEF Placed
  <2>7. QED
    BY <2>6 DEF S
<1>6. WellKept(memory, DOMAIN transients)'
  <2>1. SourcesHeld(memory)'
    BY <1>1, <1>2 DEF SourcesHeld, o
  <2>2. (done \in Nat)'
    BY <1>1
  <2>3. QED
    BY <2>1, <2>2, <1>2, <1>4, <1>5 DEF WellKept, o
<1>7. CopiesHeld(memory, transients, ready, uses, unawaited)'
  BY <1>1, <1>2 DEF CopiesHeld, o
<1>8. ReadsHeld(memory, uses)'
  BY <1>2 DEF ReadsHeld, o
<1>9. UsesFit(frames, Len(copies), uses)'
  <2>1. UsesFit(frames, Len(copies), uses) /\ frames.next \in Nat
    BY <1>1 DEF TransientInv, FramesKept, Books, Typed, BooksType
  <2>2. QED
    BY <2>1, <1>1 DEF UsesFit
<1>10. done' <= Len(copies')
  BY <1>1
<1>11. QED
  BY <1>6, <1>7, <1>8, <1>9, <1>10 DEF MemoryInv

\* A frame that was prepared and not submitted, and the wait that follows.
LEMMA RefusedFrames ==
  ASSUME NEW f, FramesKept(f), CanPrepare(f),
         NEW g \in {Idled(Refused(f)), IdledBadly(Refused(f))}
  PROVE  /\ FramesKept(g) /\ Freed(g) = Freed(f) /\ g.running = {}
         /\ f.next \in Nat /\ g.next \in Nat /\ f.next <= g.next
<1> DEFINE r == Refused(f)
           B == Freed(f)
<1>1. Books(f, NoUses, B) /\ f.backend = "vulkan"
  BY DEF FramesKept
<1> HIDE DEF B
<1>2. Books(r, NoUses, B) /\ r.backend = "vulkan"
  BY <1>1, RefusedKeeps, RefusedIs
<1>3. r.next = f.next + 1 /\ f.next \in Nat
  <2>1. f.next \in Nat
    BY <1>1 DEF Books, Typed, BooksType
  <2> DEFINE p == Prepare(f)
  <2>2. /\ Books(p, NoUses, B)
        /\ \A k \in {"backend", "next", "last", "running", "signaled"} : p[k] = f[k]
    BY <1>1, PrepareKeeps
  <2>3. p.next = f.next /\ p \in BooksType(B, Nat \ {0})
    BY <2>2 DEF Books, Typed, NoUses
  <2>4. r = [p EXCEPT !.next = p.next + 1]
    BY <1>1 DEF Refused
  <2> HIDE DEF p, r
  <2>5. r.next = p.next + 1
    BY <2>3, <2>4 DEF BooksType
  <2>6. QED
    BY <2>1, <2>3, <2>5
<1>0. g \in {Idled(r), IdledBadly(r)}
  OBVIOUS
<1> HIDE DEF r
<1>4. Books(g, NoUses, B) /\ g.running = {} /\ g.backend = "vulkan"
  BY <1>0, <1>2, WaitedIs
<1>5. Freed(g) = B
  BY <1>4, FreedIs
<1>6. g.next = r.next
  <2> DEFINE d == Drained(r)
  <2>1. Books(d, NoUses, B) /\ d.next = r.next
    BY <1>2, DrainedKeeps
  <2>2. d \in BooksType(B, Nat \ {0})
    BY <2>1 DEF Books, Typed, NoUses
  <2>3. \/ g = d
        \/ g = [d EXCEPT !.slot = [s \in SlotIds |-> 0], !.completed = r.last,
                     !.deferred = {},
                     !.destroyed = d.destroyed \cup {x.item : x \in r.deferred}]
    BY <1>0, <1>2 DEF Idled, IdledBadly, IdledBySlots
  <2> HIDE DEF d
  <2>4. QED
    BY <2>1, <2>2, <2>3 DEF BooksType
<1>7. QED
  BY <1>3, <1>4, <1>5, <1>6 DEF FramesKept, B

LEMMA SubmitFailsKeeps ==
  ASSUME TransientInv, SubmitFails
  PROVE  TransientInv'
<1> DEFINE r == Refused(frames)
           d == Idled(r)
           gone == {x.buffer : x \in retired}
           g == FreeIn(d, gone)
<1>1. /\ recording.active /\ CanPrepare(frames) /\ retired' = {} /\ done' = Len(copies)
      /\ transients' = RolledBack /\ recording' = [recording EXCEPT !.active = FALSE]
      /\ UNCHANGED <<capacity, ready, pools, copies, uses, unawaited>>
  BY DEF SubmitFails, history
<1>m. FramesKept(frames) /\ Placed(memory, DOMAIN transients)
      /\ memory.retired = retired /\ memory.frames = frames
  BY MemoryIs
<1>2. /\ FramesKept(d) /\ Freed(d) = Freed(frames) /\ d.running = {}
      /\ frames.next \in Nat /\ d.next \in Nat /\ frames.next <= d.next
  BY <1>1, <1>m, RefusedFrames
<1>3. InFlight(d) = {}
  <2>1. r.backend = "vulkan" /\ Books(r, NoUses, Freed(frames))
    BY <1>1, <1>m, RefusedIs, RefusedKeeps DEF FramesKept
  <2> DEFINE e == Drained(r)
             B == Freed(frames)
  <2>2. e \in BooksType(B, Nat \ {0})
    <3>1. Books(e, NoUses, B)
      BY <2>1, DrainedKeeps
    <3>2. QED
      BY <3>1 DEF Books, Typed, NoUses
  <2>3. d = [e EXCEPT !.slot = [s \in SlotIds |-> 0], !.completed = r.last,
                     !.deferred = {},
                     !.destroyed = e.destroyed \cup {x.item : x \in r.deferred}]
    BY <2>1 DEF Idled, IdledBySlots
  <2> HIDE DEF e, d, r, B
  <2>4. d.slot = [s \in SlotIds |-> 0]
    BY <2>2, <2>3 DEF BooksType
  <2>5. QED
    BY <2>4 DEF InFlight
<1>4. frames' = g
  <2>1. frames' = [d EXCEPT !.destroyed = @ \cup gone]
    BY DEF SubmitFails
  <2> HIDE DEF d, gone
  <2>2. QED
    BY <2>1, <1>3 DEF FreeIn, Destroy
<1>5. gone = InRetired(memory) /\ gone \in SUBSET Nat /\ gone \cap Freed(d) = {}
  <2>1. gone = InRetired(memory)
    BY <1>m DEF InRetired
  <2> HIDE DEF gone, memory, d
  <2>2. QED
    BY <2>1, <1>m, <1>2 DEF Placed, Given
<1> HIDE DEF d, gone, memory
<1>6. /\ FramesKept(g) /\ Freed(g) = Freed(frames) \cup InRetired(memory)
      /\ g.running = {} /\ g.next = d.next
  BY <1>2, <1>5, FreedBooks
<1> HIDE DEF g
<1>7. /\ DOMAIN transients' = DOMAIN transients
      /\ \A b \in DOMAIN transients' :
           transients'[b] \in UsageType /\ transients'[b].usage = 0
  BY <1>1, RolledBackIs
<1>8. MemoryInv'
  <2>1. g.next \in Nat /\ frames.next <= g.next
    BY <1>2, <1>6
  <2>2. DOMAIN transients' \subseteq DOMAIN transients
    BY <1>7
  <2>3. QED
    BY <1>1, <1>4, <1>6, <2>1, <2>2, IdleHolds
<1>9. recording' \in RecordingType /\ ~recording'.active
  <2>1. recording \in RecordingType
    BY DEF TransientInv, UnderWay, RecordingKnown
  <2>2. QED
    BY <2>1, <1>1 DEF RecordingType
<1>10. UnderWay'
  BY <1>1, <1>7, <1>9, UnderWayOver
<1>11. QED
  BY <1>8, <1>10 DEF MemoryInv, TransientInv

LEMMA SubmitFailsBadlyKeeps ==
  ASSUME TransientInv, SubmitFailsBadly
  PROVE  TransientInv'
<1> DEFINE g == IdledBadly(Refused(frames))
<1>1. /\ recording.active /\ CanPrepare(frames) /\ frames' = g /\ done' = Len(copies)
      /\ transients' = Without(transients, Interned)
      /\ recording' = [recording EXCEPT !.active = FALSE]
      /\ UNCHANGED <<capacity, ready, pools, retired, copies, uses, unawaited>>
  BY DEF SubmitFailsBadly, history
<1>2. /\ FramesKept(g) /\ Freed(g) = Freed(frames) /\ g.running = {}
      /\ frames.next \in Nat /\ g.next \in Nat /\ frames.next <= g.next
  BY <1>1, MemoryIs, RefusedFrames
<1> HIDE DEF g
<1>3. /\ DOMAIN transients' \subseteq DOMAIN transients
      /\ \A b \in DOMAIN transients' :
           transients'[b] \in UsageType /\ transients'[b].usage = 0
  <2>1. TransientsKnown
    BY DEF TransientInv, UnderWay
  <2>2. /\ DOMAIN transients' = DOMAIN transients \ Interned
        /\ \A b \in DOMAIN transients' : transients'[b] = transients[b]
    BY <1>1 DEF Without
  <2>3. QED
    BY <2>1, <2>2 DEF TransientsKnown, Interned
<1>4. MemoryInv'
  BY <1>1, <1>2, <1>3, IdleHolds
<1>5. recording' \in RecordingType /\ ~recording'.active
  <2>1. recording \in RecordingType
    BY DEF TransientInv, UnderWay, RecordingKnown
  <2>2. QED
    BY <2>1, <1>1 DEF RecordingType
<1>6. UnderWay'
  BY <1>1, <1>3, <1>5, UnderWayOver
<1>7. QED
  BY <1>4, <1>6 DEF MemoryInv, TransientInv

-----------------------------------------------------------------------------
\* The queues.

LEMMA CopyEndsKeeps ==
  ASSUME TransientInv, CopyEnds
  PROVE  TransientInv'
<1>1. /\ done < Len(copies) /\ done' = done + 1
      /\ UNCHANGED <<capacity, transients, ready, pools, retired, recording,
                     frames, copies, uses, unawaited>>
  BY DEF CopyEnds, history
<1>2. /\ memory' = memory /\ done \in Nat /\ Len(copies) \in Nat
      /\ memory.copies = copies
  BY <1>1, MemoryIs DEF memory
<1> HIDE DEF memory
<1>3. \A i : i \in (done' + 1)..Len(copies) => i \in (done + 1)..Len(copies)
  BY <1>1, <1>2
<1>4. WellKept(memory, DOMAIN transients)'
  <2>1. WellKept(memory, DOMAIN transients)
    BY DEF TransientInv
  <2>2. SourcesHeld(memory)'
    BY <2>1, <1>1, <1>2, <1>3 DEF WellKept, SourcesHeld
  <2>3. QED
    BY <2>1, <2>2, <1>1, <1>2 DEF WellKept
<1>5. CopiesHeld(memory, transients, ready, uses, unawaited)'
  BY <1>1, <1>2, <1>3 DEF TransientInv, CopiesHeld, TargetHeld
<1>6. ReadsHeld(memory, uses)'
  BY <1>1, <1>2 DEF TransientInv, ReadsHeld, ReadHeld
<1>7. UsesFit(frames, Len(copies), uses)'
  <2>1. UsesFit(frames, Len(copies), uses)
    BY DEF TransientInv
  <2>2. \A v \in DOMAIN uses : uses[v].waits \in Nat
    BY <2>1 DEF UsesFit
  <2>3. QED
    BY <2>1, <2>2, <1>1, <1>2 DEF UsesFit
<1>8. done' <= Len(copies')
  BY <1>1, <1>2
<1>9. UnderWay'
  BY <1>1, UnderWaySame
<1>10. QED
  BY <1>4, <1>5, <1>6, <1>7, <1>8, <1>9 DEF TransientInv

LEMMA FrameEndsKeeps ==
  ASSUME TransientInv, FrameEnds
  PROVE  TransientInv'
<1> DEFINE L == Lowest(frames.running)
           g == OldestEnds(frames)
           o == [memory EXCEPT !.frames = g]
<1>1. /\ frames.running # {} /\ uses[L].waits <= done /\ frames' = g
      /\ UNCHANGED <<capacity, transients, ready, pools, retired, recording,
                     copies, done, uses, unawaited>>
  BY DEF FrameEnds, Started, history
<1>2. /\ memory \in Memories /\ memory.copies = copies /\ memory.pools = pools
      /\ memory.retired = retired /\ memory.frames = frames /\ memory.capacity = capacity
      /\ Len(copies) \in Nat /\ done \in Nat /\ FramesKept(frames)
      /\ Placed(memory, DOMAIN transients)
  BY MemoryIs
<1>3. L \in frames.running
  <2>1. frames.running \in SUBSET Nat
    BY <1>2 DEF FramesKept, Books, Typed, BooksType
  <2>2. QED
    BY <2>1, <1>1, LowestIs
<1>4. /\ FramesKept(g) /\ Freed(g) = Freed(frames) /\ g.running = frames.running \ {L}
      /\ g.next = frames.next
  <2> DEFINE B == Freed(frames)
  <2>1. Books(frames, NoUses, B) /\ frames.backend = "vulkan"
    BY <1>2 DEF FramesKept
  <2>2. frames \in BooksType(B, Nat \ {0})
    BY <2>1 DEF Books, Typed, NoUses
  <2> HIDE DEF B
  <2>3. Books(g, NoUses, B) /\ g.running = frames.running \ {L} /\ g.backend = "vulkan"
    BY <2>1, <1>1, OldestEndsKeeps, OldestEndsIs
  <2>4. Freed(g) = B
    BY <2>3, FreedIs
  <2>5. g.next = frames.next
    BY <2>2 DEF OldestEnds, BooksType
  <2>6. QED
    BY <2>3, <2>4, <2>5 DEF FramesKept, B
<1> HIDE DEF g, L
<1>5. g \in BooksType(Nat, Nat \ {0})
  <2>1. Freed(g) \subseteq Nat
    BY <1>2, <1>4 DEF Placed, Given
  <2>2. QED
    BY <2>1, <1>4, FramesType
<1>6. memory' = o
  BY <1>1 DEF memory
<1> HIDE DEF memory
<1>7. /\ o \in Memories /\ o.frames = g /\ o.capacity = capacity /\ o.pools = pools
      /\ o.retired = retired /\ o.copies = copies
  BY <1>2, <1>5 DEF Memories
<1> HIDE DEF o
<1>8. WellKept(memory, DOMAIN transients)'
  <2>1. Placed(o, DOMAIN transients)
    BY <1>2, <1>4, <1>7 DEF Placed, InPools, InRetired, Given
  <2>2. SourcesHeld(o)
    BY <1>2, <1>7 DEF TransientInv, WellKept, SourcesHeld
  <2>3. SourcesHeld(memory)'
    BY <2>2, <1>1, <1>6 DEF SourcesHeld
  <2>4. QED
    BY <2>1, <2>3, <1>1, <1>2, <1>4, <1>6, <1>7 DEF WellKept
<1>9. CopiesHeld(memory, transients, ready, uses, unawaited)'
  <2>1. CopiesHeld(memory, transients, ready, uses, unawaited)
    BY DEF TransientInv
  <2>2. CopiesHeld(o, transients, ready, uses, unawaited)
    BY <2>1, <1>2, <1>7 DEF CopiesHeld, TargetHeld
  <2>3. QED
    BY <2>2, <1>1, <1>6 DEF CopiesHeld, TargetHeld
<1>10. ReadsHeld(memory, uses)'
  <2>1. ReadsHeld(o, uses)
    BY <1>2, <1>4, <1>7 DEF TransientInv, ReadsHeld, ReadHeld
  <2>2. QED
    BY <2>1, <1>1, <1>6 DEF ReadsHeld, ReadHeld
<1>11. UsesFit(frames, Len(copies), uses)'
  BY <1>1, <1>3, <1>4 DEF TransientInv, UsesFit
<1>12. UnderWay'
  BY <1>1, UnderWaySame
<1>13. QED
  BY <1>1, <1>8, <1>9, <1>10, <1>11, <1>12 DEF TransientInv

-----------------------------------------------------------------------------
\* Submission.

LEMMA SubmittedFrames ==
  ASSUME NEW f, FramesKept(f), CanPrepare(f), NEW g, g = Submitted(f)
  PROVE  /\ FramesKept(g) /\ Freed(g) = Freed(f) /\ g.running = f.running \cup {f.next}
         /\ g.next = f.next + 1 /\ f.next \in Nat \ {0}
<1> DEFINE B == Freed(f)
           p == Prepare(f)
<1>1. Books(f, NoUses, B) /\ f.backend = "vulkan" /\ f \in BooksType(B, Nat \ {0})
  BY DEF FramesKept, Books, Typed, NoUses
<1>2. f.next \in Nat \ {0}
  BY <1>1 DEF BooksType, Books, Ordered
<1>3. /\ Books(p, NoUses, B)
      /\ \A k \in {"backend", "next", "last", "running", "signaled"} : p[k] = f[k]
  <2> HIDE DEF B
  <2>1. QED
    BY <1>1, PrepareKeeps
<1>4. p.next = f.next /\ p \in BooksType(B, Nat \ {0})
  BY <1>3 DEF Books, Typed, NoUses
<1>5. g = [p EXCEPT !.slot[f.cursor] = p.next, !.next = p.next + 1, !.last = p.next,
                    !.running = p.running \cup {p.next}]
  BY DEF Submitted
<1>6. Books(g, [NoUses EXCEPT ![f.next] = {}], B) /\ g.backend = f.backend
  <2>1. f.next \in DOMAIN NoUses /\ {} \cap B = {}
    BY <1>2 DEF NoUses
  <2> HIDE DEF B
  <2>2. QED
    BY <2>1, <1>1, SubmittedKeeps
<1>7. [NoUses EXCEPT ![f.next] = {}] = NoUses
  BY <1>2 DEF NoUses
<1>8. g.running = f.running \cup {f.next}
  <2> HIDE DEF B
  <2>1. QED
    BY <1>1, SubmittedIs
<1> HIDE DEF p, B
<1>9. g.next = f.next + 1
  BY <1>4, <1>5 DEF BooksType
<1>10. Freed(g) = B
  BY <1>6, <1>7, FreedIs
<1>11. QED
  BY <1>1, <1>2, <1>6, <1>7, <1>8, <1>9, <1>10 DEF FramesKept, B

\* Without transients, nothing depends on what was recorded of them.
LEMMA HoldsEmpty ==
  ASSUME NEW o, NEW t, NEW y, NEW u, NEW w, Holds(o, t, y, u, w), DOMAIN t = {},
         NEW s, NEW z, DOMAIN s = {}
  PROVE  Holds(o, s, z, u, w)
<1>1. CopiesHeld(o, s, z, u, w)
  <2>1. CopiesHeld(o, t, y, u, w)
    BY DEF Holds
  <2>2. QED
    BY <2>1 DEF CopiesHeld, TargetHeld
<1>2. WellKept(o, DOMAIN s)
  BY DEF Holds
<1>3. QED
  BY <1>1, <1>2 DEF Holds

\* What the recording says of the buffers its frame reads.
Consumed(value) == {Entry(transients[b].kind, b, value) : b \in Interned}
ImportedValues == {recording.imported[b] : b \in recording.nodes} \cup {0}
Use == [reads |-> recording.nodes, waits |-> Highest(ImportedValues)]

LEMMA UseIs ==
  ASSUME TransientInv, recording.active
  PROVE  /\ Use.reads = Interned /\ Use.waits \in 0..Len(copies)
         /\ \A b \in Interned : /\ b \in DOMAIN recording.imported
                                /\ recording.imported[b] <= Use.waits
<1>1. /\ recording.nodes = Interned /\ Interned \subseteq DOMAIN recording.imported
      /\ \A b \in DOMAIN recording.imported :
           recording.imported[b] \in Nat /\ recording.imported[b] <= Len(copies)
  <2>1. RecordingKnown
    BY DEF TransientInv, UnderWay
  <2>2. recording.imported \in Imports
    BY <2>1 DEF RecordingKnown, RecordingType
  <2>3. \A b \in DOMAIN recording.imported : recording.imported[b] \in Nat
    BY <2>2 DEF Imports
  <2>4. QED
    BY <2>1, <2>3 DEF RecordingKnown
<1>2. Len(copies) \in Nat
  BY MemoryIs
<1>3. /\ ImportedValues \in SUBSET Nat /\ ImportedValues # {}
      /\ \A x \in ImportedValues : x <= Len(copies)
  BY <1>1, <1>2 DEF ImportedValues
<1>4. /\ Highest(ImportedValues) \in ImportedValues
      /\ \A x \in ImportedValues : x <= Highest(ImportedValues)
  BY <1>2, <1>3, HighestIs
<1>5. \A b \in Interned : recording.imported[b] \in ImportedValues
  BY <1>1 DEF ImportedValues
<1>6. Use.reads = recording.nodes /\ Use.waits = Highest(ImportedValues)
  BY DEF Use
<1>7. Use.waits \in 0..Len(copies)
  <2>1. Highest(ImportedValues) \in Nat
    BY <1>3, <1>4
  <2>2. Highest(ImportedValues) <= Len(copies)
    BY <1>3, <1>4
  <2>3. QED
    BY <1>2, <1>6, <2>1, <2>2
<1>8. \A b \in Interned : recording.imported[b] <= Use.waits
  BY <1>4, <1>5, <1>6
<1>9. QED
  BY <1>1, <1>6, <1>7, <1>8

LEMMA ConsumedIs ==
  ASSUME TransientInv, NEW value \in Nat
  PROVE  /\ Consumed(value) \in SUBSET EntryType
         /\ \A e \in Consumed(value) : /\ e.buffer \in Interned /\ e.value = value
                                       /\ e.pool \in Kinds
         /\ \A b \in Interned : \E e \in Consumed(value) : e.buffer = b
         /\ \A d, e \in Consumed(value) : d.buffer = e.buffer => d = e
<1> DEFINE E(b) == Entry(transients[b].kind, b, value)
<1>1. \A b \in Interned : transients[b].kind \in Kinds /\ b \in Nat
  BY MemoryIs DEF TransientInv, UnderWay, TransientsKnown, UsageType, Interned
<1>2. \A b \in Interned : E(b) \in EntryType /\ E(b).pool \in Kinds
  BY <1>1 DEF Entry, EntryType, Kinds, Pools
<1>3. \A b : E(b).buffer = b /\ E(b).value = value
  BY DEF Entry
<1>4. Consumed(value) = {E(b) : b \in Interned}
  BY DEF Consumed
<1> HIDE DEF E
<1>5. QED
  BY <1>2, <1>3, <1>4

\* The buffers the frame reads go to their pools, behind it.
LEMMA RecycledKept ==
  ASSUME TransientInv, recording.active, CanPrepare(frames),
         NEW m, m = [memory EXCEPT !.frames = Submitted(frames)],
         NEW n, n = Recycled(m, frames.next),
         NEW T, T = DOMAIN transients \ Interned
  PROVE  /\ WellKept(n, T) /\ n.copies = copies /\ n.retired = retired
         /\ n.pools = pools \cup Consumed(frames.next)
         /\ n.frames = Submitted(frames) /\ frames.next \in Nat \ {0}
         /\ n.frames.running = frames.running \cup {frames.next}
         /\ n.frames.next = frames.next + 1
<1> DEFINE g == Submitted(frames)
           C == Consumed(frames.next)
<1>1. /\ memory \in Memories /\ memory.copies = copies /\ memory.pools = pools
      /\ memory.retired = retired /\ memory.frames = frames /\ memory.capacity = capacity
      /\ FramesKept(frames) /\ done \in Nat /\ Placed(memory, DOMAIN transients)
  BY MemoryIs
<1>2. /\ FramesKept(g) /\ Freed(g) = Freed(frames) /\ g.next = frames.next + 1
      /\ g.running = frames.running \cup {frames.next} /\ frames.next \in Nat \ {0}
  BY <1>1, SubmittedFrames
<1>3. /\ C \in SUBSET EntryType
      /\ \A e \in C : e.buffer \in Interned
      /\ \A b \in Interned : \E e \in C : e.buffer = b
      /\ \A d, e \in C : d.buffer = e.buffer => d = e
  BY <1>2, ConsumedIs
<1>s. SourcesHeld(memory)
  BY DEF TransientInv, WellKept
<1>r. Recycled(m, frames.next) = [m EXCEPT !.pools = m.pools \cup C]
  BY DEF Recycled, Consumed
<1> HIDE DEF memory, g, C
<1>4. g \in BooksType(Nat, Nat \ {0})
  <2>1. Freed(g) \subseteq Nat
    BY <1>1, <1>2 DEF Placed, Given
  <2>2. QED
    BY <2>1, <1>2, FramesType
<1>5. /\ m \in Memories /\ m.frames = g /\ m.capacity = capacity /\ m.pools = pools
      /\ m.retired = retired /\ m.copies = copies
  BY <1>1, <1>4 DEF Memories, g
<1>6. /\ n \in Memories /\ n.frames = g /\ n.capacity = capacity /\ n.pools = pools \cup C
      /\ n.retired = retired /\ n.copies = copies
  <2>1. n = [m EXCEPT !.pools = pools \cup C]
    BY <1>5, <1>r
  <2>2. pools \cup C \in SUBSET EntryType
    BY <1>3, <1>5 DEF Memories
  <2>3. QED
    BY <1>5, <2>1, <2>2 DEF Memories
<1>7. Placed(n, T)
  <2>1. /\ InPools(n) = InPools(memory) \cup Interned /\ InRetired(n) = InRetired(memory)
        /\ Given(n) = Given(memory) /\ Freed(n.frames) = Freed(memory.frames)
    BY <1>1, <1>2, <1>3, <1>6 DEF InPools, InRetired, Given
  <2> DEFINE D == DOMAIN transients
  <2>2. Interned \subseteq D /\ T = D \ Interned
    BY DEF Interned
  <2>3. /\ D \cup InPools(memory) \cup InRetired(memory) \cup Freed(memory.frames)
             \subseteq Given(memory)
        /\ InPools(memory) \cap InRetired(memory) = {}
        /\ (InPools(memory) \cup InRetired(memory)) \cap Freed(memory.frames) = {}
        /\ D \cap (InPools(memory) \cup InRetired(memory) \cup Freed(memory.frames)) = {}
    BY <1>1 DEF Placed
  <2>4. /\ \A d, e \in memory.pools : d.buffer = e.buffer => d = e
        /\ \A x, y \in n.retired : x.buffer = y.buffer => x = y
    BY <1>1, <1>6 DEF Placed
  <2>5. \A d \in C, e \in memory.pools : d.buffer # e.buffer
    <3>1. ASSUME NEW d \in C, NEW e \in memory.pools PROVE d.buffer # e.buffer
      <4>1. d.buffer \in D /\ e.buffer \in InPools(memory)
        BY <1>3, <2>2 DEF InPools
      <4>2. QED
        BY <4>1, <2>3
    <3>2. QED
      BY <3>1
  <2>6. \A d, e \in n.pools : d.buffer = e.buffer => d = e
    BY <2>4, <2>5, <1>1, <1>3, <1>6
  <2> HIDE DEF D
  <2>7. QED
    BY ONLY <2>1, <2>2, <2>3, <2>4, <2>6 DEF Placed
<1>8. SourcesHeld(n)
  BY <1>1, <1>6, <1>s DEF SourcesHeld
<1>9. WellKept(n, T)
  BY <1>1, <1>2, <1>6, <1>7, <1>8 DEF WellKept
<1>10. QED
  BY <1>2, <1>6, <1>9 DEF g, C

\* Behind the frame, they are held for the copies it waits for.
LEMMA RecycledHolds ==
  ASSUME TransientInv, recording.active, CanPrepare(frames),
         NEW m, m = [memory EXCEPT !.frames = Submitted(frames)],
         NEW n, n = Recycled(m, frames.next),
         NEW s, s = Without(transients, Interned),
         NEW u, u = With(uses, frames.next, Use)
  PROVE  Holds(n, s, ready, u, unawaited) /\ n.copies = copies
<1> DEFINE v == frames.next
           C == Consumed(v)
<1>1. /\ memory.copies = copies /\ memory.pools = pools
      /\ memory.retired = retired /\ memory.frames = frames
      /\ Len(copies) \in Nat /\ done \in Nat /\ done <= Len(copies)
  BY MemoryIs
<1>2. /\ CopiesHeld(memory, transients, ready, uses, unawaited)
      /\ ReadsHeld(memory, uses) /\ UsesFit(frames, Len(copies), uses)
  BY DEF TransientInv
<1>3. DOMAIN s = DOMAIN transients \ Interned
  BY DEF Without
<1>4. /\ WellKept(n, DOMAIN s) /\ n.copies = copies /\ n.retired = retired
      /\ n.pools = pools \cup C /\ v \in Nat \ {0}
      /\ n.frames.running = frames.running \cup {v} /\ n.frames.next = v + 1
  BY <1>3, RecycledKept
<1>5. /\ \A e \in C : e.buffer \in Interned /\ e.value = v /\ e.pool \in Kinds
      /\ \A b \in Interned : \E e \in C : e.buffer = b
  BY <1>4, ConsumedIs
<1>6. /\ Use.reads = Interned /\ Use.waits \in 0..Len(copies)
      /\ \A b \in Interned : /\ b \in DOMAIN recording.imported
                             /\ recording.imported[b] <= Use.waits
  BY UseIs
<1>t. \A b \in DOMAIN recording.imported : recording.imported[b] \in Nat
  <2>1. recording.imported \in Imports
    BY DEF TransientInv, UnderWay, RecordingKnown, RecordingType
  <2>2. QED
    BY <2>1 DEF Imports
<1>7. /\ v \notin DOMAIN uses /\ v \in DOMAIN u /\ u[v] = Use
      /\ DOMAIN u = DOMAIN uses \cup {v}
      /\ \A x \in DOMAIN uses : u[x] = uses[x]
  <2>1. \A x \in DOMAIN uses : x \in Nat /\ x < v
    BY <1>2 DEF UsesFit
  <2>2. v \notin DOMAIN uses
    BY <2>1, <1>4
  <2>3. QED
    BY <2>2 DEF With
<1> HIDE DEF memory, C, v
<1>8. CopiesHeld(n, s, ready, u, unawaited)
  <2> SUFFICES ASSUME NEW i \in (done + 1)..Len(copies), i \notin unawaited
               PROVE  /\ TargetHeld(n, s, ready, u, copies[i].to, i)
                      /\ recording.active /\ copies[i].to \in DOMAIN recording.imported =>
                           i <= recording.imported[copies[i].to]
    BY <1>4 DEF CopiesHeld
  <2> DEFINE c == copies[i].to
  <2>1. /\ TargetHeld(memory, transients, ready, uses, c, i)
        /\ recording.active /\ c \in DOMAIN recording.imported => i <= recording.imported[c]
        /\ i \in Nat
    BY <1>1, <1>2 DEF CopiesHeld
  <2> HIDE DEF c
  <2>2. CASE c \in Interned
    <3>1. PICK e \in C : e.buffer = c
      BY <2>2, <1>5
    <3>2. i <= Use.waits
      <4>1. i <= recording.imported[c] /\ recording.imported[c] <= Use.waits
            /\ recording.imported[c] \in Nat /\ Use.waits \in Nat
        BY <2>1, <2>2, <1>6, <1>t
      <4>2. QED
        BY <4>1, <2>1
    <3>3. QED
      BY <3>1, <3>2, <2>1, <1>4, <1>5, <1>7 DEF TargetHeld, c
  <2>3. CASE c \notin Interned
    BY <2>1, <2>3, <1>1, <1>3, <1>4, <1>7 DEF TargetHeld, c
  <2>4. QED
    BY <2>2, <2>3
<1>9. ReadsHeld(n, u)
  <2>1. ASSUME NEW x \in frames.running, NEW b \in u[x].reads PROVE ReadHeld(n, b, x)
    <3>1. x \in DOMAIN uses
      BY <1>2 DEF UsesFit
    <3>2. ReadHeld(memory, b, x)
      BY <3>1, <1>1, <1>2, <1>7 DEF ReadsHeld
    <3>3. QED
      BY <3>2, <1>1, <1>4 DEF ReadHeld
  <2>2. ASSUME NEW b \in u[v].reads PROVE ReadHeld(n, b, v)
    <3>1. PICK e \in C : e.buffer = b
      BY <1>5, <1>6, <1>7
    <3>2. QED
      BY <3>1, <1>4, <1>5 DEF ReadHeld
  <2>3. QED
    BY <2>1, <2>2, <1>4 DEF ReadsHeld
<1>10. UsesFit(n.frames, Len(copies), u)
  <2>1. v \in Nat /\ \A x \in DOMAIN uses : x \in Nat /\ x < v + 1
    BY <1>2, <1>4 DEF UsesFit, v
  <2>2. n.frames.running \subseteq DOMAIN u
    BY <1>2, <1>4, <1>7 DEF UsesFit
  <2>3. ASSUME NEW x \in DOMAIN u
        PROVE  /\ x \in Nat /\ x < v + 1 /\ u[x].waits \in 0..Len(copies)
               /\ x \in n.frames.running \/ u[x].waits <= done
    <3>1. CASE x = v
      BY <3>1, <2>1, <1>4, <1>6, <1>7
    <3>2. CASE x \in DOMAIN uses
      BY <3>2, <2>1, <1>2, <1>4, <1>7 DEF UsesFit
    <3>3. QED
      BY <3>1, <3>2, <1>7
  <2>4. QED
    BY <2>2, <2>3, <1>4 DEF UsesFit
<1>11. QED
  BY <1>1, <1>4, <1>8, <1>9, <1>10 DEF Holds

LEMMA SubmitKeeps ==
  ASSUME TransientInv, Submit
  PROVE  TransientInv'
<1> DEFINE m == [memory EXCEPT !.frames = Submitted(frames)]
           n == Recycled(m, frames.next)
           s == Without(transients, Interned)
           u == With(uses, frames.next, Use)
           gone == Available
           o == Disposed(n, gone)
<1>1. /\ recording.active /\ CanPrepare(frames)
      /\ Become(o) /\ uses' = u
      /\ transients' = Without(transients, Interned \cup Available)
      /\ ready' = Without(ready, Interned \cup Available)
      /\ recording' = [recording EXCEPT !.active = FALSE]
      /\ UNCHANGED <<done, unawaited>>
  <2>1. memory.frames = frames
    BY DEF memory
  <2> HIDE DEF memory
  <2>2. QED
    BY <2>1 DEF Submit, Gone, Use, ImportedValues
<1>2. Holds(n, s, ready, u, unawaited) /\ n.copies = copies
  BY <1>1, RecycledHolds
<1>3. DOMAIN s = Available /\ Interned \cup Available = DOMAIN transients
  <2>1. TransientsKnown /\ recording.serial # 0
    BY <1>1 DEF TransientInv, UnderWay, RecordingKnown
  <2>2. DOMAIN s = DOMAIN transients \ Interned
    BY DEF Without
  <2>3. QED
    BY <2>1, <2>2 DEF TransientsKnown, Interned, Available
<1>4. gone \subseteq DOMAIN s /\ \A b \in DOMAIN ready : ready[b] \in Nat
  BY <1>3, ReadyIsNat
<1>o. o = Disposed(n, gone)
  OBVIOUS
<1> HIDE DEF memory, m, n, s, u, o, gone
<1>5. Holds(o, Without(s, gone), Without(ready, gone), u, unawaited) /\ o.copies = copies
  BY <1>2, <1>4, <1>o, GivenBack
<1>6. DOMAIN Without(s, gone) = {} /\ DOMAIN transients' = {}
  BY <1>1, <1>3 DEF Without, gone
<1>7. Holds(o, transients', ready', uses', unawaited')
  <2> DEFINE t2 == transients'
             y2 == ready'
             a == Without(s, gone)
             z == Without(ready, gone)
  <2>1. Holds(o, a, z, u, unawaited) /\ DOMAIN a = {} /\ DOMAIN t2 = {}
    BY <1>5, <1>6
  <2> HIDE DEF t2, y2, a, z
  <2>2. Holds(o, t2, y2, u, unawaited)
    BY ONLY <2>1, HoldsEmpty
  <2>3. QED
    BY <2>2, <1>1 DEF t2, y2
<1>8. recording' \in RecordingType /\ ~recording'.active
  <2>1. recording \in RecordingType
    BY DEF TransientInv, UnderWay, RecordingKnown
  <2>2. QED
    BY <2>1, <1>1 DEF RecordingType
<1>9. MemoryInv'
  <2>1. ImportsWait(recording', o, unawaited')
    BY <1>8 DEF ImportsWait
  <2>2. QED
    BY <2>1, <1>1, <1>7, HoldsThen
<1>10. UnderWay'
  <2>1. copies' = copies
    BY <1>1, <1>5 DEF Become
  <2>2. DOMAIN ready' \subseteq DOMAIN ready /\ \A b \in DOMAIN ready' : ready'[b] = ready[b]
    BY <1>1 DEF Without
  <2>3. QED
    BY <2>1, <2>2, <1>6, <1>8, UnderWayOver
<1>11. QED
  BY <1>9, <1>10 DEF MemoryInv, TransientInv

-----------------------------------------------------------------------------
\* The invariant is inductive.

LEMMA NextHolds ==
  ASSUME TransientInv, [Next]_vars
  PROVE  TransientInv'
<1>1. ASSUME NEW kind \in Kinds, NEW size \in Sizes, Acquire(kind, size)
      PROVE  TransientInv'
  BY <1>1, AcquireKeeps
<1>2. ASSUME NEW b \in DOMAIN transients, Write(b) \/ WriteCommands(b) \/ Release(b)
      PROVE  TransientInv'
  BY <1>2, WriteKeeps, WriteCommandsKeeps, ReleaseKeeps
<1>3. ASSUME NEW bound \in SUBSET DOMAIN transients, Draw(bound) \/ DrawFails(bound)
      PROVE  TransientInv'
  BY <1>3, DrawKeeps, DrawFailsKeeps
<1>4. CASE ReleaseStaging \/ Begin \/ Submit \/ Abort \/ SubmitFails \/ SubmitFailsBadly
  BY <1>4, ReleaseStagingKeeps, BeginKeeps, SubmitKeeps, AbortKeeps, SubmitFailsKeeps,
     SubmitFailsBadlyKeeps
<1>5. CASE CopyEnds \/ FrameEnds
  BY <1>5, CopyEndsKeeps, FrameEndsKeeps
<1>6. CASE UNCHANGED vars
  <2>1. /\ UNCHANGED <<capacity, ready, pools, retired, frames, copies, done>>
        /\ UNCHANGED history /\ UNCHANGED <<transients, recording>>
    BY <1>6 DEF vars
  <2>2. ImportsWait(recording', memory, unawaited)
    <3>1. CopiesHeld(memory, transients, ready, uses, unawaited)
      BY DEF TransientInv
    <3> HIDE DEF memory
    <3>2. QED
      BY <3>1, <2>1 DEF CopiesHeld, ImportsWait
  <2>3. MemoryInv'
    BY <2>1, <2>2, RecordedKeeps
  <2>4. UnderWay'
    BY <2>1, UnderWaySame
  <2>5. QED
    BY <2>3, <2>4 DEF MemoryInv, TransientInv
<1>7. QED
  BY <1>1, <1>2, <1>3, <1>4, <1>5, <1>6 DEF Next

-----------------------------------------------------------------------------
\* What the invariant gives.

LEMMA PlacesApart ==
  ASSUME TransientInv
  PROVE  /\ \A d, e \in pools : d.buffer = e.buffer => d = e
         /\ \A x, y \in retired : x.buffer = y.buffer => x = y
         /\ \A e \in pools : /\ e.buffer \notin DOMAIN transients
                             /\ e.buffer \notin Freed(frames)
                             /\ \A x \in retired : x.buffer # e.buffer
         /\ \A x \in retired : /\ x.buffer \notin DOMAIN transients
                               /\ x.buffer \notin Freed(frames)
         /\ DOMAIN transients \cap Freed(frames) = {}
<1>1. /\ Placed(memory, DOMAIN transients)
      /\ memory.pools = pools /\ memory.retired = retired /\ memory.frames = frames
  BY MemoryIs
<1>2. /\ \A e \in pools : e.buffer \in InPools(memory)
      /\ \A x \in retired : x.buffer \in InRetired(memory)
  BY <1>1 DEF InPools, InRetired
<1> HIDE DEF memory
<1>3. QED
  BY <1>1, <1>2 DEF Placed

LEMMA PendingIs ==
  ASSUME TransientInv, NEW i \in Pending
  PROVE  /\ i \in Nat /\ Entry("staging", copies[i].from, i) \in pools
         /\ i \notin unawaited => TargetHeld(memory, transients, ready, uses, copies[i].to, i)
<1>1. memory.copies = copies /\ memory.pools = pools /\ Len(copies) \in Nat /\ done \in Nat
  BY MemoryIs
<1>2. SourcesHeld(memory) /\ CopiesHeld(memory, transients, ready, uses, unawaited)
  BY DEF TransientInv, WellKept
<1> HIDE DEF memory
<1>3. QED
  BY <1>1, <1>2 DEF SourcesHeld, CopiesHeld, Pending

LEMMA RunningReads ==
  ASSUME TransientInv, NEW v \in frames.running, NEW b \in uses[v].reads
  PROVE  \E e \in pools : e.buffer = b /\ e.pool \in Kinds /\ e.value = v
<1>1. ReadsHeld(memory, uses) /\ memory.frames = frames /\ memory.pools = pools
  BY MemoryIs DEF TransientInv
<1> HIDE DEF memory
<1>2. QED
  BY <1>1 DEF ReadsHeld, ReadHeld

LEMMA UploadsAreSeen ==
  ASSUME TransientInv
  PROVE  FramesSeeUploads
<1>1. BytesKept
  <2> SUFFICES ASSUME NEW i \in Pending, NEW j \in Pending, copies[i].from = copies[j].from
               PROVE  i = j
    BY DEF BytesKept
  <2> DEFINE d == Entry("staging", copies[i].from, i)
             e == Entry("staging", copies[j].from, j)
  <2>1. d \in pools /\ e \in pools
    BY PendingIs
  <2>2. d.buffer = e.buffer /\ d.value = i /\ e.value = j
    BY DEF Entry
  <2> HIDE DEF d, e
  <2>3. QED
    BY <2>1, <2>2, PlacesApart
<1>2. SeesUploads(Pending \ unawaited)
  <2> SUFFICES ASSUME NEW v \in frames.running, NEW i \in Pending \ unawaited,
                      i > uses[v].waits, copies[i].to \in uses[v].reads
               PROVE  FALSE
    BY DEF SeesUploads
  <2> DEFINE c == copies[i].to
  <2>1. PICK e \in pools : e.buffer = c /\ e.pool \in Kinds /\ e.value = v
    BY RunningReads
  <2>2. TargetHeld(memory, transients, ready, uses, c, i) /\ i \in Nat
        /\ memory.pools = pools /\ memory.retired = retired
    BY PendingIs, MemoryIs
  <2>w. uses[v].waits \in Nat
    BY DEF TransientInv, UsesFit
  <2> HIDE DEF c, memory
  <2>3. c \notin DOMAIN transients /\ \A x \in retired : x.buffer # c
    BY <2>1, PlacesApart
  <2>4. PICK d \in pools : d.buffer = c /\ i <= uses[d.value].waits
    BY <2>2, <2>3 DEF TargetHeld
  <2>5. d = e
    BY <2>1, <2>4, PlacesApart
  <2>6. QED
    BY <2>1, <2>2, <2>4, <2>5, <2>w
<1>3. QED
  BY <1>1, <1>2 DEF FramesSeeUploads

LEMMA FramesFreed ==
  ASSUME TransientInv
  PROVE  /\ frames.destroyed \subseteq Freed(frames)
         /\ \A d \in frames.deferred : d.item \in Freed(frames) \ frames.destroyed
         /\ \A d, e \in frames.deferred : d.item = e.item => d = e
<1>1. Books(frames, NoUses, Freed(frames))
  BY MemoryIs DEF FramesKept
<1>2. QED
  BY <1>1 DEF Books, Deferred

LEMMA FreedAfterUse ==
  ASSUME TransientInv
  PROVE  NothingFreedInUse
<1>1. ASSUME NEW v \in frames.running PROVE uses[v].reads \cap frames.destroyed = {}
  <2>1. ASSUME NEW b \in uses[v].reads PROVE b \notin frames.destroyed
    <3>1. PICK e \in pools : e.buffer = b
      BY RunningReads
    <3>2. QED
      BY <3>1, PlacesApart, FramesFreed
  <2>2. QED
    BY <2>1
<1>2. ASSUME NEW i \in Pending \ unawaited
      PROVE  {copies[i].from, copies[i].to} \cap frames.destroyed = {}
  <2> DEFINE c == copies[i].to
             e == Entry("staging", copies[i].from, i)
  <2>1. e \in pools /\ e.buffer = copies[i].from
    BY PendingIs DEF Entry
  <2>2. TargetHeld(memory, transients, ready, uses, c, i)
        /\ memory.pools = pools /\ memory.retired = retired
    BY PendingIs, MemoryIs
  <2> HIDE DEF c, e, memory
  <2>3. copies[i].from \notin frames.destroyed
    BY <2>1, PlacesApart, FramesFreed
  <2>4. c \in DOMAIN transients \/ (\E x \in retired : x.buffer = c)
        \/ (\E d \in pools : d.buffer = c)
    BY <2>2 DEF TargetHeld
  <2>5. c \notin frames.destroyed
    BY <2>4, PlacesApart, FramesFreed
  <2>6. QED
    BY <2>3, <2>5 DEF c
<1>3. QED
  BY <1>1, <1>2 DEF NothingFreedInUse

LEMMA AtMostOne ==
  ASSUME NEW S, \A x, y \in S : x = y
  PROVE  Cardinality(S) <= 1
<1>1. CASE S = {}
  BY <1>1, FS_EmptySet
<1>2. CASE S # {}
  <2>1. PICK x \in S : TRUE
    BY <1>2
  <2>2. S = {x}
    BY <2>1
  <2>3. QED
    BY <2>2, FS_Singleton
<1>3. QED
  BY <1>1, <1>2

LEMMA OwnersApart ==
  ASSUME TransientInv
  PROVE  OwnedOnce
<1> SUFFICES ASSUME NEW b \in Buffers PROVE Cardinality(Owners(b)) <= 1
  BY DEF OwnedOnce
<1> DEFINE t == {"transient" : x \in {b} \cap DOMAIN transients}
           p == {e : e \in {x \in pools : x.buffer = b}}
           r == {y : y \in {x \in retired : x.buffer = b}}
           d == {e : e \in {x \in frames.deferred : x.item = b}}
           g == {"destroyed" : x \in {b} \cap frames.destroyed}
<1>1. Owners(b) = t \cup p \cup r \cup d \cup g
  BY DEF Owners
<1>2. /\ (\A x, y \in t : x = y) /\ (t # {} => b \in DOMAIN transients)
      /\ (\A x, y \in g : x = y) /\ (g # {} => b \in frames.destroyed)
  OBVIOUS
<1>3. /\ \A x \in p : x \in pools /\ x.buffer = b
      /\ \A x \in r : x \in retired /\ x.buffer = b
      /\ \A x \in d : x \in frames.deferred /\ x.item = b
  OBVIOUS
<1> HIDE DEF t, p, r, d, g
<1>4. /\ \A x, y \in p : x = y
      /\ \A x, y \in r : x = y
      /\ \A x, y \in d : x = y
  BY <1>3, PlacesApart, FramesFreed
<1>5. /\ (p # {} => /\ \A x \in r : FALSE
                    /\ b \notin DOMAIN transients /\ b \notin Freed(frames))
      /\ (r # {} => b \notin DOMAIN transients /\ b \notin Freed(frames))
      /\ (b \in DOMAIN transients => b \notin Freed(frames))
  BY <1>3, PlacesApart
<1>6. /\ (d # {} => b \in Freed(frames) \ frames.destroyed)
      /\ (g # {} => b \in Freed(frames))
  BY <1>2, <1>3, FramesFreed
<1>7. \A x, y \in t \cup p \cup r \cup d \cup g : x = y
  BY <1>2, <1>4, <1>5, <1>6
<1>8. QED
  BY <1>1, <1>7, AtMostOne

\* Every call and every end of a copy or a frame, from every state the program
\* can be in, leaves each native buffer at one place, behind whatever still uses
\* it: the staging bucket of a copy behind that copy, its target behind the
\* readers that will wait for it, what a frame reads behind that frame.
THEOREM BuffersHeld == Spec => []TransientInv
<1>1. Init => TransientInv
  BY InitHolds
<1>2. TransientInv /\ [Next]_vars => TransientInv'
  BY NextHolds
<1>3. QED
  BY <1>1, <1>2, PTL DEF Spec

\* A frame that runs has waited for every upload into what it reads, and the
\* host rewrites no staging bucket whose copy is still to run, but for the two
\* kinds of copies FramesSeeUploads names: stage_upload, intern_buffer_resource,
\* recycle_consumed_transients and release_buffer together.
THEOREM UploadsSeen == Spec => []FramesSeeUploads
<1>1. TransientInv => FramesSeeUploads
  BY UploadsAreSeen
<1>2. QED
  BY <1>1, BuffersHeld, PTL

\* A native buffer has one owner at most, and is destroyed after the last frame
\* and copy that use it: pools, trimming, retirement and deferred destruction
\* together, whatever their order.
THEOREM DisposalSafe == Spec => []DisposedSafely
<1>1. TransientInv => DisposedSafely
  BY FreedAfterUse, OwnersApart DEF DisposedSafely
<1>2. QED
  BY <1>1, BuffersHeld, PTL

-----------------------------------------------------------------------------
(* The compiler's arithmetic on ranges, and the cells they stand for: every *)
(* hazard, transition and load check rests on these facts.                  *)

Range2 == [m : Int \X Int, l : Int \X Int]

\* Two ranges overlap in the code's sense exactly when neither is empty and
\* they share a cell: overlaps (validation.rs) misses no conflict and invents none.
THEOREM OverlapsExact ==
  ASSUME NEW a \in Range2, NEW b \in Range2, ~Empty(a), ~Empty(b)
  PROVE  Overlaps(a, b) <=> Cells(a) \cap Cells(b) # {}
<1>1. ASSUME Overlaps(a, b) PROVE Cells(a) \cap Cells(b) # {}
  <2> DEFINE c == <<Larger(a.m[1], b.m[1]), Larger(a.l[1], b.l[1])>>
  <2>1. c \in Cells(a)
    BY <1>1 DEF Range2, Overlaps, Cells, Larger, Empty
  <2>2. c \in Cells(b)
    BY <1>1 DEF Range2, Overlaps, Cells, Larger, Empty
  <2> QED BY <2>1, <2>2
<1>2. ASSUME NEW c \in Cells(a) \cap Cells(b) PROVE Overlaps(a, b)
  BY DEF Range2, Overlaps, Cells
<1> QED BY <1>1, <1>2

\* The intersection of two ranges stands for the cells of both.
THEOREM IntersectionExact ==
  ASSUME NEW a \in Range2, NEW b \in Range2
  PROVE  /\ Intersection(a, b) \in Range2
         /\ Cells(Intersection(a, b)) = Cells(a) \cap Cells(b)
<1>1. Intersection(a, b) \in Range2
  BY DEF Range2, Intersection, Larger, Smaller
<1>2. ASSUME NEW c \in Int \X Int
      PROVE c \in Cells(Intersection(a, b)) <=> c \in Cells(a) /\ c \in Cells(b)
  BY DEF Range2, Intersection, Cells, Larger, Smaller
<1>3. \A r \in Range2 : Cells(r) \subseteq Int \X Int
  BY DEF Cells, Range2
<1> QED BY <1>1, <1>2, <1>3

\* A range minus a cut stands for the cells of the range that are not in the
\* cut, and no fragment is empty (subtract).
THEOREM SubtractExact ==
  ASSUME NEW r \in Range2, NEW cut \in Range2, ~Empty(r)
  PROVE  /\ Subtract(r, cut) \subseteq Range2
         /\ \A p \in Subtract(r, cut) : ~Empty(p)
         /\ UNION {Cells(p) : p \in Subtract(r, cut)} = Cells(r) \ Cells(cut)
<1> DEFINE o == Intersection(r, cut)
<1>1. o \in Range2 /\ Cells(o) = Cells(r) \cap Cells(cut)
  BY IntersectionExact
<1>2. CASE Empty(o)
  <2>1. Cells(o) = {}
    BY <1>1, <1>2 DEF Cells, Empty, Range2
  <2> QED BY <1>1, <1>2, <2>1 DEF Subtract
<1>3. CASE ~Empty(o)
  <2>1. Subtract(r, cut) = {p \in Fragments(r, o) : ~Empty(p)}
    BY <1>3 DEF Subtract
  <2>2. Fragments(r, o) \subseteq Range2
    BY <1>1 DEF Fragments, Range2
  <2>3. /\ r.m[1] <= o.m[1] /\ o.m[2] <= r.m[2] /\ o.m[1] < o.m[2]
        /\ r.l[1] <= o.l[1] /\ o.l[2] <= r.l[2] /\ o.l[1] < o.l[2]
    BY <1>3 DEF Intersection, Larger, Smaller, Empty, Range2
  <2>4. ASSUME NEW c \in Int \X Int
        PROVE (\E p \in Fragments(r, o) : c \in Cells(p)) <=> c \in Cells(r) /\ c \notin Cells(o)
    <3> USE <1>1, <2>3
    <3>1. ASSUME NEW p \in Fragments(r, o), c \in Cells(p)
          PROVE c \in Cells(r) /\ c \notin Cells(o)
      BY <3>1 DEF Fragments, Cells, Range2
    <3>2. ASSUME c \in Cells(r), c \notin Cells(o)
          PROVE \E p \in Fragments(r, o) : c \in Cells(p)
      BY <3>2 DEF Fragments, Cells, Range2
    <3> QED BY <3>1, <3>2
  <2>5. \A p \in Range2 : Empty(p) => Cells(p) = {}
    BY DEF Empty, Cells, Range2
  <2>6. \A p \in Range2 : Cells(p) \subseteq Int \X Int
    BY DEF Cells, Range2
  <2>7. UNION {Cells(p) : p \in Subtract(r, cut)} = Cells(r) \ Cells(o)
    BY <2>1, <2>2, <2>4, <2>5, <2>6
  <2> QED BY <1>1, <2>1, <2>2, <2>7
<1> QED BY <1>2, <1>3

\* The fragments of a range share no cell: nothing is transitioned twice.
THEOREM FragmentsApart ==
  ASSUME NEW r \in Range2, NEW cut \in Range2,
         NEW p \in Subtract(r, cut), NEW q \in Subtract(r, cut), p # q
  PROVE  Cells(p) \cap Cells(q) = {}
<1> DEFINE o == Intersection(r, cut)
<1>1. CASE Empty(o)
  BY <1>1 DEF Subtract
<1>2. CASE ~Empty(o)
  <2>1. o \in Range2
    BY IntersectionExact
  <2>2. p \in Fragments(r, o) /\ q \in Fragments(r, o)
    BY <1>2 DEF Subtract
  <2>3. o.m[1] < o.m[2] /\ o.l[1] < o.l[2]
    BY <1>2, <2>1 DEF Empty, Range2
  <2>4. ASSUME NEW c \in Cells(p) \cap Cells(q) PROVE FALSE
    BY <2>1, <2>2, <2>3, <2>4 DEF Fragments, Cells, Range2
  <2> QED BY <2>4
<1> QED BY <1>1, <1>2

\* After an access the tracked ranges put exactly its cells in its state and
\* leave every other cell in the states it was tracked in (build_transitions_into).
THEOREM TrackExact ==
  ASSUME NEW States, NEW tracked \in SUBSET [range : Range2, state : States],
         \A t \in tracked : ~Empty(t.range),
         NEW a, a.range \in Range2, NEW c
  PROVE  /\ c \in Cells(a.range) =>
              \A t \in Track(a, tracked) : c \in Cells(t.range) => t.state = a.state
         /\ c \notin Cells(a.range) =>
              \A s \in States :
                (\E t \in Track(a, tracked) : t.state = s /\ c \in Cells(t.range))
                  <=> (\E t \in tracked : t.state = s /\ c \in Cells(t.range))
<1> DEFINE Rest(t) == {[range |-> rest, state |-> t.state] : rest \in Subtract(t.range, a.range)}
           Kept == UNION {Rest(t) : t \in tracked}
           new == [range |-> a.range, state |-> a.state]
<1>1. Track(a, tracked) = Kept \cup {new}
  BY DEF Track
<1>2. ASSUME NEW t \in tracked
      PROVE UNION {Cells(p) : p \in Subtract(t.range, a.range)} = Cells(t.range) \ Cells(a.range)
  BY SubtractExact
<1>3. ASSUME NEW x \in Kept
      PROVE \E t \in tracked : x.state = t.state /\ x.range \in Subtract(t.range, a.range)
  OBVIOUS
<1>4. ASSUME NEW x \in Kept, c \in Cells(x.range)
      PROVE \E t \in tracked : x.state = t.state /\ c \in Cells(t.range) \ Cells(a.range)
  <2>1. PICK t \in tracked : x.state = t.state /\ x.range \in Subtract(t.range, a.range)
    BY <1>3
  <2> QED BY <1>2, <1>4, <2>1
<1>5. ASSUME NEW t \in tracked, c \in Cells(t.range), c \notin Cells(a.range)
      PROVE \E x \in Kept : x.state = t.state /\ c \in Cells(x.range)
  <2>1. PICK p \in Subtract(t.range, a.range) : c \in Cells(p)
    BY <1>2, <1>5
  <2>2. [range |-> p, state |-> t.state] \in Rest(t)
    OBVIOUS
  <2> QED BY <2>1, <2>2
<1>6. ASSUME c \in Cells(a.range), NEW t \in Track(a, tracked), c \in Cells(t.range)
      PROVE t.state = a.state
  BY <1>1, <1>4, <1>6
<1>7. ASSUME c \notin Cells(a.range), NEW s \in States
      PROVE (\E t \in Track(a, tracked) : t.state = s /\ c \in Cells(t.range))
              <=> (\E t \in tracked : t.state = s /\ c \in Cells(t.range))
  BY <1>1, <1>4, <1>5, <1>7
<1> QED BY <1>6, <1>7
=============================================================================
