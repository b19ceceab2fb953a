-------------------------- MODULE GeometryStoreProofs --------------------------
(***************************************************************************)
(* For any heaps, strides, capacities, slots and bounds, five invariants   *)
(* of GeometryStore.                                                       *)
(*                                                                         *)
(*  - HeapsExact: the allocator's three operations keep Exact, which is    *)
(*    inductive (StateInv) once the heaps are well typed and a pending     *)
(*    growth asks for some bytes.                                          *)
(*  - RetiredWillReturn follows from OwnersInv: where every handle and     *)
(*    every buffer is (HandlesPlaced, NativesPlaced, HeapsOwned), what the *)
(*    call under way found (CallSound), and the backend's books, whose     *)
(*    objects are the buffers the owner gave up (FramesBooked).            *)
(*  - RangeKeptWhileRead and NativesOutlive need, relative to OwnersInv,   *)
(*    that who retires what a copy or a frame uses waits for it            *)
(*    (CopiesKept, ReadsKept).                                             *)
(*  - EarlierUploadsAwaited needs that the one token of a heap is not      *)
(*    before those of its ranges, and that one imported covers them or     *)
(*    they came later (UploadsCovered).                                    *)
(***************************************************************************)
EXTENDS GeometryStore, NativeFramesProofs, FiniteSetTheorems, SequenceTheorems

FreeRange == [at : Nat, size : Nat]
LiveRange == [handle : Nat, at : Nat, size : Nat]
HeapType == [capacity : Nat, free : SUBSET FreeRange, live : SUBSET LiveRange]

Good(h) == h \in HeapType /\ Exact(h)

-----------------------------------------------------------------------------
\* The allocator.

\* A set of naturals that is not empty has a least element.
LEMMA LeastIs ==
  ASSUME NEW T \in SUBSET Nat, T # {}
  PROVE  \E i \in T : \A j \in T : i <= j
<1>1. PICK i \in T : \A j \in T : ~(<<j, i>> \in OpToRel(<, Nat))
  BY NatLessThanWellFounded, WFMin
<1>2. ASSUME NEW j \in T PROVE i <= j
  <2>1. ~(j < i)
    BY <1>1 DEF OpToRel
  <2>2. QED
    BY <2>1
<1>3. QED
  BY <1>2

LEMMA FirstFitIs ==
  ASSUME NEW h \in HeapType, NEW size \in Nat, Fits(h, size) # {}
  PROVE  FirstFit(h, size) \in Fits(h, size)
<1> DEFINE T == {q.at : q \in Fits(h, size)}
<1>1. T \in SUBSET Nat /\ T # {}
  BY DEF Fits, HeapType, FreeRange
<1>2. PICK i \in T : \A j \in T : i <= j
  BY <1>1, LeastIs
<1>3. \E r \in Fits(h, size) : \A q \in Fits(h, size) : r.at <= q.at
  BY <1>2
<1>4. QED
  BY <1>3 DEF FirstFit

LEMMA NoHeapGood == Good(NoHeap)
BY DEF Good, NoHeap, HeapType, Exact, Within, Disjoint, Covered, Coalesced

LEMMA NewHeapGood ==
  ASSUME NEW capacity \in Nat \ {0}
  PROVE  Good(NewHeap(capacity))
<1> DEFINE h == NewHeap(capacity)
           all == [at |-> 0, size |-> capacity]
<1>h. h.capacity = capacity /\ h.free = {all} /\ h.live = {} /\ h \in HeapType
  BY DEF NewHeap, HeapType, FreeRange
<1>a. all.at = 0 /\ all.size = capacity /\ EndOf(all) = capacity
  BY DEF EndOf
<1> HIDE DEF h, all
<1>1. Within(h) /\ Disjoint(h) /\ Coalesced(h)
  BY <1>h, <1>a DEF Within, Disjoint, Coalesced
<1>2. Covered(h)
  BY <1>h, <1>a DEF Covered
<1>3. QED
  BY <1>h, <1>1, <1>2 DEF Good, Exact, h

LEMMA ReservedGood ==
  ASSUME NEW h, Good(h), NEW handle \in Nat, NEW size \in Nat \ {0},
         Fits(h, size) # {}
  PROVE  /\ Good(Reserved(h, handle, size))
         /\ \E r \in Reserved(h, handle, size).live : r.handle = handle
<1> DEFINE r == FirstFit(h, size)
           rest == [at |-> r.at + size, size |-> r.size - size]
           new == [handle |-> handle, at |-> r.at, size |-> size]
           g == Reserved(h, handle, size)
<1>t. h \in HeapType /\ Exact(h)
  BY DEF Good
<1>r. r \in h.free /\ r \in FreeRange /\ r.size >= size
  BY <1>t, FirstFitIs DEF Fits, HeapType
<1>g. /\ g.capacity = h.capacity
      /\ g.free = (h.free \ {r}) \cup Remainder(r, size)
      /\ g.live = h.live \cup {new}
      /\ g = [h EXCEPT !.free = g.free, !.live = g.live]
  BY <1>t DEF Reserved, HeapType
<1>n. new \in LiveRange /\ EndOf(new) = r.at + size
  BY <1>r DEF LiveRange, FreeRange, EndOf
<1>s. \A x \in Remainder(r, size) :
        /\ x \in FreeRange /\ x.at = r.at + size /\ x.size > 0
        /\ EndOf(x) = EndOf(r) /\ x = rest /\ r.size > size
  BY <1>r DEF Remainder, FreeRange, EndOf
<1>d. \A x \in h.free \cup h.live : x # r => x.at \in Nat /\ x.size \in Nat
  BY <1>t DEF HeapType, FreeRange, LiveRange
<1>a. /\ \A x \in h.free : x # r => Apart(x, r)
      /\ \A x \in h.live : Apart(r, x)
      /\ \A x \in h.free \cup h.live : x.size > 0
  BY <1>t, <1>r DEF Exact, Disjoint, Within
<1>f. r.at \in Nat /\ r.size \in Nat /\ EndOf(r) = r.at + r.size
  BY <1>r DEF FreeRange, EndOf
<1>x. \A x \in h.free : x \in FreeRange
  BY <1>t DEF HeapType
<1>y. \A x \in h.live : x \in LiveRange
  BY <1>t DEF HeapType
<1> HIDE DEF g, r, new, rest
<1>1. g \in HeapType
  <2>1. g.free \subseteq FreeRange /\ g.live \subseteq LiveRange
    BY <1>g, <1>s, <1>n, <1>x, <1>y
  <2>2. QED
    BY <2>1, <1>g, <1>t DEF HeapType
<1>2. Within(g)
  <2>1. EndOf(r) <= h.capacity
    BY <1>t, <1>r DEF Exact, Within
  <2>2. \A x \in h.free \cup h.live : x.size > 0 /\ EndOf(x) <= h.capacity
    BY <1>t DEF Exact, Within
  <2>3. new.size > 0 /\ EndOf(new) <= h.capacity
    BY <2>1, <1>n, <1>f, <1>r, <1>t DEF new, HeapType
  <2>4. QED
    BY <2>1, <2>2, <2>3, <1>g, <1>s DEF Within
<1>3. Disjoint(g)
  <2>1. ASSUME NEW x \in h.free, x # r
        PROVE  /\ Apart(x, new) /\ \A y \in Remainder(r, size) : Apart(x, y) /\ Apart(y, x)
    <3>1. x \in FreeRange /\ Apart(x, r)
      BY <2>1, <1>x, <1>a
    <3>2. QED
      BY <3>1, <1>n, <1>s, <1>f, <1>r DEF Apart, EndOf, FreeRange, new
  <2>2. ASSUME NEW x \in h.live
        PROVE  /\ Apart(x, new) /\ Apart(new, x) /\ \A y \in Remainder(r, size) : Apart(y, x)
    <3>1. x \in LiveRange /\ Apart(r, x)
      BY <2>2, <1>y, <1>a
    <3>2. QED
      BY <3>1, <1>n, <1>s, <1>f, <1>r DEF Apart, EndOf, LiveRange, new
  <2>3. \A y \in Remainder(r, size) : Apart(y, new)
    BY <1>n, <1>s, <1>f DEF Apart
  <2>4. \A x, y \in g.free : x # y => Apart(x, y)
    <3>1. \A x, y \in h.free : x # y => Apart(x, y)
      BY <1>t DEF Exact, Disjoint
    <3>2. QED
      BY <3>1, <2>1, <1>g, <1>s
  <2>5. \A x, y \in g.live : x # y => Apart(x, y)
    <3>1. \A x, y \in h.live : x # y => Apart(x, y)
      BY <1>t DEF Exact, Disjoint
    <3>2. QED
      BY <3>1, <2>2, <1>g
  <2>6. \A x \in g.free, y \in g.live : Apart(x, y)
    <3>1. \A x \in h.free, y \in h.live : Apart(x, y)
      BY <1>t DEF Exact, Disjoint
    <3>2. QED
      BY <3>1, <2>1, <2>2, <2>3, <1>g
  <2>7. QED
    BY <2>4, <2>5, <2>6 DEF Disjoint
<1>4. Covered(g)
  <2>1. SUFFICES ASSUME NEW b \in 0..(h.capacity - 1)
                 PROVE  \E x \in g.free \cup g.live : x.at <= b /\ b < EndOf(x)
    BY <1>g DEF Covered
  <2>2. PICK x \in h.free \cup h.live : x.at <= b /\ b < EndOf(x)
    BY <1>t DEF Exact, Covered
  <2>3. CASE x # r
    BY <2>2, <2>3, <1>g
  <2>4. CASE x = r /\ b < r.at + size
    <3>1. new \in g.live /\ new.at <= b /\ b < EndOf(new)
      BY <2>2, <2>4, <1>n, <1>g DEF new
    <3>2. QED
      BY <3>1
  <2>5. CASE x = r /\ ~(b < r.at + size)
    <3>1. r.size > size
      BY <2>2, <2>5, <1>f, <1>r, <1>t DEF HeapType
    <3>2. rest \in Remainder(r, size)
      BY <3>1 DEF Remainder, rest
    <3>3. rest \in g.free /\ rest.at <= b /\ b < EndOf(rest)
      BY <3>2, <2>2, <2>5, <1>s, <1>g, <1>f, <1>t DEF HeapType
    <3>4. QED
      BY <3>3
  <2>6. QED
    BY <2>3, <2>4, <2>5
<1>5. Coalesced(g)
  <2>1. \A x, y \in h.free : EndOf(x) # y.at
    BY <1>t DEF Exact, Coalesced
  <2>2. ASSUME NEW x \in h.free, x # r, NEW y \in Remainder(r, size)
        PROVE  EndOf(x) # y.at /\ EndOf(y) # x.at
    <3>1. x \in FreeRange /\ Apart(x, r) /\ x.size > 0
      BY <2>2, <1>x, <1>a
    <3>2. EndOf(r) # x.at
      BY <2>1, <1>r
    <3>3. QED
      BY <3>1, <3>2, <1>s, <1>f, <1>r DEF Apart, EndOf, FreeRange
  <2>3. \A y, z \in Remainder(r, size) : EndOf(y) # z.at
    BY <1>s, <1>f, <1>r DEF EndOf, FreeRange
  <2>4. QED
    BY <2>1, <2>2, <2>3, <1>g DEF Coalesced
<1>6. new \in g.live /\ new.handle = handle
  BY <1>g DEF new
<1>7. QED
  BY <1>1, <1>2, <1>3, <1>4, <1>5, <1>6 DEF Good, Exact, g

LEMMA ReleasedGood ==
  ASSUME NEW h, Good(h), NEW r \in h.live
  PROVE  Good(Released(h, r))
<1> DEFINE B == Below(h, r)
           A == Above(h, r)
           start == IF B = {} THEN r.at ELSE (CHOOSE q \in B : TRUE).at
           end == IF A = {} THEN EndOf(r) ELSE EndOf(CHOOSE q \in A : TRUE)
           new == [at |-> start, size |-> end - start]
           g == Released(h, r)
<1>t. h \in HeapType /\ Exact(h)
  BY DEF Good
<1>x. \A x \in h.free : x \in FreeRange /\ EndOf(x) = x.at + x.size /\ x.size > 0
                          /\ EndOf(x) <= h.capacity
  BY <1>t DEF HeapType, Exact, Within, EndOf
<1>y. \A x \in h.live : x \in LiveRange /\ EndOf(x) = x.at + x.size /\ x.size > 0
                          /\ EndOf(x) <= h.capacity
  BY <1>t DEF HeapType, Exact, Within, EndOf
<1>d. /\ \A x, y \in h.free : x # y => Apart(x, y)
      /\ \A x, y \in h.live : x # y => Apart(x, y)
      /\ \A x \in h.free, y \in h.live : Apart(x, y)
      /\ \A x, y \in h.free : EndOf(x) # y.at
  BY <1>t DEF Exact, Disjoint, Coalesced
<1>b. \/ B = {} /\ start = r.at
      \/ \E q \in h.free : B = {q} /\ start = q.at /\ EndOf(q) = r.at /\ q.at < r.at
  <2>1. CASE B = {}
    BY <2>1
  <2>2. CASE B # {}
    <3> DEFINE q == CHOOSE q \in B : TRUE
    <3>1. q \in B /\ start = q.at
      BY <2>2
    <3>2. q \in h.free /\ EndOf(q) = r.at /\ q.at < r.at
      BY <3>1 DEF Below
    <3>3. \A p \in B : p = q
      <4>1. SUFFICES ASSUME NEW p \in B, p # q PROVE FALSE
        OBVIOUS
      <4>2. p \in h.free /\ EndOf(p) = r.at /\ p.at < r.at
        BY DEF Below
      <4>3. QED
        BY <3>2, <4>1, <4>2, <1>x, <1>d, <1>y DEF Apart, FreeRange, LiveRange
    <3> HIDE DEF q
    <3>4. QED
      BY <3>1, <3>2, <3>3
  <2>3. QED
    BY <2>1, <2>2
<1>a. \/ A = {} /\ end = EndOf(r)
      \/ \E q \in h.free : A = {q} /\ end = EndOf(q) /\ q.at = EndOf(r)
  <2>1. CASE A = {}
    BY <2>1
  <2>2. CASE A # {}
    <3> DEFINE q == CHOOSE q \in A : TRUE
    <3>1. q \in A /\ end = EndOf(q)
      BY <2>2
    <3>2. q \in h.free /\ EndOf(r) = q.at
      BY <3>1 DEF Above
    <3>3. \A p \in A : p = q
      <4>1. SUFFICES ASSUME NEW p \in A, p # q PROVE FALSE
        OBVIOUS
      <4>2. p \in h.free /\ EndOf(r) = p.at
        BY DEF Above
      <4>3. QED
        BY <3>2, <4>1, <4>2, <1>x, <1>d, <1>y DEF Apart, FreeRange, LiveRange
    <3> HIDE DEF q
    <3>4. QED
      BY <3>1, <3>2, <3>3
  <2>3. QED
    BY <2>1, <2>2
<1>g. /\ g.capacity = h.capacity
      /\ g.free = (h.free \ (B \cup A)) \cup {new}
      /\ g.live = h.live \ {r}
      /\ g = [h EXCEPT !.free = g.free, !.live = g.live]
  BY <1>t DEF Released, HeapType
<1>f. r.at \in Nat /\ r.size \in Nat /\ r.size > 0 /\ EndOf(r) = r.at + r.size
        /\ h.capacity \in Nat /\ EndOf(r) <= h.capacity
  BY <1>y, <1>t DEF LiveRange, HeapType
<1> DEFINE S == start
           E == end
<1>n. /\ S \in Nat /\ E \in Nat /\ S <= r.at /\ EndOf(r) <= E /\ E <= h.capacity
      /\ \A x \in B : S = x.at /\ EndOf(x) = r.at /\ x \in h.free
      /\ \A x \in A : E = EndOf(x) /\ x.at = EndOf(r) /\ x \in h.free
      /\ S # r.at => \E x \in B : TRUE
      /\ E # EndOf(r) => \E x \in A : TRUE
  <2> HIDE DEF B, A, start, end
  <2>1. \/ B = {} /\ S = r.at
        \/ \E q \in h.free : B = {q} /\ S = q.at /\ EndOf(q) = r.at /\ q.at < r.at
    BY <1>b
  <2>2. \/ A = {} /\ E = EndOf(r)
        \/ \E q \in h.free : A = {q} /\ E = EndOf(q) /\ q.at = EndOf(r)
    BY <1>a
  <2> HIDE DEF S, E
  <2>3. S \in Nat /\ S <= r.at /\ (S # r.at => \E x \in B : TRUE)
          /\ \A x \in B : S = x.at /\ EndOf(x) = r.at /\ x \in h.free
    BY <2>1, <1>f, <1>x DEF FreeRange
  <2>4. E \in Nat /\ EndOf(r) <= E /\ E <= h.capacity /\ (E # EndOf(r) => \E x \in A : TRUE)
          /\ \A x \in A : E = EndOf(x) /\ x.at = EndOf(r) /\ x \in h.free
    BY <2>2, <1>f, <1>x DEF FreeRange
  <2>5. QED
    BY <2>3, <2>4
<1>w. new \in FreeRange /\ new.at = S /\ EndOf(new) = E /\ new.size > 0
  <2> HIDE DEF start, end
  <2>1. start \in Nat /\ end \in Nat /\ start < end
    BY <1>n, <1>f
  <2>2. QED
    BY <2>1 DEF FreeRange, EndOf
<1>k. \A x \in h.free : x \in B <=> EndOf(x) = r.at
  <2>1. SUFFICES ASSUME NEW x \in h.free, EndOf(x) = r.at PROVE x \in B
    BY DEF Below
  <2>2. x.at < r.at
    BY <2>1, <1>x, <1>f DEF FreeRange
  <2>3. ASSUME NEW p \in h.free, p.at < r.at PROVE p.at <= x.at
    BY <2>1, <2>3, <1>x, <1>d, <1>f DEF Apart, FreeRange
  <2>4. QED
    BY <2>1, <2>2, <2>3 DEF Below
<1>l. \A x \in h.free : x \in A <=> x.at = EndOf(r)
  <2>1. SUFFICES ASSUME NEW x \in h.free, x.at = EndOf(r) PROVE x \in A
    BY DEF Above
  <2>2. x.at >= r.at
    BY <2>1, <1>x, <1>f DEF FreeRange
  <2>3. ASSUME NEW p \in h.free, p.at >= r.at PROVE x.at <= p.at
    BY <2>1, <2>3, <1>x, <1>d, <1>f DEF Apart, FreeRange
  <2>4. QED
    BY <2>1, <2>2, <2>3 DEF Above
<1> HIDE DEF g, new, start, end, S, E, A, B
<1>1. g \in HeapType
  <2>1. g.free \subseteq FreeRange /\ g.live \subseteq LiveRange
    BY <1>g, <1>w, <1>x, <1>y
  <2>2. QED
    BY <2>1, <1>g, <1>t DEF HeapType
<1>2. Within(g)
  BY <1>g, <1>w, <1>n, <1>x, <1>y DEF Within
\* A range that is neither r nor joined with it stays apart from the new one.
<1>o. ASSUME NEW x, x \in FreeRange \/ x \in LiveRange, EndOf(x) = x.at + x.size,
             x.size > 0, Apart(x, r), \A q \in A \cup B : Apart(x, q)
      PROVE  Apart(x, new) /\ Apart(new, x)
  <2>0. x.at \in Nat /\ x.size \in Nat
    BY <1>o DEF FreeRange, LiveRange
  <2>1. EndOf(x) <= S \/ EndOf(x) > S
    BY <2>0, <1>n, <1>o
  <2>2. CASE EndOf(x) <= r.at
    <3>1. S = r.at \/ \E q \in B : S = q.at /\ EndOf(q) = r.at /\ Apart(x, q)
      BY <1>n, <1>o
    <3>2. EndOf(x) <= S
      BY <3>1, <2>2, <2>0, <1>n, <1>o, <1>f DEF Apart
    <3>3. QED
      BY <3>2, <1>w DEF Apart
  <2>3. CASE EndOf(r) <= x.at
    <3>1. E = EndOf(r) \/ \E q \in A : E = EndOf(q) /\ q.at = EndOf(r) /\ Apart(x, q)
      BY <1>n, <1>o
    <3>2. E <= x.at
      BY <3>1, <2>3, <2>0, <1>n, <1>o, <1>f DEF Apart
    <3>3. QED
      BY <3>2, <1>w DEF Apart
  <2>4. QED
    BY <2>2, <2>3, <1>o DEF Apart
<1>3. Disjoint(g)
  <2>1. ASSUME NEW x \in h.free, x \notin A \cup B PROVE Apart(x, new) /\ Apart(new, x)
    <3>1. Apart(x, r) /\ \A q \in A \cup B : Apart(x, q)
      BY <2>1, <1>d, <1>n
    <3>2. x \in FreeRange /\ EndOf(x) = x.at + x.size /\ x.size > 0
      BY <1>x
    <3>3. QED
      BY <3>1, <3>2, <1>o
  <2>2. ASSUME NEW x \in h.live, x # r PROVE Apart(x, new) /\ Apart(new, x)
    <3>1. Apart(x, r)
      BY <2>2, <1>d
    <3>2. \A q \in A \cup B : Apart(q, x)
      BY <1>d, <1>n
    <3>3. \A q \in A \cup B : Apart(x, q)
      BY <3>2 DEF Apart
    <3>4. x \in LiveRange /\ EndOf(x) = x.at + x.size /\ x.size > 0
      BY <1>y
    <3>5. QED
      BY <3>1, <3>3, <3>4, <1>o
  <2>3. QED
    BY <2>1, <2>2, <1>d, <1>g DEF Disjoint
<1>4. Covered(g)
  <2>1. SUFFICES ASSUME NEW b \in 0..(h.capacity - 1)
                 PROVE  \E x \in g.free \cup g.live : x.at <= b /\ b < EndOf(x)
    BY <1>g DEF Covered
  <2>2. PICK x \in h.free \cup h.live : x.at <= b /\ b < EndOf(x)
    BY <1>t DEF Exact, Covered
  <2>3. CASE x \in A \cup B \cup {r}
    <3>1. new.at <= b /\ b < EndOf(new)
      <4>1. CASE x = r
        BY <4>1, <2>2, <1>n, <1>w, <1>f
      <4>2. CASE x \in A
        BY <4>2, <2>2, <1>n, <1>w, <1>f
      <4>3. CASE x \in B
        BY <4>3, <2>2, <1>n, <1>w, <1>f
      <4>4. QED
        BY <2>3, <4>1, <4>2, <4>3
    <3>2. QED
      BY <3>1, <1>g
  <2>4. CASE x \notin A \cup B \cup {r}
    BY <2>2, <2>4, <1>g
  <2>5. QED
    BY <2>3, <2>4
<1>5. Coalesced(g)
  <2>1. ASSUME NEW x \in h.free, x \notin A \cup B
        PROVE  EndOf(x) # S /\ E # x.at
    <3>1. EndOf(x) # S
      BY <2>1, <1>n, <1>k, <1>d
    <3>2. E # x.at
      BY <2>1, <1>n, <1>l, <1>d
    <3>3. QED
      BY <3>1, <3>2
  <2>2. E # S
    BY <1>n, <1>f
  <2>3. QED
    BY <2>1, <2>2, <1>d, <1>g, <1>w DEF Coalesced
<1>6. QED
  BY <1>1, <1>2, <1>3, <1>4, <1>5 DEF Good, Exact, g

\* A heap that grows has room for what it grew for.
LEMMA GrownGood ==
  ASSUME NEW h, Good(h), NEW capacity \in Nat, NEW bytes \in Nat \ {0},
         h.capacity + bytes <= capacity
  PROVE  Good(Grown(h, capacity)) /\ Fits(Grown(h, capacity), bytes) # {}
<1> DEFINE L == Last(h)
           start == IF L = {} THEN h.capacity ELSE (CHOOSE q \in L : TRUE).at
           new == [at |-> start, size |-> capacity - start]
           g == Grown(h, capacity)
<1>t. h \in HeapType /\ Exact(h) /\ h.capacity \in Nat
  BY DEF Good, HeapType
<1>x. \A x \in h.free \cup h.live :
        x.at \in Nat /\ x.size \in Nat /\ EndOf(x) = x.at + x.size /\ x.size > 0
          /\ EndOf(x) <= h.capacity
  BY <1>t DEF HeapType, Exact, Within, EndOf, FreeRange, LiveRange
<1>d. /\ \A x, y \in h.free : x # y => Apart(x, y)
      /\ \A x, y \in h.live : x # y => Apart(x, y)
      /\ \A x \in h.free, y \in h.live : Apart(x, y)
      /\ \A x, y \in h.free : EndOf(x) # y.at
  BY <1>t DEF Exact, Disjoint, Coalesced
<1>b. \/ L = {} /\ start = h.capacity
      \/ \E q \in h.free : L = {q} /\ start = q.at /\ EndOf(q) = h.capacity
  <2>1. CASE L = {}
    BY <2>1
  <2>2. CASE L # {}
    <3> DEFINE q == CHOOSE q \in L : TRUE
    <3>1. q \in L /\ start = q.at
      BY <2>2
    <3>2. q \in h.free /\ EndOf(q) = h.capacity
      BY <3>1 DEF Last
    <3>3. \A p \in L : p = q
      <4>1. SUFFICES ASSUME NEW p \in L, p # q PROVE FALSE
        OBVIOUS
      <4>2. p \in h.free /\ EndOf(p) = h.capacity
        BY DEF Last, L
      <4>3. QED
        BY <3>2, <4>1, <4>2, <1>x, <1>d DEF Apart
    <3> HIDE DEF q
    <3>4. QED
      BY <3>1, <3>2, <3>3
  <2>3. QED
    BY <2>1, <2>2
<1>g. /\ g.capacity = capacity
      /\ g.free = (h.free \ L) \cup {new}
      /\ g.live = h.live
      /\ g = [h EXCEPT !.capacity = capacity, !.free = g.free]
  BY <1>t DEF Grown, HeapType
<1>n. /\ start \in Nat /\ start <= h.capacity
      /\ \A x \in h.free : x \in L <=> EndOf(x) = h.capacity
      /\ \A x \in L : x.at = start
      /\ start # h.capacity => \E x \in L : TRUE
  <2>1. \A x \in h.free : x \in L <=> EndOf(x) = h.capacity
    BY DEF Last, L
  <2> HIDE DEF start, L
  <2>2. QED
    BY <2>1, <1>b, <1>x, <1>t
<1>w. /\ new \in FreeRange /\ new.at = start /\ EndOf(new) = capacity
      /\ new.size > 0 /\ new.size >= bytes
  <2> HIDE DEF start
  <2>1. start \in Nat /\ capacity - start \in Nat /\ capacity - start >= bytes
    BY <1>n, <1>t
  <2>2. QED
    BY <2>1 DEF FreeRange, EndOf
<1> HIDE DEF g, new, start, L
<1>1. g \in HeapType
  <2>1. g.free \subseteq FreeRange
    BY <1>g, <1>w, <1>t DEF HeapType
  <2>2. QED
    BY <2>1, <1>g, <1>t DEF HeapType
<1>2. Within(g)
  BY <1>g, <1>w, <1>x, <1>t DEF Within
<1>o. ASSUME NEW x \in h.free \cup h.live, x \notin L,
             \A q \in L : Apart(x, q) \/ Apart(q, x)
      PROVE  Apart(x, new) /\ Apart(new, x)
  <2>1. EndOf(x) <= start
    <3>1. start = h.capacity \/ \E q \in L : q.at = start /\ q \in h.free /\ EndOf(q) = h.capacity
      BY <1>n DEF Last, L
    <3>2. QED
      BY <3>1, <1>x, <1>o, <1>t DEF Apart
  <2>2. QED
    BY <2>1, <1>w DEF Apart
<1>3. Disjoint(g)
  <2>1. \A x \in h.free : x \notin L => Apart(x, new) /\ Apart(new, x)
    <3>1. \A q \in L : q \in h.free
      BY DEF Last, L
    <3>2. QED
      BY <3>1, <1>o, <1>d
  <2>2. \A x \in h.live : Apart(x, new) /\ Apart(new, x)
    <3>1. \A q \in L : q \in h.free
      BY DEF Last, L
    <3>2. ASSUME NEW x \in h.live PROVE x \notin L
      <4>1. SUFFICES ASSUME x \in L PROVE FALSE
        OBVIOUS
      <4>2. Apart(x, x)
        BY <4>1, <3>1, <1>d
      <4>3. QED
        BY <4>2, <1>x DEF Apart
    <3>3. QED
      BY <3>1, <3>2, <1>o, <1>d
  <2>3. QED
    BY <2>1, <2>2, <1>d, <1>g DEF Disjoint
<1>4. Covered(g)
  <2>1. SUFFICES ASSUME NEW b \in 0..(capacity - 1)
                 PROVE  \E x \in g.free \cup g.live : x.at <= b /\ b < EndOf(x)
    BY <1>g DEF Covered
  <2>2. CASE b < start
    <3>1. b \in 0..(h.capacity - 1)
      BY <2>2, <1>n, <1>t
    <3>2. PICK x \in h.free \cup h.live : x.at <= b /\ b < EndOf(x)
      BY <3>1, <1>t DEF Exact, Covered
    <3>3. x \notin L
      BY <3>2, <2>2, <1>n, <1>x
    <3>4. QED
      BY <3>2, <3>3, <1>g
  <2>3. CASE ~(b < start)
    BY <2>3, <1>w, <1>g, <1>n
  <2>4. QED
    BY <2>2, <2>3
<1>5. Coalesced(g)
  <2>1. ASSUME NEW x \in h.free, x \notin L
        PROVE  EndOf(x) # start /\ capacity # x.at
    <3>1. EndOf(x) # start
      BY <2>1, <1>n, <1>d DEF Last, L
    <3>2. capacity # x.at
      BY <1>x, <1>t
    <3>3. QED
      BY <3>1, <3>2
  <2>2. capacity # start
    BY <1>n, <1>t
  <2>3. QED
    BY <2>1, <2>2, <1>d, <1>g, <1>w DEF Coalesced
<1>6. new \in Fits(g, bytes)
  BY <1>g, <1>w DEF Fits
<1>7. QED
  BY <1>1, <1>2, <1>3, <1>4, <1>5, <1>6 DEF Good, Exact, g

-----------------------------------------------------------------------------
\* The invariant of the store: every heap is good, the call under way names a
\* heap and asks for something, and handles are numbers.

HeapsGood == /\ heaps = [n \in Heaps |-> heaps[n]]
             /\ \A n \in Heaps : Good(heaps[n])
SweepShaped ==
  /\ \E op, n, a, s : sweep = [op |-> op, heap |-> n, arg |-> a, seen |-> s]
  /\ sweep.op \in {"create", "drop", "grow"} => sweep.heap \in Heaps
  /\ sweep.op = "grow" => sweep.arg \in Nat \ {0}
StateInv == HeapsGood /\ SweepShaped /\ nextHandle \in Nat

LEMMA OneHeapChanges ==
  ASSUME HeapsGood, NEW n \in Heaps, NEW g, Good(g), heaps' = [heaps EXCEPT ![n] = g]
  PROVE  HeapsGood'
<1> DEFINE H == Heaps
<1>1. heaps = [m \in H |-> heaps[m]] /\ \A m \in H : Good(heaps[m])
  BY DEF HeapsGood
<1> HIDE DEF H
<1>2. n \in H
  BY DEF H
<1>3. heaps' = [m \in H |-> IF m = n THEN g ELSE heaps[m]]
  BY <1>1, <1>2
<1>4. \A m \in H : Good(heaps'[m])
  BY <1>1, <1>2, <1>3
<1>5. heaps' = [m \in H |-> heaps'[m]]
  BY <1>3
<1>6. QED
  BY <1>4, <1>5 DEF HeapsGood, H, Heaps

LEMMA HeapsUnchanged ==
  ASSUME HeapsGood, UNCHANGED heaps PROVE HeapsGood'
BY DEF HeapsGood, Heaps

LEMMA BytesPositive ==
  ASSUME NEW n \in Heaps, NEW count \in Nat \ {0} PROVE Bytes(n, count) \in Nat \ {0}
<1>1. Stride[n] \in Nat \ {0}
  BY GeometryAssumption DEF GeometryAssumption
<1>2. \A s, c \in Nat \ {0} : c * s \in Nat \ {0}
  OBVIOUS
<1>3. QED
  BY <1>1, <1>2 DEF Bytes

\* An upload that is staged or fails leaves the heap it reserved in good.
LEMMA StagingGood ==
  ASSUME HeapsGood, nextHandle \in Nat, NEW n \in Heaps, NEW before, NEW native, NEW ready,
         NEW g, Good(g), NEW bytes \in Nat \ {0}, Fits(g, bytes) # {},
         \/ Stage(n, Reserved(g, nextHandle, bytes), nextHandle, before, native)
         \/ StageFails(n, Reserved(g, nextHandle, bytes), nextHandle, before, native, ready)
  PROVE  HeapsGood' /\ nextHandle' \in Nat
<1> DEFINE h == Reserved(g, nextHandle, bytes)
<1>1. Good(h) /\ \E r \in h.live : r.handle = nextHandle
  BY ReservedGood
<1> HIDE DEF h
<1>2. CASE Stage(n, h, nextHandle, before, native)
  <2>1. heaps' = [heaps EXCEPT ![n] = h] /\ nextHandle' = nextHandle + 1
    BY <1>2 DEF Stage
  <2>2. HeapsGood'
    BY <2>1, <1>1, OneHeapChanges
  <2>3. QED
    BY <2>1, <2>2
<1>3. CASE StageFails(n, h, nextHandle, before, native, ready)
  <2> DEFINE r == CHOOSE r \in h.live : r.handle = nextHandle
  <2>1. r \in h.live
    BY <1>1
  <2>2. heaps' = [heaps EXCEPT ![n] = Released(h, r)] /\ nextHandle' = nextHandle
    BY <1>3 DEF StageFails
  <2> HIDE DEF r
  <2>3. Good(Released(h, r))
    BY <1>1, <2>1, ReleasedGood
  <2>4. QED
    BY <2>2, <2>3, OneHeapChanges
<1>4. QED
  BY <1>2, <1>3 DEF h

LEMMA Initially == Init => StateInv
<1>1. SUFFICES ASSUME Init PROVE StateInv
  OBVIOUS
<1>2. HeapsGood
  <2> DEFINE H == Heaps
  <2>1. heaps = [n \in H |-> NoHeap]
    BY <1>1 DEF Init
  <2> HIDE DEF H
  <2>2. heaps = [n \in H |-> heaps[n]] /\ \A n \in H : Good(heaps[n])
    BY <2>1, NoHeapGood
  <2>3. QED
    BY <2>2 DEF HeapsGood, H
<1>3. SweepShaped
  BY <1>1 DEF Init, SweepShaped, Idle
<1>4. QED
  BY <1>1, <1>2, <1>3 DEF StateInv, Init

\* The calls that only look at the heaps, or do not touch them.
LEMMA OthersKeep ==
  ASSUME StateInv,
         \/ \E n \in Names : CreateHeap(n) \/ DropHeap(n)
         \/ \E n \in Heaps : \E count \in Counts[n] : UploadGrowing(n, count)
         \/ \E handle \in Handles : Remove(handle) \/ Draw(handle)
         \/ RemoveBody \/ Return
         \/ Begin \/ Submit \/ Abort \/ SubmitFails \/ SubmitFailsBadly
         \/ CopyCompletes \/ FrameEnds \/ Poll
  PROVE  StateInv'
<1>1. heaps' = heaps /\ nextHandle' = nextHandle
  BY DEF CreateHeap, DropHeap, UploadGrowing, Remove, Draw, RemoveBody, Return, Begin,
         Submit, Abort, SubmitFails, SubmitFailsBadly, CopyCompletes, FrameEnds, Poll, owner
<1>2. SweepShaped'
  <2>1. CASE sweep' = sweep
    BY <2>1 DEF StateInv, SweepShaped, Heaps
  <2>2. CASE \E n \in Names : CreateHeap(n) \/ DropHeap(n)
    BY <2>2 DEF CreateHeap, DropHeap, Sweep, SweepShaped, Heaps
  <2>3. CASE \E n \in Heaps : \E count \in Counts[n] : UploadGrowing(n, count)
    <3>0. PICK n \in Heaps : \E count \in Counts[n] : UploadGrowing(n, count)
      BY <2>3
    <3>1. PICK count \in Counts[n] : UploadGrowing(n, count)
      BY <3>0
    <3>2. count \in Nat \ {0}
      BY GeometryAssumption DEF GeometryAssumption
    <3>3. CASE sweep' # sweep
      BY <3>1, <3>2, <3>3 DEF UploadGrowing, Sweep, SweepShaped, Heaps
    <3>4. QED
      BY <3>3, <2>1
  <2>4. CASE \E handle \in Handles : Remove(handle)
    <3>1. PICK handle \in Handles : Remove(handle)
      BY <2>4
    <3>2. sweep' = [op |-> "remove", heap |-> HeapOf(handle), arg |-> handle, seen |-> done]
      BY <3>1 DEF Remove, Sweep
    <3>3. QED
      BY <3>2 DEF SweepShaped
  <2>5. CASE RemoveBody
    BY <2>5 DEF RemoveBody, StateInv, SweepShaped
  <2>6. CASE Return \/ Submit \/ Abort \/ SubmitFails
    <3>1. \E op, s : /\ sweep' = [op |-> op, heap |-> Index, arg |-> 0, seen |-> s]
                    /\ op \in {"none", "return"}
      <4>1. CASE Return
        BY <4>1 DEF Return, Idle
      <4>2. CASE Submit
        BY <4>2 DEF Submit, Idle
      <4>3. CASE Abort
        BY <4>3 DEF Abort, Idle
      <4>4. CASE SubmitFails
        BY <4>4 DEF SubmitFails, Idle
      <4>5. QED
        BY <2>6, <4>1, <4>2, <4>3, <4>4
    <3>2. PICK op, s : /\ sweep' = [op |-> op, heap |-> Index, arg |-> 0, seen |-> s]
                       /\ op \in {"none", "return"}
      BY <3>1
    <3>3. sweep'.op \notin {"create", "drop", "grow"}
      BY <3>2
    <3>4. QED
      BY <3>2, <3>3 DEF SweepShaped
  <2>7. CASE \/ \E handle \in Handles : Draw(handle)
             \/ Begin \/ SubmitFailsBadly \/ CopyCompletes \/ FrameEnds \/ Poll
    BY <2>7, <2>1 DEF Draw, Begin, SubmitFailsBadly, CopyCompletes, FrameEnds, Poll
  <2>8. QED
    BY <2>2, <2>3, <2>4, <2>5, <2>6, <2>7
<1>3. QED
  BY <1>1, <1>2, HeapsUnchanged DEF StateInv

LEMMA ReclaimStepKeeps == ASSUME StateInv, Reclaim PROVE StateInv'
<1>1. sweep' = sweep /\ nextHandle' = nextHandle
  BY DEF Reclaim, ReclaimNative, ReclaimRange, ReclaimHeap
<1>2. HeapsGood'
  <2>1. CASE \E x \in retired.natives : ReclaimNative(x)
    BY <2>1, HeapsUnchanged DEF ReclaimNative, StateInv
  <2>2. ASSUME NEW x \in retired.ranges, ReclaimRange(x) PROVE HeapsGood'
    <3>0. PICK n \in Heaps :
            \E r \in heaps[n].live : heaps' = [heaps EXCEPT ![n] = Released(heaps[n], r)]
      BY <2>2 DEF ReclaimRange
    <3>1. PICK r \in heaps[n].live : heaps' = [heaps EXCEPT ![n] = Released(heaps[n], r)]
      BY <3>0
    <3>2. Good(Released(heaps[n], r))
      BY <3>1, ReleasedGood DEF StateInv, HeapsGood
    <3>3. QED
      BY <3>1, <3>2, OneHeapChanges DEF StateInv
  <2>3. ASSUME NEW x \in retired.heaps, ReclaimHeap(x) PROVE HeapsGood'
    <3>1. heaps' = [heaps EXCEPT ![x.name] = NoHeap]
      BY <2>3 DEF ReclaimHeap
    <3>2. CASE x.name \in Heaps
      BY <3>1, <3>2, NoHeapGood, OneHeapChanges DEF StateInv
    <3>3. CASE x.name \notin Heaps
      <4>1. heaps' = heaps
        <5> DEFINE H == Heaps
        <5>1. heaps = [n \in H |-> heaps[n]] /\ x.name \notin H
          BY <3>3 DEF StateInv, HeapsGood
        <5> HIDE DEF H
        <5>2. QED
          BY <5>1, <3>1
      <4>2. QED
        BY <4>1, HeapsUnchanged DEF StateInv
    <3>4. QED
      BY <3>2, <3>3
  <2>4. QED
    BY <2>1, <2>2, <2>3 DEF Reclaim
<1>3. QED
  BY <1>1, <1>2 DEF StateInv, SweepShaped, Heaps

LEMMA BodiesKeep == ASSUME StateInv, CreateBody \/ DropBody PROVE StateInv'
<1>1. sweep' = Idle
  BY DEF CreateBody, DropBody
<1>2. SweepShaped'
  BY <1>1 DEF SweepShaped, Idle
<1>3. nextHandle' = nextHandle
  BY DEF CreateBody, DropBody, owner
<1>4. sweep.heap \in Heaps
  BY DEF CreateBody, DropBody, StateInv, SweepShaped
<1>5. CASE heaps' = heaps
  BY <1>5, HeapsUnchanged, <1>2, <1>3 DEF StateInv
<1>6. CASE heaps' = [heaps EXCEPT ![sweep.heap] = NewHeap(Capacity)]
  <2>1. Good(NewHeap(Capacity))
    BY NewHeapGood, GeometryAssumption DEF GeometryAssumption
  <2>2. QED
    BY <1>6, <2>1, <1>4, OneHeapChanges, <1>2, <1>3 DEF StateInv
<1>7. CASE heaps' = [heaps EXCEPT ![sweep.heap] = NoHeap]
  BY <1>7, NoHeapGood, <1>4, OneHeapChanges, <1>2, <1>3 DEF StateInv
<1>8. QED
  BY <1>5, <1>6, <1>7 DEF CreateBody, DropBody, owner

LEMMA UploadKeeps ==
  ASSUME StateInv, NEW n \in Heaps, NEW count \in Counts[n], Upload(n, count)
  PROVE  StateInv'
<1>1. count \in Nat \ {0}
  BY GeometryAssumption DEF GeometryAssumption
<1>2. Bytes(n, count) \in Nat \ {0}
  BY <1>1, BytesPositive
<1>3. Good(heaps[n])
  BY DEF StateInv, HeapsGood
<1>4. HeapsGood' /\ nextHandle' \in Nat
  BY <1>2, <1>3, StagingGood DEF Upload, StateInv
<1>5. sweep' = sweep
  BY DEF Upload
<1>6. QED
  BY <1>4, <1>5 DEF StateInv, SweepShaped, Heaps

LEMMA FirstIndexKeeps ==
  ASSUME StateInv, NEW count \in Counts[Index], UploadFirstIndex(count)
  PROVE  StateInv'
<1> DEFINE bytes == Bytes(Index, count)
           capacity == IF Capacity >= bytes THEN Capacity ELSE bytes
<1>0. Index \in Heaps
  BY DEF Heaps
<1>1. count \in Nat \ {0}
  BY <1>0, GeometryAssumption DEF GeometryAssumption
<1>2. bytes \in Nat \ {0}
  BY <1>0, <1>1, BytesPositive
<1>u. \/ Stage(Index, Reserved(NewHeap(capacity), nextHandle, bytes), nextHandle,
               copies, nextNative)
      \/ StageFails(Index, Reserved(NewHeap(capacity), nextHandle, bytes), nextHandle,
                    copies, nextNative, 0)
  BY DEF UploadFirstIndex
<1> HIDE DEF bytes
<1>3. capacity \in Nat \ {0} /\ capacity >= bytes
  BY <1>2, GeometryAssumption DEF GeometryAssumption
<1> HIDE DEF capacity
<1>4. Good(NewHeap(capacity))
  BY <1>3, NewHeapGood
<1>5. Fits(NewHeap(capacity), bytes) # {}
  <2> DEFINE all == [at |-> 0, size |-> capacity]
  <2>1. all.size >= bytes
    BY <1>3
  <2>2. all \in NewHeap(capacity).free
    BY DEF NewHeap
  <2>3. QED
    BY <2>1, <2>2 DEF Fits
<1>6. HeapsGood' /\ nextHandle' \in Nat
  BY <1>u, <1>0, <1>2, <1>4, <1>5, StagingGood DEF StateInv
<1>7. sweep' = sweep
  BY DEF UploadFirstIndex
<1>8. QED
  BY <1>6, <1>7 DEF StateInv, SweepShaped, Heaps

LEMMA GrowKeeps == ASSUME StateInv, GrowBody PROVE StateInv'
<1> DEFINE n == sweep.heap
           bytes == Bytes(n, sweep.arg)
           capacity == GrownCapacity(heaps[n].capacity, bytes)
           grown == Grown(heaps[n], capacity)
           moved == Append(copies, Copy(0, storage[n].native, nextNative))
<1>1. n \in Heaps /\ sweep.arg \in Nat \ {0} /\ Good(heaps[n])
  BY DEF GrowBody, StateInv, SweepShaped, HeapsGood
<1>2. bytes \in Nat \ {0}
  BY <1>1, BytesPositive
<1>u. \/ heaps' = heaps /\ nextHandle' = nextHandle
      \/ Stage(n, Reserved(grown, nextHandle, bytes), nextHandle, moved, nextNative)
      \/ StageFails(n, Reserved(grown, nextHandle, bytes), nextHandle, moved, nextNative,
                    Len(moved))
  BY DEF GrowBody, owner
<1>s. SweepShaped'
  BY DEF GrowBody, SweepShaped, Idle
<1>3. heaps[n].capacity \in Nat
  BY <1>1 DEF Good, HeapType
<1> HIDE DEF bytes, moved
<1>4. capacity \in Nat /\ heaps[n].capacity + bytes <= capacity
  BY <1>2, <1>3 DEF GrownCapacity
<1> HIDE DEF capacity
<1>5. Good(grown) /\ Fits(grown, bytes) # {}
  BY <1>1, <1>2, <1>4, GrownGood
<1> HIDE DEF grown, n
<1>6. HeapsGood' /\ nextHandle' \in Nat
  <2>1. CASE heaps' = heaps /\ nextHandle' = nextHandle
    BY <2>1, HeapsUnchanged DEF StateInv
  <2>2. CASE \/ Stage(n, Reserved(grown, nextHandle, bytes), nextHandle, moved, nextNative)
             \/ StageFails(n, Reserved(grown, nextHandle, bytes), nextHandle, moved,
                           nextNative, Len(moved))
    BY <2>2, <1>1, <1>2, <1>5, StagingGood DEF StateInv
  <2>3. QED
    BY <1>u, <2>1, <2>2
<1>7. QED
  BY <1>6, <1>s DEF StateInv

\* One case per action of Next.
LEMMA StepKeeps == ASSUME StateInv, [Next]_vars PROVE StateInv'
<1>1. CASE UNCHANGED vars
  BY <1>1, HeapsUnchanged DEF vars, owner, StateInv, SweepShaped, Heaps
<1>2. CASE Reclaim
  BY <1>2, ReclaimStepKeeps
<1>3. CASE CreateBody \/ DropBody
  BY <1>3, BodiesKeep
<1>4. CASE \E n \in Heaps : \E count \in Counts[n] : Upload(n, count)
  BY <1>4, UploadKeeps
<1>5. CASE \E count \in Counts[Index] : UploadFirstIndex(count)
  BY <1>5, FirstIndexKeeps
<1>6. CASE GrowBody
  BY <1>6, GrowKeeps
<1>7. CASE \/ \E n \in Names : CreateHeap(n) \/ DropHeap(n)
           \/ \E n \in Heaps : \E count \in Counts[n] : UploadGrowing(n, count)
           \/ \E handle \in Handles : Remove(handle) \/ Draw(handle)
           \/ RemoveBody \/ Return
           \/ Begin \/ Submit \/ Abort \/ SubmitFails \/ SubmitFailsBadly
           \/ CopyCompletes \/ FrameEnds \/ Poll
  BY <1>7, OthersKeep
<1>8. QED
  BY <1>1, <1>2, <1>3, <1>4, <1>5, <1>6, <1>7 DEF Next

\* For every stride, capacity and upload size: the free and the live ranges of
\* each heap of the context divide it exactly, through uploads, refused uploads,
\* growth, drops and reclamation in any order (GeometryManager, geometry.rs).
THEOREM HeapsStayExact == Spec => []HeapsExact
<1>1. StateInv => HeapsExact
  BY DEF StateInv, HeapsGood, HeapsExact, Good
<1>2. QED
  BY Initially, StepKeeps, <1>1, PTL DEF Spec

-----------------------------------------------------------------------------
\* What the owner and the device hold.

\* The records of the store.
NativeRecord == [native : Nat, transfer : Nat, graphics : Nat]
RangeRecord == [handle : Handles, transfer : Nat, serial : Nat, graphics : Nat]
HeapRecord == [name : Names, native : Nat]
ImportRecord == [is : BOOLEAN, ready : Nat, mark : Nat]
DrawRecord ==
  [handle : Handles, heap : Heaps, at : Nat, size : Nat, upload : Nat]
ReadRecord ==
  [handle : Handles, native : Nat, at : Nat, size : Nat, upload : Nat, mark : Nat]
CopyRecord == [handle : Nat, src : Nat, dst : Nat]

RetiredType ==
  [natives : SUBSET NativeRecord, ranges : SUBSET RangeRecord, heaps : SUBSET HeapRecord]
RecordingType ==
  [active : BOOLEAN, serial : Nat, imported : [Heaps -> ImportRecord],
   drawn : SUBSET DrawRecord]
UsesShaped ==
  /\ uses = [v \in Values |-> uses[v]]
  /\ \A v \in Values : uses[v].reads \subseteq ReadRecord
OwnerShaped ==
  /\ storage \in [Heaps -> [native : Nat, ready : Nat]]
  /\ tokens \in [Handles -> Nat]
  /\ nextHandle \in Nat \ {0} /\ nextNative \in Nat \ {0}
  /\ retired \in RetiredType
DeviceShaped ==
  /\ recording \in RecordingType
  /\ copies \in Seq(CopyRecord) /\ done \in 0..Len(copies)
  /\ UsesShaped
  /\ frames.backend = "vulkan"

\* What the call under way found, which nothing changes before its body.
CallSound ==
  /\ sweep \in [op : {"none", "create", "drop", "grow", "remove", "return"},
                heap : Heaps, arg : Nat, seen : 0..done]
  /\ sweep.op = "create" => sweep.heap \in Names /\ storage[sweep.heap].native = 0
  /\ sweep.op = "drop" => sweep.heap \in Names /\ storage[sweep.heap].native # 0
  /\ sweep.op = "grow" =>
       /\ storage[sweep.heap].native # 0 /\ ~recording.imported[sweep.heap].is
       /\ nextHandle \in Handles
  /\ sweep.op = "remove" => sweep.arg \in Held

\* Every live range has a handle of its own, and is held or retired, once.
HandlesPlaced ==
  /\ \A n \in Heaps : \A r \in heaps[n].live :
       /\ r.handle \in Handles /\ r.handle < nextHandle
       /\ tokens[r.handle] = 0 => \E x \in retired.ranges : x.handle = r.handle
       /\ \A m \in Heaps : \A q \in heaps[m].live : r.handle = q.handle => n = m /\ r = q
  /\ \A h \in Held :
       /\ \E n \in Heaps : \E r \in heaps[n].live : r.handle = h
       /\ tokens[h] <= Len(copies)
  /\ \A x, y \in retired.ranges : x.handle = y.handle => x = y
  /\ \A x \in retired.ranges :
       /\ x.transfer <= Len(copies) /\ x.graphics <= LastFrame(frames)
       /\ tokens[x.handle] = 0
       /\ \E n \in Heaps : \E r \in heaps[n].live : r.handle = x.handle
       /\ x.serial # 0 =>
            x.serial \in givenUp \/ (recording.active /\ x.serial = recording.serial)
SerialsRise ==
  /\ \A s \in givenUp : s \in Nat /\ s <= recording.serial
  /\ recording.active => recording.serial # 0 /\ recording.serial \notin givenUp

\* Where the buffers are.
Stored == {storage[n].native : n \in Heaps} \ {0}
Outgrown == {x.native : x \in retired.natives}
Orphaned == {x.native : x \in retired.heaps}
NativesPlaced ==
  /\ Stored \cup Outgrown \cup Orphaned \cup Freed(frames) = 1..(nextNative - 1)
  /\ Stored \cap (Outgrown \cup Orphaned \cup Freed(frames)) = {}
  /\ Outgrown \cap (Orphaned \cup Freed(frames)) = {} /\ Orphaned \cap Freed(frames) = {}
  /\ \A n, m \in Heaps :
       storage[n].native # 0 /\ storage[n].native = storage[m].native => n = m
  /\ \A x, y \in retired.natives : x.native = y.native => x = y
  /\ \A x, y \in retired.heaps : x.native = y.native \/ x.name = y.name => x = y
HeapsOwned ==
  /\ \A n \in Heaps :
       Exists(heaps[n]) <=> storage[n].native # 0 \/ \E x \in retired.heaps : x.name = n
  /\ \A x \in retired.heaps : storage[x.name].native = 0

\* A recording draws from heaps it imported, and those are not dropped.
RecordingSound ==
  /\ \A d \in recording.drawn : recording.active /\ recording.imported[d.heap].is
  /\ \A n \in Heaps : recording.imported[n].is => storage[n].native # 0

ReadNatives == [v \in Values |-> {x.native : x \in uses[v].reads}]
FramesBooked == Books(frames, ReadNatives, Freed(frames))

Placed ==
  /\ OwnerShaped /\ DeviceShaped /\ HandlesPlaced /\ SerialsRise
  /\ NativesPlaced /\ HeapsOwned /\ RecordingSound /\ FramesBooked
OwnersInv == StateInv /\ Placed /\ CallSound

-----------------------------------------------------------------------------
\* What a step leaves alone.

LEMMA ValuesAre ==
  /\ DOMAIN ReadNatives = Values /\ ReadNatives = [v \in Values |-> ReadNatives[v]]
  /\ Values \subseteq Nat \ {0}
BY GeometryAssumption DEF ReadNatives, Values, GeometryAssumption

LEMMA HandlesAre == Handles \subseteq Nat \ {0}
BY GeometryAssumption DEF Handles, GeometryAssumption

\* The frames of a step that submits none: what the backend was asked to free
\* since is in freed.
FramesGoOn(freed) ==
  /\ Books(frames', ReadNatives, freed)
  /\ frames'.backend = "vulkan" /\ frames'.last = frames.last
  /\ frames'.running \subseteq frames.running
UsesGoOn ==
  /\ UsesShaped'
  /\ \A v \in frames'.running : uses'[v] = uses[v]

LEMMA FramesUnchanged ==
  ASSUME OwnersInv, UNCHANGED <<frames, uses>>
  PROVE  FramesGoOn(Freed(frames)) /\ UsesGoOn
BY DEF OwnersInv, Placed, FramesBooked, DeviceShaped, FramesGoOn, UsesGoOn, UsesShaped, Values,
       ReadRecord, Handles

LEMMA FramesPolled ==
  ASSUME OwnersInv, frames' \in Polled(frames), UNCHANGED uses
  PROVE  FramesGoOn(Freed(frames)) /\ UsesGoOn
<1>1. Books(frames, ReadNatives, Freed(frames)) /\ frames.backend = "vulkan"
  BY DEF OwnersInv, Placed, FramesBooked, DeviceShaped
<1>2. QED
  BY <1>1, PollKeeps, PolledIs
  DEF OwnersInv, Placed, DeviceShaped, FramesGoOn, UsesGoOn, UsesShaped, Values, ReadRecord,
      Handles

LEMMA FramesDeferred ==
  ASSUME OwnersInv, NEW b, b \notin Freed(frames), frames' = Defer(frames, b), UNCHANGED uses
  PROVE  FramesGoOn(Freed(frames) \cup {b}) /\ UsesGoOn
<1>1. Books(frames, ReadNatives, Freed(frames)) /\ frames.backend = "vulkan"
  BY DEF OwnersInv, Placed, FramesBooked, DeviceShaped
<1>2. QED
  BY <1>1, DeferKeeps, DeferIs
  DEF OwnersInv, Placed, DeviceShaped, FramesGoOn, UsesGoOn, UsesShaped, Values, ReadRecord,
      Handles

LEMMA FramesWaited ==
  ASSUME OwnersInv, CanPrepare(frames), UNCHANGED uses,
         frames' \in {Idled(Refused(frames)), Idled(PresentFailed(frames)),
                      IdledBadly(Refused(frames))}
  PROVE  FramesGoOn(Freed(frames)) /\ UsesGoOn /\ frames'.running = {}
<1>1. Books(frames, ReadNatives, Freed(frames)) /\ frames.backend = "vulkan"
  BY DEF OwnersInv, Placed, FramesBooked, DeviceShaped
<1>2. /\ Books(Refused(frames), ReadNatives, Freed(frames))
      /\ Refused(frames).last = frames.last /\ Refused(frames).backend = "vulkan"
  BY <1>1, RefusedKeeps, RefusedIs
<1>3. /\ Books(PresentFailed(frames), ReadNatives, Freed(frames))
      /\ PresentFailed(frames).last = frames.last
      /\ PresentFailed(frames).backend = "vulkan"
  BY <1>1, PresentFailedIs
<1>4. /\ Books(frames', ReadNatives, Freed(frames)) /\ frames'.running = {}
      /\ frames'.last = frames.last /\ frames'.backend = "vulkan"
  BY <1>2, <1>3, WaitedIs
<1>5. QED
  BY <1>4 DEF OwnersInv, Placed, DeviceShaped, FramesGoOn, UsesGoOn, UsesShaped, Values,
     ReadRecord, Handles

LEMMA FramesEnd ==
  ASSUME OwnersInv, FrameEnds
  PROVE  FramesGoOn(Freed(frames)) /\ UsesGoOn
<1> DEFINE l == Lowest(frames.running)
<1>1. Books(frames, ReadNatives, Freed(frames)) /\ frames.backend = "vulkan"
  BY DEF OwnersInv, Placed, FramesBooked, DeviceShaped
<1>2. frames' = OldestEnds(frames) /\ frames.running # {}
  BY DEF FrameEnds
<1>3. /\ Books(frames', ReadNatives, Freed(frames))
      /\ frames'.running = frames.running \ {l}
      /\ frames'.last = frames.last /\ frames'.backend = "vulkan"
  BY <1>1, <1>2, OldestEndsKeeps, OldestEndsIs
<1>4. uses' = [uses EXCEPT ![l] = NoFrame]
  BY DEF FrameEnds
<1>5. NoFrame.reads = {}
  BY DEF NoFrame
<1>6. UsesShaped /\ frames.running \subseteq Values
  BY <1>1, ValuesAre DEF OwnersInv, Placed, DeviceShaped, Books, Typed, BooksType
<1> HIDE DEF l
<1>7. UsesShaped'
  <2> DEFINE V == Values
  <2>1. uses = [v \in V |-> uses[v]] /\ \A v \in V : uses[v].reads \subseteq ReadRecord
    BY <1>6 DEF UsesShaped
  <2> HIDE DEF V
  <2>2. /\ uses' = [v \in V |-> uses'[v]]
        /\ \A v \in V : uses'[v].reads \subseteq ReadRecord
    BY <2>1, <1>4, <1>5
  <2>3. QED
    BY <2>2 DEF UsesShaped, V, Values, ReadRecord, Handles
<1>8. \A v \in frames'.running : uses'[v] = uses[v]
  BY <1>3, <1>4, <1>6 DEF UsesShaped
<1>9. QED
  BY <1>3, <1>7, <1>8 DEF FramesGoOn, UsesGoOn

\* What follows for the books after the step.
LEMMA BooksGoOn ==
  ASSUME NEW freed, FramesGoOn(freed), UsesGoOn
  PROVE  /\ FramesBooked' /\ Freed(frames') = freed
         /\ LastFrame(frames') = frames.last
<1>1. Books(frames', ReadNatives, freed)
  BY DEF FramesGoOn
<1>2. Freed(frames') = freed
  BY <1>1, FreedIs
<1>3. frames'.running \subseteq Values
  BY <1>1, ValuesAre DEF Books, Typed, BooksType
<1>4. \A v \in frames'.running : ReadNatives'[v] = ReadNatives[v]
  BY <1>3 DEF ReadNatives, UsesGoOn
<1>5. ReadNatives' = [v \in DOMAIN ReadNatives |-> ReadNatives'[v]]
  BY DEF ReadNatives
<1>6. Books(frames', ReadNatives', freed)
  <2> DEFINE u1 == ReadNatives'
  <2>1. /\ u1 = [v \in DOMAIN ReadNatives |-> u1[v]]
        /\ \A v \in frames'.running : u1[v] = ReadNatives[v]
    BY <1>4, <1>5
  <2> HIDE DEF u1
  <2>2. Books(frames', u1, freed)
    BY <1>1, <2>1, BooksAgree
  <2>3. QED
    BY <2>2 DEF u1
<1>7. QED
  BY <1>2, <1>6 DEF FramesBooked, FramesGoOn, LastFrame
-----------------------------------------------------------------------------
\* Each part of Placed, when a step does not touch what it speaks of.

LEMMA HandlesStay ==
  ASSUME HandlesPlaced, OwnerShaped, DeviceShaped,
         \A n \in Heaps : heaps'[n].live = heaps[n].live,
         UNCHANGED <<tokens, nextHandle, givenUp>>, retired'.ranges = retired.ranges,
         Len(copies') \in Nat, Len(copies) <= Len(copies'),
         LastFrame(frames') \in Nat, LastFrame(frames) \in Nat,
         LastFrame(frames) <= LastFrame(frames'),
         recording'.active = recording.active, recording'.serial = recording.serial
  PROVE  HandlesPlaced'
<1>1. Len(copies) \in Nat
  BY DEF DeviceShaped
<1>2. \A x \in retired.ranges : x.transfer \in Nat /\ x.graphics \in Nat
  BY DEF OwnerShaped, RetiredType, RangeRecord
<1>3. \A h \in Handles : tokens[h] \in Nat
  BY DEF OwnerShaped
<1>4. \A n \in Heaps : \A r \in heaps'[n].live :
       /\ r.handle \in Handles /\ r.handle < nextHandle'
       /\ tokens'[r.handle] = 0 => \E x \in retired'.ranges : x.handle = r.handle
       /\ \A m \in Heaps : \A q \in heaps'[m].live : r.handle = q.handle => n = m /\ r = q
  BY DEF HandlesPlaced
<1>5. Held' = Held
  BY DEF Held
<1>6. \A h \in Held :
       /\ \E n \in Heaps : \E r \in heaps'[n].live : r.handle = h
       /\ tokens'[h] <= Len(copies')
  BY <1>1, <1>3 DEF HandlesPlaced, Held
<1>7. \A x \in retired'.ranges :
       /\ x.transfer <= Len(copies') /\ x.graphics <= LastFrame(frames')
       /\ tokens'[x.handle] = 0
       /\ \E n \in Heaps : \E r \in heaps'[n].live : r.handle = x.handle
       /\ x.serial # 0 =>
            x.serial \in givenUp' \/ (recording'.active /\ x.serial = recording'.serial)
  BY <1>1, <1>2 DEF HandlesPlaced
<1>8. \A x, y \in retired'.ranges : x.handle = y.handle => x = y
  BY DEF HandlesPlaced
<1>9. QED
  BY <1>4, <1>5, <1>6, <1>7, <1>8 DEF HandlesPlaced, Heaps, Handles

LEMMA LastFrameIs ==
  ASSUME OwnersInv
  PROVE  /\ LastFrame(frames) = frames.last /\ frames.last \in Nat /\ frames.next \in Nat
         /\ frames.last < frames.next /\ frames.completed \in Nat
         /\ \A v \in frames.running : v \in Values /\ v <= frames.last /\ frames.completed < v
<1>1. Books(frames, ReadNatives, Freed(frames)) /\ frames.backend = "vulkan"
  BY DEF OwnersInv, Placed, FramesBooked, DeviceShaped
<1>2. /\ frames.last \in Nat /\ frames.next \in Nat /\ frames.completed \in Nat
      /\ frames.last < frames.next
      /\ \A v \in frames.running : v \in Values /\ v <= frames.last
  BY <1>1, ValuesAre DEF Books, Typed, BooksType, Ordered
<1>3. \A v \in frames.running : frames.completed < v
  BY <1>1, CompletedIs DEF CompletedValue
<1>4. QED
  BY <1>1, <1>2, <1>3 DEF LastFrame

\* Handles stay where they are in a step that submits no frame.
LEMMA HandlesGoOn ==
  ASSUME OwnersInv, NEW freed, FramesGoOn(freed), UsesGoOn,
         \A n \in Heaps : heaps'[n].live = heaps[n].live,
         UNCHANGED <<tokens, nextHandle, givenUp, copies>>, retired'.ranges = retired.ranges,
         recording'.active = recording.active, recording'.serial = recording.serial
  PROVE  HandlesPlaced'
<1>1. LastFrame(frames') = frames.last
  BY BooksGoOn
<1>2. LastFrame(frames) = frames.last /\ frames.last \in Nat
  BY LastFrameIs
<1>3. Len(copies) \in Nat /\ Len(copies') \in Nat
  BY DEF OwnersInv, Placed, DeviceShaped
<1>4. QED
  BY <1>1, <1>2, <1>3, HandlesStay DEF OwnersInv, Placed

LEMMA DeviceGoesOn ==
  ASSUME OwnersInv, NEW freed, FramesGoOn(freed), UsesGoOn,
         recording' \in RecordingType, UNCHANGED copies, done' \in done..Len(copies)
  PROVE  DeviceShaped'
<1>1. done \in 0..Len(copies) /\ Len(copies) \in Nat /\ copies \in Seq(CopyRecord)
  BY DEF OwnersInv, Placed, DeviceShaped
<1>2. done' \in 0..Len(copies)
  BY <1>1
<1>3. frames'.backend = "vulkan" /\ UsesShaped'
  BY DEF FramesGoOn, UsesGoOn
<1>4. QED
  BY <1>1, <1>2, <1>3
  DEF DeviceShaped, RecordingType, UsesShaped, DrawRecord, ReadRecord, Handles, Heaps, Values

LEMMA SerialsStay ==
  ASSUME SerialsRise, UNCHANGED givenUp,
         recording'.active = recording.active, recording'.serial = recording.serial
  PROVE  SerialsRise'
BY DEF SerialsRise

LEMMA NativesStay ==
  ASSUME NativesPlaced, UNCHANGED <<storage, nextNative>>, retired'.natives = retired.natives,
         retired'.heaps = retired.heaps, Freed(frames') = Freed(frames)
  PROVE  NativesPlaced'
<1>1. Stored' = Stored /\ Outgrown' = Outgrown /\ Orphaned' = Orphaned
  BY DEF Stored, Outgrown, Orphaned, Heaps
<1>2. QED
  BY <1>1 DEF NativesPlaced, Heaps

LEMMA HeapsStay ==
  ASSUME HeapsOwned, \A n \in Heaps : heaps'[n].capacity = heaps[n].capacity,
         UNCHANGED storage, retired'.heaps = retired.heaps
  PROVE  HeapsOwned'
BY DEF HeapsOwned, Exists, Heaps

LEMMA RecordingStays ==
  ASSUME RecordingSound, UNCHANGED recording,
         \A n \in Heaps : recording.imported[n].is => storage'[n].native # 0
  PROVE  RecordingSound'
BY DEF RecordingSound, Heaps

-----------------------------------------------------------------------------
\* The owner does nothing, or nothing yet.

Quiet ==
  /\ UNCHANGED <<heaps, storage, tokens, nextHandle, nextNative, retired>>
  /\ UNCHANGED <<recording, copies, givenUp>>
  /\ done' \in done..Len(copies)
  /\ FramesGoOn(Freed(frames)) /\ UsesGoOn

LEMMA QuietKeeps ==
  ASSUME OwnersInv, Quiet
  PROVE  Placed'
<1>1. OwnerShaped'
  BY DEF OwnersInv, Placed, Quiet, OwnerShaped, RetiredType, RangeRecord, HeapRecord,
         Heaps, Handles
<1>2. DeviceShaped'
  <2>1. recording' \in RecordingType
    BY DEF OwnersInv, Placed, DeviceShaped, Quiet
  <2>2. QED
    BY <2>1, DeviceGoesOn DEF Quiet
<1>3. HandlesPlaced'
  BY HandlesGoOn DEF Quiet
<1>4. SerialsRise'
  BY SerialsStay DEF Quiet, OwnersInv, Placed
<1>5. FramesBooked' /\ Freed(frames') = Freed(frames)
  BY BooksGoOn DEF Quiet
<1>6. NativesPlaced'
  BY <1>5, NativesStay DEF Quiet, OwnersInv, Placed
<1>7. HeapsOwned'
  BY HeapsStay DEF Quiet, OwnersInv, Placed
<1>8. RecordingSound'
  BY RecordingStays DEF Quiet, OwnersInv, Placed, RecordingSound
<1>9. QED
  BY <1>1, <1>2, <1>3, <1>4, <1>5, <1>6, <1>7, <1>8 DEF Placed
\* The steps that leave the owner's state as it is.

LEMMA CallStays ==
  ASSUME OwnersInv, UNCHANGED <<sweep, storage, nextHandle, tokens>>,
         recording'.imported = recording.imported, done \in Nat, done' \in Nat, done <= done'
  PROVE  CallSound'
<1>1. /\ sweep = [op |-> sweep.op, heap |-> sweep.heap, arg |-> sweep.arg, seen |-> sweep.seen]
      /\ sweep.op \in {"none", "create", "drop", "grow", "remove", "return"}
      /\ sweep.heap \in Heaps /\ sweep.arg \in Nat /\ sweep.seen \in 0..done
  BY DEF OwnersInv, CallSound
<1>2. sweep.seen \in 0..done'
  BY <1>1
<1>3. sweep' \in [op : {"none", "create", "drop", "grow", "remove", "return"},
                  heap : Heaps, arg : Nat, seen : 0..done']
  BY <1>1, <1>2
<1>4. QED
  BY <1>3 DEF OwnersInv, CallSound, Heaps, Handles, Held

LEMMA CallEnds ==
  ASSUME NEW op \in {"none", "return"}, NEW seen \in 0..done',
         sweep' = [op |-> op, heap |-> Index, arg |-> 0, seen |-> seen]
  PROVE  CallSound'
<1>1. Index \in Heaps
  BY DEF Heaps
<1>2. sweep' \in [op : {"none", "create", "drop", "grow", "remove", "return"},
                  heap : Heaps, arg : Nat, seen : 0..done']
  BY <1>1
<1>3. sweep'.op \in {"none", "return"}
  OBVIOUS
<1>4. QED
  BY <1>2, <1>3 DEF CallSound, Heaps

LEMMA DoneIs ==
  ASSUME OwnersInv
  PROVE  done \in Nat /\ Len(copies) \in Nat /\ done <= Len(copies) /\ done \in 0..done
         /\ done \in done..Len(copies)
BY DEF OwnersInv, Placed, DeviceShaped

\* A call that begins with a sweep.
LEMMA CallBegins ==
  ASSUME OwnersInv, NEW op \in {"create", "drop", "grow", "remove"}, NEW n \in Heaps,
         NEW arg \in Nat, Sweep(op, n, arg),
         UNCHANGED <<owner, recording, copies, done, uses, givenUp>>,
         op \in {"create", "drop"} => n \in Names,
         op = "create" => storage[n].native = 0,
         op \in {"drop", "grow"} => storage[n].native # 0,
         op = "grow" => ~recording.imported[n].is /\ nextHandle \in Handles,
         op = "remove" => arg \in Held
  PROVE  Quiet /\ CallSound'
<1>1. done \in 0..done /\ done \in done..Len(copies)
  BY DoneIs
<1>2. sweep' = [op |-> op, heap |-> n, arg |-> arg, seen |-> done]
  BY DEF Sweep
<1>3. FramesGoOn(Freed(frames)) /\ UsesGoOn
  <2>1. CASE frames' = frames
    BY <2>1, FramesUnchanged
  <2>2. CASE frames' \in Polled(frames)
    BY <2>2, FramesPolled
  <2>3. QED
    BY <2>1, <2>2 DEF Sweep
<1>4. Quiet
  BY <1>1, <1>3 DEF Quiet, owner
<1>5. sweep' \in [op : {"none", "create", "drop", "grow", "remove", "return"},
                  heap : Heaps, arg : Nat, seen : 0..done']
  BY <1>1, <1>2
<1>6. sweep'.op = op /\ sweep'.heap = n /\ sweep'.arg = arg
  BY <1>2
<1>7. QED
  BY <1>4, <1>5, <1>6 DEF CallSound, Quiet, Heaps, Handles, Held

LEMMA HeapOfIs ==
  ASSUME HandlesPlaced, NEW h \in Held
  PROVE  /\ HeapOf(h) \in Heaps
         /\ RangeOf(h) \in heaps[HeapOf(h)].live /\ RangeOf(h).handle = h
<1>1. \E n \in Heaps : \E r \in heaps[n].live : r.handle = h
  BY DEF HandlesPlaced
<1>2. HeapOf(h) \in Heaps /\ \E r \in heaps[HeapOf(h)].live : r.handle = h
  BY <1>1 DEF HeapOf
<1>3. QED
  BY <1>2 DEF RangeOf

LEMMA QuietSteps ==
  ASSUME OwnersInv,
         \/ Return \/ \E n \in Names : CreateHeap(n) \/ DropHeap(n)
         \/ \E n \in Heaps : \E count \in Counts[n] : UploadGrowing(n, count)
         \/ \E handle \in Handles : Remove(handle)
         \/ CopyCompletes \/ FrameEnds \/ Poll
  PROVE  Quiet /\ CallSound'
<1>d. done \in Nat /\ Len(copies) \in Nat /\ done <= Len(copies) /\ done \in done..Len(copies)
  BY DoneIs
<1>1. CASE Return
  <2>1. FramesGoOn(Freed(frames)) /\ UsesGoOn
    BY <1>1, FramesUnchanged DEF Return
  <2>2. Quiet
    BY <1>1, <1>d, <2>1 DEF Return, Quiet, owner
  <2>3. sweep' = [op |-> "none", heap |-> Index, arg |-> 0, seen |-> 0] /\ 0 \in 0..done'
    BY <1>1, <1>d DEF Return, Idle
  <2>4. QED
    BY <2>2, <2>3, CallEnds
<1>2. ASSUME NEW n \in Names, CreateHeap(n) PROVE Quiet /\ CallSound'
  <2>1. n \in Heaps /\ 0 \in Nat
    BY DEF Heaps
  <2>2. QED
    BY <1>2, <2>1, CallBegins DEF CreateHeap
<1>3. ASSUME NEW n \in Names, DropHeap(n) PROVE Quiet /\ CallSound'
  <2>1. n \in Heaps /\ 0 \in Nat
    BY DEF Heaps
  <2>2. QED
    BY <1>3, <2>1, CallBegins DEF DropHeap
<1>4. ASSUME NEW n \in Heaps, NEW count \in Counts[n], UploadGrowing(n, count)
      PROVE  Quiet /\ CallSound'
  <2>1. count \in Nat
    BY GeometryAssumption DEF GeometryAssumption
  <2>2. CASE recording.imported[n].is
    <3>1. UNCHANGED <<owner, sweep, frames, recording, copies, done, uses, givenUp>>
      BY <1>4, <2>2 DEF UploadGrowing
    <3>2. FramesGoOn(Freed(frames)) /\ UsesGoOn
      BY <3>1, FramesUnchanged
    <3>3. CallSound'
      BY <3>1, <1>d, CallStays DEF owner
    <3>4. QED
      BY <3>1, <3>2, <3>3, <1>d DEF Quiet, owner
  <2>3. CASE ~recording.imported[n].is
    BY <1>4, <2>1, <2>3, CallBegins DEF UploadGrowing
  <2>4. QED
    BY <2>2, <2>3
<1>5. ASSUME NEW h \in Handles, Remove(h) PROVE Quiet /\ CallSound'
  <2>1. h \in Held
    BY <1>5 DEF Remove
  <2>2. HeapOf(h) \in Heaps /\ h \in Nat
    BY <2>1, HeapOfIs, HandlesAre DEF OwnersInv, Placed
  <2>3. QED
    BY <1>5, <2>1, <2>2, CallBegins DEF Remove
<1>6. CASE CopyCompletes
  <2>1. FramesGoOn(Freed(frames)) /\ UsesGoOn
    BY <1>6, FramesUnchanged DEF CopyCompletes
  <2>2. done' \in done..Len(copies) /\ done' \in Nat /\ done <= done'
    BY <1>6, <1>d DEF CopyCompletes
  <2>3. CallSound'
    BY <1>6, <1>d, <2>2, CallStays DEF CopyCompletes, owner
  <2>4. QED
    BY <1>6, <2>1, <2>2, <2>3 DEF CopyCompletes, Quiet, owner
<1>7. CASE FrameEnds
  <2>1. FramesGoOn(Freed(frames)) /\ UsesGoOn
    BY <1>7, FramesEnd
  <2>2. CallSound'
    BY <1>7, <1>d, CallStays DEF FrameEnds, owner
  <2>3. QED
    BY <1>7, <1>d, <2>1, <2>2 DEF FrameEnds, Quiet, owner
<1>8. CASE Poll
  <2>1. FramesGoOn(Freed(frames)) /\ UsesGoOn
    BY <1>8, FramesPolled DEF Poll
  <2>2. CallSound'
    BY <1>8, <1>d, CallStays DEF Poll, owner
  <2>3. QED
    BY <1>8, <1>d, <2>1, <2>2 DEF Poll, Quiet, owner
<1>9. QED
  BY <1>1, <1>2, <1>3, <1>4, <1>5, <1>6, <1>7, <1>8

\* The bodies that find nothing to do.
LEMMA QuietBodies ==
  ASSUME OwnersInv, CreateBody \/ DropBody \/ GrowBody, UNCHANGED <<owner, frames, copies>>
  PROVE  Quiet /\ CallSound'
<1>d. done \in Nat /\ Len(copies) \in Nat /\ done <= Len(copies) /\ done \in done..Len(copies)
  BY DoneIs
<1>1. UNCHANGED <<recording, done, uses, givenUp>> /\ sweep' = Idle
  BY DEF CreateBody, DropBody, GrowBody
<1>2. FramesGoOn(Freed(frames)) /\ UsesGoOn
  BY <1>1, FramesUnchanged
<1>3. sweep' = [op |-> "none", heap |-> Index, arg |-> 0, seen |-> 0] /\ 0 \in 0..done'
  BY <1>1, <1>d DEF Idle
<1>4. CallSound'
  BY <1>3, CallEnds
<1>5. QED
  BY <1>1, <1>2, <1>4, <1>d DEF Quiet, owner
-----------------------------------------------------------------------------
\* reclaim_retired_geometry.

LEMMA RetiredIs ==
  ASSUME OwnersInv
  PROVE  /\ retired = [natives |-> retired.natives, ranges |-> retired.ranges,
                       heaps |-> retired.heaps]
         /\ \A x \in retired.natives : x \in NativeRecord
         /\ \A x \in retired.ranges : x \in RangeRecord
         /\ \A x \in retired.heaps : x \in HeapRecord
BY DEF OwnersInv, Placed, OwnerShaped, RetiredType

LEMMA RetiredTyped ==
  ASSUME NEW natives \in SUBSET NativeRecord, NEW ranges \in SUBSET RangeRecord,
         NEW orphans \in SUBSET HeapRecord
  PROVE  [natives |-> natives, ranges |-> ranges, heaps |-> orphans] \in RetiredType
BY DEF RetiredType

\* An outgrown buffer goes to the backend.
LEMMA NativeReclaimed ==
  ASSUME OwnersInv, NEW x \in retired.natives, ReclaimNative(x)
  PROVE  Placed'
<1> DEFINE b == x.native
           rest == retired.natives \ {x}
<1>p. NativesPlaced /\ OwnerShaped
  BY DEF OwnersInv, Placed
<1>d. done \in done..Len(copies)
  BY DoneIs
<1>r. /\ retired' = [natives |-> rest, ranges |-> retired.ranges, heaps |-> retired.heaps]
      /\ rest \subseteq NativeRecord
  BY RetiredIs DEF ReclaimNative
<1>s. /\ retired'.natives = rest /\ retired'.ranges = retired.ranges
      /\ retired'.heaps = retired.heaps
  BY <1>r
<1>u. /\ UNCHANGED <<heaps, storage, tokens, nextHandle, nextNative, sweep,
                     recording, copies, done, uses, givenUp>>
      /\ frames' = Defer(frames, b)
  BY DEF ReclaimNative
<1>b. b \in Outgrown /\ b \notin Freed(frames)
  BY <1>p DEF Outgrown, NativesPlaced
<1>f. FramesGoOn(Freed(frames) \cup {b}) /\ UsesGoOn
  BY <1>u, <1>b, FramesDeferred
<1>g. FramesBooked' /\ Freed(frames') = Freed(frames) \cup {b}
  BY <1>f, BooksGoOn
<1>1. OwnerShaped'
  BY <1>u, <1>r, <1>p, RetiredTyped DEF OwnerShaped, RetiredType, RangeRecord, HeapRecord,
     Heaps, Handles
<1>2. DeviceShaped'
  BY <1>u, <1>d, <1>f, DeviceGoesOn DEF OwnersInv, Placed, DeviceShaped
<1>3. HandlesPlaced'
  BY <1>u, <1>s, <1>f, HandlesGoOn
<1>4. SerialsRise'
  BY <1>u, SerialsStay DEF OwnersInv, Placed
<1>5. NativesPlaced'
  <2>1. Outgrown' = Outgrown \ {b}
    BY <1>s, <1>p DEF Outgrown, NativesPlaced
  <2>2. Stored' = Stored /\ Orphaned' = Orphaned
    BY <1>u, <1>s DEF Stored, Orphaned, Heaps
  <2> HIDE DEF b, rest
  <2>3. /\ Stored' \cup Outgrown' \cup Orphaned' \cup Freed(frames') = 1..(nextNative' - 1)
        /\ Stored' \cap (Outgrown' \cup Orphaned' \cup Freed(frames')) = {}
        /\ Outgrown' \cap (Orphaned' \cup Freed(frames')) = {}
        /\ Orphaned' \cap Freed(frames') = {}
    BY <2>1, <2>2, <1>b, <1>g, <1>u, <1>p DEF NativesPlaced
  <2>4. /\ \A y, z \in retired'.natives : y.native = z.native => y = z
        /\ \A y, z \in retired'.heaps : y.native = z.native \/ y.name = z.name => y = z
        /\ \A n, m \in Heaps :
             storage'[n].native # 0 /\ storage'[n].native = storage'[m].native => n = m
    BY <1>s, <1>u, <1>p DEF NativesPlaced, rest
  <2>5. QED
    BY <2>3, <2>4 DEF NativesPlaced, Heaps
<1>6. HeapsOwned'
  BY <1>u, <1>s, HeapsStay DEF OwnersInv, Placed
<1>7. RecordingSound'
  BY <1>u, RecordingStays DEF OwnersInv, Placed, RecordingSound
<1>8. QED
  BY <1>1, <1>2, <1>3, <1>4, <1>5, <1>6, <1>7, <1>g DEF Placed

\* A heap's ranges after one of them returns.
LEMMA ReleasedLive ==
  ASSUME NEW h \in HeapType, NEW r
  PROVE  Released(h, r).live = h.live \ {r} /\ Released(h, r).capacity = h.capacity
BY DEF Released, HeapType

\* A range returns to its heap.
LEMMA RangeReclaimed ==
  ASSUME OwnersInv, NEW x \in retired.ranges, ReclaimRange(x)
  PROVE  /\ Placed'
         /\ retired'.natives = retired.natives /\ retired'.heaps = retired.heaps
         /\ retired'.ranges = retired.ranges \ {x}
         /\ \E n \in Heaps : \E r \in heaps[n].live :
              /\ r.handle = x.handle
              /\ heaps'[n].live = heaps[n].live \ {r}
              /\ \A m \in Heaps \ {n} : heaps'[m] = heaps[m]
<1> DEFINE rest == retired.ranges \ {x}
<1>p. HandlesPlaced /\ OwnerShaped /\ DeviceShaped
  BY DEF OwnersInv, Placed
<1>d. done \in done..Len(copies) /\ Len(copies) \in Nat
  BY DoneIs
<1>r. /\ retired' = [natives |-> retired.natives, ranges |-> rest, heaps |-> retired.heaps]
      /\ rest \subseteq RangeRecord
  BY RetiredIs DEF ReclaimRange
<1>s. /\ retired'.natives = retired.natives /\ retired'.ranges = rest
      /\ retired'.heaps = retired.heaps
  BY <1>r
<1>u. UNCHANGED <<storage, tokens, nextHandle, nextNative, sweep, recording,
                  frames, copies, done, uses, givenUp>>
  BY DEF ReclaimRange
<1>n. PICK n \in Heaps : \E r \in heaps[n].live :
        r.handle = x.handle /\ heaps' = [heaps EXCEPT ![n] = Released(heaps[n], r)]
  BY DEF ReclaimRange
<1>q. PICK r \in heaps[n].live :
        r.handle = x.handle /\ heaps' = [heaps EXCEPT ![n] = Released(heaps[n], r)]
  BY <1>n
<1>h. /\ heaps[n] \in HeapType
      /\ \A m \in Heaps : heaps'[m] = IF m = n THEN Released(heaps[n], r) ELSE heaps[m]
  <2> DEFINE H == Heaps
  <2>1. heaps = [m \in H |-> heaps[m]] /\ n \in H /\ heaps[n] \in HeapType
    BY DEF OwnersInv, StateInv, HeapsGood, Good
  <2> HIDE DEF H
  <2>2. \A m \in H : heaps'[m] = IF m = n THEN Released(heaps[n], r) ELSE heaps[m]
    BY <2>1, <1>q
  <2>3. QED
    BY <2>1, <2>2 DEF H
<1>l. /\ heaps'[n].live = heaps[n].live \ {r} /\ heaps'[n].capacity = heaps[n].capacity
      /\ \A m \in Heaps \ {n} : heaps'[m] = heaps[m]
  BY <1>h, ReleasedLive
<1>f. FramesGoOn(Freed(frames)) /\ UsesGoOn
  BY <1>u, FramesUnchanged
<1>g. FramesBooked' /\ Freed(frames') = Freed(frames)
  BY <1>f, BooksGoOn
<1>1. OwnerShaped'
  BY <1>u, <1>r, <1>p, RetiredTyped, RetiredIs DEF OwnerShaped, RetiredType, NativeRecord,
     HeapRecord, Heaps, Handles
<1>2. DeviceShaped'
  BY <1>u, <1>d, <1>f, <1>p, DeviceGoesOn DEF DeviceShaped
<1>3. HandlesPlaced'
  <2>1. \A m \in Heaps : \A q \in heaps'[m].live : q \in heaps[m].live
    BY <1>l
  <2>2. \A m \in Heaps : \A q \in heaps[m].live : q.handle # x.handle => q \in heaps'[m].live
    BY <1>l, <1>q
  <2>3. \A m \in Heaps : \A q \in heaps'[m].live : q.handle # x.handle
    <3>1. SUFFICES ASSUME NEW m \in Heaps, NEW q \in heaps'[m].live, q.handle = x.handle
                   PROVE  FALSE
      OBVIOUS
    <3>2. m = n /\ q = r
      BY <2>1, <3>1, <1>q, <1>p DEF HandlesPlaced
    <3>3. QED
      BY <3>2, <1>l
  <2>4. \A m \in Heaps : \A q \in heaps'[m].live :
         /\ q.handle \in Handles /\ q.handle < nextHandle'
         /\ tokens'[q.handle] = 0 => \E y \in retired'.ranges : y.handle = q.handle
         /\ \A k \in Heaps : \A z \in heaps'[k].live : q.handle = z.handle => m = k /\ q = z
    BY <2>1, <2>3, <1>u, <1>s, <1>p DEF HandlesPlaced
  <2>5. Held' = Held
    BY <1>u DEF Held
  <2>6. tokens[x.handle] = 0
    BY <1>p DEF HandlesPlaced
  <2>7. \A h \in Held :
         /\ \E m \in Heaps : \E q \in heaps'[m].live : q.handle = h
         /\ tokens'[h] <= Len(copies')
    <3>1. SUFFICES ASSUME NEW h \in Held
                   PROVE  /\ \E m \in Heaps : \E q \in heaps'[m].live : q.handle = h
                          /\ tokens'[h] <= Len(copies')
      OBVIOUS
    <3>2. h # x.handle
      BY <2>6 DEF Held
    <3>3. PICK m \in Heaps : \E q \in heaps[m].live : q.handle = h
      BY <1>p DEF HandlesPlaced
    <3>4. QED
      BY <2>2, <3>2, <3>3, <1>u, <1>p DEF HandlesPlaced
  <2>8. \A y, z \in retired'.ranges : y.handle = z.handle => y = z
    BY <1>s, <1>p DEF HandlesPlaced
  <2>9. ASSUME NEW y \in retired'.ranges
        PROVE  /\ y.transfer <= Len(copies') /\ y.graphics <= LastFrame(frames')
               /\ tokens'[y.handle] = 0
               /\ \E m \in Heaps : \E q \in heaps'[m].live : q.handle = y.handle
               /\ y.serial # 0 =>
                    y.serial \in givenUp' \/ (recording'.active /\ y.serial = recording'.serial)
    <3>1. y \in retired.ranges /\ y # x /\ y.handle # x.handle
      BY <1>s, <1>p DEF HandlesPlaced
    <3>2. PICK m \in Heaps : \E q \in heaps[m].live : q.handle = y.handle
      BY <3>1, <1>p DEF HandlesPlaced
    <3>3. QED
      BY <3>1, <3>2, <2>2, <1>u, <1>p DEF HandlesPlaced
  <2>10. QED
    BY <2>4, <2>5, <2>7, <2>8, <2>9 DEF HandlesPlaced, Heaps, Handles
<1>4. SerialsRise'
  BY <1>u, SerialsStay DEF OwnersInv, Placed
<1>5. NativesPlaced'
  BY <1>u, <1>s, <1>g, NativesStay DEF OwnersInv, Placed
<1>6. HeapsOwned'
  BY <1>u, <1>s, <1>l, HeapsStay DEF OwnersInv, Placed
<1>7. RecordingSound'
  BY <1>u, RecordingStays DEF OwnersInv, Placed, RecordingSound
<1>8. QED
  BY <1>1, <1>2, <1>3, <1>4, <1>5, <1>6, <1>7, <1>g, <1>s, <1>l, <1>q DEF Placed

\* One heap becomes another record.
LEMMA OneHeapIs ==
  ASSUME OwnersInv, NEW n \in Heaps, NEW g, heaps' = [heaps EXCEPT ![n] = g]
  PROVE  heaps'[n] = g /\ \A m \in Heaps : m # n => heaps'[m] = heaps[m]
<1> DEFINE H == Heaps
<1>1. heaps = [m \in H |-> heaps[m]] /\ n \in H
  BY DEF OwnersInv, StateInv, HeapsGood
<1> HIDE DEF H
<1>2. heaps'[n] = g /\ \A m \in H : m # n => heaps'[m] = heaps[m]
  BY <1>1
<1>3. QED
  BY <1>2 DEF H

LEMMA OneStorageIs ==
  ASSUME OwnersInv, NEW n \in Heaps, NEW s, storage' = [storage EXCEPT ![n] = s]
  PROVE  storage'[n] = s /\ \A m \in Heaps : m # n => storage'[m] = storage[m]
BY DEF OwnersInv, Placed, OwnerShaped

LEMMA NoHeapEmpty ==
  /\ NoHeap.live = {} /\ NoHeap.capacity = 0
  /\ \A h : Good(h) /\ ~Exists(h) => h.live = {}
<1>1. NoHeap.live = {} /\ NoHeap.capacity = 0
  BY DEF NoHeap
<1>2. ASSUME NEW h, Good(h), ~Exists(h) PROVE h.live = {}
  <2>1. h.capacity = 0 /\ \A r \in h.live : r \in LiveRange /\ r.size > 0 /\ EndOf(r) <= 0
    BY <1>2 DEF Good, HeapType, Exact, Within, Exists
  <2>2. QED
    BY <2>1 DEF LiveRange, EndOf
<1>3. QED
  BY <1>1, <1>2

\* A dropped heap without ranges goes, and its buffer to the backend.
LEMMA HeapReclaimed ==
  ASSUME OwnersInv, NEW x \in retired.heaps, ReclaimHeap(x)
  PROVE  Placed'
<1> DEFINE b == x.native
           n == x.name
           rest == retired.heaps \ {x}
<1>p. NativesPlaced /\ OwnerShaped /\ HeapsOwned
  BY DEF OwnersInv, Placed
<1>d. done \in done..Len(copies)
  BY DoneIs
<1>r. /\ retired' = [natives |-> retired.natives, ranges |-> retired.ranges, heaps |-> rest]
      /\ rest \subseteq HeapRecord /\ n \in Names /\ n \in Heaps
  BY RetiredIs DEF ReclaimHeap, HeapRecord, Heaps
<1>s. /\ retired'.natives = retired.natives /\ retired'.ranges = retired.ranges
      /\ retired'.heaps = rest
  BY <1>r
<1>u. /\ UNCHANGED <<storage, tokens, nextHandle, nextNative, sweep, recording,
                     copies, done, uses, givenUp>>
      /\ frames' = Defer(frames, b) /\ heaps' = [heaps EXCEPT ![n] = NoHeap]
      /\ heaps[n].live = {}
  BY DEF ReclaimHeap
<1>h. /\ heaps'[n] = NoHeap /\ \A m \in Heaps : m # n => heaps'[m] = heaps[m]
  BY <1>r, <1>u, OneHeapIs
<1>l. /\ ~Exists(heaps'[n])
      /\ \A m \in Heaps : heaps'[m].live = heaps[m].live
  BY <1>h, <1>u, NoHeapEmpty DEF Exists
<1>b. b \in Orphaned /\ b \notin Freed(frames)
  BY <1>p DEF Orphaned, NativesPlaced
<1>f. FramesGoOn(Freed(frames) \cup {b}) /\ UsesGoOn
  BY <1>u, <1>b, FramesDeferred
<1>g. FramesBooked' /\ Freed(frames') = Freed(frames) \cup {b}
  BY <1>f, BooksGoOn
<1>1. OwnerShaped'
  BY <1>u, <1>r, <1>p, RetiredTyped, RetiredIs DEF OwnerShaped, RetiredType, NativeRecord,
     RangeRecord, Heaps, Handles
<1>2. DeviceShaped'
  BY <1>u, <1>d, <1>f, DeviceGoesOn DEF OwnersInv, Placed, DeviceShaped
<1>3. HandlesPlaced'
  BY <1>u, <1>s, <1>l, <1>f, HandlesGoOn
<1>4. SerialsRise'
  BY <1>u, SerialsStay DEF OwnersInv, Placed
<1>5. NativesPlaced'
  <2>1. Orphaned' = Orphaned \ {b}
    BY <1>s, <1>p DEF Orphaned, NativesPlaced
  <2>2. Stored' = Stored /\ Outgrown' = Outgrown
    BY <1>u, <1>s DEF Stored, Outgrown, Heaps
  <2> HIDE DEF b, rest
  <2>3. /\ Stored' \cup Outgrown' \cup Orphaned' \cup Freed(frames') = 1..(nextNative' - 1)
        /\ Stored' \cap (Outgrown' \cup Orphaned' \cup Freed(frames')) = {}
        /\ Outgrown' \cap (Orphaned' \cup Freed(frames')) = {}
        /\ Orphaned' \cap Freed(frames') = {}
    BY <2>1, <2>2, <1>b, <1>g, <1>u, <1>p DEF NativesPlaced
  <2>4. /\ \A y, z \in retired'.natives : y.native = z.native => y = z
        /\ \A y, z \in retired'.heaps : y.native = z.native \/ y.name = z.name => y = z
        /\ \A k, m \in Heaps :
             storage'[k].native # 0 /\ storage'[k].native = storage'[m].native => k = m
    BY <1>s, <1>u, <1>p DEF NativesPlaced, rest
  <2>5. QED
    BY <2>3, <2>4 DEF NativesPlaced, Heaps
<1>6. HeapsOwned'
  <2>1. /\ storage'[n].native = 0 /\ \A y \in retired'.heaps : y.name # n
    BY <1>u, <1>s, <1>p DEF HeapsOwned, NativesPlaced
  <2>2. \A m \in Heaps :
          Exists(heaps'[m]) <=> storage'[m].native # 0 \/ \E y \in retired'.heaps : y.name = m
    BY <2>1, <1>h, <1>l, <1>u, <1>s, <1>p DEF HeapsOwned
  <2>3. QED
    BY <2>2, <1>u, <1>s, <1>p DEF HeapsOwned, Heaps
<1>7. RecordingSound'
  BY <1>u, RecordingStays DEF OwnersInv, Placed, RecordingSound
<1>8. QED
  BY <1>1, <1>2, <1>3, <1>4, <1>5, <1>6, <1>7, <1>g DEF Placed

LEMMA SweptPlaced == ASSUME OwnersInv, Reclaim PROVE Placed' /\ CallSound'
<1>1. Placed'
  BY NativeReclaimed, RangeReclaimed, HeapReclaimed DEF Reclaim
<1>2. UNCHANGED <<sweep, storage, nextHandle, tokens, recording, done>>
  BY DEF Reclaim, ReclaimNative, ReclaimRange, ReclaimHeap
<1>3. QED
  BY <1>1, <1>2, CallStays, DoneIs

-----------------------------------------------------------------------------
\* Heaps made and dropped.

LEMMA HeapCreated ==
  ASSUME OwnersInv, CreateBody, ~UNCHANGED owner
  PROVE  Placed'
<1> DEFINE n == sweep.heap
           b == nextNative
<1>p. NativesPlaced /\ OwnerShaped /\ HeapsOwned
  BY DEF OwnersInv, Placed
<1>d. done \in done..Len(copies)
  BY DoneIs
<1>n. n \in Heaps /\ n \in Names /\ storage[n].native = 0
  BY DEF OwnersInv, CallSound, CreateBody, Heaps
<1>u. /\ UNCHANGED <<tokens, nextHandle, retired, recording, copies, done, uses, givenUp, frames>>
      /\ ~Exists(heaps[n]) /\ heaps' = [heaps EXCEPT ![n] = NewHeap(Capacity)]
      /\ storage' = [storage EXCEPT ![n] = [native |-> b, ready |-> 0]]
      /\ nextNative' = b + 1
  BY DEF CreateBody
<1>h. /\ heaps'[n] = NewHeap(Capacity) /\ \A m \in Heaps : m # n => heaps'[m] = heaps[m]
  BY <1>n, <1>u, OneHeapIs
<1>t. /\ storage'[n] = [native |-> b, ready |-> 0]
      /\ \A m \in Heaps : m # n => storage'[m] = storage[m]
  BY <1>n, <1>u, OneStorageIs
<1>e. heaps[n].live = {}
  BY <1>n, <1>u, NoHeapEmpty DEF OwnersInv, StateInv, HeapsGood
<1>l. /\ Exists(heaps'[n])
      /\ \A m \in Heaps : heaps'[m].live = heaps[m].live
  <2>1. NewHeap(Capacity).capacity = Capacity /\ NewHeap(Capacity).live = {}
    BY DEF NewHeap
  <2>2. Capacity \in Nat \ {0}
    BY GeometryAssumption DEF GeometryAssumption
  <2>3. \A c \in Nat \ {0} : c > 0
    OBVIOUS
  <2> HIDE DEF n
  <2>4. QED
    BY <1>h, <1>e, <2>1, <2>2, <2>3 DEF Exists
<1>b. b \in Nat \ {0} /\ storage'[n].native = b
  BY <1>p, <1>t DEF OwnerShaped
<1>f. FramesGoOn(Freed(frames)) /\ UsesGoOn
  BY <1>u, FramesUnchanged
<1>g. FramesBooked' /\ Freed(frames') = Freed(frames)
  BY <1>f, BooksGoOn
<1> HIDE DEF n, b
<1>1. OwnerShaped'
  <2>1. storage' \in [Heaps -> [native : Nat, ready : Nat]]
    BY <1>u, <1>n, <1>b, <1>p DEF OwnerShaped
  <2>2. nextNative' \in Nat \ {0}
    BY <1>u, <1>b
  <2>3. QED
    BY <2>1, <2>2, <1>u, <1>p DEF OwnerShaped, RetiredType, NativeRecord, RangeRecord,
       HeapRecord, Heaps, Handles
<1>2. DeviceShaped'
  BY <1>u, <1>d, <1>f, DeviceGoesOn DEF OwnersInv, Placed, DeviceShaped
<1>3. HandlesPlaced'
  BY <1>u, <1>l, <1>f, HandlesGoOn
<1>4. SerialsRise'
  BY <1>u, SerialsStay DEF OwnersInv, Placed
<1>5. NativesPlaced'
  <2>1. Stored' = Stored \cup {b}
    <3>1. \A y : y \in Stored' => y \in Stored \cup {b}
      BY <1>t, <1>b DEF Stored, Heaps
    <3>2. b \in Stored'
      BY <1>t, <1>b, <1>n DEF Stored, Heaps
    <3>3. \A y : y \in Stored => y \in Stored'
      BY <1>t, <1>n DEF Stored, Heaps
    <3>4. QED
      BY <3>1, <3>2, <3>3
  <2>2. Orphaned' = Orphaned /\ Outgrown' = Outgrown
    BY <1>u DEF Orphaned, Outgrown
  <2>3. 1..(nextNative' - 1) = 1..(nextNative - 1) \cup {b} /\ b \notin 1..(nextNative - 1)
    BY <1>u, <1>b DEF b
  <2>4. /\ Stored' \cup Outgrown' \cup Orphaned' \cup Freed(frames') = 1..(nextNative' - 1)
        /\ Stored' \cap (Outgrown' \cup Orphaned' \cup Freed(frames')) = {}
        /\ Outgrown' \cap (Orphaned' \cup Freed(frames')) = {}
        /\ Orphaned' \cap Freed(frames') = {}
    <3> DEFINE all == 1..(nextNative - 1)
               all1 == 1..(nextNative' - 1)
    <3>1. all1 = all \cup {b} /\ b \notin all
      BY <2>3
    <3>2. /\ Stored \cup Outgrown \cup Orphaned \cup Freed(frames) = all
          /\ Stored \cap (Outgrown \cup Orphaned \cup Freed(frames)) = {}
          /\ Outgrown \cap (Orphaned \cup Freed(frames)) = {}
          /\ Orphaned \cap Freed(frames) = {}
      BY <1>p DEF NativesPlaced
    <3> HIDE DEF all, all1
    <3>3. QED
      BY <3>1, <3>2, <2>1, <2>2, <1>g DEF all1
  <2>5. \A m \in Heaps : storage[m].native # b
    <3>1. SUFFICES ASSUME NEW m \in Heaps, storage[m].native = b PROVE FALSE
      OBVIOUS
    <3>2. b \in Stored
      BY <3>1, <1>b DEF Stored
    <3>3. QED
      BY <3>2, <2>3, <1>p DEF NativesPlaced
  <2>6. \A k, m \in Heaps :
             storage'[k].native # 0 /\ storage'[k].native = storage'[m].native => k = m
    BY <2>5, <1>t, <1>b, <1>p DEF NativesPlaced
  <2>7. QED
    BY <2>4, <2>6, <1>u, <1>p DEF NativesPlaced, Heaps
<1>6. HeapsOwned'
  <2>1. \A y \in retired.heaps : y.name # n
    BY <1>u, <1>n, <1>p DEF HeapsOwned
  <2>2. \A m \in Heaps :
          Exists(heaps'[m]) <=> storage'[m].native # 0 \/ \E y \in retired'.heaps : y.name = m
    BY <1>h, <1>l, <1>t, <1>u, <1>b, <1>p DEF HeapsOwned
  <2>3. \A y \in retired'.heaps : storage'[y.name].native = 0
    BY <2>1, <1>u, <1>t, <1>p, RetiredIs DEF HeapsOwned, HeapRecord, Heaps
  <2>4. QED
    BY <2>2, <2>3 DEF HeapsOwned, Heaps
<1>7. RecordingSound'
  BY <1>u, <1>t, <1>b, RecordingStays DEF OwnersInv, Placed, RecordingSound
<1>8. QED
  BY <1>1, <1>2, <1>3, <1>4, <1>5, <1>6, <1>7, <1>g DEF Placed

\* A heap gives up its buffer.
LEMMA StoredLess ==
  ASSUME OwnersInv, NEW n \in Heaps, storage[n].native # 0,
         storage' = [storage EXCEPT ![n] = NoStorage]
  PROVE  /\ Stored' = Stored \ {storage[n].native} /\ storage[n].native \in Stored
         /\ storage' \in [Heaps -> [native : Nat, ready : Nat]]
         /\ storage'[n].native = 0 /\ \A m \in Heaps : m # n => storage'[m] = storage[m]
         /\ \A k, m \in Heaps :
              storage'[k].native # 0 /\ storage'[k].native = storage'[m].native => k = m
<1>p. NativesPlaced /\ storage \in [Heaps -> [native : Nat, ready : Nat]]
  BY DEF OwnersInv, Placed, OwnerShaped
<1>t. /\ storage'[n].native = 0 /\ \A m \in Heaps : m # n => storage'[m] = storage[m]
      /\ storage' \in [Heaps -> [native : Nat, ready : Nat]]
  BY <1>p DEF NoStorage
<1>1. \A y : y \in Stored' => y \in Stored /\ y # storage[n].native
  BY <1>t, <1>p DEF Stored, Heaps, NativesPlaced
<1>2. \A y : y \in Stored /\ y # storage[n].native => y \in Stored'
  BY <1>t DEF Stored, Heaps
<1>3. storage[n].native \in Stored
  BY DEF Stored
<1>4. QED
  BY <1>t, <1>1, <1>2, <1>3, <1>p DEF NativesPlaced

LEMMA DropIs ==
  ASSUME OwnersInv, DropBody
  PROVE  /\ sweep.heap \in Heaps /\ sweep.heap \in Names /\ storage[sweep.heap].native # 0
         /\ storage[sweep.heap].native \notin Freed(frames)
BY DEF OwnersInv, Placed, CallSound, DropBody, Heaps, NativesPlaced, Stored

\* A heap without ranges is dropped at once.
LEMMA HeapDropped ==
  ASSUME OwnersInv, DropBody, heaps' = [heaps EXCEPT ![sweep.heap] = NoHeap],
         heaps[sweep.heap].live = {}, ~recording.imported[sweep.heap].is,
         storage' = [storage EXCEPT ![sweep.heap] = NoStorage],
         frames' = Defer(frames, storage[sweep.heap].native),
         UNCHANGED <<tokens, nextHandle, nextNative, retired>>
  PROVE  Placed'
<1> DEFINE n == sweep.heap
           b == storage[n].native
<1>p. NativesPlaced /\ OwnerShaped /\ HeapsOwned
  BY DEF OwnersInv, Placed
<1>d. done \in done..Len(copies)
  BY DoneIs
<1>n. n \in Heaps /\ n \in Names /\ b # 0 /\ b \notin Freed(frames)
  BY DropIs
<1>u. UNCHANGED <<tokens, nextHandle, nextNative, retired, recording, copies, done, uses, givenUp>>
  BY DEF DropBody
<1>h. /\ heaps'[n] = NoHeap /\ \A m \in Heaps : m # n => heaps'[m] = heaps[m]
  BY <1>n, OneHeapIs
<1>t. /\ Stored' = Stored \ {b} /\ b \in Stored
      /\ storage' \in [Heaps -> [native : Nat, ready : Nat]]
      /\ storage'[n].native = 0 /\ \A m \in Heaps : m # n => storage'[m] = storage[m]
      /\ \A k, m \in Heaps :
           storage'[k].native # 0 /\ storage'[k].native = storage'[m].native => k = m
  BY <1>n, StoredLess
<1>l. /\ ~Exists(heaps'[n])
      /\ \A m \in Heaps : heaps'[m].live = heaps[m].live
  BY <1>h, NoHeapEmpty DEF Exists
<1>f. FramesGoOn(Freed(frames) \cup {b}) /\ UsesGoOn
  BY <1>u, <1>n, FramesDeferred
<1>g. FramesBooked' /\ Freed(frames') = Freed(frames) \cup {b}
  BY <1>f, BooksGoOn
<1>1. OwnerShaped'
  BY <1>t, <1>u, <1>p DEF OwnerShaped, RetiredType, NativeRecord, RangeRecord,
     HeapRecord, Heaps, Handles
<1>2. DeviceShaped'
  BY <1>u, <1>d, <1>f, DeviceGoesOn DEF OwnersInv, Placed, DeviceShaped
<1>3. HandlesPlaced'
  BY <1>u, <1>l, <1>f, HandlesGoOn
<1>4. SerialsRise'
  BY <1>u, SerialsStay DEF OwnersInv, Placed
<1>5. NativesPlaced'
  <2>2. Orphaned' = Orphaned /\ Outgrown' = Outgrown
    BY <1>u DEF Orphaned, Outgrown
  <2> HIDE DEF b
  <2>4. /\ Stored' \cup Outgrown' \cup Orphaned' \cup Freed(frames') = 1..(nextNative' - 1)
        /\ Stored' \cap (Outgrown' \cup Orphaned' \cup Freed(frames')) = {}
        /\ Outgrown' \cap (Orphaned' \cup Freed(frames')) = {}
        /\ Orphaned' \cap Freed(frames') = {}
    BY <1>t, <2>2, <1>g, <1>u, <1>p DEF NativesPlaced
  <2>7. QED
    BY <2>4, <1>t, <1>u, <1>p DEF NativesPlaced, Heaps
<1>6. HeapsOwned'
  <2>1. \A y \in retired.heaps : y.name # n
    BY <1>n, <1>p DEF HeapsOwned
  <2>2. \A m \in Heaps :
          Exists(heaps'[m]) <=> storage'[m].native # 0 \/ \E y \in retired'.heaps : y.name = m
    BY <2>1, <1>h, <1>l, <1>t, <1>u, <1>p DEF HeapsOwned
  <2>3. \A y \in retired'.heaps : storage'[y.name].native = 0
    BY <2>1, <1>u, <1>t, <1>p, RetiredIs DEF HeapsOwned, HeapRecord, Heaps
  <2>4. QED
    BY <2>2, <2>3 DEF HeapsOwned, Heaps
<1>7. RecordingSound'
  BY <1>u, <1>t, RecordingStays DEF OwnersInv, Placed, RecordingSound
<1>8. QED
  BY <1>1, <1>2, <1>3, <1>4, <1>5, <1>6, <1>7, <1>g DEF Placed

\* One with ranges waits for them.
LEMMA HeapOrphaned ==
  ASSUME OwnersInv, DropBody, ~recording.imported[sweep.heap].is,
         storage' = [storage EXCEPT ![sweep.heap] = NoStorage],
         retired' = [retired EXCEPT !.heaps = @ \cup
                       {[name |-> sweep.heap, native |-> storage[sweep.heap].native]}],
         UNCHANGED <<heaps, tokens, nextHandle, nextNative, frames>>
  PROVE  Placed'
<1> DEFINE n == sweep.heap
           b == storage[n].native
           one == [name |-> n, native |-> b]
           more == retired.heaps \cup {one}
<1>p. NativesPlaced /\ OwnerShaped /\ HeapsOwned
  BY DEF OwnersInv, Placed
<1>d. done \in done..Len(copies)
  BY DoneIs
<1>n. n \in Heaps /\ n \in Names /\ b # 0 /\ b \notin Freed(frames)
  BY DropIs
<1>u. UNCHANGED <<tokens, nextHandle, nextNative, frames, recording, copies, done, uses, givenUp,
                  heaps>>
  BY DEF DropBody
<1>t. /\ Stored' = Stored \ {b} /\ b \in Stored
      /\ storage' \in [Heaps -> [native : Nat, ready : Nat]]
      /\ storage'[n].native = 0 /\ \A m \in Heaps : m # n => storage'[m] = storage[m]
      /\ \A k, m \in Heaps :
           storage'[k].native # 0 /\ storage'[k].native = storage'[m].native => k = m
  BY <1>n, StoredLess
<1>o. one.name = n /\ one.native = b /\ one \in HeapRecord
  BY <1>n, <1>p DEF OwnerShaped, HeapRecord
<1>r. /\ retired' = [natives |-> retired.natives, ranges |-> retired.ranges, heaps |-> more]
      /\ more \subseteq HeapRecord
  BY <1>o, RetiredIs
<1>s. /\ retired'.natives = retired.natives /\ retired'.ranges = retired.ranges
      /\ retired'.heaps = more
  BY <1>r
<1>f. FramesGoOn(Freed(frames)) /\ UsesGoOn
  BY <1>u, FramesUnchanged
<1>g. FramesBooked' /\ Freed(frames') = Freed(frames)
  BY <1>f, BooksGoOn
<1> HIDE DEF n, b, one, more
<1>1. OwnerShaped'
  <2>1. retired' \in RetiredType
    <3>1. retired.natives \in SUBSET NativeRecord /\ retired.ranges \in SUBSET RangeRecord
      BY RetiredIs
    <3>2. more \in SUBSET HeapRecord
      BY <1>r
    <3>3. [natives |-> retired.natives, ranges |-> retired.ranges, heaps |-> more]
            \in RetiredType
      BY ONLY <3>1, <3>2, RetiredTyped
    <3>4. QED
      BY <3>3, <1>r, Zenon
  <2>2. QED
    BY <1>t, <1>u, <2>1, <1>p DEF OwnerShaped, RetiredType, NativeRecord,
       RangeRecord, HeapRecord, Heaps, Handles
<1>2. DeviceShaped'
  BY <1>u, <1>d, <1>f, DeviceGoesOn DEF OwnersInv, Placed, DeviceShaped
<1>3. HandlesPlaced'
  BY <1>u, <1>s, <1>f, HandlesGoOn
<1>4. SerialsRise'
  BY <1>u, SerialsStay DEF OwnersInv, Placed
<1>m. \A y \in retired.heaps : y.name # n /\ y.native # b
  BY <1>n, <1>t, <1>p DEF HeapsOwned, NativesPlaced, Orphaned, b
<1>5. NativesPlaced'
  <2>1. Orphaned' = Orphaned \cup {b}
    BY <1>s, <1>o DEF Orphaned, more
  <2>2. Outgrown' = Outgrown
    BY <1>s DEF Outgrown
  <2>4. /\ Stored' \cup Outgrown' \cup Orphaned' \cup Freed(frames') = 1..(nextNative' - 1)
        /\ Stored' \cap (Outgrown' \cup Orphaned' \cup Freed(frames')) = {}
        /\ Outgrown' \cap (Orphaned' \cup Freed(frames')) = {}
        /\ Orphaned' \cap Freed(frames') = {}
    BY <1>t, <2>1, <2>2, <1>g, <1>u, <1>p DEF NativesPlaced
  <2>5. \A y, z \in retired'.heaps : y.native = z.native \/ y.name = z.name => y = z
    BY <1>m, <1>o, <1>s, <1>p DEF NativesPlaced, more
  <2>7. QED
    BY <2>4, <2>5, <1>t, <1>u, <1>s, <1>p DEF NativesPlaced, Heaps
<1>6. HeapsOwned'
  <2>2. \A m \in Heaps :
          Exists(heaps'[m]) <=> storage'[m].native # 0 \/ \E y \in retired'.heaps : y.name = m
    <3>1. SUFFICES ASSUME NEW m \in Heaps
                   PROVE  Exists(heaps'[m]) <=>
                            storage'[m].native # 0 \/ \E y \in retired'.heaps : y.name = m
      OBVIOUS
    <3>2. CASE m = n
      BY <3>2, <1>o, <1>s, <1>u, <1>n, <1>p DEF HeapsOwned, more, b
    <3>3. CASE m # n
      BY <3>3, <1>o, <1>s, <1>u, <1>t, <1>p DEF HeapsOwned, more
    <3>4. QED
      BY <3>2, <3>3
  <2>3. \A y \in retired'.heaps : storage'[y.name].native = 0
    BY <1>m, <1>o, <1>s, <1>t, <1>p, RetiredIs DEF HeapsOwned, HeapRecord, Heaps, more
  <2>4. QED
    BY <2>2, <2>3 DEF HeapsOwned, Heaps
<1>7. RecordingSound'
  BY <1>u, <1>t, RecordingStays DEF OwnersInv, Placed, RecordingSound, n
<1>8. QED
  BY <1>1, <1>2, <1>3, <1>4, <1>5, <1>6, <1>7, <1>g DEF Placed

LEMMA BodiesPlaced == ASSUME OwnersInv, CreateBody \/ DropBody PROVE Placed' /\ CallSound'
<1>1. ASSUME CreateBody, UNCHANGED owner PROVE Placed'
  BY <1>1, QuietBodies, QuietKeeps DEF CreateBody
<1>2. ASSUME CreateBody, ~UNCHANGED owner PROVE Placed'
  BY <1>2, HeapCreated
<1>3. ASSUME DropBody PROVE Placed'
  <2>1. CASE UNCHANGED <<owner, frames>>
    <3>1. UNCHANGED <<owner, frames, copies>>
      BY <1>3, <2>1 DEF DropBody
    <3>2. QED
      BY <1>3, <3>1, QuietBodies, QuietKeeps
  <2>2. CASE ~UNCHANGED <<owner, frames>>
    <3>1. \/ /\ ~recording.imported[sweep.heap].is /\ heaps[sweep.heap].live = {}
             /\ heaps' = [heaps EXCEPT ![sweep.heap] = NoHeap]
             /\ storage' = [storage EXCEPT ![sweep.heap] = NoStorage]
             /\ frames' = Defer(frames, storage[sweep.heap].native)
             /\ UNCHANGED <<tokens, nextHandle, nextNative, retired>>
          \/ /\ ~recording.imported[sweep.heap].is
             /\ storage' = [storage EXCEPT ![sweep.heap] = NoStorage]
             /\ retired' = [retired EXCEPT !.heaps = @ \cup
                  {[name |-> sweep.heap, native |-> storage[sweep.heap].native]}]
             /\ UNCHANGED <<heaps, tokens, nextHandle, nextNative, frames>>
      BY <1>3, <2>2 DEF DropBody
    <3>2. QED
      BY <1>3, <3>1, HeapDropped, HeapOrphaned
  <2>3. QED
    BY <2>1, <2>2
<1>4. CallSound'
  <2>1. sweep' = [op |-> "none", heap |-> Index, arg |-> 0, seen |-> 0] /\ done' = done
    BY DEF CreateBody, DropBody, Idle
  <2>2. 0 \in 0..done'
    BY <2>1, DoneIs
  <2>3. QED
    BY <2>1, <2>2, CallEnds
<1>5. QED
  BY <1>1, <1>2, <1>3, <1>4

-----------------------------------------------------------------------------
\* Uploads.

\* An upload ends: its range is live and its copy submitted, or the heap keeps
\* the ranges it had.
Ends(n, before, native, ready) ==
  /\ \A m \in Heaps : m # n => heaps'[m] = heaps[m] /\ storage'[m] = storage[m]
  /\ storage' \in [Heaps -> [native : Nat, ready : Nat]]
  /\ Exists(heaps'[n]) /\ storage'[n].native = native
  /\ \/ /\ nextHandle \in Handles
        /\ \E r : r.handle = nextHandle /\ heaps'[n].live = heaps[n].live \cup {r}
        /\ copies' = Append(before, Copy(nextHandle, 0, native))
        /\ storage'[n].ready = Len(before) + 1
        /\ tokens' = [tokens EXCEPT ![nextHandle] = Len(before) + 1]
        /\ nextHandle' = nextHandle + 1
     \/ /\ heaps'[n].live = heaps[n].live
        /\ copies' = before /\ storage'[n].ready = ready
        /\ UNCHANGED <<tokens, nextHandle>>

InPlace(n) ==
  /\ storage[n].native # 0
  /\ UNCHANGED <<nextNative, retired>>
  /\ Ends(n, copies, storage[n].native, storage[n].ready)
Anew(n) ==
  /\ storage[n].native = 0 /\ heaps[n].live = {} /\ n = Index
  /\ nextNative' = nextNative + 1 /\ UNCHANGED retired
  /\ Ends(n, copies, nextNative, 0)
Moved(n) == Append(copies, Copy(0, storage[n].native, nextNative))
Outgrows(n) ==
  /\ storage[n].native # 0 /\ ~recording.imported[n].is
  /\ nextNative' = nextNative + 1
  /\ retired' = [retired EXCEPT !.natives = @ \cup
       {[native |-> storage[n].native, transfer |-> Len(copies) + 1,
         graphics |-> frames.last]}]
  /\ Ends(n, Moved(n), nextNative, Len(copies) + 1)

Uploaded(n) ==
  /\ UNCHANGED <<recording, frames, done, uses, givenUp>>
  /\ InPlace(n) \/ Anew(n) \/ Outgrows(n)

LEMMA ReservedLive ==
  ASSUME NEW h \in HeapType, NEW handle, NEW size
  PROVE  /\ Reserved(h, handle, size).capacity = h.capacity
         /\ \E r : /\ r.handle = handle
                   /\ Reserved(h, handle, size).live = h.live \cup {r}
<1> DEFINE r == [handle |-> handle, at |-> FirstFit(h, size).at, size |-> size]
<1>1. r.handle = handle
  OBVIOUS
<1>2. /\ Reserved(h, handle, size).capacity = h.capacity
      /\ Reserved(h, handle, size).live = h.live \cup {r}
  BY DEF Reserved, HeapType
<1>3. QED
  BY <1>1, <1>2

LEMMA StagingEnds ==
  ASSUME OwnersInv, NEW n \in Heaps, NEW g, Good(g), g.live = heaps[n].live, Exists(g),
         NEW bytes \in Nat \ {0}, Fits(g, bytes) # {}, nextHandle \in Handles,
         NEW before, Len(before) \in Nat, NEW native \in Nat, NEW ready \in Nat,
         \/ Stage(n, Reserved(g, nextHandle, bytes), nextHandle, before, native)
         \/ StageFails(n, Reserved(g, nextHandle, bytes), nextHandle, before, native, ready)
  PROVE  Ends(n, before, native, ready)
<1> DEFINE h == Reserved(g, nextHandle, bytes)
<1>t. /\ nextHandle \in Nat /\ storage \in [Heaps -> [native : Nat, ready : Nat]]
      /\ HandlesPlaced
  BY HandlesAre DEF OwnersInv, Placed, OwnerShaped
<1>1. Good(h) /\ \E r \in h.live : r.handle = nextHandle
  BY <1>t, ReservedGood
<1>2. h \in HeapType /\ g \in HeapType
  BY <1>1 DEF Good
<1>3. PICK new : h.capacity = g.capacity /\ new.handle = nextHandle /\ h.live = g.live \cup {new}
  BY <1>2, ReservedLive
<1>4. \A q \in g.live : q.handle # nextHandle
  <2>1. \A q \in g.live : q.handle \in Handles /\ q.handle < nextHandle
    BY <1>t DEF HandlesPlaced
  <2>2. \A i \in Handles : i < nextHandle => i # nextHandle
    BY <1>t, HandlesAre
  <2>3. QED
    BY <2>1, <2>2
<1> HIDE DEF h
<1>5. CASE Stage(n, h, nextHandle, before, native)
  <2>1. /\ heaps' = [heaps EXCEPT ![n] = h]
        /\ copies' = Append(before, Copy(nextHandle, 0, native))
        /\ storage' = [storage EXCEPT ![n] = [native |-> native, ready |-> Len(before) + 1]]
        /\ tokens' = [tokens EXCEPT ![nextHandle] = Len(before) + 1]
        /\ nextHandle' = nextHandle + 1
    BY <1>5 DEF Stage, StagedReady
  <2>2. heaps'[n] = h /\ \A m \in Heaps : m # n => heaps'[m] = heaps[m]
    BY <2>1, OneHeapIs
  <2>3. /\ storage'[n] = [native |-> native, ready |-> Len(before) + 1]
        /\ \A m \in Heaps : m # n => storage'[m] = storage[m]
    BY <2>1, OneStorageIs
  <2>4. storage' \in [Heaps -> [native : Nat, ready : Nat]]
    BY <2>1, <1>t
  <2>5. Exists(heaps'[n])
    BY <2>2, <1>3 DEF Exists
  <2>6. heaps'[n].live = heaps[n].live \cup {new}
    BY <2>2, <1>3
  <2>7. storage'[n].native = native /\ storage'[n].ready = Len(before) + 1
    BY <2>3
  <2>8. QED
    BY <2>1, <2>2, <2>3, <2>4, <2>5, <2>6, <2>7, <1>3 DEF Ends
<1>6. CASE StageFails(n, h, nextHandle, before, native, ready)
  <2> DEFINE r == CHOOSE r \in h.live : r.handle = nextHandle
  <2>1. /\ heaps' = [heaps EXCEPT ![n] = Released(h, r)]
        /\ copies' = before /\ UNCHANGED <<tokens, nextHandle>>
        /\ storage' = [storage EXCEPT ![n] = [native |-> native, ready |-> ready]]
    BY <1>6 DEF StageFails
  <2>2. r \in h.live /\ r.handle = nextHandle
    BY <1>1
  <2> HIDE DEF r
  <2>3. r = new
    BY <2>2, <1>3, <1>4
  <2>4. heaps'[n] = Released(h, r) /\ \A m \in Heaps : m # n => heaps'[m] = heaps[m]
    BY <2>1, OneHeapIs
  <2>5. heaps'[n].live = heaps[n].live /\ heaps'[n].capacity = g.capacity
    <3>1. Released(h, r).live = h.live \ {r} /\ Released(h, r).capacity = h.capacity
      BY <1>2, ReleasedLive
    <3>2. new \notin g.live
      BY <1>3, <1>4
    <3>3. (g.live \cup {new}) \ {new} = g.live
      BY <3>2
    <3>4. h.live \ {r} = g.live
      BY <1>3, <2>3, <3>3
    <3>5. QED
      BY <3>1, <3>4, <2>4, <1>3
  <2>6. /\ storage'[n] = [native |-> native, ready |-> ready]
        /\ \A m \in Heaps : m # n => storage'[m] = storage[m]
    BY <2>1, OneStorageIs
  <2>7. storage' \in [Heaps -> [native : Nat, ready : Nat]]
    BY <2>1, <1>t
  <2>8. storage'[n].native = native /\ storage'[n].ready = ready
    BY <2>6
  <2>9. Exists(heaps'[n])
    BY <2>5 DEF Exists
  <2>10. QED
    BY <2>1, <2>4, <2>5, <2>6, <2>7, <2>8, <2>9 DEF Ends
<1>7. QED
  BY <1>5, <1>6 DEF h

LEMMA UploadIs ==
  ASSUME OwnersInv, NEW n \in Heaps, NEW count \in Counts[n], Upload(n, count)
  PROVE  Uploaded(n)
<1>1. count \in Nat \ {0}
  BY GeometryAssumption DEF GeometryAssumption
<1>2. Bytes(n, count) \in Nat \ {0}
  BY <1>1, BytesPositive
<1>3. /\ Good(heaps[n]) /\ Len(copies) \in Nat
      /\ storage[n].native \in Nat /\ storage[n].ready \in Nat
  BY DEF OwnersInv, StateInv, HeapsGood, Placed, OwnerShaped, DeviceShaped
<1>4. /\ storage[n].native # 0 /\ Fits(heaps[n], Bytes(n, count)) # {} /\ nextHandle \in Handles
      /\ \/ Stage(n, Reserved(heaps[n], nextHandle, Bytes(n, count)), nextHandle, copies,
                  storage[n].native)
         \/ StageFails(n, Reserved(heaps[n], nextHandle, Bytes(n, count)), nextHandle, copies,
                       storage[n].native, storage[n].ready)
      /\ UNCHANGED <<nextNative, retired, recording, frames, done, uses, givenUp>>
  BY DEF Upload
<1>5. Exists(heaps[n])
  BY <1>4 DEF OwnersInv, Placed, HeapsOwned
<1>6. Ends(n, copies, storage[n].native, storage[n].ready)
  BY <1>2, <1>3, <1>4, <1>5, StagingEnds
<1>7. QED
  BY <1>4, <1>6 DEF Uploaded, InPlace

LEMMA FirstIndexIs ==
  ASSUME OwnersInv, NEW count \in Counts[Index], UploadFirstIndex(count)
  PROVE  Uploaded(Index)
<1> DEFINE bytes == Bytes(Index, count)
           capacity == IF Capacity >= bytes THEN Capacity ELSE bytes
           new == NewHeap(capacity)
<1>0. Index \in Heaps
  BY DEF Heaps
<1>1. count \in Nat \ {0}
  BY <1>0, GeometryAssumption DEF GeometryAssumption
<1>2. bytes \in Nat \ {0}
  BY <1>0, <1>1, BytesPositive
<1>4. /\ storage[Index].native = 0 /\ nextHandle \in Handles /\ nextNative' = nextNative + 1
      /\ \/ Stage(Index, Reserved(new, nextHandle, bytes), nextHandle, copies, nextNative)
         \/ StageFails(Index, Reserved(new, nextHandle, bytes), nextHandle, copies, nextNative, 0)
      /\ UNCHANGED <<retired, recording, frames, done, uses, givenUp>>
  BY DEF UploadFirstIndex
<1> HIDE DEF bytes
<1>5. capacity \in Nat \ {0} /\ capacity >= bytes
  BY <1>2, GeometryAssumption DEF GeometryAssumption
<1> HIDE DEF capacity
<1>6. Good(new)
  BY <1>5, NewHeapGood
<1>7. new.live = {} /\ new.capacity = capacity /\ new.free = {[at |-> 0, size |-> capacity]}
  BY DEF NewHeap
<1>8. Fits(new, bytes) # {}
  <2> DEFINE all == [at |-> 0, size |-> capacity]
  <2>1. all.size >= bytes /\ all \in new.free
    BY <1>5, <1>7
  <2>2. QED
    BY <2>1 DEF Fits
<1>9. heaps[Index].live = {}
  <2>1. \A x \in retired.heaps : x.name # Index
    BY RetiredIs, GeometryAssumption DEF HeapRecord, GeometryAssumption
  <2>2. ~Exists(heaps[Index]) /\ Good(heaps[Index])
    BY <1>0, <1>4, <2>1 DEF OwnersInv, Placed, HeapsOwned, StateInv, HeapsGood
  <2>3. QED
    BY <2>2, NoHeapEmpty
<1>10. Exists(new)
  <2>1. \A c \in Nat \ {0} : c > 0
    OBVIOUS
  <2>2. QED
    BY <1>5, <1>7, <2>1 DEF Exists
<1>11. Len(copies) \in Nat /\ nextNative \in Nat /\ 0 \in Nat
  BY DEF OwnersInv, Placed, OwnerShaped, DeviceShaped
<1> HIDE DEF new
<1>12. Ends(Index, copies, nextNative, 0)
  BY <1>0, <1>2, <1>4, <1>6, <1>7, <1>8, <1>9, <1>10, <1>11, StagingEnds
<1>13. QED
  BY <1>4, <1>9, <1>12 DEF Uploaded, Anew

LEMMA GrowIs ==
  ASSUME OwnersInv, GrowBody, ~UNCHANGED <<owner, copies>>
  PROVE  sweep.heap \in Heaps /\ Uploaded(sweep.heap)
<1> DEFINE n == sweep.heap
           bytes == Bytes(n, sweep.arg)
           capacity == GrownCapacity(heaps[n].capacity, bytes)
           grown == Grown(heaps[n], capacity)
           moved == Moved(n)
<1>1. /\ n \in Heaps /\ sweep.arg \in Nat \ {0} /\ Good(heaps[n])
      /\ storage[n].native # 0 /\ ~recording.imported[n].is /\ nextHandle \in Handles
  BY DEF GrowBody, OwnersInv, StateInv, SweepShaped, HeapsGood, CallSound
<1>2. bytes \in Nat \ {0}
  BY <1>1, BytesPositive
<1>3. /\ copies \in Seq(CopyRecord) /\ Len(copies) \in Nat
      /\ nextNative \in Nat /\ storage[n].native \in Nat
  BY <1>1 DEF OwnersInv, Placed, OwnerShaped, DeviceShaped
<1>m. Len(moved) = Len(copies) + 1 /\ Len(moved) \in Nat
  <2> DEFINE c == Copy(0, storage[n].native, nextNative)
  <2>1. c \in CopyRecord
    BY <1>3 DEF Copy, CopyRecord
  <2> HIDE DEF c
  <2>2. Len(Append(copies, c)) = Len(copies) + 1
    BY <1>3, <2>1
  <2>3. QED
    BY <1>3, <2>2 DEF Moved, c
<1>l. LastFrame(frames) = frames.last
  BY LastFrameIs
<1>u. /\ nextNative' = nextNative + 1
      /\ retired' = [retired EXCEPT !.natives = @ \cup
           {[native |-> storage[n].native, transfer |-> Len(moved),
             graphics |-> LastFrame(frames)]}]
      /\ \/ Stage(n, Reserved(grown, nextHandle, bytes), nextHandle, moved, nextNative)
         \/ StageFails(n, Reserved(grown, nextHandle, bytes), nextHandle, moved, nextNative,
                       Len(moved))
      /\ UNCHANGED <<recording, frames, done, uses, givenUp>>
  BY DEF GrowBody, Moved
<1>4. heaps[n].capacity \in Nat /\ heaps[n] \in HeapType
  BY <1>1 DEF Good, HeapType
<1>e. Exists(heaps[n])
  BY <1>1 DEF OwnersInv, Placed, HeapsOwned
<1> HIDE DEF bytes, moved, n
<1>5. capacity \in Nat /\ heaps[n].capacity + bytes <= capacity
  BY <1>2, <1>4 DEF GrownCapacity
<1> HIDE DEF capacity
<1>6. Good(grown) /\ Fits(grown, bytes) # {}
  BY <1>1, <1>2, <1>5, GrownGood
<1>7. grown.live = heaps[n].live /\ grown.capacity = capacity
  BY <1>4 DEF Grown, HeapType
<1>8. Exists(grown)
  BY <1>7, <1>5, <1>4, <1>2, <1>e DEF Exists
<1> HIDE DEF grown
<1>9. Ends(n, moved, nextNative, Len(moved))
  BY <1>1, <1>2, <1>3, <1>m, <1>u, <1>6, <1>7, <1>8, StagingEnds
<1>10. Ends(n, Moved(n), nextNative, Len(copies) + 1)
  BY <1>9, <1>m DEF moved
<1>11. Outgrows(n)
  BY <1>1, <1>u, <1>m, <1>l, <1>10 DEF Outgrows
<1>12. QED
  BY <1>1, <1>u, <1>11 DEF Uploaded, n

\* The copies after an upload.
LEMMA EndsCopies ==
  ASSUME OwnersInv, NEW n \in Heaps, NEW before \in Seq(CopyRecord), NEW native \in Nat,
         NEW ready, Ends(n, before, native, ready)
  PROVE  /\ copies' \in Seq(CopyRecord) /\ Len(copies') \in Nat
         /\ Len(before) \in Nat /\ Len(before) <= Len(copies')
         /\ \A c \in 1..Len(before) : copies'[c] = before[c]
         /\ \/ copies' = before
            \/ /\ Len(copies') = Len(before) + 1
               /\ copies'[Len(before) + 1] = Copy(nextHandle, 0, native)
<1> DEFINE c == Copy(nextHandle, 0, native)
<1>1. Len(before) \in Nat
  OBVIOUS
<1>2. c \in CopyRecord
  BY DEF Copy, CopyRecord, OwnersInv, Placed, OwnerShaped
<1> HIDE DEF c
<1>3. /\ Append(before, c) \in Seq(CopyRecord)
      /\ Len(Append(before, c)) = Len(before) + 1
      /\ Append(before, c)[Len(before) + 1] = c
      /\ \A k \in 1..Len(before) : Append(before, c)[k] = before[k]
  BY <1>2
<1>4. CASE copies' = before
  BY <1>1, <1>4
<1>5. CASE copies' = Append(before, c)
  BY <1>1, <1>3, <1>5 DEF c
<1>6. QED
  BY <1>4, <1>5 DEF Ends, c

\* The handles after an upload.
LEMMA EndsHandles ==
  ASSUME OwnersInv, NEW n \in Heaps, NEW before \in Seq(CopyRecord), NEW native \in Nat,
         NEW ready, Ends(n, before, native, ready), Len(copies) <= Len(before),
         UNCHANGED <<recording, frames, givenUp>>, retired'.ranges = retired.ranges
  PROVE  /\ HandlesPlaced' /\ tokens' \in [Handles -> Nat] /\ nextHandle' \in Nat \ {0}
<1>p. /\ HandlesPlaced /\ tokens \in [Handles -> Nat] /\ nextHandle \in Nat \ {0}
      /\ Len(copies) \in Nat /\ DeviceShaped /\ OwnerShaped
  BY DEF OwnersInv, Placed, OwnerShaped, DeviceShaped
<1>c. Len(before) \in Nat /\ Len(copies') \in Nat /\ Len(before) <= Len(copies')
  BY EndsCopies
<1>f. LastFrame(frames) \in Nat /\ LastFrame(frames') = LastFrame(frames)
  BY LastFrameIs
<1>1. CASE UNCHANGED <<tokens, nextHandle>> /\ heaps'[n].live = heaps[n].live
  <2>1. \A m \in Heaps : heaps'[m].live = heaps[m].live
    BY <1>1 DEF Ends
  <2>2. Len(copies) <= Len(copies')
    BY <1>c, <1>p
  <2>3. HandlesPlaced'
    BY <1>1, <1>p, <1>c, <1>f, <2>1, <2>2, HandlesStay
  <2>4. QED
    BY <2>3, <1>1, <1>p
<1>2. CASE ~(UNCHANGED <<tokens, nextHandle>> /\ heaps'[n].live = heaps[n].live)
  <2> DEFINE i == nextHandle
             t == Len(before) + 1
  <2>1. /\ i \in Handles /\ tokens' = [tokens EXCEPT ![i] = t] /\ nextHandle' = i + 1
        /\ Len(copies') = t
    <3>1. /\ i \in Handles /\ tokens' = [tokens EXCEPT ![i] = t] /\ nextHandle' = i + 1
          /\ copies' # before \/ copies' = Append(before, Copy(i, 0, native))
      BY <1>2 DEF Ends
    <3>2. copies' = Append(before, Copy(i, 0, native))
      BY <1>2 DEF Ends
    <3>3. Copy(i, 0, native) \in CopyRecord
      BY <1>p DEF Copy, CopyRecord
    <3>4. \A c \in CopyRecord : Len(Append(before, c)) = Len(before) + 1
      OBVIOUS
    <3>5. QED
      BY <3>1, <3>2, <3>3, <3>4
  <2>2. PICK r : r.handle = i /\ heaps'[n].live = heaps[n].live \cup {r}
    BY <1>2 DEF Ends
  <2>3. /\ \A m \in Heaps : m # n => heaps'[m] = heaps[m]
        /\ r \in heaps'[n].live
        /\ \A m \in Heaps : \A q \in heaps'[m].live : q \in heaps[m].live \/ (m = n /\ q = r)
        /\ \A m \in Heaps : \A q \in heaps[m].live : q \in heaps'[m].live
    BY <2>2 DEF Ends
  <2>4. \A m \in Heaps : \A q \in heaps[m].live : q.handle # i /\ q.handle < i + 1
    <3>1. \A h \in Handles : h < i => h # i /\ h < i + 1
      BY <1>p, HandlesAre
    <3>2. QED
      BY <3>1, <1>p DEF HandlesPlaced
  <2>5. tokens' \in [Handles -> Nat] /\ i + 1 \in Nat \ {0} /\ t \in Nat \ {0} /\ i < i + 1
    BY <2>1, <1>c, <1>p
  <2>6. tokens'[i] = t /\ \A h \in Handles : h # i => tokens'[h] = tokens[h]
    BY <2>1, <1>p
  <2> HIDE DEF i, t
  <2>7. ASSUME NEW m \in Heaps, NEW q \in heaps'[m].live
        PROVE  /\ q.handle \in Handles /\ q.handle < nextHandle'
               /\ tokens'[q.handle] = 0 => \E x \in retired'.ranges : x.handle = q.handle
               /\ \A k \in Heaps : \A z \in heaps'[k].live :
                    q.handle = z.handle => m = k /\ q = z
    <3>1. CASE q \in heaps[m].live
      BY <3>1, <2>1, <2>2, <2>3, <2>4, <2>6, <1>p DEF HandlesPlaced
    <3>2. CASE m = n /\ q = r
      BY <3>2, <2>1, <2>2, <2>3, <2>4, <2>5, <2>6
    <3>3. QED
      BY <3>1, <3>2, <2>3
  <2>8. ASSUME NEW h \in Held'
        PROVE  /\ \E m \in Heaps : \E q \in heaps'[m].live : q.handle = h
               /\ tokens'[h] <= Len(copies')
    <3>1. h \in Handles /\ tokens'[h] # 0
      BY DEF Held, Handles
    <3>2. CASE h = i
      BY <3>2, <2>1, <2>2, <2>3, <2>5, <2>6
    <3>3. CASE h # i
      <4>1. h \in Held /\ tokens'[h] = tokens[h]
        BY <3>1, <3>3, <2>6 DEF Held
      <4>2. tokens[h] <= Len(copies) /\ tokens[h] \in Nat
        BY <4>1, <3>1, <1>p DEF HandlesPlaced
      <4>3. tokens'[h] <= Len(copies')
        BY <4>1, <4>2, <1>c, <1>p
      <4>4. PICK m \in Heaps : \E q \in heaps[m].live : q.handle = h
        BY <4>1, <1>p DEF HandlesPlaced
      <4>5. QED
        BY <4>3, <4>4, <2>3
    <3>4. QED
      BY <3>2, <3>3
  <2>9. \A x, y \in retired'.ranges : x.handle = y.handle => x = y
    BY <1>p DEF HandlesPlaced
  <2>10. ASSUME NEW x \in retired'.ranges
         PROVE  /\ x.transfer <= Len(copies') /\ x.graphics <= LastFrame(frames')
                /\ tokens'[x.handle] = 0
                /\ \E m \in Heaps : \E q \in heaps'[m].live : q.handle = x.handle
                /\ x.serial # 0 =>
                     x.serial \in givenUp' \/ (recording'.active /\ x.serial = recording'.serial)
    <3>1. x \in retired.ranges /\ x.transfer \in Nat /\ x.transfer <= Len(copies)
      BY <1>p DEF HandlesPlaced, OwnerShaped, RetiredType, RangeRecord
    <3>2. PICK m \in Heaps : \E q \in heaps[m].live : q.handle = x.handle
      BY <3>1, <1>p DEF HandlesPlaced
    <3>3. x.handle # i /\ x.handle \in Handles
      BY <3>2, <2>4, <1>p DEF HandlesPlaced
    <3>4. x.transfer <= Len(copies')
      BY <3>1, <1>c, <1>p
    <3>5. QED
      BY <3>1, <3>2, <3>3, <3>4, <2>3, <2>6, <1>f, <1>p DEF HandlesPlaced
  <2>11. QED
    BY <2>1, <2>5, <2>7, <2>8, <2>9, <2>10 DEF HandlesPlaced, Heaps, Handles, i
<1>3. QED
  BY <1>1, <1>2

\* The buffers after a heap took a new one and gave up what it had, if anything.
LEMMA StoredAnew ==
  ASSUME OwnersInv, NEW n \in Heaps, storage'[n].native = nextNative,
         \A m \in Heaps : m # n => storage'[m] = storage[m], nextNative' = nextNative + 1
  PROVE  /\ Stored' = (Stored \ {storage[n].native}) \cup {nextNative}
         /\ nextNative \notin Stored \cup Outgrown \cup Orphaned \cup Freed(frames)
         /\ 1..(nextNative' - 1) = 1..(nextNative - 1) \cup {nextNative}
         /\ \A k, m \in Heaps :
              storage'[k].native # 0 /\ storage'[k].native = storage'[m].native => k = m
<1> DEFINE b == nextNative
           all == 1..(nextNative - 1)
<1>p. NativesPlaced /\ b \in Nat \ {0}
  BY DEF OwnersInv, Placed, OwnerShaped
<1>1. b \notin Stored \cup Outgrown \cup Orphaned \cup Freed(frames)
  <2>1. b \notin all
    BY <1>p
  <2> HIDE DEF all
  <2>2. QED
    BY <2>1, <1>p DEF NativesPlaced, all
<1>2. 1..(nextNative' - 1) = all \cup {b}
  BY <1>p
<1> HIDE DEF all
<1>3. b \in Stored'
  BY <1>p DEF Stored, Heaps
<1>4. \A y : y \in Stored' => y = b \/ (y \in Stored /\ y # storage[n].native)
  <2>1. SUFFICES ASSUME NEW y \in Stored', y # b
                 PROVE  y \in Stored /\ y # storage[n].native
    OBVIOUS
  <2>2. PICK m \in Heaps : y = storage'[m].native /\ y # 0
    BY DEF Stored, Heaps
  <2>3. m # n /\ y = storage[m].native
    BY <2>1, <2>2
  <2>4. QED
    BY <2>2, <2>3, <1>p DEF Stored, NativesPlaced
<1>5. \A y : y \in Stored /\ y # storage[n].native => y \in Stored'
  <2>1. SUFFICES ASSUME NEW y \in Stored, y # storage[n].native PROVE y \in Stored'
    OBVIOUS
  <2>2. PICK m \in Heaps : y = storage[m].native /\ y # 0
    BY DEF Stored
  <2>3. m # n /\ y = storage'[m].native
    BY <2>1, <2>2
  <2>4. QED
    BY <2>2, <2>3 DEF Stored, Heaps
<1>6. Stored' = (Stored \ {storage[n].native}) \cup {b}
  BY <1>3, <1>4, <1>5
<1>7. \A m \in Heaps : storage[m].native # b
  BY <1>1, <1>p DEF Stored
<1>8. ASSUME NEW k \in Heaps, NEW m \in Heaps,
             storage'[k].native # 0, storage'[k].native = storage'[m].native
      PROVE  k = m
  <2>1. CASE k = n
    BY <2>1, <1>7, <1>8
  <2>2. CASE m = n
    BY <2>2, <1>7, <1>8
  <2>3. CASE k # n /\ m # n
    BY <2>3, <1>8, <1>p DEF NativesPlaced
  <2>4. QED
    BY <2>1, <2>2, <2>3
<1>9. QED
  BY <1>1, <1>2, <1>6, <1>8 DEF all

LEMMA UploadedNatives ==
  ASSUME OwnersInv, NEW n \in Heaps, InPlace(n) \/ Anew(n) \/ Outgrows(n),
         UNCHANGED frames
  PROVE  /\ NativesPlaced' /\ nextNative' \in Nat \ {0} /\ retired' \in RetiredType
         /\ retired'.heaps = retired.heaps /\ retired'.ranges = retired.ranges
<1>p. /\ NativesPlaced /\ nextNative \in Nat \ {0} /\ retired \in RetiredType
      /\ storage \in [Heaps -> [native : Nat, ready : Nat]] /\ Len(copies) \in Nat
      /\ frames.last \in Nat
  BY LastFrameIs DEF OwnersInv, Placed, OwnerShaped, DeviceShaped
<1>q. nextNative + 1 \in Nat \ {0} /\ Len(copies) + 1 \in Nat
  BY <1>p
<1>1. CASE InPlace(n)
  <2>1. \A m \in Heaps : storage'[m].native = storage[m].native
    BY <1>1 DEF InPlace, Ends
  <2>2. Stored' = Stored
    BY <2>1 DEF Stored, Heaps
  <2>3. Outgrown' = Outgrown /\ Orphaned' = Orphaned
    BY <1>1 DEF InPlace, Outgrown, Orphaned
  <2>4. NativesPlaced'
    BY <1>1, <2>1, <2>2, <2>3, <1>p DEF NativesPlaced, InPlace, Heaps
  <2>5. QED
    BY <2>4, <1>1, <1>p DEF InPlace
<1>2. CASE Anew(n)
  <2>1. /\ Stored' = (Stored \ {storage[n].native}) \cup {nextNative}
        /\ nextNative \notin Stored \cup Outgrown \cup Orphaned \cup Freed(frames)
        /\ 1..(nextNative' - 1) = 1..(nextNative - 1) \cup {nextNative}
        /\ \A k, m \in Heaps :
              storage'[k].native # 0 /\ storage'[k].native = storage'[m].native => k = m
    BY <1>2, StoredAnew DEF Anew, Ends
  <2>2. Stored' = Stored \cup {nextNative}
    BY <2>1, <1>2 DEF Anew, Stored
  <2>3. Outgrown' = Outgrown /\ Orphaned' = Orphaned
    BY <1>2 DEF Anew, Outgrown, Orphaned
  <2>4. NativesPlaced'
    <3> DEFINE all == 1..(nextNative - 1)
               all1 == 1..(nextNative' - 1)
    <3>1. all1 = all \cup {nextNative}
      BY <2>1
    <3>2. Stored \cup Outgrown \cup Orphaned \cup Freed(frames) = all
      BY <1>p DEF NativesPlaced
    <3> HIDE DEF all, all1
    <3>3. /\ Stored' \cup Outgrown' \cup Orphaned' \cup Freed(frames') = all1
          /\ Stored' \cap (Outgrown' \cup Orphaned' \cup Freed(frames')) = {}
          /\ Outgrown' \cap (Orphaned' \cup Freed(frames')) = {}
          /\ Orphaned' \cap Freed(frames') = {}
      BY <3>1, <3>2, <2>1, <2>2, <2>3, <1>p DEF NativesPlaced
    <3>4. /\ \A x, y \in retired'.natives : x.native = y.native => x = y
          /\ \A x, y \in retired'.heaps : x.native = y.native \/ x.name = y.name => x = y
      BY <1>2, <1>p DEF Anew, NativesPlaced
    <3>5. QED
      BY <3>3, <3>4, <2>1 DEF NativesPlaced, Heaps, all1
  <2>5. QED
    BY <2>4, <1>2, <1>p, <1>q DEF Anew
<1>3. CASE Outgrows(n)
  <2> DEFINE old == storage[n].native
             one == [native |-> old, transfer |-> Len(copies) + 1, graphics |-> frames.last]
             more == retired.natives \cup {one}
  <2>1. /\ Stored' = (Stored \ {old}) \cup {nextNative}
        /\ nextNative \notin Stored \cup Outgrown \cup Orphaned \cup Freed(frames)
        /\ 1..(nextNative' - 1) = 1..(nextNative - 1) \cup {nextNative}
        /\ \A k, m \in Heaps :
              storage'[k].native # 0 /\ storage'[k].native = storage'[m].native => k = m
    BY <1>3, StoredAnew DEF Outgrows, Ends
  <2>2. one \in NativeRecord /\ one.native = old /\ old # 0 /\ old \in Stored
    BY <1>3, <1>p, <1>q DEF Outgrows, NativeRecord, Stored
  <2>3. /\ retired' = [natives |-> more, ranges |-> retired.ranges, heaps |-> retired.heaps]
        /\ more \in SUBSET NativeRecord
    BY <1>3, <2>2, <1>p DEF Outgrows, RetiredType
  <2> HIDE DEF one
  <2>4. /\ retired'.natives = retired.natives \cup {one} /\ retired'.ranges = retired.ranges
        /\ retired'.heaps = retired.heaps
    BY <2>3
  <2>5. retired' \in RetiredType
    BY <2>3, <1>p DEF RetiredType
  <2>6. Outgrown' = Outgrown \cup {old}
    BY <2>2, <2>4 DEF Outgrown
  <2>7. Orphaned' = Orphaned
    BY <2>4 DEF Orphaned
  <2>8. \A x \in retired.natives : x.native # old
    BY <2>2, <1>p DEF NativesPlaced, Outgrown
  <2> HIDE DEF old
  <2>9. NativesPlaced'
    <3> DEFINE all == 1..(nextNative - 1)
               all1 == 1..(nextNative' - 1)
    <3>1. all1 = all \cup {nextNative}
      BY <2>1
    <3>2. Stored \cup Outgrown \cup Orphaned \cup Freed(frames) = all
      BY <1>p DEF NativesPlaced
    <3> HIDE DEF all, all1
    <3>3. /\ Stored' \cup Outgrown' \cup Orphaned' \cup Freed(frames') = all1
          /\ Stored' \cap (Outgrown' \cup Orphaned' \cup Freed(frames')) = {}
          /\ Outgrown' \cap (Orphaned' \cup Freed(frames')) = {}
          /\ Orphaned' \cap Freed(frames') = {}
      BY <3>1, <3>2, <2>1, <2>2, <2>6, <2>7, <1>p DEF NativesPlaced
    <3>4. /\ \A x, y \in retired'.natives : x.native = y.native => x = y
          /\ \A x, y \in retired'.heaps : x.native = y.native \/ x.name = y.name => x = y
      BY <2>2, <2>4, <2>8, <1>p DEF NativesPlaced
    <3>5. QED
      BY <3>3, <3>4, <2>1 DEF NativesPlaced, Heaps, all1
  <2>10. QED
    BY <2>9, <2>5, <2>4, <1>3, <1>q DEF Outgrows
<1>4. QED
  BY <1>1, <1>2, <1>3

\* An upload keeps everything placed.
LEMMA AllocatesPlaced ==
  ASSUME OwnersInv, NEW n \in Heaps, Uploaded(n)
  PROVE  /\ Placed' /\ done' \in 0..Len(copies') /\ Len(copies) <= Len(copies')
<1>p. /\ HeapsOwned /\ OwnerShaped /\ DeviceShaped /\ copies \in Seq(CopyRecord)
      /\ Len(copies) \in Nat /\ done \in 0..Len(copies) /\ nextNative \in Nat \ {0}
      /\ storage[n].native \in Nat
  BY DEF OwnersInv, Placed, OwnerShaped, DeviceShaped
<1>u. UNCHANGED <<recording, frames, done, uses, givenUp>>
  BY DEF Uploaded
<1>m. /\ Moved(n) \in Seq(CopyRecord) /\ Len(Moved(n)) = Len(copies) + 1
  <2> DEFINE c == Copy(0, storage[n].native, nextNative)
  <2>1. c \in CopyRecord
    BY <1>p DEF Copy, CopyRecord
  <2> HIDE DEF c
  <2>2. Append(copies, c) \in Seq(CopyRecord) /\ Len(Append(copies, c)) = Len(copies) + 1
    BY <2>1, <1>p
  <2>3. QED
    BY <2>2 DEF Moved, c
<1>b. \E before \in Seq(CopyRecord), native \in Nat \ {0}, ready \in Nat :
        Ends(n, before, native, ready) /\ Len(copies) <= Len(before)
  <2>0. storage[n].ready \in Nat /\ Len(copies) + 1 \in Nat /\ 0 \in Nat
    BY <1>p DEF OwnerShaped
  <2>1. CASE InPlace(n)
    BY <2>0, <2>1, <1>p DEF InPlace
  <2>2. CASE Anew(n)
    <3>1. Ends(n, copies, nextNative, 0) /\ Len(copies) <= Len(copies)
      BY <2>2, <1>p DEF Anew
    <3>2. QED
      BY <3>1, <2>0, <1>p
  <2>3. CASE Outgrows(n)
    <3>1. Len(copies) <= Len(Moved(n))
      BY <1>m, <1>p
    <3>2. QED
      BY <3>1, <2>0, <2>3, <1>m, <1>p DEF Outgrows
  <2>4. QED
    BY <2>1, <2>2, <2>3 DEF Uploaded
<1>c. PICK before \in Seq(CopyRecord) : \E native \in Nat \ {0}, ready \in Nat :
        Ends(n, before, native, ready) /\ Len(copies) <= Len(before)
  BY <1>b
<1>e. PICK native \in Nat \ {0}, ready \in Nat : Ends(n, before, native, ready)
  BY <1>c
<1>n. /\ NativesPlaced' /\ nextNative' \in Nat \ {0} /\ retired' \in RetiredType
      /\ retired'.heaps = retired.heaps /\ retired'.ranges = retired.ranges
  BY <1>u, UploadedNatives DEF Uploaded
<1>h. HandlesPlaced' /\ tokens' \in [Handles -> Nat] /\ nextHandle' \in Nat \ {0}
  BY <1>c, <1>e, <1>u, <1>n, EndsHandles
<1>k. /\ copies' \in Seq(CopyRecord) /\ Len(copies') \in Nat
      /\ Len(before) \in Nat /\ Len(before) <= Len(copies')
  BY <1>e, EndsCopies
<1>1. done' \in 0..Len(copies') /\ Len(copies) <= Len(copies')
  BY <1>k, <1>c, <1>u, <1>p
<1>f. FramesGoOn(Freed(frames)) /\ UsesGoOn
  BY <1>u, FramesUnchanged
<1>g. FramesBooked' /\ Freed(frames') = Freed(frames)
  BY <1>f, BooksGoOn
<1>2. OwnerShaped'
  BY <1>n, <1>h, <1>e DEF Ends, OwnerShaped, RetiredType, NativeRecord, RangeRecord,
     HeapRecord, Heaps, Handles
<1>3. DeviceShaped'
  BY <1>u, <1>k, <1>1, <1>p DEF DeviceShaped, RecordingType, UsesShaped, DrawRecord, ReadRecord,
     Handles, Heaps, Values
<1>4. SerialsRise'
  BY <1>u, SerialsStay DEF OwnersInv, Placed
<1>5. HeapsOwned'
  <2>1. storage'[n].native # 0 /\ Exists(heaps'[n])
    BY <1>e DEF Ends
  <2>2. \A m \in Heaps : m # n => heaps'[m] = heaps[m] /\ storage'[m] = storage[m]
    BY <1>e DEF Ends
  <2>3. \A x \in retired.heaps : x.name # n
    <3>1. CASE storage[n].native # 0
      BY <3>1, <1>p DEF HeapsOwned
    <3>2. CASE n = Index
      BY <3>2, RetiredIs, GeometryAssumption DEF HeapRecord, GeometryAssumption
    <3>3. QED
      BY <3>1, <3>2 DEF Uploaded, InPlace, Anew, Outgrows
  <2>4. \A m \in Heaps :
          Exists(heaps'[m]) <=> storage'[m].native # 0 \/ \E x \in retired'.heaps : x.name = m
    BY <2>1, <2>2, <1>n, <1>p DEF HeapsOwned
  <2>5. \A x \in retired'.heaps : storage'[x.name].native = 0
    BY <2>2, <2>3, <1>n, <1>p, RetiredIs DEF HeapsOwned, HeapRecord, Heaps
  <2>6. QED
    BY <2>4, <2>5 DEF HeapsOwned, Heaps
<1>6. RecordingSound'
  <2>1. \A m \in Heaps : storage[m].native # 0 => storage'[m].native # 0
    BY <1>e DEF Ends
  <2>2. QED
    BY <2>1, <1>u, RecordingStays DEF OwnersInv, Placed, RecordingSound
<1>7. QED
  BY <1>1, <1>2, <1>3, <1>h, <1>4, <1>n, <1>5, <1>6, <1>g DEF Placed

\* So do the actions.
LEMMA UploadsPlaced ==
  ASSUME OwnersInv,
         \/ \E n \in Heaps : \E count \in Counts[n] : Upload(n, count)
         \/ \E count \in Counts[Index] : UploadFirstIndex(count)
         \/ GrowBody
  PROVE  Placed' /\ CallSound'
<1>i. Index \in Heaps
  BY DEF Heaps
<1>1. ASSUME NEW n \in Heaps, Uploaded(n), UNCHANGED sweep, sweep.op = "none"
      PROVE  Placed' /\ CallSound'
  <2>1. Placed' /\ UNCHANGED done
    BY <1>1, AllocatesPlaced DEF Uploaded
  <2>2. sweep' \in [op : {"none", "create", "drop", "grow", "remove", "return"},
                    heap : Heaps, arg : Nat, seen : 0..done']
    BY <2>1, <1>1 DEF OwnersInv, CallSound
  <2>3. QED
    BY <2>1, <2>2, <1>1 DEF CallSound, Heaps
<1>2. ASSUME NEW n \in Heaps, NEW count \in Counts[n], Upload(n, count)
      PROVE  Placed' /\ CallSound'
  BY <1>1, <1>2, UploadIs DEF Upload
<1>3. ASSUME NEW count \in Counts[Index], UploadFirstIndex(count) PROVE Placed' /\ CallSound'
  BY <1>1, <1>3, <1>i, FirstIndexIs DEF UploadFirstIndex
<1>4. ASSUME GrowBody PROVE Placed' /\ CallSound'
  <2>1. CASE UNCHANGED <<owner, copies>>
    BY <1>4, <2>1, QuietBodies, QuietKeeps DEF GrowBody
  <2>2. CASE ~UNCHANGED <<owner, copies>>
    <3>1. Placed' /\ UNCHANGED done
      BY <1>4, <2>2, GrowIs, AllocatesPlaced DEF Uploaded
    <3>2. sweep' = [op |-> "none", heap |-> Index, arg |-> 0, seen |-> 0] /\ 0 \in 0..done'
      BY <1>4, <3>1, DoneIs DEF GrowBody, Idle
    <3>3. QED
      BY <3>1, <3>2, CallEnds
  <2>3. QED
    BY <2>1, <2>2
<1>5. QED
  BY <1>2, <1>3, <1>4

-----------------------------------------------------------------------------
\* Dropping an allocation.

LEMMA RemoveIs ==
  ASSUME OwnersInv, RemoveBody
  PROVE  LET h == sweep.arg
             new == [handle |-> h, transfer |-> tokens[h],
                     serial |-> IF recording.active THEN recording.serial ELSE 0,
                     graphics |-> frames.last]
         IN /\ h \in Held /\ new \in RangeRecord
            /\ tokens' = [tokens EXCEPT ![h] = 0]
            /\ retired' = [natives |-> retired.natives, ranges |-> retired.ranges \cup {new},
                           heaps |-> retired.heaps]
            /\ \A x \in retired.ranges : x.handle # h
            /\ sweep' = [op |-> "return", heap |-> sweep.heap, arg |-> h, seen |-> done]
            /\ FramesGoOn(Freed(frames)) /\ UsesGoOn
            /\ UNCHANGED <<heaps, storage, nextHandle, nextNative, recording, copies, done,
                           givenUp>>
<1> DEFINE h == sweep.arg
           serial == IF recording.active THEN recording.serial ELSE 0
           new == [handle |-> h, transfer |-> tokens[h], serial |-> serial,
                   graphics |-> frames.last]
<1>1. h \in Held
  BY DEF OwnersInv, CallSound, RemoveBody
<1>2. LastFrame(frames) = frames.last /\ frames.last \in Nat
  BY LastFrameIs
<1>3. serial \in Nat /\ tokens[h] \in Nat /\ tokens[h] # 0 /\ h \in Handles
  BY <1>1 DEF OwnersInv, Placed, OwnerShaped, DeviceShaped, RecordingType, Held
<1>4. new \in RangeRecord
  BY <1>2, <1>3 DEF RangeRecord
<1>5. /\ tokens' = [tokens EXCEPT ![h] = 0]
      /\ retired' = [retired EXCEPT !.ranges = @ \cup {new}]
      /\ sweep' = [sweep EXCEPT !.op = "return", !.seen = done]
      /\ frames' \in Polled(frames)
      /\ UNCHANGED <<heaps, storage, nextHandle, nextNative, recording, copies, done, uses,
                     givenUp>>
  BY <1>2 DEF RemoveBody
<1>6. FramesGoOn(Freed(frames)) /\ UsesGoOn
  BY <1>5, FramesPolled
<1>7. \A x \in retired.ranges : x.handle # h
  BY <1>3 DEF OwnersInv, Placed, HandlesPlaced
<1>8. sweep = [op |-> sweep.op, heap |-> sweep.heap, arg |-> h, seen |-> sweep.seen]
  BY DEF OwnersInv, CallSound
<1>9. sweep' = [op |-> "return", heap |-> sweep.heap, arg |-> h, seen |-> done]
  BY <1>5, <1>8
<1> HIDE DEF new
<1>10. retired' = [natives |-> retired.natives, ranges |-> retired.ranges \cup {new},
                   heaps |-> retired.heaps]
  BY <1>5, RetiredIs
<1>11. QED
  BY <1>1, <1>4, <1>5, <1>6, <1>7, <1>9, <1>10 DEF new

LEMMA RemovePlaced == ASSUME OwnersInv, RemoveBody PROVE Placed' /\ CallSound'
<1> DEFINE h == sweep.arg
           new == [handle |-> h, transfer |-> tokens[h],
                   serial |-> IF recording.active THEN recording.serial ELSE 0,
                   graphics |-> frames.last]
           more == retired.ranges \cup {new}
<1>p. HandlesPlaced /\ OwnerShaped /\ DeviceShaped /\ SerialsRise
  BY DEF OwnersInv, Placed
<1>d. done \in done..Len(copies) /\ Len(copies) \in Nat
  BY DoneIs
<1>1. /\ h \in Held /\ new \in RangeRecord /\ tokens' = [tokens EXCEPT ![h] = 0]
      /\ \A x \in retired.ranges : x.handle # h
      /\ sweep' = [op |-> "return", heap |-> sweep.heap, arg |-> h, seen |-> done]
      /\ FramesGoOn(Freed(frames)) /\ UsesGoOn
      /\ UNCHANGED <<heaps, storage, nextHandle, nextNative, recording, copies, done, givenUp>>
  BY RemoveIs
<1>r. retired' = [natives |-> retired.natives, ranges |-> more, heaps |-> retired.heaps]
  BY RemoveIs
<1>s. /\ retired'.natives = retired.natives /\ retired'.ranges = more
      /\ retired'.heaps = retired.heaps
  BY <1>r
<1>f. LastFrame(frames') = frames.last /\ LastFrame(frames) = frames.last /\ frames.last \in Nat
  BY <1>1, BooksGoOn, LastFrameIs
<1>g. FramesBooked' /\ Freed(frames') = Freed(frames)
  BY <1>1, BooksGoOn
<1>n. /\ new.handle = h /\ new.transfer = tokens[h] /\ new.graphics = frames.last
      /\ new.serial # 0 => recording.active /\ new.serial = recording.serial
  OBVIOUS
<1>h. h \in Handles
  BY <1>1 DEF Held
<1>t. /\ tokens' \in [Handles -> Nat] /\ tokens'[h] = 0
      /\ \A i \in Handles : i # h => tokens'[i] = tokens[i]
  BY <1>1, <1>h, <1>p DEF OwnerShaped
<1> HIDE DEF new, h
<1>2. OwnerShaped'
  <2>1. more \in SUBSET RangeRecord
    BY <1>1, RetiredIs
  <2>2. retired' \in RetiredType
    BY <1>r, <2>1, <1>p DEF OwnerShaped, RetiredType
  <2>3. QED
    BY <2>2, <1>1, <1>t, <1>p DEF OwnerShaped, RetiredType, NativeRecord, RangeRecord,
       HeapRecord, Heaps, Handles
<1>3. DeviceShaped'
  BY <1>1, <1>d, <1>p, DeviceGoesOn DEF DeviceShaped
<1>4. HandlesPlaced'
  <2>1. \E n \in Heaps : \E r \in heaps[n].live : r.handle = h
    BY <1>1, <1>p DEF HandlesPlaced
  <2>2. tokens[h] <= Len(copies)
    BY <1>1, <1>p DEF HandlesPlaced
  <2>3. \A n \in Heaps : \A r \in heaps'[n].live :
         /\ r.handle \in Handles /\ r.handle < nextHandle'
         /\ tokens'[r.handle] = 0 => \E x \in retired'.ranges : x.handle = r.handle
         /\ \A m \in Heaps : \A q \in heaps'[m].live : r.handle = q.handle => n = m /\ r = q
    <3>1. SUFFICES ASSUME NEW n \in Heaps, NEW r \in heaps[n].live
                   PROVE  /\ r.handle \in Handles /\ r.handle < nextHandle
                          /\ tokens'[r.handle] = 0 => \E x \in more : x.handle = r.handle
                          /\ \A m \in Heaps : \A q \in heaps[m].live :
                               r.handle = q.handle => n = m /\ r = q
      BY <1>1, <1>s
    <3>2. r.handle \in Handles
      BY <1>p DEF HandlesPlaced
    <3>3. CASE r.handle = h
      BY <3>2, <3>3, <1>n, <1>p DEF HandlesPlaced
    <3>4. CASE r.handle # h
      BY <3>2, <3>4, <1>t, <1>p DEF HandlesPlaced
    <3>5. QED
      BY <3>3, <3>4
  <2>4. \A i \in Held' : i \in Held /\ tokens'[i] = tokens[i]
    BY <1>t DEF Held, Handles
  <2>5. \A i \in Held' :
         /\ \E n \in Heaps : \E r \in heaps'[n].live : r.handle = i
         /\ tokens'[i] <= Len(copies')
    BY <2>4, <1>1, <1>p DEF HandlesPlaced
  <2>6. \A x, y \in retired'.ranges : x.handle = y.handle => x = y
    BY <1>1, <1>n, <1>s, <1>p DEF HandlesPlaced
  <2>7. \A x \in retired.ranges :
         /\ x.transfer <= Len(copies) /\ x.graphics <= frames.last
         /\ tokens'[x.handle] = 0
         /\ \E n \in Heaps : \E r \in heaps[n].live : r.handle = x.handle
         /\ x.serial # 0 =>
              x.serial \in givenUp \/ (recording.active /\ x.serial = recording.serial)
    BY <1>f, <1>t, <1>1, <1>p DEF HandlesPlaced, OwnerShaped, RetiredType, RangeRecord
  <2>8. \A x \in retired'.ranges :
         /\ x.transfer <= Len(copies') /\ x.graphics <= LastFrame(frames')
         /\ tokens'[x.handle] = 0
         /\ \E n \in Heaps : \E r \in heaps'[n].live : r.handle = x.handle
         /\ x.serial # 0 =>
              x.serial \in givenUp' \/ (recording'.active /\ x.serial = recording'.serial)
    <3>1. frames.last <= frames.last
      BY <1>f
    <3>2. SUFFICES ASSUME NEW x \in more
                   PROVE  /\ x.transfer <= Len(copies) /\ x.graphics <= frames.last
                          /\ tokens'[x.handle] = 0
                          /\ \E n \in Heaps : \E r \in heaps[n].live : r.handle = x.handle
                          /\ x.serial # 0 =>
                               x.serial \in givenUp \/ (recording.active /\ x.serial = recording.serial)
      BY <1>1, <1>s, <1>f
    <3>3. CASE x = new
      BY <3>1, <3>3, <2>1, <2>2, <1>n, <1>t
    <3>4. CASE x # new
      BY <3>4, <2>7
    <3>5. QED
      BY <3>3, <3>4
  <2>9. QED
    BY <2>3, <2>5, <2>6, <2>8 DEF HandlesPlaced, Heaps, Handles
<1>5. SerialsRise'
  BY <1>1, <1>p, SerialsStay
<1>6. NativesPlaced'
  BY <1>1, <1>s, <1>g, NativesStay DEF OwnersInv, Placed
<1>7. HeapsOwned'
  BY <1>1, <1>s, HeapsStay DEF OwnersInv, Placed
<1>8. RecordingSound'
  BY <1>1, RecordingStays DEF OwnersInv, Placed, RecordingSound
<1>9. CallSound'
  <2>1. done \in 0..done' /\ h \in Nat /\ sweep.heap \in Heaps
    BY <1>1, <1>h, HandlesAre, DoneIs DEF OwnersInv, CallSound
  <2>2. sweep' \in [op : {"none", "create", "drop", "grow", "remove", "return"},
                    heap : Heaps, arg : Nat, seen : 0..done'] /\ sweep'.op = "return"
    BY <2>1, <1>1
  <2>3. QED
    BY <2>2 DEF CallSound, Heaps
<1>10. QED
  BY <1>2, <1>3, <1>4, <1>5, <1>6, <1>7, <1>8, <1>9, <1>g DEF Placed

-----------------------------------------------------------------------------
\* Frames.

LEMMA BeginPlaced == ASSUME OwnersInv, Begin PROVE Placed' /\ CallSound'
<1> DEFINE serial == recording.serial + 1
           none == [n \in Heaps |-> NotImported]
<1>p. HandlesPlaced /\ OwnerShaped /\ DeviceShaped /\ SerialsRise
  BY DEF OwnersInv, Placed
<1>d. done \in done..Len(copies) /\ Len(copies) \in Nat /\ done \in 0..done
  BY DoneIs
<1>u. /\ ~recording.active /\ sweep.op = "none"
      /\ UNCHANGED <<owner, heaps, storage, tokens, nextHandle, nextNative, retired>>
      /\ UNCHANGED <<sweep, frames, copies, done, uses, givenUp>>
  BY DEF Begin, owner
<1>r. recording' = [active |-> TRUE, serial |-> serial, imported |-> none, drawn |-> {}]
  BY DEF Begin
<1>s. serial \in Nat /\ recording.serial \in Nat /\ none \in [Heaps -> ImportRecord]
  BY <1>p DEF DeviceShaped, RecordingType, NotImported, ImportRecord
<1>t. \A n \in Heaps : ~none[n].is
  BY DEF NotImported
<1> HIDE DEF none
<1>v. /\ recording'.active /\ recording'.serial = serial /\ recording'.drawn = {}
      /\ recording'.imported = none /\ recording' \in RecordingType
  BY <1>r, <1>s DEF RecordingType
<1>f. FramesGoOn(Freed(frames)) /\ UsesGoOn
  BY <1>u, FramesUnchanged
<1>g. FramesBooked' /\ Freed(frames') = Freed(frames)
  BY <1>f, BooksGoOn
<1>1. OwnerShaped'
  BY <1>u, <1>p DEF OwnerShaped, RetiredType, NativeRecord, RangeRecord, HeapRecord, Heaps,
     Handles
<1>2. DeviceShaped'
  BY <1>u, <1>v, <1>d, <1>f, DeviceGoesOn
<1>3. HandlesPlaced'
  <2>1. \A x \in retired.ranges : x.serial # 0 => x.serial \in givenUp
    BY <1>u, <1>p DEF HandlesPlaced
  <2>2. Held' = Held
    BY <1>u DEF Held
  <2>3. QED
    BY <2>1, <2>2, <1>u, <1>p DEF HandlesPlaced, Heaps, Handles
<1>4. SerialsRise'
  <2>1. \A s \in givenUp : s \in Nat /\ s <= serial /\ s # serial
    <3>1. \A s \in givenUp : s \in Nat /\ s <= recording.serial
      BY <1>p DEF SerialsRise
    <3>2. QED
      BY <3>1, <1>s
  <2>2. serial # 0
    BY <1>s
  <2> HIDE DEF serial
  <2>3. QED
    BY <2>1, <2>2, <1>u, <1>v DEF SerialsRise
<1>5. NativesPlaced'
  BY <1>u, <1>g, NativesStay DEF OwnersInv, Placed
<1>6. HeapsOwned'
  BY <1>u, HeapsStay DEF OwnersInv, Placed
<1>7. RecordingSound'
  BY <1>v, <1>t DEF RecordingSound, Heaps
<1>8. CallSound'
  BY <1>u, <1>d DEF OwnersInv, CallSound, Heaps
<1>9. QED
  BY <1>1, <1>2, <1>3, <1>4, <1>5, <1>6, <1>7, <1>8, <1>g DEF Placed

LEMMA DrawIs ==
  ASSUME OwnersInv, NEW h \in Handles, Draw(h)
  PROVE  LET n == HeapOf(h)
             r == RangeOf(h)
             i == IF recording.imported[n].is THEN recording.imported[n]
                  ELSE [is |-> TRUE, ready |-> storage[n].ready, mark |-> Len(copies)]
             d == [handle |-> h, heap |-> n, at |-> r.at, size |-> r.size, upload |-> tokens[h]]
         IN /\ h \in Held /\ n \in Heaps /\ storage[n].native # 0 /\ recording.active
            /\ r \in heaps[n].live /\ r.handle = h
            /\ i \in ImportRecord /\ i.is /\ d \in DrawRecord
            /\ recording' = [active |-> TRUE, serial |-> recording.serial,
                             imported |-> [recording.imported EXCEPT ![n] = i],
                             drawn |-> recording.drawn \cup {d}]
            /\ recording' \in RecordingType
            /\ UNCHANGED <<owner, sweep, frames, copies, done, uses, givenUp>>
<1> DEFINE n == HeapOf(h)
           r == RangeOf(h)
           i == IF recording.imported[n].is THEN recording.imported[n]
                ELSE [is |-> TRUE, ready |-> storage[n].ready, mark |-> Len(copies)]
           d == [handle |-> h, heap |-> n, at |-> r.at, size |-> r.size, upload |-> tokens[h]]
<1>1. h \in Held /\ recording.active
  BY DEF Draw
<1>2. n \in Heaps /\ r \in heaps[n].live /\ r.handle = h
  BY <1>1, HeapOfIs DEF OwnersInv, Placed
<1>p. /\ recording \in RecordingType /\ storage[n] \in [native : Nat, ready : Nat]
      /\ Len(copies) \in Nat /\ tokens[h] \in Nat
  BY <1>2 DEF OwnersInv, Placed, OwnerShaped, DeviceShaped
<1>3. r.at \in Nat /\ r.size \in Nat
  BY <1>2 DEF OwnersInv, StateInv, HeapsGood, Good, HeapType, LiveRange
<1> HIDE DEF n, r
<1>4. d \in DrawRecord
  BY <1>2, <1>3, <1>p DEF DrawRecord
<1>5. i \in ImportRecord /\ i.is
  <2>1. CASE recording.imported[n].is
    BY <2>1, <1>2, <1>p DEF RecordingType
  <2>2. CASE ~recording.imported[n].is
    <3>1. [is |-> TRUE, ready |-> storage[n].ready, mark |-> Len(copies)] \in ImportRecord
      BY <1>p DEF ImportRecord
    <3>2. QED
      BY <2>2, <3>1
  <2>3. QED
    BY <2>1, <2>2
<1>6. recording' = [recording EXCEPT !.imported[n] = i, !.drawn = @ \cup {d}]
  BY DEF Draw, n, r
<1> HIDE DEF i, d
<1>7. recording' = [active |-> TRUE, serial |-> recording.serial,
                    imported |-> [recording.imported EXCEPT ![n] = i],
                    drawn |-> recording.drawn \cup {d}]
  BY <1>1, <1>6, <1>p DEF RecordingType
<1>8. [recording.imported EXCEPT ![n] = i] \in [Heaps -> ImportRecord]
  BY <1>5, <1>p DEF RecordingType
<1>9. recording.drawn \cup {d} \in SUBSET DrawRecord /\ recording.serial \in Nat
  BY <1>4, <1>p DEF RecordingType
<1>10. recording' \in RecordingType
  BY <1>7, <1>8, <1>9 DEF RecordingType
<1>11. /\ storage[n].native # 0
       /\ UNCHANGED <<owner, sweep, frames, copies, done, uses, givenUp>>
  BY DEF Draw, n
<1>12. QED
  BY <1>1, <1>2, <1>4, <1>5, <1>7, <1>10, <1>11 DEF n, r, i, d

LEMMA DrawPlaced == ASSUME OwnersInv, NEW h \in Handles, Draw(h) PROVE Placed' /\ CallSound'
<1> DEFINE n == HeapOf(h)
           r == RangeOf(h)
           i == IF recording.imported[n].is THEN recording.imported[n]
                ELSE [is |-> TRUE, ready |-> storage[n].ready, mark |-> Len(copies)]
           d == [handle |-> h, heap |-> n, at |-> r.at, size |-> r.size, upload |-> tokens[h]]
<1>p. OwnerShaped /\ DeviceShaped
  BY DEF OwnersInv, Placed
<1>d. done \in done..Len(copies) /\ Len(copies) \in Nat /\ done \in 0..done
  BY DoneIs
<1>1. /\ n \in Heaps /\ storage[n].native # 0 /\ recording.active
      /\ i.is /\ d.heap = n
      /\ recording' = [active |-> TRUE, serial |-> recording.serial,
                       imported |-> [recording.imported EXCEPT ![n] = i],
                       drawn |-> recording.drawn \cup {d}]
      /\ recording' \in RecordingType
      /\ UNCHANGED <<owner, sweep, frames, copies, done, uses, givenUp>>
  BY DrawIs
<1>u. /\ UNCHANGED <<heaps, storage, tokens, nextHandle, nextNative, retired>>
      /\ UNCHANGED <<sweep, frames, copies, done, uses, givenUp>> /\ sweep.op = "none"
  BY <1>1 DEF owner, Draw
<1> HIDE DEF i, d, n
<1>2. /\ recording'.active = recording.active /\ recording'.serial = recording.serial
      /\ recording'.drawn = recording.drawn \cup {d}
      /\ recording'.imported[n] = i
      /\ \A m \in Heaps : m # n => recording'.imported[m] = recording.imported[m]
  BY <1>1, <1>p DEF DeviceShaped, RecordingType
<1>f. FramesGoOn(Freed(frames)) /\ UsesGoOn
  BY <1>u, FramesUnchanged
<1>g. FramesBooked' /\ Freed(frames') = Freed(frames)
  BY <1>f, BooksGoOn
<1>3. OwnerShaped'
  BY <1>u, <1>p DEF OwnerShaped, RetiredType, NativeRecord, RangeRecord, HeapRecord, Heaps,
     Handles
<1>4. DeviceShaped'
  BY <1>1, <1>u, <1>d, <1>f, DeviceGoesOn
<1>5. HandlesPlaced'
  BY <1>u, <1>2, <1>f, HandlesGoOn
<1>6. SerialsRise'
  BY <1>u, <1>2, SerialsStay DEF OwnersInv, Placed
<1>7. NativesPlaced'
  BY <1>u, <1>g, NativesStay DEF OwnersInv, Placed
<1>8. HeapsOwned'
  BY <1>u, HeapsStay DEF OwnersInv, Placed
<1>9. RecordingSound'
  <2>1. \A e \in recording'.drawn : recording'.active /\ recording'.imported[e.heap].is
    <3>1. SUFFICES ASSUME NEW e \in recording'.drawn PROVE recording'.imported[e.heap].is
      BY <1>1, <1>2
    <3>2. CASE e = d
      BY <3>2, <1>1, <1>2
    <3>3. CASE e \in recording.drawn
      <4>1. e.heap \in Heaps /\ recording.imported[e.heap].is
        BY <3>3, <1>p DEF OwnersInv, Placed, RecordingSound, DeviceShaped, RecordingType,
           DrawRecord
      <4>2. QED
        BY <4>1, <1>1, <1>2
    <3>4. QED
      BY <3>2, <3>3, <1>2
  <2>2. \A m \in Heaps : recording'.imported[m].is => storage[m].native # 0
    BY <1>1, <1>2 DEF OwnersInv, Placed, RecordingSound
  <2>3. QED
    BY <2>1, <2>2, <1>u DEF RecordingSound, Heaps
<1>10. CallSound'
  BY <1>u, <1>d DEF OwnersInv, CallSound, Heaps
<1>11. QED
  BY <1>3, <1>4, <1>5, <1>6, <1>7, <1>8, <1>9, <1>10, <1>g DEF Placed

\* The drops of a recording after its end.
LEMMA FinalizedIs ==
  ASSUME OwnersInv, NEW completion \in Nat, retired' = Finalized(completion)
  PROVE  /\ retired' \in RetiredType
         /\ retired'.natives = retired.natives /\ retired'.heaps = retired.heaps
         /\ \A y \in retired'.ranges : \E x \in retired.ranges :
              /\ y.handle = x.handle /\ y.transfer = x.transfer
              /\ IF x.serial = recording.serial
                 THEN y.serial = 0 /\ y.graphics = completion ELSE y = x
         /\ \A x \in retired.ranges : \E y \in retired'.ranges : y.handle = x.handle
         /\ \A y, z \in retired'.ranges : y.handle = z.handle => y = z
<1> DEFINE F(x) == IF x.serial = recording.serial
                   THEN [x EXCEPT !.serial = 0, !.graphics = completion] ELSE x
           after == {F(x) : x \in retired.ranges}
<1>p. retired \in RetiredType /\ HandlesPlaced
  BY DEF OwnersInv, Placed, OwnerShaped
<1>1. \A x \in RangeRecord :
        /\ F(x) \in RangeRecord /\ F(x).handle = x.handle /\ F(x).transfer = x.transfer
        /\ x.serial = recording.serial => F(x).serial = 0 /\ F(x).graphics = completion
        /\ x.serial # recording.serial => F(x) = x
  BY DEF RangeRecord
<1>2. retired' = [retired EXCEPT !.ranges = after]
  BY DEF Finalized
<1>3. \A x \in retired.ranges : x \in RangeRecord
  BY RetiredIs
<1> HIDE DEF F
<1>4. after \in SUBSET RangeRecord
  BY <1>1, <1>3
<1>5. retired' = [natives |-> retired.natives, ranges |-> after, heaps |-> retired.heaps]
  BY <1>2, RetiredIs
<1>6. \A y \in after : \E x \in retired.ranges : y = F(x)
  OBVIOUS
<1>7. \A x \in retired.ranges : F(x) \in after
  OBVIOUS
<1> HIDE DEF after
<1>8. retired' \in RetiredType
  BY <1>4, <1>5, <1>p DEF RetiredType
<1>9. /\ retired'.natives = retired.natives /\ retired'.heaps = retired.heaps
      /\ retired'.ranges = after
  BY <1>5
<1>10. \A y, z \in after : y.handle = z.handle => y = z
  <2>1. SUFFICES ASSUME NEW y \in after, NEW z \in after, y.handle = z.handle PROVE y = z
    OBVIOUS
  <2>2. PICK x \in retired.ranges : y = F(x)
    BY <1>6
  <2>3. PICK q \in retired.ranges : z = F(q)
    BY <1>6
  <2>4. x.handle = q.handle
    BY <2>1, <2>2, <2>3, <1>1, <1>3
  <2>5. QED
    BY <2>2, <2>3, <2>4, <1>p DEF HandlesPlaced
<1>11. \A x \in retired.ranges : \E y \in after : y.handle = x.handle
  BY <1>7, <1>1, <1>3
<1>12. \A y \in after : \E x \in retired.ranges :
              /\ y.handle = x.handle /\ y.transfer = x.transfer
              /\ IF x.serial = recording.serial
                 THEN y.serial = 0 /\ y.graphics = completion ELSE y = x
  BY <1>6, <1>1, <1>3
<1>13. QED
  BY <1>8, <1>9, <1>10, <1>11, <1>12

\* Any end of a recording.
LEMMA EndsPlaced ==
  ASSUME OwnersInv, NEW completion \in Nat, retired' = Finalized(completion),
         UNCHANGED <<heaps, storage, tokens, nextHandle, nextNative, copies, givenUp>>,
         recording' \in RecordingType, ~recording'.active,
         recording'.serial = recording.serial, recording'.drawn = {},
         \A n \in Heaps : recording'.imported[n].is => recording.imported[n].is,
         DeviceShaped', FramesBooked', Freed(frames') = Freed(frames),
         LastFrame(frames') \in Nat, LastFrame(frames) <= LastFrame(frames'),
         completion <= LastFrame(frames')
  PROVE  Placed'
<1>p. HandlesPlaced /\ OwnerShaped /\ SerialsRise
  BY DEF OwnersInv, Placed
<1>l. LastFrame(frames) \in Nat
  BY LastFrameIs
<1>1. /\ retired' \in RetiredType
      /\ retired'.natives = retired.natives /\ retired'.heaps = retired.heaps
      /\ \A y \in retired'.ranges : \E x \in retired.ranges :
           /\ y.handle = x.handle /\ y.transfer = x.transfer
           /\ IF x.serial = recording.serial
              THEN y.serial = 0 /\ y.graphics = completion ELSE y = x
      /\ \A x \in retired.ranges : \E y \in retired'.ranges : y.handle = x.handle
      /\ \A y, z \in retired'.ranges : y.handle = z.handle => y = z
  BY FinalizedIs
<1>2. OwnerShaped'
  BY <1>1, <1>p DEF OwnerShaped, RetiredType, NativeRecord, RangeRecord, HeapRecord, Heaps,
     Handles
<1>3. HandlesPlaced'
  <2>1. Held' = Held
    BY DEF Held
  <2>2. ASSUME NEW y \in retired'.ranges
        PROVE  /\ y.transfer <= Len(copies) /\ y.graphics <= LastFrame(frames')
               /\ tokens[y.handle] = 0
               /\ \E n \in Heaps : \E r \in heaps[n].live : r.handle = y.handle
               /\ y.serial # 0 => y.serial \in givenUp
    <3>1. PICK x \in retired.ranges :
              /\ y.handle = x.handle /\ y.transfer = x.transfer
              /\ IF x.serial = recording.serial
                 THEN y.serial = 0 /\ y.graphics = completion ELSE y = x
      BY <1>1
    <3>2. x.graphics \in Nat /\ x.graphics <= LastFrame(frames)
      BY RetiredIs, <1>p DEF HandlesPlaced, RangeRecord
    <3>3. x.graphics <= LastFrame(frames')
      BY <3>2, <1>l
    <3>4. QED
      BY <3>1, <3>3, <1>p DEF HandlesPlaced
  <2>3. \A n \in Heaps : \A r \in heaps[n].live :
         /\ r.handle \in Handles /\ r.handle < nextHandle
         /\ tokens[r.handle] = 0 => \E x \in retired'.ranges : x.handle = r.handle
         /\ \A m \in Heaps : \A q \in heaps[m].live : r.handle = q.handle => n = m /\ r = q
    BY <1>1, <1>p DEF HandlesPlaced
  <2>4. QED
    BY <2>1, <2>2, <2>3, <1>1, <1>p DEF HandlesPlaced, Heaps, Handles
<1>4. SerialsRise'
  BY <1>p DEF SerialsRise
<1>5. NativesPlaced'
  BY <1>1, NativesStay DEF OwnersInv, Placed
<1>6. HeapsOwned'
  BY <1>1, HeapsStay DEF OwnersInv, Placed
<1>7. RecordingSound'
  BY DEF OwnersInv, Placed, RecordingSound, Heaps
<1>8. QED
  BY <1>2, <1>3, <1>4, <1>5, <1>6, <1>7 DEF Placed

LEMMA EndedIs ==
  ASSUME OwnersInv
  PROVE  /\ Ended \in RecordingType /\ ~Ended.active /\ Ended.serial = recording.serial
         /\ Ended.drawn = {} /\ Ended.imported = recording.imported
         /\ \A kept \in [Heaps -> ImportRecord] :
              LET e == [Ended EXCEPT !.imported = kept]
              IN /\ e \in RecordingType /\ ~e.active /\ e.serial = recording.serial
                 /\ e.drawn = {} /\ e.imported = kept
<1>1. recording \in RecordingType
  BY DEF OwnersInv, Placed, DeviceShaped
<1>2. /\ Ended = [active |-> FALSE, serial |-> recording.serial,
                  imported |-> recording.imported, drawn |-> {}]
      /\ \A kept : [Ended EXCEPT !.imported = kept] =
                     [active |-> FALSE, serial |-> recording.serial, imported |-> kept,
                      drawn |-> {}]
  <2> DEFINE no == FALSE
             none == {}
  <2>1. Ended = [recording EXCEPT !.active = no, !.drawn = none]
    BY DEF Ended
  <2> HIDE DEF no, none
  <2>3. Ended = [active |-> no, serial |-> recording.serial,
                 imported |-> recording.imported, drawn |-> none]
    BY <1>1, <2>1 DEF RecordingType
  <2>4. \A kept : [Ended EXCEPT !.imported = kept] =
                  [active |-> no, serial |-> recording.serial, imported |-> kept,
                   drawn |-> none]
    BY <2>3
  <2>5. QED
    BY <2>3, <2>4 DEF no, none
<1>4. recording.serial \in Nat /\ recording.imported \in [Heaps -> ImportRecord]
  BY <1>1 DEF RecordingType
<1>5. \A kept \in [Heaps -> ImportRecord] :
        [active |-> FALSE, serial |-> recording.serial, imported |-> kept, drawn |-> {}]
          \in RecordingType
  BY <1>4 DEF RecordingType
<1>6. Ended \in RecordingType
  BY <1>2, <1>4, <1>5
<1>7. QED
  BY <1>2, <1>5, <1>6

LEMMA AbortIs ==
  ASSUME OwnersInv, Abort
  PROVE  /\ recording' \in RecordingType /\ ~recording'.active
         /\ recording'.serial = recording.serial /\ recording'.drawn = {}
         /\ \A n \in Heaps : recording'.imported[n] \in {recording.imported[n], NotImported}
         /\ FramesGoOn(Freed(frames)) /\ UsesGoOn
         /\ retired' = Finalized(frames.last)
         /\ sweep' = [op |-> "return", heap |-> Index, arg |-> 0, seen |-> done]
         /\ UNCHANGED <<heaps, storage, tokens, nextHandle, nextNative, copies, done, givenUp>>
<1>1. PICK kept \in {recording.imported, [n \in Heaps |-> NotImported]} :
        recording' = [Ended EXCEPT !.imported = kept]
  BY DEF Abort
<1>2. kept \in [Heaps -> ImportRecord]
  <2>1. recording.imported \in [Heaps -> ImportRecord]
    BY DEF OwnersInv, Placed, DeviceShaped, RecordingType
  <2>2. NotImported \in ImportRecord
    BY DEF NotImported, ImportRecord
  <2>3. [n \in Heaps |-> NotImported] \in [Heaps -> ImportRecord]
    BY <2>2
  <2>4. QED
    BY <2>1, <2>3
<1>3. /\ recording' \in RecordingType /\ ~recording'.active
      /\ recording'.serial = recording.serial /\ recording'.drawn = {}
      /\ recording'.imported = kept
  BY <1>1, <1>2, EndedIs
<1>4. \A n \in Heaps : kept[n] \in {recording.imported[n], NotImported}
  OBVIOUS
<1>5. FramesGoOn(Freed(frames)) /\ UsesGoOn
  BY FramesPolled DEF Abort
<1>6. retired' = Finalized(frames.last)
  BY LastFrameIs DEF Abort
<1>7. sweep' = [op |-> "return", heap |-> Index, arg |-> 0, seen |-> done]
  BY DEF Abort, Idle
<1>8. QED
  BY <1>3, <1>4, <1>5, <1>6, <1>7 DEF Abort

LEMMA AbortPlaced == ASSUME OwnersInv, Abort PROVE Placed' /\ CallSound'
<1>1. /\ recording' \in RecordingType /\ ~recording'.active
      /\ recording'.serial = recording.serial /\ recording'.drawn = {}
      /\ \A n \in Heaps : recording'.imported[n] \in {recording.imported[n], NotImported}
      /\ FramesGoOn(Freed(frames)) /\ UsesGoOn
      /\ retired' = Finalized(frames.last)
      /\ sweep' = [op |-> "return", heap |-> Index, arg |-> 0, seen |-> done]
      /\ UNCHANGED <<heaps, storage, tokens, nextHandle, nextNative, copies, done, givenUp>>
  BY AbortIs
<1>2. LastFrame(frames') = frames.last /\ LastFrame(frames) = frames.last /\ frames.last \in Nat
        /\ frames.last <= frames.last
  BY <1>1, BooksGoOn, LastFrameIs
<1>3. FramesBooked' /\ Freed(frames') = Freed(frames)
  BY <1>1, BooksGoOn
<1>4. DeviceShaped'
  BY <1>1, DeviceGoesOn, DoneIs
<1>5. \A n \in Heaps : recording'.imported[n].is => recording.imported[n].is
  BY <1>1 DEF NotImported
<1>6. Placed'
  BY <1>1, <1>2, <1>3, <1>4, <1>5, EndsPlaced
<1>7. CallSound'
  BY <1>1, CallEnds, DoneIs
<1>8. QED
  BY <1>6, <1>7

LEMMA SubmitFailsPlaced ==
  ASSUME OwnersInv, SubmitFails
  PROVE  /\ Placed' /\ CallSound' /\ frames'.running = {}
         /\ recording' = Ended /\ UsesGoOn /\ done' = Len(copies)
         /\ Freed(frames') = Freed(frames)
<1>1. /\ CanPrepare(frames) /\ recording' = Ended
      /\ frames' \in {Idled(Refused(frames)), Idled(PresentFailed(frames))}
      /\ done' = Len(copies) /\ retired' = Finalized(LastFrame(frames))
      /\ sweep' = [op |-> "return", heap |-> Index, arg |-> 0, seen |-> Len(copies)]
      /\ UNCHANGED <<heaps, storage, tokens, nextHandle, nextNative, copies, uses, givenUp>>
  BY DEF SubmitFails, Idle
<1>f. FramesGoOn(Freed(frames)) /\ UsesGoOn /\ frames'.running = {}
  BY <1>1, FramesWaited
<1>r. /\ recording' \in RecordingType /\ ~recording'.active
      /\ recording'.serial = recording.serial /\ recording'.drawn = {}
      /\ recording'.imported = recording.imported
  BY <1>1, EndedIs
<1>2. LastFrame(frames') = frames.last /\ LastFrame(frames) = frames.last /\ frames.last \in Nat
        /\ frames.last <= frames.last
  BY <1>f, BooksGoOn, LastFrameIs
<1>3. FramesBooked' /\ Freed(frames') = Freed(frames)
  BY <1>f, BooksGoOn
<1>d. done' \in done..Len(copies) /\ Len(copies) \in 0..done'
  BY <1>1, DoneIs
<1>4. DeviceShaped'
  BY <1>1, <1>d, <1>f, <1>r, DeviceGoesOn
<1>5. Placed'
  BY <1>1, <1>2, <1>3, <1>4, <1>r, EndsPlaced
<1>6. CallSound'
  BY <1>1, <1>d, CallEnds
<1>7. QED
  BY <1>1, <1>f, <1>3, <1>5, <1>6

\* What was dropped in a recording that could not wait idle is given up.
LEMMA SubmitFailsBadlyPlaced ==
  ASSUME OwnersInv, SubmitFailsBadly
  PROVE  /\ Placed' /\ CallSound' /\ frames'.running = {}
         /\ recording' = Ended /\ UsesGoOn /\ Freed(frames') = Freed(frames)
<1>p. HandlesPlaced /\ OwnerShaped /\ SerialsRise /\ DeviceShaped
  BY DEF OwnersInv, Placed
<1>1. /\ CanPrepare(frames) /\ recording' = Ended /\ recording.active /\ sweep.op = "none"
      /\ frames' = IdledBadly(Refused(frames))
      /\ givenUp' = givenUp \cup {recording.serial}
      /\ UNCHANGED <<heaps, storage, tokens, nextHandle, nextNative, retired>>
      /\ UNCHANGED <<sweep, copies, done, uses>>
  BY DEF SubmitFailsBadly, owner
<1>f. FramesGoOn(Freed(frames)) /\ UsesGoOn /\ frames'.running = {}
  BY <1>1, FramesWaited
<1>r. /\ recording' \in RecordingType /\ ~recording'.active
      /\ recording'.serial = recording.serial /\ recording'.drawn = {}
      /\ recording'.imported = recording.imported
  BY <1>1, EndedIs
<1>2. LastFrame(frames') = frames.last /\ LastFrame(frames) = frames.last /\ frames.last \in Nat
  BY <1>f, BooksGoOn, LastFrameIs
<1>3. FramesBooked' /\ Freed(frames') = Freed(frames)
  BY <1>f, BooksGoOn
<1>d. done' \in done..Len(copies) /\ done \in 0..done
  BY <1>1, DoneIs
<1>4. DeviceShaped'
  BY <1>1, <1>d, <1>f, <1>r, DeviceGoesOn
<1>5. OwnerShaped'
  BY <1>1, <1>p DEF OwnerShaped, RetiredType, NativeRecord, RangeRecord, HeapRecord, Heaps,
     Handles
<1>6. HandlesPlaced'
  <2>1. Held' = Held
    BY <1>1 DEF Held
  <2>2. \A x \in retired.ranges : x.serial # 0 => x.serial \in givenUp'
    BY <1>1, <1>p DEF HandlesPlaced
  <2>3. QED
    BY <2>1, <2>2, <1>1, <1>2, <1>p DEF HandlesPlaced, Heaps, Handles
<1>7. SerialsRise'
  <2>1. recording.serial \in Nat /\ recording.serial <= recording.serial
    BY <1>p DEF DeviceShaped, RecordingType
  <2>2. QED
    BY <2>1, <1>1, <1>r, <1>p DEF SerialsRise
<1>8. NativesPlaced'
  BY <1>1, <1>3, NativesStay DEF OwnersInv, Placed
<1>9. HeapsOwned'
  BY <1>1, HeapsStay DEF OwnersInv, Placed
<1>10. RecordingSound'
  BY <1>1, <1>r DEF OwnersInv, Placed, RecordingSound, Heaps
<1>11. CallSound'
  BY <1>1, <1>d DEF OwnersInv, CallSound, Heaps
<1>12. QED
  BY <1>1, <1>f, <1>3, <1>4, <1>5, <1>6, <1>7, <1>8, <1>9, <1>10, <1>11 DEF Placed

LEMMA SubmitIs ==
  ASSUME OwnersInv, Submit
  PROVE  LET v == frames.next
         IN /\ v \in Values /\ recording' = Ended /\ recording.active
            /\ uses' = [uses EXCEPT ![v] = FrameOf] /\ uses'[v] = FrameOf
            /\ UsesShaped'
            /\ \A w \in frames.running : w # v /\ w \in Values /\ uses'[w] = uses[w]
            /\ frames'.running = frames.running \cup {v}
            /\ frames'.last = v /\ LastFrame(frames') = v /\ LastFrame(frames) < v
            /\ frames'.backend = "vulkan"
            /\ FramesBooked' /\ Freed(frames') = Freed(frames)
            /\ retired' = Finalized(v)
            /\ sweep' = [op |-> "return", heap |-> Index, arg |-> 0, seen |-> done]
            /\ UNCHANGED <<heaps, storage, tokens, nextHandle, nextNative, copies, done, givenUp>>
<1> DEFINE v == frames.next
           used == {storage[d.heap].native : d \in recording.drawn}
           u1 == [ReadNatives EXCEPT ![v] = used]
           s == Submitted(frames)
<1>1. /\ recording.active /\ v \in Values /\ CanPrepare(frames) /\ recording' = Ended
      /\ uses' = [uses EXCEPT ![v] = FrameOf] /\ retired' = Finalized(v)
      /\ frames' \in Polled(s)
      /\ sweep' = [op |-> "return", heap |-> Index, arg |-> 0, seen |-> done]
      /\ UNCHANGED <<heaps, storage, tokens, nextHandle, nextNative, copies, done, givenUp>>
  BY DEF Submit, Idle
<1>p. /\ UsesShaped /\ recording \in RecordingType
      /\ storage \in [Heaps -> [native : Nat, ready : Nat]]
      /\ RecordingSound /\ NativesPlaced
      /\ Books(frames, ReadNatives, Freed(frames)) /\ frames.backend = "vulkan"
  BY DEF OwnersInv, Placed, OwnerShaped, DeviceShaped, FramesBooked
<1>2. \A d \in recording.drawn :
        /\ d \in DrawRecord /\ d.heap \in Heaps /\ recording.imported[d.heap].is
        /\ storage[d.heap].native # 0 /\ recording.imported[d.heap] \in ImportRecord
  BY <1>p DEF RecordingSound, RecordingType, DrawRecord
<1>3. used \cap Freed(frames) = {}
  <2>1. \A d \in recording.drawn : storage[d.heap].native \in Stored
    BY <1>2 DEF Stored
  <2>2. QED
    BY <2>1, <1>p DEF NativesPlaced
<1>4. FrameOf.reads = {[handle |-> d.handle, native |-> storage[d.heap].native, at |-> d.at,
               size |-> d.size, upload |-> d.upload,
               mark |-> recording.imported[d.heap].mark] : d \in recording.drawn}
  BY DEF FrameOf
<1>5. FrameOf.reads \subseteq ReadRecord
  <2>1. \A d \in recording.drawn :
          [handle |-> d.handle, native |-> storage[d.heap].native, at |-> d.at,
           size |-> d.size, upload |-> d.upload,
           mark |-> recording.imported[d.heap].mark] \in ReadRecord
    BY <1>2, <1>p DEF ReadRecord, DrawRecord, ImportRecord
  <2>2. QED
    BY <2>1, <1>4
<1>6. {x.native : x \in FrameOf.reads} = used
  <2>1. \A x \in FrameOf.reads : \E d \in recording.drawn : x.native = storage[d.heap].native
    BY <1>4
  <2>2. \A d \in recording.drawn : \E x \in FrameOf.reads : x.native = storage[d.heap].native
    BY <1>4
  <2>3. QED
    BY <2>1, <2>2
<1>7. /\ uses'[v] = FrameOf /\ \A w \in Values : w # v => uses'[w] = uses[w]
      /\ UsesShaped'
  <2> DEFINE V == Values
  <2>1. uses = [w \in V |-> uses[w]] /\ v \in V /\ \A w \in V : uses[w].reads \subseteq ReadRecord
    BY <1>1, <1>p DEF UsesShaped
  <2> HIDE DEF V, v
  <2>2. /\ uses' = [w \in V |-> uses'[w]] /\ uses'[v] = FrameOf
        /\ \A w \in V : w # v => uses'[w] = uses[w]
    BY <2>1, <1>1
  <2>3. \A w \in V : uses'[w].reads \subseteq ReadRecord
    BY <2>1, <2>2, <1>5
  <2>4. QED
    BY <2>2, <2>3 DEF V, UsesShaped, Values, ReadRecord, Handles
<1>8. ReadNatives' = u1
  <2> DEFINE V == Values
  <2>1. /\ ReadNatives' = [w \in V |-> {x.native : x \in uses'[w].reads}]
        /\ ReadNatives = [w \in V |-> {x.native : x \in uses[w].reads}]
    BY DEF ReadNatives, Values
  <2>2. \A w \in V : w # v => uses'[w] = uses[w]
    BY <1>7
  <2>3. uses'[v] = FrameOf /\ v \in V
    BY <1>7, <1>1
  <2> HIDE DEF V, v, used
  <2>4. \A w \in V : {x.native : x \in uses'[w].reads} =
                       IF w = v THEN used ELSE {x.native : x \in uses[w].reads}
    BY <2>2, <2>3, <1>6
  <2>5. QED
    BY <2>1, <2>4
<1>9. v \in DOMAIN ReadNatives
  BY <1>1, ValuesAre
<1> HIDE DEF used
<1>10. /\ Books(s, u1, Freed(frames)) /\ s.backend = "vulkan" /\ s.last = v
       /\ s.running = frames.running \cup {v}
  BY <1>p, <1>1, <1>3, <1>9, SubmittedKeeps, SubmittedIs
<1> HIDE DEF s, u1
<1>11. /\ Books(frames', u1, Freed(frames)) /\ frames'.running = frames.running \cup {v}
       /\ frames'.last = v /\ frames'.backend = "vulkan"
  BY <1>1, <1>10, PollKeeps, PolledIs
<1>12. Freed(frames') = Freed(frames)
  BY <1>11, FreedIs
<1>13. FramesBooked'
  BY <1>11, <1>12, <1>8 DEF FramesBooked
<1>14. /\ LastFrame(frames') = v /\ LastFrame(frames) < v
       /\ \A w \in frames.running : w # v /\ w \in Values
  <2>1. LastFrame(frames) < v /\ \A w \in frames.running : w \in Values /\ w <= frames.last
    BY LastFrameIs
  <2>2. frames.last \in Nat /\ v \in Nat /\ frames.last < v
    BY LastFrameIs
  <2>3. \A w \in frames.running : w # v
    BY <2>1, <2>2, ValuesAre
  <2>4. LastFrame(frames') = v
    BY <1>11 DEF LastFrame
  <2>5. QED
    BY <2>1, <2>3, <2>4
<1>15. QED
  BY <1>1, <1>7, <1>11, <1>12, <1>13, <1>14

LEMMA SubmitPlaced == ASSUME OwnersInv, Submit PROVE Placed' /\ CallSound'
<1> DEFINE v == frames.next
<1>1. /\ v \in Values /\ recording' = Ended
      /\ UsesShaped' /\ frames'.backend = "vulkan"
      /\ LastFrame(frames') = v /\ LastFrame(frames) < v
      /\ FramesBooked' /\ Freed(frames') = Freed(frames)
      /\ retired' = Finalized(v)
      /\ sweep' = [op |-> "return", heap |-> Index, arg |-> 0, seen |-> done]
      /\ UNCHANGED <<heaps, storage, tokens, nextHandle, nextNative, copies, done, givenUp>>
  BY SubmitIs
<1>2. v \in Nat /\ LastFrame(frames) \in Nat
  BY LastFrameIs
<1> HIDE DEF v
<1>3. LastFrame(frames) <= v /\ v <= v
  BY <1>1, <1>2
<1>r. /\ recording' \in RecordingType /\ ~recording'.active
      /\ recording'.serial = recording.serial /\ recording'.drawn = {}
      /\ recording'.imported = recording.imported
  BY <1>1, EndedIs
<1>4. DeviceShaped'
  <2>1. copies' \in Seq(CopyRecord) /\ done' \in 0..Len(copies')
    BY <1>1 DEF OwnersInv, Placed, DeviceShaped
  <2>2. QED
    BY <2>1, <1>1, <1>r DEF DeviceShaped, RecordingType, DrawRecord, Handles, Heaps
<1>5. Placed'
  BY <1>1, <1>2, <1>3, <1>4, <1>r, EndsPlaced
<1>6. CallSound'
  BY <1>1, CallEnds, DoneIs
<1>7. QED
  BY <1>5, <1>6

-----------------------------------------------------------------------------
\* The invariant of the owner's books.

LEMMA OwnersInitially == Init => OwnersInv
<1>1. SUFFICES ASSUME Init PROVE OwnersInv
  OBVIOUS
<1>2. StateInv
  BY <1>1, Initially
<1>3. frames = NewFrames("vulkan") /\ done = 0 /\ copies = <<>> /\ sweep = Idle
  BY <1>1 DEF Init
<1>4. Books(frames, ReadNatives, {}) /\ frames.backend = "vulkan" /\ Freed(frames) = {}
  <2>1. "vulkan" \in Backends /\ frames.backend = "vulkan"
    BY <1>3 DEF Backends, NewFrames
  <2>2. Books(frames, ReadNatives, {})
    BY <1>3, <2>1, NewFramesBooks, ValuesAre
  <2>3. QED
    BY <2>1, <2>2, FreedIs
<1>5. FramesBooked
  BY <1>4 DEF FramesBooked
<1>6. OwnerShaped
  <2>1. storage \in [Heaps -> [native : Nat, ready : Nat]]
    BY <1>1 DEF Init, NoStorage
  <2>2. retired \in RetiredType
    BY <1>1 DEF Init, RetiredType
  <2>3. QED
    BY <1>1, <2>1, <2>2 DEF Init, OwnerShaped
<1>7. DeviceShaped
  <2>1. /\ recording.active = FALSE /\ recording.serial = 0 /\ recording.drawn = {}
        /\ recording.imported = [n \in Heaps |-> NotImported]
        /\ recording = [active |-> recording.active, serial |-> recording.serial,
                        imported |-> recording.imported, drawn |-> recording.drawn]
    BY <1>1 DEF Init
  <2>2. recording.imported \in [Heaps -> ImportRecord]
    <3>1. NotImported \in ImportRecord
      BY DEF NotImported, ImportRecord
    <3>2. QED
      BY <2>1, <3>1
  <2>3. recording \in RecordingType
    <3>1. /\ recording.active \in BOOLEAN /\ recording.serial \in Nat
          /\ recording.drawn \in SUBSET DrawRecord
      <4>1. recording.active \in BOOLEAN
        BY <2>1, Zenon
      <4>2. recording.serial \in Nat
        BY <2>1
      <4>3. recording.drawn \in SUBSET DrawRecord
        BY <2>1, Zenon
      <4>4. QED
        BY <4>1, <4>2, <4>3
    <3>2. QED
      BY ONLY <2>1, <2>2, <3>1 DEF RecordingType
  <2>4. UsesShaped
    BY <1>1 DEF Init, UsesShaped, NoFrame
  <2>5. copies \in Seq(CopyRecord) /\ done \in 0..Len(copies)
    BY <1>3
  <2>6. QED
    BY <2>3, <2>4, <2>5, <1>4 DEF DeviceShaped
<1>8. \A n \in Heaps : heaps[n] = NoHeap /\ heaps[n].live = {} /\ ~Exists(heaps[n])
                       /\ storage[n].native = 0
  BY <1>1, NoHeapEmpty DEF Init, NoStorage, Exists
<1>9. retired.natives = {} /\ retired.ranges = {} /\ retired.heaps = {} /\ nextNative = 1
  BY <1>1 DEF Init
<1>10. HandlesPlaced
  <2>1. Held = {}
    BY <1>1 DEF Init, Held
  <2>2. QED
    BY <1>8, <1>9, <2>1 DEF HandlesPlaced
<1>11. SerialsRise
  BY <1>1 DEF Init, SerialsRise
<1>12. NativesPlaced
  <2>1. Stored = {} /\ Outgrown = {} /\ Orphaned = {}
    BY <1>8, <1>9 DEF Stored, Outgrown, Orphaned
  <2>2. 1..(nextNative - 1) = {}
    BY <1>9
  <2> HIDE DEF Stored, Outgrown, Orphaned
  <2>3. QED
    BY <2>1, <2>2, <1>4, <1>8, <1>9 DEF NativesPlaced
<1>13. HeapsOwned
  BY <1>8, <1>9 DEF HeapsOwned
<1>14. RecordingSound
  BY <1>1 DEF Init, RecordingSound, NotImported
<1>15. CallSound
  <2>1. sweep = [op |-> "none", heap |-> Index, arg |-> 0, seen |-> 0] /\ Index \in Heaps
    BY <1>3 DEF Idle, Heaps
  <2>2. sweep \in [op : {"none", "create", "drop", "grow", "remove", "return"},
                   heap : Heaps, arg : Nat, seen : 0..done] /\ sweep.op = "none"
    BY <2>1, <1>3
  <2>3. QED
    BY <2>2 DEF CallSound
<1>16. QED
  BY <1>2, <1>5, <1>6, <1>7, <1>10, <1>11, <1>12, <1>13, <1>14, <1>15 DEF OwnersInv, Placed

LEMMA OwnersStep == ASSUME OwnersInv, [Next]_vars PROVE OwnersInv'
<1>0. StateInv'
  BY StepKeeps DEF OwnersInv
<1>q. ASSUME Quiet, CallSound' PROVE Placed' /\ CallSound'
  BY <1>q, QuietKeeps
<1>1. CASE UNCHANGED vars
  <2>1. FramesGoOn(Freed(frames)) /\ UsesGoOn
    BY <1>1, FramesUnchanged DEF vars
  <2>2. Quiet
    BY <1>1, <2>1, DoneIs DEF vars, owner, Quiet
  <2>3. CallSound'
    BY <1>1, CallStays, DoneIs DEF vars, owner
  <2>4. QED
    BY <1>0, <2>2, <2>3, QuietKeeps DEF OwnersInv
<1>2. CASE Next
  <2>1. Placed' /\ CallSound'
    <3>1. CASE Reclaim
      BY <3>1, SweptPlaced
    <3>2. CASE \/ Return \/ \E n \in Names : CreateHeap(n) \/ DropHeap(n)
               \/ \E n \in Heaps : \E count \in Counts[n] : UploadGrowing(n, count)
               \/ \E handle \in Handles : Remove(handle)
               \/ CopyCompletes \/ FrameEnds \/ Poll
      BY <3>2, <1>q, QuietSteps
    <3>3. CASE CreateBody \/ DropBody
      BY <3>3, BodiesPlaced
    <3>4. CASE \/ \E n \in Heaps : \E count \in Counts[n] : Upload(n, count)
               \/ \E count \in Counts[Index] : UploadFirstIndex(count)
               \/ GrowBody
      BY <3>4, UploadsPlaced
    <3>5. CASE \E handle \in Handles : Draw(handle)
      BY <3>5, DrawPlaced
    <3>6. CASE RemoveBody
      BY <3>6, RemovePlaced
    <3>7. CASE Begin
      BY <3>7, BeginPlaced
    <3>8. CASE Submit
      BY <3>8, SubmitPlaced
    <3>9. CASE Abort
      BY <3>9, AbortPlaced
    <3>10. CASE SubmitFails \/ SubmitFailsBadly
      BY <3>10, SubmitFailsPlaced, SubmitFailsBadlyPlaced
    <3>11. QED
      BY <1>2, <3>1, <3>2, <3>3, <3>4, <3>5, <3>6, <3>7, <3>8, <3>9, <3>10 DEF Next
  <2>2. QED
    BY <1>0, <2>1 DEF OwnersInv
<1>3. QED
  BY <1>1, <1>2

\* A set whose elements are equal.
LEMMA SmallSet ==
  ASSUME NEW S, \A i, j \in S : i = j
  PROVE  Cardinality(S) = IF S = {} THEN 0 ELSE 1
<1>1. CASE S = {}
  BY <1>1, FS_EmptySet
<1>2. ASSUME NEW x \in S PROVE Cardinality(S) = IF S = {} THEN 0 ELSE 1
  <2>1. S = {x}
    BY <1>2
  <2>2. QED
    BY <2>1, FS_Singleton
<1>3. QED
  BY <1>1, <1>2

LEMMA BuffersAreKept == ASSUME OwnersInv PROVE BuffersKept
<1>1. SUFFICES ASSUME NEW b \in 1..(nextNative - 1)
               PROVE  Cardinality({n \in Heaps : storage[n].native = b})
                        + Cardinality({x \in retired.natives : x.native = b})
                        + Cardinality({x \in retired.heaps : x.native = b})
                        + Cardinality({d \in frames.deferred : d.item = b})
                        + Cardinality({b} \cap frames.destroyed) = 1
  BY DEF BuffersKept
<1> DEFINE s == {n \in Heaps : storage[n].native = b}
           o == {x \in retired.natives : x.native = b}
           p == {x \in retired.heaps : x.native = b}
           d == {i \in frames.deferred : i.item = b}
           z == {b} \cap frames.destroyed
<1>2. b # 0
  BY DEF OwnersInv, Placed, OwnerShaped
<1>3. NativesPlaced
  BY DEF OwnersInv, Placed
<1>4. /\ \A i, j \in frames.deferred : i.item = j.item => i = j
      /\ \A i \in frames.deferred : i.item \notin frames.destroyed
  BY DEF OwnersInv, Placed, FramesBooked, Books, Deferred
<1>5. b \in Stored \cup Outgrown \cup Orphaned \cup Freed(frames)
  BY <1>3 DEF NativesPlaced
<1>6. /\ s # {} <=> b \in Stored
      /\ o # {} <=> b \in Outgrown
      /\ p # {} <=> b \in Orphaned
      /\ d # {} \/ z # {} <=> b \in Freed(frames)
  BY <1>2 DEF Stored, Outgrown, Orphaned, Freed
<1>7. d = {} \/ z = {}
  BY <1>4
<1>8. \A S \in {s, o, p, d, z} : Cardinality(S) = IF S = {} THEN 0 ELSE 1
  <2>1. \A i, j \in s : i = j
    BY <1>2, <1>3 DEF NativesPlaced
  <2>2. (\A i, j \in o : i = j) /\ (\A i, j \in p : i = j)
    BY <1>3 DEF NativesPlaced
  <2>3. (\A i, j \in d : i = j) /\ (\A i, j \in z : i = j)
    BY <1>4
  <2> HIDE DEF s, o, p, d, z
  <2>4. QED
    BY <2>1, <2>2, <2>3, SmallSet
<1>9. \/ s # {} /\ o \cup p \cup d \cup z = {}
      \/ o # {} /\ s \cup p \cup d \cup z = {}
      \/ p # {} /\ s \cup o \cup d \cup z = {}
      \/ d # {} /\ s \cup o \cup p \cup z = {}
      \/ z # {} /\ s \cup o \cup p \cup d = {}
  <2>1. /\ ~(b \in Stored /\ (b \in Outgrown \/ b \in Orphaned \/ b \in Freed(frames)))
        /\ ~(b \in Outgrown /\ (b \in Orphaned \/ b \in Freed(frames)))
        /\ ~(b \in Orphaned /\ b \in Freed(frames))
    BY <1>3 DEF NativesPlaced
  <2> HIDE DEF s, o, p, d, z
  <2>2. QED
    BY <2>1, <1>5, <1>6, <1>7
<1> HIDE DEF s, o, p, d, z
<1>10. /\ Cardinality(s) = IF s = {} THEN 0 ELSE 1
       /\ Cardinality(o) = IF o = {} THEN 0 ELSE 1
       /\ Cardinality(p) = IF p = {} THEN 0 ELSE 1
       /\ Cardinality(d) = IF d = {} THEN 0 ELSE 1
       /\ Cardinality(z) = IF z = {} THEN 0 ELSE 1
  BY <1>8
<1>11. Cardinality(s) + Cardinality(o) + Cardinality(p) + Cardinality(d) + Cardinality(z) = 1
  BY <1>9, <1>10
<1>12. QED
  BY <1>11 DEF s, o, p, d, z

LEMMA RangesAreKept == ASSUME OwnersInv PROVE RangesKept
<1>1. HandlesPlaced
  BY DEF OwnersInv, Placed
<1>2. ASSUME NEW n \in Heaps, NEW r \in heaps[n].live, tokens[r.handle] = 0
      PROVE  Cardinality({x \in retired.ranges : x.handle = r.handle}) = 1
  <2>1. PICK x \in retired.ranges : x.handle = r.handle
    BY <1>1, <1>2 DEF HandlesPlaced
  <2>2. {y \in retired.ranges : y.handle = r.handle} = {x}
    BY <2>1, <1>1 DEF HandlesPlaced
  <2>3. QED
    BY <2>2, FS_Singleton
<1>3. QED
  BY <1>1, <1>2 DEF HandlesPlaced, RangesKept

\* For any heaps, capacities, numbers of slots and bounds, what was dropped returns:
\* every buffer ever made is in exactly one place (a heap, a retired list, the
\* backend's deferred list, or destroyed), every range that is neither held nor free
\* is retired exactly once and waits for a copy and a frame that exist, and a heap
\* has bytes exactly while its buffer is there or waits to be freed
\* (reclaim_retired_geometry and everything that retires).
THEOREM RetiredAlwaysReturns == Spec => []RetiredWillReturn
<1>1. ASSUME OwnersInv PROVE RetiredWillReturn
  BY <1>1, BuffersAreKept, RangesAreKept DEF RetiredWillReturn, OwnersInv, Placed, HeapsOwned
<1>2. OwnersInv /\ [Next]_vars => OwnersInv'
  BY OwnersStep
<1>3. OwnersInv => RetiredWillReturn
  BY <1>1
<1>4. QED
  BY OwnersInitially, <1>2, <1>3, PTL DEF Spec

-----------------------------------------------------------------------------
\* What is read, written and waited for.

\* The buffer of a heap, also of one that was dropped.
IsNativeOf(n, b) ==
  \/ b # 0 /\ storage[n].native = b
  \/ \E x \in retired.heaps : x.name = n /\ x.native = b
IsLive(n, h) == \E r \in heaps[n].live : r.handle = h

\* A copy under way is waited for by who retires what it reads and writes.
CopiesKept ==
  \A c \in (done + 1)..Len(copies) :
    /\ copies[c].src # 0 =>
         \E x \in retired.natives : x.native = copies[c].src /\ c <= x.transfer
    /\ copies[c].handle # 0 =>
         /\ \/ \E x \in retired.natives : x.native = copies[c].dst /\ c <= x.transfer
            \/ \E n \in Heaps : IsLive(n, copies[c].handle) /\ IsNativeOf(n, copies[c].dst)
         /\ \/ copies[c].handle \in Handles /\ tokens[copies[c].handle] = c
            \/ \E x \in retired.ranges : x.handle = copies[c].handle /\ x.transfer = c

Span(x) == [handle |-> x.handle, at |-> x.at, size |-> x.size]
\* What a frame or the recording reads is live, unless its buffer was outgrown, and a
\* range that was dropped waits for the frames that read it.
ReadsKept ==
  /\ \A v \in frames.running : \A x \in uses[v].reads :
       /\ x.native \in 1..(nextNative - 1)
       /\ \A n \in Heaps : IsNativeOf(n, x.native) => Span(x) \in heaps[n].live
       /\ \A y \in retired.ranges : y.handle = x.handle /\ y.serial = 0 => v <= y.graphics
  /\ \A d \in recording.drawn :
       /\ Span(d) \in heaps[d.heap].live
       /\ \A y \in retired.ranges : y.handle = d.handle => y.serial = recording.serial

\* The tokens of a heap's allocations are not after the latest one of the heap, and
\* one that a recording has imported covers them or they came later.
UploadsCovered ==
  /\ \A n \in Heaps : storage[n].native # 0 =>
       /\ storage[n].ready <= Len(copies)
       /\ \A r \in heaps[n].live : tokens[r.handle] <= storage[n].ready
  /\ \A n \in Heaps :
       LET i == recording.imported[n]
       IN i.is => /\ i.ready <= Len(copies) /\ i.mark <= Len(copies)
                  /\ \A r \in heaps[n].live :
                       tokens[r.handle] <= i.ready \/ tokens[r.handle] > i.mark
  /\ \A n \in Heaps : ~recording.imported[n].is => recording.imported[n] = NotImported
  /\ \A d \in recording.drawn :
       LET i == recording.imported[d.heap] IN d.upload <= i.ready \/ d.upload > i.mark

-----------------------------------------------------------------------------
\* What the owner's steps change.

\* What a sweep frees: things whose copies and frames have ended.
LEMMA ReclaimChanges ==
  ASSUME OwnersInv, Reclaim
  PROVE  /\ UNCHANGED <<storage, tokens, nextHandle, nextNative, sweep, recording, copies,
                        done, uses, givenUp>>
         /\ frames'.running \subseteq frames.running
         /\ retired'.natives \subseteq retired.natives
         /\ retired'.ranges \subseteq retired.ranges
         /\ retired'.heaps \subseteq retired.heaps
         /\ \A x \in retired.natives \ retired'.natives : x.transfer <= done
         /\ \A x \in retired.ranges \ retired'.ranges :
              /\ x.serial = 0 /\ x.transfer <= done
              /\ \A v \in frames.running : x.graphics < v
         /\ \A n \in Heaps :
              /\ heaps'[n].live \subseteq heaps[n].live
              /\ \A r \in heaps[n].live \ heaps'[n].live :
                   \E x \in retired.ranges \ retired'.ranges : x.handle = r.handle
         /\ \A x \in retired.heaps \ retired'.heaps : heaps[x.name].live = {}
<1>s. sweep.seen \in Nat /\ done \in Nat /\ sweep.seen <= done
  <2>1. sweep.seen \in 0..done
    BY DEF OwnersInv, CallSound
  <2>2. QED
    BY <2>1, DoneIs
<1>f. /\ frames.completed \in Nat
      /\ \A v \in frames.running : v \in Nat /\ frames.completed < v
  BY LastFrameIs, ValuesAre
<1>1. ASSUME NEW x \in retired.natives, ReclaimNative(x)
      PROVE  /\ retired'.natives = retired.natives \ {x} /\ retired'.ranges = retired.ranges
             /\ retired'.heaps = retired.heaps /\ x.transfer <= done
             /\ UNCHANGED <<heaps, storage, tokens, nextHandle, nextNative, sweep, recording,
                            copies, done, uses, givenUp>>
             /\ frames'.running = frames.running
  <2>1. x \in NativeRecord
    BY RetiredIs
  <2>2. x.transfer <= done
    BY <1>1, <1>s, <2>1 DEF ReclaimNative, NativeReady, NativeRecord
  <2>3. /\ retired'.natives = retired.natives \ {x} /\ retired'.ranges = retired.ranges
        /\ retired'.heaps = retired.heaps
    BY <1>1, RetiredIs DEF ReclaimNative
  <2>4. frames'.running = frames.running
    BY <1>1, DeferIs DEF ReclaimNative, OwnersInv, Placed, FramesBooked
  <2>5. QED
    BY <1>1, <2>2, <2>3, <2>4 DEF ReclaimNative
<1>2. ASSUME NEW x \in retired.ranges, ReclaimRange(x)
      PROVE  /\ x.serial = 0 /\ x.transfer <= done
             /\ \A v \in frames.running : x.graphics < v
             /\ UNCHANGED <<storage, tokens, nextHandle, nextNative, sweep, recording,
                            frames, copies, done, uses, givenUp>>
  <2>1. x \in RangeRecord
    BY RetiredIs
  <2>2. x.serial = 0 /\ x.transfer <= sweep.seen /\ x.graphics <= frames.completed
    BY <1>2 DEF ReclaimRange, RangeReady
  <2>3. x.transfer \in Nat /\ x.graphics \in Nat
    BY <2>1 DEF RangeRecord
  <2>4. x.transfer <= done /\ \A v \in frames.running : x.graphics < v
    BY <2>2, <2>3, <1>s, <1>f
  <2>5. QED
    BY <2>2, <2>4, <1>2 DEF ReclaimRange
<1>3. ASSUME NEW x \in retired.heaps, ReclaimHeap(x)
      PROVE  /\ retired'.natives = retired.natives /\ retired'.ranges = retired.ranges
             /\ retired'.heaps = retired.heaps \ {x} /\ heaps[x.name].live = {}
             /\ UNCHANGED <<storage, tokens, nextHandle, nextNative, sweep, recording,
                            copies, done, uses, givenUp>>
             /\ frames'.running = frames.running
             /\ \A n \in Heaps : heaps'[n].live = heaps[n].live
  <2>1. /\ retired'.natives = retired.natives /\ retired'.ranges = retired.ranges
        /\ retired'.heaps = retired.heaps \ {x}
    BY <1>3, RetiredIs DEF ReclaimHeap
  <2>2. frames'.running = frames.running
    BY <1>3, DeferIs DEF ReclaimHeap, OwnersInv, Placed, FramesBooked
  <2>3. x.name \in Heaps
    BY RetiredIs DEF HeapRecord, Heaps
  <2>4. heaps'[x.name] = NoHeap /\ \A m \in Heaps : m # x.name => heaps'[m] = heaps[m]
    BY <1>3, <2>3, OneHeapIs DEF ReclaimHeap
  <2>5. \A n \in Heaps : heaps'[n].live = heaps[n].live
    BY <1>3, <2>4, NoHeapEmpty DEF ReclaimHeap
  <2>6. QED
    BY <1>3, <2>1, <2>2, <2>5 DEF ReclaimHeap
<1>4. CASE \E x \in retired.natives : ReclaimNative(x)
  BY <1>4, <1>1
<1>5. ASSUME NEW x \in retired.ranges, ReclaimRange(x)
      PROVE  /\ retired'.natives = retired.natives /\ retired'.heaps = retired.heaps
             /\ retired'.ranges = retired.ranges \ {x}
             /\ \A n \in Heaps :
                  /\ heaps'[n].live \subseteq heaps[n].live
                  /\ \A r \in heaps[n].live \ heaps'[n].live : r.handle = x.handle
  <2>1. /\ retired'.natives = retired.natives /\ retired'.heaps = retired.heaps
        /\ retired'.ranges = retired.ranges \ {x}
        /\ \E n \in Heaps : \E r \in heaps[n].live :
              /\ r.handle = x.handle
              /\ heaps'[n].live = heaps[n].live \ {r}
              /\ \A m \in Heaps \ {n} : heaps'[m] = heaps[m]
    BY <1>5, RangeReclaimed
  <2>2. QED
    BY <2>1
<1>6. CASE \E x \in retired.ranges : ReclaimRange(x)
  <2>1. PICK x \in retired.ranges : ReclaimRange(x)
    BY <1>6
  <2>2. \A n \in Heaps : \A r \in heaps[n].live \ heaps'[n].live :
          \E y \in retired.ranges \ retired'.ranges : y.handle = r.handle
    BY <2>1, <1>5
  <2>3. QED
    BY <2>1, <2>2, <1>2, <1>5
<1>7. CASE \E x \in retired.heaps : ReclaimHeap(x)
  BY <1>7, <1>3
<1>8. QED
  BY <1>4, <1>6, <1>7 DEF Reclaim

\* What making and dropping a heap changes.
LEMMA BodiesChange ==
  ASSUME OwnersInv, CreateBody \/ DropBody
  PROVE  /\ UNCHANGED <<tokens, nextHandle, recording, copies, done, uses, givenUp>>
         /\ retired'.natives = retired.natives /\ retired'.ranges = retired.ranges
         /\ frames'.running \subseteq frames.running
         /\ nextNative' \in {nextNative, nextNative + 1}
         /\ \A n \in Heaps :
              /\ heaps'[n].live = heaps[n].live
              /\ \A b : b # nextNative /\ IsNativeOf(n, b)' => IsNativeOf(n, b)
              /\ heaps[n].live # {} => \A b : IsNativeOf(n, b) => IsNativeOf(n, b)'
              /\ \/ storage'[n] = storage[n] \/ storage'[n].native = 0
                 \/ heaps[n].live = {} /\ storage'[n].ready = 0
              /\ recording.imported[n].is => storage'[n] = storage[n]
<1>u. UNCHANGED <<recording, copies, done, uses, givenUp>>
  BY DEF CreateBody, DropBody
<1>1. CASE UNCHANGED <<owner, frames>>
  <2>1. UNCHANGED <<heaps, storage, tokens, nextHandle, nextNative, retired, frames>>
    BY <1>1 DEF owner
  <2>2. \A n \in Heaps : \A b : IsNativeOf(n, b)' <=> IsNativeOf(n, b)
    BY <2>1 DEF IsNativeOf
  <2>3. QED
    BY <2>1, <2>2, <1>u
<1> DEFINE n == sweep.heap
<1>2. CASE CreateBody /\ ~UNCHANGED <<owner, frames>>
  <2>1. n \in Heaps /\ storage[n].native = 0
    BY <1>2 DEF OwnersInv, CallSound, CreateBody, Heaps
  <2>2. /\ UNCHANGED <<tokens, nextHandle, retired, frames>>
        /\ ~Exists(heaps[n]) /\ heaps' = [heaps EXCEPT ![n] = NewHeap(Capacity)]
        /\ storage' = [storage EXCEPT ![n] = [native |-> nextNative, ready |-> 0]]
        /\ nextNative' = nextNative + 1
    BY <1>2 DEF CreateBody, owner
  <2>3. /\ heaps'[n] = NewHeap(Capacity) /\ \A m \in Heaps : m # n => heaps'[m] = heaps[m]
    BY <2>1, <2>2, OneHeapIs
  <2>4. /\ storage'[n] = [native |-> nextNative, ready |-> 0]
        /\ \A m \in Heaps : m # n => storage'[m] = storage[m]
    BY <2>1, <2>2, OneStorageIs
  <2>5. heaps[n].live = {} /\ heaps'[n].live = {}
    BY <2>1, <2>2, <2>3, NoHeapEmpty DEF OwnersInv, StateInv, HeapsGood, NewHeap
  <2>6. ~recording.imported[n].is
    BY <2>1 DEF OwnersInv, Placed, RecordingSound
  <2> HIDE DEF n
  <2>7. \A m \in Heaps : \A b : b # nextNative /\ IsNativeOf(m, b)' => IsNativeOf(m, b)
    BY <2>2, <2>4 DEF IsNativeOf
  <2>8. \A m \in Heaps : \A b : m # n /\ IsNativeOf(m, b) => IsNativeOf(m, b)'
    BY <2>2, <2>4 DEF IsNativeOf
  <2>9. storage'[n].ready = 0
    BY <2>4
  <2>10. QED
    BY <2>2, <2>3, <2>4, <2>5, <2>6, <2>7, <2>8, <2>9, <1>u
<1>3. CASE DropBody /\ ~UNCHANGED <<owner, frames>>
  <2>1. n \in Heaps /\ storage[n].native # 0
    BY <1>3, DropIs
  <2>2. /\ UNCHANGED <<tokens, nextHandle, nextNative>> /\ ~recording.imported[n].is
        /\ storage' = [storage EXCEPT ![n] = NoStorage]
        /\ \/ /\ heaps[n].live = {} /\ heaps' = [heaps EXCEPT ![n] = NoHeap]
              /\ frames' = Defer(frames, storage[n].native) /\ UNCHANGED retired
           \/ /\ retired' = [retired EXCEPT !.heaps = @ \cup
                   {[name |-> n, native |-> storage[n].native]}]
              /\ UNCHANGED <<heaps, frames>>
    BY <1>3 DEF DropBody
  <2>3. /\ storage'[n] = NoStorage /\ storage'[n].native = 0
        /\ \A m \in Heaps : m # n => storage'[m] = storage[m]
    <3>1. storage'[n] = NoStorage /\ \A m \in Heaps : m # n => storage'[m] = storage[m]
      BY <2>1, <2>2, OneStorageIs
    <3>2. QED
      BY <3>1 DEF NoStorage
  <2> HIDE DEF n
  <2>4. ASSUME heaps[n].live = {}, heaps' = [heaps EXCEPT ![n] = NoHeap],
               frames' = Defer(frames, storage[n].native), UNCHANGED retired
        PROVE  /\ retired'.natives = retired.natives /\ retired'.ranges = retired.ranges
               /\ frames'.running \subseteq frames.running
               /\ \A m \in Heaps :
                    /\ heaps'[m].live = heaps[m].live
                    /\ \A b : IsNativeOf(m, b)' => IsNativeOf(m, b)
                    /\ heaps[m].live # {} => \A b : IsNativeOf(m, b) => IsNativeOf(m, b)'
    <3>1. frames'.running = frames.running
      BY <2>4, DeferIs DEF OwnersInv, Placed, FramesBooked
    <3>2. \A m \in Heaps : heaps'[m].live = heaps[m].live
      BY <2>1, <2>4, OneHeapIs, NoHeapEmpty
    <3>3. \A m \in Heaps : \A b : IsNativeOf(m, b)' => IsNativeOf(m, b)
      BY <2>3, <2>4 DEF IsNativeOf
    <3>4. \A m \in Heaps : \A b : m # n /\ IsNativeOf(m, b) => IsNativeOf(m, b)'
      BY <2>3, <2>4 DEF IsNativeOf
    <3>5. QED
      BY <2>4, <3>1, <3>2, <3>3, <3>4
  <2>5. ASSUME retired' = [retired EXCEPT !.heaps = @ \cup
                   {[name |-> n, native |-> storage[n].native]}],
               UNCHANGED <<heaps, frames>>
        PROVE  /\ retired'.natives = retired.natives /\ retired'.ranges = retired.ranges
               /\ frames'.running \subseteq frames.running
               /\ \A m \in Heaps :
                    /\ heaps'[m].live = heaps[m].live
                    /\ \A b : IsNativeOf(m, b)' => IsNativeOf(m, b)
                    /\ heaps[m].live # {} => \A b : IsNativeOf(m, b) => IsNativeOf(m, b)'
    <3> DEFINE one == [name |-> n, native |-> storage[n].native]
    <3>1. one.name = n /\ one.native = storage[n].native
      OBVIOUS
    <3> HIDE DEF one
    <3>2. /\ retired'.natives = retired.natives /\ retired'.ranges = retired.ranges
          /\ retired'.heaps = retired.heaps \cup {one}
      BY <2>5, RetiredIs DEF one
    <3>3. \A m \in Heaps : \A b : IsNativeOf(m, b)' <=> IsNativeOf(m, b)
      <4>1. SUFFICES ASSUME NEW m \in Heaps, NEW b
                     PROVE  IsNativeOf(m, b)' <=> IsNativeOf(m, b)
        OBVIOUS
      <4>2. (\E x \in retired'.heaps : x.name = m /\ x.native = b) <=>
              \/ m = n /\ b = storage[n].native
              \/ \E x \in retired.heaps : x.name = m /\ x.native = b
        BY <3>1, <3>2
      <4>3. CASE m = n
        BY <4>2, <4>3, <2>1, <2>3 DEF IsNativeOf
      <4>4. CASE m # n
        BY <4>2, <4>4, <2>3 DEF IsNativeOf
      <4>5. QED
        BY <4>3, <4>4
    <3>4. QED
      BY <3>2, <3>3, <2>5
  <2>6. QED
    BY <2>2, <2>3, <2>4, <2>5, <1>u
<1>4. QED
  BY <1>1, <1>2, <1>3

-----------------------------------------------------------------------------
\* Copies under way.

\* In a step that submits no copy, what has completed may be forgotten.
LEMMA CopiesStay ==
  ASSUME OwnersInv, CopiesKept, UNCHANGED copies, done' \in done..Len(copies),
         \A x \in retired.natives : x \in retired'.natives \/ x.transfer <= done,
         \A n \in Heaps : \A r \in heaps[n].live :
           \/ r \in heaps'[n].live
           \/ \E x \in retired.ranges : x.handle = r.handle /\ x.transfer <= done,
         \A n \in Heaps : heaps[n].live # {} =>
           \A b : IsNativeOf(n, b) => IsNativeOf(n, b)',
         \A h \in Held :
           \/ tokens'[h] = tokens[h]
           \/ \E x \in retired'.ranges : x.handle = h /\ x.transfer = tokens[h],
         \A x \in retired.ranges :
           \/ x.transfer <= done
           \/ \E y \in retired'.ranges : y.handle = x.handle /\ y.transfer = x.transfer
  PROVE  CopiesKept'
<1>d. done \in Nat /\ Len(copies) \in Nat /\ done' \in Nat /\ done <= done'
  BY DoneIs
<1>p. HandlesPlaced
  BY DEF OwnersInv, Placed
<1>1. SUFFICES ASSUME NEW c \in (done' + 1)..Len(copies)
               PROVE  /\ copies[c].src # 0 =>
                           \E x \in retired'.natives :
                             x.native = copies[c].src /\ c <= x.transfer
                      /\ copies[c].handle # 0 =>
                           /\ \/ \E x \in retired'.natives :
                                   x.native = copies[c].dst /\ c <= x.transfer
                              \/ \E n \in Heaps : IsLive(n, copies[c].handle)'
                                                  /\ IsNativeOf(n, copies[c].dst)'
                           /\ \/ copies[c].handle \in Handles /\ tokens'[copies[c].handle] = c
                              \/ \E x \in retired'.ranges :
                                   x.handle = copies[c].handle /\ x.transfer = c
  BY DEF CopiesKept, IsLive, IsNativeOf, Heaps, Handles
<1>2. c \in (done + 1)..Len(copies) /\ c \in Nat /\ ~(c <= done) /\ c # 0
  BY <1>d
<1>3. \A t \in Nat : c <= t => ~(t <= done)
  BY <1>2, <1>d
<1>4. \A x \in retired.natives : x.transfer \in Nat
  BY RetiredIs DEF NativeRecord
<1>5. \A b : (\E x \in retired.natives : x.native = b /\ c <= x.transfer)
               => \E x \in retired'.natives : x.native = b /\ c <= x.transfer
  BY <1>3, <1>4
<1>6. copies[c].src # 0 => \E x \in retired'.natives : x.native = copies[c].src /\ c <= x.transfer
  BY <1>2, <1>5 DEF CopiesKept
<1>7. ASSUME copies[c].handle # 0
      PROVE  /\ \/ \E x \in retired'.natives : x.native = copies[c].dst /\ c <= x.transfer
                \/ \E n \in Heaps : IsLive(n, copies[c].handle)'
                                                  /\ IsNativeOf(n, copies[c].dst)'
             /\ \/ copies[c].handle \in Handles /\ tokens'[copies[c].handle] = c
                \/ \E x \in retired'.ranges : x.handle = copies[c].handle /\ x.transfer = c
  <2> DEFINE h == copies[c].handle
             b == copies[c].dst
  <2>1. /\ \/ \E x \in retired.natives : x.native = b /\ c <= x.transfer
           \/ \E n \in Heaps : IsLive(n, h) /\ IsNativeOf(n, b)
        /\ \/ h \in Handles /\ tokens[h] = c
           \/ \E x \in retired.ranges : x.handle = h /\ x.transfer = c
    BY <1>2, <1>7 DEF CopiesKept
  <2> HIDE DEF h, b
  <2>2. \A x \in retired.ranges : x.handle = h => ~(x.transfer <= done)
    <3>1. SUFFICES ASSUME NEW x \in retired.ranges, x.handle = h PROVE ~(x.transfer <= done)
      OBVIOUS
    <3>2. x.handle \in Handles /\ tokens[x.handle] = 0
      BY <1>p DEF HandlesPlaced
    <3>3. PICK y \in retired.ranges : y.handle = h /\ y.transfer = c
      BY <2>1, <3>1, <3>2, <1>2
    <3>4. x = y
      BY <3>1, <3>3, <1>p DEF HandlesPlaced
    <3>5. QED
      BY <3>3, <3>4, <1>2
  <2>3. ASSUME NEW n \in Heaps, IsLive(n, h), IsNativeOf(n, b)
        PROVE  IsLive(n, h)' /\ IsNativeOf(n, b)'
    <3>1. PICK r \in heaps[n].live : r.handle = h
      BY <2>3 DEF IsLive
    <3>2. r \in heaps'[n].live
      BY <2>2, <3>1
    <3>3. IsLive(n, h)'
      BY <3>1, <3>2 DEF IsLive, h
    <3>4. heaps[n].live # {}
      BY <3>1
    <3>5. \A z : IsNativeOf(n, z) => IsNativeOf(n, z)'
      BY <3>4
    <3>6. IsNativeOf(n, b)'
      <4>1. b' = b
        BY DEF b
      <4>2. ASSUME NEW z, z = b PROVE IsNativeOf(n, z)'
        BY <4>2, <3>5, <2>3
      <4>3. QED
        BY <4>1, <4>2 DEF IsNativeOf
    <3>7. QED
      BY <3>3, <3>6
  <2>4. \/ \E x \in retired'.natives : x.native = b /\ c <= x.transfer
        \/ \E n \in Heaps : IsLive(n, h)' /\ IsNativeOf(n, b)'
    <3>1. CASE \E x \in retired.natives : x.native = b /\ c <= x.transfer
      BY <3>1, <1>5
    <3>2. CASE \E n \in Heaps : IsLive(n, h) /\ IsNativeOf(n, b)
      <4>1. PICK n \in Heaps : IsLive(n, h) /\ IsNativeOf(n, b)
        BY <3>2
      <4>2. QED
        BY <4>1, <2>3
    <3>3. QED
      BY <2>1, <3>1, <3>2
  <2>5. \/ h \in Handles /\ tokens'[h] = c
        \/ \E x \in retired'.ranges : x.handle = h /\ x.transfer = c
    <3>1. CASE h \in Handles /\ tokens[h] = c
      BY <3>1, <1>2 DEF Held
    <3>2. CASE \E x \in retired.ranges : x.handle = h /\ x.transfer = c
      BY <3>2, <1>2
    <3>3. QED
      BY <2>1, <3>1, <3>2
  <2>6. QED
    BY <2>4, <2>5 DEF h, b
<1>8. QED
  BY <1>6, <1>7

LEMMA CopiesUploaded ==
  ASSUME OwnersInv, CopiesKept, NEW n \in Heaps, Uploaded(n)
  PROVE  CopiesKept'
<1>p. /\ HandlesPlaced /\ copies \in Seq(CopyRecord) /\ Len(copies) \in Nat /\ done \in Nat
      /\ done <= Len(copies) /\ nextNative \in Nat \ {0}
      /\ storage[n].native \in Nat /\ storage[n].ready \in Nat
      /\ nextHandle \in Nat \ {0} /\ tokens \in [Handles -> Nat]
  BY DoneIs DEF OwnersInv, Placed, OwnerShaped, DeviceShaped
<1>u. UNCHANGED <<recording, frames, done, uses, givenUp>>
  BY DEF Uploaded
<1> DEFINE old == storage[n].native
           one == [native |-> old, transfer |-> Len(copies) + 1, graphics |-> frames.last]
           first == Copy(0, old, nextNative)
<1>m. /\ Moved(n) \in Seq(CopyRecord) /\ Len(Moved(n)) = Len(copies) + 1
      /\ Moved(n)[Len(copies) + 1] = first
      /\ \A c \in 1..Len(copies) : Moved(n)[c] = copies[c]
  <2>1. first \in CopyRecord
    BY <1>p DEF Copy, CopyRecord
  <2> HIDE DEF first
  <2>2. /\ Append(copies, first) \in Seq(CopyRecord)
        /\ Len(Append(copies, first)) = Len(copies) + 1
        /\ Append(copies, first)[Len(copies) + 1] = first
        /\ \A c \in 1..Len(copies) : Append(copies, first)[c] = copies[c]
    BY <2>1, <1>p
  <2>3. Moved(n) = Append(copies, first)
    BY DEF Moved, first
  <2>4. QED
    BY <2>2, <2>3
<1>n. /\ retired'.heaps = retired.heaps /\ retired'.ranges = retired.ranges
  BY <1>u, UploadedNatives DEF Uploaded
\* What each kind of upload does, in the terms of the copies.
<1>k. \E before \in Seq(CopyRecord), native \in Nat \ {0}, ready \in Nat :
        /\ Ends(n, before, native, ready)
        /\ retired.natives \subseteq retired'.natives
        /\ \A c \in 1..Len(copies) : before[c] = copies[c]
        /\ \/ before = copies /\ (native = old \/ heaps[n].live = {})
           \/ /\ Len(before) = Len(copies) + 1 /\ before[Len(copies) + 1] = first
              /\ one \in retired'.natives
  <2>1. CASE InPlace(n)
    <3>1. Ends(n, copies, old, storage[n].ready) /\ old # 0 /\ retired' = retired
      BY <2>1 DEF InPlace
    <3>2. old \in Nat \ {0}
      BY <3>1, <1>p
    <3> HIDE DEF old, one, first
    <3>3. QED
      BY <3>1, <3>2, <1>p
  <2>2. CASE Anew(n)
    <3>1. Ends(n, copies, nextNative, 0) /\ heaps[n].live = {} /\ retired' = retired
      BY <2>2 DEF Anew
    <3> HIDE DEF old, one, first
    <3>2. 0 \in Nat
      OBVIOUS
    <3>3. QED
      BY <3>1, <3>2, <1>p
  <2>3. CASE Outgrows(n)
    <3>1. /\ Ends(n, Moved(n), nextNative, Len(copies) + 1)
          /\ retired' = [retired EXCEPT !.natives = @ \cup {one}]
      BY <2>3 DEF Outgrows
    <3> HIDE DEF old, one, first
    <3>2. retired'.natives = retired.natives \cup {one}
      BY <3>1, RetiredIs
    <3>3. Len(copies) + 1 \in Nat
      BY <1>p
    <3>4. QED
      BY <3>1, <3>2, <3>3, <1>p, <1>m
  <2>4. QED
    BY <2>1, <2>2, <2>3 DEF Uploaded
<1>o. one.native = old /\ one.transfer = Len(copies) + 1
  OBVIOUS
<1>z. first.src = old /\ first.handle = 0
  BY DEF Copy
<1> HIDE DEF old, one, first
<1>b. PICK before \in Seq(CopyRecord) : \E native \in Nat \ {0}, ready \in Nat :
        /\ Ends(n, before, native, ready)
        /\ retired.natives \subseteq retired'.natives
        /\ \A c \in 1..Len(copies) : before[c] = copies[c]
        /\ \/ before = copies /\ (native = old \/ heaps[n].live = {})
           \/ /\ Len(before) = Len(copies) + 1 /\ before[Len(copies) + 1] = first
              /\ one \in retired'.natives
  BY <1>k
<1>c. PICK native \in Nat \ {0}, ready \in Nat :
        /\ Ends(n, before, native, ready)
        /\ retired.natives \subseteq retired'.natives
        /\ \A c \in 1..Len(copies) : before[c] = copies[c]
        /\ \/ before = copies /\ (native = old \/ heaps[n].live = {})
           \/ /\ Len(before) = Len(copies) + 1 /\ before[Len(copies) + 1] = first
              /\ one \in retired'.natives
  BY <1>b
<1>e. /\ Len(copies') \in Nat /\ Len(before) \in Nat /\ Len(before) <= Len(copies')
      /\ \A c \in 1..Len(before) : copies'[c] = before[c]
      /\ \/ copies' = before
         \/ /\ Len(copies') = Len(before) + 1
            /\ copies'[Len(before) + 1] = Copy(nextHandle, 0, native)
  BY <1>c, EndsCopies
<1>f. /\ \A m \in Heaps : m # n => heaps'[m] = heaps[m] /\ storage'[m] = storage[m]
      /\ heaps[n].live \subseteq heaps'[n].live /\ storage'[n].native = native
  BY <1>c DEF Ends
<1>t. \A h \in Held : tokens'[h] = tokens[h]
  <2>1. \A h \in Held : h # nextHandle /\ h \in Handles
    <3>1. \A i \in Handles : i < nextHandle => i # nextHandle
      BY <1>p, HandlesAre
    <3>2. QED
      BY <3>1, <1>p DEF HandlesPlaced, Held
  <2>2. \/ UNCHANGED tokens
        \/ tokens' = [tokens EXCEPT ![nextHandle] = Len(before) + 1]
    BY <1>c DEF Ends
  <2>3. QED
    BY <2>1, <2>2, <1>p
<1> DEFINE Good1(c, k) ==
             /\ k.src # 0 => \E x \in retired'.natives : x.native = k.src /\ c <= x.transfer
             /\ k.handle # 0 =>
                  /\ \/ \E x \in retired'.natives : x.native = k.dst /\ c <= x.transfer
                     \/ \E m \in Heaps :
                          /\ \E r \in heaps'[m].live : r.handle = k.handle
                          /\ \/ k.dst # 0 /\ storage'[m].native = k.dst
                             \/ \E x \in retired'.heaps : x.name = m /\ x.native = k.dst
                  /\ \/ k.handle \in Handles /\ tokens'[k.handle] = c
                     \/ \E x \in retired'.ranges : x.handle = k.handle /\ x.transfer = c
<1>1. SUFFICES ASSUME NEW c \in (done + 1)..Len(copies') PROVE Good1(c, copies'[c])
  BY <1>u DEF CopiesKept, IsLive, IsNativeOf, Heaps, Handles
<1>2. ASSUME c <= Len(copies), copies'[c] = copies[c] PROVE Good1(c, copies'[c])
  <2>0. c \in (done + 1)..Len(copies) /\ c \in Nat /\ c # 0 /\ c <= Len(copies) + 1
    BY <1>2, <1>p, <1>e
  <2> DEFINE k == copies[c]
  <2>1. /\ k.src # 0 => \E x \in retired.natives : x.native = k.src /\ c <= x.transfer
        /\ k.handle # 0 =>
             /\ \/ \E x \in retired.natives : x.native = k.dst /\ c <= x.transfer
                \/ \E m \in Heaps : IsLive(m, k.handle) /\ IsNativeOf(m, k.dst)
             /\ \/ k.handle \in Handles /\ tokens[k.handle] = c
                \/ \E x \in retired.ranges : x.handle = k.handle /\ x.transfer = c
    BY <2>0 DEF CopiesKept
  <2> HIDE DEF k
  <2>2. k.src # 0 => \E x \in retired'.natives : x.native = k.src /\ c <= x.transfer
    BY <2>1, <1>c
  <2>3. ASSUME NEW m \in Heaps, IsLive(m, k.handle), IsNativeOf(m, k.dst)
        PROVE  \/ \E x \in retired'.natives : x.native = k.dst /\ c <= x.transfer
               \/ /\ \E r \in heaps'[m].live : r.handle = k.handle
                  /\ \/ k.dst # 0 /\ storage'[m].native = k.dst
                     \/ \E x \in retired'.heaps : x.name = m /\ x.native = k.dst
    <3>1. \E r \in heaps'[m].live : r.handle = k.handle
      BY <2>3, <1>f DEF IsLive
    <3>2. CASE \E x \in retired.heaps : x.name = m /\ x.native = k.dst
      BY <3>1, <3>2, <1>n
    <3>3. CASE k.dst # 0 /\ storage[m].native = k.dst /\ m # n
      BY <3>1, <3>3, <1>f
    <3>4. CASE k.dst # 0 /\ storage[m].native = k.dst /\ m = n
      <4>1. k.dst = old /\ heaps[n].live # {}
        BY <3>4, <2>3 DEF IsLive, old
      <4>2. CASE native = old
        BY <4>1, <4>2, <3>1, <3>4, <1>f
      <4>3. CASE one \in retired'.natives
        BY <4>1, <4>3, <1>o, <2>0
      <4>4. QED
        BY <4>1, <4>2, <4>3, <1>c
    <3>5. QED
      BY <3>2, <3>3, <3>4, <2>3 DEF IsNativeOf
  <2>4. k.handle \in Handles /\ tokens[k.handle] = c => tokens'[k.handle] = c
    BY <1>t, <2>0 DEF Held
  <2>5. Good1(c, k)
    BY <2>1, <2>2, <2>3, <2>4, <1>c, <1>n
  <2>6. QED
    BY <2>5, <1>2 DEF k
<1>3. ASSUME c = Len(copies) + 1, copies'[c] = first, one \in retired'.natives
      PROVE  Good1(c, copies'[c])
  BY <1>3, <1>o, <1>z, <1>p
<1>4. ASSUME copies' # before, c = Len(before) + 1 PROVE Good1(c, copies'[c])
  <2>1. /\ nextHandle \in Handles /\ nextHandle # 0
        /\ \E r : r.handle = nextHandle /\ heaps'[n].live = heaps[n].live \cup {r}
        /\ tokens' = [tokens EXCEPT ![nextHandle] = Len(before) + 1]
    BY <1>4, <1>c, <1>p DEF Ends
  <2>2. tokens'[nextHandle] = c
    BY <2>1, <1>4, <1>p
  <2> DEFINE k == Copy(nextHandle, 0, native)
  <2>3. k.handle = nextHandle /\ k.src = 0 /\ k.dst = native
    BY DEF Copy
  <2> HIDE DEF k
  <2>4. \E r \in heaps'[n].live : r.handle = nextHandle
    BY <2>1
  <2>5. Good1(c, k)
    BY <2>1, <2>2, <2>3, <2>4, <1>f
  <2>6. QED
    BY <2>5, <1>4, <1>e DEF k
<1>5. \/ c <= Len(copies) /\ copies'[c] = copies[c]
      \/ c = Len(copies) + 1 /\ copies'[c] = first /\ one \in retired'.natives
      \/ copies' # before /\ c = Len(before) + 1
  <2>1. c \in Nat /\ c # 0 /\ c <= Len(copies')
    BY <1>p, <1>e
  <2>2. CASE c <= Len(before)
    <3>1. c \in 1..Len(before) /\ copies'[c] = before[c]
      BY <2>1, <2>2, <1>e
    <3>2. CASE c <= Len(copies)
      <4>1. c \in 1..Len(copies)
        BY <2>1, <3>2, <1>p
      <4>2. QED
        BY <4>1, <3>1, <3>2, <1>c
    <3>3. CASE ~(c <= Len(copies))
      BY <3>1, <3>3, <2>1, <2>2, <1>c, <1>p
    <3>4. QED
      BY <3>2, <3>3
  <2>3. CASE ~(c <= Len(before))
    BY <2>1, <2>3, <1>e
  <2>4. QED
    BY <2>2, <2>3
<1>6. QED
  BY <1>2, <1>3, <1>4, <1>5

LEMMA CopiesStep == ASSUME OwnersInv, CopiesKept, [Next]_vars PROVE CopiesKept'
<1>p. HandlesPlaced
  BY DEF OwnersInv, Placed
<1>d. done \in done..Len(copies)
  BY DoneIs
<1>q. ASSUME Quiet PROVE CopiesKept'
  <2>1. UNCHANGED <<heaps, storage, tokens, retired, copies>> /\ done' \in done..Len(copies)
    BY <1>q DEF Quiet
  <2>2. \A n \in Heaps : \A b : IsNativeOf(n, b) => IsNativeOf(n, b)'
    BY <2>1 DEF IsNativeOf
  <2>3. QED
    BY <2>1, <2>2, CopiesStay
\* A step that touches the retired ranges only.
<1>r. ASSUME UNCHANGED <<heaps, storage, copies>>, done' \in done..Len(copies),
             retired'.natives = retired.natives, retired'.heaps = retired.heaps,
             \A h \in Held :
               \/ tokens'[h] = tokens[h]
               \/ \E x \in retired'.ranges : x.handle = h /\ x.transfer = tokens[h],
             \A x \in retired.ranges :
               \E y \in retired'.ranges : y.handle = x.handle /\ y.transfer = x.transfer
      PROVE  CopiesKept'
  <2>1. \A n \in Heaps : \A b : IsNativeOf(n, b) => IsNativeOf(n, b)'
    BY <1>r DEF IsNativeOf
  <2>2. QED
    BY <1>r, <2>1, CopiesStay
<1>e. ASSUME NEW completion \in Nat, retired' = Finalized(completion),
             UNCHANGED <<heaps, storage, tokens, copies>>, done' \in done..Len(copies)
      PROVE  CopiesKept'
  <2>1. /\ retired'.natives = retired.natives /\ retired'.heaps = retired.heaps
        /\ \A y \in retired'.ranges : \E x \in retired.ranges :
             y.handle = x.handle /\ y.transfer = x.transfer
        /\ \A x \in retired.ranges : \E y \in retired'.ranges : y.handle = x.handle
    BY <1>e, FinalizedIs
  <2>2. \A x \in retired.ranges :
          \E y \in retired'.ranges : y.handle = x.handle /\ y.transfer = x.transfer
    BY <2>1, <1>p DEF HandlesPlaced
  <2>3. QED
    BY <1>e, <1>r, <2>1, <2>2
<1>1. CASE UNCHANGED vars
  <2>1. FramesGoOn(Freed(frames)) /\ UsesGoOn
    BY <1>1, FramesUnchanged DEF vars
  <2>2. Quiet
    BY <1>1, <2>1, <1>d DEF vars, owner, Quiet
  <2>3. QED
    BY <2>2, <1>q
<1>2. CASE Reclaim
  <2>1. /\ UNCHANGED <<storage, tokens, copies, done>>
        /\ retired'.natives \subseteq retired.natives
        /\ retired'.ranges \subseteq retired.ranges
        /\ \A x \in retired.natives \ retired'.natives : x.transfer <= done
        /\ \A x \in retired.ranges \ retired'.ranges : x.transfer <= done
        /\ \A n \in Heaps : \A r \in heaps[n].live \ heaps'[n].live :
             \E x \in retired.ranges \ retired'.ranges : x.handle = r.handle
        /\ \A x \in retired.heaps \ retired'.heaps : heaps[x.name].live = {}
    BY <1>2, ReclaimChanges
  <2>2. \A n \in Heaps : heaps[n].live # {} =>
          \A b : IsNativeOf(n, b) => IsNativeOf(n, b)'
    BY <2>1 DEF IsNativeOf
  <2>3. QED
    BY <2>1, <2>2, <1>d, CopiesStay
<1>3. CASE \/ Return \/ \E n \in Names : CreateHeap(n) \/ DropHeap(n)
           \/ \E n \in Heaps : \E count \in Counts[n] : UploadGrowing(n, count)
           \/ \E handle \in Handles : Remove(handle)
           \/ CopyCompletes \/ FrameEnds \/ Poll
  BY <1>3, <1>q, QuietSteps
<1>4. CASE CreateBody \/ DropBody
  <2>1. /\ UNCHANGED <<tokens, copies, done>>
        /\ retired'.natives = retired.natives /\ retired'.ranges = retired.ranges
        /\ \A n \in Heaps :
             /\ heaps'[n].live = heaps[n].live
             /\ heaps[n].live # {} => \A b : IsNativeOf(n, b) => IsNativeOf(n, b)'
    BY <1>4, BodiesChange
  <2>2. QED
    BY <2>1, <1>d, CopiesStay
<1>5. CASE \/ \E n \in Heaps : \E count \in Counts[n] : Upload(n, count)
           \/ \E count \in Counts[Index] : UploadFirstIndex(count)
  BY <1>5, UploadIs, FirstIndexIs, CopiesUploaded DEF Heaps
<1>6. CASE GrowBody
  <2>1. CASE UNCHANGED <<owner, copies>>
    BY <1>6, <2>1, <1>q, QuietBodies DEF GrowBody
  <2>2. CASE ~UNCHANGED <<owner, copies>>
    BY <1>6, <2>2, GrowIs, CopiesUploaded
  <2>3. QED
    BY <2>1, <2>2
<1>7. CASE (\E handle \in Handles : Draw(handle)) \/ Begin \/ SubmitFailsBadly
  <2>1. UNCHANGED <<heaps, storage, tokens, retired, copies, done>>
    BY <1>7 DEF Draw, Begin, SubmitFailsBadly, owner
  <2>2. QED
    BY <2>1, <1>d, <1>r
<1>8. CASE RemoveBody
  <2> DEFINE h == sweep.arg
             new == [handle |-> h, transfer |-> tokens[h],
                     serial |-> IF recording.active THEN recording.serial ELSE 0,
                     graphics |-> frames.last]
  <2>1. /\ h \in Held /\ tokens' = [tokens EXCEPT ![h] = 0]
        /\ retired' = [natives |-> retired.natives, ranges |-> retired.ranges \cup {new},
                       heaps |-> retired.heaps]
        /\ UNCHANGED <<heaps, storage, copies, done>>
    BY <1>8, RemoveIs
  <2>2. new.handle = h /\ new.transfer = tokens[h]
    OBVIOUS
  <2> HIDE DEF new, h
  <2>3. /\ retired'.natives = retired.natives /\ retired'.heaps = retired.heaps
        /\ retired'.ranges = retired.ranges \cup {new}
    BY <2>1
  <2>4. \A i \in Held : i = h \/ tokens'[i] = tokens[i]
    BY <2>1 DEF OwnersInv, Placed, OwnerShaped, Held
  <2>5. QED
    BY <2>1, <2>2, <2>3, <2>4, <1>d, <1>r
<1>9. CASE Submit
  <2>1. /\ frames.next \in Nat /\ retired' = Finalized(frames.next)
        /\ UNCHANGED <<heaps, storage, tokens, copies, done>>
    BY <1>9, SubmitIs, LastFrameIs
  <2>2. QED
    BY <2>1, <1>d, <1>e
<1>10. CASE Abort
  <2>1. /\ frames.last \in Nat /\ retired' = Finalized(frames.last)
        /\ UNCHANGED <<heaps, storage, tokens, copies, done>>
    BY <1>10, AbortIs, LastFrameIs
  <2>2. QED
    BY <2>1, <1>d, <1>e
<1>11. CASE SubmitFails
  <2>1. /\ LastFrame(frames) \in Nat /\ retired' = Finalized(LastFrame(frames))
        /\ UNCHANGED <<heaps, storage, tokens, copies>> /\ done' = Len(copies)
    BY <1>11, LastFrameIs DEF SubmitFails
  <2>2. done' \in done..Len(copies)
    BY <2>1, DoneIs
  <2>3. QED
    BY <2>1, <2>2, <1>e
<1>12. QED
  BY <1>1, <1>2, <1>3, <1>4, <1>5, <1>6, <1>7, <1>8, <1>9, <1>10, <1>11 DEF Next

-----------------------------------------------------------------------------
\* Reads.

\* In a step that adds no reader: a range is only released or reused after its
\* readers, and a drop waits for the frames that run.
LEMMA ReadsStay ==
  ASSUME OwnersInv, ReadsKept, frames'.running \subseteq frames.running,
         \A v \in frames'.running : uses'[v] = uses[v],
         recording'.drawn \subseteq recording.drawn, recording'.serial = recording.serial,
         nextNative' \in Nat, nextNative <= nextNative',
         \A n \in Heaps : \A b \in 1..(nextNative - 1) : IsNativeOf(n, b)' => IsNativeOf(n, b),
         \A n \in Heaps : \A r \in heaps[n].live :
           \/ r \in heaps'[n].live
           \/ \E x \in retired.ranges :
                /\ x.handle = r.handle /\ x.serial = 0
                /\ \A v \in frames.running : x.graphics < v,
         \A y \in retired'.ranges :
           \/ y \in retired.ranges
           \/ /\ y.serial = 0 => \A v \in frames.running : v <= y.graphics
              /\ recording'.drawn = {} \/ y.serial = recording.serial
  PROVE  ReadsKept'
<1>p. /\ nextNative \in Nat /\ SerialsRise /\ RecordingSound /\ DeviceShaped /\ OwnerShaped
  BY DEF OwnersInv, Placed, OwnerShaped
<1>1. ASSUME NEW v \in frames'.running, NEW x \in uses'[v].reads
      PROVE  /\ x.native \in 1..(nextNative' - 1)
             /\ \A n \in Heaps : IsNativeOf(n, x.native)' => Span(x) \in heaps'[n].live
             /\ \A y \in retired'.ranges : y.handle = x.handle /\ y.serial = 0 => v <= y.graphics
  <2>1. /\ v \in frames.running /\ x \in uses[v].reads /\ v \in Nat
    BY <1>1, LastFrameIs, ValuesAre
  <2>2. /\ x.native \in 1..(nextNative - 1)
        /\ \A n \in Heaps : IsNativeOf(n, x.native) => Span(x) \in heaps[n].live
        /\ \A y \in retired.ranges : y.handle = x.handle /\ y.serial = 0 => v <= y.graphics
    BY <2>1 DEF ReadsKept
  <2>3. x.native \in 1..(nextNative' - 1)
    BY <2>2, <1>p
  <2>4. ASSUME NEW n \in Heaps, IsNativeOf(n, x.native)' PROVE Span(x) \in heaps'[n].live
    <3>1. IsNativeOf(n, x.native)
      BY <2>2, <2>4
    <3>2. Span(x) \in heaps[n].live /\ Span(x).handle = x.handle
      BY <2>2, <3>1 DEF Span
    <3>3. ASSUME NEW y \in retired.ranges, y.handle = x.handle, y.serial = 0, y.graphics < v
          PROVE  FALSE
      <4>1. v <= y.graphics /\ y.graphics \in Nat
        BY <2>2, <3>3, RetiredIs DEF RangeRecord
      <4>2. QED
        BY <4>1, <3>3, <2>1
    <3>4. QED
      BY <3>2, <3>3, <2>1
  <2>5. ASSUME NEW y \in retired'.ranges, y.handle = x.handle, y.serial = 0
        PROVE  v <= y.graphics
    BY <2>1, <2>2, <2>5
  <2>6. QED
    BY <2>3, <2>4, <2>5
<1>2. ASSUME NEW d \in recording'.drawn
      PROVE  /\ Span(d) \in heaps'[d.heap].live
             /\ \A y \in retired'.ranges : y.handle = d.handle => y.serial = recording'.serial
  <2>1. /\ d \in recording.drawn /\ d.heap \in Heaps /\ recording.serial # 0
    BY <1>p, <1>2 DEF DeviceShaped, RecordingType, DrawRecord, RecordingSound, SerialsRise
  <2>2. /\ Span(d) \in heaps[d.heap].live /\ Span(d).handle = d.handle
        /\ \A y \in retired.ranges : y.handle = d.handle => y.serial = recording.serial
    BY <2>1 DEF ReadsKept, Span
  <2>3. \A y \in retired.ranges : ~(y.handle = d.handle /\ y.serial = 0)
    BY <2>1, <2>2
  <2>4. Span(d) \in heaps'[d.heap].live
    BY <2>1, <2>2, <2>3
  <2>5. QED
    BY <2>2, <2>4, <1>2
<1>3. QED
  BY <1>1, <1>2 DEF ReadsKept, IsNativeOf, Heaps, Span

\* An end of a recording, whose drops wait for a frame not before the running ones.
LEMMA ReadsEnd ==
  ASSUME OwnersInv, ReadsKept, NEW completion \in Nat, retired' = Finalized(completion),
         \A v \in frames.running : v <= completion,
         frames'.running \subseteq frames.running, UsesGoOn,
         UNCHANGED <<heaps, storage, nextNative>>,
         recording'.drawn = {}, recording'.serial = recording.serial
  PROVE  ReadsKept'
<1>1. /\ retired'.heaps = retired.heaps
      /\ \A y \in retired'.ranges : \E x \in retired.ranges :
           /\ y.handle = x.handle /\ y.transfer = x.transfer
           /\ IF x.serial = recording.serial
              THEN y.serial = 0 /\ y.graphics = completion ELSE y = x
  BY FinalizedIs
<1>2. \A n \in Heaps : \A b : IsNativeOf(n, b)' => IsNativeOf(n, b)
  BY <1>1 DEF IsNativeOf
<1>3. \A y \in retired'.ranges :
        \/ y \in retired.ranges
        \/ /\ y.serial = 0 => \A v \in frames.running : v <= y.graphics
           /\ recording'.drawn = {} \/ y.serial = recording.serial
  BY <1>1
<1>4. nextNative' \in Nat /\ nextNative <= nextNative'
  BY DEF OwnersInv, Placed, OwnerShaped
<1>5. \A v \in frames'.running : uses'[v] = uses[v]
  BY DEF UsesGoOn
<1>6. QED
  BY <1>2, <1>3, <1>4, <1>5, ReadsStay

LEMMA ReadsUploaded ==
  ASSUME OwnersInv, ReadsKept, NEW n \in Heaps, Uploaded(n)
  PROVE  ReadsKept'
<1>u. UNCHANGED <<recording, frames, done, uses, givenUp>>
  BY DEF Uploaded
<1>n. /\ retired'.heaps = retired.heaps /\ retired'.ranges = retired.ranges
  BY <1>u, UploadedNatives DEF Uploaded
<1>p. nextNative \in Nat \ {0}
  BY DEF OwnersInv, Placed, OwnerShaped
<1>k. \E before, native, ready :
        /\ Ends(n, before, native, ready)
        /\ native \in {storage[n].native, nextNative}
        /\ nextNative' \in {nextNative, nextNative + 1}
  BY DEF Uploaded, InPlace, Anew, Outgrows
<1>e. PICK before, native, ready :
        /\ Ends(n, before, native, ready)
        /\ native \in {storage[n].native, nextNative}
        /\ nextNative' \in {nextNative, nextNative + 1}
  BY <1>k
<1>1. \A m \in Heaps : heaps[m].live \subseteq heaps'[m].live
  BY <1>e DEF Ends
<1>2. nextNative' \in Nat /\ nextNative <= nextNative'
  BY <1>e, <1>p
<1>3. \A b \in 1..(nextNative - 1) : b # nextNative /\ b # 0
  BY <1>p
<1>4. \A m \in Heaps : storage'[m].native \in {storage[m].native, nextNative}
  BY <1>e DEF Ends
<1>5. \A m \in Heaps : \A b \in 1..(nextNative - 1) : IsNativeOf(m, b)' => IsNativeOf(m, b)
  BY <1>3, <1>4, <1>n DEF IsNativeOf
<1>6. QED
  BY <1>1, <1>2, <1>5, <1>u, <1>n, ReadsStay

LEMMA ReadsDrawn ==
  ASSUME OwnersInv, ReadsKept, NEW h \in Handles, Draw(h)
  PROVE  ReadsKept'
<1> DEFINE n == HeapOf(h)
           r == RangeOf(h)
           i == IF recording.imported[n].is THEN recording.imported[n]
                ELSE [is |-> TRUE, ready |-> storage[n].ready, mark |-> Len(copies)]
           d == [handle |-> h, heap |-> n, at |-> r.at, size |-> r.size, upload |-> tokens[h]]
<1>d. /\ h \in Held /\ n \in Heaps /\ r \in heaps[n].live /\ r.handle = h
      /\ recording' = [active |-> TRUE, serial |-> recording.serial,
                       imported |-> [recording.imported EXCEPT ![n] = i],
                       drawn |-> recording.drawn \cup {d}]
      /\ UNCHANGED <<owner, sweep, frames, copies, done, uses, givenUp>>
  BY DrawIs
<1>e. d.handle = h /\ d.heap = n /\ Span(d) = [handle |-> h, at |-> r.at, size |-> r.size]
  BY DEF Span
<1> HIDE DEF d, i
<1>1. /\ h \in Held /\ n \in Heaps /\ r \in heaps[n].live /\ r.handle = h
      /\ recording'.serial = recording.serial
      /\ recording'.drawn = recording.drawn \cup {d}
      /\ UNCHANGED <<owner, sweep, frames, copies, done, uses, givenUp>>
  BY <1>d
<1>2. UNCHANGED <<heaps, storage, retired, nextNative, frames, uses>>
  BY <1>1 DEF owner
<1>3. d.handle = h /\ d.heap = n /\ Span(d) = [handle |-> h, at |-> r.at, size |-> r.size]
  BY <1>e
<1>4. r = [handle |-> r.handle, at |-> r.at, size |-> r.size]
  <2>1. r \in LiveRange
    BY <1>1 DEF OwnersInv, StateInv, HeapsGood, Good, HeapType
  <2> HIDE DEF r
  <2>2. QED
    BY <2>1 DEF LiveRange
<1> HIDE DEF n, r
<1>5. Span(d) \in heaps[n].live
  BY <1>1, <1>3, <1>4
<1>6. \A y \in retired.ranges : y.handle # h
  BY <1>1 DEF OwnersInv, Placed, HandlesPlaced, Held
<1>7. \A e \in recording'.drawn :
        /\ Span(e) \in heaps'[e.heap].live
        /\ \A y \in retired'.ranges : y.handle = e.handle => y.serial = recording'.serial
  BY <1>1, <1>2, <1>3, <1>5, <1>6 DEF ReadsKept
<1>8. \A m \in Heaps : \A b : IsNativeOf(m, b)' <=> IsNativeOf(m, b)
  BY <1>2 DEF IsNativeOf
<1>9. \A v \in frames'.running : \A x \in uses'[v].reads :
        /\ x.native \in 1..(nextNative' - 1)
        /\ \A m \in Heaps : IsNativeOf(m, x.native)' => Span(x) \in heaps'[m].live
        /\ \A y \in retired'.ranges : y.handle = x.handle /\ y.serial = 0 => v <= y.graphics
  BY <1>2, <1>8 DEF ReadsKept
<1>10. QED
  BY <1>7, <1>9 DEF ReadsKept, IsNativeOf, Heaps, Span

\* A buffer belongs to one heap.
LEMMA NativeOfOne ==
  ASSUME OwnersInv, NEW n \in Heaps, storage[n].native # 0
  PROVE  /\ storage[n].native \in 1..(nextNative - 1)
         /\ \A m \in Heaps : IsNativeOf(m, storage[n].native) => m = n
<1> DEFINE b == storage[n].native
<1>1. NativesPlaced
  BY DEF OwnersInv, Placed
<1>2. b \in Stored
  BY DEF Stored
<1>3. b \in 1..(nextNative - 1) /\ b \notin Orphaned
  BY <1>1, <1>2 DEF NativesPlaced
<1>4. \A m \in Heaps : IsNativeOf(m, b) => m = n
  BY <1>1, <1>3 DEF IsNativeOf, NativesPlaced, Orphaned
<1>5. QED
  BY <1>3, <1>4

LEMMA ReadsSubmitted == ASSUME OwnersInv, ReadsKept, Submit PROVE ReadsKept'
<1> DEFINE v == frames.next
<1>1. /\ recording' = Ended /\ recording.active /\ uses'[v] = FrameOf
      /\ \A w \in frames.running : w # v /\ w \in Values /\ uses'[w] = uses[w]
      /\ frames'.running = frames.running \cup {v}
      /\ retired' = Finalized(v)
      /\ UNCHANGED <<heaps, storage, nextNative>>
  BY SubmitIs
<1>2. v \in Nat /\ v <= v /\ \A w \in frames.running : w <= v
  <2>1. \A w \in frames.running : w \in Values /\ w <= frames.last
    BY LastFrameIs
  <2>2. v \in Nat /\ frames.last \in Nat /\ frames.last < v
    BY LastFrameIs
  <2>3. \A w \in frames.running : w <= v
    BY <2>1, <2>2, ValuesAre
  <2>4. QED
    BY <2>2, <2>3
<1>3. /\ retired'.heaps = retired.heaps
      /\ \A y \in retired'.ranges : \E x \in retired.ranges :
           /\ y.handle = x.handle /\ y.transfer = x.transfer
           /\ IF x.serial = recording.serial
              THEN y.serial = 0 /\ y.graphics = v ELSE y = x
  BY <1>1, <1>2, FinalizedIs
<1>4. \A n \in Heaps : \A b : IsNativeOf(n, b)' <=> IsNativeOf(n, b)
  BY <1>1, <1>3 DEF IsNativeOf
<1>5. recording'.drawn = {}
  BY <1>1, EndedIs
<1> HIDE DEF v
<1>6. ASSUME NEW w \in frames.running, NEW x \in uses'[w].reads
      PROVE  /\ x.native \in 1..(nextNative' - 1)
             /\ \A n \in Heaps : IsNativeOf(n, x.native)' => Span(x) \in heaps'[n].live
             /\ \A y \in retired'.ranges : y.handle = x.handle /\ y.serial = 0 => w <= y.graphics
  <2>1. x \in uses[w].reads
    BY <1>1, <1>6
  <2>2. /\ x.native \in 1..(nextNative - 1)
        /\ \A n \in Heaps : IsNativeOf(n, x.native) => Span(x) \in heaps[n].live
        /\ \A y \in retired.ranges : y.handle = x.handle /\ y.serial = 0 => w <= y.graphics
    BY <2>1 DEF ReadsKept
  <2>3. ASSUME NEW y \in retired'.ranges, y.handle = x.handle, y.serial = 0
        PROVE  w <= y.graphics
    <3>1. PICK z \in retired.ranges :
              /\ y.handle = z.handle
              /\ IF z.serial = recording.serial
                 THEN y.serial = 0 /\ y.graphics = v ELSE y = z
      BY <1>3
    <3>2. QED
      BY <3>1, <2>2, <2>3, <1>2
  <2>4. QED
    BY <2>2, <2>3, <1>1, <1>4
<1>7. ASSUME NEW x \in uses'[v].reads
      PROVE  /\ x.native \in 1..(nextNative' - 1)
             /\ \A n \in Heaps : IsNativeOf(n, x.native)' => Span(x) \in heaps'[n].live
             /\ \A y \in retired'.ranges : y.handle = x.handle /\ y.serial = 0 => v <= y.graphics
  <2>1. PICK d \in recording.drawn :
          x = [handle |-> d.handle, native |-> storage[d.heap].native, at |-> d.at,
               size |-> d.size, upload |-> d.upload,
               mark |-> recording.imported[d.heap].mark]
    BY <1>1 DEF FrameOf
  <2>2. /\ x.native = storage[d.heap].native /\ x.handle = d.handle
        /\ x.at = d.at /\ x.size = d.size
    BY <2>1
  <2>3. Span(x) = Span(d)
    BY <2>2 DEF Span
  <2>4. d.heap \in Heaps /\ storage[d.heap].native # 0
    BY DEF OwnersInv, Placed, DeviceShaped, RecordingType, DrawRecord, RecordingSound
  <2>5. /\ x.native \in 1..(nextNative - 1)
        /\ \A n \in Heaps : IsNativeOf(n, x.native) => n = d.heap
    BY <2>2, <2>4, NativeOfOne
  <2>6. /\ Span(d) \in heaps[d.heap].live
        /\ \A y \in retired.ranges : y.handle = d.handle => y.serial = recording.serial
    BY DEF ReadsKept
  <2>7. \A y \in retired'.ranges : y.handle = x.handle => y.graphics = v
    BY <2>2, <2>6, <1>3
  <2>8. QED
    BY <2>3, <2>5, <2>6, <2>7, <1>1, <1>2, <1>4
<1>8. \A w \in frames'.running : \A x \in uses'[w].reads :
        /\ x.native \in 1..(nextNative' - 1)
        /\ \A n \in Heaps : IsNativeOf(n, x.native)' => Span(x) \in heaps'[n].live
        /\ \A y \in retired'.ranges : y.handle = x.handle /\ y.serial = 0 => w <= y.graphics
  BY <1>1, <1>6, <1>7
<1>9. QED
  BY <1>5, <1>8 DEF ReadsKept, IsNativeOf, Heaps, Span

LEMMA ReadsStep == ASSUME OwnersInv, ReadsKept, [Next]_vars PROVE ReadsKept'
<1>p. nextNative \in Nat /\ nextNative <= nextNative /\ nextNative + 1 \in Nat
      /\ nextNative <= nextNative + 1
  BY DEF OwnersInv, Placed, OwnerShaped
<1>v. \A v \in frames.running : v <= frames.last
  BY LastFrameIs
<1>q. ASSUME UNCHANGED <<heaps, storage, nextNative, retired>>, UsesGoOn,
             frames'.running \subseteq frames.running,
             recording'.drawn \subseteq recording.drawn, recording'.serial = recording.serial
      PROVE  ReadsKept'
  <2>1. \A n \in Heaps : \A b : IsNativeOf(n, b)' => IsNativeOf(n, b)
    BY <1>q DEF IsNativeOf
  <2>2. \A v \in frames'.running : uses'[v] = uses[v]
    BY <1>q DEF UsesGoOn
  <2>3. QED
    BY <1>q, <1>p, <2>1, <2>2, ReadsStay
<1>r. ASSUME Quiet PROVE ReadsKept'
  BY <1>r, <1>q DEF Quiet, FramesGoOn
<1>1. CASE UNCHANGED vars
  BY <1>1, <1>q, FramesUnchanged DEF vars, owner
<1>2. CASE Reclaim
  <2>1. /\ UNCHANGED <<storage, nextNative, recording, uses>>
        /\ frames'.running \subseteq frames.running
        /\ retired'.ranges \subseteq retired.ranges
        /\ retired'.heaps \subseteq retired.heaps
        /\ \A x \in retired.ranges \ retired'.ranges :
              x.serial = 0 /\ \A v \in frames.running : x.graphics < v
        /\ \A n \in Heaps : \A r \in heaps[n].live \ heaps'[n].live :
              \E x \in retired.ranges \ retired'.ranges : x.handle = r.handle
    BY <1>2, ReclaimChanges
  <2>2. \A n \in Heaps : \A b : IsNativeOf(n, b)' => IsNativeOf(n, b)
    BY <2>1 DEF IsNativeOf
  <2>3. QED
    BY <2>1, <2>2, <1>p, ReadsStay
<1>3. CASE \/ Return \/ \E n \in Names : CreateHeap(n) \/ DropHeap(n)
           \/ \E n \in Heaps : \E count \in Counts[n] : UploadGrowing(n, count)
           \/ \E handle \in Handles : Remove(handle)
           \/ CopyCompletes \/ FrameEnds \/ Poll
  BY <1>3, <1>r, QuietSteps
<1>4. CASE CreateBody \/ DropBody
  <2>1. /\ UNCHANGED <<recording, uses>>
        /\ retired'.ranges = retired.ranges
        /\ frames'.running \subseteq frames.running
        /\ nextNative' \in {nextNative, nextNative + 1}
        /\ \A n \in Heaps :
             /\ heaps'[n].live = heaps[n].live
             /\ \A b : b # nextNative /\ IsNativeOf(n, b)' => IsNativeOf(n, b)
    BY <1>4, BodiesChange
  <2>2. \A b \in 1..(nextNative - 1) : b # nextNative
    BY <1>p
  <2>3. \A n \in Heaps : \A b \in 1..(nextNative - 1) : IsNativeOf(n, b)' => IsNativeOf(n, b)
    BY <2>1, <2>2
  <2>4. nextNative' \in Nat /\ nextNative <= nextNative'
    BY <2>1, <1>p
  <2>5. QED
    BY <2>1, <2>3, <2>4, ReadsStay
<1>5. CASE \/ \E n \in Heaps : \E count \in Counts[n] : Upload(n, count)
           \/ \E count \in Counts[Index] : UploadFirstIndex(count)
  BY <1>5, UploadIs, FirstIndexIs, ReadsUploaded DEF Heaps
<1>6. CASE GrowBody
  <2>1. CASE UNCHANGED <<owner, copies>>
    BY <1>6, <2>1, <1>r, QuietBodies DEF GrowBody
  <2>2. CASE ~UNCHANGED <<owner, copies>>
    BY <1>6, <2>2, GrowIs, ReadsUploaded
  <2>3. QED
    BY <2>1, <2>2
<1>7. CASE \E handle \in Handles : Draw(handle)
  BY <1>7, ReadsDrawn
<1>8. CASE Begin
  <2>1. UNCHANGED <<heaps, storage, nextNative, retired, frames, uses>>
    BY <1>8 DEF Begin, owner
  <2>2. recording'.drawn = {}
    BY <1>8 DEF Begin
  <2>3. \A n \in Heaps : \A b : IsNativeOf(n, b)' <=> IsNativeOf(n, b)
    BY <2>1 DEF IsNativeOf
  <2>4. \A v \in frames'.running : \A x \in uses'[v].reads :
          /\ x.native \in 1..(nextNative' - 1)
          /\ \A m \in Heaps : IsNativeOf(m, x.native)' => Span(x) \in heaps'[m].live
          /\ \A y \in retired'.ranges : y.handle = x.handle /\ y.serial = 0 => v <= y.graphics
    BY <2>1, <2>3 DEF ReadsKept
  <2>5. QED
    BY <2>2, <2>4 DEF ReadsKept, IsNativeOf, Heaps, Span
<1>9. CASE RemoveBody
  <2> DEFINE h == sweep.arg
             new == [handle |-> h, transfer |-> tokens[h],
                     serial |-> IF recording.active THEN recording.serial ELSE 0,
                     graphics |-> frames.last]
  <2>1. /\ retired' = [natives |-> retired.natives, ranges |-> retired.ranges \cup {new},
                       heaps |-> retired.heaps]
        /\ FramesGoOn(Freed(frames)) /\ UsesGoOn
        /\ UNCHANGED <<heaps, storage, nextNative, recording>>
    BY <1>9, RemoveIs
  <2>2. /\ new.graphics = frames.last
        /\ new.serial = IF recording.active THEN recording.serial ELSE 0
    OBVIOUS
  <2> HIDE DEF new, h
  <2>3. retired'.heaps = retired.heaps /\ retired'.ranges = retired.ranges \cup {new}
    BY <2>1
  <2>4. recording.drawn = {} \/ new.serial = recording.serial
    BY <2>2 DEF OwnersInv, Placed, RecordingSound
  <2>5. \A n \in Heaps : \A b : IsNativeOf(n, b)' => IsNativeOf(n, b)
    BY <2>1, <2>3 DEF IsNativeOf
  <2>6. /\ frames'.running \subseteq frames.running
        /\ \A v \in frames'.running : uses'[v] = uses[v]
    BY <2>1 DEF FramesGoOn, UsesGoOn
  <2>7. \A y \in retired'.ranges :
           \/ y \in retired.ranges
           \/ /\ y.serial = 0 => \A v \in frames.running : v <= y.graphics
              /\ recording'.drawn = {} \/ y.serial = recording.serial
    BY <2>1, <2>2, <2>3, <2>4, <1>v
  <2>8. QED
    BY <2>1, <2>5, <2>6, <2>7, <1>p, ReadsStay
<1>10. CASE Submit
  BY <1>10, ReadsSubmitted
<1>11. CASE Abort
  <2>1. /\ frames.last \in Nat /\ retired' = Finalized(frames.last)
        /\ FramesGoOn(Freed(frames)) /\ UsesGoOn
        /\ UNCHANGED <<heaps, storage, nextNative>>
        /\ recording'.drawn = {} /\ recording'.serial = recording.serial
    BY <1>11, AbortIs, LastFrameIs
  <2>2. frames'.running \subseteq frames.running
    BY <2>1 DEF FramesGoOn
  <2>3. QED
    BY <2>1, <2>2, <1>v, ReadsEnd
<1>12. CASE SubmitFails
  <2>1. /\ LastFrame(frames) \in Nat /\ LastFrame(frames) = frames.last
        /\ retired' = Finalized(LastFrame(frames))
        /\ UNCHANGED <<heaps, storage, nextNative>>
    BY <1>12, LastFrameIs DEF SubmitFails
  <2>2. /\ frames'.running \subseteq frames.running /\ UsesGoOn
        /\ recording'.drawn = {} /\ recording'.serial = recording.serial
    BY <1>12, SubmitFailsPlaced, EndedIs
  <2>3. QED
    BY <2>1, <2>2, <1>v, ReadsEnd
<1>13. CASE SubmitFailsBadly
  <2>1. UNCHANGED <<heaps, storage, nextNative, retired>>
    BY <1>13 DEF SubmitFailsBadly, owner
  <2>2. /\ frames'.running \subseteq frames.running /\ UsesGoOn
        /\ recording'.drawn \subseteq recording.drawn /\ recording'.serial = recording.serial
    BY <1>13, SubmitFailsBadlyPlaced, EndedIs
  <2>3. QED
    BY <2>1, <2>2, <1>q
<1>14. QED
  BY <1>1, <1>2, <1>3, <1>4, <1>5, <1>6, <1>7, <1>8, <1>9, <1>10, <1>11, <1>12, <1>13 DEF Next

-----------------------------------------------------------------------------
\* Uploads that frames wait for.

LEMMA TokensAre ==
  ASSUME OwnersInv, NEW n \in Heaps, NEW r \in heaps[n].live
  PROVE  /\ r.handle \in Handles /\ r.handle < nextHandle
         /\ tokens[r.handle] \in Nat /\ tokens[r.handle] <= Len(copies)
<1>1. r.handle \in Handles /\ r.handle < nextHandle
  BY DEF OwnersInv, Placed, HandlesPlaced
<1>2. tokens[r.handle] \in Nat
  BY <1>1 DEF OwnersInv, Placed, OwnerShaped
<1>3. tokens[r.handle] # 0 => tokens[r.handle] <= Len(copies)
  BY <1>1 DEF OwnersInv, Placed, HandlesPlaced, Held
<1>4. QED
  BY <1>1, <1>2, <1>3, DoneIs

LEMMA ImportsAre ==
  ASSUME OwnersInv, NEW n \in Heaps
  PROVE  /\ recording.imported[n].ready \in Nat /\ recording.imported[n].mark \in Nat
         /\ storage[n].ready \in Nat
BY DEF OwnersInv, Placed, DeviceShaped, OwnerShaped, RecordingType, ImportRecord

\* A step that uploads nothing.
LEMMA CoversCarried ==
  ASSUME OwnersInv, UploadsCovered, copies' = copies,
         \A n \in Heaps : heaps'[n].live \subseteq heaps[n].live,
         \A n \in Heaps :
           \/ storage'[n] = storage[n] \/ storage'[n].native = 0
           \/ heaps[n].live = {} /\ storage'[n].ready = 0,
         \A h \in Handles : tokens'[h] \in {tokens[h], 0},
         \A n \in Heaps : recording'.imported[n] \in {recording.imported[n], NotImported},
         recording'.drawn \subseteq recording.drawn,
         recording'.drawn = {} \/ recording'.imported = recording.imported
  PROVE  UploadsCovered'
<1>l. Len(copies) \in Nat
  BY DoneIs
<1>1. ASSUME NEW n \in Heaps, storage'[n].native # 0
      PROVE  /\ storage'[n].ready <= Len(copies')
             /\ \A r \in heaps'[n].live : tokens'[r.handle] <= storage'[n].ready
  <2>1. CASE storage'[n] = storage[n]
    <3>1. /\ storage[n].ready <= Len(copies)
          /\ \A r \in heaps[n].live : tokens[r.handle] <= storage[n].ready
      BY <1>1, <2>1 DEF UploadsCovered
    <3>2. \A r \in heaps'[n].live : tokens'[r.handle] \in {tokens[r.handle], 0}
      BY TokensAre
    <3>3. \A r \in heaps'[n].live : tokens'[r.handle] <= storage[n].ready
      BY <3>1, <3>2, ImportsAre
    <3>4. QED
      BY <3>1, <3>3, <2>1
  <2>2. CASE heaps[n].live = {} /\ storage'[n].ready = 0
    BY <2>2, <1>l
  <2>3. QED
    BY <2>1, <2>2, <1>1
<1>2. ASSUME NEW n \in Heaps, recording'.imported[n].is
      PROVE  /\ recording'.imported[n].ready <= Len(copies')
             /\ recording'.imported[n].mark <= Len(copies')
             /\ \A r \in heaps'[n].live :
                  \/ tokens'[r.handle] <= recording'.imported[n].ready
                  \/ tokens'[r.handle] > recording'.imported[n].mark
  <2>1. recording'.imported[n] = recording.imported[n]
    BY <1>2 DEF NotImported
  <2>2. /\ recording.imported[n].ready <= Len(copies)
        /\ recording.imported[n].mark <= Len(copies)
        /\ \A r \in heaps[n].live :
                  \/ tokens[r.handle] <= recording.imported[n].ready
                  \/ tokens[r.handle] > recording.imported[n].mark
    BY <1>2, <2>1 DEF UploadsCovered
  <2>3. \A r \in heaps'[n].live : tokens'[r.handle] \in {tokens[r.handle], 0}
    BY TokensAre
  <2>4. 0 <= recording.imported[n].ready
    BY ImportsAre
  <2>5. QED
    BY <2>1, <2>2, <2>3, <2>4
<1>3. ASSUME NEW n \in Heaps, ~recording'.imported[n].is
      PROVE  recording'.imported[n] = NotImported
  BY <1>3 DEF UploadsCovered
<1>4. ASSUME NEW d \in recording'.drawn
      PROVE  \/ d.upload <= recording'.imported[d.heap].ready
             \/ d.upload > recording'.imported[d.heap].mark
  BY <1>4 DEF UploadsCovered
<1>5. QED
  BY <1>1, <1>2, <1>3, <1>4 DEF UploadsCovered, Heaps, NotImported

\* A new token is the latest of the heap, and not one of those imported.
LEMMA CoversUploaded ==
  ASSUME OwnersInv, UploadsCovered, NEW n \in Heaps, Uploaded(n)
  PROVE  UploadsCovered'
<1>p. OwnerShaped /\ DeviceShaped /\ HandlesPlaced
  BY DEF OwnersInv, Placed
<1>l. Len(copies) \in Nat /\ nextNative \in Nat /\ storage[n].native \in Nat
  BY <1>p DEF DeviceShaped, OwnerShaped
<1>m. /\ Moved(n) \in Seq(CopyRecord) /\ Len(Moved(n)) = Len(copies) + 1
  <2> DEFINE c == Copy(0, storage[n].native, nextNative)
  <2>1. c \in CopyRecord
    BY <1>l DEF Copy, CopyRecord
  <2>2. copies \in Seq(CopyRecord)
    BY <1>p DEF DeviceShaped
  <2> HIDE DEF c
  <2>3. Append(copies, c) \in Seq(CopyRecord) /\ Len(Append(copies, c)) = Len(copies) + 1
    BY <2>1, <2>2
  <2>4. QED
    BY <2>3 DEF Moved, c
<1>k. \E before \in Seq(CopyRecord) : \E native \in Nat : \E ready \in Nat :
        /\ Ends(n, before, native, ready)
        /\ Len(copies) <= Len(before)
        /\ ready <= Len(before)
        /\ \A r \in heaps[n].live : tokens[r.handle] <= ready
  <2>1. CASE InPlace(n)
    <3>1. /\ storage[n].ready <= Len(copies)
          /\ \A r \in heaps[n].live : tokens[r.handle] <= storage[n].ready
      BY <2>1 DEF InPlace, UploadsCovered
    <3>2. copies \in Seq(CopyRecord) /\ storage[n].ready \in Nat /\ Len(copies) <= Len(copies)
      BY <1>p, <1>l, ImportsAre DEF DeviceShaped
    <3>3. QED
      BY <3>1, <3>2, <2>1, <1>l DEF InPlace
  <2>2. CASE Anew(n)
    <3>1. copies \in Seq(CopyRecord) /\ 0 \in Nat /\ 0 <= Len(copies) /\ Len(copies) <= Len(copies)
      BY <1>p, <1>l DEF DeviceShaped
    <3>2. QED
      BY <3>1, <2>2, <1>l DEF Anew
  <2>3. CASE Outgrows(n)
    <3>1. \A r \in heaps[n].live : tokens[r.handle] <= Len(copies) + 1
      BY TokensAre, <1>l
    <3>2. /\ Len(copies) <= Len(Moved(n)) /\ Len(copies) + 1 <= Len(Moved(n))
          /\ Len(copies) + 1 \in Nat
      BY <1>l, <1>m
    <3>3. QED
      BY <3>1, <3>2, <2>3, <1>l, <1>m DEF Outgrows
  <2>4. QED
    BY <2>1, <2>2, <2>3 DEF Uploaded
<1>e. PICK before \in Seq(CopyRecord), native \in Nat, ready \in Nat :
        /\ Ends(n, before, native, ready)
        /\ Len(copies) <= Len(before)
        /\ ready <= Len(before)
        /\ \A r \in heaps[n].live : tokens[r.handle] <= ready
  BY <1>k
<1>c. /\ Len(copies') \in Nat /\ Len(before) \in Nat /\ Len(before) <= Len(copies')
      /\ copies' = before \/ Len(copies') = Len(before) + 1
  BY <1>e, EndsCopies
<1>o. \A m \in Heaps : m # n => heaps'[m] = heaps[m] /\ storage'[m] = storage[m]
  BY <1>e DEF Ends
<1>t. /\ \A m \in Heaps : \A r \in heaps[m].live : tokens'[r.handle] = tokens[r.handle]
      /\ \/ /\ storage'[n].ready = ready /\ heaps'[n].live = heaps[n].live
            /\ copies' = before
         \/ /\ storage'[n].ready = Len(before) + 1 /\ Len(copies') = Len(before) + 1
            /\ \A r \in heaps'[n].live :
                 r \in heaps[n].live \/ tokens'[r.handle] = Len(before) + 1
  <2>1. CASE heaps'[n].live = heaps[n].live /\ copies' = before /\ storage'[n].ready = ready
             /\ UNCHANGED <<tokens, nextHandle>>
    BY <2>1
  <2>2. CASE /\ nextHandle \in Handles
             /\ \E r : r.handle = nextHandle /\ heaps'[n].live = heaps[n].live \cup {r}
             /\ copies' = Append(before, Copy(nextHandle, 0, native))
             /\ storage'[n].ready = Len(before) + 1
             /\ tokens' = [tokens EXCEPT ![nextHandle] = Len(before) + 1]
    <3>1. \A h \in Handles : h < nextHandle => h # nextHandle
      BY HandlesAre, <1>p DEF OwnerShaped
    <3>2. /\ tokens'[nextHandle] = Len(before) + 1
          /\ \A h \in Handles : h # nextHandle => tokens'[h] = tokens[h]
      BY <2>2, <1>p DEF OwnerShaped
    <3>3. \A m \in Heaps : \A r \in heaps[m].live : tokens'[r.handle] = tokens[r.handle]
      BY <3>1, <3>2, TokensAre
    <3>4. \A r \in heaps'[n].live :
                 r \in heaps[n].live \/ tokens'[r.handle] = Len(before) + 1
      BY <2>2, <3>2
    <3>5. Len(copies') = Len(before) + 1
      <4> DEFINE c == Copy(nextHandle, 0, native)
      <4>1. c \in CopyRecord
        BY HandlesAre, <2>2 DEF Copy, CopyRecord
      <4> HIDE DEF c
      <4>2. Len(Append(before, c)) = Len(before) + 1
        BY <4>1
      <4>3. QED
        BY <2>2, <4>2 DEF c
    <3>6. QED
      BY <2>2, <3>3, <3>4, <3>5
  <2>3. QED
    BY <2>1, <2>2, <1>e DEF Ends
<1>u. recording' = recording
  BY DEF Uploaded
<1>1. ASSUME NEW m \in Heaps, storage'[m].native # 0
      PROVE  /\ storage'[m].ready <= Len(copies')
             /\ \A r \in heaps'[m].live : tokens'[r.handle] <= storage'[m].ready
  <2>1. CASE m # n
    <3>1. /\ storage[m].ready <= Len(copies)
          /\ \A r \in heaps[m].live : tokens[r.handle] <= storage[m].ready
      BY <1>1, <2>1, <1>o DEF UploadsCovered
    <3>2. storage[m].ready \in Nat
      BY ImportsAre
    <3>3. storage[m].ready <= Len(copies')
      BY <3>1, <3>2, <1>e, <1>c, <1>l
    <3>4. QED
      BY <3>1, <3>3, <2>1, <1>o, <1>t
  <2>2. CASE m = n
    <3>1. \A r \in heaps[n].live : tokens[r.handle] \in Nat
      BY TokensAre
    <3>2. \A r \in heaps[n].live :
            tokens'[r.handle] <= ready /\ tokens'[r.handle] <= Len(before) + 1
      BY <3>1, <1>e, <1>t, <1>c
    <3>3. Len(before) + 1 <= Len(before) + 1
      BY <1>c
    <3>4. QED
      BY <3>2, <3>3, <1>e, <1>t, <1>c, <2>2
  <2>3. QED
    BY <2>1, <2>2
<1>2. ASSUME NEW m \in Heaps, recording.imported[m].is
      PROVE  /\ recording.imported[m].ready <= Len(copies')
             /\ recording.imported[m].mark <= Len(copies')
             /\ \A r \in heaps'[m].live :
                  \/ tokens'[r.handle] <= recording.imported[m].ready
                  \/ tokens'[r.handle] > recording.imported[m].mark
  <2>1. /\ recording.imported[m].ready <= Len(copies)
        /\ recording.imported[m].mark <= Len(copies)
        /\ \A r \in heaps[m].live :
                  \/ tokens[r.handle] <= recording.imported[m].ready
                  \/ tokens[r.handle] > recording.imported[m].mark
    BY <1>2 DEF UploadsCovered
  <2>2. Len(copies) <= Len(copies')
    BY <1>e, <1>c, <1>l
  <2>3. recording.imported[m].ready \in Nat /\ recording.imported[m].mark \in Nat
    BY ImportsAre
  <2>4. recording.imported[m].ready <= Len(copies') /\ recording.imported[m].mark <= Len(copies')
    BY <2>1, <2>2, <2>3, <1>l, <1>c
  <2>5. Len(before) + 1 > recording.imported[m].mark
    BY <2>1, <2>3, <1>e, <1>c, <1>l
  <2>6. \A r \in heaps'[m].live : r \in heaps[m].live \/ tokens'[r.handle] = Len(before) + 1
    BY <1>o, <1>t
  <2>7. \A r \in heaps'[m].live :
                  \/ tokens'[r.handle] <= recording.imported[m].ready
                  \/ tokens'[r.handle] > recording.imported[m].mark
    BY <2>1, <2>5, <2>6, <1>t
  <2>8. QED
    BY <2>4, <2>7
<1>3. /\ \A m \in Heaps : ~recording.imported[m].is => recording.imported[m] = NotImported
      /\ \A d \in recording.drawn :
           \/ d.upload <= recording.imported[d.heap].ready
           \/ d.upload > recording.imported[d.heap].mark
  BY DEF UploadsCovered
<1>4. QED
  BY <1>1, <1>2, <1>3, <1>u DEF UploadsCovered, Heaps, NotImported

\* A draw imports its heap with the latest token, which covers what it reads.
LEMMA CoversDrawn ==
  ASSUME OwnersInv, UploadsCovered, NEW h \in Handles, Draw(h)
  PROVE  UploadsCovered'
<1> DEFINE n == HeapOf(h)
           r == RangeOf(h)
           i == IF recording.imported[n].is THEN recording.imported[n]
                ELSE [is |-> TRUE, ready |-> storage[n].ready, mark |-> Len(copies)]
           d == [handle |-> h, heap |-> n, at |-> r.at, size |-> r.size, upload |-> tokens[h]]
<1>d. /\ n \in Heaps /\ r \in heaps[n].live /\ r.handle = h /\ storage[n].native # 0
      /\ recording' = [active |-> TRUE, serial |-> recording.serial,
                       imported |-> [recording.imported EXCEPT ![n] = i],
                       drawn |-> recording.drawn \cup {d}]
      /\ UNCHANGED <<owner, sweep, frames, copies, done, uses, givenUp>>
  BY DrawIs
<1>e. /\ d.heap = n /\ d.upload = tokens[h] /\ i.is
      /\ recording.imported[n].is => i = recording.imported[n]
      /\ ~recording.imported[n].is => i.ready = storage[n].ready /\ i.mark = Len(copies)
  OBVIOUS
<1> HIDE DEF d, i, n, r
<1>p. recording.imported = [m \in Heaps |-> recording.imported[m]]
  BY DEF OwnersInv, Placed, DeviceShaped, RecordingType
<1>1. /\ recording'.drawn = recording.drawn \cup {d}
      /\ recording'.imported = [recording.imported EXCEPT ![n] = i]
  BY <1>d
<1>2. /\ recording'.imported[n] = i
      /\ \A m \in Heaps : m # n => recording'.imported[m] = recording.imported[m]
  BY <1>1, <1>p, <1>d
<1>u. UNCHANGED <<heaps, storage, tokens, copies>>
  BY <1>d DEF owner
<1>3. /\ storage[n].ready <= Len(copies)
      /\ \A q \in heaps[n].live : tokens[q.handle] <= storage[n].ready
  BY <1>d DEF UploadsCovered
<1>4. /\ i.ready <= Len(copies) /\ i.mark <= Len(copies)
      /\ \A q \in heaps[n].live : tokens[q.handle] <= i.ready \/ tokens[q.handle] > i.mark
  <2>1. CASE recording.imported[n].is
    BY <2>1, <1>e, <1>d DEF UploadsCovered
  <2>2. CASE ~recording.imported[n].is
    <3>1. Len(copies) <= Len(copies)
      BY DoneIs
    <3>2. QED
      BY <3>1, <2>2, <1>e, <1>3
  <2>3. QED
    BY <2>1, <2>2
<1>5. d.upload <= i.ready \/ d.upload > i.mark
  BY <1>4, <1>e, <1>d
<1>6. ASSUME NEW m \in Heaps
      PROVE  /\ recording'.imported[m].is =>
                  /\ recording'.imported[m].ready <= Len(copies)
                  /\ recording'.imported[m].mark <= Len(copies)
                  /\ \A q \in heaps[m].live :
                       \/ tokens[q.handle] <= recording'.imported[m].ready
                       \/ tokens[q.handle] > recording'.imported[m].mark
             /\ ~recording'.imported[m].is => recording'.imported[m] = NotImported
  BY <1>2, <1>4, <1>e DEF UploadsCovered
<1>7. ASSUME NEW e \in recording'.drawn
      PROVE  \/ e.upload <= recording'.imported[e.heap].ready
             \/ e.upload > recording'.imported[e.heap].mark
  <2>1. CASE e = d
    BY <2>1, <1>e, <1>2, <1>5
  <2>2. CASE e \in recording.drawn
    <3>1. e.heap \in Heaps /\ recording.imported[e.heap].is
      BY <2>2 DEF OwnersInv, Placed, DeviceShaped, RecordingType, DrawRecord, RecordingSound
    <3>2. recording'.imported[e.heap] = recording.imported[e.heap]
      BY <3>1, <1>2, <1>e
    <3>3. QED
      BY <2>2, <3>2 DEF UploadsCovered
  <2>3. QED
    BY <2>1, <2>2, <1>1, <1>7
<1>8. \A m \in Heaps : storage[m].native # 0 =>
        /\ storage[m].ready <= Len(copies)
        /\ \A q \in heaps[m].live : tokens[q.handle] <= storage[m].ready
  BY DEF UploadsCovered
<1>9. QED
  BY <1>6, <1>7, <1>8, <1>u DEF UploadsCovered, Heaps, NotImported

LEMMA CoversStep == ASSUME OwnersInv, UploadsCovered, [Next]_vars PROVE UploadsCovered'
<1>t. tokens = [h \in Handles |-> tokens[h]]
  BY DEF OwnersInv, Placed, OwnerShaped
<1>q. ASSUME UNCHANGED <<heaps, storage, tokens, copies>>,
             \A n \in Heaps : recording'.imported[n] \in {recording.imported[n], NotImported},
             recording'.drawn \subseteq recording.drawn,
             recording'.drawn = {} \/ recording'.imported = recording.imported
      PROVE  UploadsCovered'
  BY <1>q, CoversCarried
<1>r. ASSUME Quiet PROVE UploadsCovered'
  BY <1>r, <1>q DEF Quiet
<1>1. CASE UNCHANGED vars
  BY <1>1, <1>q DEF vars, owner
<1>2. CASE Reclaim
  <2>1. /\ UNCHANGED <<storage, tokens, recording, copies>>
        /\ \A n \in Heaps : heaps'[n].live \subseteq heaps[n].live
    BY <1>2, ReclaimChanges
  <2>2. QED
    BY <2>1, CoversCarried
<1>3. CASE \/ Return \/ \E n \in Names : CreateHeap(n) \/ DropHeap(n)
           \/ \E n \in Heaps : \E count \in Counts[n] : UploadGrowing(n, count)
           \/ \E handle \in Handles : Remove(handle)
           \/ CopyCompletes \/ FrameEnds \/ Poll
  BY <1>3, <1>r, QuietSteps
<1>4. CASE CreateBody \/ DropBody
  <2>1. /\ UNCHANGED <<tokens, recording, copies>>
        /\ \A n \in Heaps :
             /\ heaps'[n].live = heaps[n].live
             /\ \/ storage'[n] = storage[n] \/ storage'[n].native = 0
                \/ heaps[n].live = {} /\ storage'[n].ready = 0
    BY <1>4, BodiesChange
  <2>2. QED
    BY <2>1, CoversCarried
<1>5. CASE \/ \E n \in Heaps : \E count \in Counts[n] : Upload(n, count)
           \/ \E count \in Counts[Index] : UploadFirstIndex(count)
  BY <1>5, UploadIs, FirstIndexIs, CoversUploaded DEF Heaps
<1>6. CASE GrowBody
  <2>1. CASE UNCHANGED <<owner, copies>>
    BY <1>6, <2>1, <1>r, QuietBodies DEF GrowBody
  <2>2. CASE ~UNCHANGED <<owner, copies>>
    BY <1>6, <2>2, GrowIs, CoversUploaded
  <2>3. QED
    BY <2>1, <2>2
<1>7. CASE \E handle \in Handles : Draw(handle)
  BY <1>7, CoversDrawn
<1>8. CASE Begin
  <2>1. UNCHANGED <<heaps, storage, tokens, copies>>
    BY <1>8 DEF Begin, owner
  <2>2. /\ recording'.drawn = {}
        /\ \A n \in Heaps : recording'.imported[n] = NotImported
    BY <1>8 DEF Begin
  <2>3. QED
    BY <2>1, <2>2, <1>q
<1>9. CASE RemoveBody
  <2>1. /\ tokens' = [tokens EXCEPT ![sweep.arg] = 0]
        /\ UNCHANGED <<heaps, storage, recording, copies>>
    BY <1>9, RemoveIs
  <2>2. \A h \in Handles : tokens'[h] \in {tokens[h], 0}
    BY <2>1, <1>t
  <2>3. QED
    BY <2>1, <2>2, CoversCarried
<1>10. CASE Submit \/ SubmitFails \/ SubmitFailsBadly
  <2>1. recording' = Ended /\ UNCHANGED <<heaps, storage, tokens, copies>>
    BY <1>10 DEF Submit, SubmitFails, SubmitFailsBadly, owner
  <2>2. recording'.drawn = {} /\ recording'.imported = recording.imported
    BY <2>1, EndedIs
  <2>3. QED
    BY <2>1, <2>2, <1>q
<1>11. CASE Abort
  <2>1. /\ recording'.drawn = {} /\ UNCHANGED <<heaps, storage, tokens, copies>>
        /\ \A n \in Heaps : recording'.imported[n] \in {recording.imported[n], NotImported}
    BY <1>11, AbortIs
  <2>2. QED
    BY <2>1, <1>q
<1>12. QED
  BY <1>1, <1>2, <1>3, <1>4, <1>5, <1>6, <1>7, <1>8, <1>9, <1>10, <1>11 DEF Next

\* A frame waits for every token that its recording imported.
LEMMA FrameWaits ==
  ASSUME OwnersInv, UploadsCovered, NEW n \in Heaps
  PROVE  recording.imported[n].ready <= FrameOf.waits /\ FrameOf.waits \in Nat
<1> DEFINE tokensOf == {0} \cup {recording.imported[m].ready : m \in Heaps}
<1>l. Len(copies) \in Nat
  BY DoneIs
<1>1. \A m \in Heaps : recording.imported[m].ready \in 0..Len(copies)
  <2>1. ASSUME NEW m \in Heaps PROVE recording.imported[m].ready <= Len(copies)
    <3>1. CASE recording.imported[m].is
      BY <3>1 DEF UploadsCovered
    <3>2. CASE ~recording.imported[m].is
      BY <3>2, <1>l DEF UploadsCovered, NotImported
    <3>3. QED
      BY <3>1, <3>2
  <2>2. QED
    BY <2>1, ImportsAre, <1>l
<1>2. tokensOf \in SUBSET (0..Len(copies))
  BY <1>1, <1>l
<1>3. /\ recording.imported[n].ready \in tokensOf /\ 0 \in tokensOf
  OBVIOUS
<1> HIDE DEF tokensOf
<1>4. recording.imported[n].ready <= Highest(tokensOf) /\ Highest(tokensOf) \in 0..Len(copies)
  BY <1>2, <1>3, <1>l, HighestIs
<1>5. QED
  BY <1>4, <1>l DEF FrameOf, tokensOf

LEMMA AwaitedStep ==
  ASSUME OwnersInv, UploadsCovered, EarlierUploadsAwaited, [Next]_vars
  PROVE  EarlierUploadsAwaited'
<1>q. ASSUME frames'.running \subseteq frames.running,
             \A v \in frames'.running : uses'[v] = uses[v]
      PROVE  EarlierUploadsAwaited'
  BY <1>q DEF EarlierUploadsAwaited
<1>r. ASSUME Quiet PROVE EarlierUploadsAwaited'
  BY <1>r, <1>q DEF Quiet, FramesGoOn, UsesGoOn
<1>1. CASE UNCHANGED vars
  BY <1>1, <1>q DEF vars
<1>2. CASE Reclaim
  BY <1>2, <1>q, ReclaimChanges
<1>3. CASE \/ Return \/ \E n \in Names : CreateHeap(n) \/ DropHeap(n)
           \/ \E n \in Heaps : \E count \in Counts[n] : UploadGrowing(n, count)
           \/ \E handle \in Handles : Remove(handle)
           \/ CopyCompletes \/ FrameEnds \/ Poll
  BY <1>3, <1>r, QuietSteps
<1>4. CASE CreateBody \/ DropBody
  BY <1>4, <1>q, BodiesChange
<1>5. CASE \/ \E n \in Heaps : \E count \in Counts[n] : Upload(n, count)
           \/ \E count \in Counts[Index] : UploadFirstIndex(count)
           \/ GrowBody \/ Begin
           \/ \E handle \in Handles : Draw(handle)
  <2>1. UNCHANGED <<frames, uses>>
    BY <1>5 DEF Upload, UploadFirstIndex, GrowBody, Begin, Draw
  <2>2. QED
    BY <2>1, <1>q
<1>6. CASE RemoveBody
  <2>1. FramesGoOn(Freed(frames)) /\ UsesGoOn
    BY <1>6, RemoveIs
  <2>2. QED
    BY <2>1, <1>q DEF FramesGoOn, UsesGoOn
<1>7. CASE Submit
  <2> DEFINE v == frames.next
  <2>1. /\ uses'[v] = FrameOf /\ \A w \in frames.running : uses'[w] = uses[w]
        /\ frames'.running = frames.running \cup {v}
    BY <1>7, SubmitIs
  <2> HIDE DEF v
  <2>2. ASSUME NEW x \in FrameOf.reads
        PROVE  x.upload <= FrameOf.waits \/ x.upload > x.mark
    <3>1. PICK d \in recording.drawn :
            x = [handle |-> d.handle, native |-> storage[d.heap].native, at |-> d.at,
                 size |-> d.size, upload |-> d.upload,
                 mark |-> recording.imported[d.heap].mark]
      BY <2>2 DEF FrameOf
    <3>2. x.upload = d.upload /\ x.mark = recording.imported[d.heap].mark
      BY <3>1
    <3>3. d.heap \in Heaps /\ d.upload \in Nat
      BY DEF OwnersInv, Placed, DeviceShaped, RecordingType, DrawRecord
    <3>4. \/ d.upload <= recording.imported[d.heap].ready
          \/ d.upload > recording.imported[d.heap].mark
      BY DEF UploadsCovered
    <3>5. CASE d.upload <= recording.imported[d.heap].ready
      <4>1. /\ recording.imported[d.heap].ready <= FrameOf.waits
            /\ recording.imported[d.heap].ready \in Nat
        BY <3>3, FrameWaits, ImportsAre
      <4>2. FrameOf.waits \in Nat
        BY <3>3, FrameWaits
      <4>3. QED
        BY <4>1, <4>2, <3>2, <3>3, <3>5
    <3>6. QED
      BY <3>2, <3>4, <3>5
  <2>3. QED
    BY <2>1, <2>2 DEF EarlierUploadsAwaited
<1>8. CASE Abort
  <2>1. FramesGoOn(Freed(frames)) /\ UsesGoOn
    BY <1>8, AbortIs
  <2>2. QED
    BY <2>1, <1>q DEF FramesGoOn, UsesGoOn
<1>9. CASE SubmitFails \/ SubmitFailsBadly
  <2>1. frames'.running = {}
    BY <1>9, SubmitFailsPlaced, SubmitFailsBadlyPlaced
  <2>2. QED
    BY <2>1 DEF EarlierUploadsAwaited
<1>10. QED
  BY <1>1, <1>2, <1>3, <1>4, <1>5, <1>6, <1>7, <1>8, <1>9 DEF Next

-----------------------------------------------------------------------------
\* What the invariants say of what is read.

\* A buffer that is somewhere else has not been given to the backend to free.
LEMMA NotFreed ==
  ASSUME OwnersInv, NEW b
  PROVE  /\ \A n \in Heaps : IsNativeOf(n, b) => b \notin frames.destroyed
         /\ \A x \in retired.natives : x.native = b => b \notin frames.destroyed
         /\ 0 \notin frames.destroyed
<1>1. NativesPlaced /\ nextNative \in Nat
  BY DEF OwnersInv, Placed, OwnerShaped
<1>2. frames.destroyed \subseteq Freed(frames)
  BY DEF Freed
<1>3. 0 \notin frames.destroyed
  BY <1>1, <1>2 DEF NativesPlaced
<1>4. ASSUME NEW n \in Heaps, IsNativeOf(n, b) PROVE b \in Stored \cup Orphaned
  BY <1>4 DEF IsNativeOf, Stored, Orphaned
<1>5. ASSUME NEW x \in retired.natives, x.native = b PROVE b \in Outgrown
  BY <1>5 DEF Outgrown
<1>6. QED
  BY <1>1, <1>2, <1>3, <1>4, <1>5 DEF NativesPlaced

LEMMA ReadIs ==
  ASSUME OwnersInv, ReadsKept, NEW x \in Reads
  PROVE  /\ x.native # 0 /\ x.native \notin frames.destroyed
         /\ \A n \in Heaps : IsNativeOf(n, x.native) => Span(x) \in heaps[n].live
<1>n. nextNative \in Nat
  BY DEF OwnersInv, Placed, OwnerShaped
<1>1. ASSUME NEW v \in frames.running, x \in uses[v].reads
      PROVE  /\ x.native # 0 /\ x.native \notin frames.destroyed
             /\ \A n \in Heaps : IsNativeOf(n, x.native) => Span(x) \in heaps[n].live
  <2>1. /\ x.native \in 1..(nextNative - 1)
        /\ \A n \in Heaps : IsNativeOf(n, x.native) => Span(x) \in heaps[n].live
    BY <1>1 DEF ReadsKept
  <2>2. v \in Values /\ x.native \in ReadNatives[v]
    BY <1>1, LastFrameIs DEF ReadNatives
  <2>3. x.native \notin frames.destroyed
    BY <2>2 DEF OwnersInv, Placed, FramesBooked, Books, Seated
  <2>4. QED
    BY <2>1, <2>3, <1>n
<1>2. ASSUME NEW d \in recording.drawn,
             x = [handle |-> d.handle, native |-> storage[d.heap].native, at |-> d.at,
                  size |-> d.size]
      PROVE  /\ x.native # 0 /\ x.native \notin frames.destroyed
             /\ \A n \in Heaps : IsNativeOf(n, x.native) => Span(x) \in heaps[n].live
  <2>1. /\ x.native = storage[d.heap].native /\ x.handle = d.handle
        /\ x.at = d.at /\ x.size = d.size
    BY <1>2
  <2>2. Span(x) = Span(d)
    BY <2>1 DEF Span
  <2>3. d.heap \in Heaps /\ storage[d.heap].native # 0
    BY DEF OwnersInv, Placed, DeviceShaped, RecordingType, DrawRecord, RecordingSound
  <2>4. \A n \in Heaps : IsNativeOf(n, x.native) => n = d.heap
    BY <2>1, <2>3, NativeOfOne
  <2>5. Span(d) \in heaps[d.heap].live
    BY DEF ReadsKept
  <2>6. IsNativeOf(d.heap, x.native)
    BY <2>1, <2>3 DEF IsNativeOf
  <2>7. QED
    BY <2>1, <2>2, <2>3, <2>4, <2>5, <2>6, NotFreed
<1>3. QED
  BY <1>1, <1>2 DEF Reads

\* A heap with live ranges has a buffer.
LEMMA NativeOfIs ==
  ASSUME OwnersInv, NEW n \in Heaps, heaps[n].live # {}
  PROVE  IsNativeOf(n, NativeOf(n))
<1>1. HeapsOwned /\ Good(heaps[n])
  BY DEF OwnersInv, Placed, StateInv, HeapsGood
<1>2. Exists(heaps[n])
  BY <1>1, NoHeapEmpty
<1>3. storage[n].native # 0 \/ \E x \in retired.heaps : x.name = n
  BY <1>1, <1>2 DEF HeapsOwned
<1>4. CASE storage[n].native # 0
  BY <1>4 DEF IsNativeOf, NativeOf
<1>5. CASE storage[n].native = 0
  <2> DEFINE x == CHOOSE y \in retired.heaps : y.name = n
  <2>1. x \in retired.heaps /\ x.name = n
    BY <1>3, <1>5
  <2>2. NativeOf(n) = x.native
    BY <1>5 DEF NativeOf
  <2> HIDE DEF x
  <2>3. QED
    BY <2>1, <2>2 DEF IsNativeOf
<1>6. QED
  BY <1>4, <1>5

LEMMA RangeIsKept == ASSUME OwnersInv, ReadsKept PROVE RangeKeptWhileRead
<1>1. SUFFICES ASSUME NEW x \in Reads, NEW n \in Heaps, NEW r \in heaps[n].live,
                      NativeOf(n) = x.native, r.handle # x.handle
               PROVE  Apart(r, x)
  BY DEF RangeKeptWhileRead
<1>2. IsNativeOf(n, x.native)
  BY <1>1, NativeOfIs
<1>3. Span(x) \in heaps[n].live
  BY <1>2, ReadIs
<1>4. r # Span(x)
  BY <1>1 DEF Span
<1>5. Apart(r, Span(x))
  BY <1>3, <1>4 DEF OwnersInv, StateInv, HeapsGood, Good, Exact, Disjoint
<1>6. QED
  BY <1>5 DEF Apart, EndOf, Span

LEMMA NativesAreKept == ASSUME OwnersInv, CopiesKept, ReadsKept PROVE NativesOutlive
<1>1. \A x \in Reads : x.native # 0 /\ x.native \notin frames.destroyed
  BY ReadIs
<1>2. ASSUME NEW c \in (done + 1)..Len(copies)
      PROVE  /\ copies[c].src \notin frames.destroyed
             /\ copies[c].handle # 0 => copies[c].dst \notin frames.destroyed
  <2>1. /\ copies[c].src # 0 => \E x \in retired.natives : x.native = copies[c].src
        /\ copies[c].handle # 0 =>
             \/ \E x \in retired.natives : x.native = copies[c].dst
             \/ \E n \in Heaps : IsNativeOf(n, copies[c].dst)
    BY DEF CopiesKept
  <2>2. QED
    BY <2>1, NotFreed
<1>3. QED
  BY <1>1, <1>2 DEF NativesOutlive

LEMMA ReadsInitially == Init => CopiesKept /\ ReadsKept /\ UploadsCovered /\ EarlierUploadsAwaited
<1>1. SUFFICES ASSUME Init PROVE CopiesKept /\ ReadsKept /\ UploadsCovered /\ EarlierUploadsAwaited
  OBVIOUS
<1>2. /\ copies = <<>> /\ done = 0 /\ frames.running = {} /\ recording.drawn = {}
      /\ \A n \in Heaps : recording.imported[n] = NotImported /\ storage[n].native = 0
  BY <1>1 DEF Init, NewFrames, NoStorage
<1>3. Len(copies) = 0
  BY <1>2
<1>4. CopiesKept
  BY <1>2, <1>3 DEF CopiesKept
<1>5. ReadsKept /\ EarlierUploadsAwaited
  BY <1>2 DEF ReadsKept, EarlierUploadsAwaited
<1>6. UploadsCovered
  BY <1>2 DEF UploadsCovered, NotImported
<1>7. QED
  BY <1>4, <1>5, <1>6

\* For any heaps, capacities, numbers of slots and bounds, the bytes of an allocation
\* that a running frame or the recording reads are never part of another allocation,
\* though the allocation may be dropped, and its range reclaimed, at any time
\* (retired_range_graphics, and the drops a recording finalises when it ends).
THEOREM RangesAlwaysKept == Spec => []RangeKeptWhileRead
<1>1. OwnersInv /\ ReadsKept /\ [Next]_vars => (OwnersInv /\ ReadsKept)'
  BY OwnersStep, ReadsStep
<1>2. OwnersInv /\ ReadsKept => RangeKeptWhileRead
  BY RangeIsKept
<1>3. QED
  BY OwnersInitially, ReadsInitially, <1>1, <1>2, PTL DEF Spec

\* For any heaps, capacities, numbers of slots and bounds, no buffer is destroyed
\* while a running frame or the recording reads it, a copy under way reads it, or an
\* upload under way writes it: growth, drops and both orders of completion included.
THEOREM NativesAlwaysOutlive == Spec => []NativesOutlive
<1>1. OwnersInv /\ CopiesKept /\ ReadsKept /\ [Next]_vars
        => (OwnersInv /\ CopiesKept /\ ReadsKept)'
  BY OwnersStep, CopiesStep, ReadsStep
<1>2. OwnersInv /\ CopiesKept /\ ReadsKept => NativesOutlive
  BY NativesAreKept
<1>3. QED
  BY OwnersInitially, ReadsInitially, <1>1, <1>2, PTL DEF Spec

\* For any heaps, capacities, numbers of slots and bounds, a frame waits for every
\* upload that its draws read and that came before its recording imported the heap,
\* though the heap keeps one token and growth replaces it.
THEOREM UploadsAlwaysAwaited == Spec => []EarlierUploadsAwaited
<1>1. OwnersInv /\ UploadsCovered /\ EarlierUploadsAwaited /\ [Next]_vars
        => (OwnersInv /\ UploadsCovered /\ EarlierUploadsAwaited)'
  BY OwnersStep, CoversStep, AwaitedStep
<1>2. QED
  BY OwnersInitially, ReadsInitially, <1>1, PTL DEF Spec
=============================================================================
