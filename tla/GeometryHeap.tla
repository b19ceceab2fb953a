----------------------------- MODULE GeometryHeap -----------------------------
(***************************************************************************)
(* The range allocator of a geometry heap (ez-gfx-geometry-manager) as     *)
(* operators on a record h: free ranges are found first fit, split, and    *)
(* joined with their neighbours when they return; a heap grows at its end  *)
(* without moving a range.  A heap that does not exist has no bytes.       *)
(***************************************************************************)
EXTENDS Naturals, FiniteSets

\* free is a set of [at, size]; live a set of [handle, at, size].
NoHeap == [capacity |-> 0, free |-> {}, live |-> {}]
NewHeap(capacity) ==
  [capacity |-> capacity, free |-> {[at |-> 0, size |-> capacity]}, live |-> {}]

Exists(h) == h.capacity > 0
EndOf(r) == r.at + r.size
Apart(r, q) == EndOf(r) <= q.at \/ EndOf(q) <= r.at

-----------------------------------------------------------------------------
\* reserve.
Fits(h, size) == {r \in h.free : r.size >= size}
FirstFit(h, size) ==
  CHOOSE r \in Fits(h, size) : \A q \in Fits(h, size) : r.at <= q.at

\* Fault: what remains of a split range starts where the range did.
RemainderAtStart(r, size) ==
  IF r.size > size THEN {[at |-> r.at, size |-> r.size - size]} ELSE {}
Remainder(r, size) ==
  IF r.size > size THEN {[at |-> r.at + size, size |-> r.size - size]} ELSE {}

Reserved(h, handle, size) ==
  LET r == FirstFit(h, size)
  IN [h EXCEPT !.free = (@ \ {r}) \cup Remainder(r, size),
               !.live = @ \cup {[handle |-> handle, at |-> r.at, size |-> size]}]

-----------------------------------------------------------------------------
\* release_range: the nearest free range below joins if it ends at the start,
\* the nearest one above if it begins at the end.
Below(h, r) ==
  {q \in h.free : /\ q.at < r.at /\ EndOf(q) = r.at
                  /\ \A p \in h.free : p.at < r.at => p.at <= q.at}
Above(h, r) ==
  {q \in h.free : /\ q.at >= r.at /\ EndOf(r) = q.at
                  /\ \A p \in h.free : p.at >= r.at => q.at <= p.at}

\* Fault: a range returns by itself.
ReleasedAlone(h, r) ==
  [h EXCEPT !.free = @ \cup {[at |-> r.at, size |-> r.size]}, !.live = @ \ {r}]
Released(h, r) ==
  LET start == IF Below(h, r) = {} THEN r.at ELSE (CHOOSE q \in Below(h, r) : TRUE).at
      end == IF Above(h, r) = {} THEN EndOf(r) ELSE EndOf(CHOOSE q \in Above(h, r) : TRUE)
  IN [h EXCEPT
        !.free = (@ \ (Below(h, r) \cup Above(h, r)))
                   \cup {[at |-> start, size |-> end - start]},
        !.live = @ \ {r}]

-----------------------------------------------------------------------------
\* grow_heap: the last free range is extended, or a new one begins.
Last(h) == {q \in h.free : EndOf(q) = h.capacity}

Grown(h, capacity) ==
  LET start == IF Last(h) = {} THEN h.capacity ELSE (CHOOSE q \in Last(h) : TRUE).at
  IN [h EXCEPT !.capacity = capacity,
               !.free = (@ \ Last(h)) \cup {[at |-> start, size |-> capacity - start]}]

\* grown_capacity.
GrownCapacity(capacity, bytes) ==
  IF 2 * capacity >= capacity + bytes THEN 2 * capacity ELSE capacity + bytes

-----------------------------------------------------------------------------
\* What the allocator is for: free and live ranges divide the heap, and free
\* space is never cut into neighbours.
Within(h) ==
  \A r \in h.free \cup h.live : r.size > 0 /\ EndOf(r) <= h.capacity
Disjoint(h) ==
  /\ \A r, q \in h.free : r # q => Apart(r, q)
  /\ \A r, q \in h.live : r # q => Apart(r, q)
  /\ \A r \in h.free, q \in h.live : Apart(r, q)
Covered(h) ==
  \A b \in 0..(h.capacity - 1) :
    \E r \in h.free \cup h.live : r.at <= b /\ b < EndOf(r)
Coalesced(h) ==
  \A r, q \in h.free : EndOf(r) # q.at

Exact(h) == Within(h) /\ Disjoint(h) /\ Covered(h) /\ Coalesced(h)
=============================================================================
