---------------------------- MODULE GraphCompiler ----------------------------
(***************************************************************************)
(* The frame-graph compiler: from the resources and nodes a frame records  *)
(* to an order, waits, state transitions, merged passes, storage slots and *)
(* the command plan.  Nothing here has state; FrameRecorder drives it.     *)
(*                                                                         *)
(* A graph is [resources, nodes, edges]; ids count from 1.                 *)
(*   resource: [lifetime, class, full, initial, ready]                     *)
(*   node:     [queue, accesses, deps, pass]                               *)
(*   access:   [resource, range, state]     state: [queue, access]         *)
(*   pass:     [colors, depth, area, load, store]                          *)
(* The shader stage of a state is folded into its access, the sample count *)
(* of a pass into its area.                                                *)
(***************************************************************************)
EXTENDS Integers, SequencesExt

Unset == [queue |-> "None", access |-> "None"]
NoPass == [colors |-> <<>>, depth |-> 0, area |-> 0, load |-> "None", store |-> "None"]
IsPass(node) == node.pass # NoPass

-----------------------------------------------------------------------------
\* Ranges: mips m[1]..m[2]-1 by layers l[1]..l[2]-1; a buffer has one layer.

Larger(a, b) == IF a < b THEN b ELSE a
Smaller(a, b) == IF a < b THEN a ELSE b
Empty(r) == r.m[1] >= r.m[2] \/ r.l[1] >= r.l[2]

\* What a range stands for: one mip of one layer, or one part of a buffer, each.
Cells(r) == (r.m[1] .. r.m[2] - 1) \X (r.l[1] .. r.l[2] - 1)

\* Empty where the code answers None.
Intersection(a, b) ==
  [m |-> <<Larger(a.m[1], b.m[1]), Smaller(a.m[2], b.m[2])>>,
   l |-> <<Larger(a.l[1], b.l[1]), Smaller(a.l[2], b.l[2])>>]

Overlaps(a, b) == /\ a.m[1] < b.m[2] /\ b.m[1] < a.m[2]
                  /\ a.l[1] < b.l[2] /\ b.l[1] < a.l[2]

\* Whole mips before and after the cut, then its layers before and after.
Fragments(range, cut) ==
  {[m |-> <<range.m[1], cut.m[1]>>, l |-> range.l],
   [m |-> <<cut.m[2], range.m[2]>>, l |-> range.l],
   [m |-> cut.m, l |-> <<range.l[1], cut.l[1]>>],
   [m |-> cut.m, l |-> <<cut.l[2], range.l[2]>>]}

\* Fault: what lies after the cut is forgotten.
SubtractFront(range, cut) ==
  LET overlap == Intersection(range, cut)
  IN IF Empty(overlap) THEN {range}
     ELSE {p \in Fragments(range, overlap) : ~Empty(p) /\ p.m[1] < overlap.m[2]}
Subtract(range, cut) ==
  LET overlap == Intersection(range, cut)
  IN IF Empty(overlap) THEN {range}
     ELSE {p \in Fragments(range, overlap) : ~Empty(p)}

\* What a set of ranges keeps once a cut is taken from each.
Cut(ranges, cut) == UNION {Subtract(r, cut) : r \in ranges}
\* What of a range a set of ranges leaves uncovered.
Uncovered(range, covers) == FoldSet(LAMBDA cover, left : Cut(left, cover), {range}, covers)

-----------------------------------------------------------------------------
\* Recording.

Writes == {"StorageWrite", "StorageReadWrite", "IndirectStorageReadWrite",
           "ColorAttachmentWrite", "DepthStencilWrite", "TransferWrite"}
AttachmentAccesses == {"ColorAttachmentWrite", "DepthStencilRead", "DepthStencilWrite"}
IsWrite(a) == a.state.access \in Writes

\* Fault: a write after a read needs no order.
HazardNoWar(before, after) ==
  before.resource = after.resource /\ Overlaps(before.range, after.range) /\ IsWrite(before)
\* RAW, WAR or WAW; two reads need no order.
Hazard(before, after) ==
  /\ before.resource = after.resource
  /\ Overlaps(before.range, after.range)
  /\ IsWrite(before) \/ IsWrite(after)

AccessesOf(node) == ToSet(node.accesses)
Attachments(pass) == ToSet(pass.colors) \cup ({pass.depth} \ {0})
AccessTo(node, r) == {a \in AccessesOf(node) : a.resource = r}
AttachmentAccess(node, r) ==
  {a \in AccessTo(node, r) : a.state.access \in AttachmentAccesses}

ValidAccess(graph, node, a) ==
  /\ a.state.queue = node.queue
  /\ a.resource \in DOMAIN graph.resources
  /\ Subtract(a.range, graph.resources[a.resource].full) = {}

Feedback(node) ==
  \E i, j \in DOMAIN node.accesses :
    i < j /\ Hazard(node.accesses[i], node.accesses[j])

ValidAttachment(graph, node, r) ==
  LET depth == r = node.pass.depth IN
  /\ r \in DOMAIN graph.resources
  /\ graph.resources[r].class = IF depth THEN "Depth" ELSE "Color"
  /\ \E a \in AccessTo(node, r) :
       /\ a.range.m[1] = 0 /\ a.range.l[1] = 0
       /\ a.state.access \in IF depth THEN {"DepthStencilRead", "DepthStencilWrite"}
                             ELSE {"ColorAttachmentWrite"}

ValidNode(graph, node) ==
  /\ \A a \in AccessesOf(node) : ValidAccess(graph, node, a)
  /\ ~Feedback(node)
  /\ IsPass(node) => /\ node.queue = "Graphics"
                     /\ \A r \in Attachments(node.pass) : ValidAttachment(graph, node, r)

\* The dependencies an add_node has turned into edges when it returns: all of
\* them, or those below the first unknown one.  The edges of a refused node stay.
Known(graph, node) == {d \in node.deps : d <= Len(graph.nodes)}
Linked(graph, node) == {<<d, Len(graph.nodes) + 1>> : d \in Known(graph, node)}

AddNode(graph, node) ==
  IF ~ValidNode(graph, node) THEN graph
  ELSE [graph EXCEPT !.edges = @ \cup Linked(graph, node),
                     !.nodes = IF node.deps = Known(graph, node) THEN Append(@, node) ELSE @]

AddDependency(graph, before, after) == [graph EXCEPT !.edges = @ \cup {<<before, after>>}]

EmptyGraph == [resources |-> <<>>, nodes |-> <<>>, edges |-> {}]
NodeIds(graph) == 1 .. Len(graph.nodes)
Dangling(graph) == \E e \in graph.edges : e[2] > Len(graph.nodes)

-----------------------------------------------------------------------------
\* Order.

\* The smallest node all of whose predecessors are out comes next; shorter
\* than the graph when there is a cycle.
Topological(n, edges) ==
  LET Pop(order, k) ==
        LET out == ToSet(order)
            free == {v \in 1 .. n \ out : \A e \in edges : e[2] = v => e[1] \in out}
        IN IF free = {} THEN order ELSE Append(order, Min(free))
  IN FoldLeft(Pop, <<>>, [k \in 1 .. n |-> k])

Position(order, v) == CHOOSE i \in DOMAIN order : order[i] = v

\* Each pair of the explicit order that conflicts, in that order.
Hazards(graph, order) ==
  {<<order[p[1]], order[p[2]]>> : p \in
     {q \in (1 .. Len(order)) \X (1 .. Len(order)) :
        /\ q[1] < q[2]
        /\ \E a \in AccessesOf(graph.nodes[order[q[1]]]),
              b \in AccessesOf(graph.nodes[order[q[2]]]) : Hazard(a, b)}}

Closure(n, edges) ==
  LET Through(R, k) == R \cup {p \in (1 .. n) \X (1 .. n) :
                                    <<p[1], k>> \in R /\ <<k, p[2]>> \in R}
  IN FoldLeft(Through, edges, [k \in 1 .. n |-> k])

-----------------------------------------------------------------------------
\* validate_transient_attachment_loads.

\* What node v leaves of the written ranges: its writes added, then what its
\* pass discards taken away.
Written(node, written) ==
  [r \in DOMAIN written |->
     LET kept == written[r] \cup {a.range : a \in {x \in AccessTo(node, r) : IsWrite(x)}}
     IN IF r \in Attachments(node.pass) /\ node.pass.store = "Discard"
        THEN FoldSet(LAMBDA a, left : Cut(left, a.range), kept, AttachmentAccess(node, r))
        ELSE kept]

LoadsWritten(graph, node, written) ==
  node.pass.load = "Load" =>
    \A r \in Attachments(node.pass) :
      graph.resources[r].lifetime = "Transient" =>
        \A a \in AttachmentAccess(node, r) : Uncovered(a.range, written[r]) = {}

TransientLoadsValid(graph, order) ==
  LET Step(s, v) ==
        [ok |-> s.ok /\ LoadsWritten(graph, graph.nodes[v], s.written),
         written |-> Written(graph.nodes[v], s.written)]
  IN FoldLeft(Step, [ok |-> TRUE, written |-> [r \in DOMAIN graph.resources |-> {}]], order).ok

-----------------------------------------------------------------------------
\* assign_aliases_into.

Users(graph, r) == {v \in NodeIds(graph) : AccessTo(graph.nodes[v], r) # {}}

\* Transients by first use: each takes the first slot of its class whose last
\* user is on the queue of its own first user, or leads to it.
Aliases(graph, order, edges) ==
  LET At(v) == Position(order, v)
      reach == Closure(Len(order), edges)
      first == [r \in DOMAIN graph.resources |->
                  IF Users(graph, r) = {} THEN 0
                  ELSE order[Min({At(v) : v \in Users(graph, r)})]]
      last  == [r \in DOMAIN graph.resources |->
                  IF Users(graph, r) = {} THEN 0
                  ELSE order[Max({At(v) : v \in Users(graph, r)})]]
      used  == {r \in DOMAIN first : graph.resources[r].lifetime = "Transient" /\ first[r] # 0}
      Fits(slot, r) ==
        /\ slot.class = graph.resources[r].class
        /\ \/ graph.nodes[slot.last].queue = graph.nodes[first[r]].queue
           \/ <<slot.last, first[r]>> \in reach
      Place(s, r) ==
        LET fit == {i \in DOMAIN s.slots : Fits(s.slots[i], r)}
            i == IF fit = {} THEN Len(s.slots) + 1 ELSE Min(fit)
            slot == [class |-> graph.resources[r].class, last |-> last[r]]
        IN [slots |-> IF fit = {} THEN Append(s.slots, slot) ELSE [s.slots EXCEPT ![i] = slot],
            alias |-> [s.alias EXCEPT ![r] = i]]
      byFirst == SetToSortSeq(used, LAMBDA r, q :
                   At(first[r]) < At(first[q]) \/ (first[r] = first[q] /\ r < q))
  IN FoldLeft(Place, [slots |-> <<>>, alias |-> [r \in DOMAIN first |-> 0]], byFirst).alias

-----------------------------------------------------------------------------
\* What is recomputed for every frame.

\* A token at the first node that touches its resource; a source for every
\* edge between two queues.
Waits(graph, order, edges) ==
  {[node |-> order[Min({Position(order, v) : v \in Users(graph, r)})], source |-> 0, external |-> r]
     : r \in {x \in DOMAIN graph.resources : graph.resources[x].ready /\ Users(graph, x) # {}}}
  \cup {[node |-> e[2], source |-> e[1], external |-> 0]
     : e \in {x \in edges : graph.nodes[x[1]].queue # graph.nodes[x[2]].queue}}

\* The transitions access a of node v needs, given the tracked ranges.
TransitionsFor(v, a, tracked) ==
  LET met == {t \in tracked : Overlaps(t.range, a.range)}
      At(range, before) ==
        [node |-> v, resource |-> a.resource, range |-> range, before |-> before, after |-> a.state]
  IN {At(Intersection(t.range, a.range), t.state) : t \in {x \in met : x.state # a.state}}
     \cup {At(range, Unset) : range \in Uncovered(a.range, {t.range : t \in met})}

Track(a, tracked) ==
  {[range |-> a.range, state |-> a.state]} \cup
  UNION {{[range |-> rest, state |-> t.state] : rest \in Subtract(t.range, a.range)} : t \in tracked}

\* Transitions of the whole order, and the ranges tracked at its end.
Transitions(graph, order) ==
  LET start == [r \in DOMAIN graph.resources |->
                  IF graph.resources[r].initial = Unset THEN {}
                  ELSE {[range |-> graph.resources[r].full, state |-> graph.resources[r].initial]}]
      Node(s, v) ==
        LET Access(t, a) ==
              [transitions |-> t.transitions \cup TransitionsFor(v, a, t.tracked[a.resource]),
               tracked |-> [t.tracked EXCEPT ![a.resource] = Track(a, @)]]
        IN FoldLeft(Access, s, graph.nodes[v].accesses)
  IN FoldLeft(Node, [transitions |-> {}, tracked |-> start], order)

\* The state a history resource ends in, when what was tracked agrees.
HistoryStates(graph, tracked) ==
  [r \in DOMAIN graph.resources |->
     LET states == {t.state : t \in tracked[r]}
     IN IF graph.resources[r].lifetime = "History" /\ Cardinality(states) = 1
        THEN CHOOSE s \in states : TRUE ELSE Unset]

\* Fault: the second pass may clear what the first drew.
PassCompatibleAnyLoad(previous, following) ==
  /\ <<previous.colors, previous.depth, previous.area>>
       = <<following.colors, following.depth, following.area>>
  /\ previous.store = "Store"
PassCompatible(previous, following) ==
  /\ <<previous.colors, previous.depth, previous.area>>
       = <<following.colors, following.depth, following.area>>
  /\ previous.store = "Store" /\ following.load = "Load"

\* Consecutive compatible passes merge unless a transition comes between; the
\* merged pass loads like its first node and stores like its last.
Passes(graph, order, transitions) ==
  LET Step(s, v) ==
        LET pass == graph.nodes[v].pass
            top == Len(s.passes)
            joins == /\ s.open /\ top > 0
                     /\ ~\E t \in transitions : t.node = v
                     /\ PassCompatible(s.passes[top].info, pass)
        IN IF pass = NoPass THEN [s EXCEPT !.open = FALSE]
           ELSE [open |-> TRUE,
                 passes |-> IF joins
                   THEN [s.passes EXCEPT ![top].info.store = pass.store,
                                         ![top].nodes = Append(@, v)]
                   ELSE Append(s.passes, [info |-> pass, nodes |-> <<v>>])]
  IN FoldLeft(Step, [passes |-> <<>>, open |-> FALSE], order).passes

\* build_execution_plan_into: node by node its waits, its barriers, the pass it
\* opens, the node, and the end of the pass it closes.
Plan(order, waits, transitions, passes) ==
  LET Actions(v) ==
        <<[kind |-> "Sync", node |-> v,
           waits |-> {w \in waits : w.node = v},
           barriers |-> {t \in transitions : t.node = v}]>>
        \o FlattenSeq([i \in DOMAIN passes |->
             IF Head(passes[i].nodes) = v THEN <<[kind |-> "BeginPass", info |-> passes[i].info]>>
             ELSE <<>>])
        \o <<[kind |-> "Execute", node |-> v]>>
        \o (IF \E i \in DOMAIN passes : Last(passes[i].nodes) = v
            THEN <<[kind |-> "EndPass"]>> ELSE <<>>)
  IN FlattenSeq([i \in DOMAIN order |-> Actions(order[i])])

-----------------------------------------------------------------------------
\* compile.

\* What a template keeps: the part that names, tokens and states do not change.
Template(graph) ==
  LET n == Len(graph.nodes)
      explicit == Topological(n, graph.edges)
      edges == graph.edges \cup Hazards(graph, explicit)
      order == Topological(n, edges)
  IN IF Len(explicit) < n \/ Len(order) < n
     THEN [status |-> "Cycle"]
     ELSE IF ~TransientLoadsValid(graph, order) THEN [status |-> "InvalidPass"]
     ELSE [status |-> "Ok", order |-> order, edges |-> edges,
           aliases |-> Aliases(graph, order, edges)]

\* Everything that is computed again on a cache hit.
Complete(graph, template) ==
  IF template.status # "Ok" THEN template
  ELSE LET order == template.order
           waits == Waits(graph, order, template.edges)
           t == Transitions(graph, order)
           passes == Passes(graph, order, t.transitions)
       IN [status |-> "Ok", order |-> order, aliases |-> template.aliases,
           waits |-> waits, transitions |-> t.transitions, passes |-> passes,
           history |-> HistoryStates(graph, t.tracked),
           plan |-> Plan(order, waits, t.transitions, passes)]

Compile(graph) == Complete(graph, Template(graph))

\* Fault: passes are left out too.
StructurePassless(graph) ==
  [resources |-> [r \in DOMAIN graph.resources |->
     [lifetime |-> graph.resources[r].lifetime, class |-> graph.resources[r].class,
      full |-> graph.resources[r].full]],
   nodes |-> [v \in DOMAIN graph.nodes |-> [graph.nodes[v] EXCEPT !.pass = NoPass]],
   edges |-> graph.edges]
\* encode_structure: names, tokens and states are left out.
Structure(graph) ==
  [resources |-> [r \in DOMAIN graph.resources |->
     [lifetime |-> graph.resources[r].lifetime, class |-> graph.resources[r].class,
      full |-> graph.resources[r].full]],
   nodes |-> graph.nodes, edges |-> graph.edges]
=============================================================================
