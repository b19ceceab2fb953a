---------------------------- MODULE FrameRecorder ----------------------------
(***************************************************************************)
(* Recording a frame: a FrameGraph filled call by call, compiled through a *)
(* cache of templates by a FrameRecorder that hands the result out as a    *)
(* submission and takes it back.  A FrameGraph can also be used without a  *)
(* recorder; it then takes dependencies between any two nodes and compiles *)
(* without the cache.  What the compiler computes is in GraphCompiler.     *)
(*                                                                         *)
(* The properties read the compiled graph as its consumer does: each queue *)
(* runs its nodes in order, and nothing else orders two nodes but a wait.  *)
(***************************************************************************)
EXTENDS GraphCompiler

CONSTANTS
  Programs,      \* callers: [resources, shapes], what each may declare and record
  CacheEntries,  \* templates kept (8 in the code)
  MaxNodes,      \* bound: nodes of one recording
  MaxTotal,      \* bound: nodes recorded in all
  MaxEdges,      \* bound: dependencies added to a FrameGraph used alone
  MaxFrames      \* bound: recordings

ASSUME RecorderAssumption ==
  /\ CacheEntries \in Nat \ {0}
  /\ {MaxNodes, MaxTotal, MaxEdges, MaxFrames} \subseteq Nat

VARIABLES
  program,     \* the caller at hand
  alone,       \* a FrameGraph used without a recorder
  state,       \* Idle, Recording, Submitted; Panicked is the end of the process
  graph,       \* the graph being recorded
  cache,       \* templates [structure, template], least recently used first
  generation,  \* submission_generation
  held,        \* generations of the submissions the caller still holds
  output,      \* result of the last compile
  recorded     \* nodes recorded so far, for the bound

vars == <<program, alone, state, graph, cache, generation, held, output, recorded>>
caller == <<program, alone>>

NotCompiled == [status |-> "None"]

Init ==
  /\ program \in Programs
  /\ alone \in BOOLEAN
  /\ state = IF alone THEN "Recording" ELSE "Idle"
  /\ graph = EmptyGraph
  /\ cache = <<>>
  /\ generation = 0 /\ held = {}
  /\ output = NotCompiled /\ recorded = 0

-----------------------------------------------------------------------------
\* Recording.

Begin ==
  /\ state = "Idle" /\ generation < MaxFrames
  /\ state' = "Recording"
  /\ graph' = EmptyGraph
  /\ output' = NotCompiled
  /\ UNCHANGED <<caller, cache, generation, held, recorded>>

\* A bound: a caller declares what its program has, and only then adds nodes.
Declared == graph.resources = program.resources
Declaring == state = "Recording" /\ ~Declared /\ output = NotCompiled
Change(g) == /\ graph' = g
             /\ UNCHANGED <<caller, state, cache, generation, held, output, recorded>>

AddResource ==
  /\ Declaring /\ Len(graph.resources) < Len(program.resources)
  /\ LET desc == program.resources[Len(graph.resources) + 1]
     IN Change([graph EXCEPT !.resources = Append(@, [desc EXCEPT !.initial = Unset, !.ready = FALSE])])

\* set_resource_initial_state, for what is not transient; set_history_state,
\* for a history resource.
SetState(r) ==
  /\ Declaring /\ graph.resources[r].lifetime # "Transient"
  /\ graph.resources[r].initial # program.resources[r].initial
  /\ Change([graph EXCEPT !.resources[r].initial = program.resources[r].initial])

SetReady(r) ==
  /\ Declaring /\ program.resources[r].ready /\ ~graph.resources[r].ready
  /\ Change([graph EXCEPT !.resources[r].ready = TRUE])

\* A dependency names a node of this recording, or one of an earlier frame or
\* of another graph whose id is unknown here.  What a FrameGraph used alone
\* orders is left to Depend.
Dependencies ==
  {{}} \cup IF alone THEN {}
            ELSE UNION {{{v}, {v, Len(graph.nodes) + 1}} : v \in NodeIds(graph)}

RecordNode(shape, deps) ==
  /\ state = "Recording" /\ Declared
  /\ Len(graph.nodes) < MaxNodes /\ recorded < MaxTotal
  /\ LET node == [queue |-> shape.queue, accesses |-> shape.accesses,
                  pass |-> shape.pass, deps |-> deps]
     IN graph' = AddNode(graph, node)
  /\ recorded' = recorded + Len(graph'.nodes) - Len(graph.nodes)
  /\ output' = NotCompiled
  /\ UNCHANGED <<caller, state, cache, generation, held>>

\* FrameGraph::add_dependency; the recorder does not offer it.
Depend(before, after) ==
  /\ alone /\ state = "Recording" /\ output = NotCompiled
  /\ before # after /\ Cardinality(graph.edges) < MaxEdges
  /\ Change(AddDependency(graph, before, after))

-----------------------------------------------------------------------------
\* Compiling.

\* Indexing past the last node ends the process.
Panics == Dangling(graph)

Hits == {i \in DOMAIN cache : cache[i].structure = Structure(graph)}

\* restore makes the entry the most recent; insert drops the oldest ones.
Cached(entry) ==
  LET kept == SelectSeq(cache, LAMBDA e : e # entry)
      room == IF Hits # {} \/ Len(kept) < CacheEntries THEN kept ELSE Tail(kept)
  IN Append(room, entry)

CompileAlone ==
  /\ alone /\ state = "Recording" /\ output = NotCompiled /\ ~Panics
  /\ output' = Compile(graph)
  /\ UNCHANGED <<caller, state, graph, cache, generation, held, recorded>>

\* A refused graph goes on recording; nothing of it is cached.
Submit ==
  /\ ~alone /\ state = "Recording" /\ graph.nodes # <<>> /\ ~Panics
  /\ LET entry == IF Hits # {} THEN cache[CHOOSE i \in Hits : TRUE]
                  ELSE [structure |-> Structure(graph), template |-> Template(graph)]
         result == Complete(graph, entry.template)
     IN /\ output' = result
        /\ IF result.status # "Ok" THEN UNCHANGED <<state, cache, generation, held>>
           ELSE /\ cache' = Cached(entry)
                /\ \* retained bytes over the ceiling: compiled and cached, not submitted
                   \/ UNCHANGED <<state, generation, held>>
                   \/ /\ state' = "Submitted"
                      /\ generation' = generation + 1
                      /\ held' = held \cup {generation + 1}
  /\ UNCHANGED <<caller, graph, recorded>>

Panic ==
  /\ state = "Recording" /\ Panics
  /\ alone \/ graph.nodes # <<>>
  /\ state' = "Panicked"
  /\ UNCHANGED <<caller, graph, cache, generation, held, output, recorded>>

-----------------------------------------------------------------------------
\* After the submission.

\* finish takes the submission by value: a refused one is gone as well.
Finish(g) ==
  /\ held' = held \ {g}
  /\ IF state = "Submitted" /\ g = generation
     THEN state' = "Idle" /\ graph' = EmptyGraph
     ELSE UNCHANGED <<state, graph>>
  /\ UNCHANGED <<caller, cache, generation, output, recorded>>

Abort ==
  /\ ~alone /\ state \in {"Recording", "Submitted"}
  /\ state' = "Idle" /\ graph' = EmptyGraph
  /\ UNCHANGED <<caller, cache, generation, held, output, recorded>>

InvalidateTemplates ==
  /\ cache # <<>> /\ cache' = <<>>
  /\ UNCHANGED <<caller, state, graph, generation, held, output, recorded>>

Next ==
  \/ Begin \/ AddResource
  \/ \E r \in DOMAIN graph.resources : SetState(r) \/ SetReady(r)
  \/ \E shape \in program.shapes, deps \in Dependencies : RecordNode(shape, deps)
  \/ \E u, v \in NodeIds(graph) : Depend(u, v)
  \/ CompileAlone \/ Submit \/ Panic
  \/ \E g \in held : Finish(g)
  \/ Abort \/ InvalidateTemplates

Spec == Init /\ [][Next]_vars

-----------------------------------------------------------------------------
\* What a compiled graph means.

Compiled == output.status = "Ok" /\ state \in {"Recording", "Submitted"}
NodeAt(i) == graph.nodes[output.order[i]]

\* Nodes ordered for whoever runs each queue by itself.
Ordered ==
  LET At(v) == Position(output.order, v)
      sameQueue == {p \in NodeIds(graph) \X NodeIds(graph) :
                      graph.nodes[p[1]].queue = graph.nodes[p[2]].queue /\ At(p[1]) < At(p[2])}
      waited == {<<w.source, w.node>> : w \in {x \in output.waits : x.source # 0}}
  IN Closure(Len(graph.nodes), sameQueue \cup waited)

\* Cells of a resource.
CellsOf(r, range) == {<<r, c>> : c \in Cells(range)}
AllCells == UNION {CellsOf(r, graph.resources[r].full) : r \in DOMAIN graph.resources}

Conflict(u, v) ==
  \E a \in AccessesOf(graph.nodes[u]), b \in AccessesOf(graph.nodes[v]) :
    /\ CellsOf(a.resource, a.range) \cap CellsOf(b.resource, b.range) # {}
    /\ IsWrite(a) \/ IsWrite(b)

\* The state of every cell once the first k nodes have run.
Established ==
  LET At[k \in 0 .. Len(output.order)] ==
        IF k = 0 THEN [c \in AllCells |-> graph.resources[c[1]].initial]
        ELSE [c \in AllCells |->
                LET met == {t \in output.transitions :
                              t.node = output.order[k] /\ c \in CellsOf(t.resource, t.range)}
                IN IF met = {} THEN At[k - 1][c] ELSE (CHOOSE t \in met : TRUE).after]
  IN At

\* Contents of attachments, as the list of what made them: undefined, cleared,
\* or drawn over by a node.
Loaded(pass, contents) ==
  [r \in DOMAIN contents |->
     IF r \notin Attachments(pass) \/ pass.load = "Load" THEN contents[r]
     ELSE IF pass.load = "Clear" THEN <<"Clear">> ELSE <<"Undefined">>]
Stored(pass, contents) ==
  [r \in DOMAIN contents |->
     IF r \in Attachments(pass) /\ pass.store = "Discard" THEN <<"Undefined">> ELSE contents[r]]
Drawn(node, v, contents) ==
  [r \in DOMAIN contents |->
     IF r \in Attachments(node.pass) THEN Append(contents[r], v) ELSE contents[r]]
Before == [r \in DOMAIN graph.resources |-> <<"Before">>]

\* Every node as a pass of its own.
ContentsUnmerged ==
  FoldLeft(LAMBDA c, v : LET n == graph.nodes[v]
                         IN Stored(n.pass, Drawn(n, v, Loaded(n.pass, c))),
           Before, output.order)
\* As the plan has it; ok while every pass node runs inside a pass on its own
\* attachments, and no barrier or other node does.
PlanRun ==
  LET Do(s, a) ==
        CASE a.kind = "Sync" -> [s EXCEPT !.ok = @ /\ (s.pass = NoPass \/ a.barriers = {})]
          [] a.kind = "BeginPass" -> [pass |-> a.info, contents |-> Loaded(a.info, s.contents),
                                      ok |-> s.ok /\ s.pass = NoPass]
          [] a.kind = "EndPass" -> [s EXCEPT !.pass = NoPass, !.contents = Stored(s.pass, @)]
          [] a.kind = "Execute" ->
               [s EXCEPT !.contents = Drawn(graph.nodes[a.node], a.node, @),
                         !.ok = @ /\ Attachments(graph.nodes[a.node].pass) = Attachments(s.pass)]
  IN FoldLeft(Do, [pass |-> NoPass, contents |-> Before, ok |-> TRUE], output.plan)

\* Cells of each resource written, and not discarded since, before the k-th node.
Defined(order) ==
  LET At[k \in 1 .. Len(order) + 1] ==
        IF k = 1 THEN {}
        ELSE LET node == graph.nodes[order[k - 1]]
                 all(S) == UNION {CellsOf(a.resource, a.range) : a \in S}
                 lost == IF node.pass.store # "Discard" THEN {}
                         ELSE UNION {all(AttachmentAccess(node, r)) : r \in Attachments(node.pass)}
             IN (At[k - 1] \cup all({a \in AccessesOf(node) : IsWrite(a)})) \ lost
  IN At
LoadsOf(node) ==
  IF node.pass.load # "Load" THEN {}
  ELSE UNION {UNION {CellsOf(r, a.range) : a \in AttachmentAccess(node, r)} :
                r \in {x \in Attachments(node.pass) : graph.resources[x].lifetime = "Transient"}}

-----------------------------------------------------------------------------
\* Properties.

\* Two nodes of which one writes what the other touches are ordered by a queue
\* or by waits, also across queues, and as the explicit dependencies say
\* (build_hazards_into, build_waits_into).
ConflictsOrdered ==
  Compiled => \A u, v \in NodeIds(graph) :
    /\ u # v /\ Conflict(u, v) => <<u, v>> \in Ordered \/ <<v, u>> \in Ordered
    /\ <<u, v>> \in graph.edges => <<u, v>> \in Ordered
    /\ <<u, u>> \notin Ordered

\* Each transition starts from the state the range is really in; when a node
\* runs, all it touches is in the state it declared and the tokens of its
\* resources have been waited for; and a history resource is reported in the
\* state all its used parts ended in (build_transitions_into).
StatesEstablished ==
  Compiled =>
    /\ \A k \in DOMAIN output.order :
         /\ \A t \in output.transitions : t.node = output.order[k] =>
              \A c \in CellsOf(t.resource, t.range) : Established[k - 1][c] = t.before
         /\ \A a \in AccessesOf(NodeAt(k)) :
              /\ \A c \in CellsOf(a.resource, a.range) : Established[k][c] = a.state
              /\ graph.resources[a.resource].ready =>
                   \E w \in output.waits :
                     w.external = a.resource /\ Position(output.order, w.node) <= k
    /\ \A r \in DOMAIN graph.resources : output.history[r] # Unset =>
         \A c \in CellsOf(r, graph.resources[r].full) :
           Established[Len(output.order)][c] \in {output.history[r], Unset}

\* Merging passes changes no contents: every attachment ends with what the
\* nodes would leave in passes of their own, and no barrier falls into a pass
\* (coalesce_passes_into, build_execution_plan_into).
MergingInvisible ==
  Compiled => PlanRun.ok /\ PlanRun.contents = ContentsUnmerged

\* A graph is refused for a load exactly when some pass loads a part of a
\* transient attachment that no earlier node wrote, or that was discarded since
\* (validate_transient_attachment_loads).
LoadsDefined ==
  LET undefined(order) == \E k \in DOMAIN order :
        ~(LoadsOf(graph.nodes[order[k]]) \subseteq Defined(order)[k])
  IN /\ Compiled => ~undefined(output.order)
     /\ output.status = "InvalidPass" /\ state # "Idle" =>
          LET n == Len(graph.nodes)
          IN undefined(Topological(n, graph.edges \cup Hazards(graph, Topological(n, graph.edges))))

\* What the passes are allowed to do and what merging leaves of it.
PassesSound == MergingInvisible /\ LoadsDefined

\* A submission is what a fresh compile of its graph gives, whatever was cached
\* before: names, tokens and states are not in the key, and are recomputed
\* (compile_cached_into, GraphTemplateCache).
CacheTransparent ==
  ~alone /\ output # NotCompiled /\ state \in {"Recording", "Submitted"} =>
    output = Compile(graph)

=============================================================================
