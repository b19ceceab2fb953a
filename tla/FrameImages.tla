---------------------------- MODULE FrameImages ----------------------------
(***************************************************************************)
(* The images of a frame: how the context records draws, copies, readbacks *)
(* and samples of textures, managed targets and the surface as nodes of a  *)
(* frame graph, what states it imports each image in, and what the Vulkan  *)
(* backend's barriers and passes then do to the layouts and the contents   *)
(* of the images.                                                          *)
(*                                                                         *)
(* An image is <<name, part>>: the color of a texture, of a target or of   *)
(* the surface; the depth of a target or of the surface; the multisampled  *)
(* storage of a target that has one.  Every target has a depth.  Buffers,  *)
(* tokens and captures of the surface are left out.                        *)
(***************************************************************************)
EXTENDS GraphCompiler

CONSTANTS
  Textures,    \* published textures
  Single,      \* names of targets of one sample
  Multi,       \* names of multisampled targets
  None,
  Worlds,      \* sets of names: the textures and targets a program uses
  MaxNodes,    \* bound: nodes of a recording, the present node aside
  MaxTotal,    \* bound: nodes recorded in all
  MaxFrames    \* bound: recordings

ASSUME ImagesAssumption ==
  /\ None \notin Single \cup Multi
  /\ \A w \in Worlds : w \subseteq Textures \cup Single \cup Multi
  /\ {MaxNodes, MaxTotal, MaxFrames} \subseteq Nat

Targets == Single \cup Multi
Screen == "Screen"
Color(name) == <<name, "Color">>
Depth(name) == <<name, "Depth">>
Samples(name) == <<name, "Samples">>
Images == {Color(n) : n \in Textures \cup Targets \cup {Screen}}
          \cup {Depth(n) : n \in Targets \cup {Screen}} \cup {Samples(n) : n \in Multi}

VARIABLES
  world,       \* what the program at hand uses
  recording,   \* frame.state() is Recording
  surface,     \* active_surface is set
  target,      \* frame_render_target
  load,        \* frame_render_target_load
  imports,     \* image of each graph resource: frame_resources, frame_surface, frame_depth
  graph,       \* the graph being recorded
  work,        \* payload of each node
  states,      \* frame_render_target_states
  hasGraphics, \* frame_has_graphics
  alive,       \* targets that exist
  lastState,   \* last_state of each target
  initialized, \* swapchain_initialized
  layout,      \* the layout each image is in once all submitted work has run
  defined,     \* images whose contents are defined then
  report,      \* what the last submission came to
  excused,     \* history: names the properties make exceptions for
  frames,      \* recordings begun
  recorded     \* nodes recorded so far, for the bound

frameVars == <<recording, surface, target, load, imports, graph, work, states, hasGraphics>>
nativeVars == <<initialized, layout, defined>>
bounds == <<world, frames, recorded>>
vars == <<frameVars, alive, lastState, nativeVars, report, excused, bounds>>

State(queue, access) == [queue |-> queue, access |-> access]
\* The fragment stage's read, in which textures are imported, is a state of its own.
Imported == State("Graphics", "FragmentSampledRead")
Sampled(queue) == State(queue, "SampledRead")
ColorWrite == State("Graphics", "ColorAttachmentWrite")
DepthWrite == State("Graphics", "DepthStencilWrite")
Read == State("Transfer", "TransferRead")
Write == State("Transfer", "TransferWrite")
Present == State("Graphics", "Present")

\* vulkan_state.
Layout(state) ==
  CASE state = Unset -> "Undefined"
    [] state.access \in {"FragmentSampledRead", "SampledRead"} -> "ShaderReadOnly"
    [] state.access = "ColorAttachmentWrite" -> "ColorAttachment"
    [] state.access = "DepthStencilWrite" -> "DepthAttachment"
    [] state.access = "TransferRead" -> "TransferSource"
    [] state.access = "TransferWrite" -> "TransferDestination"
    [] state.access = "Present" -> "PresentSource"

\* astray: images found in another layout than a command says; lost: contents
\* dropped that should last; accepted: what validate_frame_plan says.
NoReport == [astray |-> {}, lost |-> {}, accepted |-> TRUE]

Init ==
  /\ world \in Worlds
  /\ recording = FALSE /\ surface = FALSE /\ target = None /\ load = "Clear"
  /\ imports = <<>> /\ graph = EmptyGraph /\ work = <<>>
  /\ states = [t \in Targets |-> Unset] /\ hasGraphics = FALSE
  /\ alive = world \cap Targets /\ lastState = [t \in Targets |-> Unset]
  /\ initialized = FALSE
  /\ layout = [i \in Images |-> IF i[1] \in Textures THEN "ShaderReadOnly" ELSE "Undefined"]
  /\ defined = {Color(x) : x \in Textures}
  /\ report = NoReport /\ excused = {} /\ frames = 0 /\ recorded = 0

-----------------------------------------------------------------------------
\* Beginning and ending a recording.

\* start_recording clears what the recording before it left; here its end does.
Cleared ==
  /\ recording' = FALSE /\ surface' = FALSE /\ target' = None /\ load' = "Clear"
  /\ imports' = <<>> /\ graph' = EmptyGraph /\ work' = <<>>
  /\ states' = [t \in Targets |-> Unset] /\ hasGraphics' = FALSE

Begin ==
  /\ ~recording /\ frames < MaxFrames
  /\ recording' = TRUE /\ frames' = frames + 1
  /\ report' = NoReport
  /\ UNCHANGED <<surface, target, load, imports, graph, work, states, hasGraphics,
                 alive, lastState, nativeVars, excused, world, recorded>>

\* frame_abort, and execute_mesh on any error.
Abort ==
  /\ recording /\ Cleared
  /\ UNCHANGED <<alive, lastState, nativeVars, report, excused, bounds>>

Attachable == recording /\ ~surface /\ target = None
Kept == UNCHANGED <<recording, imports, graph, work, states, hasGraphics,
                    alive, lastState, nativeVars, report, excused, bounds>>

AttachSurface ==
  /\ Attachable
  /\ surface' = TRUE /\ UNCHANGED <<target, load>> /\ Kept

AttachTarget(t, policy) ==
  /\ Attachable /\ t \in alive
  /\ target' = t /\ load' = policy /\ UNCHANGED surface /\ Kept

-----------------------------------------------------------------------------
\* Recording nodes.

Whole == [m |-> <<0, 1>>, l |-> <<0, 1>>]

\* Fault: a target is always imported in no state.
InitialFresh(image) ==
  CASE image[2] = "Depth" -> Unset
    [] image = Color(Screen) -> Present
    [] image[1] \in Textures -> Imported
    [] OTHER -> Unset
\* The state each kind of image is imported in.
Initial(image) ==
  CASE image[2] = "Depth" -> Unset
    [] image = Color(Screen) -> Present
    [] image[1] \in Textures -> Imported
    [] OTHER -> lastState[image[1]]

\* Importing the images of a sequence one by one; each is imported once, and
\* the first depth serves the whole recording.
Import(images) ==
  LET Has(image, list) ==
        \E i \in DOMAIN list : list[i] = image \/ (image[2] = "Depth" /\ list[i][2] = "Depth")
      Add(s, image) ==
        IF Has(image, s.imports) THEN s
        ELSE [imports |-> Append(s.imports, image),
              graph |-> [s.graph EXCEPT !.resources = Append(@,
                [lifetime |-> "External", class |-> image[2], full |-> Whole,
                 initial |-> Initial(image), ready |-> FALSE])]]
  IN FoldLeft(Add, [imports |-> imports, graph |-> graph], images)

\* The resource an image was imported as.
ResourceOf(image, list) ==
  CHOOSE i \in DOMAIN list : list[i] = image \/ (image[2] = "Depth" /\ list[i][2] = "Depth")

\* accesses: a sequence of <<image, state>>.
Node(queue, accesses, pass, list) ==
  [queue |-> queue, pass |-> pass, deps |-> {},
   accesses |-> [k \in DOMAIN accesses |->
     [resource |-> ResourceOf(accesses[k][1], list), range |-> Whole, state |-> accesses[k][2]]]]

\* Imports the images of a node and adds it; a refused node leaves the imports.
\* marks: the targets whose state the call notes, when the node was accepted.
Record(queue, accesses, pass, payload, marks, graphics) ==
  LET s == Import([k \in DOMAIN accesses |-> accesses[k][1]])
      g == AddNode(s.graph, Node(queue, accesses, pass, s.imports))
      accepted == g # s.graph
  IN /\ recording /\ Len(graph.nodes) < MaxNodes /\ recorded < MaxTotal
     /\ imports' = s.imports
     /\ graph' = g
     /\ work' = IF accepted THEN Append(work, payload) ELSE work
     /\ states' = IF accepted THEN [t \in Targets |-> IF t \in DOMAIN marks THEN marks[t]
                                                      ELSE states[t]]
                  ELSE states
     /\ hasGraphics' = (hasGraphics \/ (graphics /\ accepted))
     /\ recorded' = IF accepted THEN recorded + 1 ELSE recorded
     /\ UNCHANGED <<recording, surface, target, load, alive, lastState, nativeVars,
                    report, excused, world, frames>>

NoMarks == [t \in {} |-> Unset]

\* copy_texture_regions and copy_render_target_regions, of whole images.  A copy
\* within one image is refused as feedback, and leaves it imported; for a texture,
\* whose import changes nothing else, it is left out.
CopyTexture(x, y) ==
  x # y /\ Record("Transfer", <<<<Color(x), Read>>, <<Color(y), Write>>>>, NoPass,
                   "Copy", NoMarks, FALSE)

CopyTarget(s, d) ==
  /\ {s, d} \subseteq alive \cap Single
  /\ Record("Transfer", <<<<Color(s), Read>>, <<Color(d), Write>>>>, NoPass,
            "Copy", (s :> Read) @@ (d :> Write), FALSE)

ReadbackTexture(x) ==
  Record("Transfer", <<<<Color(x), Read>>>>, NoPass, "Readback", NoMarks, FALSE)

ReadbackTarget(t) ==
  /\ t \in alive
  /\ Record("Transfer", <<<<Color(t), Read>>>>, NoPass, "Readback", t :> Read, FALSE)

SampleTarget(t) ==
  /\ t \in alive
  /\ target = t \/ Color(t) \in ToSet(imports)
  /\ Record("Graphics", <<<<Color(t), Sampled("Graphics")>>>>, NoPass,
            "Sample", t :> Sampled("Graphics"), FALSE)

TextureReads(queue) ==
  LET all == SetToSeq(Textures \cap world) IN [k \in DOMAIN all |-> <<Color(all[k]), Sampled(queue)>>]

Compute ==
  Record("Compute", TextureReads("Compute"), NoPass, "Compute", NoMarks, FALSE)

\* What a draw is drawn to; the depth imported first serves.
Drawable == target # None \/ surface
DrawnTo == IF target # None THEN target ELSE Screen
PassImages(depth) ==
  <<Color(DrawnTo)>> \o (IF depth THEN <<Depth(DrawnTo)>> ELSE <<>>)

\* The load operation of a draw, for its color and its depth.
PassLoad ==
  IF hasGraphics \/ load = "Preserve" \/ (target # None /\ Color(target) \in ToSet(imports))
  THEN "Load" ELSE "Clear"

\* execute_graphics and execute_mesh that succeed.
Draw(depth) ==
  /\ Drawable
  /\ LET list == Import(PassImages(depth)).imports
         pass == [colors |-> <<ResourceOf(Color(DrawnTo), list)>>,
                  depth |-> IF depth THEN ResourceOf(Depth(DrawnTo), list) ELSE 0,
                  area |-> DrawnTo, load |-> PassLoad, store |-> "Store"]
     IN Record("Graphics",
               <<<<Color(DrawnTo), ColorWrite>>>>
               \o (IF depth THEN <<<<Depth(DrawnTo), DepthWrite>>>> ELSE <<>>)
               \o TextureReads("Graphics"),
               pass, "Draw",
               IF target # None THEN target :> ColorWrite ELSE NoMarks, TRUE)

\* execute_graphics refused after its attachments are imported, or the color only.
FailedDraw(depth) ==
  /\ recording /\ Len(graph.nodes) < MaxNodes /\ Drawable
  /\ LET s == Import(PassImages(depth))
     IN /\ s.imports # imports
        /\ imports' = s.imports /\ graph' = s.graph
  /\ UNCHANGED <<recording, surface, target, load, work, states, hasGraphics,
                 alive, lastState, nativeVars, report, excused, bounds>>

-----------------------------------------------------------------------------
\* Targets.

\* destroy_render_target, which the C interface calls at any time: the record and
\* the image go (the backend keeps the image for the frames in flight); nodes
\* that name the target stay.  Bound: one target is gone at a time, and none
\* once the last recording is over.
Destroy(t) ==
  /\ t \in alive /\ alive = world \cap Targets
  /\ recording \/ frames < MaxFrames
  /\ alive' = alive \ {t}
  /\ target' = IF target = t THEN None ELSE target
  /\ lastState' = [lastState EXCEPT ![t] = Unset]
  /\ layout' = [i \in Images |-> IF i[1] = t THEN "Undefined" ELSE layout[i]]
  /\ defined' = {i \in defined : i[1] # t}
  /\ excused' = excused \ {t} /\ report' = NoReport
  /\ UNCHANGED <<recording, surface, load, imports, graph, work, states, hasGraphics,
                 initialized, bounds>>

\* create_render_target makes a new image of no known state.  Bound: a name is
\* taken again between recordings.
Create(t) ==
  /\ t \in (world \cap Targets) \ alive
  /\ ~recording /\ frames < MaxFrames
  /\ alive' = alive \cup {t}
  /\ UNCHANGED <<frameVars, lastState, nativeVars, report, excused, bounds>>

-----------------------------------------------------------------------------
\* What is submitted.

\* A frame that drew, and has no target now, presents the surface.
Presenting == hasGraphics /\ target = None
Ready == Presenting => surface /\ Color(Screen) \in ToSet(imports)
Full ==
  IF ~Presenting THEN graph
  ELSE AddNode(graph, Node("Graphics", <<<<Color(Screen), Present>>>>, NoPass, imports))
Payload(v) == IF v \in DOMAIN work THEN work[v] ELSE "Present"

\* Lowering finds no image for a target that is gone.
Lowered ==
  \A v \in NodeIds(graph) : \A a \in AccessesOf(graph.nodes[v]) :
    imports[a.resource][1] \in Targets => imports[a.resource][1] \in alive

-----------------------------------------------------------------------------
\* What Vulkan does with a plan.  s is [layout, defined, written, pass, astray,
\* lost]; written are the images this frame has drawn or copied to.

\* A barrier of an image: from a layout that is not undefined it must be the
\* one the image is in; from the undefined one the contents are lost.
Shift(s, image, old, new) ==
  [s EXCEPT !.layout[image] = new,
            !.astray = IF old \in {"Undefined", s.layout[image]} THEN @ ELSE @ \cup {image},
            !.lost = IF old = "Undefined" THEN @ \cup ({image} \cap s.defined) ELSE @,
            !.defined = IF old = "Undefined" THEN @ \ {image} ELSE @]

\* The layout a barrier leaves; a surface image not yet presented has none.
OldLayout(image, before) ==
  IF image = Color(Screen) /\ before = Present /\ ~initialized
  THEN "Undefined" ELSE Layout(before)

\* record_barrier and record_texture_barrier: multisampled storage enters with
\* its image, from nothing when its image does.
Barrier(s, t) ==
  LET image == imports[t.resource]
      old == OldLayout(image, t.before)
      new == Layout(t.after)
      main == Shift(s, image, old, new)
  IN IF image[1] \in Multi /\ image[2] = "Color" /\ new = "ColorAttachment"
     THEN Shift(main, Samples(image[1]), IF old = "Undefined" THEN old ELSE new, new)
     ELSE main

\* What a pass renders its color into.
Storage(pass) ==
  LET color == imports[pass.colors[1]]
  IN IF color[1] \in Multi THEN Samples(color[1]) ELSE color
Attached(pass) == {Storage(pass)} \cup (IF pass.depth = 0 THEN {} ELSE {imports[pass.depth]})

BeginPass(s, pass) ==
  IF pass.load = "Clear"
  THEN [s EXCEPT !.pass = pass,
                 !.defined = @ \cup Attached(pass),
                 !.lost = @ \cup {i \in Attached(pass) : i \in s.written \/ load = "Preserve"}]
  ELSE [s EXCEPT !.pass = pass]

\* The end of a multisampled pass resolves it into the sampled image.
EndPass(s) ==
  LET color == imports[s.pass.colors[1]]
      resolved == IF color[1] \in Multi THEN {color} ELSE {}
  IN [s EXCEPT !.pass = NoPass,
               !.written = @ \cup Attached(s.pass) \cup resolved,
               !.defined = IF Storage(s.pass) \in @ THEN @ \cup resolved ELSE @ \ resolved]

\* A node runs with its images in the layouts of their states; a readback
\* leaves its image readable by shaders.
Run(s, v) ==
  LET node == Full.nodes[v]
      image(a) == imports[a.resource]
      wrong == {image(a) : a \in {x \in AccessesOf(node) : s.layout[image(x)] # Layout(x.state)}}
      t == [s EXCEPT !.astray = @ \cup wrong]
      from == image(node.accesses[1])
      into == image(node.accesses[2])
  IN CASE Payload(v) = "Readback" -> [t EXCEPT !.layout[from] = "ShaderReadOnly"]
       [] Payload(v) = "Copy" -> [t EXCEPT !.written = @ \cup {into},
                                        !.defined = IF from \in @ THEN @ \cup {into} ELSE @ \ {into}]
       [] OTHER -> t

Do(s, action) ==
  CASE action.kind = "Sync" -> FoldSet(LAMBDA r, t : Barrier(t, r), s, action.barriers)
    [] action.kind = "BeginPass" -> BeginPass(s, action.info)
    [] action.kind = "EndPass" -> EndPass(s)
    [] action.kind = "Execute" -> Run(s, action.node)

\* validate_frame_plan: draws in passes and all else outside, nothing after the
\* present node, which there is when the surface or its depth is used.
Accepts(plan) ==
  LET Step(s, a) ==
        CASE a.kind = "Sync" -> [s EXCEPT !.surface = @ \/ \E b \in a.barriers :
                                                            imports[b.resource][1] = Screen]
          [] a.kind = "BeginPass" -> [s EXCEPT !.ok = @ /\ ~s.pass, !.pass = TRUE,
                                               !.surface = @ \/ imports[a.info.colors[1]] = Color(Screen)]
          [] a.kind = "EndPass" -> [s EXCEPT !.ok = @ /\ s.pass, !.pass = FALSE]
          [] a.kind = "Execute" -> [s EXCEPT !.ok = @ /\ s.pass = (Payload(a.node) = "Draw"),
                                             !.presents = Payload(a.node) = "Present"]
      end == FoldLeft(Step, [ok |-> TRUE, pass |-> FALSE, surface |-> FALSE, presents |-> FALSE], plan)
  IN /\ end.ok /\ ~end.pass
     /\ end.surface => end.presents
     /\ \A i \in DOMAIN plan : plan[i].kind = "Execute" /\ Payload(plan[i].node) = "Present" =>
                                 i = Len(plan)

-----------------------------------------------------------------------------
\* frame_submit.

Names(kind) ==
  {imports[graph.nodes[v].accesses[k].resource][1] :
     <<v, k>> \in {<<u, j>> \in NodeIds(graph) \X {1, 2} :
                    work[u] = kind /\ j \in DOMAIN graph.nodes[u].accesses}}

\* New multisampled targets that something else than a draw comes to first.
UndrawnFirst ==
  {t \in Multi : lastState[t] = Unset /\
     \E v \in NodeIds(graph) :
       /\ \E a \in AccessesOf(graph.nodes[v]) : imports[a.resource] = Color(t)
       /\ work[v] # "Draw"
       /\ \A u \in 1 .. v - 1 : \A a \in AccessesOf(graph.nodes[u]) : imports[a.resource] # Color(t)}

\* A failed frame that had acquired its surface image recreates the swapchain.
Recreated(s) ==
  [s EXCEPT !.layout[Color(Screen)] = "Undefined", !.defined = @ \ {Color(Screen)}]

\* Fault: a frame that failed after it was executed counts as well.
NoteStatesAlways(end) ==
  lastState' = [t \in Targets |-> IF states[t] # Unset /\ t \in alive THEN states[t] ELSE lastState[t]]
\* The states noted while recording become the last states, when all went well.
NoteStates(end) ==
  lastState' = [t \in Targets |-> IF end = "Ok" /\ states[t] # Unset /\ t \in alive
                                  THEN states[t] ELSE lastState[t]]

\* end: "Ok"; "Early", the backend fails before the queue has the work; "Late",
\* the work runs, but presenting it or collecting its readbacks fails.
Execute(plan, end) ==
  LET start == [layout |-> layout, defined |-> defined, written |-> {}, pass |-> NoPass,
                astray |-> {}, lost |-> {}]
      run == IF end = "Early" THEN start ELSE FoldLeft(Do, start, plan)
      done == IF end # "Ok" /\ Presenting THEN Recreated(run) ELSE run
  IN /\ end = "Early" => Presenting
     /\ layout' = done.layout
     /\ defined' = done.defined \ {Color(Screen)}
     /\ initialized' = (IF Presenting THEN end = "Ok" ELSE initialized)
     /\ report' = [astray |-> done.astray, lost |-> done.lost, accepted |-> TRUE]
     /\ NoteStates(end)
     /\ excused' = IF end = "Early" THEN excused
                   ELSE excused \cup Names("Readback") \cup (Names("Copy") \cap Textures)
                        \cup UndrawnFirst
                        \cup {t \in Targets : end = "Late" /\ states[t] # Unset}

\* An empty, unready or cyclic frame, and one of a target that is gone, is
\* refused before anything runs, and leaves what Abort leaves; so does an early
\* failure without a surface.
Submit ==
  /\ recording /\ Ready /\ Lowered /\ Len(graph.nodes) > 0
  /\ LET result == Compile(Full)
     IN /\ result.status = "Ok"
        /\ IF Accepts(result.plan) THEN \E end \in {"Ok", "Early", "Late"} : Execute(result.plan, end)
           ELSE /\ report' = [NoReport EXCEPT !.accepted = FALSE]
                /\ UNCHANGED <<nativeVars, lastState, excused>>
  /\ Cleared
  /\ UNCHANGED <<alive, bounds>>

Next ==
  \/ Begin \/ Abort \/ AttachSurface
  \/ \E t \in Targets, policy \in {"Clear", "Preserve"} : AttachTarget(t, policy)
  \/ \E x, y \in Textures \cap world : CopyTexture(x, y)
  \/ \E s, d \in Single : CopyTarget(s, d)
  \/ \E x \in Textures \cap world : ReadbackTexture(x)
  \/ \E t \in Targets : ReadbackTarget(t) \/ SampleTarget(t) \/ Destroy(t) \/ Create(t)
  \/ Compute
  \/ \E depth \in BOOLEAN : Draw(depth) \/ FailedDraw(depth)
  \/ Submit

Spec == Init /\ [][Next]_vars

-----------------------------------------------------------------------------
\* Properties.

\* A barrier names the layout its image is really in, and a command finds its
\* images in the layouts it was recorded for, frame after frame; but for images
\* read back, textures copied, multisampled targets something else than a draw
\* came to first, and targets of a frame that failed after it ran (last_state,
\* the states images are imported in, record_barrier).  And the backend accepts
\* every plan that compiles: no draw outside a pass, nothing else in one, and
\* one present at the end exactly when the surface is used (frame_submit,
\* configure_surface_recording, validate_frame_plan).
BarriersTrue == report.accepted /\ \A i \in report.astray : i[1] \in excused

\* No barrier and no load operation drops contents that should last: those of
\* a target between frames, and under Preserve; what a frame has drawn or
\* copied, for its later passes.  Depth and surface last no longer than a frame
\* (PassLoad, intern_render_target_resource).
ContentsKept ==
  \A i \in report.lost : i[1] \in excused \/ i[2] = "Depth"

=============================================================================
