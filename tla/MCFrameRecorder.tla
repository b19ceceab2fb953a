-------------------------- MODULE MCFrameRecorder --------------------------
\* Small instances of FrameRecorder: six callers of one or two resources each.
EXTENDS FrameRecorder

Rect(m1, m2, l1, l2) == [m |-> <<m1, m2>>, l |-> <<l1, l2>>]
Resource(lifetime, class, full, initial, ready) ==
  [lifetime |-> lifetime, class |-> class, full |-> full, initial |-> initial, ready |-> ready]
State(queue, access) == [queue |-> queue, access |-> access]
Access(queue, access, r, range) ==
  [resource |-> r, range |-> range, state |-> State(queue, access)]
Work(queue, accesses) == [queue |-> queue, accesses |-> accesses, pass |-> NoPass]
Pass(accesses, colors, load, store) ==
  [queue |-> "Graphics", accesses |-> accesses,
   pass |-> [colors |-> colors, depth |-> 0, area |-> 1, load |-> load, store |-> store]]

Two == Rect(0, 2, 0, 1)
First == Rect(0, 1, 0, 1)
Second == Rect(1, 2, 0, 1)
Image == Rect(0, 3, 0, 3)
Middle == Rect(1, 2, 1, 2)
Corner == Rect(0, 1, 0, 3)

Color(r, range) == Access("Graphics", "ColorAttachmentWrite", r, range)
Sampled(r, range) == Access("Graphics", "SampledRead", r, range)
Storage(r, range) == Access("Compute", "StorageReadWrite", r, range)
Sent(r, range) == Access("Transfer", "TransferWrite", r, range)

\* Buffers written and read in parts on three queues.
Buffers ==
  [resources |-> <<Resource("External", "Buffer", Two, State("Transfer", "TransferWrite"), TRUE),
                   Resource("Transient", "Buffer", Two, Unset, FALSE)>>,
   shapes |-> {Work("Compute", <<Storage(1, Two)>>),
               Work("Graphics", <<Sampled(1, First)>>),
               Work("Transfer", <<Sent(1, Second)>>),
               Work("Compute", <<Storage(2, First)>>),
               Work("Graphics", <<Sampled(2, Two)>>),
               Work("Compute", <<Storage(1, First), Storage(1, Second)>>),
               Work("Graphics", <<Sampled(2, First), Access("Graphics", "StorageWrite", 2, Two)>>)}]

\* Passes on one transient attachment, whole or by its first mip.
Attachment ==
  [resources |-> <<Resource("Transient", "Color", Two, Unset, FALSE)>>,
   shapes |-> {Pass(<<Color(1, range)>>, <<1>>, load, store) :
                 range \in {First, Two}, load \in {"Load", "Clear"}, store \in {"Store", "Discard"}}]

\* Passes on an external attachment and on another, and reads of the first.
Targets ==
  [resources |-> <<Resource("External", "Color", First, State("Graphics", "SampledRead"), FALSE),
                   Resource("Transient", "Color", First, Unset, FALSE)>>,
   shapes |-> {Pass(<<Color(1, First)>>, <<1>>, "Clear", "Store"),
               Pass(<<Color(1, First)>>, <<1>>, "Load", "Store"),
               Pass(<<Color(1, First)>>, <<1>>, "Load", "Discard"),
               Pass(<<Color(1, First), Color(2, First)>>, <<1, 2>>, "Clear", "Store"),
               Pass(<<Sampled(1, First), Color(2, First)>>, <<2>>, "Clear", "Store"),
               Work("Graphics", <<Sampled(1, First)>>),
               Work("Compute", <<Storage(1, First)>>)}]

\* Two transient targets, one drawn from the other.
Blur ==
  [resources |-> <<Resource("Transient", "Color", First, Unset, FALSE),
                   Resource("Transient", "Color", First, Unset, FALSE)>>,
   shapes |-> {Pass(<<Color(1, First)>>, <<1>>, "Clear", "Store"),
               Pass(<<Color(2, First)>>, <<2>>, "Clear", "Store"),
               Pass(<<Sampled(1, First), Color(2, First)>>, <<2>>, "Load", "Store"),
               Work("Compute", <<Storage(2, First)>>)}]

\* Subresources of a history image three by three, carried over or new.
Regions(initial) ==
  [resources |-> <<Resource("History", "Color", Image, initial, TRUE)>>,
   shapes |-> {Work("Graphics", <<Sampled(1, range)>>) : range \in {Image, Middle}}
              \cup {Work("Compute", <<Storage(1, range)>>) : range \in {Image, Middle, Corner}}
              \cup {Work("Transfer", <<Sent(1, Middle), Sent(1, Corner)>>)}]

AllPrograms == {Buffers, Attachment, Targets, Blur, Regions(Unset),
                Regions(State("Graphics", "SampledRead"))}
=============================================================================
