------------------------- MODULE PresentationProofs -------------------------
(***************************************************************************)
(* For any surfaces, slots, images, extents and bounds of Presentation: a  *)
(* semaphore is handed out for signaling only when nothing is left of its  *)
(* last signal, and nothing is destroyed or reset while it is in use.      *)
(*                                                                         *)
(* Both follow from PresentInv: the frames on the queue occupy slots in    *)
(* flight and images of their own (Flown), a finished semaphore has a      *)
(* signal pending exactly while its image waits for it (Paired), the       *)
(* slots whose semaphore may be signaled are known (Clean), and the call   *)
(* under way holds what it acquired (CallSound).                           *)
(***************************************************************************)
EXTENDS Presentation, TLAPS

Entry == [slot : Slot, image : 0..Images, signals : 0..Images]
ChainType ==
  [surface : Surfaces \cup {NoSurface}, stale : BOOLEAN, retired : BOOLEAN,
   image : [Image -> {"engine", "acquired", "queued"}], waits : [Image -> 0..Images]]
Shaped(v) ==
  /\ v = [chain |-> v.chain, extent |-> v.extent, depth |-> v.depth, cursor |-> v.cursor,
          inFlight |-> v.inFlight, gpu |-> v.gpu, torn |-> v.torn, twice |-> v.twice,
          available |-> v.available, finished |-> v.finished]
  /\ v.chain \in ChainType
  /\ v.cursor \in Slot /\ v.inFlight \subseteq Slot
  /\ v.gpu \in Seq(Entry)
  /\ v.available \in [0..Slots -> {"unsignaled", "acquiring", "signaled"}]
  /\ v.finished \in [Image -> {"none", "unsignaled", "pending", "signaled"}]

\* The frames on the queue occupy slots in flight, and each an image of its own,
\* whose presentation waits for it.
Flown(v) ==
  /\ \A k \in 1..Len(v.gpu) :
       /\ v.gpu[k].slot \in v.inFlight
       /\ v.gpu[k].image # 0 =>
            /\ v.gpu[k].signals = v.gpu[k].image
            /\ v.finished[v.gpu[k].image] = "pending"
            /\ v.chain.image[v.gpu[k].image] = "queued"
            /\ v.chain.waits[v.gpu[k].image] = v.gpu[k].image
  /\ \A j, k \in 1..Len(v.gpu) :
       v.gpu[j].image # 0 /\ v.gpu[j].image = v.gpu[k].image => j = k

\* An image that presentation does not hold has no signal left in its semaphore, and
\* a swapchain that can be acquired from has all its semaphores.
Paired(v) ==
  /\ \A i \in Image :
       /\ v.chain.waits[i] \in {0, i}
       /\ v.chain.image[i] # "queued" \/ v.chain.waits[i] = 0 =>
            v.finished[i] \in {"none", "unsignaled"}
  /\ v.chain.surface # NoSurface /\ ~v.chain.retired => \A i \in Image : v.finished[i] # "none"

\* What is left to hold while a refused presentation is recovered from.
Kept(v) == Shaped(v) /\ Paired(v) /\ ~v.torn /\ ~v.twice
Sound(v) == Kept(v) /\ Flown(v)

\* A slot's semaphore is at rest, or a frame on the queue waits for it, or the slot
\* is known.
Drawn(v, k) == \E j \in 1..Len(v.gpu) : v.gpu[j].slot = k /\ v.gpu[j].image # 0
Clean(v, known) ==
  \A k \in Slot : v.available[k] = "unsignaled" \/ k \in known \/ Drawn(v, k)
Acquiring == IF call.at = "record" /\ call.image # 0 THEN {call.slot} ELSE {}

CallType ==
  [at : {"idle", "execute", "fence", "acquire", "record", "present",
         "acquireUndrawn", "again", "swap"},
   slot : 0..Slots, image : 0..Images]
FrameType ==
  [on : BOOLEAN, target : BOOLEAN, surface : Surfaces \cup {NoSurface},
   graphics : BOOLEAN, depth : BOOLEAN]

Counted(x) ==
  x = [frames |-> x.frames, faults |-> x.faults, leaked |-> x.leaked,
       unrecovered |-> x.unrecovered]

\* What the call under way holds of the swapchain.
CallSound ==
  /\ call \in CallType /\ frame \in FrameType
  /\ Counted(seen)
  /\ call.image # 0 => call.at \in {"record", "swap"}
  /\ call.at = "execute" => frame.surface # NoSurface
  /\ call.at \in {"fence", "acquire", "record"} => call.slot \in Slot
  /\ call.at = "fence" /\ frame.graphics /\ ~frame.target => vk.chain.surface # NoSurface
  /\ call.at = "acquire" =>
       /\ vk.chain.surface # NoSurface
       /\ \A k \in 1..Len(vk.gpu) : vk.gpu[k].slot # call.slot
  /\ call.at = "record" /\ call.image # 0 =>
       /\ vk.chain.image[call.image] = "acquired"
       /\ vk.chain.surface # NoSurface /\ ~vk.chain.retired
  /\ call.at = "swap" => call.image # 0 /\ vk.chain.image[call.image] = "acquired"

PresentInv == Sound(vk) /\ Clean(vk, seen.leaked \cup Acquiring) /\ CallSound

-----------------------------------------------------------------------------
\* The native context.

LEMMA ImagesAre == Image \subseteq 1..Images /\ \A i \in Image : i \in 0..Images /\ i # 0
BY PresentationAssumption DEF Image, PresentationAssumption

LEMMA SlotsAre == Slot \subseteq 0..Slots /\ \A k \in Slot : k # 0
BY PresentationAssumption DEF Slot, PresentationAssumption

LEMMA ChainChanged ==
  ASSUME NEW c \in ChainType, NEW waits, NEW image, NEW d,
         d = [c EXCEPT !.waits = waits, !.image = image]
  PROVE  d = [surface |-> c.surface, stale |-> c.stale, retired |-> c.retired,
              image |-> image, waits |-> waits]
BY DEF ChainType

LEMMA IdleIs ==
  ASSUME NEW v, Shaped(v)
  PROVE  /\ Shaped(Idle(v)) /\ Idle(v).gpu = <<>> /\ Idle(v).inFlight = {}
         /\ Idle(v).torn = v.torn /\ Idle(v).twice = v.twice
         /\ Idle(v).cursor = v.cursor
         /\ Idle(v).chain.surface = v.chain.surface /\ Idle(v).chain.retired = v.chain.retired
         /\ \A i \in Image :
              /\ Idle(v).chain.waits[i] = 0
              /\ Idle(v).chain.image[i] = IF v.chain.image[i] = "acquired" THEN "acquired"
                                          ELSE "engine"
              /\ Idle(v).finished[i] = IF v.finished[i] = "none" THEN "none" ELSE "unsignaled"
         /\ \A k \in Slot :
              /\ Idle(v).available[k] \in {v.available[k], "unsignaled"}
              /\ Drawn(v, k) => Idle(v).available[k] = "unsignaled"
<1> DEFINE waited == {f.slot : f \in {g \in InQueue(v) : g.image # 0}}
                     \cup {0 : i \in {j \in Presenting(v) : v.chain.waits[j] = 0}}
           available == [k \in 0..Slots |-> IF k \in waited THEN "unsignaled" ELSE v.available[k]]
           finished == [i \in Image |-> IF v.finished[i] = "none" THEN "none" ELSE "unsignaled"]
           waits == [i \in Image |-> 0]
           image == [i \in Image |-> IF v.chain.image[i] = "acquired" THEN v.chain.image[i]
                                     ELSE "engine"]
           chain == [surface |-> v.chain.surface, stale |-> v.chain.stale,
                     retired |-> v.chain.retired, image |-> image, waits |-> waits]
<1>1. v.chain = [surface |-> v.chain.surface, stale |-> v.chain.stale,
                 retired |-> v.chain.retired, image |-> v.chain.image, waits |-> v.chain.waits]
  BY DEF Shaped, ChainType
<1>2. Idle(v) = [chain |-> chain, extent |-> v.extent, depth |-> v.depth,
                 cursor |-> v.cursor, inFlight |-> {}, gpu |-> <<>>, torn |-> v.torn,
                 twice |-> v.twice, available |-> available, finished |-> finished]
  <2>1. Idle(v) = [v EXCEPT !.gpu = <<>>, !.inFlight = {}, !.available = available,
                            !.finished = finished, !.chain.waits = waits,
                            !.chain.image = image]
    BY <1>1 DEF Idle, Shaped
  <2> HIDE DEF waited, available, finished, waits, image
  <2>2. Idle(v) = [v EXCEPT !.gpu = <<>>, !.inFlight = {}, !.available = available,
                            !.finished = finished,
                            !.chain = [v.chain EXCEPT !.waits = waits, !.image = image]]
    BY <2>1
  <2>3. v.chain \in ChainType
    BY DEF Shaped
  <2>4. [v.chain EXCEPT !.waits = waits, !.image = image] = chain
    BY ONLY <2>3, ChainChanged
  <2> HIDE DEF chain
  <2>5. Idle(v) = [v EXCEPT !.gpu = <<>>, !.inFlight = {}, !.available = available,
                            !.finished = finished, !.chain = chain]
    BY <2>2, <2>4
  <2>6. QED
    BY <2>5 DEF Shaped
<1>3. waits \in [Image -> 0..Images] /\ image \in [Image -> {"engine", "acquired", "queued"}]
  BY PresentationAssumption DEF PresentationAssumption, Shaped, ChainType
<1>4. /\ available \in [0..Slots -> {"unsignaled", "acquiring", "signaled"}]
      /\ finished \in [Image -> {"none", "unsignaled", "pending", "signaled"}]
  BY DEF Shaped
<1>5. ASSUME NEW k \in Slot
      PROVE  /\ available[k] \in {v.available[k], "unsignaled"}
             /\ Drawn(v, k) => available[k] = "unsignaled"
  <2>1. k \in 0..Slots
    BY SlotsAre
  <2>2. Drawn(v, k) => k \in waited
    <3>1. v.gpu \in Seq(Entry)
      BY DEF Shaped
    <3>2. ASSUME NEW j \in 1..Len(v.gpu) PROVE v.gpu[j] \in InQueue(v)
      BY <3>1 DEF InQueue, ToSet
    <3>3. QED
      BY <3>2 DEF Drawn
  <2> HIDE DEF waited
  <2>3. QED
    BY <2>1, <2>2
<1>6. \A i \in Image :
        /\ waits[i] = 0
        /\ image[i] = IF v.chain.image[i] = "acquired" THEN "acquired" ELSE "engine"
        /\ finished[i] = IF v.finished[i] = "none" THEN "none" ELSE "unsignaled"
  OBVIOUS
<1> HIDE DEF waits, image, available, finished
<1>7. chain \in ChainType
  BY <1>3 DEF Shaped, ChainType
<1>8. chain.surface = v.chain.surface /\ chain.retired = v.chain.retired
      /\ chain.image = image /\ chain.waits = waits
  OBVIOUS
<1> HIDE DEF chain
<1>9. <<>> \in Seq(Entry)
  OBVIOUS
<1>10. Shaped(Idle(v))
  BY <1>2, <1>4, <1>7, <1>9 DEF Shaped
<1>11. QED
  BY <1>2, <1>5, <1>6, <1>8, <1>10

\* After it nothing is in use, and the slots at rest are still at rest.
LEMMA IdleSound ==
  ASSUME NEW v, Kept(v), NEW known, Clean(v, known)
  PROVE  Sound(Idle(v)) /\ Clean(Idle(v), known)
<1>1. Shaped(v) /\ Paired(v)
  BY DEF Sound, Kept
<1>2. /\ Shaped(Idle(v)) /\ Idle(v).gpu = <<>>
      /\ Idle(v).torn = v.torn /\ Idle(v).twice = v.twice
      /\ Idle(v).chain.surface = v.chain.surface /\ Idle(v).chain.retired = v.chain.retired
      /\ \A i \in Image :
           /\ Idle(v).chain.waits[i] = 0
           /\ Idle(v).finished[i] = IF v.finished[i] = "none" THEN "none" ELSE "unsignaled"
      /\ \A k \in Slot :
           /\ Idle(v).available[k] \in {v.available[k], "unsignaled"}
           /\ Drawn(v, k) => Idle(v).available[k] = "unsignaled"
  BY <1>1, IdleIs
<1>3. 1..Len(Idle(v).gpu) = {}
  BY <1>2
<1>4. Flown(Idle(v))
  BY <1>3 DEF Flown
<1>5. Paired(Idle(v))
  BY <1>1, <1>2 DEF Paired
<1>6. Clean(Idle(v), known)
  BY <1>2 DEF Clean
<1>7. QED
  BY <1>2, <1>4, <1>5, <1>6 DEF Sound, Kept

\* Nothing is on the queue or with presentation.
Quiet(v) == v.gpu = <<>> /\ \A i \in Image : v.chain.image[i] # "queued"

LEMMA IdleQuiet ==
  ASSUME NEW v, Kept(v)
  PROVE  Quiet(Idle(v)) /\ Idle(v).chain.surface = v.chain.surface
BY IdleIs DEF Sound, Kept, Quiet

\* A context that has what another one has.
LEMMA SoundAlike ==
  ASSUME NEW v, Sound(v), NEW known, Clean(v, known), NEW w, Shaped(w), ~w.torn, ~w.twice,
         w.chain.surface = v.chain.surface, w.chain.retired = v.chain.retired,
         w.chain.image = v.chain.image, w.chain.waits = v.chain.waits, w.gpu = v.gpu,
         w.inFlight = v.inFlight, w.finished = v.finished, w.available = v.available
  PROVE  Sound(w) /\ Clean(w, known)
BY DEF Sound, Kept, Flown, Paired, Clean, Drawn

\* A context at rest is as sound as its swapchain.
LEMMA SoundAtRest ==
  ASSUME NEW v, NEW known, Clean(v, known), NEW w, Shaped(w), ~w.torn, ~w.twice,
         v.gpu = <<>>, w.gpu = <<>>, w.available = v.available, Paired(w)
  PROVE  Sound(w) /\ Clean(w, known)
<1>1. 1..Len(w.gpu) = {} /\ 1..Len(v.gpu) = {}
  OBVIOUS
<1>2. Flown(w) /\ Clean(w, known)
  BY <1>1 DEF Flown, Clean, Drawn
<1>3. QED
  BY <1>2 DEF Sound, Kept

\* A native context by its parts.
Native(c, e, d, cu, f, g, t, tw, a, fi) ==
  [chain |-> c, extent |-> e, depth |-> d, cursor |-> cu, inFlight |-> f, gpu |-> g,
   torn |-> t, twice |-> tw, available |-> a, finished |-> fi]

LEMMA NativeParts ==
  ASSUME NEW c, NEW e, NEW d, NEW cu, NEW f, NEW g, NEW t, NEW tw, NEW a, NEW fi, NEW w,
         w = Native(c, e, d, cu, f, g, t, tw, a, fi)
  PROVE  /\ w.chain = c /\ w.extent = e /\ w.depth = d /\ w.cursor = cu /\ w.inFlight = f
         /\ w.gpu = g /\ w.torn = t /\ w.twice = tw /\ w.available = a /\ w.finished = fi
         /\ w = Native(w.chain, w.extent, w.depth, w.cursor, w.inFlight, w.gpu, w.torn,
                       w.twice, w.available, w.finished)
BY DEF Native

LEMMA NativeShaped ==
  ASSUME NEW c \in ChainType, NEW e, NEW d, NEW cu \in Slot, NEW f \in SUBSET Slot,
         NEW g \in Seq(Entry), NEW t, NEW tw,
         NEW a \in [0..Slots -> {"unsignaled", "acquiring", "signaled"}],
         NEW fi \in [Image -> {"none", "unsignaled", "pending", "signaled"}], NEW w,
         w = Native(c, e, d, cu, f, g, t, tw, a, fi)
  PROVE  Shaped(w)
<1>1. /\ w.chain = c /\ w.extent = e /\ w.depth = d /\ w.cursor = cu /\ w.inFlight = f
      /\ w.gpu = g /\ w.torn = t /\ w.twice = tw /\ w.available = a /\ w.finished = fi
      /\ w = Native(w.chain, w.extent, w.depth, w.cursor, w.inFlight, w.gpu, w.torn,
                    w.twice, w.available, w.finished)
  BY NativeParts
<1>2. w = [chain |-> w.chain, extent |-> w.extent, depth |-> w.depth, cursor |-> w.cursor,
           inFlight |-> w.inFlight, gpu |-> w.gpu, torn |-> w.torn, twice |-> w.twice,
           available |-> w.available, finished |-> w.finished]
  BY <1>1 DEF Native
<1>3. QED
  BY <1>1, <1>2 DEF Shaped

\* The parts of a context that has the shape.
LEMMA ShapedParts ==
  ASSUME NEW v, Shaped(v)
  PROVE  /\ v = Native(v.chain, v.extent, v.depth, v.cursor, v.inFlight, v.gpu, v.torn,
                       v.twice, v.available, v.finished)
         /\ v.chain \in ChainType /\ v.cursor \in Slot /\ v.inFlight \in SUBSET Slot
         /\ v.gpu \in Seq(Entry)
         /\ v.available \in [0..Slots -> {"unsignaled", "acquiring", "signaled"}]
         /\ v.finished \in [Image -> {"none", "unsignaled", "pending", "signaled"}]
BY DEF Shaped, Native

LEMMA DepthGone ==
  ASSUME NEW v, Sound(v), Quiet(v), NEW known, Clean(v, known)
  PROVE  /\ Sound(DepthDestroyed(v)) /\ Clean(DepthDestroyed(v), known)
         /\ Quiet(DepthDestroyed(v)) /\ DepthDestroyed(v).chain = v.chain
<1> DEFINE torn == v.torn \/ Presenting(v) # {} \/ \E f \in InQueue(v) : f.image # 0
           w == DepthDestroyed(v)
<1>1. ~torn
  <2>1. Presenting(v) = {}
    BY DEF Presenting, Quiet
  <2>2. InQueue(v) = {}
    BY DEF InQueue, ToSet, Quiet
  <2>3. QED
    BY <2>1, <2>2 DEF Sound, Kept
<1>2. w = Native(v.chain, v.extent, 0, v.cursor, v.inFlight, v.gpu, torn, v.twice,
                 v.available, v.finished)
  <2>1. Destroying(v) = [v EXCEPT !.torn = torn]
    BY DEF Destroying, Sound, Kept, Shaped
  <2> HIDE DEF torn
  <2>2. Destroying(v) = Native(v.chain, v.extent, v.depth, v.cursor, v.inFlight, v.gpu, torn,
                               v.twice, v.available, v.finished)
    BY <2>1 DEF Sound, Kept, Shaped, Native
  <2>3. QED
    BY <2>2 DEF DepthDestroyed, Native
<1> HIDE DEF torn, w
<1>3. /\ w.chain = v.chain /\ w.gpu = v.gpu /\ w.inFlight = v.inFlight /\ w.cursor = v.cursor
      /\ w.finished = v.finished /\ w.available = v.available /\ w.torn = torn
      /\ w.twice = v.twice
  BY <1>2, NativeParts
<1>4. Shaped(w)
  BY <1>2, NativeShaped, ShapedParts DEF Sound, Kept
<1>5. Sound(w) /\ Clean(w, known)
  BY <1>1, <1>3, <1>4, SoundAlike DEF Sound, Kept
<1>6. QED
  BY <1>3, <1>5 DEF w, Quiet

\* A swapchain by its parts.
Chain(s, stale, retired, image, waits) ==
  [surface |-> s, stale |-> stale, retired |-> retired, image |-> image, waits |-> waits]

LEMMA ChainParts ==
  ASSUME NEW s \in Surfaces \cup {NoSurface}, NEW stale \in BOOLEAN, NEW retired \in BOOLEAN,
         NEW image \in [Image -> {"engine", "acquired", "queued"}],
         NEW waits \in [Image -> 0..Images], NEW c, c = Chain(s, stale, retired, image, waits)
  PROVE  /\ c \in ChainType
         /\ c.surface = s /\ c.stale = stale /\ c.retired = retired /\ c.image = image
         /\ c.waits = waits
BY DEF Chain, ChainType

LEMMA ChainIs ==
  ASSUME NEW c \in ChainType
  PROVE  /\ c = Chain(c.surface, c.stale, c.retired, c.image, c.waits)
         /\ c.surface \in Surfaces \cup {NoSurface} /\ c.stale \in BOOLEAN
         /\ c.retired \in BOOLEAN /\ c.image \in [Image -> {"engine", "acquired", "queued"}]
         /\ c.waits \in [Image -> 0..Images]
BY DEF Chain, ChainType

\* A swapchain just made for a surface, or none.
NewChain(s) == [NoChain EXCEPT !.surface = s]

LEMMA NewChainIs ==
  ASSUME NEW s \in Surfaces \cup {NoSurface}
  PROVE  /\ NewChain(s) \in ChainType /\ NewChain(s).surface = s /\ NewChain(s).retired = FALSE
         /\ \A i \in Image : NewChain(s).image[i] = "engine" /\ NewChain(s).waits[i] = 0
<1> DEFINE image == [i \in Image |-> "engine"]
           waits == [i \in Image |-> 0]
           no == FALSE
           c == NewChain(s)
<1>1. /\ image \in [Image -> {"engine", "acquired", "queued"}]
      /\ waits \in [Image -> 0..Images]
      /\ \A i \in Image : image[i] = "engine" /\ waits[i] = 0
  BY PresentationAssumption DEF PresentationAssumption
<1>2. NoChain = [surface |-> NoSurface, stale |-> FALSE, retired |-> FALSE,
                 image |-> image, waits |-> waits]
  BY DEF NoChain
<1> HIDE DEF image, waits
<1>3. c = Chain(s, no, no, image, waits)
  <2>1. NewChain(s) = [NoChain EXCEPT !.surface = s]
    BY DEF NewChain
  <2>2. NewChain(s) = [surface |-> s, stale |-> FALSE, retired |-> FALSE,
                       image |-> image, waits |-> waits]
    BY <1>2, <2>1
  <2>3. QED
    BY <2>2 DEF Chain
<1>4. no \in BOOLEAN /\ s \in Surfaces \cup {NoSurface}
  OBVIOUS
<1> HIDE DEF no, c
<1>5. /\ c \in ChainType /\ c.surface = s /\ c.retired = no /\ c.image = image
      /\ c.waits = waits
  BY ONLY <1>1, <1>3, <1>4, ChainParts
<1>6. QED
  BY <1>1, <1>5 DEF no, c

\* A context that has drained its queue and replaces its swapchain and its semaphores.
LEMMA RestAfter ==
  ASSUME NEW d, Sound(d), Quiet(d), NEW known, Clean(d, known),
         NEW c \in ChainType, NEW e, NEW cu \in Slot,
         NEW fi \in [Image -> {"none", "unsignaled", "pending", "signaled"}],
         NEW w, w = Native(c, e, d.depth, cu, d.inFlight, d.gpu, d.torn, d.twice,
                           d.available, fi),
         \A i \in Image : c.waits[i] \in {0, i} /\ fi[i] \in {"none", "unsignaled"},
         c.surface # NoSurface /\ ~c.retired => \A i \in Image : fi[i] # "none"
  PROVE  /\ Sound(w) /\ Clean(w, known)
         /\ w.chain = c
<1>1. /\ w.chain = c /\ w.inFlight = d.inFlight /\ w.gpu = d.gpu /\ w.torn = d.torn
      /\ w.twice = d.twice /\ w.available = d.available /\ w.finished = fi
  BY NativeParts
<1>2. Shaped(w)
  BY NativeShaped, ShapedParts DEF Sound, Kept
<1>3. Paired(w)
  BY <1>1 DEF Paired
<1>4. ~w.torn /\ ~w.twice /\ w.gpu = <<>> /\ d.gpu = <<>>
  BY <1>1 DEF Sound, Kept, Quiet
<1>5. QED
  BY <1>1, <1>2, <1>3, <1>4, SoundAtRest

LEMMA RecreatedSound ==
  ASSUME NEW v, Kept(v), NEW known, Clean(v, known), NEW s \in Surfaces \cup {NoSurface},
         NEW size, NEW o \in {"early", "late", "ok"}, NEW w,
         w = RecreateSwapchain(v, s, size, o)
  PROVE  Sound(w) /\ Clean(w, known) /\ (o = "ok" => w.chain.surface = s)
<1> DEFINE d == DepthDestroyed(Idle(v))
<1>1. Sound(Idle(v)) /\ Clean(Idle(v), known) /\ Quiet(Idle(v))
  BY IdleSound, IdleQuiet
<1>2. Sound(d) /\ Clean(d, known) /\ Quiet(d)
  BY <1>1, DepthGone
<1>3. w = Recreated(d, s, size, o)
  BY DEF RecreateSwapchain
<1> HIDE DEF d
<1>4. /\ d = Native(d.chain, d.extent, d.depth, d.cursor, d.inFlight, d.gpu, d.torn,
                    d.twice, d.available, d.finished)
      /\ d.chain \in ChainType /\ d.cursor \in Slot
      /\ d.finished \in [Image -> {"none", "unsignaled", "pending", "signaled"}]
  BY <1>2, ShapedParts DEF Sound, Kept
<1>5. \A i \in Image : d.chain.waits[i] \in {0, i}
  BY <1>2 DEF Sound, Kept, Paired
<1>6. CASE o = "early"
  BY <1>2, <1>3, <1>6 DEF Recreated
<1>7. CASE o = "late"
  <2> DEFINE none == [i \in Image |-> "none"]
             retired == d.chain.surface # NoSurface
             c == [d.chain EXCEPT !.retired = retired]
             c2 == Chain(d.chain.surface, d.chain.stale, retired, d.chain.image,
                         d.chain.waits)
  <2>1. /\ none \in [Image -> {"none", "unsignaled", "pending", "signaled"}]
        /\ \A i \in Image : none[i] = "none"
    OBVIOUS
  <2>2. w = [[d EXCEPT !.finished = none] EXCEPT !.chain.retired = retired]
    BY <1>3, <1>7 DEF Recreated
  <2>3. retired \in BOOLEAN
    OBVIOUS
  <2>4. c = c2
    BY <1>4 DEF Chain, ChainType
  <2>5. /\ c2 \in ChainType /\ c2.surface = d.chain.surface /\ c2.retired = retired
        /\ c2.waits = d.chain.waits
    <3> HIDE DEF retired
    <3>1. /\ d.chain.surface \in Surfaces \cup {NoSurface} /\ d.chain.stale \in BOOLEAN
          /\ d.chain.image \in [Image -> {"engine", "acquired", "queued"}]
          /\ d.chain.waits \in [Image -> 0..Images]
      BY <1>4, ChainIs
    <3>2. c2 = Chain(d.chain.surface, d.chain.stale, retired, d.chain.image, d.chain.waits)
      OBVIOUS
    <3> HIDE DEF c2
    <3>3. QED
      BY <2>3, <3>1, <3>2, ChainParts
  <2> HIDE DEF none
  <2>6. [d EXCEPT !.finished = none] =
          Native(d.chain, d.extent, d.depth, d.cursor, d.inFlight, d.gpu, d.torn,
                 d.twice, d.available, none)
    BY <1>4 DEF Native
  <2>7. w = [[d EXCEPT !.finished = none] EXCEPT !.chain = c]
    BY <2>2, <2>6 DEF Native
  <2> HIDE DEF c, c2
  <2>8. w = Native(c2, d.extent, d.depth, d.cursor, d.inFlight, d.gpu, d.torn,
                   d.twice, d.available, none)
    BY <2>4, <2>6, <2>7 DEF Native
  <2>9. \A i \in Image : c2.waits[i] \in {0, i} /\ none[i] \in {"none", "unsignaled"}
    BY <1>5, <2>1, <2>5
  <2>10. ~(c2.surface # NoSurface /\ ~c2.retired)
    BY <2>5
  <2>11. c2 \in ChainType
    BY <2>5
  <2> HIDE DEF retired
  <2>12. Sound(w) /\ Clean(w, known)
    BY ONLY <1>2, <1>4, <2>1, <2>8, <2>9, <2>10, <2>11, RestAfter
  <2>13. QED
    BY <1>7, <2>12
<1>8. CASE o = "ok"
  <2> DEFINE none == [i \in Image |-> "none"]
             fresh == [i \in Image |-> "unsignaled"]
             e == IF env.hostManaged THEN size ELSE env.window[s]
             c == NewChain(s)
  <2>1. /\ fresh \in [Image -> {"none", "unsignaled", "pending", "signaled"}]
        /\ \A i \in Image : fresh[i] = "unsignaled"
    OBVIOUS
  <2>2. /\ c \in ChainType /\ c.surface = s
        /\ \A i \in Image : c.waits[i] = 0
    BY NewChainIs
  <2>3. w = [[d EXCEPT !.finished = none] EXCEPT !.chain = c, !.finished = fresh,
                                                 !.extent = e]
    BY <1>3, <1>8 DEF Recreated, NewChain
  <2> HIDE DEF none, fresh, e, c
  <2>4. w = Native(c, e, d.depth, d.cursor, d.inFlight, d.gpu, d.torn, d.twice,
                   d.available, fresh)
    BY <1>4, <2>3 DEF Native
  <2>5. \A i \in Image : c.waits[i] \in {0, i} /\ fresh[i] \in {"none", "unsignaled"}
    BY <2>1, <2>2
  <2>6. QED
    BY <1>2, <1>4, <2>1, <2>2, <2>4, <2>5, RestAfter
<1>9. QED
  BY <1>6, <1>7, <1>8

LEMMA OutcomesAre ==
  ASSUME NEW s, NEW o \in Outcomes(s)
  PROVE  o.is \in {"early", "late", "ok"}
BY DEF Outcomes

\* prepare_surface leaves a sound context, with a swapchain when it succeeds.
LEMMA PreparedSound ==
  ASSUME NEW v, Sound(v), NEW known, Clean(v, known), NEW s \in Surfaces, NEW size,
         NEW r \in Prepared(v, s, size)
  PROVE  Sound(r.vk) /\ Clean(r.vk, known) /\ (r.ok => r.vk.chain.surface # NoSurface)
<1>1. NoSurface # s /\ s \in Surfaces \cup {NoSurface}
  BY PresentationAssumption DEF PresentationAssumption
<1>2. CASE size = 0
  BY <1>2 DEF Prepared
<1>3. CASE size # 0 /\ ~NeedsSwapchain(v, size)
  BY <1>3 DEF Prepared, NeedsSwapchain
<1>4. CASE size # 0 /\ NeedsSwapchain(v, size)
  <2>1. PICK o \in Outcomes(s) :
               r = [vk |-> RecreateSwapchain(v, s, size, o.is), ok |-> o.is = "ok",
                    cost |-> o.cost]
    BY <1>4 DEF Prepared
  <2>2. r.vk = RecreateSwapchain(v, s, size, o.is) /\ r.ok = (o.is = "ok")
    BY <2>1
  <2>3. o.is \in {"early", "late", "ok"}
    BY OutcomesAre
  <2>4. Sound(r.vk) /\ Clean(r.vk, known) /\ (o.is = "ok" => r.vk.chain.surface = s)
    BY <1>1, <2>2, <2>3, RecreatedSound DEF Sound
  <2>5. QED
    BY <1>1, <2>2, <2>4
<1>5. QED
  BY <1>2, <1>3, <1>4

LEMMA DepthEnsuredSound ==
  ASSUME NEW v, Sound(v), NEW known, Clean(v, known), NEW size, NEW ok \in BOOLEAN
  PROVE  /\ Sound(DepthEnsured(v, size, ok)) /\ Clean(DepthEnsured(v, size, ok), known)
         /\ DepthEnsured(v, size, ok).chain.surface = v.chain.surface
<1>1. CASE v.depth = size
  BY <1>1 DEF DepthEnsured
<1>2. CASE v.depth # size
  <2> DEFINE d == DepthDestroyed(Idle(v))
             x == IF ok THEN size ELSE 0
             w == DepthEnsured(v, size, ok)
  <2>1. /\ Sound(Idle(v)) /\ Clean(Idle(v), known) /\ Quiet(Idle(v))
        /\ Idle(v).chain.surface = v.chain.surface
    BY IdleSound, IdleQuiet DEF Sound
  <2>2. Sound(d) /\ Clean(d, known) /\ d.chain.surface = v.chain.surface
    BY <2>1, DepthGone
  <2>3. w = [d EXCEPT !.depth = x]
    BY <1>2 DEF DepthEnsured
  <2> HIDE DEF d, x, w
  <2>4. /\ d = Native(d.chain, d.extent, d.depth, d.cursor, d.inFlight, d.gpu, d.torn,
                      d.twice, d.available, d.finished)
        /\ d.chain \in ChainType /\ d.cursor \in Slot /\ d.inFlight \in SUBSET Slot
        /\ d.gpu \in Seq(Entry)
        /\ d.available \in [0..Slots -> {"unsignaled", "acquiring", "signaled"}]
        /\ d.finished \in [Image -> {"none", "unsignaled", "pending", "signaled"}]
    BY <2>2, ShapedParts DEF Sound, Kept
  <2>5. w = Native(d.chain, d.extent, x, d.cursor, d.inFlight, d.gpu, d.torn, d.twice,
                   d.available, d.finished)
    BY <2>3, <2>4 DEF Native
  <2>6. Shaped(w)
    BY <2>4, <2>5, NativeShaped
  <2>7. /\ w.chain = d.chain /\ w.gpu = d.gpu /\ w.inFlight = d.inFlight
        /\ w.finished = d.finished /\ w.available = d.available /\ w.torn = d.torn
        /\ w.twice = d.twice
    BY <2>5, NativeParts
  <2>8. Sound(w) /\ Clean(w, known)
    BY <2>2, <2>6, <2>7, SoundAlike DEF Sound, Kept
  <2>9. QED
    BY <2>2, <2>7, <2>8 DEF w
<1>3. QED
  BY <1>1, <1>2

LEMMA NoChainIs ==
  /\ NoChain = NewChain(NoSurface)
  /\ NoChain \in ChainType /\ NoChain.surface = NoSurface
  /\ \A i \in Image : NoChain.image[i] = "engine" /\ NoChain.waits[i] = 0
<1> DEFINE image == [i \in Image |-> "engine"]
           waits == [i \in Image |-> 0]
<1>1. NoChain = [surface |-> NoSurface, stale |-> FALSE, retired |-> FALSE,
                 image |-> image, waits |-> waits]
  BY DEF NoChain
<1> HIDE DEF image, waits
<1>2. NewChain(NoSurface) = [NoChain EXCEPT !.surface = NoSurface]
  BY DEF NewChain
<1>3. NewChain(NoSurface) = [surface |-> NoSurface, stale |-> FALSE, retired |-> FALSE,
                             image |-> image, waits |-> waits]
  BY <1>1, <1>2
<1>4. NoChain = NewChain(NoSurface)
  BY <1>1, <1>3
<1>5. NoSurface \in Surfaces \cup {NoSurface}
  OBVIOUS
<1>6. /\ NewChain(NoSurface) \in ChainType /\ NewChain(NoSurface).surface = NoSurface
      /\ \A i \in Image :
           NewChain(NoSurface).image[i] = "engine" /\ NewChain(NoSurface).waits[i] = 0
  BY ONLY <1>5, NewChainIs
<1>7. QED
  BY ONLY <1>4, <1>6

LEMMA SurfaceDestroyedSound ==
  ASSUME NEW v, Sound(v), NEW known, Clean(v, known)
  PROVE  Sound(SurfaceDestroyed(v)) /\ Clean(SurfaceDestroyed(v), known)
<1> DEFINE d == DepthDestroyed(Idle(v))
           c == NewChain(NoSurface)
           none == 0
           w == SurfaceDestroyed(v)
<1>1. Sound(Idle(v)) /\ Clean(Idle(v), known) /\ Quiet(Idle(v))
  BY IdleSound, IdleQuiet DEF Sound
<1>2. Sound(d) /\ Clean(d, known) /\ Quiet(d)
  BY <1>1, DepthGone
<1>3. NoChain = c
  BY NoChainIs
<1>4. w = [d EXCEPT !.chain = c, !.extent = none]
  BY <1>3 DEF SurfaceDestroyed
<1>5. /\ c \in ChainType /\ c.surface = NoSurface /\ \A i \in Image : c.waits[i] = 0
  BY NewChainIs
<1> HIDE DEF d, c, none, w
<1>6. /\ d = Native(d.chain, d.extent, d.depth, d.cursor, d.inFlight, d.gpu, d.torn,
                    d.twice, d.available, d.finished)
      /\ d.cursor \in Slot
      /\ d.finished \in [Image -> {"none", "unsignaled", "pending", "signaled"}]
  BY <1>2, ShapedParts DEF Sound, Kept
<1>7. w = Native(c, none, d.depth, d.cursor, d.inFlight, d.gpu, d.torn, d.twice,
                 d.available, d.finished)
  BY <1>4, <1>6 DEF Native
<1>8. \A i \in Image : c.waits[i] \in {0, i} /\ d.finished[i] \in {"none", "unsignaled"}
  BY <1>2, <1>5 DEF Sound, Kept, Paired, Quiet
<1>9. ~(c.surface # NoSurface /\ ~c.retired)
  BY <1>5
<1>10. c \in ChainType
  BY <1>5
<1>11. Sound(w) /\ Clean(w, known)
  BY ONLY <1>2, <1>6, <1>7, <1>8, <1>9, <1>10, RestAfter
<1>12. QED
  BY <1>11 DEF w

LEMMA NextSlot ==
  ASSUME NEW k \in Slot
  PROVE  (k % Slots) + 1 \in Slot
<1>1. Slots \in Nat /\ Slots > 0 /\ k \in Int
  BY PresentationAssumption DEF PresentationAssumption, Slot
<1>2. k % Slots \in 0..Slots - 1
  BY <1>1
<1>3. QED
  BY <1>1, <1>2 DEF Slot

\* prepare_frame_slot moves the cursor.
LEMMA CursorMoved ==
  ASSUME NEW v, Sound(v), NEW known, Clean(v, known), NEW w,
         w = [v EXCEPT !.cursor = (@ % Slots) + 1]
  PROVE  Sound(w) /\ Clean(w, known) /\ w.chain = v.chain /\ w.gpu = v.gpu
<1>1. /\ v = Native(v.chain, v.extent, v.depth, v.cursor, v.inFlight, v.gpu, v.torn,
                    v.twice, v.available, v.finished)
      /\ v.chain \in ChainType /\ v.cursor \in Slot /\ v.inFlight \in SUBSET Slot
      /\ v.gpu \in Seq(Entry)
      /\ v.available \in [0..Slots -> {"unsignaled", "acquiring", "signaled"}]
      /\ v.finished \in [Image -> {"none", "unsignaled", "pending", "signaled"}]
  BY ShapedParts DEF Sound, Kept
<1> DEFINE next == (v.cursor % Slots) + 1
<1>2. next \in Slot
  BY <1>1, NextSlot
<1>3. w = [v EXCEPT !.cursor = next]
  OBVIOUS
<1> HIDE DEF next
<1>4. w = Native(v.chain, v.extent, v.depth, next, v.inFlight, v.gpu, v.torn, v.twice,
                 v.available, v.finished)
  BY <1>1, <1>3 DEF Native
<1>5. Shaped(w)
  BY ONLY <1>1, <1>2, <1>4, NativeShaped
<1>6. /\ w.chain = v.chain /\ w.gpu = v.gpu /\ w.inFlight = v.inFlight
      /\ w.finished = v.finished /\ w.available = v.available /\ w.torn = v.torn
      /\ w.twice = v.twice
  BY ONLY <1>4, NativeParts
<1>7. Sound(w) /\ Clean(w, known)
  BY <1>5, <1>6, SoundAlike DEF Sound, Kept
<1>8. QED
  BY <1>6, <1>7

\* A swapchain whose images moved.
LEMMA ImagesMoved ==
  ASSUME NEW c \in ChainType, NEW image \in [Image -> {"engine", "acquired", "queued"}],
         NEW waits \in [Image -> 0..Images], NEW d,
         d = Chain(c.surface, c.stale, c.retired, image, waits)
  PROVE  /\ d \in ChainType
         /\ d.surface = c.surface /\ d.stale = c.stale /\ d.retired = c.retired
         /\ d.image = image /\ d.waits = waits
<1>1. /\ c.surface \in Surfaces \cup {NoSurface} /\ c.stale \in BOOLEAN
      /\ c.retired \in BOOLEAN
  BY ChainIs
<1>2. image \in [Image -> {"engine", "acquired", "queued"}] /\ waits \in [Image -> 0..Images]
  OBVIOUS
<1>3. d = Chain(c.surface, c.stale, c.retired, image, waits)
  OBVIOUS
<1>4. QED
  BY ONLY <1>1, <1>2, <1>3, ChainParts

\* An image the engine has is acquired: its slot is known.
LEMMA AcquiredSound ==
  ASSUME NEW v, Sound(v), NEW known, Clean(v, known), NEW k \in 0..Slots, NEW i \in Image,
         v.chain.image[i] = "engine", NEW w, w = Acquired(v, k, i)
  PROVE  /\ Sound(w) /\ Clean(w, known \cup {k}) /\ w.gpu = v.gpu
         /\ w.chain.image[i] = "acquired"
         /\ w.chain.surface = v.chain.surface /\ w.chain.retired = v.chain.retired
<1> DEFINE image == [v.chain.image EXCEPT ![i] = "acquired"]
           available == [v.available EXCEPT ![k] = IF v.available[k] = "unsignaled"
                                                   THEN "acquiring" ELSE v.available[k]]
           c == Chain(v.chain.surface, v.chain.stale, v.chain.retired, image, v.chain.waits)
<1>1. /\ v = Native(v.chain, v.extent, v.depth, v.cursor, v.inFlight, v.gpu, v.torn,
                    v.twice, v.available, v.finished)
      /\ v.chain \in ChainType /\ v.cursor \in Slot /\ v.inFlight \in SUBSET Slot
      /\ v.gpu \in Seq(Entry)
      /\ v.available \in [0..Slots -> {"unsignaled", "acquiring", "signaled"}]
      /\ v.finished \in [Image -> {"none", "unsignaled", "pending", "signaled"}]
  BY ShapedParts DEF Sound, Kept
<1>2. /\ v.chain = Chain(v.chain.surface, v.chain.stale, v.chain.retired, v.chain.image,
                         v.chain.waits)
      /\ v.chain.image \in [Image -> {"engine", "acquired", "queued"}]
      /\ v.chain.waits \in [Image -> 0..Images]
  BY <1>1, ChainIs
<1>3. /\ image \in [Image -> {"engine", "acquired", "queued"}]
      /\ image[i] = "acquired" /\ \A j \in Image : j # i => image[j] = v.chain.image[j]
  BY <1>2
<1>4. /\ available \in [0..Slots -> {"unsignaled", "acquiring", "signaled"}]
      /\ \A m \in 0..Slots : m # k => available[m] = v.available[m]
  BY <1>1
<1>5. w = Native(c, v.extent, v.depth, v.cursor, v.inFlight, v.gpu, v.torn, v.twice,
                 available, v.finished)
  <2>1. w = [v EXCEPT !.chain.image[i] = "acquired",
                      !.available[k] = IF @ = "unsignaled" THEN "acquiring" ELSE @]
    BY DEF Acquired
  <2>2. w = [v EXCEPT !.chain = [v.chain EXCEPT !.image = image], !.available = available]
    BY <2>1, <1>1, <1>2 DEF Native, Chain
  <2> HIDE DEF image, available
  <2>3. [v.chain EXCEPT !.image = image] = c
    BY <1>2 DEF Chain
  <2> HIDE DEF c
  <2>4. QED
    BY <1>1, <2>2, <2>3 DEF Native
<1>6. c = Chain(v.chain.surface, v.chain.stale, v.chain.retired, image, v.chain.waits)
  OBVIOUS
<1> HIDE DEF image, available, c
<1>7. /\ c \in ChainType
      /\ c.surface = v.chain.surface /\ c.retired = v.chain.retired
      /\ c.image = image /\ c.waits = v.chain.waits
  <2>1. v.chain \in ChainType
    BY <1>1
  <2>2. v.chain.waits \in [Image -> 0..Images]
    BY <1>2
  <2>3. image \in [Image -> {"engine", "acquired", "queued"}]
    BY <1>3
  <2>4. QED
    BY ONLY <1>6, <2>1, <2>2, <2>3, ImagesMoved
<1>8. Shaped(w)
  BY ONLY <1>1, <1>4, <1>5, <1>7, NativeShaped
<1>9. /\ w.chain = c /\ w.gpu = v.gpu /\ w.inFlight = v.inFlight
      /\ w.finished = v.finished /\ w.available = available /\ w.torn = v.torn
      /\ w.twice = v.twice
  BY ONLY <1>5, NativeParts
<1>10. Flown(w)
  <2>1. \A j \in 1..Len(v.gpu) : v.gpu[j] \in Entry
    BY <1>1
  <2>2. ASSUME NEW j \in 1..Len(v.gpu), v.gpu[j].image # 0
        PROVE  v.gpu[j].image \in Image /\ v.gpu[j].image # i
    <3>1. v.gpu[j].image \in Image
      BY <2>1, <2>2, PresentationAssumption DEF Entry, Image, PresentationAssumption
    <3>2. v.chain.image[v.gpu[j].image] = "queued"
      BY <2>2 DEF Sound, Flown
    <3>3. QED
      BY <3>1, <3>2
  <2>3. QED
    BY <1>3, <1>7, <1>9, <2>2 DEF Sound, Flown
<1>11. Paired(w)
  BY <1>3, <1>7, <1>9 DEF Sound, Kept, Paired
<1>12. Clean(w, known \cup {k})
  BY <1>4, <1>9, SlotsAre DEF Clean, Drawn
<1>13. QED
  BY <1>3, <1>7, <1>8, <1>9, <1>10, <1>11, <1>12 DEF Sound, Kept

LEMMA Appended ==
  ASSUME NEW g \in Seq(Entry), NEW e \in Entry, NEW h, h = Append(g, e)
  PROVE  /\ h \in Seq(Entry) /\ Len(h) = Len(g) + 1 /\ Len(g) \in Nat
         /\ \A j \in 1..Len(g) : j \in 1..Len(h) /\ h[j] = g[j]
         /\ Len(g) + 1 \in 1..Len(h) /\ h[Len(g) + 1] = e
         /\ \A j \in 1..Len(h) : j \in 1..Len(g) \/ j = Len(g) + 1
OBVIOUS

\* A frame without an image is submitted and its slot marked.
LEMMA SubmittedUndrawn ==
  ASSUME NEW v, Sound(v), NEW known, Clean(v, known), NEW k \in Slot, NEW w,
         w = [Submitted(v, k, 0) EXCEPT !.inFlight = @ \cup {k}]
  PROVE  /\ Sound(w) /\ Clean(w, known) /\ w.chain = v.chain
<1> DEFINE e == [slot |-> k, image |-> 0, signals |-> 0]
           g == Append(v.gpu, e)
           f == v.inFlight \cup {k}
<1>1. /\ v = Native(v.chain, v.extent, v.depth, v.cursor, v.inFlight, v.gpu, v.torn,
                    v.twice, v.available, v.finished)
      /\ v.chain \in ChainType /\ v.cursor \in Slot /\ v.inFlight \in SUBSET Slot
      /\ v.gpu \in Seq(Entry)
      /\ v.available \in [0..Slots -> {"unsignaled", "acquiring", "signaled"}]
      /\ v.finished \in [Image -> {"none", "unsignaled", "pending", "signaled"}]
  BY ShapedParts DEF Sound, Kept
<1>2. e \in Entry /\ f \in SUBSET Slot /\ e.slot = k /\ e.image = 0
  BY <1>1, PresentationAssumption DEF Entry, PresentationAssumption
<1>3. Submitted(v, k, 0) = [v EXCEPT !.gpu = g]
  BY <1>1 DEF Submitted, SubmittedWith, Native
<1>4. Append(v.gpu, e) = g
  OBVIOUS
<1> HIDE DEF e
<1>5. /\ g \in Seq(Entry) /\ Len(g) = Len(v.gpu) + 1 /\ Len(v.gpu) \in Nat
      /\ \A j \in 1..Len(v.gpu) : j \in 1..Len(g) /\ g[j] = v.gpu[j]
      /\ Len(v.gpu) + 1 \in 1..Len(g) /\ g[Len(v.gpu) + 1] = e
      /\ \A j \in 1..Len(g) : j \in 1..Len(v.gpu) \/ j = Len(v.gpu) + 1
  BY <1>1, <1>2, Appended
<1>6. f = v.inFlight \cup {k}
  OBVIOUS
<1> HIDE DEF g, f
<1>7. Submitted(v, k, 0) = Native(v.chain, v.extent, v.depth, v.cursor, v.inFlight, g, v.torn,
                                  v.twice, v.available, v.finished)
  BY <1>1, <1>3 DEF Native
<1>8. w = Native(v.chain, v.extent, v.depth, v.cursor, f, g, v.torn, v.twice, v.available,
                 v.finished)
  BY <1>6, <1>7 DEF Native
<1>9. Shaped(w)
  <2>1. f \in SUBSET Slot /\ g \in Seq(Entry)
    BY <1>2, <1>5 DEF f
  <2>2. QED
    BY ONLY <1>1, <1>8, <2>1, NativeShaped
<1>10. /\ w.chain = v.chain /\ w.gpu = g /\ w.inFlight = f
       /\ w.finished = v.finished /\ w.available = v.available /\ w.torn = v.torn
       /\ w.twice = v.twice
  BY ONLY <1>8, NativeParts
<1>11. Flown(w)
  <2>1. ASSUME NEW j \in 1..Len(g)
        PROVE  /\ g[j].slot \in f
               /\ g[j].image # 0 => j \in 1..Len(v.gpu) /\ g[j] = v.gpu[j]
    <3>1. CASE j \in 1..Len(v.gpu)
      BY <1>5, <1>6, <3>1 DEF Sound, Flown
    <3>2. CASE j = Len(v.gpu) + 1
      BY <1>2, <1>5, <1>6, <3>2
    <3>3. QED
      BY <1>5, <3>1, <3>2
  <2>2. ASSUME NEW j \in 1..Len(g), g[j].image # 0
        PROVE  /\ g[j].signals = g[j].image /\ v.finished[g[j].image] = "pending"
               /\ v.chain.image[g[j].image] = "queued"
               /\ v.chain.waits[g[j].image] = g[j].image
    BY <2>1, <2>2 DEF Sound, Flown
  <2>3. ASSUME NEW j \in 1..Len(g), NEW m \in 1..Len(g), g[j].image # 0,
               g[j].image = g[m].image
        PROVE  j = m
    BY <2>1, <2>3 DEF Sound, Flown
  <2>4. QED
    BY <1>10, <2>1, <2>2, <2>3 DEF Flown
<1>12. Paired(w)
  BY <1>10 DEF Sound, Kept, Paired
<1>13. Clean(w, known)
  BY <1>5, <1>10 DEF Clean, Drawn
<1>14. QED
  BY <1>9, <1>10, <1>11, <1>12, <1>13 DEF Sound, Kept

LEMMA ChainRequeued ==
  ASSUME NEW c \in ChainType, NEW image, NEW waits, NEW d,
         d = [c EXCEPT !.image = image, !.waits = waits]
  PROVE  d = Chain(c.surface, c.stale, c.retired, image, waits)
BY DEF Chain, ChainType

\* A frame drawn on an acquired image is submitted: the image's semaphore was at rest,
\* and the slot's has now a frame that waits for it.
LEMMA SubmittedDrawn ==
  ASSUME NEW v, Sound(v), NEW k \in Slot, NEW known, Clean(v, known \cup {k}),
         NEW i \in Image, v.chain.image[i] = "acquired",
         v.chain.surface # NoSurface, ~v.chain.retired,
         NEW s, s = Submitted(v, k, i), NEW w, w = [s EXCEPT !.inFlight = @ \cup {k}]
  PROVE  /\ Kept(s) /\ Clean(s, known)
         /\ Sound(w) /\ Clean(w, known)
         /\ w.chain.surface = v.chain.surface /\ w.chain.retired = v.chain.retired
<1> DEFINE e == [slot |-> k, image |-> i, signals |-> i]
           g == Append(v.gpu, e)
           f == v.inFlight \cup {k}
           finished == [v.finished EXCEPT ![i] = "pending"]
           twice == v.twice \/ v.finished[i] # "unsignaled"
           image == [v.chain.image EXCEPT ![i] = "queued"]
           waits == [v.chain.waits EXCEPT ![i] = i]
           c == Chain(v.chain.surface, v.chain.stale, v.chain.retired, image, waits)
<1>1. /\ v = Native(v.chain, v.extent, v.depth, v.cursor, v.inFlight, v.gpu, v.torn,
                    v.twice, v.available, v.finished)
      /\ v.chain \in ChainType /\ v.cursor \in Slot /\ v.inFlight \in SUBSET Slot
      /\ v.gpu \in Seq(Entry)
      /\ v.available \in [0..Slots -> {"unsignaled", "acquiring", "signaled"}]
      /\ v.finished \in [Image -> {"none", "unsignaled", "pending", "signaled"}]
  BY ShapedParts DEF Sound, Kept
<1>2. /\ v.chain = Chain(v.chain.surface, v.chain.stale, v.chain.retired, v.chain.image,
                         v.chain.waits)
      /\ v.chain.image \in [Image -> {"engine", "acquired", "queued"}]
      /\ v.chain.waits \in [Image -> 0..Images]
  BY <1>1, ChainIs
<1>3. i # 0 /\ i \in 0..Images /\ k \in 0..Slots
  BY ImagesAre, SlotsAre
<1>4. e \in Entry /\ f \in SUBSET Slot /\ e.slot = k /\ e.image = i /\ e.signals = i
  BY <1>1, <1>3 DEF Entry
<1>5. /\ image \in [Image -> {"engine", "acquired", "queued"}]
      /\ waits \in [Image -> 0..Images]
      /\ image[i] = "queued" /\ \A j \in Image : j # i => image[j] = v.chain.image[j]
      /\ waits[i] = i /\ \A j \in Image : j # i => waits[j] = v.chain.waits[j]
  BY <1>2, <1>3
<1>6. /\ finished \in [Image -> {"none", "unsignaled", "pending", "signaled"}]
      /\ finished[i] = "pending" /\ \A j \in Image : j # i => finished[j] = v.finished[j]
  BY <1>1
<1>7. ~twice
  BY DEF Sound, Kept, Paired
<1>8. s = Native(c, v.extent, v.depth, v.cursor, v.inFlight, g, v.torn, twice,
                 v.available, finished)
  <2>1. s = [v EXCEPT !.gpu = g, !.twice = twice, !.finished[i] = "pending",
                      !.chain.image[i] = "queued", !.chain.waits[i] = i]
    BY <1>1, <1>3 DEF Submitted, SubmittedWith, Native
  <2>2. s = [v EXCEPT !.gpu = g, !.twice = twice, !.finished = finished,
                      !.chain.image = image, !.chain.waits = waits]
    BY <2>1, <1>1, <1>2 DEF Native, Chain
  <2> HIDE DEF image, waits, finished, g, twice
  <2>3. s = [v EXCEPT !.gpu = g, !.twice = twice, !.finished = finished,
                      !.chain = [v.chain EXCEPT !.image = image, !.waits = waits]]
    BY <2>2
  <2>4. [v.chain EXCEPT !.image = image, !.waits = waits] = c
    BY ONLY <1>1, ChainRequeued DEF c
  <2> HIDE DEF c
  <2>5. QED
    BY <1>1, <2>3, <2>4 DEF Native
<1>9. Append(v.gpu, e) = g
  OBVIOUS
<1> HIDE DEF e
<1>10. /\ g \in Seq(Entry) /\ Len(g) = Len(v.gpu) + 1 /\ Len(v.gpu) \in Nat
       /\ \A j \in 1..Len(v.gpu) : j \in 1..Len(g) /\ g[j] = v.gpu[j]
       /\ Len(v.gpu) + 1 \in 1..Len(g) /\ g[Len(v.gpu) + 1] = e
       /\ \A j \in 1..Len(g) : j \in 1..Len(v.gpu) \/ j = Len(v.gpu) + 1
  BY <1>1, <1>4, Appended
<1>11. c = Chain(v.chain.surface, v.chain.stale, v.chain.retired, image, waits)
       /\ f = v.inFlight \cup {k}
  OBVIOUS
<1>12. f \in SUBSET Slot
  BY <1>4
<1> HIDE DEF g, f, finished, twice, image, waits, c
<1>13. /\ c \in ChainType
       /\ c.surface = v.chain.surface /\ c.retired = v.chain.retired
       /\ c.image = image /\ c.waits = waits
  <2>1. v.chain \in ChainType
    BY <1>1
  <2>2. waits \in [Image -> 0..Images]
    BY <1>5
  <2>3. image \in [Image -> {"engine", "acquired", "queued"}]
    BY <1>5
  <2>4. c = Chain(v.chain.surface, v.chain.stale, v.chain.retired, image, waits)
    BY <1>11
  <2>5. QED
    BY ONLY <2>1, <2>2, <2>3, <2>4, ImagesMoved
<1>14. w = Native(c, v.extent, v.depth, v.cursor, f, g, v.torn, twice, v.available, finished)
  BY <1>8, <1>11 DEF Native
<1>15. Shaped(s) /\ Shaped(w)
  <2>1. c \in ChainType
    BY <1>13
  <2>2. g \in Seq(Entry)
    BY <1>10
  <2>3. finished \in [Image -> {"none", "unsignaled", "pending", "signaled"}]
    BY <1>6
  <2>4. Shaped(s)
    BY ONLY <1>1, <1>8, <2>1, <2>2, <2>3, NativeShaped
  <2>5. Shaped(w)
    BY ONLY <1>1, <1>12, <1>14, <2>1, <2>2, <2>3, NativeShaped
  <2>6. QED
    BY <2>4, <2>5
<1>16. /\ s.chain = c /\ s.gpu = g /\ s.finished = finished /\ s.available = v.available
       /\ s.torn = v.torn /\ s.twice = twice
  BY ONLY <1>8, NativeParts
<1>17. /\ w.chain = c /\ w.gpu = g /\ w.inFlight = f /\ w.finished = finished
       /\ w.available = v.available /\ w.torn = v.torn /\ w.twice = twice
  BY ONLY <1>14, NativeParts
<1>18. ASSUME NEW j \in Image
       PROVE  /\ c.waits[j] \in {0, j}
              /\ c.image[j] # "queued" \/ c.waits[j] = 0 => finished[j] \in {"none", "unsignaled"}
              /\ finished[j] # "none"
  <2>1. CASE j = i
    BY <1>3, <1>5, <1>6, <1>13, <2>1
  <2>2. CASE j # i
    BY <1>5, <1>6, <1>13, <2>2 DEF Sound, Kept, Paired
  <2>3. QED
    BY <2>1, <2>2
<1>19. Paired(s) /\ Paired(w)
  BY <1>16, <1>17, <1>18 DEF Paired
<1>20. Clean(s, known) /\ Clean(w, known)
  <2>1. ASSUME NEW m \in Slot
        PROVE  v.available[m] = "unsignaled" \/ m \in known
               \/ \E j \in 1..Len(g) : g[j].slot = m /\ g[j].image # 0
    <3>1. CASE m = k
      BY <1>3, <1>4, <1>10, <3>1
    <3>2. CASE m # k
      BY <1>10, <3>2 DEF Clean, Drawn
    <3>3. QED
      BY <3>1, <3>2
  <2>2. QED
    BY <1>16, <1>17, <2>1 DEF Clean, Drawn
<1>21. Flown(w)
  <2>1. \A j \in 1..Len(v.gpu) : v.gpu[j] \in Entry
    BY <1>1
  <2>2. ASSUME NEW j \in 1..Len(v.gpu), v.gpu[j].image # 0
        PROVE  v.gpu[j].image \in Image /\ v.gpu[j].image # i
    <3>1. v.gpu[j].image \in Image
      BY <2>1, <2>2, PresentationAssumption DEF Entry, Image, PresentationAssumption
    <3>2. v.chain.image[v.gpu[j].image] = "queued"
      BY <2>2 DEF Sound, Flown
    <3>3. QED
      BY <3>1, <3>2
  <2>3. ASSUME NEW j \in 1..Len(g)
        PROVE  /\ g[j].slot \in f
               /\ g[j].image # 0 =>
                    /\ g[j].signals = g[j].image /\ finished[g[j].image] = "pending"
                    /\ c.image[g[j].image] = "queued" /\ c.waits[g[j].image] = g[j].image
    <3>1. CASE j \in 1..Len(v.gpu)
      <4>1. g[j] = v.gpu[j] /\ v.gpu[j].slot \in f
        BY <1>10, <1>11, <3>1 DEF Sound, Flown
      <4>2. ASSUME v.gpu[j].image # 0
            PROVE  /\ v.gpu[j].signals = v.gpu[j].image
                   /\ finished[v.gpu[j].image] = "pending"
                   /\ image[v.gpu[j].image] = "queued"
                   /\ waits[v.gpu[j].image] = v.gpu[j].image
        <5>1. /\ v.gpu[j].signals = v.gpu[j].image
              /\ v.finished[v.gpu[j].image] = "pending"
              /\ v.chain.image[v.gpu[j].image] = "queued"
              /\ v.chain.waits[v.gpu[j].image] = v.gpu[j].image
          BY <3>1, <4>2 DEF Sound, Flown
        <5>2. v.gpu[j].image \in Image /\ v.gpu[j].image # i
          BY <2>2, <3>1, <4>2
        <5>3. QED
          BY <1>5, <1>6, <5>1, <5>2
      <4>3. QED
        BY <1>13, <4>1, <4>2
    <3>2. CASE j = Len(v.gpu) + 1
      BY <1>4, <1>5, <1>6, <1>10, <1>11, <1>13, <3>2
    <3>3. QED
      BY <1>10, <3>1, <3>2
  <2>4. ASSUME NEW j \in 1..Len(g), NEW m \in 1..Len(g), g[j].image # 0,
               g[j].image = g[m].image
        PROVE  j = m
    <3>1. CASE j \in 1..Len(v.gpu) /\ m \in 1..Len(v.gpu)
      BY <1>10, <2>4, <3>1 DEF Sound, Flown
    <3>2. CASE j \in 1..Len(v.gpu) /\ m = Len(v.gpu) + 1
      BY <1>4, <1>10, <2>2, <2>4, <3>2
    <3>3. CASE m \in 1..Len(v.gpu) /\ j = Len(v.gpu) + 1
      BY <1>4, <1>10, <2>2, <2>4, <3>3
    <3>4. QED
      BY <1>10, <3>1, <3>2, <3>3
  <2>5. QED
    BY <1>17, <2>3, <2>4 DEF Flown
<1>22. ~s.torn /\ ~s.twice /\ ~w.torn /\ ~w.twice
  BY <1>7, <1>16, <1>17 DEF Sound, Kept, twice
<1>23. QED
  BY <1>13, <1>15, <1>17, <1>19, <1>20, <1>21, <1>22 DEF Sound, Kept

\* The image of a frame on the queue is with presentation, behind its own semaphore.
LEMMA FlownImage ==
  ASSUME NEW v, Sound(v), NEW j \in 1..Len(v.gpu), v.gpu[j].image # 0
  PROVE  /\ v.gpu[j].image \in Image /\ v.gpu[j].signals = v.gpu[j].image
         /\ v.finished[v.gpu[j].image] = "pending"
         /\ v.chain.image[v.gpu[j].image] = "queued"
         /\ v.chain.waits[v.gpu[j].image] = v.gpu[j].image
<1>1. v.gpu[j] \in Entry
  BY DEF Sound, Kept, Shaped
<1>2. v.gpu[j].image \in Image
  BY <1>1, PresentationAssumption DEF Entry, Image, PresentationAssumption
<1>3. QED
  BY <1>2 DEF Sound, Flown

\* Frames on a queue that keeps their images as they were.
LEMMA StillFlown ==
  ASSUME NEW v, Sound(v), NEW w, w.gpu = v.gpu, w.inFlight = v.inFlight,
         \A j \in 1..Len(v.gpu) : v.gpu[j].image # 0 =>
           /\ w.finished[v.gpu[j].image] = "pending"
           /\ w.chain.image[v.gpu[j].image] = "queued"
           /\ w.chain.waits[v.gpu[j].image] = v.gpu[j].image
  PROVE  Flown(w)
BY FlownImage DEF Sound, Flown

LEMMA PresentedUndrawnSound ==
  ASSUME NEW v, Sound(v), NEW known, Clean(v, known), NEW i \in Image,
         v.chain.image[i] = "acquired", NEW w, w = PresentedUndrawn(v, i)
  PROVE  Sound(w) /\ Clean(w, known)
<1> DEFINE image == [v.chain.image EXCEPT ![i] = "queued"]
           waits == [v.chain.waits EXCEPT ![i] = 0]
           c == Chain(v.chain.surface, v.chain.stale, v.chain.retired, image, waits)
<1>1. /\ v = Native(v.chain, v.extent, v.depth, v.cursor, v.inFlight, v.gpu, v.torn,
                    v.twice, v.available, v.finished)
      /\ v.chain \in ChainType /\ v.cursor \in Slot /\ v.inFlight \in SUBSET Slot
      /\ v.gpu \in Seq(Entry)
      /\ v.available \in [0..Slots -> {"unsignaled", "acquiring", "signaled"}]
      /\ v.finished \in [Image -> {"none", "unsignaled", "pending", "signaled"}]
  BY ShapedParts DEF Sound, Kept
<1>2. /\ v.chain = Chain(v.chain.surface, v.chain.stale, v.chain.retired, v.chain.image,
                         v.chain.waits)
      /\ v.chain.image \in [Image -> {"engine", "acquired", "queued"}]
      /\ v.chain.waits \in [Image -> 0..Images]
  BY <1>1, ChainIs
<1>3. 0 \in 0..Images
  BY PresentationAssumption DEF PresentationAssumption
<1>4. /\ image \in [Image -> {"engine", "acquired", "queued"}]
      /\ \A j \in Image : j # i => image[j] = v.chain.image[j]
      /\ waits \in [Image -> 0..Images] /\ waits[i] = 0
      /\ \A j \in Image : j # i => waits[j] = v.chain.waits[j]
  BY <1>2, <1>3
<1>5. w = Native(c, v.extent, v.depth, v.cursor, v.inFlight, v.gpu, v.torn, v.twice,
                 v.available, v.finished)
  <2>1. w = [v EXCEPT !.chain.image[i] = "queued", !.chain.waits[i] = 0]
    BY DEF PresentedUndrawn
  <2>2. w = [v EXCEPT !.chain.image = image, !.chain.waits = waits]
    BY <2>1, <1>1, <1>2 DEF Native, Chain
  <2> HIDE DEF image, waits
  <2>3. w = [v EXCEPT !.chain = [v.chain EXCEPT !.image = image, !.waits = waits]]
    BY <2>2
  <2>4. [v.chain EXCEPT !.image = image, !.waits = waits] = c
    BY ONLY <1>1, ChainRequeued DEF c
  <2> HIDE DEF c
  <2>5. QED
    BY <1>1, <2>3, <2>4 DEF Native
<1>6. c = Chain(v.chain.surface, v.chain.stale, v.chain.retired, image, waits)
  OBVIOUS
<1> HIDE DEF image, waits, c
<1>7. /\ c \in ChainType
      /\ c.surface = v.chain.surface /\ c.retired = v.chain.retired
      /\ c.image = image /\ c.waits = waits
  <2>1. v.chain \in ChainType
    BY <1>1
  <2>2. waits \in [Image -> 0..Images]
    BY <1>4
  <2>3. image \in [Image -> {"engine", "acquired", "queued"}]
    BY <1>4
  <2>4. QED
    BY ONLY <1>6, <2>1, <2>2, <2>3, ImagesMoved
<1>8. Shaped(w)
  <2>1. c \in ChainType
    BY <1>7
  <2>2. QED
    BY ONLY <1>1, <1>5, <2>1, NativeShaped
<1>9. /\ w.chain = c /\ w.gpu = v.gpu /\ w.inFlight = v.inFlight
      /\ w.finished = v.finished /\ w.available = v.available /\ w.torn = v.torn
      /\ w.twice = v.twice
  BY ONLY <1>5, NativeParts
<1>10. Flown(w)
  <2>1. ASSUME NEW j \in 1..Len(v.gpu), v.gpu[j].image # 0
        PROVE  /\ w.finished[v.gpu[j].image] = "pending"
               /\ w.chain.image[v.gpu[j].image] = "queued"
               /\ w.chain.waits[v.gpu[j].image] = v.gpu[j].image
    <3>1. /\ v.gpu[j].image \in Image
          /\ v.finished[v.gpu[j].image] = "pending"
          /\ v.chain.image[v.gpu[j].image] = "queued"
          /\ v.chain.waits[v.gpu[j].image] = v.gpu[j].image
      BY <2>1, FlownImage
    <3>2. v.gpu[j].image # i
      BY <3>1
    <3>3. QED
      BY <1>4, <1>7, <1>9, <3>1, <3>2
  <2>2. QED
    BY <1>9, <2>1, StillFlown
<1>11. Paired(w)
  <2>1. ASSUME NEW j \in Image
        PROVE  /\ c.waits[j] \in {0, j}
               /\ c.image[j] # "queued" \/ c.waits[j] = 0 =>
                    v.finished[j] \in {"none", "unsignaled"}
    <3>1. CASE j = i
      BY <1>4, <1>7, <3>1 DEF Sound, Kept, Paired
    <3>2. CASE j # i
      BY <1>4, <1>7, <3>2 DEF Sound, Kept, Paired
    <3>3. QED
      BY <3>1, <3>2
  <2>2. QED
    BY <1>7, <1>9, <2>1 DEF Sound, Kept, Paired
<1>12. Clean(w, known)
  BY <1>9 DEF Clean, Drawn
<1>13. QED
  BY <1>8, <1>9, <1>10, <1>11, <1>12 DEF Sound, Kept

\* The slot whose frame ended is free for another frame: no command buffer of it is in use.
Fenced(v, k) ==
  [v EXCEPT !.inFlight = @ \ {k}, !.torn = @ \/ \E f \in InQueue(v) : f.slot = k]

LEMMA FenceSound ==
  ASSUME NEW v, Sound(v), NEW known, Clean(v, known), NEW k \in Slot,
         k \in v.inFlight => \A f \in InQueue(v) : f.slot # k, NEW w, w = Fenced(v, k)
  PROVE  /\ Sound(w) /\ Clean(w, known) /\ w.chain = v.chain /\ w.gpu = v.gpu
         /\ \A j \in 1..Len(v.gpu) : v.gpu[j].slot # k
<1> DEFINE f == v.inFlight \ {k}
           torn == v.torn \/ \E g \in InQueue(v) : g.slot = k
<1>1. /\ v = Native(v.chain, v.extent, v.depth, v.cursor, v.inFlight, v.gpu, v.torn,
                    v.twice, v.available, v.finished)
      /\ v.chain \in ChainType /\ v.cursor \in Slot /\ v.inFlight \in SUBSET Slot
      /\ v.gpu \in Seq(Entry)
      /\ v.available \in [0..Slots -> {"unsignaled", "acquiring", "signaled"}]
      /\ v.finished \in [Image -> {"none", "unsignaled", "pending", "signaled"}]
  BY ShapedParts DEF Sound, Kept
<1>2. ASSUME NEW j \in 1..Len(v.gpu) PROVE v.gpu[j].slot # k
  <2>1. v.gpu[j] \in InQueue(v)
    BY <1>1 DEF InQueue, ToSet
  <2>2. v.gpu[j].slot \in v.inFlight
    BY DEF Sound, Flown
  <2>3. QED
    BY <2>1, <2>2
<1>3. ~torn
  <2>1. \A g \in InQueue(v) : \E j \in 1..Len(v.gpu) : g = v.gpu[j]
    BY <1>1 DEF InQueue, ToSet
  <2>2. QED
    BY <1>2, <2>1 DEF Sound, Kept
<1>4. f \in SUBSET Slot
  BY <1>1
<1>5. w = [v EXCEPT !.inFlight = f, !.torn = torn]
  BY <1>1 DEF Native, Fenced
<1>6. f = v.inFlight \ {k}
  OBVIOUS
<1> HIDE DEF f, torn
<1>7. w = Native(v.chain, v.extent, v.depth, v.cursor, f, v.gpu, torn, v.twice,
                 v.available, v.finished)
  BY <1>1, <1>5 DEF Native
<1>8. Shaped(w)
  BY ONLY <1>1, <1>4, <1>7, NativeShaped
<1>9. /\ w.chain = v.chain /\ w.gpu = v.gpu /\ w.inFlight = f
      /\ w.finished = v.finished /\ w.available = v.available /\ w.torn = torn
      /\ w.twice = v.twice
  BY ONLY <1>7, NativeParts
<1>10. Flown(w)
  BY <1>2, <1>6, <1>9 DEF Sound, Flown
<1>11. Paired(w)
  BY <1>9 DEF Sound, Kept, Paired
<1>12. Clean(w, known)
  BY <1>9 DEF Clean, Drawn
<1>13. QED
  BY <1>2, <1>3, <1>8, <1>9, <1>10, <1>11, <1>12 DEF Sound, Kept

\* An acquisition signals the semaphore it was given.
LEMMA SignalsSound ==
  ASSUME NEW v, Sound(v), NEW known, Clean(v, known), NEW k \in 0..Slots,
         v.available[k] = "acquiring", NEW w, w = [v EXCEPT !.available[k] = "signaled"]
  PROVE  Sound(w) /\ Clean(w, known) /\ w.chain = v.chain /\ w.gpu = v.gpu
<1> DEFINE available == [v.available EXCEPT ![k] = "signaled"]
<1>1. /\ v = Native(v.chain, v.extent, v.depth, v.cursor, v.inFlight, v.gpu, v.torn,
                    v.twice, v.available, v.finished)
      /\ v.chain \in ChainType /\ v.cursor \in Slot /\ v.inFlight \in SUBSET Slot
      /\ v.gpu \in Seq(Entry)
      /\ v.available \in [0..Slots -> {"unsignaled", "acquiring", "signaled"}]
      /\ v.finished \in [Image -> {"none", "unsignaled", "pending", "signaled"}]
  BY ShapedParts DEF Sound, Kept
<1>2. /\ available \in [0..Slots -> {"unsignaled", "acquiring", "signaled"}]
      /\ \A m \in 0..Slots : m # k => available[m] = v.available[m]
  BY <1>1
<1>3. w = [v EXCEPT !.available = available]
  BY <1>1 DEF Native
<1> HIDE DEF available
<1>4. w = Native(v.chain, v.extent, v.depth, v.cursor, v.inFlight, v.gpu, v.torn, v.twice,
                 available, v.finished)
  BY <1>1, <1>3 DEF Native
<1>5. Shaped(w)
  <2>1. available \in [0..Slots -> {"unsignaled", "acquiring", "signaled"}]
    BY <1>2
  <2>2. QED
    BY ONLY <1>1, <1>4, <2>1, NativeShaped
<1>6. /\ w.chain = v.chain /\ w.gpu = v.gpu /\ w.inFlight = v.inFlight
      /\ w.finished = v.finished /\ w.available = available /\ w.torn = v.torn
      /\ w.twice = v.twice
  BY ONLY <1>4, NativeParts
<1>7. Flown(w) /\ Paired(w)
  BY <1>6 DEF Sound, Kept, Flown, Paired
<1>8. Clean(w, known)
  <2>1. ASSUME NEW m \in Slot
        PROVE  v.available[m] = "unsignaled" => available[m] = "unsignaled"
    BY <1>2, SlotsAre
  <2>2. QED
    BY <1>6, <2>1 DEF Clean, Drawn
<1>9. QED
  BY <1>5, <1>6, <1>7, <1>8 DEF Sound, Kept

LEMMA Removed ==
  ASSUME NEW g \in Seq(Entry), g # <<>>, NEW h, h = Tail(g)
  PROVE  /\ h \in Seq(Entry) /\ 1 \in 1..Len(g) /\ Head(g) = g[1] /\ Head(g) \in Entry
         /\ Len(g) \in Nat /\ Len(h) = Len(g) - 1
         /\ \A j \in 1..Len(h) : j + 1 \in 1..Len(g) /\ h[j] = g[j + 1] /\ j \in Nat
         /\ \A j \in 1..Len(g) : j = 1 \/ (j - 1 \in 1..Len(h) /\ h[j - 1] = g[j])
<1>1. Len(g) \in Nat /\ Len(g) > 0
  OBVIOUS
<1>2. h \in Seq(Entry) /\ Len(h) = Len(g) - 1 /\ Head(g) = g[1] /\ 1 \in 1..Len(g)
  BY <1>1
<1>3. Head(g) \in Entry
  BY <1>2
<1>4. ASSUME NEW j \in 1..Len(h)
      PROVE  j + 1 \in 1..Len(g) /\ h[j] = g[j + 1] /\ j \in Nat
  BY <1>1, <1>2
<1>5. ASSUME NEW j \in 1..Len(g), j # 1
      PROVE  j - 1 \in 1..Len(h) /\ h[j - 1] = g[j]
  <2>1. j - 1 \in 1..Len(h) /\ (j - 1) + 1 = j
    BY <1>1, <1>2, <1>5
  <2>2. QED
    BY <1>4, <2>1
<1>6. QED
  BY <1>1, <1>2, <1>3, <1>4, <1>5

\* The first frame on the queue ends: it consumed its slot's semaphore and signals its image's.
FrameEnded(v) ==
  IF Head(v.gpu).image = 0 THEN [v EXCEPT !.gpu = Tail(@)]
  ELSE [v EXCEPT !.gpu = Tail(@), !.available[Head(v.gpu).slot] = "unsignaled",
                 !.finished[Head(v.gpu).signals] = "signaled"]

LEMMA FrameEndsSound ==
  ASSUME NEW v, Sound(v), NEW known, Clean(v, known), v.gpu # <<>>, NEW w, w = FrameEnded(v)
  PROVE  /\ Sound(w) /\ Clean(w, known) /\ w.chain = v.chain
         /\ \A k \in 1..Len(w.gpu) : \E j \in 1..Len(v.gpu) : w.gpu[k] = v.gpu[j]
<1> DEFINE f == Head(v.gpu)
           g == Tail(v.gpu)
           available == IF f.image = 0 THEN v.available
                        ELSE [v.available EXCEPT ![f.slot] = "unsignaled"]
           finished == IF f.image = 0 THEN v.finished
                       ELSE [v.finished EXCEPT ![f.image] = "signaled"]
<1>1. /\ v = Native(v.chain, v.extent, v.depth, v.cursor, v.inFlight, v.gpu, v.torn,
                    v.twice, v.available, v.finished)
      /\ v.chain \in ChainType /\ v.cursor \in Slot /\ v.inFlight \in SUBSET Slot
      /\ v.gpu \in Seq(Entry)
      /\ v.available \in [0..Slots -> {"unsignaled", "acquiring", "signaled"}]
      /\ v.finished \in [Image -> {"none", "unsignaled", "pending", "signaled"}]
  BY ShapedParts DEF Sound, Kept
<1>2. /\ g \in Seq(Entry) /\ 1 \in 1..Len(v.gpu) /\ f = v.gpu[1] /\ f \in Entry
      /\ Len(v.gpu) \in Nat /\ Len(g) = Len(v.gpu) - 1
      /\ \A j \in 1..Len(g) : j + 1 \in 1..Len(v.gpu) /\ g[j] = v.gpu[j + 1] /\ j \in Nat
      /\ \A j \in 1..Len(v.gpu) : j = 1 \/ (j - 1 \in 1..Len(g) /\ g[j - 1] = v.gpu[j])
  BY <1>1, Removed
<1>3. ASSUME f.image # 0
      PROVE  /\ f.image \in Image /\ f.signals = f.image
             /\ v.chain.image[f.image] = "queued" /\ v.chain.waits[f.image] = f.image
  BY <1>2, <1>3, FlownImage
<1>4. f.slot \in Slot /\ f.slot \in 0..Slots
  BY <1>2, SlotsAre DEF Entry
<1>5. w = [v EXCEPT !.gpu = g, !.available = available, !.finished = finished]
  <2>1. CASE f.image = 0
    BY <1>1, <2>1 DEF Native, FrameEnded
  <2>2. CASE f.image # 0
    <3>1. w = [v EXCEPT !.gpu = g, !.available[f.slot] = "unsignaled",
                        !.finished[f.image] = "signaled"]
      BY <1>3, <2>2 DEF FrameEnded
    <3>2. QED
      BY <1>1, <2>2, <3>1 DEF Native
  <2>3. QED
    BY <2>1, <2>2
<1>6. /\ available \in [0..Slots -> {"unsignaled", "acquiring", "signaled"}]
      /\ \A k \in Slot : available[k] = "unsignaled" \/ available[k] = v.available[k]
      /\ f.image # 0 => available[f.slot] = "unsignaled"
  <2>1. CASE f.image = 0
    BY <1>1, <2>1
  <2>2. CASE f.image # 0
    BY <1>1, <1>4, <2>2, SlotsAre
  <2>3. QED
    BY <2>1, <2>2
<1>7. /\ finished \in [Image -> {"none", "unsignaled", "pending", "signaled"}]
      /\ \A i \in Image : i # f.image => finished[i] = v.finished[i]
      /\ f.image # 0 => finished[f.image] = "signaled"
  <2>1. CASE f.image = 0
    BY <1>1, <2>1
  <2>2. CASE f.image # 0
    BY <1>1, <1>3, <2>2
  <2>3. QED
    BY <2>1, <2>2
<1> HIDE DEF f, g, available, finished
<1>8. w = Native(v.chain, v.extent, v.depth, v.cursor, v.inFlight, g, v.torn, v.twice,
                 available, finished)
  BY <1>1, <1>5 DEF Native
<1>9. Shaped(w)
  <2>1. /\ available \in [0..Slots -> {"unsignaled", "acquiring", "signaled"}]
        /\ finished \in [Image -> {"none", "unsignaled", "pending", "signaled"}]
        /\ g \in Seq(Entry)
    BY <1>2, <1>6, <1>7
  <2>2. QED
    BY ONLY <1>1, <1>8, <2>1, NativeShaped
<1>10. /\ w.chain = v.chain /\ w.gpu = g /\ w.inFlight = v.inFlight
       /\ w.finished = finished /\ w.available = available /\ w.torn = v.torn
       /\ w.twice = v.twice
  BY ONLY <1>8, NativeParts
<1>11. ASSUME NEW j \in 1..Len(g)
       PROVE  /\ j + 1 \in 1..Len(v.gpu) /\ g[j] = v.gpu[j + 1] /\ j + 1 # 1
  BY <1>2
<1>12. Flown(w)
  <2>1. ASSUME NEW j \in 1..Len(g)
        PROVE  /\ g[j].slot \in v.inFlight
               /\ g[j].image # 0 =>
                    /\ g[j].image \in Image /\ g[j].signals = g[j].image
                    /\ v.finished[g[j].image] = "pending"
                    /\ v.chain.image[g[j].image] = "queued"
                    /\ v.chain.waits[g[j].image] = g[j].image
                    /\ g[j].image # f.image
    <3>1. v.gpu[j + 1].slot \in v.inFlight
      BY <1>11 DEF Sound, Flown
    <3>2. ASSUME g[j].image # 0 PROVE g[j].image # f.image
      <4>1. 1 \in 1..Len(v.gpu) /\ j + 1 \in 1..Len(v.gpu) /\ j + 1 # 1
        BY <1>2, <1>11
      <4>2. g[j].image = v.gpu[j + 1].image /\ f.image = v.gpu[1].image
        BY <1>2, <1>11
      <4>3. ~(v.gpu[j + 1].image # 0 /\ v.gpu[j + 1].image = v.gpu[1].image)
        BY <4>1 DEF Sound, Flown
      <4>4. QED
        BY <3>2, <4>2, <4>3
    <3>3. QED
      BY <1>11, <3>1, <3>2, FlownImage
  <2>2. ASSUME NEW j \in 1..Len(g), NEW m \in 1..Len(g), g[j].image # 0,
               g[j].image = g[m].image
        PROVE  j = m
    <3>1. j + 1 = m + 1
      BY <1>11, <2>2 DEF Sound, Flown
    <3>2. j \in Nat /\ m \in Nat
      BY <1>2
    <3>3. QED
      BY <3>1, <3>2
  <2>3. QED
    <3>1. ASSUME NEW j \in 1..Len(g), g[j].image # 0
          PROVE  finished[g[j].image] = "pending"
      BY <1>7, <2>1, <3>1
    <3>2. \A k \in 1..Len(g) :
             /\ g[k].slot \in v.inFlight
             /\ g[k].image # 0 =>
                  /\ g[k].signals = g[k].image
                  /\ finished[g[k].image] = "pending"
                  /\ v.chain.image[g[k].image] = "queued"
                  /\ v.chain.waits[g[k].image] = g[k].image
      BY <2>1, <3>1
    <3>3. \A j, k \in 1..Len(g) : g[j].image # 0 /\ g[j].image = g[k].image => j = k
      BY <2>2
    <3>4. QED
      BY ONLY <1>10, <3>2, <3>3 DEF Flown
<1>13. Paired(w)
  <2>1. ASSUME NEW i \in Image
        PROVE  /\ v.chain.waits[i] \in {0, i}
               /\ v.chain.image[i] # "queued" \/ v.chain.waits[i] = 0 =>
                    finished[i] \in {"none", "unsignaled"}
               /\ v.finished[i] # "none" => finished[i] # "none"
    <3>1. CASE i = f.image
      BY <1>3, <1>7, <3>1, ImagesAre DEF Sound, Kept, Paired
    <3>2. CASE i # f.image
      BY <1>7, <3>2 DEF Sound, Kept, Paired
    <3>3. QED
      BY <3>1, <3>2
  <2>2. QED
    BY <1>10, <2>1 DEF Sound, Kept, Paired
<1>14. Clean(w, known)
  <2>1. ASSUME NEW k \in Slot, available[k] # "unsignaled", k \notin known
        PROVE  \E j \in 1..Len(g) : g[j].slot = k /\ g[j].image # 0
    <3>1. v.available[k] # "unsignaled"
      BY <1>6, <2>1
    <3>2. PICK m \in 1..Len(v.gpu) : v.gpu[m].slot = k /\ v.gpu[m].image # 0
      BY <2>1, <3>1 DEF Clean, Drawn
    <3>3. m # 1
      BY <1>2, <1>6, <2>1, <3>2
    <3>4. m - 1 \in 1..Len(g) /\ g[m - 1] = v.gpu[m]
      BY <1>2, <3>3
    <3>5. QED
      BY <3>2, <3>4
  <2>2. QED
    BY <1>10, <2>1 DEF Clean, Drawn
<1>15. QED
  BY <1>9, <1>10, <1>11, <1>12, <1>13, <1>14 DEF Sound, Kept

\* An image comes back: what its presentation waited for is at rest.
ImageBack(v, i, t) ==
  [IF t = 0 THEN [v EXCEPT !.available[0] = "unsignaled"]
            ELSE [v EXCEPT !.finished[t] = "unsignaled"]
   EXCEPT !.chain.image[i] = "engine", !.chain.waits[i] = 0]

LEMMA ReturnsSound ==
  ASSUME NEW v, Sound(v), NEW known, Clean(v, known), NEW i \in Image,
         v.chain.image[i] = "queued", NEW t, t = v.chain.waits[i],
         IF t = 0 THEN v.available[0] = "signaled" ELSE v.finished[t] = "signaled", NEW w,
         w = ImageBack(v, i, t)
  PROVE  /\ Sound(w) /\ Clean(w, known) /\ w.gpu = v.gpu
         /\ w.chain.surface = v.chain.surface /\ w.chain.retired = v.chain.retired
         /\ \A j \in Image : v.chain.image[j] = "acquired" => w.chain.image[j] = "acquired"
<1> DEFINE image == [v.chain.image EXCEPT ![i] = "engine"]
           waits == [v.chain.waits EXCEPT ![i] = 0]
           available == IF t = 0 THEN [v.available EXCEPT ![0] = "unsignaled"] ELSE v.available
           finished == IF t = 0 THEN v.finished ELSE [v.finished EXCEPT ![i] = "unsignaled"]
           c == Chain(v.chain.surface, v.chain.stale, v.chain.retired, image, waits)
           u == IF t = 0 THEN [v EXCEPT !.available[0] = "unsignaled"]
                         ELSE [v EXCEPT !.finished[t] = "unsignaled"]
<1>1. /\ v = Native(v.chain, v.extent, v.depth, v.cursor, v.inFlight, v.gpu, v.torn,
                    v.twice, v.available, v.finished)
      /\ v.chain \in ChainType /\ v.cursor \in Slot /\ v.inFlight \in SUBSET Slot
      /\ v.gpu \in Seq(Entry)
      /\ v.available \in [0..Slots -> {"unsignaled", "acquiring", "signaled"}]
      /\ v.finished \in [Image -> {"none", "unsignaled", "pending", "signaled"}]
  BY ShapedParts DEF Sound, Kept
<1>2. /\ v.chain = Chain(v.chain.surface, v.chain.stale, v.chain.retired, v.chain.image,
                         v.chain.waits)
      /\ v.chain.image \in [Image -> {"engine", "acquired", "queued"}]
      /\ v.chain.waits \in [Image -> 0..Images]
  BY <1>1, ChainIs
<1>3. 0 \in 0..Images /\ 0 \in 0..Slots
  BY PresentationAssumption DEF PresentationAssumption
<1>4. t = 0 \/ t = i
  BY DEF Sound, Kept, Paired
<1>5. /\ image \in [Image -> {"engine", "acquired", "queued"}]
      /\ image[i] = "engine" /\ \A j \in Image : j # i => image[j] = v.chain.image[j]
      /\ waits \in [Image -> 0..Images] /\ waits[i] = 0
      /\ \A j \in Image : j # i => waits[j] = v.chain.waits[j]
  BY <1>2, <1>3
<1>6. /\ available \in [0..Slots -> {"unsignaled", "acquiring", "signaled"}]
      /\ \A k \in Slot : available[k] = v.available[k]
  <2>1. CASE t = 0
    BY <1>1, <1>3, <2>1, SlotsAre
  <2>2. CASE t # 0
    BY <1>1, <2>2
  <2>3. QED
    BY <2>1, <2>2
<1>7. /\ finished \in [Image -> {"none", "unsignaled", "pending", "signaled"}]
      /\ \A j \in Image : j # i => finished[j] = v.finished[j]
      /\ finished[i] = IF t = 0 THEN v.finished[i] ELSE "unsignaled"
  <2>1. CASE t = 0
    BY <1>1, <2>1
  <2>2. CASE t # 0
    BY <1>1, <2>2
  <2>3. QED
    BY <2>1, <2>2
<1>8. u = Native(v.chain, v.extent, v.depth, v.cursor, v.inFlight, v.gpu, v.torn, v.twice,
                 available, finished)
  <2>1. CASE t = 0
    BY <1>1, <2>1 DEF Native
  <2>2. CASE t # 0
    BY <1>1, <1>4, <2>2 DEF Native
  <2>3. QED
    BY <2>1, <2>2
<1>9. w = Native(c, v.extent, v.depth, v.cursor, v.inFlight, v.gpu, v.torn, v.twice,
                 available, finished)
  <2>1. w = [u EXCEPT !.chain.image[i] = "engine", !.chain.waits[i] = 0]
    BY DEF ImageBack
  <2> HIDE DEF u, available, finished
  <2>2. u.chain = v.chain
    BY <1>8 DEF Native
  <2>3. w = [u EXCEPT !.chain.image = image, !.chain.waits = waits]
    BY <1>2, <1>8, <2>1, <2>2 DEF Native, Chain
  <2> HIDE DEF image, waits
  <2>4. w = [u EXCEPT !.chain = [v.chain EXCEPT !.image = image, !.waits = waits]]
    BY <1>8, <2>2, <2>3 DEF Native
  <2>5. [v.chain EXCEPT !.image = image, !.waits = waits] = c
    BY ONLY <1>1, ChainRequeued DEF c
  <2> HIDE DEF c
  <2>6. QED
    BY <1>8, <2>4, <2>5 DEF Native
<1>10. c = Chain(v.chain.surface, v.chain.stale, v.chain.retired, image, waits)
  OBVIOUS
<1> HIDE DEF image, waits, available, finished, c, u
<1>11. /\ c \in ChainType
       /\ c.surface = v.chain.surface /\ c.retired = v.chain.retired
       /\ c.image = image /\ c.waits = waits
  <2>1. v.chain \in ChainType
    BY <1>1
  <2>2. waits \in [Image -> 0..Images]
    BY <1>5
  <2>3. image \in [Image -> {"engine", "acquired", "queued"}]
    BY <1>5
  <2>4. QED
    BY ONLY <1>10, <2>1, <2>2, <2>3, ImagesMoved
<1>12. Shaped(w)
  <2>1. /\ available \in [0..Slots -> {"unsignaled", "acquiring", "signaled"}]
        /\ finished \in [Image -> {"none", "unsignaled", "pending", "signaled"}]
        /\ c \in ChainType
    BY <1>6, <1>7, <1>11
  <2>2. QED
    BY ONLY <1>1, <1>9, <2>1, NativeShaped
<1>13. /\ w.chain = c /\ w.gpu = v.gpu /\ w.inFlight = v.inFlight
       /\ w.finished = finished /\ w.available = available /\ w.torn = v.torn
       /\ w.twice = v.twice
  BY ONLY <1>9, NativeParts
<1>14. Flown(w)
  <2>1. ASSUME NEW j \in 1..Len(v.gpu), v.gpu[j].image # 0
        PROVE  /\ w.finished[v.gpu[j].image] = "pending"
               /\ w.chain.image[v.gpu[j].image] = "queued"
               /\ w.chain.waits[v.gpu[j].image] = v.gpu[j].image
    <3>1. /\ v.gpu[j].image \in Image
          /\ v.finished[v.gpu[j].image] = "pending"
          /\ v.chain.image[v.gpu[j].image] = "queued"
          /\ v.chain.waits[v.gpu[j].image] = v.gpu[j].image
      BY <2>1, FlownImage
    <3>2. v.gpu[j].image # i
      BY <2>1, <3>1, <1>4
    <3>3. QED
      BY <1>5, <1>7, <1>11, <1>13, <3>1, <3>2
  <2>2. QED
    BY ONLY Sound(v), <1>13, <2>1, StillFlown
<1>15. Paired(w)
  <2>1. ASSUME NEW j \in Image
        PROVE  /\ c.waits[j] \in {0, j}
               /\ c.image[j] # "queued" \/ c.waits[j] = 0 =>
                    finished[j] \in {"none", "unsignaled"}
               /\ v.finished[j] # "none" => finished[j] # "none"
    <3>1. CASE j = i
      BY <1>5, <1>7, <1>11, <3>1 DEF Sound, Kept, Paired
    <3>2. CASE j # i
      BY <1>5, <1>7, <1>11, <3>2 DEF Sound, Kept, Paired
    <3>3. QED
      BY <3>1, <3>2
  <2>2. QED
    BY <1>11, <1>13, <2>1 DEF Sound, Kept, Paired
<1>16. Clean(w, known)
  BY <1>6, <1>13 DEF Clean, Drawn
<1>17. \A j \in Image : v.chain.image[j] = "acquired" => w.chain.image[j] = "acquired"
  BY <1>5, <1>11, <1>13
<1>18. QED
  BY <1>11, <1>12, <1>13, <1>14, <1>15, <1>16, <1>17 DEF Sound, Kept

\* The swapchain of a window that moved may be out of date.
LEMMA StaleSound ==
  ASSUME NEW v, Sound(v), NEW known, Clean(v, known), NEW stale \in BOOLEAN, NEW w,
         w = [v EXCEPT !.chain.stale = stale]
  PROVE  /\ Sound(w) /\ Clean(w, known) /\ w.gpu = v.gpu
         /\ w.chain.surface = v.chain.surface /\ w.chain.retired = v.chain.retired
         /\ w.chain.image = v.chain.image
<1> DEFINE c == Chain(v.chain.surface, stale, v.chain.retired, v.chain.image, v.chain.waits)
<1>1. /\ v = Native(v.chain, v.extent, v.depth, v.cursor, v.inFlight, v.gpu, v.torn,
                    v.twice, v.available, v.finished)
      /\ v.chain \in ChainType /\ v.cursor \in Slot /\ v.inFlight \in SUBSET Slot
      /\ v.gpu \in Seq(Entry)
      /\ v.available \in [0..Slots -> {"unsignaled", "acquiring", "signaled"}]
      /\ v.finished \in [Image -> {"none", "unsignaled", "pending", "signaled"}]
  BY ShapedParts DEF Sound, Kept
<1>2. /\ v.chain = Chain(v.chain.surface, v.chain.stale, v.chain.retired, v.chain.image,
                         v.chain.waits)
      /\ v.chain.surface \in Surfaces \cup {NoSurface} /\ v.chain.retired \in BOOLEAN
      /\ v.chain.image \in [Image -> {"engine", "acquired", "queued"}]
      /\ v.chain.waits \in [Image -> 0..Images]
  BY <1>1, ChainIs
<1>3. w = Native(c, v.extent, v.depth, v.cursor, v.inFlight, v.gpu, v.torn, v.twice,
                 v.available, v.finished)
  <2>1. w = [v EXCEPT !.chain = [v.chain EXCEPT !.stale = stale]]
    OBVIOUS
  <2>2. [v.chain EXCEPT !.stale = stale] = c
    BY <1>2 DEF Chain
  <2> HIDE DEF c
  <2>3. QED
    BY <1>1, <2>1, <2>2 DEF Native
<1>4. c = Chain(v.chain.surface, stale, v.chain.retired, v.chain.image, v.chain.waits)
      /\ stale \in BOOLEAN
  OBVIOUS
<1> HIDE DEF c
<1>5. /\ c \in ChainType
      /\ c.surface = v.chain.surface /\ c.retired = v.chain.retired
      /\ c.image = v.chain.image /\ c.waits = v.chain.waits
  BY ONLY <1>2, <1>4, ChainParts
<1>6. Shaped(w)
  <2>1. c \in ChainType
    BY <1>5
  <2>2. QED
    BY ONLY <1>1, <1>3, <2>1, NativeShaped
<1>7. /\ w.chain = c /\ w.gpu = v.gpu /\ w.inFlight = v.inFlight
      /\ w.finished = v.finished /\ w.available = v.available /\ w.torn = v.torn
      /\ w.twice = v.twice
  BY ONLY <1>3, NativeParts
<1>8. Sound(w) /\ Clean(w, known)
  BY <1>5, <1>6, <1>7, SoundAlike DEF Sound, Kept
<1>9. QED
  BY <1>5, <1>7, <1>8

-----------------------------------------------------------------------------
\* The call under way.

History(frames, faults, leaked, unrecovered) ==
  [frames |-> frames, faults |-> faults, leaked |-> leaked, unrecovered |-> unrecovered]

LEMMA HistoryIs ==
  ASSUME NEW frames, NEW faults, NEW leaked, NEW unrecovered, NEW y,
         y = History(frames, faults, leaked, unrecovered)
  PROVE  Counted(y) /\ y.leaked = leaked
<1>1. y.frames = frames /\ y.faults = faults /\ y.leaked = leaked
      /\ y.unrecovered = unrecovered
  BY DEF History
<1>2. QED
  BY <1>1 DEF Counted, History

LEMMA SpentIs ==
  ASSUME NEW x, Counted(x), NEW n, NEW y, y = [x EXCEPT !.faults = n]
  PROVE  Counted(y) /\ y.leaked = x.leaked
<1>1. y = History(x.frames, n, x.leaked, x.unrecovered)
  BY DEF Counted, History
<1>2. QED
  BY ONLY <1>1, HistoryIs

LEMMA BegunIs ==
  ASSUME NEW x, Counted(x), NEW n, NEW y, y = [x EXCEPT !.frames = n]
  PROVE  Counted(y) /\ y.leaked = x.leaked
<1>1. y = History(n, x.faults, x.leaked, x.unrecovered)
  BY DEF Counted, History
<1>2. QED
  BY ONLY <1>1, HistoryIs

LEMMA LeakedIs ==
  ASSUME NEW x, Counted(x), NEW n, NEW y, y = [x EXCEPT !.leaked = n]
  PROVE  Counted(y) /\ y.leaked = n
<1>1. y = History(x.frames, x.faults, n, x.unrecovered)
  BY DEF Counted, History
<1>2. QED
  BY ONLY <1>1, HistoryIs

LEMMA CleanMore ==
  ASSUME NEW v, NEW known, NEW more, Clean(v, known), known \subseteq more
  PROVE  Clean(v, more)
BY DEF Clean

\* Outside the recording of a frame no slot is acquiring.
LEMMA NotAcquiring ==
  ASSUME PresentInv, call.at # "record"
  PROVE  /\ Sound(vk) /\ Kept(vk) /\ Clean(vk, seen.leaked) /\ Counted(seen)
         /\ call \in CallType /\ frame \in FrameType
         /\ (call.at # "swap" => call.image = 0)
<1>1. Acquiring = {}
  BY DEF Acquiring
<1>2. seen.leaked \cup Acquiring = seen.leaked
  BY <1>1
<1>3. QED
  BY <1>2 DEF PresentInv, Sound, CallSound

\* A step after which the call holds nothing.
LEMMA HoldsNothing ==
  ASSUME Sound(vk'), Clean(vk', seen'.leaked), Counted(seen'), call' \in CallType,
         frame' \in FrameType, call'.image = 0,
         call'.at \notin {"execute", "fence", "acquire", "record", "swap"}
  PROVE  PresentInv'
<1>1. Acquiring' = {}
  BY DEF Acquiring
<1>2. seen'.leaked \cup Acquiring' = seen'.leaked
  BY <1>1
<1>3. CallSound'
  BY DEF CallSound
<1>4. QED
  BY <1>2, <1>3 DEF PresentInv

LEMMA NoneTyped ==
  /\ NoCall \in CallType /\ NoCall.at = "idle" /\ NoCall.image = 0
  /\ NoFrame \in FrameType
  /\ [NoCall EXCEPT !.at = "present"] \in CallType
  /\ [NoCall EXCEPT !.at = "present"].at = "present"
  /\ [NoCall EXCEPT !.at = "present"].image = 0
BY PresentationAssumption DEF NoCall, NoFrame, CallType, FrameType, PresentationAssumption

\* An error of a submission ends the call and idles the context.
LEMMA FailedHolds ==
  ASSUME NEW v, Kept(v), Clean(v, seen'.leaked), Counted(seen'), Failed(v)
  PROVE  PresentInv'
<1>1. vk' = Idle(v) /\ frame' = NoFrame /\ call' = NoCall
  BY DEF Failed
<1>2. Sound(vk') /\ Clean(vk', seen'.leaked)
  BY <1>1, IdleSound
<1>3. QED
  BY <1>1, <1>2, HoldsNothing, NoneTyped

\* A step of the queue, the engine or the window system, as the call sees it.
LEMMA CallKept ==
  ASSUME PresentInv, Sound(vk'), Clean(vk', seen.leaked \cup Acquiring),
         frame' = frame, call' = call, seen' = seen,
         vk'.chain.surface = vk.chain.surface, vk'.chain.retired = vk.chain.retired,
         \A i \in Image : vk.chain.image[i] = "acquired" => vk'.chain.image[i] = "acquired",
         \A k \in 1..Len(vk'.gpu) : \E j \in 1..Len(vk.gpu) : vk'.gpu[k] = vk.gpu[j]
  PROVE  PresentInv'
<1>1. Acquiring' = Acquiring
  BY DEF Acquiring
<1>2. call \in CallType /\ (call.image # 0 => call.image \in Image)
  BY PresentationAssumption DEF PresentInv, CallSound, CallType, Image, PresentationAssumption
<1>3. CallSound'
  <2>1. call.at = "acquire" => \A k \in 1..Len(vk'.gpu) : vk'.gpu[k].slot # call.slot
    BY DEF PresentInv, CallSound
  <2>2. QED
    BY <1>2, <2>1 DEF PresentInv, CallSound
<1>4. QED
  BY <1>1, <1>3 DEF PresentInv

\* A step of the owner that leaves the context, the call and the leaks alone.
LEMMA OwnerKept ==
  ASSUME PresentInv, call.at = "idle", call' = call, vk' = vk, Counted(seen'),
         seen'.leaked = seen.leaked, frame' \in FrameType
  PROVE  PresentInv'
BY NotAcquiring, HoldsNothing

-----------------------------------------------------------------------------
\* Calls of the owner outside a submission.

LEMMA BeginKeeps ==
  ASSUME PresentInv, NEW s \in Surfaces, NEW size \in Sizes, Begin(s, size)
  PROVE  PresentInv'
<1>1. Counted(seen') /\ seen'.leaked = seen.leaked
  BY BegunIs DEF Begin, PresentInv, CallSound
<1>2. frame' \in FrameType
  BY DEF Begin, NoFrame, FrameType
<1>3. QED
  BY <1>1, <1>2, OwnerKept DEF Begin, Free

LEMMA BeginTargetKeeps ==
  ASSUME PresentInv, BeginTarget
  PROVE  PresentInv'
<1>1. Counted(seen') /\ seen'.leaked = seen.leaked
  BY BegunIs DEF BeginTarget, PresentInv, CallSound
<1>2. frame' \in FrameType
  BY DEF BeginTarget, NoFrame, FrameType
<1>3. QED
  BY <1>1, <1>2, OwnerKept DEF BeginTarget, Free

LEMMA DrawKeeps ==
  ASSUME PresentInv, NEW depth \in BOOLEAN, Draw(depth)
  PROVE  PresentInv'
<1>1. frame' \in FrameType
  BY DEF Draw, PresentInv, CallSound, FrameType
<1>2. QED
  BY <1>1, OwnerKept DEF Draw, Free, PresentInv, CallSound

LEMMA AbortKeeps ==
  ASSUME PresentInv, Abort
  PROVE  PresentInv'
BY OwnerKept, NoneTyped DEF Abort, Free, PresentInv, CallSound

LEMMA ResizeKeeps ==
  ASSUME PresentInv, NEW s \in Surfaces, NEW size \in Sizes \cup {0}, Resize(s, size)
  PROVE  PresentInv'
BY OwnerKept DEF Resize, Free, PresentInv, CallSound

LEMMA DestroySurfaceKeeps ==
  ASSUME PresentInv, NEW s \in Surfaces, DestroySurface(s)
  PROVE  PresentInv'
<1>1. /\ Sound(vk) /\ Clean(vk, seen.leaked) /\ Counted(seen)
      /\ call \in CallType /\ frame \in FrameType /\ call.at = "idle"
      /\ call.image = 0
  BY NotAcquiring DEF DestroySurface, Free
<1>2. call' = call /\ seen' = seen
  BY DEF DestroySurface
<1>3. frame' \in FrameType
  <2>1. CASE surfaces[s].known
    BY <1>1, <2>1 DEF DestroySurface, FrameType
  <2>2. CASE ~surfaces[s].known
    BY <1>1, <2>2 DEF DestroySurface
  <2>3. QED
    BY <2>1, <2>2
<1>4. Sound(vk') /\ Clean(vk', seen.leaked)
  <2>1. CASE surfaces[s].known
    BY <1>1, <2>1, SurfaceDestroyedSound DEF DestroySurface
  <2>2. CASE ~surfaces[s].known
    BY <1>1, <2>2 DEF DestroySurface
  <2>3. QED
    BY <2>1, <2>2
<1>5. QED
  BY <1>1, <1>2, <1>3, <1>4, HoldsNothing

-----------------------------------------------------------------------------
\* frame_submit.

LEMMA SpendingIs ==
  ASSUME Counted(seen), NEW cost, Spent(cost)
  PROVE  Counted(seen') /\ seen'.leaked = seen.leaked
BY SpentIs DEF Spent

LEMMA SubmitOrphanKeeps ==
  ASSUME PresentInv, SubmitOrphan
  PROVE  PresentInv'
<1>1. /\ Sound(vk) /\ Clean(vk, seen.leaked) /\ Counted(seen)
  BY NotAcquiring DEF SubmitOrphan, Free
<1>2. call' = NoCall /\ frame' = NoFrame /\ vk' = vk /\ seen' = seen
  BY DEF SubmitOrphan
<1>3. QED
  BY <1>1, <1>2, HoldsNothing, NoneTyped

LEMMA AtIs ==
  ASSUME call \in CallType,
         NEW where \in {"idle", "execute", "fence", "acquire", "record", "present",
                        "acquireUndrawn", "again", "swap"}, At(where)
  PROVE  /\ call' \in CallType /\ call'.at = where /\ call'.slot = call.slot
         /\ call'.image = call.image
BY DEF At, CallType

LEMMA SubmitSurfaceKeeps ==
  ASSUME PresentInv, SubmitSurface
  PROVE  PresentInv'
<1>1. /\ Sound(vk) /\ Clean(vk, seen.leaked) /\ Counted(seen)
      /\ call \in CallType /\ frame \in FrameType /\ call.image = 0
  BY NotAcquiring DEF SubmitSurface, Free
<1>2. frame.surface \in Surfaces
  BY <1>1 DEF SubmitSurface, FrameType
<1>3. PICK r \in Prepared(vk, frame.surface, surfaces[frame.surface].extent) :
         \/ /\ r.ok /\ vk' = r.vk
            /\ At("execute") /\ Spent(r.cost) /\ UNCHANGED frame
         \/ ~r.ok /\ Failed(r.vk) /\ Spent(r.cost)
         \/ r.ok /\ MayFail /\ Failed(r.vk) /\ Spent(1)
  BY DEF SubmitSurface
<1>4. Sound(r.vk) /\ Clean(r.vk, seen.leaked) /\ Kept(r.vk)
  BY <1>1, <1>2, <1>3, PreparedSound DEF Sound
<1>5. CASE vk' = r.vk /\ At("execute") /\ Spent(r.cost) /\ UNCHANGED frame
  <2>1. /\ call' \in CallType /\ call'.at = "execute" /\ call'.image = 0
        /\ Counted(seen') /\ seen'.leaked = seen.leaked
    BY <1>1, <1>5, AtIs, SpendingIs
  <2>2. CallSound'
    BY <1>1, <1>2, <1>5, <2>1, PresentationAssumption DEF CallSound, PresentationAssumption
  <2>3. Acquiring' = {}
    BY <2>1 DEF Acquiring
  <2>4. seen'.leaked \cup Acquiring' = seen.leaked
    BY <2>1, <2>3
  <2>5. QED
    BY <1>4, <1>5, <2>2, <2>4 DEF PresentInv
<1>6. CASE \E cost : Failed(r.vk) /\ Spent(cost)
  <2>1. PICK cost : Failed(r.vk) /\ Spent(cost)
    BY <1>6
  <2>2. Counted(seen') /\ seen'.leaked = seen.leaked
    BY <1>1, <2>1, SpendingIs
  <2>3. QED
    BY <1>4, <2>1, <2>2, FailedHolds
<1>7. QED
  BY <1>3, <1>5, <1>6

\* The call waits for the fence of a slot.
LEMMA SlotTaken ==
  ASSUME NEW v, Sound(v), Clean(v, seen'.leaked), Counted(seen'), call \in CallType,
         call.image = 0, frame' \in FrameType, TakeSlot(v),
         frame'.graphics /\ ~frame'.target => v.chain.surface # NoSurface
  PROVE  PresentInv'
<1>1. vk' = [v EXCEPT !.cursor = (@ % Slots) + 1]
  BY DEF TakeSlot
<1>2. Sound(vk') /\ Clean(vk', seen'.leaked) /\ vk'.chain = v.chain
  BY <1>1, CursorMoved
<1>3. v.cursor \in Slot /\ v.cursor \in 0..Slots
  BY SlotsAre DEF Sound, Kept, Shaped
<1>4. call' \in CallType /\ call'.at = "fence" /\ call'.slot = v.cursor
      /\ call'.image = 0
  BY <1>3 DEF TakeSlot, CallType
<1>5. CallSound'
  BY <1>2, <1>3, <1>4 DEF CallSound
<1>6. Acquiring' = {}
  BY <1>4 DEF Acquiring
<1>7. seen'.leaked \cup Acquiring' = seen'.leaked
  BY <1>6
<1>8. QED
  BY <1>2, <1>5, <1>7 DEF PresentInv

LEMMA SubmitOtherKeeps ==
  ASSUME PresentInv, SubmitOther
  PROVE  PresentInv'
<1>1. /\ Sound(vk) /\ Clean(vk, seen.leaked) /\ Counted(seen)
      /\ call \in CallType /\ frame \in FrameType /\ call.image = 0
  BY NotAcquiring DEF SubmitOther, Free
<1>2. TakeSlot(vk) /\ frame' = frame /\ seen' = seen /\ (frame.target \/ ~frame.graphics)
  BY DEF SubmitOther
<1>3. QED
  BY <1>1, <1>2, SlotTaken

LEMMA ExecuteKeeps ==
  ASSUME PresentInv, Execute
  PROVE  PresentInv'
<1>1. /\ Sound(vk) /\ Clean(vk, seen.leaked) /\ Counted(seen)
      /\ call \in CallType /\ frame \in FrameType /\ call.image = 0
  BY NotAcquiring DEF Execute
<1>2. frame.surface \in Surfaces
  BY <1>1 DEF Execute, PresentInv, CallSound, FrameType
<1> DEFINE size == surfaces[frame.surface].extent
           made(r, ok) == IF r.ok /\ frame.depth THEN DepthEnsured(r.vk, size, ok) ELSE r.vk
           fits(r, ok) == frame.depth => made(r, ok).depth = size
           cost(r, ok) == r.cost + (IF r.ok /\ ~fits(r, ok) THEN 1 ELSE 0)
<1>3. PICK r \in Prepared(vk, frame.surface, size), ok \in BOOLEAN :
         /\ Spent(cost(r, ok))
         /\ IF r.ok /\ fits(r, ok) THEN TakeSlot(made(r, ok)) /\ UNCHANGED <<surfaces, frame>>
                                   ELSE Failed(made(r, ok)) /\ surfaces' = Returned
  BY DEF Execute
<1> DEFINE v == made(r, ok)
<1>4. /\ Sound(r.vk) /\ Clean(r.vk, seen.leaked)
      /\ r.ok => r.vk.chain.surface # NoSurface
  BY <1>1, <1>2, <1>3, PreparedSound
<1>5. /\ Sound(v) /\ Clean(v, seen.leaked) /\ Kept(v)
      /\ r.ok => v.chain.surface # NoSurface
  <2>1. CASE r.ok /\ frame.depth
    BY <1>3, <1>4, <2>1, DepthEnsuredSound DEF Sound
  <2>2. CASE ~(r.ok /\ frame.depth)
    BY <1>4, <2>2 DEF Sound
  <2>3. QED
    BY <2>1, <2>2
<1>6. /\ Spent(cost(r, ok))
      /\ (r.ok /\ TakeSlot(v) /\ frame' = frame) \/ Failed(v)
  BY <1>3
<1> HIDE DEF v, made, fits, cost
<1>7. Counted(seen') /\ seen'.leaked = seen.leaked
  BY <1>1, <1>6, SpendingIs
<1>8. CASE r.ok /\ TakeSlot(v) /\ frame' = frame
  BY <1>1, <1>5, <1>7, <1>8, SlotTaken
<1>9. CASE Failed(v)
  BY <1>5, <1>7, <1>9, FailedHolds
<1>10. QED
  BY <1>6, <1>8, <1>9

LEMMA FenceKeeps ==
  ASSUME PresentInv, Fence
  PROVE  PresentInv'
<1>1. /\ Sound(vk) /\ Clean(vk, seen.leaked) /\ Counted(seen)
      /\ call \in CallType /\ frame \in FrameType /\ call.image = 0
  BY NotAcquiring DEF Fence
<1>2. call.at = "fence" /\ call.slot \in Slot
  BY DEF Fence, PresentInv, CallSound
<1> DEFINE v == [vk EXCEPT !.inFlight = @ \ {call.slot},
                           !.torn = @ \/ \E f \in InQueue(vk) : f.slot = call.slot]
           surface == frame.graphics /\ ~frame.target
           where == IF surface THEN "acquire" ELSE "record"
<1>3. /\ call.slot \in vk.inFlight => \A f \in InQueue(vk) : f.slot # call.slot
      /\ \/ vk' = v /\ At(where) /\ UNCHANGED <<surfaces, frame, seen>>
         \/ MayFail /\ Spent(1) /\ Failed(v) /\ surfaces' = Returned
  BY DEF Fence
<1>4. v = Fenced(vk, call.slot)
  BY DEF Fenced
<1> HIDE DEF v
<1>5. /\ Sound(v) /\ Clean(v, seen.leaked) /\ v.chain = vk.chain /\ v.gpu = vk.gpu
      /\ \A j \in 1..Len(vk.gpu) : vk.gpu[j].slot # call.slot
  <2>1. Sound(vk) /\ Clean(vk, seen.leaked) /\ call.slot \in Slot
    BY <1>1, <1>2
  <2>2. call.slot \in vk.inFlight => \A f \in InQueue(vk) : f.slot # call.slot
    BY <1>3
  <2>3. QED
    BY ONLY <1>4, <2>1, <2>2, FenceSound
<1>6. CASE vk' = v /\ At(where) /\ UNCHANGED <<surfaces, frame, seen>>
  <2>1. where \in {"acquire", "record"}
    OBVIOUS
  <2> HIDE DEF where
  <2>2. /\ call' \in CallType /\ call'.at = where /\ call'.slot = call.slot
        /\ call'.image = call.image
    BY <1>1, <1>6, <2>1, AtIs
  <2>3. where = "acquire" => frame.graphics /\ ~frame.target
    BY DEF where
  <2>4. CallSound'
    BY <1>1, <1>2, <1>5, <1>6, <2>1, <2>2, <2>3 DEF PresentInv, CallSound
  <2>5. Acquiring' = {}
    BY <1>1, <2>2 DEF Acquiring
  <2>6. seen'.leaked \cup Acquiring' = seen.leaked
    BY <1>6, <2>5
  <2>7. QED
    BY <1>5, <1>6, <2>4, <2>6 DEF PresentInv
<1>7. CASE Spent(1) /\ Failed(v)
  <2>1. Counted(seen') /\ seen'.leaked = seen.leaked
    BY <1>1, <1>7, SpendingIs
  <2>2. QED
    BY <1>5, <1>7, <2>1, FailedHolds DEF Sound
<1>8. QED
  BY <1>3, <1>6, <1>7

LEMMA AcquireKeeps ==
  ASSUME PresentInv, Acquire
  PROVE  PresentInv'
<1>1. /\ Sound(vk) /\ Clean(vk, seen.leaked) /\ Counted(seen) /\ Kept(vk)
      /\ call \in CallType /\ frame \in FrameType
  BY NotAcquiring DEF Acquire
<1>2. /\ call.slot \in Slot /\ vk.chain.surface # NoSurface /\ call.at = "acquire"
  BY DEF Acquire, PresentInv, CallSound
<1>3. CASE Failed(vk) /\ UNCHANGED seen
  BY <1>1, <1>3, FailedHolds
<1>4. CASE /\ ~OutOfDate(vk)
           /\ \E i \in Acquirable(vk) :
                /\ vk' = Acquired(vk, call.slot, i)
                /\ call' = [call EXCEPT !.at = "record", !.image = i]
           /\ seen' = [seen EXCEPT !.leaked = @ \ {call.slot}]
           /\ UNCHANGED <<surfaces, frame>>
  <2>1. PICK i \in Acquirable(vk) :
               /\ vk' = Acquired(vk, call.slot, i)
               /\ call' = [call EXCEPT !.at = "record", !.image = i]
    BY <1>4
  <2>2. i \in Image /\ vk.chain.image[i] = "engine" /\ i \in 0..Images /\ i # 0
        /\ call.slot \in 0..Slots
    BY <1>2, ImagesAre, SlotsAre DEF Acquirable
  <2>3. /\ Sound(vk') /\ Clean(vk', seen.leaked \cup {call.slot})
        /\ vk'.chain.image[i] = "acquired"
        /\ vk'.chain.surface = vk.chain.surface /\ vk'.chain.retired = vk.chain.retired
    BY <1>1, <2>1, <2>2, AcquiredSound
  <2>4. Counted(seen') /\ seen'.leaked = seen.leaked \ {call.slot}
    BY <1>1, <1>4, LeakedIs
  <2>5. /\ call' \in CallType /\ call'.at = "record" /\ call'.image = i
        /\ call'.slot = call.slot
    BY <1>1, <2>1, <2>2 DEF CallType
  <2>6. Acquiring' = {call.slot}
    BY <2>2, <2>5 DEF Acquiring
  <2>7. Clean(vk', seen'.leaked \cup Acquiring')
    <3>1. seen.leaked \cup {call.slot} \subseteq seen'.leaked \cup Acquiring'
      BY <2>4, <2>6
    <3>2. QED
      BY <2>3, <3>1, CleanMore
  <2>8. ~vk.chain.retired
    BY <1>4 DEF OutOfDate
  <2>9. CallSound'
    BY <1>1, <1>2, <1>4, <2>3, <2>4, <2>5, <2>8 DEF CallSound
  <2>10. QED
    BY <2>3, <2>7, <2>9 DEF PresentInv
<1>5. QED
  BY <1>3, <1>4 DEF Acquire

\* The image of a frame being recorded, and what its slot has.
LEMMA Recording ==
  ASSUME PresentInv, call.at = "record"
  PROVE  /\ Sound(vk) /\ Kept(vk) /\ Counted(seen) /\ frame \in FrameType
         /\ call.slot \in Slot
         /\ Clean(vk, seen.leaked \cup {call.slot})
         /\ call.image = 0 => Clean(vk, seen.leaked)
         /\ call.image # 0 =>
              /\ call.image \in Image /\ vk.chain.image[call.image] = "acquired"
              /\ vk.chain.surface # NoSurface /\ ~vk.chain.retired
<1>1. Clean(vk, seen.leaked \cup {call.slot})
  BY CleanMore DEF PresentInv, Acquiring
<1>2. call.image = 0 => Clean(vk, seen.leaked)
  BY CleanMore DEF PresentInv, Acquiring
<1>3. call.image # 0 => call.image \in Image
  BY PresentationAssumption DEF PresentInv, CallSound, CallType, Image, PresentationAssumption
<1>4. QED
  BY <1>1, <1>2, <1>3 DEF PresentInv, CallSound, Sound

\* A recreated swapchain after an error: the context is idle once more.
LEMMA RecoveredHolds ==
  ASSUME NEW v, Kept(v), NEW extra, NEW leaked, Clean(v, seen.leaked \cup leaked),
         Counted(seen), frame \in FrameType, Recovered(v, extra, leaked)
  PROVE  PresentInv'
<1>1. PICK o \in Outcomes(frame.surface) :
         /\ Failed(RecreateSwapchain(v, frame.surface, surfaces[frame.surface].extent, o.is))
         /\ seen' = [seen EXCEPT !.faults = @ + extra + o.cost, !.leaked = @ \cup leaked,
                                 !.unrecovered = @ + (IF o.is = "ok" THEN 0 ELSE 1)]
  BY DEF Recovered
<1> DEFINE w == RecreateSwapchain(v, frame.surface, surfaces[frame.surface].extent, o.is)
           faults == seen.faults + extra + o.cost
           left == seen.leaked \cup leaked
           unrecovered == seen.unrecovered + (IF o.is = "ok" THEN 0 ELSE 1)
<1>2. seen' = History(seen.frames, faults, left, unrecovered)
  BY <1>1 DEF Counted, History
<1>3. frame.surface \in Surfaces \cup {NoSurface} /\ o.is \in {"early", "late", "ok"}
  BY OutcomesAre DEF FrameType
<1>4. Sound(w) /\ Clean(w, left)
  BY <1>3, RecreatedSound
<1>5. Failed(w)
  BY <1>1
<1> HIDE DEF w, faults, left, unrecovered
<1>6. Counted(seen') /\ seen'.leaked = left
  BY ONLY <1>2, HistoryIs
<1>7. QED
  BY <1>4, <1>5, <1>6, FailedHolds DEF Sound

LEMMA RecordFailsKeeps ==
  ASSUME PresentInv, RecordFails
  PROVE  PresentInv'
<1>1. call.at = "record"
  BY DEF RecordFails
<1>2. CASE call.image # 0
  <2>1. Recovered(vk, 1, {call.slot})
    BY <1>2 DEF RecordFails
  <2>2. QED
    BY <1>1, <2>1, Recording, RecoveredHolds
<1>3. CASE call.image = 0
  <2>1. Failed(vk) /\ Spent(1)
    BY <1>3 DEF RecordFails
  <2>2. Counted(seen') /\ seen'.leaked = seen.leaked
    BY <1>1, <2>1, SpendingIs, Recording
  <2>3. QED
    BY <1>1, <1>3, <2>1, <2>2, Recording, FailedHolds
<1>4. QED
  BY <1>2, <1>3

LEMMA RecordKeeps ==
  ASSUME PresentInv, Record
  PROVE  PresentInv'
<1> DEFINE v == Submitted(vk, call.slot, call.image)
           done == [v EXCEPT !.inFlight = @ \cup {call.slot}]
<1>1. /\ Sound(vk) /\ Counted(seen) /\ frame \in FrameType /\ call.slot \in Slot
      /\ Clean(vk, seen.leaked \cup {call.slot}) /\ call.at = "record"
  BY Recording DEF Record
<1>2. call.image = 0 => Clean(vk, seen.leaked)
  BY Recording DEF Record
<1>3. call.image # 0 =>
        /\ call.image \in Image /\ vk.chain.image[call.image] = "acquired"
        /\ vk.chain.surface # NoSurface /\ ~vk.chain.retired
  BY Recording DEF Record
<1>4. Sound(done) /\ Clean(done, seen.leaked)
  <2>1. CASE call.image = 0
    BY <1>1, <1>2, <2>1, SubmittedUndrawn
  <2>2. CASE call.image # 0
    BY <1>1, <1>3, <2>2, SubmittedDrawn
  <2>3. QED
    BY <2>1, <2>2
<1>5. call.image # 0 => Kept(v) /\ Clean(v, seen.leaked)
  BY <1>1, <1>3, SubmittedDrawn
<1>6. \/ /\ vk' = done
         /\ call' = IF frame.target THEN NoCall ELSE [NoCall EXCEPT !.at = "present"]
         /\ frame' = IF frame.target THEN NoFrame ELSE frame
         /\ UNCHANGED seen
      \/ call.image # 0 /\ Recovered(v, 0, {})
  BY DEF Record
<1> HIDE DEF v, done
<1>7. CASE /\ vk' = done
           /\ call' = IF frame.target THEN NoCall ELSE [NoCall EXCEPT !.at = "present"]
           /\ frame' = IF frame.target THEN NoFrame ELSE frame
           /\ UNCHANGED seen
  <2>1. /\ call' \in CallType /\ call'.image = 0 /\ call'.at \in {"idle", "present"}
        /\ frame' \in FrameType
    BY <1>1, <1>7, NoneTyped
  <2>2. QED
    BY <1>1, <1>4, <1>7, <2>1, HoldsNothing
<1>8. CASE call.image # 0 /\ Recovered(v, 0, {})
  <2>1. Clean(v, seen.leaked \cup {})
    BY <1>5, <1>8, CleanMore
  <2>2. QED
    BY <1>1, <1>5, <1>8, <2>1, RecoveredHolds
<1>9. QED
  BY <1>6, <1>7, <1>8

-----------------------------------------------------------------------------
\* present.

LEMMA PresentDoneKeeps ==
  ASSUME PresentInv, PresentDone
  PROVE  PresentInv'
<1>1. /\ Sound(vk) /\ Clean(vk, seen.leaked) /\ Counted(seen)
  BY NotAcquiring DEF PresentDone
<1>2. call' = NoCall /\ frame' = NoFrame /\ vk' = vk /\ seen' = seen
  BY DEF PresentDone, Ended
<1>3. QED
  BY <1>1, <1>2, HoldsNothing, NoneTyped

\* A step of present leaves a sound context and ends, or goes on to an acquisition.
LEMMA PresentStep ==
  ASSUME Sound(vk'), Clean(vk', seen'.leaked), Counted(seen'), call \in CallType,
         frame \in FrameType, call.image = 0,
         Ended \/ (At("acquireUndrawn") /\ UNCHANGED frame) \/ (At("again") /\ UNCHANGED frame)
  PROVE  PresentInv'
<1>1. CASE Ended
  BY <1>1, HoldsNothing, NoneTyped DEF Ended
<1>2. CASE At("acquireUndrawn") /\ UNCHANGED frame
  <2>1. call' \in CallType /\ call'.at = "acquireUndrawn" /\ call'.image = 0
    BY <1>2, AtIs
  <2>2. QED
    BY <1>2, <2>1, HoldsNothing
<1>3. CASE At("again") /\ UNCHANGED frame
  <2>1. call' \in CallType /\ call'.at = "again" /\ call'.image = 0
    BY <1>3, AtIs
  <2>2. QED
    BY <1>3, <2>1, HoldsNothing
<1>4. QED
  BY <1>1, <1>2, <1>3

LEMMA AcquirePresentKeeps ==
  ASSUME PresentInv, AcquirePresent
  PROVE  PresentInv'
<1>1. /\ Sound(vk) /\ Clean(vk, seen.leaked) /\ Counted(seen)
      /\ call \in CallType /\ frame \in FrameType /\ call.image = 0
  BY NotAcquiring DEF AcquirePresent
<1>2. CASE Ended /\ UNCHANGED <<vk, seen>>
  BY <1>1, <1>2, PresentStep
<1>3. CASE /\ frame.surface # NoSurface
           /\ \E r \in Prepared(vk, frame.surface, surfaces[frame.surface].extent) :
                /\ vk' = r.vk /\ Spent(r.cost)
                /\ IF r.ok THEN At("acquireUndrawn") /\ UNCHANGED frame ELSE Ended
  <2>1. PICK r \in Prepared(vk, frame.surface, surfaces[frame.surface].extent) :
               /\ vk' = r.vk /\ Spent(r.cost)
               /\ (At("acquireUndrawn") /\ UNCHANGED frame) \/ Ended
    BY <1>3
  <2>2. frame.surface \in Surfaces
    BY <1>1, <1>3 DEF FrameType
  <2>3. Sound(vk') /\ Clean(vk', seen.leaked)
    BY <1>1, <2>1, <2>2, PreparedSound
  <2>4. Counted(seen') /\ seen'.leaked = seen.leaked
    BY <1>1, <2>1, SpendingIs
  <2>5. QED
    BY <1>1, <2>1, <2>3, <2>4, PresentStep
<1>4. QED
  BY <1>2, <1>3 DEF AcquirePresent

LEMMA AcquireUndrawnKeeps ==
  ASSUME PresentInv, AcquireUndrawn
  PROVE  PresentInv'
<1>1. /\ Sound(vk) /\ Clean(vk, seen.leaked) /\ Counted(seen) /\ Kept(vk)
      /\ call \in CallType /\ frame \in FrameType /\ call.image = 0
  BY NotAcquiring DEF AcquireUndrawn
<1>2. CASE /\ \E i \in Acquirable(vk) : /\ vk' = Acquired(vk, 0, i)
                                        /\ call' = [call EXCEPT !.at = "swap", !.image = i]
           /\ UNCHANGED <<frame, seen>>
  <2>1. PICK i \in Acquirable(vk) : /\ vk' = Acquired(vk, 0, i)
                                    /\ call' = [call EXCEPT !.at = "swap", !.image = i]
    BY <1>2
  <2>2. i \in Image /\ vk.chain.image[i] = "engine" /\ i \in 0..Images /\ i # 0
    BY ImagesAre DEF Acquirable
  <2>3. 0 \in 0..Slots
    BY PresentationAssumption DEF PresentationAssumption
  <2>4. /\ Sound(vk') /\ Clean(vk', seen.leaked \cup {0}) /\ vk'.chain.image[i] = "acquired"
    BY <1>1, <2>1, <2>2, <2>3, AcquiredSound
  <2>5. Clean(vk', seen.leaked)
    BY <2>4, SlotsAre DEF Clean
  <2>6. call' \in CallType /\ call'.at = "swap" /\ call'.image = i
    BY <1>1, <2>1, <2>2 DEF CallType
  <2>7. Acquiring' = {}
    BY <2>6 DEF Acquiring
  <2>8. seen'.leaked \cup Acquiring' = seen.leaked
    BY <1>2, <2>7
  <2>9. CallSound'
    BY <1>1, <1>2, <2>2, <2>4, <2>6 DEF CallSound
  <2>10. QED
    BY <2>4, <2>5, <2>8, <2>9 DEF PresentInv
<1>3. CASE Ended /\ UNCHANGED <<vk, seen>>
  BY <1>1, <1>3, PresentStep
<1>4. CASE \E o \in Outcomes(frame.surface) :
             /\ vk' = RecreateSwapchain(vk, frame.surface, surfaces[frame.surface].extent, o.is)
             /\ Spent(o.cost)
             /\ IF o.is = "ok" THEN At("again") /\ UNCHANGED frame ELSE Ended
  <2>1. PICK o \in Outcomes(frame.surface) :
             /\ vk' = RecreateSwapchain(vk, frame.surface, surfaces[frame.surface].extent, o.is)
             /\ Spent(o.cost)
             /\ (At("again") /\ UNCHANGED frame) \/ Ended
    BY <1>4
  <2>2. frame.surface \in Surfaces \cup {NoSurface} /\ o.is \in {"early", "late", "ok"}
    BY <1>1, OutcomesAre DEF FrameType
  <2>3. Sound(vk') /\ Clean(vk', seen.leaked)
    BY <1>1, <2>1, <2>2, RecreatedSound
  <2>4. Counted(seen') /\ seen'.leaked = seen.leaked
    BY <1>1, <2>1, SpendingIs
  <2>5. QED
    BY <1>1, <2>1, <2>3, <2>4, PresentStep
<1>5. QED
  BY <1>2, <1>3, <1>4 DEF AcquireUndrawn

LEMMA SwapKeeps ==
  ASSUME PresentInv, Swap
  PROVE  PresentInv'
<1> DEFINE v == PresentedUndrawn(vk, call.image)
<1>1. /\ Sound(vk) /\ Clean(vk, seen.leaked) /\ Counted(seen)
      /\ call \in CallType /\ frame \in FrameType
  BY NotAcquiring DEF Swap
<1>2. call.image \in Image /\ vk.chain.image[call.image] = "acquired"
  BY <1>1, PresentationAssumption
     DEF Swap, PresentInv, CallSound, CallType, Image, PresentationAssumption
<1>3. Sound(v) /\ Clean(v, seen.leaked) /\ Kept(v)
  BY <1>1, <1>2, PresentedUndrawnSound DEF Sound
<1>4. /\ \/ vk' = v /\ UNCHANGED seen
         \/ \E o \in Outcomes(frame.surface) :
              /\ vk' = RecreateSwapchain(v, frame.surface, surfaces[frame.surface].extent, o.is)
              /\ Spent(o.cost)
      /\ Ended
  BY DEF Swap
<1> HIDE DEF v
<1>5. Sound(vk') /\ Clean(vk', seen'.leaked) /\ Counted(seen')
  <2>1. CASE vk' = v /\ UNCHANGED seen
    BY <1>1, <1>3, <2>1
  <2>2. CASE \E o \in Outcomes(frame.surface) :
              /\ vk' = RecreateSwapchain(v, frame.surface, surfaces[frame.surface].extent, o.is)
              /\ Spent(o.cost)
    <3>1. PICK o \in Outcomes(frame.surface) :
              /\ vk' = RecreateSwapchain(v, frame.surface, surfaces[frame.surface].extent, o.is)
              /\ Spent(o.cost)
      BY <2>2
    <3>2. frame.surface \in Surfaces \cup {NoSurface} /\ o.is \in {"early", "late", "ok"}
      BY <1>1, OutcomesAre DEF FrameType
    <3>3. Sound(vk') /\ Clean(vk', seen.leaked)
      BY <1>3, <3>1, <3>2, RecreatedSound
    <3>4. Counted(seen') /\ seen'.leaked = seen.leaked
      BY <1>1, <3>1, SpendingIs
    <3>5. QED
      BY <3>3, <3>4
  <2>3. QED
    BY <1>4, <2>1, <2>2
<1>6. QED
  BY <1>4, <1>5, HoldsNothing, NoneTyped DEF Ended

-----------------------------------------------------------------------------
\* The queue, the presentation engine and the window system.

LEMMA AcquireSignalsKeeps ==
  ASSUME PresentInv, NEW k \in 0..Slots, AcquireSignals(k)
  PROVE  PresentInv'
<1>1. Sound(vk') /\ Clean(vk', seen.leaked \cup Acquiring) /\ vk'.chain = vk.chain
      /\ vk'.gpu = vk.gpu
  BY SignalsSound DEF PresentInv, AcquireSignals
<1>2. QED
  BY <1>1, CallKept DEF AcquireSignals

LEMMA FrameEndsKeeps ==
  ASSUME PresentInv, FrameEnds
  PROVE  PresentInv'
<1>1. /\ Sound(vk') /\ Clean(vk', seen.leaked \cup Acquiring) /\ vk'.chain = vk.chain
      /\ \A k \in 1..Len(vk'.gpu) : \E j \in 1..Len(vk.gpu) : vk'.gpu[k] = vk.gpu[j]
  <2>1. vk' = FrameEnded(vk) /\ vk.gpu # <<>>
    BY DEF FrameEnds, FrameEnded
  <2>2. QED
    BY <2>1, FrameEndsSound DEF PresentInv
<1>2. QED
  BY <1>1, CallKept DEF FrameEnds

LEMMA ImageReturnsKeeps ==
  ASSUME PresentInv, NEW i \in Image, ImageReturns(i)
  PROVE  PresentInv'
<1>1. /\ Sound(vk') /\ Clean(vk', seen.leaked \cup Acquiring) /\ vk'.gpu = vk.gpu
      /\ vk'.chain.surface = vk.chain.surface /\ vk'.chain.retired = vk.chain.retired
      /\ \A j \in Image : vk.chain.image[j] = "acquired" => vk'.chain.image[j] = "acquired"
  <2> DEFINE t == vk.chain.waits[i]
  <2>1. /\ vk.chain.image[i] = "queued"
        /\ IF t = 0 THEN vk.available[0] = "signaled" ELSE vk.finished[t] = "signaled"
        /\ vk' = ImageBack(vk, i, t)
    BY DEF ImageReturns, ImageBack
  <2>2. t = vk.chain.waits[i]
    OBVIOUS
  <2> HIDE DEF t
  <2>3. QED
    BY <2>1, <2>2, ReturnsSound DEF PresentInv
<1>2. QED
  BY <1>1, CallKept DEF ImageReturns

LEMMA WindowMovesKeeps ==
  ASSUME PresentInv, NEW s \in Surfaces, NEW size, NEW stale \in BOOLEAN,
         WindowMoves(s, size, stale)
  PROVE  PresentInv'
<1> DEFINE now == vk.chain.stale \/ (stale /\ vk.chain.surface = s)
<1>1. now \in BOOLEAN
  OBVIOUS
<1>2. vk' = [vk EXCEPT !.chain.stale = now]
  BY DEF WindowMoves
<1> HIDE DEF now
<1>3. /\ Sound(vk') /\ Clean(vk', seen.leaked \cup Acquiring) /\ vk'.gpu = vk.gpu
      /\ vk'.chain.surface = vk.chain.surface /\ vk'.chain.retired = vk.chain.retired
      /\ vk'.chain.image = vk.chain.image
  BY <1>1, <1>2, StaleSound DEF PresentInv
<1>4. QED
  BY <1>3, CallKept DEF WindowMoves

-----------------------------------------------------------------------------
\* The inductive invariant holds at first, and each step keeps it.

LEMMA PresentInit == Init => PresentInv
<1> SUFFICES ASSUME Init PROVE PresentInv
  OBVIOUS
<1> DEFINE available == [k \in 0..Slots |-> "unsignaled"]
           finished == [i \in Image |-> "none"]
           c == NoChain
<1>1. vk = Native(c, 0, 0, 1, {}, <<>>, FALSE, FALSE, available, finished)
  BY DEF Init, Native
<1>2. /\ available \in [0..Slots -> {"unsignaled", "acquiring", "signaled"}]
      /\ finished \in [Image -> {"none", "unsignaled", "pending", "signaled"}]
      /\ \A k \in Slot : available[k] = "unsignaled"
      /\ \A i \in Image : finished[i] = "none"
  BY SlotsAre
<1>3. 1 \in Slot /\ {} \in SUBSET Slot /\ <<>> \in Seq(Entry)
  BY PresentationAssumption DEF PresentationAssumption, Slot
<1>4. /\ c \in ChainType /\ c.surface = NoSurface
      /\ \A i \in Image : c.image[i] = "engine" /\ c.waits[i] = 0
  BY NoChainIs
<1> HIDE DEF available, finished, c
<1>5. Shaped(vk)
  <2>1. c \in ChainType
    BY <1>4
  <2>2. /\ available \in [0..Slots -> {"unsignaled", "acquiring", "signaled"}]
        /\ finished \in [Image -> {"none", "unsignaled", "pending", "signaled"}]
    BY <1>2
  <2>3. QED
    BY ONLY <1>1, <1>3, <2>1, <2>2, NativeShaped
<1>6. /\ vk.chain = c /\ vk.gpu = <<>> /\ vk.available = available /\ vk.finished = finished
      /\ vk.torn = FALSE /\ vk.twice = FALSE
  BY <1>1 DEF Native
<1>7. 1..Len(vk.gpu) = {}
  BY <1>6
<1>8. Flown(vk) /\ Paired(vk) /\ ~vk.torn /\ ~vk.twice
  BY <1>2, <1>4, <1>6, <1>7 DEF Flown, Paired
<1>9. Sound(vk)
  BY <1>5, <1>8 DEF Sound, Kept
<1>10. Clean(vk, seen.leaked \cup Acquiring)
  BY <1>2, <1>6 DEF Clean
<1>11. Counted(seen)
  BY DEF Init, Counted
<1>12. CallSound
  BY <1>11, NoneTyped DEF Init, CallSound
<1>13. QED
  BY <1>9, <1>10, <1>12 DEF PresentInv

LEMMA PresentNext == PresentInv /\ [Next]_vars => PresentInv'
<1> SUFFICES ASSUME PresentInv, [Next]_vars PROVE PresentInv'
  OBVIOUS
<1>1. ASSUME NEW s \in Surfaces, NEW size \in Sizes, Begin(s, size) PROVE PresentInv'
  BY <1>1, BeginKeeps
<1>2. CASE BeginTarget \/ Abort \/ SubmitOrphan \/ SubmitSurface \/ SubmitOther
  BY <1>2, BeginTargetKeeps, AbortKeeps, SubmitOrphanKeeps, SubmitSurfaceKeeps,
     SubmitOtherKeeps
<1>3. ASSUME NEW depth \in BOOLEAN, Draw(depth) PROVE PresentInv'
  BY <1>3, DrawKeeps
<1>4. ASSUME NEW s \in Surfaces, NEW size \in Sizes \cup {0}, Resize(s, size)
      PROVE  PresentInv'
  BY <1>4, ResizeKeeps
<1>5. ASSUME NEW s \in Surfaces, DestroySurface(s) PROVE PresentInv'
  BY <1>5, DestroySurfaceKeeps
<1>6. CASE Submission
  BY <1>6, ExecuteKeeps, FenceKeeps, AcquireKeeps, RecordKeeps, RecordFailsKeeps,
     PresentDoneKeeps, AcquirePresentKeeps, AcquireUndrawnKeeps, SwapKeeps DEF Submission
<1>7. CASE Engine
  BY <1>7, AcquireSignalsKeeps, FrameEndsKeeps, ImageReturnsKeeps DEF Engine
<1>8. ASSUME NEW s \in Surfaces, NEW size \in Sizes \cup {0}, NEW stale \in BOOLEAN,
             WindowMoves(s, size, stale)
      PROVE  PresentInv'
  BY <1>8, WindowMovesKeeps
<1>9. CASE UNCHANGED vars
  BY <1>9 DEF vars, PresentInv, CallSound, Acquiring
<1>10. QED
  BY <1>1, <1>2, <1>3, <1>4, <1>5, <1>6, <1>7, <1>8, <1>9 DEF Next

LEMMA PresentAlways == Spec => []PresentInv
<1>1. QED
  BY PresentInit, PresentNext, PTL DEF Spec

(* A semaphore is handed out for signaling only when nothing is left of its last signal:
   when an acquisition begins, its slot's semaphore is at rest or its last frame failed
   after it acquired, and no submission signals an image's semaphore twice.  The frame
   that used the slot has ended once its fence was waited for, and the image that is
   acquired was given back by a presentation that waited for its semaphore. *)
THEOREM SemaphoresAlwaysReady == Spec => []SemaphoresReady
<1>1. PresentInv => SemaphoresReady
  <2> SUFFICES ASSUME PresentInv PROVE SemaphoresReady
    OBVIOUS
  <2>1. ~vk.twice
    BY DEF PresentInv, Sound, Kept
  <2>2. ASSUME call.at = "acquire"
        PROVE  vk.available[call.slot] = "unsignaled" \/ call.slot \in seen.leaked
    <3>1. Clean(vk, seen.leaked)
      BY <2>2, NotAcquiring
    <3>2. call.slot \in Slot /\ ~Drawn(vk, call.slot)
      BY <2>2 DEF PresentInv, CallSound, Drawn
    <3>3. QED
      BY <3>1, <3>2 DEF Clean
  <2>3. QED
    BY <2>1, <2>2 DEF SemaphoresReady
<1>2. QED
  BY <1>1, PresentAlways, PTL

(* No swapchain, view, semaphore or depth target is destroyed, and no command buffer reset,
   while a submitted frame or a presentation still uses it: every destruction follows a
   wait for the device, and every reset a wait for the slot's fence, whatever failed
   before. *)
THEOREM ObjectsAlwaysOutlive == Spec => []ObjectsOutlive
<1>1. PresentInv => ObjectsOutlive
  BY DEF PresentInv, Sound, Kept, ObjectsOutlive
<1>2. QED
  BY <1>1, PresentAlways, PTL
=============================================================================
