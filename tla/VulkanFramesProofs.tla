------------------------- MODULE VulkanFramesProofs -------------------------
(***************************************************************************)
(* Proofs about VulkanFrames, for all sessions, all swapchains and any     *)
(* number of fallback frames that the code may be given.                   *)
(***************************************************************************)
EXTENDS VulkanFrames, SequenceTheorems, TLAPS

(* What the variables are, and how they go together whatever happens. *)
Swapchain ==
    /\ rig \in Rigs
    /\ stage \in {"off", "idle", "run", "wait", "take", "failed"}
    /\ images \in rig.counts \cup {0}
    /\ frames \in 1..31
    /\ index \in 0..30 /\ index < frames
    /\ images > 0 => frames = images
    /\ acquired \in {None} \cup 0..30
    /\ acquired # None => acquired < images

Flags == signalled \in BOOLEAN /\ refreshed \in BOOLEAN /\ locked \in BOOLEAN

Gpu == reading \subseteq (0..30) \X (0..30) /\ reset \subseteq 0..30

Queue == pending \in Seq(Image) /\ Len(pending) <= frames + 2

Off == stage = "off" => images = 0 /\ pending = <<>> /\ refreshed = FALSE

Shape == Swapchain /\ Flags /\ Gpu /\ Queue /\ Off /\ ImageInHand

-----------------------------------------------------------------------------
(* The queue of images.                                                     *)

\* An image that is queued leaves the queue as short as the code wants it.
LEMMA QueueKept ==
    ASSUME NEW queue \in Seq(Image), NEW image \in Image, frames \in 1..31,
           Len(queue) <= frames + 2
    PROVE  /\ Kept(Append(queue, image)) \in Seq(Image)
           /\ Len(Kept(Append(queue, image))) <= frames + 2
<1> DEFINE longer == Append(queue, image)
<1>1. longer \in Seq(Image) /\ Len(longer) = Len(queue) + 1 /\ Len(queue) \in Nat
  OBVIOUS
<1>2. Tail(longer) \in Seq(Image) /\ Len(Tail(longer)) = Len(longer) - 1
  BY <1>1
<1> HIDE DEF longer
<1>3. Kept(longer) \in Seq(Image) /\ Len(Kept(longer)) <= frames + 2
  BY <1>1, <1>2 DEF Kept
<1> QED  BY <1>3 DEF longer

\* The queue without its oldest image.
LEMMA QueueTail ==
    ASSUME NEW queue \in Seq(Image), queue # <<>>
    PROVE  /\ Tail(queue) \in Seq(Image)
           /\ Len(Tail(queue)) = Len(queue) - 1
           /\ Head(queue) \in Image
OBVIOUS

\* If an image is due, there is one.
LEMMA DueImage ==
    ASSUME Swapchain, Queue, Due
    PROVE  pending # <<>>
<1>1. Delay \in Nat
  BY DEF Delay, Swapchain
<1> QED  BY <1>1 DEF Due, Queue

-----------------------------------------------------------------------------
(* The shape, part by part.                                                 *)

\* The state has its shape before a session begins.
LEMMA ShapeInit == Init => Shape
<1> SUFFICES ASSUME Init PROVE Shape
  OBVIOUS
<1>1. Swapchain
  BY DEF Init, Swapchain, None
<1>2. Flags /\ Gpu
  BY DEF Init, Flags, Gpu
<1>3. Queue /\ Off
  BY EmptySeq DEF Init, Queue, Off
<1>4. ImageInHand
  BY DEF Init, ImageInHand
<1> QED  BY <1>1, <1>2, <1>3, <1>4 DEF Shape

\* The numbers of images and frames and the index agree, whatever swapchain is made.
LEMMA SwapchainNext == Swapchain /\ [Next]_vars => Swapchain'
<1> SUFFICES ASSUME Swapchain, [Next]_vars PROVE Swapchain'
  OBVIOUS
<1>c. rig \in Rigs /\ rig.counts \subseteq 1..31 /\ FallbackFrames \in 1..3
  BY VulkanAssumption DEF Swapchain
<1>1. ASSUME NEW n \in rig.counts \cup {0}, Create(n) PROVE Swapchain'
  BY <1>1, <1>c DEF Swapchain, Create, NewSwapchain, None
<1>2. CASE NextIndex
  <2>1. (index + 1) % frames \in 0..(frames - 1)
    BY DEF Swapchain
  <2> QED  BY <1>2, <2>1 DEF Swapchain, NextIndex, swapVars
<1>3. CASE KeepImage
  BY <1>3, <1>c DEF Swapchain, KeepImage, None
<1>4. ASSUME NEW i \in Mask, Acquire(i) PROVE Swapchain'
  BY <1>4, <1>c DEF Swapchain, Acquire, Mask, None
<1>5. ASSUME NEW n \in rig.counts, NEW i \in 0..(n - 1), AcquireAnew(n, i) PROVE Swapchain'
  <2>1. /\ rig' = rig /\ stage' = "run" /\ images' = n /\ frames' = n
        /\ acquired' = i /\ index' = i
    BY <1>5 DEF AcquireAnew
  <2>2. n \in 1..31 /\ i \in 0..30 /\ i < n
    BY <1>c
  <2> QED  BY <1>c, <2>1, <2>2 DEF Swapchain, None
<1>6. CASE AcquireFails
  <2>1. rig' = rig /\ stage' = "failed"
    BY <1>6 DEF AcquireFails
  <2>2. CASE UNCHANGED <<swapVars, index, pending>>
    BY <2>1, <2>2 DEF Swapchain, swapVars
  <2>3. ASSUME NEW n \in rig.counts, Recreated(n) PROVE Swapchain'
    <3>1. images' = n /\ frames' = n /\ index' = 0 /\ acquired' = None
      BY <2>3 DEF Recreated, NewSwapchain
    <3>2. n \in 1..31
      BY <1>c
    <3> QED  BY <1>c, <2>1, <3>1, <3>2 DEF Swapchain, None
  <2>4. CASE RecreateFails
    BY <2>1, <2>4 DEF Swapchain, RecreateFails, NewSwapchain, None
  <2> QED  BY <1>6, <2>2, <2>3, <2>4 DEF AcquireFails
<1>7. ASSUME NEW n \in rig.counts, PresentAnew(n) PROVE Swapchain'
  <2>1. rig' \in Rigs /\ stage' \in {"off", "idle", "run", "wait", "take", "failed"}
    BY <1>7 DEF Swapchain, PresentAnew
  <2>2. images' = n /\ frames' = n /\ index' = 0 /\ acquired' = None /\ rig' = rig
    BY <1>7 DEF PresentAnew, Recreated, NewSwapchain
  <2> QED  BY <1>c, <2>1, <2>2 DEF Swapchain, None
<1>8. CASE Present \/ PresentFails
  <2>1. /\ rig' = rig /\ stage' \in {"idle", "failed"}
        /\ frames' = frames /\ index' = index /\ acquired' = None
        /\ images' = images \/ images' = 0
    BY <1>8 DEF Present, PresentFails, Submitted, RecreateFails, NewSwapchain
  <2> QED  BY <2>1 DEF Swapchain, None
<1>9. CASE Unload
  BY <1>9 DEF Swapchain, Unload, Destroyed, NewSwapchain, None
<1>10. ASSUME NEW guarded \in BOOLEAN, Renders(guarded) \/ ThreadSetsImage(guarded)
       PROVE  Swapchain'
  BY <1>10 DEF Swapchain, Renders, ThreadSetsImage, swapVars
<1>11. CASE ThreadSetsSignal \/ ThreadRefreshes \/ ThreadLocksQueue \/ ThreadUnlocksQueue
  BY <1>11 DEF Swapchain, ThreadSetsSignal, ThreadRefreshes, ThreadLocksQueue,
               ThreadUnlocksQueue, swapVars
<1>12. CASE NothingRefreshed \/ TakeRefresh \/ Ready \/ QueueTimesOut \/ NoImageDue
  BY <1>12 DEF Swapchain, NothingRefreshed, TakeRefresh, Ready, QueueTimesOut, NoImageDue, swapVars
<1>13. CASE ReadBack \/ ReadBackFails \/ GpuDone \/ UNCHANGED vars
  BY <1>13 DEF Swapchain, ReadBack, ReadBackFails, GpuDone, swapVars, vars
<1> QED  BY <1>1, <1>2, <1>3, <1>4, <1>5, <1>6, <1>7, <1>8, <1>9, <1>10, <1>11, <1>12, <1>13
         DEF Next, Prepares, RenderThread, Consumes

\* The parts that have few values keep their types.
LEMMA FlagsNext == Flags /\ [Next]_vars => Flags'
<1> SUFFICES ASSUME Flags, [Next]_vars PROVE Flags'
  OBVIOUS
<1>1. ASSUME NEW n, Create(n) PROVE Flags'
  BY <1>1 DEF Flags, Create, NewSwapchain
<1>2. CASE Prepares
  BY <1>2 DEF Flags, Prepares, NextIndex, KeepImage, Acquire, AcquireAnew, AcquireFails,
              Recreated, RecreateFails, NewSwapchain, swapVars
<1>3. ASSUME NEW guarded \in BOOLEAN, Renders(guarded) PROVE Flags'
  BY <1>3 DEF Flags, Renders, swapVars
<1>4. CASE RenderThread
  BY <1>4 DEF Flags, RenderThread, ThreadSetsImage, ThreadSetsSignal, ThreadRefreshes,
              ThreadLocksQueue, ThreadUnlocksQueue, swapVars
<1>5. CASE Consumes
  BY <1>5 DEF Flags, Consumes, NothingRefreshed, TakeRefresh, Ready, QueueTimesOut, NoImageDue,
              Present, PresentFails, PresentAnew, Submitted, Recreated, RecreateFails,
              NewSwapchain, ReadBack, ReadBackFails, swapVars
<1>6. CASE GpuDone \/ Unload \/ UNCHANGED vars
  BY <1>6 DEF Flags, GpuDone, Unload, Destroyed, VideoStateReset, NewSwapchain, vars
<1> QED  BY <1>1, <1>2, <1>3, <1>4, <1>5, <1>6 DEF Next

\* A frame has its image.
LEMMA HandNext == Swapchain /\ ImageInHand /\ [Next]_vars => ImageInHand'
<1> SUFFICES ASSUME Swapchain, ImageInHand, [Next]_vars PROVE ImageInHand'
  OBVIOUS
<1>1. ASSUME NEW n, Create(n) PROVE ImageInHand'
  BY <1>1 DEF ImageInHand, Create, NewSwapchain
<1>2. CASE NextIndex \/ KeepImage \/ AcquireFails
  BY <1>2 DEF ImageInHand, Swapchain, NextIndex, KeepImage, AcquireFails, swapVars
<1>3. ASSUME NEW i \in Mask, Acquire(i) PROVE ImageInHand'
  BY <1>3 DEF ImageInHand, Swapchain, Acquire, Mask, None
<1>4. ASSUME NEW n \in rig.counts, NEW i \in 0..(n - 1), AcquireAnew(n, i) PROVE ImageInHand'
  BY <1>4 DEF ImageInHand, AcquireAnew, None
<1>5. ASSUME NEW guarded \in BOOLEAN, Renders(guarded) PROVE ImageInHand'
  BY <1>5 DEF ImageInHand, Renders, swapVars
<1>6. CASE RenderThread
  BY <1>6 DEF ImageInHand, RenderThread, ThreadSetsImage, ThreadSetsSignal, ThreadRefreshes,
              ThreadLocksQueue, ThreadUnlocksQueue, swapVars
<1>7. CASE NothingRefreshed \/ TakeRefresh \/ Ready \/ QueueTimesOut \/ NoImageDue
           \/ ReadBack \/ ReadBackFails
  BY <1>7 DEF ImageInHand, NothingRefreshed, TakeRefresh, Ready, QueueTimesOut, NoImageDue,
              ReadBack, ReadBackFails, swapVars
<1>8. CASE Present
  BY <1>8 DEF ImageInHand, Present, Submitted
<1>9. ASSUME NEW n \in rig.counts, PresentAnew(n) PROVE ImageInHand'
  BY <1>9 DEF ImageInHand, PresentAnew, Recreated, NewSwapchain
<1>10. CASE PresentFails
  BY <1>10 DEF ImageInHand, PresentFails
<1>11. CASE GpuDone \/ Unload \/ UNCHANGED vars
  BY <1>11 DEF ImageInHand, GpuDone, Unload, Destroyed, VideoStateReset, NewSwapchain, vars
<1> QED  BY <1>1, <1>2, <1>3, <1>4, <1>5, <1>6, <1>7, <1>8, <1>9, <1>10, <1>11
         DEF Next, Prepares, Consumes

\* What the GPU is at was submitted for an image of the swapchain there is.
LEMMA GpuNext == Swapchain /\ Queue /\ ImageInHand /\ Gpu /\ [Next]_vars => Gpu'
<1> SUFFICES ASSUME Swapchain, Queue, ImageInHand, Gpu, [Next]_vars PROVE Gpu'
  OBVIOUS
<1>1. ASSUME NEW n, Create(n) PROVE Gpu'
  BY <1>1 DEF Gpu, Create, NewSwapchain
<1>2. CASE Prepares
  BY <1>2 DEF Gpu, Prepares, NextIndex, KeepImage, Acquire, AcquireAnew, AcquireFails,
              Recreated, RecreateFails, NewSwapchain, swapVars
<1>3. ASSUME NEW guarded \in BOOLEAN, Renders(guarded) PROVE Gpu'
  BY <1>3 DEF Gpu, Renders, swapVars
<1>4. CASE RenderThread
  BY <1>4 DEF Gpu, RenderThread, ThreadSetsImage, ThreadSetsSignal, ThreadRefreshes,
              ThreadLocksQueue, ThreadUnlocksQueue, swapVars
<1>5. CASE Present \/ PresentFails
  <2>1. /\ Head(pending).at \in 0..30
        /\ acquired # None => acquired \in 0..30
    <3>1. pending # <<>>
      BY <1>5, DueImage DEF Present, PresentFails
    <3> QED  BY <3>1, QueueTail DEF Queue, Image, Swapchain
  <2>2. acquired # None
    BY <1>5 DEF ImageInHand, Present, PresentFails
  <2>3. /\ reading' \in {reading, reading \cup {<<acquired, Head(pending).at>>}, {}}
        /\ reset' \in {reset, reset \cup {acquired}, {}}
    BY <1>5 DEF Present, PresentFails, Submitted, RecreateFails, NewSwapchain
  <2>4. <<acquired, Head(pending).at>> \in (0..30) \X (0..30)
    BY <2>1, <2>2
  <2> QED  BY <2>1, <2>2, <2>3, <2>4 DEF Gpu
<1>6. CASE NothingRefreshed \/ TakeRefresh \/ Ready \/ QueueTimesOut \/ NoImageDue
           \/ ReadBack \/ ReadBackFails
  BY <1>6 DEF Gpu, NothingRefreshed, TakeRefresh, Ready, QueueTimesOut, NoImageDue, ReadBack,
              ReadBackFails, swapVars
<1>7. ASSUME NEW n, PresentAnew(n) PROVE Gpu'
  BY <1>7 DEF Gpu, PresentAnew, Recreated, NewSwapchain
<1>8. CASE GpuDone \/ Unload \/ UNCHANGED vars
  BY <1>8 DEF Gpu, GpuDone, Unload, Destroyed, VideoStateReset, NewSwapchain, vars
<1> QED  BY <1>1, <1>2, <1>3, <1>4, <1>5, <1>6, <1>7, <1>8 DEF Next, Consumes

\* A queue that was emptied.
LEMMA EmptyFits == <<>> \in Seq(Image) /\ \A f \in 1..31 : Len(<<>>) <= f + 2
<1>1. Len(<<>>) = 0
  BY EmptySeq
<1>2. \A f \in 1..31 : 0 <= f + 2
  OBVIOUS
<1> QED  BY <1>1, <1>2, EmptySeq, Zenon

\* A queue that a new swapchain or an unload emptied has the shape of a queue.
LEMMA QueueEmptied ==
    ASSUME pending' = <<>>, frames' \in 1..31
    PROVE  Queue'
BY EmptyFits, Zenon DEF Queue

\* The queue holds images, and no more than two more than there are frames.
LEMMA QueueNext == Swapchain /\ Queue /\ Off /\ [Next]_vars => Queue'
<1> SUFFICES ASSUME Swapchain, Queue, Off, [Next]_vars PROVE Queue'
  OBVIOUS
<1>c. rig.counts \subseteq 1..31 /\ FallbackFrames \in 1..3 /\ frames \in 1..31
  BY VulkanAssumption DEF Swapchain
<1>e. <<>> \in Seq(Image) /\ Len(<<>>) = 0
  BY EmptySeq
<1>1. ASSUME NEW n \in rig.counts \cup {0}, Create(n) PROVE Queue'
  <2>1. pending = <<>> /\ pending' = pending
    BY <1>1 DEF Off, Create
  <2>2. frames' \in 1..31
    BY <1>1, <1>c DEF Create
  <2>3. pending' \in Seq(Image)
    BY <1>e, <2>1, Zenon
  <2>4. Len(pending') = 0
    BY <1>e, <2>1, Zenon
  <2>5. \A f \in 1..31 : 0 <= f + 2
    OBVIOUS
  <2> QED  BY <2>2, <2>3, <2>4, <2>5, Zenon DEF Queue
<1>2. CASE NextIndex \/ KeepImage \/ \E i \in Mask : Acquire(i)
  <2>1. pending' = pending /\ frames' = frames
    BY <1>2, <1>c DEF Swapchain, NextIndex, KeepImage, Acquire, None, swapVars
  <2> QED  BY <2>1 DEF Queue
<1>11. CASE AcquireFails
  <2>1. \/ pending' = pending /\ frames' = frames
        \/ pending' = <<>> /\ frames' \in 1..31
    BY <1>11, <1>c DEF AcquireFails, Recreated, RecreateFails, swapVars
  <2> QED  BY <2>1, QueueEmptied DEF Queue
<1>3. ASSUME NEW n \in rig.counts, NEW i, AcquireAnew(n, i) PROVE Queue'
  BY <1>3, <1>c, QueueEmptied DEF AcquireAnew
<1>4. ASSUME NEW guarded \in BOOLEAN, Renders(guarded) \/ ThreadSetsImage(guarded)
      PROVE  Queue'
  <2>1. [at |-> index, guarded |-> guarded] \in Image
    BY DEF Swapchain, Image
  <2> HIDE DEF Image
  <2>2. pending' = Kept(Append(pending, [at |-> index, guarded |-> guarded])) /\ frames' = frames
    BY <1>4 DEF Renders, ThreadSetsImage, SetImage, swapVars
  <2> QED  BY <2>1, <2>2, <1>c, QueueKept DEF Queue
<1>5. CASE ThreadSetsSignal
  <2> DEFINE last == [at |-> pending[Len(pending)].at, guarded |-> TRUE]
  <2>1. last \in Image
    <3>1. Len(pending) \in 1..Len(pending)
      BY <1>5 DEF Queue, ThreadSetsSignal
    <3>2. pending[Len(pending)] \in Image
      BY <3>1 DEF Queue
    <3> QED  BY <3>2 DEF Image
  <2>2. pending' = [pending EXCEPT ![Len(pending)] = last] /\ frames' = frames
    BY <1>5 DEF ThreadSetsSignal, swapVars
  <2> HIDE DEF last
  <2>3. pending' \in Seq(Image) /\ Len(pending') = Len(pending)
    <3>1. pending \in Seq(Image) /\ Len(pending) \in 1..Len(pending)
      BY <1>5 DEF Queue, ThreadSetsSignal
    <3> QED  BY <2>1, <2>2, <3>1, ExceptSeq
  <2> QED  BY <2>2, <2>3 DEF Queue
<1>6. CASE ThreadRefreshes \/ ThreadLocksQueue \/ ThreadUnlocksQueue \/ NothingRefreshed
           \/ TakeRefresh \/ Ready \/ QueueTimesOut \/ NoImageDue
  BY <1>6 DEF Queue, ThreadRefreshes, ThreadLocksQueue, ThreadUnlocksQueue, NothingRefreshed,
              TakeRefresh, Ready, QueueTimesOut, NoImageDue, swapVars
<1>7. CASE Present \/ PresentFails \/ ReadBack \/ ReadBackFails
  <2>1. pending # <<>>
    BY <1>7, DueImage DEF Present, PresentFails, ReadBack, ReadBackFails
  <2>2. Tail(pending) \in Seq(Image) /\ Len(Tail(pending)) = Len(pending) - 1
    BY <2>1, QueueTail DEF Queue
  <2>3. pending' = Tail(pending) /\ frames' = frames
    BY <1>7 DEF Present, PresentFails, ReadBack, ReadBackFails, RecreateFails, swapVars
  <2> QED  BY <2>2, <2>3, <1>c DEF Queue
<1>8. ASSUME NEW n \in rig.counts, PresentAnew(n) PROVE Queue'
  BY <1>8, <1>c, QueueEmptied DEF PresentAnew, Recreated
<1>9. CASE Unload
  BY <1>9, QueueEmptied DEF Unload, Destroyed
<1>10. CASE GpuDone \/ UNCHANGED vars
  BY <1>10 DEF Queue, GpuDone, vars
<1> QED  BY <1>1, <1>2, <1>3, <1>4, <1>5, <1>6, <1>7, <1>8, <1>9, <1>10, <1>11
         DEF Next, Prepares, RenderThread, Consumes

\* While no session renders, nothing of an earlier one is left.
LEMMA OffNext == Off /\ [Next]_vars => Off'
<1> SUFFICES ASSUME Off, [Next]_vars PROVE Off'
  OBVIOUS
<1>1. ASSUME NEW n, Create(n) PROVE Off'
  BY <1>1 DEF Off, Create
<1>2. CASE Prepares
  BY <1>2 DEF Off, Prepares, NextIndex, KeepImage, Acquire, AcquireAnew, AcquireFails
<1>3. ASSUME NEW guarded \in BOOLEAN, Renders(guarded) PROVE Off'
  BY <1>3 DEF Off, Renders
<1>4. CASE RenderThread
  BY <1>4 DEF Off, RenderThread, ThreadSetsImage, ThreadSetsSignal, ThreadRefreshes,
              ThreadLocksQueue, ThreadUnlocksQueue, swapVars
<1>5. CASE Consumes
  BY <1>5 DEF Off, Consumes, NothingRefreshed, TakeRefresh, Ready, QueueTimesOut, NoImageDue,
              Present, PresentFails, PresentAnew, ReadBack, ReadBackFails
<1>6. CASE GpuDone \/ Unload \/ UNCHANGED vars
  BY <1>6 DEF Off, GpuDone, Unload, Destroyed, VideoStateReset, NewSwapchain, vars
<1> QED  BY <1>1, <1>2, <1>3, <1>4, <1>5, <1>6 DEF Next

\* The whole shape, from its parts.
LEMMA ShapeNext == Shape /\ [Next]_vars => Shape'
BY SwapchainNext, FlagsNext, HandNext, GpuNext, QueueNext, OffNext DEF Shape

-----------------------------------------------------------------------------
(* The images of a steady core.                                             *)

Steady == rig.core = "steady"

\* An image of the frame that runs is in the queue.
Holding == refreshed \/ stage \in {"wait", "take"}

\* The sync index went on since the last image was set.
Gap == IF stage = "run" /\ ~refreshed THEN 1 ELSE 0

\* A frame that was announced is taken before the next one is prepared.
Fresh == Steady => (refreshed => stage = "run")

\* In a window, no image waits while the next frame is prepared.
WindowQueue ==
    Steady /\ images > 0 /\ stage \notin {"off", "failed"} =>
        IF Holding THEN pending # <<>> /\ Tail(pending) = <<>> /\ Head(pending).at = index
                   ELSE pending = <<>>

\* Without one, the images that wait are of the last frames, each of another sync index.
FallbackQueue ==
    Steady /\ images = 0 /\ stage \notin {"off", "failed"} =>
        /\ frames = FallbackFrames
        /\ Len(pending) <= FallbackFrames - (IF Holding THEN 0 ELSE 1)
        /\ \A k \in 1..Len(pending) :
               (pending[k].at + (Len(pending) - k) + Gap) % FallbackFrames = index

\* What the GPU reads for a swapchain image is what the core rendered for that image.
SameImage == Steady => \A r \in reading : r[1] = r[2]

Free == Fresh /\ WindowQueue /\ FallbackQueue /\ SameImage

\* Nothing waits and nothing is read before a session begins.
LEMMA FreeInit == Init => Free
BY DEF Init, Free, Fresh, WindowQueue, FallbackQueue, SameImage

\* What a steady core set in this frame is there for the frame.
LEMMA FreshNext == Off /\ Fresh /\ [Next]_vars => Fresh'
<1> SUFFICES ASSUME Off, Fresh, [Next]_vars PROVE Fresh'
  OBVIOUS
<1>1. ASSUME NEW n, Create(n) PROVE Fresh'
  BY <1>1 DEF Fresh, Steady, Off, Create
<1>2. CASE Prepares
  BY <1>2 DEF Fresh, Steady, Prepares, NextIndex, KeepImage, Acquire, AcquireAnew, AcquireFails
<1>3. ASSUME NEW guarded \in BOOLEAN, Renders(guarded) PROVE Fresh'
  BY <1>3 DEF Fresh, Steady, Renders
<1>4. CASE RenderThread
  BY <1>4 DEF Fresh, Steady, RenderThread, ThreadSetsImage, ThreadSetsSignal, ThreadRefreshes,
              ThreadLocksQueue, ThreadUnlocksQueue
<1>5. CASE Consumes
  BY <1>5 DEF Fresh, Steady, Consumes, NothingRefreshed, TakeRefresh, Ready, QueueTimesOut,
              NoImageDue, Present, PresentFails, PresentAnew, ReadBack, ReadBackFails
<1>6. CASE GpuDone \/ Unload \/ UNCHANGED vars
  BY <1>6 DEF Fresh, Steady, GpuDone, Unload, Destroyed, VideoStateReset, vars
<1> QED  BY <1>1, <1>2, <1>3, <1>4, <1>5, <1>6 DEF Next

\* An image that is set while fewer wait than the queue may hold is put behind them.
LEMMA QueueGrows ==
    ASSUME NEW queue \in Seq(Image), NEW image \in Image, frames \in 1..31,
           Len(queue) < frames + 2
    PROVE  /\ Kept(Append(queue, image)) = Append(queue, image)
           /\ Len(Append(queue, image)) = Len(queue) + 1
<1> DEFINE longer == Append(queue, image)
<1>1. Len(longer) = Len(queue) + 1 /\ Len(queue) \in Nat
  OBVIOUS
<1> HIDE DEF longer
<1>2. Kept(longer) = longer
  BY <1>1 DEF Kept
<1> QED  BY <1>1, <1>2 DEF longer

\* The queue of one image.
LEMMA OneImage ==
    ASSUME NEW image \in Image
    PROVE  /\ Append(<<>>, image) # <<>>
           /\ Tail(Append(<<>>, image)) = <<>>
           /\ Head(Append(<<>>, image)) = image
OBVIOUS

\* Where a steady core presents, at most the image of this frame waits.
LEMMA WindowQueueNext ==
    Swapchain /\ Queue /\ Off /\ Fresh /\ WindowQueue /\ [Next]_vars => WindowQueue'
<1> SUFFICES ASSUME Swapchain, Queue, Off, Fresh, WindowQueue, [Next]_vars PROVE WindowQueue'
  OBVIOUS
<1>1. ASSUME NEW n, Create(n) PROVE WindowQueue'
  BY <1>1 DEF WindowQueue, Holding, Off, Create
<1>2. CASE NextIndex \/ AcquireFails
  BY <1>2 DEF WindowQueue, NextIndex, AcquireFails, swapVars
<1>3. CASE KeepImage \/ \E i \in Mask : Acquire(i)
  BY <1>3 DEF WindowQueue, Steady, Fresh, Holding, KeepImage, Acquire
<1>4. ASSUME NEW n, NEW i, AcquireAnew(n, i) PROVE WindowQueue'
  BY <1>4 DEF WindowQueue, Steady, Fresh, Holding, AcquireAnew
<1>5. ASSUME NEW guarded \in BOOLEAN, Renders(guarded) PROVE WindowQueue'
  <2> SUFFICES ASSUME images > 0 PROVE WindowQueue'
    BY <1>5 DEF WindowQueue, Renders, swapVars
  <2> DEFINE image == [at |-> index, guarded |-> guarded]
  <2>1. pending = <<>>
    BY <1>5 DEF WindowQueue, Steady, Holding, Renders
  <2>2. image \in Image /\ image.at = index
    BY DEF Swapchain, Image
  <2>3. pending' = Kept(Append(pending, image)) /\ index' = index
    BY <1>5 DEF Renders, SetImage
  <2> HIDE DEF image
  <2>4. frames \in 1..31 /\ Len(pending) < frames + 2
    <3>1. frames \in 1..31 /\ Len(<<>>) = 0
      BY EmptySeq DEF Swapchain
    <3>2. 0 < frames + 2
      BY <3>1
    <3> QED  BY <2>1, <3>1, <3>2, Zenon
  <2>5. pending' = Append(<<>>, image)
    BY <2>1, <2>2, <2>3, <2>4, QueueGrows DEF Queue
  <2>6. pending' # <<>> /\ Tail(pending') = <<>> /\ Head(pending').at = index'
    BY <2>2, <2>3, <2>5, OneImage, Zenon
  <2>7. Holding'
    BY <1>5 DEF Renders, Holding
  <2> QED  BY <2>6, <2>7, Zenon DEF WindowQueue
<1>6. CASE RenderThread
  BY <1>6 DEF WindowQueue, Steady, Holding, RenderThread, ThreadSetsImage, ThreadSetsSignal,
              ThreadRefreshes, ThreadLocksQueue, ThreadUnlocksQueue, swapVars
<1>7. CASE NothingRefreshed \/ TakeRefresh \/ Ready \/ QueueTimesOut
  BY <1>7 DEF WindowQueue, Steady, Holding, NothingRefreshed, TakeRefresh, Ready, QueueTimesOut,
              swapVars
<1>8. CASE NoImageDue
  <2>1. pending = <<>> \/ images = 0
    <3>1. CASE images > 0
      <4>1. ~(Len(pending) > 0)
        BY <1>8, <3>1 DEF NoImageDue, Due, Delay
      <4>2. pending = <<>>
        BY <4>1, EmptySeq DEF Queue
      <4> QED  BY <4>2
    <3>2. images > 0 \/ images = 0
      BY VulkanAssumption DEF Swapchain
    <3> QED  BY <3>1, <3>2
  <2> QED  BY <1>8, <2>1 DEF WindowQueue, Steady, Holding, NoImageDue, swapVars
<1>9. CASE Present \/ PresentFails
  BY <1>9 DEF WindowQueue, Steady, Fresh, Holding, Present, PresentFails
<1>10. ASSUME NEW n, PresentAnew(n) PROVE WindowQueue'
  BY <1>10 DEF WindowQueue, Steady, Fresh, Holding, PresentAnew, Recreated
<1>11. CASE ReadBack \/ ReadBackFails \/ Unload
  BY <1>11 DEF WindowQueue, ReadBack, ReadBackFails, Unload, Destroyed, VideoStateReset, swapVars
<1>12. CASE GpuDone \/ UNCHANGED vars
  BY <1>12 DEF WindowQueue, Steady, Holding, GpuDone, vars
<1> QED  BY <1>1, <1>2, <1>3, <1>4, <1>5, <1>6, <1>7, <1>8, <1>9, <1>10, <1>11, <1>12
         DEF Next, Prepares, Consumes

\* The sync index goes round.
LEMMA GoesRound ==
    ASSUME NEW f \in 1..3, NEW x \in Nat
    PROVE  /\ (x + 1) % f = ((x % f) + 1) % f
           /\ x < f => x % f = x
<1>1. CASE f = 1
  BY <1>1
<1>2. CASE f = 2
  BY <1>2
<1>3. CASE f = 3
  BY <1>3
<1> QED  BY <1>1, <1>2, <1>3

\* Fewer steps than a round lead elsewhere.
LEMMA Elsewhere ==
    ASSUME NEW f \in 1..3, NEW at \in Nat, NEW d \in 1..(f - 1)
    PROVE  (at + d) % f # at
<1>1. CASE f = 1
  BY <1>1
<1>2. CASE f = 2
  BY <1>2
<1>3. CASE f = 3
  BY <1>3
<1> QED  BY <1>1, <1>2, <1>3

\* The index of an image that waits is a number.
LEMMA AtNat ==
    ASSUME NEW queue \in Seq(Image), NEW k \in 1..Len(queue)
    PROVE  queue[k].at \in Nat
<1>1. queue[k] \in Image
  OBVIOUS
<1>2. queue[k].at \in 0..30
  BY <1>1 DEF Image
<1>3. \A i \in 0..30 : i \in Nat
  OBVIOUS
<1> QED  BY <1>2, <1>3, Zenon

\* Without a swapchain, the images that wait are of the last frames, one of each.
LEMMA FallbackQueueNext ==
    Swapchain /\ Queue /\ Off /\ Fresh /\ FallbackQueue /\ [Next]_vars => FallbackQueue'
<1> SUFFICES ASSUME Swapchain, Queue, Off, Fresh, FallbackQueue, [Next]_vars PROVE FallbackQueue'
  OBVIOUS
<1>c. FallbackFrames \in 1..3 /\ rig.counts \subseteq 1..31
  BY VulkanAssumption DEF Swapchain
<1>q. pending \in Seq(Image) /\ Len(pending) \in Nat
  BY DEF Queue
<1>1. ASSUME NEW n, Create(n) PROVE FallbackQueue'
  <2>1. pending' = <<>> /\ refreshed' = FALSE /\ stage' = "idle" /\ (images' = 0 => frames' = FallbackFrames)
    BY <1>1, <1>c DEF Off, Create, NewSwapchain
  <2>2. Len(pending') = 0 /\ ~Holding'
    BY <2>1, EmptySeq DEF Holding
  <2> QED  BY <2>1, <2>2, <1>c DEF FallbackQueue
<1>2. CASE NextIndex
  <2> SUFFICES ASSUME Steady PROVE FallbackQueue'
    BY <1>2 DEF FallbackQueue, Steady, NextIndex
  <2>1. /\ stage = "idle" /\ images = 0 /\ refreshed = FALSE
        /\ pending' = pending /\ frames' = frames /\ refreshed' = refreshed /\ stage' = "run"
        /\ index' = (index + 1) % frames
    BY <1>2 DEF NextIndex, swapVars, Fresh
  <2>2. ~Holding /\ ~Holding' /\ Gap = 0 /\ Gap' = 1
    BY <2>1 DEF Holding, Gap
  <2>3. /\ frames = FallbackFrames /\ Len(pending) <= FallbackFrames - 1
        /\ \A k \in 1..Len(pending) : (pending[k].at + (Len(pending) - k)) % FallbackFrames = index
    <3>1. \A k \in 1..Len(pending) : pending[k].at + (Len(pending) - k) + 0 = pending[k].at + (Len(pending) - k)
      BY <1>q, AtNat
    <3> QED  BY <2>1, <2>2, <3>1 DEF FallbackQueue
  <2>4. ASSUME NEW k \in 1..Len(pending)
        PROVE  (pending[k].at + (Len(pending) - k) + 1) % FallbackFrames = index'
    <3>1. pending[k].at + (Len(pending) - k) \in Nat
      BY <1>q, AtNat
    <3> QED  BY <2>1, <2>3, <3>1, <1>c, GoesRound
  <2> QED  BY <2>1, <2>2, <2>3, <2>4 DEF FallbackQueue
<1>3. CASE KeepImage \/ \E i \in Mask : Acquire(i)
  BY <1>3, <1>c DEF FallbackQueue, Swapchain, KeepImage, Acquire, None
<1>4. ASSUME NEW n \in rig.counts, NEW i, AcquireAnew(n, i) PROVE FallbackQueue'
  <2>1. n \in 1..31
    BY <1>c
  <2>2. n # 0
    BY <2>1
  <2>3. images' = n
    BY <1>4 DEF AcquireAnew
  <2> QED  BY <2>2, <2>3 DEF FallbackQueue
<1>5. CASE AcquireFails
  BY <1>5 DEF FallbackQueue, AcquireFails
<1>6. ASSUME NEW guarded \in BOOLEAN, Renders(guarded) PROVE FallbackQueue'
  <2> SUFFICES ASSUME images = 0 PROVE FallbackQueue'
    BY <1>6 DEF FallbackQueue, Renders, swapVars
  <2> DEFINE image == [at |-> index, guarded |-> guarded]
  <2>1. /\ ~Holding /\ Gap = 1 /\ Holding' /\ Gap' = 0
    BY <1>6 DEF Holding, Gap, Renders
  <2>2. /\ frames = FallbackFrames /\ Len(pending) <= FallbackFrames - 1
        /\ \A k \in 1..Len(pending) :
               (pending[k].at + (Len(pending) - k) + 1) % FallbackFrames = index
    BY <1>6, <2>1 DEF FallbackQueue, Steady, Renders
  <2>3. image \in Image /\ image.at = index /\ index \in Nat /\ index < frames
    BY DEF Swapchain, Image
  <2>4. pending' = Kept(Append(pending, image)) /\ index' = index /\ frames' = frames
    BY <1>6 DEF Renders, SetImage, swapVars
  <2> HIDE DEF image
  <2>5. frames \in 1..31 /\ Len(pending) < frames + 2
    BY <2>2, <1>q DEF Swapchain
  <2>6. pending' = Append(pending, image) /\ Len(pending') = Len(pending) + 1
    BY <2>3, <2>4, <2>5, <1>q, QueueGrows
  <2>7. ASSUME NEW k \in 1..Len(pending')
        PROVE  (pending'[k].at + (Len(pending') - k) + 0) % FallbackFrames = index'
    <3>1. CASE k = Len(pending) + 1
      <4>1. pending'[k] = image
        BY <3>1, <2>3, <2>6, <1>q
      <4>2. pending'[k].at + (Len(pending') - k) + 0 = index
        BY <4>1, <3>1, <2>3, <2>6, <1>q
      <4> QED  BY <4>2, <2>2, <2>3, <2>4, <1>c, GoesRound
    <3>2. CASE k \in 1..Len(pending)
      <4>1. pending'[k] = pending[k]
        BY <3>2, <2>3, <2>6, <1>q
      <4>2. pending[k].at \in Nat
        BY <3>2, <1>q, AtNat
      <4>3. pending'[k].at + (Len(pending') - k) + 0 = pending[k].at + (Len(pending) - k) + 1
        <5>1. \A a \in Nat : a + ((Len(pending) + 1) - k) + 0 = a + (Len(pending) - k) + 1
          BY <3>2, <1>q
        <5> QED  BY <5>1, <4>1, <4>2, <2>6, Zenon
      <4> QED  BY <4>3, <3>2, <2>2, <2>4
    <3> QED  BY <3>1, <3>2, <2>6, <1>q
  <2>8. Len(pending') <= FallbackFrames
    BY <2>2, <2>6, <1>q, <1>c
  <2> QED  BY <2>1, <2>2, <2>4, <2>7, <2>8, <1>c DEF FallbackQueue
<1>7. CASE RenderThread
  BY <1>7 DEF FallbackQueue, Steady, Holding, Gap, RenderThread, ThreadSetsImage,
              ThreadSetsSignal, ThreadRefreshes, ThreadLocksQueue, ThreadUnlocksQueue, swapVars
<1>8. CASE NothingRefreshed \/ TakeRefresh \/ Ready \/ QueueTimesOut
  BY <1>8 DEF FallbackQueue, Steady, Holding, Gap, NothingRefreshed, TakeRefresh, Ready,
              QueueTimesOut, swapVars
<1>9. CASE NoImageDue
  <2> SUFFICES ASSUME Steady, images = 0 PROVE FallbackQueue'
    BY <1>9 DEF FallbackQueue, Steady, NoImageDue, swapVars
  <2>1. /\ Holding /\ Gap = 0 /\ ~Holding' /\ Gap' = 0
        /\ pending' = pending /\ frames' = frames /\ index' = index
    BY <1>9 DEF NoImageDue, Holding, Gap, Fresh, swapVars
  <2>2. frames = FallbackFrames
    BY <1>9 DEF NoImageDue, FallbackQueue
  <2>3. Len(pending) <= FallbackFrames - 1
    BY <1>9, <2>2, <1>c, <1>q DEF NoImageDue, Due, Delay
  <2> QED  BY <1>9, <2>1, <2>2, <2>3 DEF FallbackQueue, NoImageDue
<1>10. CASE Present \/ PresentFails
  BY <1>10 DEF FallbackQueue, Present, PresentFails
<1>11. ASSUME NEW n \in rig.counts, PresentAnew(n) PROVE FallbackQueue'
  <2>1. n \in 1..31
    BY <1>c
  <2>2. n # 0
    BY <2>1
  <2>3. images' = n
    BY <1>11 DEF PresentAnew, Recreated, NewSwapchain
  <2> QED  BY <2>2, <2>3 DEF FallbackQueue
<1>12. CASE ReadBack
  <2> SUFFICES ASSUME Steady PROVE FallbackQueue'
    BY <1>12 DEF FallbackQueue, Steady, ReadBack
  <2>1. /\ Holding /\ Gap = 0 /\ ~Holding' /\ Gap' = 0
        /\ pending' = Tail(pending) /\ frames' = frames /\ index' = index
    BY <1>12 DEF ReadBack, Holding, Gap, Fresh, swapVars
  <2>2. /\ frames = FallbackFrames /\ Len(pending) <= FallbackFrames
        /\ \A k \in 1..Len(pending) :
               (pending[k].at + (Len(pending) - k) + 0) % FallbackFrames = index
    BY <1>12, <2>1, <1>c, <1>q DEF ReadBack, FallbackQueue
  <2>3. pending # <<>>
    BY <1>12, DueImage DEF ReadBack
  <2>4. Len(Tail(pending)) = Len(pending) - 1
    BY <2>3, <1>q, QueueTail
  <2>5. ASSUME NEW k \in 1..Len(Tail(pending))
        PROVE  (Tail(pending)[k].at + (Len(Tail(pending)) - k) + 0) % FallbackFrames = index
    <3>1. k + 1 \in 1..Len(pending) /\ Tail(pending)[k] = pending[k + 1]
      BY <2>3, <2>4, <1>q
    <3>2. pending[k + 1].at \in Nat
      BY <3>1, <1>q, AtNat
    <3>3. Tail(pending)[k].at + (Len(Tail(pending)) - k) + 0
              = pending[k + 1].at + (Len(pending) - (k + 1)) + 0
      BY <3>1, <3>2, <2>4, <1>q
    <3> QED  BY <3>1, <3>3, <2>2
  <2>6. Len(Tail(pending)) <= FallbackFrames - 1
    BY <2>2, <2>4, <1>c, <1>q
  <2> QED  BY <2>1, <2>2, <2>5, <2>6 DEF FallbackQueue
<1>13. CASE ReadBackFails \/ Unload
  BY <1>13 DEF FallbackQueue, ReadBackFails, Unload, Destroyed, VideoStateReset
<1>14. CASE GpuDone \/ UNCHANGED vars
  BY <1>14 DEF FallbackQueue, Steady, Holding, Gap, GpuDone, vars
<1> QED  BY <1>1, <1>2, <1>3, <1>4, <1>5, <1>6, <1>7, <1>8, <1>9, <1>10, <1>11, <1>12, <1>13,
            <1>14 DEF Next, Prepares, Consumes

\* What the GPU reads was rendered at the index of the swapchain image that shows it.
LEMMA SameImageNext ==
    ImageInHand /\ Queue /\ Fresh /\ WindowQueue /\ SameImage /\ [Next]_vars => SameImage'
<1> SUFFICES ASSUME ImageInHand, Queue, Fresh, WindowQueue, SameImage, [Next]_vars PROVE SameImage'
  OBVIOUS
<1>1. ASSUME NEW n, Create(n) PROVE SameImage'
  BY <1>1 DEF SameImage, Create, NewSwapchain
<1>2. CASE Prepares
  BY <1>2 DEF SameImage, Steady, Prepares, NextIndex, KeepImage, Acquire, AcquireAnew,
              AcquireFails, Recreated, RecreateFails, NewSwapchain, swapVars
<1>3. ASSUME NEW guarded \in BOOLEAN, Renders(guarded) PROVE SameImage'
  BY <1>3 DEF SameImage, Steady, Renders, swapVars
<1>4. CASE RenderThread
  BY <1>4 DEF SameImage, Steady, RenderThread, ThreadSetsImage, ThreadSetsSignal,
              ThreadRefreshes, ThreadLocksQueue, ThreadUnlocksQueue, swapVars
<1>5. CASE Present \/ PresentFails
  <2> SUFFICES ASSUME Steady PROVE SameImage'
    BY <1>5 DEF SameImage, Steady, Present, PresentFails
  <2>1. acquired = index /\ Head(pending).at = index
    BY <1>5 DEF ImageInHand, WindowQueue, Holding, Present, PresentFails
  <2>2. reading' \in {reading, reading \cup {<<acquired, Head(pending).at>>}, {}}
    BY <1>5 DEF Present, PresentFails, Submitted, RecreateFails, NewSwapchain
  <2> QED  BY <2>1, <2>2 DEF SameImage
<1>6. CASE NothingRefreshed \/ TakeRefresh \/ Ready \/ QueueTimesOut \/ NoImageDue
           \/ ReadBack \/ ReadBackFails
  BY <1>6 DEF SameImage, Steady, NothingRefreshed, TakeRefresh, Ready, QueueTimesOut, NoImageDue,
              ReadBack, ReadBackFails, swapVars
<1>7. ASSUME NEW n, PresentAnew(n) PROVE SameImage'
  BY <1>7 DEF SameImage, PresentAnew, Recreated, NewSwapchain
<1>8. CASE GpuDone \/ Unload \/ UNCHANGED vars
  BY <1>8 DEF SameImage, Steady, GpuDone, Unload, Destroyed, VideoStateReset, NewSwapchain, vars
<1> QED  BY <1>1, <1>2, <1>3, <1>4, <1>5, <1>6, <1>7, <1>8 DEF Next, Consumes

\* The whole of it, from its parts.
LEMMA FreeNext == Shape /\ Free /\ [Next]_vars => Free'
BY FreshNext, WindowQueueNext, FallbackQueueNext, SameImageNext DEF Shape, Free

-----------------------------------------------------------------------------
(* The session's theorems.                                                  *)

\* The shape holds in every state of every session.
LEMMA ShapeInvariant == Spec => []Shape
BY ShapeInit, ShapeNext, PTL DEF Spec

\* The variables have their types, and at most 33 images wait: the queue of images and the
\* places of the swapchain stay within what create_vulkan_present_state and
\* retro_vulkan_set_image allow.
THEOREM TypeCorrect == Spec => []TypeOK
<1>1. Shape => TypeOK
  <2> SUFFICES ASSUME Shape PROVE TypeOK
    OBVIOUS
  <2>1. frames \in 1..31 /\ Len(pending) \in Nat /\ Len(pending) <= frames + 2
    BY DEF Shape, Swapchain, Queue
  <2>2. Len(pending) <= 33
    BY <2>1
  <2> QED  BY <2>2, Zenon DEF Shape, Swapchain, Flags, Gpu, Queue, TypeOK
<1> QED  BY <1>1, ShapeInvariant, PTL

\* Whatever swapchain is made, the core finds its sync index in the mask.
THEOREM IndexAlwaysInMask == Spec => []IndexInMask
<1>1. Shape => IndexInMask
  <2> SUFFICES ASSUME Shape PROVE IndexInMask
    OBVIOUS
  <2>1. rig.counts \subseteq 1..31
    BY VulkanAssumption DEF Shape, Swapchain
  <2> QED  BY <2>1 DEF Shape, Swapchain, IndexInMask, Mask
<1> QED  BY <1>1, ShapeInvariant, PTL

\* No frame runs without the image that was acquired for it, and no semaphore is signalled
\* twice, however acquiring and presenting fail and whenever the swapchain is made anew.
THEOREM ImageAlwaysInHand == Spec => []ImageInHand
<1>1. Shape => ImageInHand
  BY DEF Shape
<1> QED  BY <1>1, ShapeInvariant, PTL

\* A steady core never renders into resources whose image still waits or is still read:
\* with a window, as nothing waits by then and waiting for the sync index frees what the GPU
\* reads; without one, as the images that wait are of other indices.
THEOREM ImageAlwaysFree == Spec => []ImageIsFree
<1>1. Shape /\ Free => ImageIsFree
  <2> SUFFICES ASSUME Shape, Free, stage = "run", Steady, ~refreshed
               PROVE  /\ \A k \in 1..Len(pending) : pending[k].at # index
                      /\ images > 0 /\ Signalled(index) => \A r \in reading : r[2] # index
    BY DEF ImageIsFree, Steady
  <2>c. FallbackFrames \in 1..3
    BY VulkanAssumption
  <2>1. CASE images > 0
    <3>1. pending = <<>>
      BY <2>1 DEF Free, WindowQueue, Holding
    <3>2. \A k \in 1..Len(pending) : pending[k].at # index
      BY <3>1, EmptySeq
    <3>3. \A r \in reading : r[1] = r[2]
      BY DEF Free, SameImage
    <3> QED  BY <3>2, <3>3 DEF Signalled
  <2>2. CASE images = 0
    <3>1. Len(pending) <= FallbackFrames - 1 /\ pending \in Seq(Image) /\ Len(pending) \in Nat
      BY <2>2 DEF Free, FallbackQueue, Holding, Shape, Queue
    <3>2. ASSUME NEW k \in 1..Len(pending) PROVE pending[k].at # index
      <4>1. (pending[k].at + (Len(pending) - k) + 1) % FallbackFrames = index
        BY <2>2 DEF Free, FallbackQueue, Gap
      <4>2. pending[k].at \in Nat
        BY <3>1, AtNat
      <4>3. (Len(pending) - k) + 1 \in 1..(FallbackFrames - 1)
        BY <3>1, <2>c
      <4>4. pending[k].at + (Len(pending) - k) + 1 = pending[k].at + ((Len(pending) - k) + 1)
        BY <4>2, <3>1
      <4> QED  BY <4>1, <4>2, <4>3, <4>4, <2>c, Elsewhere
    <3> QED  BY <3>2, <2>2
  <2>3. images > 0 \/ images = 0
    BY VulkanAssumption DEF Shape, Swapchain
  <2> QED  BY <2>1, <2>2, <2>3
<1>2. Spec => []Free
  BY FreeInit, FreeNext, ShapeInvariant, PTL DEF Spec
<1> QED  BY <1>1, <1>2, ShapeInvariant, PTL

=============================================================================
