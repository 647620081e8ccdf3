---------------------------- MODULE VulkanFrames ----------------------------
(***************************************************************************)
(* The frames of a session that renders with Vulkan.  The frame thread     *)
(* prepares a frame, by acquiring an image of the swapchain if the session *)
(* presents in a window of its own; the core renders into the resources of *)
(* its sync index and queues an image; the frame thread takes the oldest   *)
(* that is due and presents it, or reads it back.  Cores with a render     *)
(* thread call in at any time; the display asks for another swapchain; and *)
(* every call of Vulkan may fail.  It is the program as built for macOS,   *)
(* where no frame waits for the core's wait_sync_index.                    *)
(***************************************************************************)
EXTENDS Integers, Sequences

CONSTANTS
    Rigs,           \* sessions: [core |-> "steady" or "threaded",
                    \*            counts |-> the images that a swapchain of its window may have;
                    \*                       none if it presents in no window]
    FallbackFrames  \* VULKAN_FALLBACK_SYNC_FRAMES: sync_frames without a swapchain

ASSUME VulkanAssumption ==
    /\ \A r \in Rigs : r.core \in {"steady", "threaded"} /\ r.counts \subseteq 1..31
    /\ FallbackFrames \in 1..3

VARIABLES
    rig,        \* the session; it stays
    stage,      \* where the frame thread is
    images,     \* of the swapchain; 0 if there is none
    frames,     \* sync_frames
    index,      \* sync_index
    acquired,   \* acquired_image_index
    signalled,  \* the acquire semaphore has a signal that nobody has waited for
    reading,    \* <<swapchain image, index of the core's image>>: submissions that the GPU is at
    reset,      \* swapchain images whose fence was reset, and then nothing was submitted
    pending,    \* pending_images, the oldest first
    refreshed,  \* latest_hw_frame
    locked      \* queue_locked

vars == <<rig, stage, images, frames, index, acquired, signalled, reading, reset, pending,
          refreshed, locked>>

swapVars == <<images, frames, acquired, signalled, reading, reset>>

None == -1

\* PendingVulkanImage: the sync index it was rendered at, and whether it has semaphores.
Image == [at : 0..30, guarded : BOOLEAN]

\* Mutant: an image waits for as many as the core has resources.
DelayLonger == IF images > 0 THEN 0 ELSE IF frames < 3 THEN frames ELSE 3

\* How many images that were queued later an image waits for: as many as the core has
\* resources, less one; where it is presented in a window, for none.
Delay == IF images > 0 THEN 0 ELSE IF frames - 1 < 2 THEN frames - 1 ELSE 2

\* current_pending_vulkan_image
Due == Len(pending) > Delay

\* get_sync_index_mask, as the set of the bits that are 1.
Mask == 0..((IF images > 0 THEN images ELSE frames) - 1)

\* Whoever waits for the fence of a swapchain image goes on.
Signalled(i) == i \notin reset /\ \A r \in reading : r[1] # i

-----------------------------------------------------------------------------
(* The interface and its swapchain.                                         *)

\* create_vulkan_present_state: n images, all fences signalled, nothing acquired.
NewSwapchain(n) ==
    /\ images' = n
    /\ acquired' = None /\ signalled' = FALSE
    /\ reading' = {} /\ reset' = {}

Init ==
    /\ rig \in Rigs
    /\ stage = "off" /\ images = 0 /\ frames = 1 /\ index = 0
    /\ acquired = None /\ signalled = FALSE /\ reading = {} /\ reset = {}
    /\ pending = <<>> /\ refreshed = FALSE /\ locked = FALSE

\* VulkanInterfaceState::create: a swapchain if the policy allows it and it can be had.
Create(n) ==
    /\ stage = "off"
    /\ stage' = "idle"
    /\ NewSwapchain(n)
    /\ IF n > 0 THEN index' = 0 /\ frames' = n
                ELSE index' = FallbackFrames - 1 /\ frames' = FallbackFrames
    /\ UNCHANGED <<rig, pending, refreshed, locked>>

\* Mutant: the sync index stays.
RecreatedIndexStays(n) ==
    /\ NewSwapchain(n)
    /\ frames' = n /\ pending' = <<>>
    /\ UNCHANGED index

\* recreate_vulkan_present_state, after the device was idle.
Recreated(n) ==
    /\ NewSwapchain(n)
    /\ index' = 0 /\ frames' = n /\ pending' = <<>>

\* It fails: the old swapchain is gone, and there is no new one.
RecreateFails ==
    /\ NewSwapchain(0)
    /\ UNCHANGED <<index, frames>>

\* destroy_hw_render_session: the interface goes, and all that waited in it.
Destroyed ==
    /\ NewSwapchain(0)
    /\ frames' = 1 /\ index' = 0 /\ pending' = <<>> /\ locked' = FALSE

\* reset_callback_video_state
VideoStateReset == refreshed' = FALSE

\* unload, between two frames or after one has failed.
Unload ==
    /\ stage \in {"idle", "failed"}
    /\ stage' = "off"
    /\ Destroyed /\ VideoStateReset
    /\ UNCHANGED rig

-----------------------------------------------------------------------------
(* prepare_vulkan_sync_for_frame.                                           *)

\* Without a swapchain the index goes round.
NextIndex ==
    /\ stage = "idle" /\ images = 0
    /\ stage' = "run"
    /\ index' = (index + 1) % frames
    /\ UNCHANGED <<rig, swapVars, pending, refreshed, locked>>

\* The image that was acquired for a frame that showed nothing serves this one.
KeepImage ==
    /\ stage = "idle" /\ acquired # None
    /\ stage' = "run"
    /\ index' = acquired /\ frames' = images
    /\ UNCHANGED <<rig, images, acquired, signalled, reading, reset, pending, refreshed, locked>>

Acquire(i) ==
    /\ stage = "idle" /\ images > 0 /\ acquired = None
    /\ i < images
    /\ stage' = "run"
    /\ acquired' = i /\ index' = i /\ signalled' = TRUE /\ frames' = images
    /\ UNCHANGED <<rig, images, reading, reset, pending, refreshed, locked>>

\* The swapchain no longer fits: another is made, and an image of that acquired.
AcquireAnew(n, i) ==
    /\ stage = "idle" /\ images > 0 /\ acquired = None
    /\ i < n
    /\ stage' = "run"
    /\ images' = n /\ frames' = n /\ reading' = {} /\ reset' = {} /\ pending' = <<>>
    /\ acquired' = i /\ index' = i /\ signalled' = TRUE
    /\ UNCHANGED <<rig, refreshed, locked>>

\* No image comes, at once, after another swapchain was made, or as none can be made.
AcquireFails ==
    /\ stage = "idle" /\ images > 0 /\ acquired = None
    /\ stage' = "failed"
    /\ \/ UNCHANGED <<swapVars, index, pending>>
       \/ \E n \in rig.counts : Recreated(n)
       \/ RecreateFails /\ UNCHANGED pending
    /\ UNCHANGED <<rig, refreshed, locked>>

-----------------------------------------------------------------------------
(* The calls of the core.                                                   *)

\* Mutant: no more images wait than the core has resources, less one.
KeptFew(queue) ==
    IF Len(queue) > frames - 1 THEN Tail(queue) ELSE queue

\* The oldest image is dropped if too many wait.
Kept(queue) ==
    IF Len(queue) > frames + 2 THEN Tail(queue) ELSE queue

\* retro_vulkan_set_image: the image that was rendered at this sync index.
SetImage(guarded) ==
    pending' = Kept(Append(pending, [at |-> index, guarded |-> guarded]))

\* The frame of a steady core: it waits until its resources are free, renders, sets the
\* image and says that there is one.
Renders(guarded) ==
    /\ stage = "run" /\ rig.core = "steady" /\ ~refreshed
    /\ images > 0 => Signalled(index)
    /\ SetImage(guarded)
    /\ refreshed' = TRUE
    /\ UNCHANGED <<rig, stage, swapVars, index, locked>>

\* A render thread does each of these when it likes.
ThreadSetsImage(guarded) ==
    /\ stage # "off" /\ rig.core = "threaded"
    /\ SetImage(guarded)
    /\ UNCHANGED <<rig, stage, swapVars, index, refreshed, locked>>

\* retro_vulkan_set_signal_semaphore, for the image that was set last.
ThreadSetsSignal ==
    /\ stage # "off" /\ rig.core = "threaded" /\ pending # <<>>
    /\ pending' = [pending EXCEPT ![Len(pending)] = [at |-> @.at, guarded |-> TRUE]]
    /\ UNCHANGED <<rig, stage, swapVars, index, refreshed, locked>>

\* retro_video_refresh, with a hardware frame.
ThreadRefreshes ==
    /\ stage # "off" /\ rig.core = "threaded"
    /\ refreshed' = TRUE
    /\ UNCHANGED <<rig, stage, swapVars, index, pending, locked>>

ThreadLocksQueue ==
    /\ stage # "off" /\ rig.core = "threaded" /\ ~locked
    /\ locked' = TRUE
    /\ UNCHANGED <<rig, stage, swapVars, index, pending, refreshed>>

ThreadUnlocksQueue ==
    /\ locked
    /\ locked' = FALSE
    /\ UNCHANGED <<rig, stage, swapVars, index, pending, refreshed>>

-----------------------------------------------------------------------------
(* consume_frame.                                                           *)

\* A core with a render thread may return without a frame.
NothingRefreshed ==
    /\ stage = "run" /\ rig.core = "threaded" /\ ~refreshed
    /\ stage' = "idle"
    /\ UNCHANGED <<rig, swapVars, index, pending, refreshed, locked>>

TakeRefresh ==
    /\ stage = "run" /\ refreshed
    /\ stage' = "wait" /\ refreshed' = FALSE
    /\ UNCHANGED <<rig, swapVars, index, pending, locked>>

\* wait_for_unsignaled_vulkan_image: an image without semaphores is not taken while the
\* core has the queue.
Ready ==
    /\ stage = "wait"
    /\ Due /\ ~Head(pending).guarded => ~locked
    /\ stage' = "take"
    /\ UNCHANGED <<rig, swapVars, index, pending, refreshed, locked>>

\* The core keeps the queue for five seconds.
QueueTimesOut ==
    /\ stage = "wait" /\ locked
    /\ Due /\ ~Head(pending).guarded
    /\ stage' = "failed"
    /\ UNCHANGED <<rig, swapVars, index, pending, refreshed, locked>>

\* Nothing is due: the frame shows nothing.
NoImageDue ==
    /\ stage = "take" /\ ~Due
    /\ stage' = "idle"
    /\ UNCHANGED <<rig, swapVars, index, pending, refreshed, locked>>

\* Mutant: the image that was acquired is kept.
SubmittedKept ==
    /\ Signalled(acquired)
    /\ reading' = reading \cup {<<acquired, Head(pending).at>>}
    /\ signalled' = FALSE
    /\ UNCHANGED acquired

\* The work that draws the image is submitted: it waits for the acquire semaphore, and
\* signals the fence, for which was waited before.
Submitted ==
    /\ Signalled(acquired)
    /\ reading' = reading \cup {<<acquired, Head(pending).at>>}
    /\ acquired' = None /\ signalled' = FALSE

\* present_vulkan_image
Present ==
    /\ stage = "take" /\ images > 0 /\ Due
    /\ Submitted
    /\ stage' = "idle"
    /\ pending' = Tail(pending)
    /\ UNCHANGED <<rig, images, frames, index, reset, refreshed, locked>>

\* The display asks for another swapchain: the images that wait are forgotten.
PresentAnew(n) ==
    /\ stage = "take" /\ images > 0 /\ Due
    /\ Signalled(acquired)
    /\ stage' = "idle"
    /\ Recreated(n)
    /\ UNCHANGED <<rig, refreshed, locked>>

\* The fence does not come; or nothing can be submitted after it was reset; or what was
\* submitted cannot be presented; or no other swapchain can be made.
PresentFails ==
    /\ stage = "take" /\ images > 0 /\ Due
    /\ stage' = "failed"
    /\ pending' = Tail(pending)
    /\ \/ acquired' = None /\ UNCHANGED <<images, signalled, reading, reset, frames, index>>
       \/ /\ Signalled(acquired)
          /\ acquired' = None /\ reset' = reset \cup {acquired}
          /\ UNCHANGED <<images, signalled, reading, frames, index>>
       \/ Submitted /\ UNCHANGED <<images, reset, frames, index>>
       \/ Signalled(acquired) /\ RecreateFails
    /\ UNCHANGED <<rig, refreshed, locked>>

\* The image is copied, and the copy waited for.
ReadBack ==
    /\ stage = "take" /\ images = 0 /\ Due
    /\ stage' = "idle"
    /\ pending' = Tail(pending)
    /\ UNCHANGED <<rig, swapVars, index, refreshed, locked>>

ReadBackFails ==
    /\ stage = "take" /\ images = 0 /\ Due
    /\ stage' = "failed"
    /\ pending' = Tail(pending)
    /\ UNCHANGED <<rig, swapVars, index, refreshed, locked>>

\* The GPU is done with one that was submitted.
GpuDone ==
    /\ \E r \in reading : reading' = reading \ {r}
    /\ UNCHANGED <<rig, stage, images, frames, index, acquired, signalled, reset, pending,
                   refreshed, locked>>

-----------------------------------------------------------------------------

Prepares ==
    \/ NextIndex \/ KeepImage
    \/ \E i \in Mask : Acquire(i)
    \/ \E n \in rig.counts : \E i \in 0..(n - 1) : AcquireAnew(n, i)
    \/ AcquireFails

RenderThread ==
    \/ \E guarded \in BOOLEAN : ThreadSetsImage(guarded)
    \/ ThreadSetsSignal \/ ThreadRefreshes \/ ThreadLocksQueue \/ ThreadUnlocksQueue

Consumes ==
    \/ NothingRefreshed \/ TakeRefresh \/ Ready \/ QueueTimesOut \/ NoImageDue
    \/ Present \/ PresentFails
    \/ \E n \in rig.counts : PresentAnew(n)
    \/ ReadBack \/ ReadBackFails

Next ==
    \/ \E n \in rig.counts \cup {0} : Create(n)
    \/ Prepares
    \/ \E guarded \in BOOLEAN : Renders(guarded)
    \/ RenderThread \/ Consumes \/ GpuDone \/ Unload

Spec == Init /\ [][Next]_vars

\* The frame thread goes on, a steady core renders, the GPU works; and the display takes
\* an image as it is now and then, though another swapchain may be asked for every time.
Fairness ==
    /\ WF_vars(NextIndex) /\ WF_vars(KeepImage) /\ WF_vars(\E i \in Mask : Acquire(i))
    /\ WF_vars(\E guarded \in BOOLEAN : Renders(guarded))
    /\ WF_vars(TakeRefresh) /\ WF_vars(Ready) /\ WF_vars(NoImageDue) /\ WF_vars(ReadBack)
    /\ WF_vars(GpuDone) /\ SF_vars(Present)

FairSpec == Spec /\ Fairness

-----------------------------------------------------------------------------
(* Properties.                                                              *)

TypeOK ==
    /\ rig \in Rigs
    /\ stage \in {"off", "idle", "run", "wait", "take", "failed"}
    /\ images \in rig.counts \cup {0}
    /\ frames \in 1..31 /\ index \in 0..30
    /\ acquired \in {None} \cup 0..30
    /\ signalled \in BOOLEAN /\ refreshed \in BOOLEAN /\ locked \in BOOLEAN
    /\ reading \subseteq (0..30) \X (0..30) /\ reset \subseteq 0..30
    /\ pending \in Seq(Image) /\ Len(pending) <= 33

\* The core finds its sync index in the mask that it sized its resources by, also when
\* the swapchain was made anew with other images while it rendered.
IndexInMask == index \in Mask

\* When a steady core is about to render, the resources of its sync index are free: no
\* image that was rendered there waits to be shown, and the GPU reads none.  Where it
\* presents, waiting for the sync index is what frees them.
ImageIsFree ==
    stage = "run" /\ rig.core = "steady" /\ ~refreshed =>
        /\ \A k \in 1..Len(pending) : pending[k].at # index
        /\ images > 0 /\ Signalled(index) => \A r \in reading : r[2] # index

\* An image is acquired only with a semaphore that has no signal left; a frame that runs
\* has its image, of the swapchain there is, and the core renders for that one; and no
\* fence is left that would be waited for in vain.  Whatever failed, nobody runs a frame
\* without.
ImageInHand ==
    stage \notin {"off", "failed"} /\ images > 0 =>
        /\ reset = {}
        /\ signalled <=> acquired # None
        /\ acquired # None => acquired < images
        /\ stage # "idle" => acquired # None /\ index = acquired

\* As long as the session of a steady core goes on, images are shown: however often the
\* swapchain is made anew, neither the queue nor a fence keeps them for ever.
KeepsShowing ==
    rig.core = "steady" /\ <>[](stage \notin {"off", "failed"})
        => []<><<Present \/ ReadBack>>_vars

=============================================================================
