----------------------------- MODULE AudioQueue -----------------------------
(***************************************************************************)
(* The audio of a session: the queue that the core fills while it runs a   *)
(* frame and the device's callback thread empties, the resampler between   *)
(* them, and the pacing that decides from the level of the queue how many  *)
(* frames the core runs.  A frame of sound is the session that produced    *)
(* it, or Quiet.  The callback holds the lock of the queue from its first  *)
(* output to its last; every other action takes it and lets it go.         *)
(***************************************************************************)
EXTENDS Integers, Sequences

CONSTANTS
    Session,     \* sessions, one after the other
    None, Quiet, \* no session; a silent frame, or no frame at all
    Core,        \* the cores played, one of each kind
    Target, Longest, Cap, \* target and maximal latency and the limit, in frames
    Batches,     \* frames of sound a core may produce in one video frame
    Unit,        \* the resampler's unit: a ratio of Unit is 1
    Ratios,      \* source rate to output rate, with the correction
    DeviceBuffer, Concealment \* frames in a callback; frames an underrun fades over

ASSUME AudioAssumption ==
    /\ Quiet \notin Session /\ None \notin Session /\ None # Quiet
    /\ Core \subseteq {"fceumm", "dolphin", "flycast", "pcsx2"}
    /\ {Target, Longest, Cap, Unit, DeviceBuffer} \subseteq Nat \ {0}
    /\ Target < Longest /\ Longest < Cap
    /\ Concealment \in Nat /\ Batches \subseteq 0..Cap
    /\ Ratios \subseteq 1..(2 * Unit)

\* What a core may produce while the pacing lets it run: a frame below the
\* drain watermark, and two below the refill watermark, fit under Longest.
ASSUME BatchesFit ==
    \A b \in Batches, level \in 0..Cap :
        /\ 4 * level < 5 * Target => level + b <= Longest
        /\ 20 * level <= 17 * Target => level + 2 * b <= Longest

VARIABLES
    state,   \* AudioState: what the lock guards
    stage,   \* "idle", "loading", "playing", "stopping": the core's session
    session, core, \* whose session it is, and which core plays it
    rated,   \* output_sample_rate > 0
    stream,  \* "none", "running", "dead": the device's stream
    filling, \* outputs the callback still has to write; it holds the lock
    due,     \* frames this tick still has to run
    heard    \* history: the frames in the last output

vars == <<state, stage, session, core, rated, stream, filling, due, heard>>

Frame == Session \cup {Quiet}

\* The audio states with frames of F and a phase of at most p.
States(F, p) ==
    [samples : Seq(F), current : F \cup {None}, next : F \cup {None},
     phase : 0..p, last : F, left : 0..Concealment]

Empty == [samples |-> <<>>, current |-> None, next |-> None, phase |-> 0,
          last |-> Quiet, left |-> 0]

\* dolphin stands for the four cores that are paced by the queue and have the
\* default profile, fceumm for every core that is neither.
AudioMaster == {"dolphin", "flycast"}

TrimsToTarget == core \notin {"flycast", "pcsx2"}
DropsSilence  == core \in {"flycast", "pcsx2"}
Conceals      == IF core = "pcsx2" THEN Concealment ELSE 0

Unlocked == filling = 0
Least(a, b) == IF a < b THEN a ELSE b
DropFirst(s, n) == SubSeq(s, Least(n, Len(s)) + 1, Len(s))

-----------------------------------------------------------------------------
(* The queue and the resampler.                                             *)

ResetState(a) == [Empty EXCEPT !.last = a.last, !.left = a.left]

\* Mutant: a new profile leaves the concealment of an underrun as it is.
ProfileKeepsLast(a) == [a EXCEPT !.current = None, !.next = None, !.phase = 0]

ApplyProfile(a) ==
    [a EXCEPT !.current = None, !.next = None, !.phase = 0, !.left = 0, !.last = Quiet]

Interrupted(a) == [a EXCEPT !.current = None, !.next = None, !.phase = 0]

\* retro_audio_sample_batch: a silent batch may be skipped, and a batch that
\* finds the queue full pushes the oldest frames out.  While a core is loaded there is
\* no rate yet, so that whether the core before it skipped silence does not matter.
Pushed(a, frame, n) ==
    IF DropsSilence /\ frame = Quiet /\ rated /\ Len(a.samples) >= Target THEN a
    ELSE LET overflow == Len(a.samples) + n - Cap
             kept     == IF overflow > 0 THEN DropFirst(a.samples, overflow) ELSE a.samples
         IN  [a EXCEPT !.samples = kept \o [i \in 1..n |-> frame]]

\* What a callback does first.
Trimmed(a) ==
    IF ~rated \/ Len(a.samples) <= Longest THEN a
    ELSE LET keep == IF TrimsToTarget THEN Target ELSE Longest
         IN  [Interrupted(a) EXCEPT !.samples = DropFirst(@, Len(@) - keep)]

\* An underrun repeats the last frame, ever weaker, and then is silent.
Concealing(a) == a.left > 0 /\ a.last # Quiet

PopFrame(a) ==
    IF a.samples # <<>>
    THEN [frame |-> Head(a.samples),
          state |-> [a EXCEPT !.samples = Tail(@), !.last = Head(a.samples), !.left = Conceals]]
    ELSE IF Concealing(a) THEN [frame |-> a.last, state |-> [a EXCEPT !.left = @ - 1]]
    ELSE [frame |-> Quiet, state |-> a]

FillCurrent(a) ==
    LET pop == PopFrame(a)
    IN  IF a.current # None THEN a ELSE [pop.state EXCEPT !.current = pop.frame]

FillNext(a) ==
    LET pop == PopFrame(a)
    IN  IF a.next # None THEN a ELSE [pop.state EXCEPT !.next = pop.frame]

\* Mutant: the frame that comes next is used again.
AdvanceKeepsNext(a) ==
    IF a.phase < Unit THEN a ELSE FillNext([a EXCEPT !.current = a.next, !.phase = @ - Unit])

\* One turn of the loop that moves the interpolation on; a ratio of at most
\* two makes at most two of them.
Advance(a) ==
    IF a.phase < Unit THEN a
    ELSE FillNext([a EXCEPT !.current = a.next, !.next = None, !.phase = @ - Unit])

\* pop_stereo_i16_with_state: what one output is made of, and what it leaves.
Output(a, ratio) ==
    IF ratio = Unit /\ a.current = None /\ a.next = None
    THEN LET pop == PopFrame([a EXCEPT !.phase = 0])
         IN  [frames |-> {pop.frame}, state |-> pop.state]
    ELSE LET full  == FillNext(FillCurrent(a))
             moved == [full EXCEPT !.phase = @ + ratio]
         IN  [frames |-> {full.current, full.next}, state |-> Advance(Advance(moved))]

-----------------------------------------------------------------------------
(* A session.                                                               *)

Init ==
    /\ state = Empty
    /\ stage = "idle" /\ session = None /\ core \in Core
    /\ rated = FALSE /\ stream = "none" /\ filling = 0
    /\ due = 0 /\ heard = {}

\* An attempt to load: reset_callback_video_state, then the core is initialised.
Attempt(s, c) ==
    /\ stage \in {"idle", "loading"}
    /\ stage = "loading" => s = session /\ c = core
    /\ stage' = "loading" /\ session' = s /\ core' = c
    /\ state' = ResetState(state) /\ rated' = FALSE
    /\ UNCHANGED <<stream, filling, due, heard>>

\* A load that fails leaves the queue as the core left it.
LoadFails ==
    /\ stage = "loading"
    /\ stage' = "idle"
    /\ UNCHANGED <<state, session, core, rated, stream, filling, due, heard>>

\* The load succeeded: the profile is applied and the output started.  It may
\* fail before or after it has set the rate of the queue.
LoadOk(started) ==
    /\ stage = "loading"
    /\ stage' = "playing"
    /\ state' = ApplyProfile(state)
    /\ rated' = (started # "noDevice")
    /\ stream' = IF started = "running" THEN "running" ELSE "none"
    /\ UNCHANGED <<session, core, filling, due, heard>>

\* A core produces sound while it loads its game, and while it unloads it.
PushOutsideFrame(frame, n) ==
    /\ stage \in {"loading", "stopping"}
    /\ state' = Pushed(state, frame, n)
    /\ UNCHANGED <<stage, session, core, rated, stream, filling, due, heard>>

\* unload drops the stream, which waits for its callback, and then ends the core.
Stop ==
    /\ stage = "playing" /\ due = 0
    /\ Unlocked
    /\ stage' = "stopping" /\ stream' = "none" /\ heard' = {}
    /\ UNCHANGED <<state, session, core, rated, filling, due>>

Unloaded ==
    /\ stage = "stopping"
    /\ stage' = "idle" /\ session' = None
    /\ state' = ResetState(state) /\ rated' = FALSE
    /\ UNCHANGED <<core, stream, filling, due, heard>>

-----------------------------------------------------------------------------
(* The game: a tick of the pump, and the frames it runs.                    *)

\* Mutant: below the drain watermark the core always catches up.
FramesToRunTwo(level) == IF 4 * level >= 5 * Target THEN 0 ELSE 2

\* audio_master_frames_to_run, of the level that a snapshot has read: none at
\* 1.25 of the target, two at 0.85, one in between.
FramesToRun(level) ==
    IF 4 * level >= 5 * Target THEN 0
    ELSE IF 20 * level <= 17 * Target THEN 2 ELSE 1

\* audio_queue_snapshot gives a level only when the output has a rate.
PacedByQueue == core \in AudioMaster /\ rated

\* The other pacings count frames by the clock: see FramePacing.
Tick ==
    /\ stage = "playing" /\ due = 0 /\ Unlocked
    /\ due' \in IF PacedByQueue THEN {FramesToRun(Len(state.samples))} ELSE {1, 2}
    /\ UNCHANGED <<state, stage, session, core, rated, stream, filling, heard>>

RunFrame(frame, n) ==
    /\ due > 0 /\ Unlocked
    /\ due' = due - 1
    /\ state' = Pushed(state, frame, n)
    /\ UNCHANGED <<stage, session, core, rated, stream, filling, heard>>

\* The core changes its sample rate while it runs a frame: SET_SYSTEM_AV_INFO.
ChangeRate ==
    /\ due > 0 /\ Unlocked
    /\ state.current # None
    /\ state' = Interrupted(state)
    /\ UNCHANGED <<stage, session, core, rated, stream, filling, due, heard>>

-----------------------------------------------------------------------------
(* The device.                                                              *)

\* write_output_*: the lock is taken and the queue trimmed.
BeginCallback ==
    /\ stream = "running" /\ Unlocked
    /\ filling' = DeviceBuffer
    /\ state' = Trimmed(state)
    /\ UNCHANGED <<stage, session, core, rated, stream, due, heard>>

WriteFrame(ratio) ==
    /\ filling > 0
    /\ filling' = filling - 1
    /\ state' = Output(state, ratio).state
    /\ heard' = Output(state, ratio).frames
    /\ UNCHANGED <<stage, session, core, rated, stream, due>>

\* The device reports an error, which is printed; its callback is not called again.
StreamDies ==
    /\ stream = "running" /\ Unlocked
    /\ stream' = "dead"
    /\ UNCHANGED <<state, stage, session, core, rated, filling, due, heard>>

-----------------------------------------------------------------------------

Sound == {session, Quiet}

PlayFrame == \E frame \in Sound, n \in Batches : RunFrame(frame, n)
Callback  == BeginCallback \/ \E ratio \in Ratios : WriteFrame(ratio)

Next ==
    \/ \E s \in Session, c \in Core : Attempt(s, c)
    \/ LoadFails
    \/ \E started \in {"noDevice", "failed", "running"} : LoadOk(started)
    \/ \E frame \in Sound, n \in Batches : PushOutsideFrame(frame, n)
    \/ Stop \/ Unloaded
    \/ Tick \/ PlayFrame \/ ChangeRate
    \/ Callback \/ StreamDies

Spec == Init /\ [][Next]_vars

\* The event loop pumps a session again and again, the lock is fair to the two
\* that take it, and a device whose stream runs calls back.
FairSpec ==
    /\ Spec
    /\ SF_vars(Tick) /\ SF_vars(PlayFrame)
    /\ WF_vars(Callback)

-----------------------------------------------------------------------------
(* Properties.                                                              *)

TypeOK ==
    /\ state \in States(Frame, Unit - 1)
    /\ Len(state.samples) <= Cap
    /\ stage \in {"idle", "loading", "playing", "stopping"}
    /\ session \in Session \cup {None} /\ core \in Core
    /\ rated \in BOOLEAN /\ stream \in {"none", "running", "dead"}
    /\ filling \in 0..DeviceBuffer /\ due \in 0..2
    /\ heard \subseteq Frame

\* What is heard in a session was produced in it: neither what an attempt to
\* load, or the core before, has left in the queue, nor the frame an underrun
\* is concealed with.
HeardFromThisSession == heard \subseteq Sound

\* "use trim as an emergency-only guardrail" (audio.rs:123-125): as long as the
\* queue paces the core, no callback ever finds it too long, whatever happens
\* between the snapshot of a tick and its last frame: a queue that is within the
\* latency of its profile stays within it.
TrimIsForEmergencies ==
    [][PacedByQueue /\ stage = "playing" /\ Len(state.samples) <= Longest
       => Len(state'.samples) <= Longest]_vars

\* A core paced by a queue that a device empties is never left waiting for good.
KeepsRunning ==
    <>[](stage = "playing" /\ (rated => stream = "running")) => []<><<PlayFrame>>_vars

\* "Audio output unavailable, continuing without sound": so does a core whose
\* output could not be started.
ContinuesWithoutSound ==
    <>[](stage = "playing" /\ stream = "none") => []<><<PlayFrame>>_vars

-----------------------------------------------------------------------------
(* The inductive invariant.                                                 *)

\* Up to the profile, an attempt keeps the concealment of the session before.
Attempted == state.samples \in Seq(Sound) /\ state.current = None /\ state.next = None

SoundOfSession ==
    /\ stage = "loading" => Attempted
    /\ stage \in {"playing", "stopping"} => state \in States(Sound, Unit - 1)
    /\ heard \subseteq Sound

\* Only a session that plays has a stream and ticks.
StageOfStream ==
    /\ stage # "playing" => stream = "none" /\ filling = 0 /\ due = 0 /\ heard = {}
    /\ stage # "idle" => session \in Session

\* What is due was decided on a level from which it fits.
DueFits ==
    PacedByQueue /\ due > 0 => \A b \in Batches : Len(state.samples) + due * b <= Longest

IInv == TypeOK /\ SoundOfSession /\ StageOfStream /\ DueFits

=============================================================================
