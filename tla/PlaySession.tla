---------------------------- MODULE PlaySession ----------------------------
(***************************************************************************)
(* A play session of the native frontend: the UI thread (eframe's update   *)
(* loop in arcade-ui), the play-runner worker thread, the command and      *)
(* event channels between them, and the libretro host's `loaded` mutex.    *)
(*                                                                         *)
(* The UI thread walks through one update() after another; `ui` names the  *)
(* place it has reached.  A core, a frame and the bytes of a save state    *)
(* are known by the rom they belong to.  The model has no clock: a hold, a *)
(* timer or a deadline may expire whenever it is looked at.                *)
(***************************************************************************)
EXTENDS Naturals, Sequences

CONSTANTS
    Rom,             \* the roms of the library
    NoRom,           \* stands for None
    EventBacklog,    \* bound: frame events the worker may leave undrained
    MaxCatchUp,      \* most frames one main-thread tick runs
    ForceFallback,   \* ARCADE_FORCE_FALLBACK_EGUI_PUMP is set
    WorkerDisabled,  \* the core's external-present worker is switched off
    KeyboardCallback \* cores register a keyboard callback

ASSUME PlaySessionAssumption ==
    /\ NoRom \notin Rom
    /\ EventBacklog \in Nat
    /\ MaxCatchUp \in Nat
    /\ ForceFallback \in BOOLEAN
    /\ WorkerDisabled \in BOOLEAN
    /\ KeyboardCallback \in BOOLEAN

VARIABLES
    ui,        \* where the UI thread is
    resume,    \* where it goes on after a stop or a request to the core
    asked,     \* the request under way
    burst,     \* frames left in the main-thread tick
    window,    \* "closing" once close_after_play_session_stop is set
    phase,     \* PlaySessionState.launch_phase
    pending,   \* pending_launch: none, queued, or queued with its shell painted
    target,    \* launch_rom_id
    active,    \* active_rom_id
    shown,     \* rom whose frame the textures hold
    saves,     \* quick saves written: the slot's rom and whose bytes it got
    loaded,    \* rom of the core in LibretroHost.loaded
    lock,      \* holder of that mutex
    metrics,   \* delivery counters above zero
    runner,    \* executor mode of NativeArcadeUiApp.play_runner
    worker,    \* where the worker thread is
    cmds,      \* the command channel
    reply,     \* the reply channel of the request under way
    events     \* the event channel

tickVars    == <<resume, asked, burst, window>>
playVars    == <<phase, pending, target, active, shown, saves>>
hostVars    == <<loaded, lock, metrics>>
channelVars == <<cmds, reply, events>>
vars == <<ui, tickVars, playVars, hostVars, runner, worker, channelVars>>

RomOrNone == Rom \cup {NoRom}
Phases    == {"Idle", "Queued", "LoadingCore", "WaitingForPresentation",
              "Playing", "Warning", "Failed"}
Modes     == {"WorkerThread", "MainThreadExecutor", "FallbackEguiPump"}
Requests  == {"Reset", "Serialize", "Unserialize"}
UiPlaces  == {"top", "launch", "load", "reload", "input", "key", "reset", "save",
              "restore", "pump", "tick", "frame", "failflush", "call", "ports", "await",
              "join", "unload", "teardown", "flush", "draw", "exit", "closed"}
ResumePlaces == {"top", "save", "restore", "pump", "draw", "closed"}
WorkerPlaces == {"none", "idle", "check", "hwreset", "run", "exec", "ports", "gone"}

\* A command names the rom it is meant for (NoRom for Stop), an answer the rom
\* of the core that gave it.
Command  == [op : Requests \cup {"Stop"}, rom : RomOrNone]
Stop     == [op |-> "Stop", rom |-> NoRom]
Event    == [kind : {"stepped", "ready", "delivered", "failed", "stopped"},
             from : RomOrNone]
Answer   == [st : {"none", "pending", "ok", "err"}, from : RomOrNone]
Answered(st, rom) == [st |-> st, from |-> rom]

-----------------------------------------------------------------------------

WorkerAlive  == worker \notin {"none", "gone"}
\* The places at which a thread is inside a core entry point.
WorkerInCore == worker \in {"hwreset", "run", "exec", "ports"}
UiInCore     == \/ ui \in {"load", "reload", "key", "flush", "frame", "failflush",
                           "call", "ports"}
                \/ ui = "teardown" /\ loaded # NoRom

SessionOpen == loaded # NoRom \/ runner # "none"
\* Mutant: the play shell gives way to the menu once the game is presented.
ShellActiveUntilPlaying == phase \notin {"Idle", "Playing"}
ShellActive == loaded # NoRom \/ phase # "Idle"

ExecutorMode(externalPresent) ==
    IF ForceFallback THEN "FallbackEguiPump"
    ELSE IF externalPresent /\ ~WorkerDisabled THEN "WorkerThread"
    ELSE "MainThreadExecutor"

\* mark_launch_presentation_ready
PresentedPhase ==
    IF phase \in {"WaitingForPresentation", "Warning"} THEN "Playing" ELSE phase

\* mark_launch_presentation_ready, or maybe_warn_launch_waiting_for_presentation
\* whose eight seconds may be over.  external_present_active is set with the
\* first external delivery, so the counter stands for both.
PresentOrWarn(m) ==
    IF "external" \in m THEN {PresentedPhase}
    ELSE IF phase = "WaitingForPresentation" THEN {phase, "Warning"} ELSE {phase}

Init ==
    /\ ui = "top" /\ resume = "top" /\ asked = Stop /\ burst = 0 /\ window = "open"
    /\ phase = "Idle" /\ pending = "none" /\ target = NoRom
    /\ active = NoRom /\ shown = NoRom /\ saves = {}
    /\ loaded = NoRom /\ lock = "free" /\ metrics = {}
    /\ runner = "none" /\ worker = "none"
    /\ cmds = <<>> /\ reply = Answered("none", NoRom) /\ events = <<>>

-----------------------------------------------------------------------------
(* Ending a session.                                                        *)

\* Mutant: the worker is joined without being told to stop.
StopUnsent == cmds

\* The stop command is lost when the worker has dropped its end.
StopSent == IF worker = "gone" THEN cmds ELSE Append(cmds, Stop)

\* stop_play_session up to the join: the runner is told to stop.
StopSession(next) ==
    /\ resume' = next
    /\ IF runner = "WorkerThread"
       THEN /\ ui' = "join"
            /\ cmds' = StopSent
            /\ UNCHANGED runner
       ELSE /\ ui' = "unload"
            /\ runner' = "none"
            /\ UNCHANGED cmds

\* Mutant: the thread is detached instead of joined.
JoinWorkerDetached ==
    /\ ui = "join"
    /\ ui' = "unload"
    /\ runner' = "none" /\ cmds' = <<>> /\ events' = <<>>
    /\ UNCHANGED <<tickVars, playVars, hostVars, worker, reply>>

\* PlayRunner::stop after its send: the worker thread is joined and both
\* channels are dropped with the runner.
JoinWorker ==
    /\ ui = "join"
    /\ worker = "gone"
    /\ ui' = "unload"
    /\ runner' = "none" /\ worker' = "none" /\ cmds' = <<>> /\ events' = <<>>
    /\ UNCHANGED <<tickVars, playVars, hostVars, reply>>

\* LibretroHost::unload takes the mutex for the whole teardown of the core.
Unload ==
    /\ ui = "unload"
    /\ lock = "free"
    /\ lock' = "ui"
    /\ ui' = "teardown"
    /\ UNCHANGED <<tickVars, playVars, loaded, metrics, runner, worker, channelVars>>

\* Mutant: the last frame's texture outlives its session.
ClearPlayKeepsFrame ==
    /\ phase' = "Idle" /\ pending' = "none" /\ target' = NoRom
    /\ active' = NoRom /\ UNCHANGED shown

\* clear_session, and the textures of the last frame.
ClearPlay ==
    /\ phase' = "Idle" /\ pending' = "none" /\ target' = NoRom
    /\ active' = NoRom /\ shown' = NoRom

\* unload returns; clear_session and the rest of stop_play_session.
ClearSession ==
    /\ ui = "teardown"
    /\ ui' = resume
    /\ loaded' = NoRom /\ lock' = "free" /\ metrics' = {}
    /\ ClearPlay
    /\ UNCHANGED <<tickVars, saves, runner, worker, channelVars>>

-----------------------------------------------------------------------------
(* update(), as far as draw_play.                                           *)

\* The update after a stop that a close request caused asks for the close.
CloseAfterStop ==
    /\ ui = "top"
    /\ window = "closing"
    /\ window' = "open"
    /\ ui' = "exit"
    /\ UNCHANGED <<resume, asked, burst, playVars, hostVars, runner, worker, channelVars>>

\* A close request during a session is cancelled until the session is stopped.
CloseRequested ==
    /\ ui = "top"
    /\ window = "open"
    /\ lock = "free"
    /\ SessionOpen
    /\ StopSession("top")
    /\ window' = "closing"
    /\ UNCHANGED <<asked, burst, playVars, hostVars, worker, reply, events>>

\* The window closes, or the system ends the program.
Quit ==
    /\ ui = "top"
    /\ window = "open"
    /\ ui' = "exit"
    /\ UNCHANGED <<tickVars, playVars, hostVars, runner, worker, channelVars>>

OnExit ==
    /\ ui = "exit"
    /\ lock = "free"
    /\ IF SessionOpen
       THEN StopSession("closed")
       ELSE ui' = "closed" /\ UNCHANGED <<resume, runner, cmds>>
    /\ UNCHANGED <<asked, burst, window, playVars, hostVars, worker, reply, events>>

\* launch_rom_id: prepare_launch gives a plan, or fails.  The shell of a failed
\* one remembers the selected rom, when there is a selection.
QueueLaunch(rom) ==
    /\ shown' = NoRom
    /\ \/ phase' = "Queued" /\ pending' = "queued" /\ target' = rom
       \/ phase' = "Failed" /\ pending' = "none" /\ target' \in {rom, NoRom}
    /\ ui' = "top"
    /\ UNCHANGED <<tickVars, active, saves, hostVars, runner, worker, channelVars>>

\* The menu is drawn, and is used, only while no play shell is.
LaunchRom ==
    /\ ui = "top"
    /\ window = "open"
    /\ lock = "free"
    /\ ~ShellActive
    /\ \E rom \in Rom : QueueLaunch(rom)

EnterPlay ==
    /\ ui = "top"
    /\ window = "open"
    /\ lock = "free"
    /\ ShellActive
    /\ ui' = "launch"
    /\ UNCHANGED <<tickVars, playVars, hostVars, runner, worker, channelVars>>

-----------------------------------------------------------------------------
(* Launching.                                                               *)

\* take_ready_pending_launch; load_core begins by unloading what is loaded.
BeginLoad ==
    /\ ui = "launch"
    /\ phase = "Queued"
    /\ pending = "painted"
    /\ lock = "free"
    /\ ui' = "load"
    /\ phase' = "LoadingCore"
    /\ pending' = "none"
    /\ loaded' = NoRom /\ metrics' = {}
    /\ UNCHANGED <<tickVars, target, active, shown, saves, lock, runner, worker, channelVars>>

NoLoad ==
    /\ ui = "launch"
    /\ ~(phase = "Queued" /\ pending = "painted")
    /\ lock = "free"
    /\ ui' = IF loaded # NoRom THEN "input" ELSE "draw"
    /\ UNCHANGED <<tickVars, playVars, hostVars, runner, worker, channelVars>>

\* Mutant: the session takes the menu's selection for the launched rom.
LoadOkSelectedRom ==
    /\ ui \in {"load", "reload"}
    /\ ui' = "input"
    /\ loaded' = target /\ active' \in Rom /\ phase' = "WaitingForPresentation"
    /\ \E externalPresent \in BOOLEAN : runner' = ExecutorMode(externalPresent)
    /\ worker' = IF runner' = "WorkerThread" THEN "idle" ELSE worker
    /\ UNCHANGED <<tickVars, pending, target, shown, saves, lock, metrics, channelVars>>

\* begin_session and start_play_runner_for_loaded_session; the thread is
\* spawned when the core presents in its own window.
LoadOk ==
    /\ ui \in {"load", "reload"}
    /\ ui' = "input"
    /\ loaded' = target /\ active' = target /\ phase' = "WaitingForPresentation"
    /\ \E externalPresent \in BOOLEAN : runner' = ExecutorMode(externalPresent)
    /\ worker' = IF runner' = "WorkerThread" THEN "idle" ELSE worker
    /\ UNCHANGED <<tickVars, pending, target, shown, saves, lock, metrics, channelVars>>

\* A Nintendo 64 dynarec core is given a second try as a cached interpreter.
LoadRetry ==
    /\ ui = "load"
    /\ ui' = "reload"
    /\ UNCHANGED <<tickVars, playVars, hostVars, runner, worker, channelVars>>

LoadFailed ==
    /\ ui \in {"load", "reload"}
    /\ ui' = "draw"
    /\ phase' = "Failed"
    /\ pending' = "none"
    /\ active' = IF loaded = NoRom THEN NoRom ELSE active
    /\ UNCHANGED <<tickVars, target, shown, saves, hostVars, runner, worker, channelVars>>

-----------------------------------------------------------------------------
(* Input, the frontend's shortcuts and the requests they make to the core.   *)

\* send_keyboard_event calls the core without taking the mutex.
KeyboardEvent ==
    /\ ui = "input"
    /\ KeyboardCallback
    /\ ui' = "key"
    /\ UNCHANGED <<tickVars, playVars, hostVars, runner, worker, channelVars>>

\* The return shortcut's hold is over.
ReturnTriggered ==
    /\ ui \in {"input", "key"}
    /\ StopSession("draw")
    /\ UNCHANGED <<asked, burst, window, playVars, hostVars, worker, reply, events>>

NoReturn ==
    /\ ui \in {"input", "key"}
    /\ lock = "free"
    /\ ui' = "reset"
    /\ UNCHANGED <<tickVars, playVars, hostVars, runner, worker, channelVars>>

\* PlayRunner::reset, serialize_state or unserialize_state: a command to the
\* worker thread, or a call of the host's method from this one.
Request(op, next) ==
    /\ resume' = next
    /\ asked' = [op |-> op, rom |-> active]
    /\ IF runner = "WorkerThread"
       THEN /\ ui' = "await"
            /\ IF worker = "gone"
               THEN reply' = Answered("err", NoRom) /\ UNCHANGED cmds
               ELSE reply' = Answered("pending", NoRom) /\ cmds' = Append(cmds, asked')
            /\ UNCHANGED lock
       ELSE /\ lock = "free"
            /\ lock' = "ui"
            /\ ui' = "call"
            /\ UNCHANGED <<cmds, reply>>
    /\ UNCHANGED <<burst, window, playVars, loaded, metrics, runner, worker, events>>

ResetShortcut == ui = "reset" /\ Request("Reset", "save")

QuickSave == ui = "save" /\ active # NoRom /\ Request("Serialize", "restore")

\* The slot of the active rom is read from the store before the core is asked.
QuickLoad ==
    /\ ui = "restore"
    /\ active # NoRom
    /\ \E save \in saves : save.rom = active
    /\ Request("Unserialize", "pump")

SkipShortcut ==
    /\ \/ ui = "reset" /\ lock = "free" /\ ui' = "save"
       \/ ui = "save" /\ ui' = "restore"
       \/ ui = "restore" /\ lock = "free" /\ ui' = "pump"
    /\ UNCHANGED <<tickVars, playVars, hostVars, runner, worker, channelVars>>

\* The rest of a request once the core has answered: a serialized state goes to
\* the slot of the active rom.
Finish(st, from) ==
    /\ ui' = resume
    /\ saves' = IF asked.op = "Serialize" /\ st = "ok" /\ from # NoRom
                THEN saves \cup {[rom |-> active, bytes |-> from]} ELSE saves
    /\ UNCHANGED <<tickVars, phase, pending, target, active, shown, loaded,
                   metrics, runner, worker, cmds, events>>

HostCallReturns ==
    /\ ui = "call"
    /\ asked.op # "Reset"
    /\ \E st \in {"ok", "err"} : Finish(st, loaded)
    /\ lock' = "free"
    /\ UNCHANGED reply

\* reset drops the mutex, then gives the core its default controller ports.
HostReset ==
    /\ ui = "call"
    /\ asked.op = "Reset"
    /\ ui' = "ports"
    /\ lock' = "free"
    /\ UNCHANGED <<tickVars, playVars, loaded, metrics, runner, worker, channelVars>>

PortsConfigured == ui = "ports" /\ Finish("ok", loaded) /\ UNCHANGED <<lock, reply>>

ReplyReceived ==
    /\ ui = "await"
    /\ reply.st \in {"ok", "err"}
    /\ Finish(reply.st, reply.from)
    /\ reply' = Answered("none", NoRom)
    /\ UNCHANGED lock

-----------------------------------------------------------------------------
(* pump_play_runner and the rest of draw_play.                              *)

Kinds == {events[i].kind : i \in 1..Len(events)}
\* The last frame in the channel is the one the textures keep.
LastDelivered(i) ==
    /\ events[i].kind = "delivered"
    /\ \A j \in (i + 1)..Len(events) : events[j].kind # "delivered"

\* flush_deferred_retro_keyboard_releases, after frames have run: once more
\* send_keyboard_event, when a release was put off.
Flushing(ran) == IF ran /\ KeyboardCallback THEN {"draw", "flush"} ELSE {"draw"}

\* drain_worker_play_runner, no frame having failed.
DrainEvents ==
    /\ ui = "pump"
    /\ runner = "WorkerThread"
    /\ "failed" \notin Kinds
    /\ ui' \in Flushing("stepped" \in Kinds)
    /\ events' = <<>>
    /\ shown' \in IF "delivered" \in Kinds
                  THEN {events[i].from : i \in {j \in 1..Len(events) : LastDelivered(j)}}
                  ELSE {shown}
    /\ phase' \in IF Kinds \cap {"delivered", "ready"} # {} THEN {PresentedPhase}
                  ELSE PresentOrWarn(metrics)
    /\ UNCHANGED <<tickVars, pending, target, active, saves, hostVars, runner, worker,
                   cmds, reply>>

\* Mutant: a failed frame loop is only logged.
DrainFailureLogged ==
    /\ ui = "pump" /\ runner = "WorkerThread" /\ "failed" \in Kinds
    /\ events' = <<>>
    /\ ui' = "draw"
    /\ UNCHANGED <<tickVars, playVars, hostVars, runner, worker, cmds, reply>>

DrainFailure ==
    /\ ui = "pump"
    /\ runner = "WorkerThread"
    /\ "failed" \in Kinds
    /\ events' = <<>>
    /\ StopSession("draw")
    /\ UNCHANGED <<asked, burst, window, playVars, hostVars, worker, reply>>

\* pump_main_thread_play_runner: it is too early for a frame, or the audio queue
\* asks for none.
SkipTick ==
    /\ ui = "pump"
    /\ runner # "WorkerThread"
    /\ ui' = "draw"
    /\ phase' \in {phase} \cup PresentOrWarn(metrics)
    /\ UNCHANGED <<tickVars, pending, target, active, shown, saves, hostVars, runner,
                   worker, channelVars>>

\* The pacing allows some number of frames.
BeginTick ==
    /\ ui = "pump"
    /\ runner # "WorkerThread"
    /\ burst' \in 1..MaxCatchUp
    /\ ui' = "tick"
    /\ UNCHANGED <<resume, asked, window, playVars, hostVars, runner, worker, channelVars>>

BeginFrame ==
    /\ ui = "tick"
    /\ burst > 0
    /\ lock = "free"
    /\ lock' = "ui"
    /\ ui' = "frame"
    /\ burst' = burst - 1
    /\ UNCHANGED <<resume, asked, window, playVars, loaded, metrics, runner, worker, channelVars>>

\* run_frame delivers a frame to the frontend, to the core's own window, or none.
FrameDone ==
    /\ ui = "frame"
    /\ lock' = "free"
    /\ ui' = "tick"
    /\ \E out \in {"embedded", "external", "none"} : metrics' = metrics \cup ({out} \ {"none"})
    /\ UNCHANGED <<tickVars, playVars, loaded, runner, worker, channelVars>>

\* A frame that fails has run: releases put off are sent before the session stops.
FrameError ==
    /\ ui = "frame"
    /\ lock' = "free"
    /\ \/ StopSession("draw")
       \/ /\ KeyboardCallback
          /\ ui' = "failflush"
          /\ UNCHANGED <<resume, runner, cmds>>
    /\ UNCHANGED <<asked, burst, window, playVars, loaded, metrics, worker,
                   reply, events>>

FailFlushReturns ==
    /\ ui = "failflush"
    /\ StopSession("draw")
    /\ UNCHANGED <<asked, burst, window, playVars, hostVars, worker, reply, events>>

\* After the loop the last frame is shown.  One of an earlier tick is shown
\* already, so the session's deliveries tell what this tick has to show.
EndTick ==
    /\ ui = "tick"
    /\ burst = 0
    /\ ui' \in Flushing(TRUE)
    /\ IF "embedded" \in metrics
       THEN shown' = loaded /\ phase' = PresentedPhase
       ELSE phase' \in PresentOrWarn(metrics) /\ UNCHANGED shown
    /\ UNCHANGED <<tickVars, pending, target, active, saves, hostVars, runner,
                   worker, channelVars>>

FlushReturns ==
    /\ ui = "flush"
    /\ lock = "free"
    /\ ui' = "draw"
    /\ UNCHANGED <<tickVars, playVars, hostVars, runner, worker, channelVars>>

\* take_macos_iosurface_renderer_error: a paint callback left an error, in this
\* session or at the last paint of an earlier one.
GpuBridgeFailed ==
    /\ ui = "draw"
    /\ StopSession("top")
    /\ UNCHANGED <<asked, burst, window, playVars, hostVars, worker, reply, events>>

\* Mutant: a painted shell is not marked.
ShellPaintedUnmarked == pending

\* mark_launch_shell_painted
ShellPainted == IF phase = "Queued" /\ pending = "queued" THEN "painted" ELSE pending

\* The launch shell is painted.
DrawShell ==
    /\ ui = "draw"
    /\ lock = "free"
    /\ ui' = "top"
    /\ pending' = ShellPainted
    /\ UNCHANGED <<tickVars, phase, target, active, shown, saves, hostVars, runner,
                   worker, channelVars>>

\* The buttons of the failed launch's shell.
TryOtherCore ==
    /\ ui = "draw"
    /\ phase = "Failed"
    /\ target # NoRom
    /\ QueueLaunch(target)

DismissShell ==
    /\ ui = "draw"
    /\ phase = "Failed"
    /\ ui' = "top"
    /\ phase' = "Idle" /\ pending' = "none" /\ target' = NoRom
    /\ UNCHANGED <<tickVars, active, shown, saves, hostVars, runner, worker, channelVars>>

ResetButton ==
    /\ ui = "draw"
    /\ lock = "free"
    /\ loaded # NoRom
    /\ Request("Reset", "top")

-----------------------------------------------------------------------------
(* run_worker_loop.                                                         *)

\* Mutant: a dying worker leaves its request unanswered.
WorkerEndsSilently(report) ==
    worker' = "gone" /\ cmds' = <<>> /\ events' = events \o report /\ UNCHANGED reply

\* The thread ends: its ends of the channels are dropped, and with the commands
\* left in the channel the senders of their replies.
WorkerEnds(report) ==
    /\ worker' = "gone"
    /\ cmds' = <<>>
    /\ reply' = IF reply.st = "pending" THEN Answered("err", NoRom) ELSE reply
    /\ events' = events \o report

WorkerStops ==
    /\ worker = "idle"
    /\ cmds # <<>>
    /\ Head(cmds).op = "Stop"
    /\ WorkerEnds(<<[kind |-> "stopped", from |-> NoRom]>>)
    /\ UNCHANGED <<ui, tickVars, playVars, hostVars, runner>>

\* handle_command up to the core's entry point.
WorkerTakes ==
    /\ worker = "idle"
    /\ cmds # <<>>
    /\ Head(cmds).op # "Stop"
    /\ lock = "free"
    /\ lock' = "worker"
    /\ worker' = "exec"
    /\ UNCHANGED <<ui, tickVars, playVars, loaded, metrics, runner, channelVars>>

\* The ports after a reset are configured without the mutex, as on the UI thread.
WorkerResets ==
    /\ worker = "exec"
    /\ Head(cmds).op = "Reset"
    /\ lock' = "free"
    /\ worker' = "ports"
    /\ UNCHANGED <<ui, tickVars, playVars, loaded, metrics, runner, channelVars>>

\* The core has carried out the command, the ports of a reset included.
WorkerDone == worker = "ports" \/ (worker = "exec" /\ Head(cmds).op # "Reset")

\* The worker has the mutex while it is inside the core's entry point.
WorkerUnlocks == lock' = IF worker \in {"run", "exec"} THEN "free" ELSE lock

\* Mutant: an error of the core is swallowed by the worker.
WorkerRepliesOkOnly ==
    /\ WorkerDone
    /\ worker' = "idle" /\ WorkerUnlocks /\ cmds' = Tail(cmds)
    /\ reply' \in {Answered("ok", loaded), reply}
    /\ UNCHANGED <<ui, tickVars, playVars, loaded, metrics, runner, events>>

WorkerReplies ==
    /\ WorkerDone
    /\ worker' = "idle"
    /\ WorkerUnlocks
    /\ cmds' = Tail(cmds)
    /\ reply' \in {Answered("ok", loaded), Answered("err", NoRom)}
    /\ UNCHANGED <<ui, tickVars, playVars, loaded, metrics, runner, events>>

\* No command came before the deadline; run_frame's first critical section
\* finds the core, or an error that is terminal for the session.
WorkerWakes ==
    /\ worker = "idle"
    /\ cmds = <<>>
    /\ Len(events) < EventBacklog
    /\ worker' = "check"
    /\ UNCHANGED <<ui, tickVars, playVars, hostVars, runner, channelVars>>

\* Without a core run_frame returns no frame.
WorkerChecks ==
    /\ worker = "check"
    /\ lock = "free"
    /\ \/ IF loaded = NoRom
          THEN /\ worker' = "idle"
               /\ events' = Append(events, [kind |-> "stepped", from |-> NoRom])
               /\ UNCHANGED <<cmds, reply>>
          ELSE worker' = "hwreset" /\ UNCHANGED <<cmds, reply, events>>
       \/ /\ loaded # NoRom
          /\ WorkerEnds(<<[kind |-> "failed", from |-> loaded]>>)
    /\ UNCHANGED <<ui, tickVars, playVars, hostVars, runner>>

\* invoke_hw_context_reset runs without the mutex, retro_run with it.
WorkerRuns ==
    /\ worker = "hwreset"
    /\ lock = "free"
    /\ lock' = "worker"
    /\ worker' = "run"
    /\ UNCHANGED <<ui, tickVars, playVars, loaded, metrics, runner, channelVars>>

\* Mutant: every frame reports the presentation as ready.
PresentedAlways(m) == TRUE

\* presentation_ready of run_one_worker_frame
Presented(m) == m # {}

\* The frame's events: FrameDelivered, PresentationReady, FrameStepped.
WorkerFrameDone ==
    /\ worker = "run"
    /\ worker' = "idle"
    /\ lock' = "free"
    /\ \E out \in {"embedded", "external", "none"} :
         /\ metrics' = metrics \cup ({out} \ {"none"})
         /\ events' = events
              \o (IF out = "embedded" THEN <<[kind |-> "delivered", from |-> loaded]>> ELSE <<>>)
              \o (IF Presented(metrics') THEN <<[kind |-> "ready", from |-> loaded]>> ELSE <<>>)
              \o <<[kind |-> "stepped", from |-> loaded]>>
    /\ UNCHANGED <<ui, tickVars, playVars, loaded, runner, cmds, reply>>

WorkerFrameError ==
    /\ worker \in {"hwreset", "run"}
    /\ WorkerUnlocks
    /\ WorkerEnds(<<[kind |-> "failed", from |-> loaded]>>)
    /\ UNCHANGED <<ui, tickVars, playVars, loaded, metrics, runner>>

\* A panic in host code ends the thread without an event.
WorkerPanics ==
    /\ WorkerInCore
    /\ WorkerUnlocks
    /\ WorkerEnds(<<>>)
    /\ UNCHANGED <<ui, tickVars, playVars, loaded, metrics, runner>>

-----------------------------------------------------------------------------

UpdateNext == CloseAfterStop \/ CloseRequested \/ Quit \/ OnExit \/ LaunchRom \/ EnterPlay
StopNext   == JoinWorker \/ Unload \/ ClearSession
LaunchNext == BeginLoad \/ NoLoad \/ LoadOk \/ LoadRetry \/ LoadFailed
InputNext  == \/ KeyboardEvent \/ ReturnTriggered \/ NoReturn \/ ResetShortcut
              \/ QuickSave \/ QuickLoad \/ SkipShortcut \/ HostCallReturns \/ HostReset
              \/ PortsConfigured \/ ReplyReceived
PumpNext   == \/ DrainEvents \/ DrainFailure \/ SkipTick \/ BeginTick \/ BeginFrame
              \/ FrameDone \/ FrameError \/ FailFlushReturns \/ EndTick \/ FlushReturns
DrawNext   == \/ GpuBridgeFailed \/ DrawShell \/ TryOtherCore \/ DismissShell \/ ResetButton
UiNext     == UpdateNext \/ StopNext \/ LaunchNext \/ InputNext \/ PumpNext \/ DrawNext

WorkerNext == \/ WorkerStops \/ WorkerTakes \/ WorkerResets \/ WorkerReplies
              \/ WorkerWakes \/ WorkerChecks \/ WorkerRuns \/ WorkerFrameDone
              \/ WorkerFrameError \/ WorkerPanics

\* on_exit was the program's last step.
Terminated == ui = "closed" /\ UNCHANGED vars

Next == UiNext \/ WorkerNext \/ Terminated

Spec == Init /\ [][Next]_vars

\* The event loop comes back to update() while the window is open and repaints
\* are asked for, and the operating system runs a thread that can go on.
FairSpec == Spec /\ WF_vars(UiNext) /\ WF_vars(WorkerNext)

-----------------------------------------------------------------------------
(* Properties.                                                              *)

TypeOK ==
    /\ ui \in UiPlaces
    /\ resume \in ResumePlaces
    /\ asked \in Command
    /\ burst \in Nat
    /\ window \in {"open", "closing"}
    /\ phase \in Phases
    /\ pending \in {"none", "queued", "painted"}
    /\ target \in RomOrNone
    /\ active \in RomOrNone
    /\ shown \in RomOrNone
    /\ saves \in SUBSET [rom : RomOrNone, bytes : RomOrNone]
    /\ loaded \in RomOrNone
    /\ lock \in {"free", "ui", "worker"}
    /\ metrics \in SUBSET {"embedded", "external"}
    /\ runner \in Modes \cup {"none"}
    /\ worker \in WorkerPlaces
    /\ cmds \in Seq(Command)
    /\ reply \in Answer
    /\ events \in Seq(Event)

\* libretro entry points are not re-entrant: the two threads are never inside
\* the core together, though a reset configures its ports and hw_context_reset
\* is invoked without the mutex.  The one call nothing serialises is the
\* keyboard callback of send_keyboard_event.
CoreCallsSerial == UiInCore /\ WorkerInCore => ui \in {"key", "flush"}

\* A worker thread exists only while its session's core is loaded: start_play_
\* runner_for_loaded_session spawns it after load_core, and stop_play_session
\* joins it before it unloads.
WorkerOnlyInSession ==
    WorkerAlive => /\ runner = "WorkerThread"
                   /\ loaded # NoRom
                   /\ ui \notin {"load", "reload", "unload", "teardown", "closed"}

\* The launch shell's phase and the host agree on whether a core is loaded,
\* through every launch, retry, failure, stop and dismissal.
PhaseMatchesHost ==
    (loaded # NoRom) <=> phase \in {"WaitingForPresentation", "Playing", "Warning"}

\* The launch shell gives way to the game only once the session has delivered
\* a frame, to the frontend or to its own window.
PlayingWasPresented == phase = "Playing" => metrics # {}

\* No session shows a frame of another one, however late its worker's events
\* are drained.
NoStaleFrame ==
    /\ shown # NoRom => shown = loaded
    /\ \A i \in 1..Len(events) : events[i].from \in {NoRom, loaded}

\* A slot holds only states serialized by the core of the slot's own rom,
\* though the save is written after the worker's answer.
SavesOwnState == \A save \in saves : save.rom = save.bytes

\* A UI thread that waits for an answer waits for a live worker that still
\* holds its command: no request is orphaned by a failure or a panic.
NoOrphanRequest ==
    ui = "await" /\ reply.st = "pending" =>
        WorkerAlive /\ \E i \in 1..Len(cmds) : cmds[i] = asked

\* A UI thread that joins the worker has told it to stop.
StopReachesWorker ==
    ui = "join" /\ worker # "gone" => \E i \in 1..Len(cmds) : cmds[i] = Stop

\* The program ends with no core loaded and no worker left.
ClosedClean ==
    ui = "closed" => loaded = NoRom /\ runner = "none" /\ worker = "none"

\* The bytes of a save state reach the core of the rom they were saved for: a
\* request is carried out by the session that made it, or not at all.
RequestInItsSession ==
    [][WorkerDone /\ worker' = "idle" => Head(cmds).rom = loaded]_vars

\* A request to the core comes back, whatever the worker is doing or how it ends.
RequestReturns == ui = "await" ~> ui # "await"

\* Joining the worker ends: stop_play_session does not hang the window.
StopFinishes == ui = "join" ~> ui = "teardown"

\* A frame loop that fails on the worker ends its session.
FailureEndsSession == "failed" \in Kinds ~> loaded = NoRom

\* A queued launch is loaded, refused or dropped by a stop, unless the program
\* ends first.
LaunchResolves == phase = "Queued" ~> (phase # "Queued" \/ ui = "closed")

\* The frontend uses the core as CoreSession promises (the keyboard callback,
\* which no mutex serialises, set apart).
Caller == IF UiInCore /\ ui \notin {"key", "flush"} THEN "ui"
          ELSE IF WorkerInCore THEN "worker" ELSE "none"
Core == INSTANCE CoreSession WITH core <- loaded, caller <- Caller
CoreSessionSpec == Core!Spec

-----------------------------------------------------------------------------
(* The inductive invariant.                                                 *)

\* Who holds the mutex can be told from where the threads are.
LockHolder ==
    /\ lock = "ui" <=> ui \in {"frame", "call", "teardown"}
    /\ lock = "worker" <=> worker \in {"run", "exec"}

\* A runner is there while its core is, a thread while its runner is.
RunnerOfSession ==
    /\ worker # "none" <=> runner = "WorkerThread"
    /\ runner # "none" => loaded # NoRom
    /\ ui \in {"load", "reload", "unload", "teardown", "closed"} => runner = "none"
    /\ ui \in {"tick", "frame", "failflush", "call", "ports"} => runner # "WorkerThread"

\* What the place the UI thread has reached says of the session.
UiPlace ==
    /\ ui \in {"load", "reload"} => phase = "LoadingCore" /\ target \in Rom
    /\ ui \in {"input", "key", "reset", "save", "restore", "pump", "tick", "frame",
              "failflush", "call", "ports", "await", "join", "flush"} => loaded # NoRom
    /\ ui = "closed" => loaded = NoRom
    /\ ui \in {"call", "ports", "await"} => resume \in {"save", "restore", "pump", "top"}
    /\ ui \in {"join", "unload", "teardown"} => resume \in {"top", "draw", "closed"}

\* A queued launch has a rom; the play state remembers the rom that is loaded.
RomsKnown ==
    /\ pending # "none" => phase = "Queued" /\ target \in Rom
    /\ loaded # NoRom => active = loaded
    /\ shown \in {NoRom, loaded}

\* The command channel never holds more than what the UI thread waits for.
CommandsInFlight ==
    /\ IF ui = "await" /\ reply.st = "pending"
       THEN WorkerAlive /\ cmds = <<asked>> /\ asked.op \in Requests /\ asked.rom = loaded
       ELSE IF ui = "join" /\ worker # "gone" THEN cmds = <<Stop>> ELSE cmds = <<>>
    /\ worker \in {"exec", "ports"} => cmds # <<>> /\ Head(cmds).op # "Stop"
    /\ reply.st = "ok" => ui = "await" /\ reply.from \in {NoRom, loaded}

\* What the worker can have reported: only the loaded core's frames, and no
\* presentation before the delivery counters show one.
Reports ==
    [kind : {"stepped", "failed", "stopped"} \cup
            (IF metrics = {} THEN {} ELSE {"ready", "delivered"}),
     from : {NoRom, loaded}]

ReportsFromLoaded ==
    /\ events \in Seq(Reports)
    /\ runner # "WorkerThread" => events = <<>>

IInv == /\ LockHolder /\ RunnerOfSession /\ PhaseMatchesHost /\ UiPlace
        /\ RomsKnown /\ CommandsInFlight
        /\ ReportsFromLoaded /\ PlayingWasPresented /\ SavesOwnState

=============================================================================
