# A verification project for Rusted Arcade

Rusted Arcade is a native arcade frontend written in Rust: it keeps a library of
roms in SQLite, loads libretro cores as shared libraries, runs them, shows their
frames in egui/eframe and plays their audio. This directory holds TLA+ models of
the parts of it in which states, threads and failures meet, the TLC
configurations that check them, and theorems about them that TLAPS proves.
Paths below are relative to `src/crates/`.

## 1. The system

### Components, their state and their operations

| Component | Where | State it keeps | Operations |
|---|---|---|---|
| Play session (UI thread) | `arcade-ui/src/play_session.rs`, `state/play.rs`, `actions/launch.rs`, `views/play.rs`, `app/mod.rs` | launch phase, pending launch, launched and active rom, textures, pacing clocks, the runner | launch, continue a launch, pump, reset, quick save and load, stop, close, exit |
| Play runner (worker thread) | `arcade-ui/src/play_runner.rs` | executor mode, command and event channels, join handle, frame clock | stop, reset, serialize, unserialize, one frame |
| Libretro host | `arcade-libretro/src/lib.rs`, `content.rs`, `callbacks.rs` | the loaded core behind a mutex, the active runtime and the callback context (globals the core's C callbacks use) | load, unload, run a frame, reset, serialize, send a key |
| Video | `arcade-libretro/src/hardware_render.rs`, `vulkan_render.rs`, `macos_metal.rs`, `video/` | GL/Vulkan/Metal contexts, the session's backend, frames read back | create, destroy, lock the queue, read back |
| Audio | `arcade-libretro/src/audio.rs` | a ring of samples shared with the device's callback thread, resampler, drop counters | push, drain, pause |
| Input | `arcade-ui/src/input.rs`, `controller_mapper.rs` | pressed buttons shared with the core, shortcut latches and holds, gamepad slots | per-update refresh, mapping capture |
| Save-state store | `arcade-data/src/db.rs`, `db/save_state_store.rs` | slot files and their rows | load, save with rollback |
| Repositories and schema | `arcade-data/src/db/` | roms, mappings, schema version | queries, removal, upgrades with backup |
| Library, navigation, manage view | `arcade-ui/src/state/`, `views/` | pages of roms, selection, background job | paging, menus, manage jobs |
| Services | `arcade-services/src/lib.rs` | configuration, installed cores, launch plans | install, configure, plan a launch |
| Domain | `arcade-domain/src/` | tables: cores, systems, dependencies | lookup, parsing |

### How they interact

The UI thread runs `update()` again and again. A launch is planned by the
services, waits until its shell has been painted, and is then carried out by
`LibretroHost::load_core` on the UI thread. A core that presents in its own
window is run by a worker thread, which the UI thread talks to over a channel of
commands and hears from over a channel of events; any other core is run from
`update()` itself. Both threads reach the core through `LibretroHost.loaded`, a
mutex; only `send_keyboard_event`, the reset of a hardware context and the ports that
a reset configures are calls into the core without it. A
request (reset, serialize, unserialize) blocks the UI thread until the worker
answers or its end of the reply channel is dropped. `stop_play_session` tells
the runner to stop, joins the thread, unloads the core and clears the session.
The store and the repositories are called synchronously from the UI thread.

### What is hard

* two threads and a core that is not re-entrant; a worker in the middle of a
  frame when its session is stopped; a worker that fails or panics holding a
  request;
* events of a session that are drained after it has ended, and names of roms
  read before a blocking request and used after it;
* loads that fail at a dozen places, and are retried with another strategy;
* a slot file replaced by renames, with a failure or a kill between any two;
* clocks that split elapsed time into frames, a rest and a debt;
* a ring of sound that one thread fills, another empties and a third measures to
  decide how fast the core runs;
* shared input state cleared and refilled while the worker polls it, keys released
  later than they were let go, holds and latches that outlive a session;
* a configuration file written in place by setters of two threads; cores replaced
  while they are probed; lists that a job, or a second press, read earlier;
* images of a core that wait, are read by the GPU, or are dropped, while the
  swapchain they were meant for is made anew and calls of the driver fail.

`PROJECT.json` lists each of these under `hazards` with its line and the
properties that bear on it.

## 2. The modules

| Module | What it is |
|---|---|
| `CoreSession` | Abstract: how a libretro core may be used. |
| `PlaySession` | The UI thread, the worker, their channels and the host's mutex. Implements `CoreSession`. |
| `PlaySessionProofs` | Its theorems. |
| `SlotStore` | Abstract: what saving and loading a slot amounts to. |
| `SaveStore` | Saving a slot with rollback, and its quotas. Implements `SlotStore`. |
| `SaveStoreProofs` | Its theorems. |
| `FramePacing` | How the main-thread runner, and the clock of a worker, turn elapsed time into frames. |
| `FramePacingProofs` | Its theorems. |
| `LibretroApi` | Abstract: the order in which the API of one core may be used. |
| `CoreHost` | Loading, retrying, refusing and unloading cores. Implements `LibretroApi`. |
| `CoreHostProofs` | Its theorems. |
| `AudioQueue` | The ring between core and device, the resampler, and the pacing that follows its level. |
| `AudioQueueProofs` | Its theorems. |
| `SessionInput` | What the core can read of the input, keys and shortcuts of a session, slots of gamepads. |
| `SessionInputProofs` | Its theorems. |
| `AppConfig` | The settings and their file. |
| `ManageJobs` | The thread of a job and its end. Extends `AppConfig`. |
| `CoreFiles` | The core: its file, its probes and profiles, its installation. Extends `ManageJobs`. |
| `GameLibrary` | Roms, their rows and covers, the list with its removals. Extends `ManageJobs`. |
| `Management` | The settings, the core and the library together. Extends `CoreFiles` and `GameLibrary`. |
| `ManagementProofs` | Its theorems. |
| `VulkanFrames` | The frames of a session that renders with Vulkan. |
| `VulkanFramesProofs` | Its theorems. |
| `MCSaveStore`, `MCSessionInput`, `MCManagement`, `MCVulkanFrames` | Symmetry sets and the values of constants for TLC. |

Every module starts with its constants and their assumption, then its variables,
its actions, its properties and its inductive invariant. An operator whose
comment begins with "Mutant:" is not part of the specification: it is a
plausible mistake in the operation defined after it, used to see that a property
can tell the difference.

### CoreSession

Two variables: which rom's core is loaded, and which thread is inside it. Its
actions load a core, enter it, return from it, and unload it. It promises that a
core is loaded only when none is, entered by one thread at a time, and never
while none is loaded.

### PlaySession

`ui` is the place the UI thread has reached in `update()`; `worker` the place of
the worker in `run_worker_loop`. The actions follow `update()` from top to end:

* *ending a session*: `StopSession` is `stop_play_session` up to the join,
  `JoinWorker` is `PlayRunner::stop`, `Unload` and `ClearSession` are
  `LibretroHost::unload` and `clear_session`;
* *the top of update*: closing (`CloseRequested`, `CloseAfterStop`, `OnExit`,
  `Quit`), `LaunchRom` from the menu, `EnterPlay`;
* *launching*: `BeginLoad` takes the pending launch, `LoadOk`, `LoadRetry` (the
  second try of a Nintendo 64 core) and `LoadFailed` are its outcomes;
* *input and requests*: `KeyboardEvent`, the return shortcut, and `Request`,
  which is one of `PlayRunner::reset`, `serialize_state` and `unserialize_state`
  in both executor modes; `Finish` is what the caller does with the answer. A reset
  drops the mutex and then gives the core its default controller ports (`HostReset`,
  `PortsConfigured` on the UI thread, `WorkerResets` on the worker's);
* *pumping*: `DrainEvents` and `DrainFailure` for the worker, `SkipTick`,
  `BeginTick`, `BeginFrame`, `FrameDone`, `EndTick` for the main thread. What a tick
  delivered is shown after its last frame; a frame that fails ends the session
  (`FrameError`), after the releases of keys that were put off have been sent to a
  core with a keyboard callback (`FailFlushReturns`);
* *drawing*: the shell and its buttons, and `GpuBridgeFailed`: an error that a paint
  callback left ends the session that is open when it is read, even if an earlier
  session painted last;
* *the worker*: `WorkerStops`, `WorkerTakes`, `WorkerReplies`, the frame in its
  two critical sections (`WorkerChecks`, `WorkerRuns`), its outcomes, and
  `WorkerPanics`.

`lock` is the host's mutex: an action that takes it and returns within the same
step has `lock = "free"` as a guard, a longer critical section holds it between
two actions. A rom stands for its core, for a frame of that core, and for the
bytes of a state serialized by it, so that mixing them up is visible.

Abstracted: time (a hold, the eight seconds of the launch warning and the
worker's deadline may expire whenever they are looked at), what a frame shows,
the choice of core and strategy.

### SlotStore and SaveStore

`SlotStore` keeps what loading each slot returns, the save under way and the slots
that were torn. A save takes effect in one step or not at all; one that is torn, by
a kill or by an undo that failed, leaves its slot empty or with the image that was
being saved, and no other slot changes.

`SaveStore` has one slot file and one row for each rom and slot number, and a backup beside the
file. `BeginSave` has passed the checks of size and quota (`Admitted`); the steps
of `write_state_file_with_rollback` follow one by one, each of which may fail or
be the last before a kill (`Crash`): `SetAside`, `WriteTemp`, `Place`, `Commit`,
`CommitFails`, then the restore (`Remove`, `PutBack`) or the clean-up. A failed
read deletes the row (`LoadUnreadable`), the removal of a rom its rows. The
temporary file has a name no other step reads and is not modelled; the content
of an image is a model value with a size. The total of the rows (`Used`) is the
number of bytes they claim. The query for it is taken to answer: the code counts one
that fails as 0, and then admits any save within the slot's limit.
What a load returns while a save is under way, once that is undone (`Loaded`), is
what is still in the backup from the moment the file is set aside until the row is
committed; with it `SaveStore` implements `SlotStore`.

### FramePacing

`clock` is elapsed time, `played` the time of the frames run. What the session has
not run yet is in two accounts: `since`, the time since the instant that the code
keeps in `last_frame_run_at`, which holds the rest of a frame, and `debt`. `Pass`
lets time go by, `Tick` is one `pump_main_thread_play_runner`: how much is due, how
much of it the budget allows, how many frames that makes and what is kept. Each
policy of the code (wall clock, Nintendo 64, arcade, Dreamcast, tight) is a value
of `policy`; the deadlines of a worker (`PlayRunnerClock`) are one more, `WorkerFrame`, which
catches up what it is late unless it stays late for three frames; time is counted in fixed fractions of a frame's interval. The
audio-master policy follows the level of the audio queue, not the clock, and is
in `AudioQueue`.

### LibretroApi and CoreHost

`LibretroApi` has a stage (unmapped, mapped, ready after `retro_init`, playing) and
a hardware context (none, asked for, current). A library is unmapped only after
`retro_deinit` and without a context, a game is loaded only into a ready core
and unloaded before the core is deinitialised, a context is reset and dropped
within those bounds. One action, `Abandon`, is there for what the code does when
the context cannot be made: it gives the core up where it is.

`CoreHost` is one `LibretroHost` used by one thread. `step` is the place reached in
`load_core` or `unload`, `goal` what a teardown is for: another load, a stop, the
drop of the host, a retry or a refusal. A load unloads (`UnloadGame`,
`UnloadNothing`, then the teardown, in the order the code has for PCSX2 cores and
in the one for all others; the code tells a PCSX2 core by its file's stem, which is
the core's name here, and switches the core's audio callback off before the game is
unloaded, which is left out), plans the video session (`SelectBackend` is
`video/policy.rs`), configures the callback context, prepares the content and then
makes one attempt after another: `MapLibrary`, `InitCore`, `BeginGame`, and
`GameTaken` or `GameRefused`; a refused game is torn down, the session planned
again and the next strategy tried (`Retry`). A core that took its game although
a context was denied is refused (`RefuseCore`). `LoadFails` and `ContextFails` are
the early returns. What the core asks of the host meanwhile is an action of the
core: `AsksContext` is `SET_HW_RENDER` with its three answers, `Registers` the
keyboard, audio and frame-time callbacks.

`lib`, `hw` and `env` say where a library, a hardware callback and the other
callbacks stand; a callback is `stale` when its library was unmapped. `configured`
is the backend the core variables were computed for. `gl` and `cpu` are the
machine: no OpenGL, one that is named but not handed over yet, or a context; a
native process or one under Rosetta.

Abstracted: the options read from environment variables; the requests a core
makes from `retro_run`; requests made in `retro_set_environment` count as made in
`retro_init`; the temporary mapping of `inspect_core_requirements`. A core in
`Registering` is assumed to register with every game it takes: a retry does not
clear the callbacks of the attempt before it.

### AudioQueue

`state` is `AudioState`, the structure behind the lock: the ring `samples`, the two
frames the resampler stands between (`current`, `next`) and its `phase`, and the
concealment of an underrun (`last`, `left`). A frame of sound is the session that
produced it, so that what is heard can be told to be from another one. Sessions
follow each other: `Attempt` is what `load_core` does to the audio before each try
(it clears the ring, and keeps the concealment), `LoadFails` and `LoadOk` its
outcomes, the latter with a stream, without a device, or with one that failed to
start; `Stop` and `Unloaded` the end. `Pushed` is `retro_audio_sample_batch`: it drops
silence of some profiles and pushes the oldest frames out at the limit. `Callback`
is one step of the device's callback, which holds the lock for a whole buffer;
`Tick` takes a snapshot of the level and decides how many frames are run
(`FramesToRun`), `PlayFrame` runs one of them. `StreamDies` is the device's
error callback, after which nothing empties the ring.

The four kinds of core stand for the four combinations of pacing and profile that
the code has. Abstracted: what a sample sounds like, and fractions of a phase, of
which `Unit` is the denominator. `hold_audio` and the adaptive clock are switched
off in every profile of the code and are not modelled, nor is the playback buffer.

### SessionInput

`place` is where `update()` is: the menu, between updates, after the keyboard was
read, after the keys were told, after the gamepads were read, or pumping. `Clear`
empties the state that the core polls and puts what the keyboard holds into `todo`;
`SetInput` is one `set_button`, between any two of which the worker may poll
(`WorkerFrame`); `CaptureGamepads` adds what each pad holds, in the slot of its
player. `KeysSynced` tells the core what changed, with releases that are owed until
a frame was stepped; `ApplyShortcuts` turns what is held into shortcuts, with
latches, holds and the block that a session begins and ends with. `Reconcile` gives
slots to pads in the order of their arrival.

Whether a worker runs, whether the core has a keyboard callback and whether keys
pass through are constant within a session. For the callback this is an assumption
about cores: `SET_KEYBOARD_CALLBACK` may come at any time and only ever sets one, and
a core is taken to register it while it is loaded. `now`, `polls`, `fired`, `up` and
`lost` are history: what is held in this update, what frames polled since it began,
which shortcuts fired in it, which were released since they last did, and the held
keys whose earlier release was sent after they had been pressed again. `rig` is what
a player has at hand; it never changes, and splits one large instance into four.
Abstracted: the mapping tables of the systems, analog values, and time (a hold may
expire whenever it is looked at).

### AppConfig, ManageJobs, CoreFiles, GameLibrary and Management

`rig` says what a person does in a behaviour and where writes of the settings may
break off; it never changes.

*AppConfig.* `memory` is `AppServices.config`, `file` the configuration file: `kept`
groups of it are there, a prefix in the order in which they are written. Every
setter writes the whole file in place under the lock (`Saves`), or fails and leaves
a prefix (`Fails`); a start reads it, with defaults for what is missing, or refuses
it. `said` and `doubt` are history. A form may be saved with any values.

*ManageJobs.* One job at a time: `Begin` sets `job_running`, the thread goes from
place to place and sends `Finished` (`Finish`), and `poll_manage_jobs` takes that in
an update outside of a session (`Taken`). A panic of the thread is not modelled:
its channel closes without a `Finished` and `job_running` stays set
(`arcade-ui/src/views/manage.rs:187`).

*CoreFiles.* One core. `core` is its file, known by its version and by how much of it
is there; a probe reads a label, runs the core, and keeps a profile with that label,
on the UI thread (`discover_installed_core_options`) and on a job's. Installing goes
from `Prepare` to `Probed`, and each step may fail. Two files of one label, which
would take one second and one length, do not occur; the signing that macOS wants
leaves the version as it is. `apply_platform_defaults` and `migrate_legacy_n64` only
add core variables that are absent; they count as there from the start.

*GameLibrary.* A game is its file. A row has an id and a cover; a game has one place
for its image. Scans, relinks and scrapes list what there is and go game by game;
`NameCover` is the update of a row after the image was written. The list has a
scope, rows, a selection and a removal that is armed by a first press; when it cannot
be read again, rows, selection and armed removal stay (`MayShow`). Two games never
have one cover, though the code's matching by base name and prefix allows it. The
callers of `apply_manage_scope_index` choose a scope only while no job runs, and so
does `ChooseScope`. Covers are
moved by hand only while no job is at work; the limits of a scrape, and the answers
of the service, are any subset.

*Management* is their composition: `Starts`, `Opens` and `Stops` for the process,
which may end at any step, one action for each page of the menus, the probes of the
UI thread, `Polls`, and `Works` for the job's thread.

### VulkanFrames

`stage` is where the frame thread is: no session, between frames, the core running,
waiting for the core's queue, taking an image, or failed. `images` is the number of
images of the swapchain, 0 where the session presents in no window; `frames` and
`index` are `sync_frames` and `sync_index`; `acquired`, `signalled`, `reset` and
`reading` are the swapchain image in hand, the acquire semaphore, the fences that
were reset in vain and what the GPU is at; `pending` is `pending_images`, each with
the sync index it was rendered at.

`NextIndex`, `KeepImage`, `Acquire`, `AcquireAnew` and `AcquireFails` are
`prepare_vulkan_sync_for_frame`; `Ready`, `QueueTimesOut`, `NoImageDue`, `Present`,
`PresentAnew`, `PresentFails`, `ReadBack` and `ReadBackFails` are
`take_vulkan_render_frame`. A steady core does what the interface asks for: in each
frame it waits for its sync index, renders, sets an image and refreshes
(`Renders`). A threaded one does each of these, and locks and unlocks the queue,
whenever it likes (`ThreadSetsImage` and so on).

It is the program as built for macOS: the branches for other systems, where a frame
may wait for the core's `wait_sync_index`, are left out. So are the diagnostics that
environment variables turn on (debug readbacks, fail-fast, forced idling).
A submission's wait for the acquire semaphore counts as done when it was
submitted; the GPU finishes within the five seconds of a core's wait;
`set_command_buffers` keeps no state; an interface that negotiation rebuilds before
the first frame is `Unload` and `Create`. A failed frame ends the session, as
`PlaySession` has it. A swapchain has at most 31 images, the bits of the mask.

## 3. What the runs show

| Run | Question | Distinct states |
|---|---|---|
| `play_session` | Does any interleaving of the two threads break a session, and does what must happen happen? | about 354,000 |
| `save_store` | Can a failed or killed save lose or mix up a state? | about 78,000 |
| `frame_pacing` | Does a pacing run ahead of the clock or count time twice? | about 260,000 |
| `frame_pacing_tight` | Does the tight frame clock follow the frame clock? It does not. | stops at the violation |
| `core_host` | Does any sequence of loads, retries, failures and unloads leave a core half there? | about 117,000 |
| `core_host_pivot` | Does a retry that moves to another backend tell the core? It does not. | stops at the violation |
| `audio_queue` | Is what is heard of this session, and does the queue pace the core without cutting it or stopping it? | about 53,500 |
| `audio_without_sound` | Does a core whose output failed to start go on? Not one that the queue paces. | stops at the violation |
| `session_input` | Can the core or a shortcut see what nobody pressed? | about 1,250,000 |
| `management` | Do settings, profiles, removals, covers and jobs survive each other? | about 455,000 |
| `management_paths` | Are saved paths what the next start reads? Not if anything else is saved. | stops at the violation |
| `vulkan_frames` | Do index, fence, semaphore and queue agree whatever fails? | about 700,000 |

**`play_session`** has two interchangeable roms, so that states, frames and events of
one session can reach another; up to three undrained events past which the
worker waits, one frame's full report (delivered, ready, stepped) being three;
two catch-up frames, so that a tick has a middle; keyboard callbacks. It checks
that calls of the core exclude each other (`CoreCallsSerial`), that the worker
lives within its session (`WorkerOnlyInSession`), that the game is shown only
after it was presented (`PlayingWasPresented`), that no frame or event outlives
its session (`NoStaleFrame`), that a save holds its own rom's state
(`SavesOwnState`), that requests are neither orphaned (`NoOrphanRequest`) nor
carried out by another session (`RequestInItsSession`), and that the whole
implements `CoreSession`. Both `MainThreadExecutor` and `WorkerThread` sessions
occur in it; the two constants that force a mode only remove behaviours. Its
liveness properties are that a request returns (`RequestReturns`), a stop finishes
(`StopFinishes`), a failure ends the session (`FailureEndsSession`) and a launch is
resolved (`LaunchResolves`). They assume weak fairness of the UI thread as a whole and of
the worker as a whole. The first is the event loop, which calls `update()` while
the window is open and a repaint is asked for, as a session and a pending launch
do on every update; the second is the operating system, which runs a thread that
can go on. No action is given fairness of its own: which branch a thread takes
is the environment's choice, and a session may be played for ever.

**`save_store`** has two roms, one slot number, two sizes of image (1 and 2), a slot limit
of 2 and a profile limit of 3, so that either limit can refuse a save and a
replacing save can free room. `SlotIntact`: a save that returned an error left
the slot as it was, unless its undoing failed as well. `CommittedSurvives`: the
image a row promises is in the slot file or in the backup. `QuotaHeld`: the rows
never add up to more than the profile's limit. `RowsOfListedRoms`: no row is
left for a removed rom. `SlotStoreSpec`: the store implements `SlotStore`; the steps of
a save but its commit, and those of an undo, are stutters.

**`frame_pacing`** checks five policies and the clock of a worker with gaps shorter and longer than a frame, a
gap beyond which the clock is stale, and ticks whose work takes no time, less
than a frame or longer than two. **`frame_pacing_tight`** is a divergence: the comment at
`arcade-ui/src/play_session.rs:460-463` says the tight policy follows the
core-reported frame clock and is capped to avoid overspeed; the code keeps the
fraction of a frame both as a rest and as a debt (lines 66-68 and 470-473), so
that a timer firing 1.2 frames after each tick gains a fifth of a frame every
time. TLC finds 240 units emulated in 192.

**`core_host`** has eight cores, one for each branch of the policy and of the
teardown (the two PCSX2 cores, one of them on a Metal view; two that can do without
hardware; one that needs none), three of which register callbacks, and three
strategies, the most the code has. The host is reused without bound, so every
leftover of one load meets every other core. `LoadedIsWhole`: when a load has
succeeded, at any attempt, the core holds its game, the callbacks find their
host, the context was reset, and there is a session that reads frames back.
`NothingOutlivesCore`: after a failed load or an unload there is no mapped
library, no audio, no way into the host. Its one exception is in the code: when
the hardware context cannot be made, the library is unmapped and its
`context_destroy` is kept, and called, by the next unload
(`arcade-libretro/src/lib.rs:1736` and 1760). `CallbacksOfLoadedCore`: such
leftovers are gone before another core is mapped, and no key, frame time or
audio state goes to a core that is gone. `LibretroApiSpec`: every path keeps the
order of the API.

**`core_host_pivot`** is a divergence: the comment at
`arcade-libretro/src/lib.rs:1845-1852` says that the session is planned again so
that retries can pivot to the correct backend for that core binary; the
variables that tell the core which renderer to use are computed once, before the
first attempt. The run has pcsx2 planned for Vulkan, asking for OpenGL and refusing
the game: its next attempt has an OpenGL session and `pcsx2_renderer` set to Vulkan.

**`audio_queue`** has two sessions, of each kind of core in turn, batches of none or two
frames, and a target, a longest latency and a limit of 3, 6 and 8 frames, so that
each watermark of the code (17/20 and 5/4 of the target) and each limit has levels
on both sides; ratios below, at and above 1. `HeardFromThisSession`: nothing that is heard was left by an
attempt to load, by the core before, or by the concealment of its last underrun.
`TrimIsForEmergencies`: a queue that paces the core stays within its latency, though
the level a tick decides on is of a snapshot, and two frames may follow it.
`KeepsRunning`: a core that is paced by a queue which a device empties is run again
and again. That rests on weak fairness of the callback, which is the device's, and on
strong fairness of `Tick` and `PlayFrame`: the event loop pumps a session in every
update, and the lock that the callback takes in between is fair to both.

**`audio_without_sound`** is a divergence: the message at `arcade-libretro/src/lib.rs:1792`
says that the program continues without sound. A core that the queue paces does not
if its output was found and could not be started: the rate was announced before that,
the queue fills once, nothing empties it, and no tick runs another frame.

**`session_input`** has four players: one with five gamepads for two slots, one of them
without the controls of a gamepad; two gamepads and a keyboard with one button
each; a keyboard whose keys the core knows; one gamepad with three shortcuts, two of
them holds. Four arrivals of pads make every order of two who play and two who wait.
`PolledWasHeld`: a frame on the worker may miss what is held, while the state is
filled again, but never sees what is not, or another player's; a frame on the UI
thread sees all of it. `KeysAgree`: the core and the program disagree about a key
only where its release is owed. `FirstComeFirstServed`: no two pads share a slot,
and who waits came last. `FiresOncePerPress`: no shortcut fires twice for one press,
nor for a press of an earlier session.

**`management`** has four kinds of use: settings whose file may be cut at the start or in the
middle; a core that is replaced by hand and by jobs, next to sessions; setups and
covers; the list with its removals, next to sessions. There are two versions of the
core, two games and three rows, so that a removed game comes back as another row.
`SettingsKept`, `ProfileOfItsFile` (a profile that counts as that of a core was
found in that very file), `RemovesWhatWasAsked` and `CoversKept` are safety.
`JobEnds`: a job that was begun is over some time. It assumes weak fairness of the
job's thread and of a probe on the UI thread, and strong fairness of `Polls`, as
every update outside of a session looks for the end of a job; whoever plays for
ever never sees it, which the property says. **`management_paths`** is a
divergence: the program tells a person to restart for new paths
(`arcade-ui/src/views/manage.rs:1962`), and the next setting that is saved writes
the old ones back. It takes 5 states.

**`vulkan_frames`** has a steady core whose window has swapchains of two or three images, so
that a new one may have more or fewer, and a threaded core with swapchains of two; both
also run without one, with the 3 fallback frames of the code
(`arcade-libretro/src/lib.rs:332`). `IndexInMask`: the core finds its index in the
mask it sized its resources by. `ImageIsFree`: a steady core never renders into an
image that still waits or is read. `ImageInHand`: a frame has the image acquired for
it, its semaphore is signalled once, and no fence is left that never comes.
`KeepsShowing`: as long as the session of a steady core goes on, images are shown. It
assumes weak fairness of the frame thread's steps, of a steady core and of the GPU,
and strong fairness of `Present`: the display takes an image as it is now and
then, though it may ask for another swapchain in between as often as it likes.

Every run leaves deadlock checking on: where the program stops, the model
stutters explicitly (`Terminated`).

## 4. What is proved

Each proof module proves, for every value of the constants that satisfies the
named assumption of its module: that the initial states satisfy the inductive
invariant, that each action preserves it, one step to an action, and from it the
properties. TLC agreed to each invariant before it was proved. The types of
`PlaySession`, `SaveStore`, `CoreHost`, `AudioQueue`, `Management` and `VulkanFrames` are
proved and not checked by a run.

**PlaySession.** `CoreCallsSerial` is not inductive: that a worker is not in the core when
the UI thread tears it down depends on who holds the mutex (`LockHolder`), on
a runner existing exactly while its thread does (`RunnerOfSession`), and on the
UI thread passing through the join before it unloads (`UiPlace`). That a request
is not orphaned rests on `CommandsInFlight`: the channel holds at most the one
command the UI thread waits for, and a worker that ends drops it together with
its reply channel. That a frame belongs to its session rests on
`ReportsFromLoaded` (every undrained event is of the loaded core) and
`RomsKnown`. With these: `CoreCallsAreSerial`, `WorkerLivesInSession`,
`PhaseAgreesWithHost`, `PlayingImpliesPresented`, `FramesAreOfThisSession`,
`SavesHoldOwnState`, `RequestsAreHeld`, `StopIsSent`, `EndsClean`,
`RequestsStayInSession`, and the refinement `RefinesCoreSession`, in which each
action maps to an action of `CoreSession` or to a stutter.

**SaveStore.** The invariant relates the step of a save to what the slot file, its backup
and its row hold at that step. `FailedSavesLeaveSlotsIntact`,
`CommittedImagesSurvive` and `RowsFollowRoms` follow from it. `QuotaIsHeld` needs more than
the quota: the total is read before the file is written, so `AdmittedFits` says that
from the admission to the commit the new image still fits in place of the old row.
Because `Used` counts bytes, what a row that changes does to it is a fact about finite
sets (`UsedAfterUpdate`, `UsedOfFewer`), for which no induction over a sum is needed.
`RefinesSlotStore` maps each action to one of `SlotStore` or to a stutter. A kill, and the
last step of an undo, map to the end of a torn save only because the file in the
slot is then the save's own or none (`UndoneFile`).

**FramePacing.** `NoTimeCountedTwice` and `NeverAhead` hold for every interval, every set of
gaps and works, and every set of policies without the tight one, which is the
theorem's hypothesis: for the tight one TLC has a counterexample.

**CoreHost.** Neither `TypeOK` nor the properties are inductive: that a retry has a
strategy left, that a core on its way out has lost its context before its library,
that an idle host without a core has either nothing or exactly what a failed
context left, depend on the way the host came there. `IInv` says it in three
parts: `Resting` (between calls), `TearingDown` and `BringingUp`. It and `TypeOK` are
proved together (`Invariance`), for any cores, strategies and machine, one step
to an action and part. From it `LoadsAreWhole`, `NothingIsLeftBehind`,
`CallbacksFollowTheCore` and the refinement `KeepsLibretroApi`.

**AudioQueue.** That a queue stays within its latency is not inductive: a tick decides
on a level that is past when its frames run. `DueFits` is what makes it so: what is
due was decided on a level from which all of it fits, and nothing but a frame adds
to the queue while it is due. `SoundOfSession` follows the frames of a session
through the ring, the resampler and the concealment. That the batches of a core fit
between a watermark and the latency (`BatchesFit`) is an assumption about cores.
`HearsItself` and `StaysShort` hold for any such sizes, profiles,
ratios and buffers.

**SessionInput.** `PolledWasHeld` rests on `InputHeld`: what is in the state and what is
still to be put there make up what is held. `KeysAgree` rests on `KeysOfSession`,
which says what a session owes its core; `FiresOncePerPress` on
`LatchesKnowPresses`: where no block is, what is not latched has been released.
`FirstComeFirstServed` rests on `PadsInOrder`: the pads that are connected are finitely
many and the numbers of their arrival distinct and below the next one, so that a pad
that comes back is behind all who stayed. Giving slots
is counting: `Below` is how many are smaller, one to one on a finite set
(`BelowOrders`), so that as many pads as there are free slots are served, each free
slot by one (`SlotOfServed`), and none is left while someone waits (`NoSlotLeft`).
The theorems are `PollsWhatIsHeld`, `CoreKnowsTheKeys`, `FiresOnlyAfterRelease`,
`PadsFirstComeFirstServed` and `TypeCorrect`, for any pads, players, buttons, keys and
shortcuts.

**Management.** The files are proved one by one: for each, one lemma says what a step of
any actor may do to it, and one that this keeps its part of the invariant. `AtWork`
ties the flag, the job and the process together; `ProfilesSound` and `CoreKnown`
order the labels by the versions of the core's file, so that a label of a file that
was replaced never matches again; `ViewKnown` and `CoversKnown` do the same for the
list and the images a job found when it began. From these `SettingsAreKept`,
`ProfilesMatchTheirFile`, `RemovalsAreAsked` and `CoversAreKept`, for any number of
versions, games and rows.

**VulkanFrames.** `Shape` says part by part how swapchain, index, queue and GPU agree; it
holds for every core. `Free` is about steady ones: in a window no image waits while the
next frame is prepared (`WindowQueue`) and what the GPU reads was rendered at the
index of the swapchain image that shows it (`SameImage`), so that waiting for the
index frees it; without a window the images that wait are of the last frames, and
their ages differ modulo the number of frames (`FallbackQueue`). From these
`IndexAlwaysInMask`, `ImageAlwaysInHand` and `ImageAlwaysFree`, for any swapchains
of at most 31 images and up to three fallback frames, which is what the code has.

Only model-checked: the liveness properties (`RequestReturns`, `StopFinishes`,
`FailureEndsSession`, `LaunchResolves`, `KeepsRunning`, `JobEnds`, `KeepsShowing`), which
are beyond the prover; and the violations of `FollowsFrameClock`, `RetriesPivot`,
`ContinuesWithoutSound` and `PathsKept`. Every other property of the passing runs
is a theorem.

## 5. What is not modelled

`PROJECT.json` lists every component with its status and what is left out of it.

* *Drawing*: views, themes, assets, layout. It has no state of consequence.
* *Tables*: cores, systems, dependencies, core variables, mapping tables of the systems.
  They are lookups and parsing; a model would repeat them line by line.
* *SQL*: searches, favourites, statistics, the schema and its additions with the backup
  before them. What matters of the rows is in `SaveStore` and `GameLibrary`.
* *Libraries and devices*: the platform's graphics, window and audio libraries except
  through what the code does with their answers; the vendored crates in `third_party`.
* *Lists and focus*: the paging of the library, the navigation of menus and the size of
  the window, which are indices of one thread, bounded where they are used.
* *The controller mapper*: a wizard of one thread over input that `SessionInput` abstracts.
* *The planning of a launch*: which core, which strategy, which variables. `CoreHost`
  takes any plan the code can make for its cores.
* *Vulkan but for its frames*: which driver objects an interface and a swapchain are made
  of, the window, and cores that call in from a thread of their own while the session is
  torn down.
* *The VFS, logging and diagnostics*, and the probe's command-line tool.

Most of the source's lines are of these kinds.

## 6. Plan

What would come next, in this order:

1. `MappingCapture` - the wizard of the controller mapper on top of `SessionInput`.
2. `SchemaUpgrade` - the additions of a start, the backup before them, and a kill between.
3. Teardown in `VulkanFrames` while a core's thread still calls in, together with `CoreHost`.
4. `JobEnds` under a panic of the job's thread, once the code says what it should do.
