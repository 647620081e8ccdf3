------------------------------ MODULE CoreHost ------------------------------
(***************************************************************************)
(* LibretroHost::load_core and unload: one core after another is mapped,   *)
(* set up, given a game in up to three ways and torn down again, with      *)
(* the video session, the hardware context, the audio output and the       *)
(* global that leads the core's C callbacks back to their host.            *)
(*                                                                         *)
(* The host is used by one thread here; PlaySession is about two.  What a  *)
(* core does inside its entry points (what it asks for and registers,      *)
(* whether it takes the game) is its own choice.  Settings read from       *)
(* environment variables, and a core's requests from retro_run, are        *)
(* left out.                                                               *)
(***************************************************************************)
EXTENDS Naturals

CONSTANTS
    Core,         \* the cores, by core_name
    NoCore,       \* stands for None
    HwCore,       \* cores whose .info file requires hardware rendering
    MetalCore,    \* PCSX2 cores that draw to a Metal view of the host
    Registering,  \* cores that register a keyboard, audio or frame-time callback
    MaxStrategies \* the most ways a game is handed to a core: three

ASSUME CoreHostAssumption ==
    /\ NoCore \notin Core
    /\ HwCore \subseteq Core
    /\ MetalCore \subseteq Core \cap {"pcsx2", "pcarmsx2"}
    /\ Registering \subseteq Core
    /\ MaxStrategies \in Nat \ {0}

VARIABLES
    gl,          \* the frontend's OpenGL: "none", "named" only, or a "context"
    cpu,         \* "native", or a process translated by "rosetta"
    step,        \* what the host does next
    goal,        \* what a teardown is for
    core,        \* the core the host is busy with
    loaded,      \* LibretroHost.loaded
    lib,         \* its library: "none", "mapped", "init" or holding a "game"
    active,      \* ACTIVE_RUNTIME: "registered" or "clear"
    session,     \* the chosen backend of VideoCoordinator.session
    window,      \* the Metal view's window: "open" or "closed"
    configured,  \* loaded_backend, the backend the core variables are for
    requested,   \* requested_hw_context_type
    refusal,     \* last_load_error: "none" or "set"
    hw,          \* hw_render_state.callbacks, and context_ready
    env,         \* the keyboard, audio and frame-time callbacks
    audio,       \* audio_output: "on" or "off"
    left         \* strategies not tried yet

machine   == <<gl, cpu>>
coreVars  == <<lib, hw, env>>
videoVars == <<session, window>>
loadVars  == <<configured, requested, refusal, left>>
vars == <<machine, step, goal, core, loaded, coreVars, active, videoVars, loadVars, audio>>

Backends  == {"Software", "OpenGl", "Vulkan", "MacosMetalView"}
Contexts  == {"gl", "vulkan", "unsupported"}
Steps     == {"idle", "unload", "destroy", "deinit", "abandon", "drop", "clear", "closed",
              "plan", "configure", "prepare", "attempt", "init", "setup", "loading",
              "accepted", "replan"}
Unloading == {"load", "stop", "close"}

-----------------------------------------------------------------------------
(* The policy of video/policy.rs.                                           *)

SupportsGl == gl # "none"

\* A core that asked for a context in vain is planned for what it asked for.
ForRequest(asked, otherwise) ==
    CASE asked = "vulkan" -> "Vulkan"
      [] asked = "gl"     -> IF SupportsGl THEN "OpenGl" ELSE otherwise
      [] OTHER            -> otherwise

SelectPcsx2(c, asked) ==
    CASE c \in MetalCore   -> "MacosMetalView"
      [] cpu = "rosetta"   -> "Vulkan"
      [] OTHER             -> ForRequest(asked, "Vulkan")

SelectBackend(c, asked) ==
    CASE c = "mupen64plus_next"     -> "Vulkan"
      [] c = "mednafen_psx_hw"      -> IF cpu = "rosetta" THEN "Software" ELSE "Vulkan"
      [] c = "flycast"              -> IF asked = "none" THEN "Vulkan"
                                       ELSE ForRequest(asked, "Software")
      [] c = "dolphin"              -> IF asked # "none" THEN ForRequest(asked, "Software")
                                       ELSE IF SupportsGl THEN "OpenGl" ELSE "Vulkan"
      [] c \in {"pcsx2", "pcarmsx2"} -> SelectPcsx2(c, asked)
      [] OTHER -> IF c \in HwCore /\ asked \in {"none", "gl"} /\ SupportsGl
                  THEN "OpenGl" ELSE "Software"

Init ==
    /\ gl \in {"none", "named", "context"} /\ cpu \in {"native", "rosetta"}
    /\ step = "idle" /\ goal = "stop" /\ core \in Core /\ loaded = NoCore
    /\ lib = "none" /\ hw = "none" /\ env = "none"
    /\ active = "clear" /\ session = "none" /\ window = "closed"
    /\ configured = "none" /\ requested = "none" /\ refusal = "none" /\ left = 0
    /\ audio = "off"

-----------------------------------------------------------------------------
(* Teardown.                                                                *)

\* pcsx2_needs_deinit_before_context_destroy, by the file stem of the core, which is
\* the library's name.  unload also tells the core that its audio callback is off, before
\* it unloads the game: no state of this module follows from that.
DeinitFirst == core \in {"pcsx2", "pcarmsx2"} /\ goal \in Unloading

\* What a callback into a library is worth once the library is unmapped.
Unmapped(cb) == IF cb = "none" THEN "none" ELSE "stale"

\* VideoCoordinator::current_backend_kind
Backend == IF session = "none" THEN "Software" ELSE session

\* VideoCoordinator::end_session, which only the Metal view's backend heeds.
EndSession ==
    /\ session' = "none"
    /\ window' = IF session = "MacosMetalView" THEN "closed" ELSE window

\* destroy_hw_render_session: without an active runtime it does nothing.
DestroySession ==
    IF active = "registered" THEN EndSession /\ hw' = "none" ELSE UNCHANGED <<videoVars, hw>>

\* A core is loaded: its audio is stopped and its game unloaded.
UnloadGame ==
    /\ step = "unload"
    /\ loaded # NoCore
    /\ step' = IF DeinitFirst THEN "deinit" ELSE "destroy"
    /\ loaded' = NoCore
    /\ audio' = "off"
    /\ lib' = "init"
    /\ UNCHANGED <<machine, goal, core, hw, env, active, videoVars, loadVars>>

UnloadNothing ==
    /\ step = "unload"
    /\ loaded = NoCore
    /\ step' = "clear"
    /\ audio' = "off"
    /\ DestroySession
    /\ UNCHANGED <<machine, goal, core, loaded, lib, env, active, loadVars>>

\* Mutant: a failed load leaves the active runtime registered.
DestroyKeepsRuntime ==
    /\ step = "destroy" /\ step' = "deinit"
    /\ DestroySession
    /\ UNCHANGED <<machine, goal, core, loaded, lib, env, active, loadVars, audio>>

\* context_destroy is called; a failed load clears the active runtime at once.
Destroy ==
    /\ step = "destroy"
    /\ step' = "deinit"
    /\ DestroySession
    /\ active' = IF goal \in Unloading THEN active ELSE "clear"
    /\ UNCHANGED <<machine, goal, core, loaded, lib, env, loadVars, audio>>

Deinit ==
    /\ step = "deinit"
    /\ step' = CASE DeinitFirst -> "abandon" [] goal = "retry" -> "replan" [] OTHER -> "drop"
    /\ lib' = "mapped"
    /\ UNCHANGED <<machine, goal, core, loaded, hw, env, active, videoVars, loadVars, audio>>

\* The PCSX2 cores' context is torn down after retro_deinit, without calling them.
AbandonContext ==
    /\ step = "abandon"
    /\ step' = "drop"
    /\ hw' = "none"
    /\ EndSession
    /\ UNCHANGED <<machine, goal, core, loaded, lib, env, active, loadVars, audio>>

UnmapLibrary == lib' = "none" /\ hw' = Unmapped(hw) /\ env' = Unmapped(env)

DropLibrary ==
    /\ step = "drop"
    /\ step' = IF goal = "refuse" THEN "idle" ELSE "clear"
    /\ UnmapLibrary
    /\ UNCHANGED <<machine, goal, core, loaded, active, videoVars, loadVars, audio>>

\* The end of unload.
ClearRuntime ==
    /\ step = "clear"
    /\ step' = CASE goal = "load" -> "plan" [] goal = "close" -> "closed" [] OTHER -> "idle"
    /\ active' = "clear"
    /\ UNCHANGED <<machine, goal, core, loaded, coreVars, videoVars, loadVars, audio>>

-----------------------------------------------------------------------------
(* load_core.                                                               *)

\* load_core begins by unloading; unload by itself; the drop of the host.
Begin(g) ==
    /\ step = "idle"
    /\ step' = "unload"
    /\ goal' = g
    /\ UNCHANGED <<machine, core, loaded, coreVars, active, videoVars, loadVars, audio>>

\* inspect_core_requirements and plan_session.
PlanSession ==
    /\ step = "plan"
    /\ core' \in Core
    /\ session' = SelectBackend(core', "none")
    /\ step' = "configure"
    /\ UNCHANGED <<machine, goal, loaded, coreVars, active, window, loadVars, audio>>

\* Mutant: the callbacks of an earlier core stay in the environment context.
ConfigureKeepsCallbacks ==
    /\ step = "configure"
    /\ configured' = session /\ requested' = "none" /\ refusal' = "none"
    /\ step' = "prepare"
    /\ window' = IF session = "MacosMetalView" THEN "open" ELSE window
    /\ UNCHANGED <<machine, goal, core, loaded, coreVars, active, session, left, audio>>

\* configure_environment_context and begin_session; the Metal view's window may
\* not open.
Configure ==
    /\ step = "configure"
    /\ env' = "none"
    /\ configured' = session /\ requested' = "none" /\ refusal' = "none"
    /\ \/ step' = "prepare"
          /\ window' = IF session = "MacosMetalView" THEN "open" ELSE window
       \/ step' = "idle" /\ session = "MacosMetalView" /\ window = "closed"
          /\ UNCHANGED window
    /\ UNCHANGED <<machine, goal, core, loaded, lib, hw, active, session, left, audio>>

\* A core that must render in hardware is not run on the software backend, but
\* for two that can draw without.
PreflightFails ==
    /\ core \in HwCore \ {"mupen64plus_next", "mednafen_psx_hw"}
    /\ session = "Software"

PrepareContent ==
    /\ step = "prepare"
    /\ ~PreflightFails
    /\ step' = "attempt"
    /\ left' \in 1..MaxStrategies
    /\ UNCHANGED <<machine, goal, core, loaded, coreVars, active, videoVars, configured,
                   requested, refusal, audio>>

\* The errors before a core is there: its library or its info cannot be read,
\* Dolphin's folders cannot be made, the preflight or the content fails, and,
\* in an attempt, the rom, the library, the Metal view's host or the API.
LoadFails ==
    /\ \/ step \in {"plan", "prepare"}
       \/ step = "configure" /\ core = "dolphin"
       \/ step = "attempt"
    /\ step' = "idle"
    /\ IF step = "attempt" THEN requested' = "none" /\ refusal' = "none"
       ELSE UNCHANGED <<requested, refusal>>
    /\ UNCHANGED <<machine, goal, core, loaded, coreVars, active, videoVars, configured,
                   left, audio>>

\* The library is mapped; a Metal view's host cannot be handed over without its
\* window.
MapLibrary ==
    /\ step = "attempt"
    /\ session = "MacosMetalView" => window = "open"
    /\ step' = "init"
    /\ requested' = "none" /\ refusal' = "none"
    /\ lib' = "mapped"
    /\ active' = "registered"
    /\ UNCHANGED <<machine, goal, core, loaded, hw, env, videoVars, configured, left, audio>>

InitCore ==
    /\ step = "init"
    /\ step' = "setup"
    /\ lib' = "init"
    /\ UNCHANGED <<machine, goal, core, loaded, hw, env, active, videoVars, loadVars, audio>>

-----------------------------------------------------------------------------
(* What a core asks for, in retro_init or in retro_load_game.               *)

Registers ==
    /\ step \in {"setup", "loading"}
    /\ core \in Registering
    /\ env' = "live"
    /\ UNCHANGED <<machine, step, goal, core, loaded, lib, hw, active, videoVars, loadVars, audio>>

\* RETRO_ENVIRONMENT_SET_HW_RENDER, denied for good ...
Denied(context) ==
    /\ context # "vulkan"
    /\ Backend # "Software"
    /\ ~(core = "flycast" /\ Backend = "Vulkan")
    /\ gl # "context" \/ context = "unsupported"

\* ... or so that the core may ask for another context.
Rejected(context) ==
    \/ core = "flycast" /\ Backend = "Vulkan" /\ context # "vulkan"
    \/ context = "vulkan" /\ Backend # "Vulkan"
    \/ context # "vulkan" /\ Backend = "Software"

AsksContext(context) ==
    /\ step \in {"setup", "loading"}
    /\ requested' = context
    /\ refusal' = IF Denied(context) THEN "set" ELSE refusal
    /\ hw' = IF Denied(context) \/ Rejected(context) THEN hw ELSE "asked"
    /\ UNCHANGED <<machine, step, goal, core, loaded, lib, env, active, videoVars, configured,
                   left, audio>>

-----------------------------------------------------------------------------
(* The game.                                                                *)

\* initialize_hw_render_context
ContextReset == hw' = IF hw = "asked" THEN "ready" ELSE hw

\* It fails, and the core is unmapped where it stands.
ContextFails ==
    /\ step = "setup" \/ (step = "accepted" /\ refusal = "none")
    /\ hw = "asked"
    /\ step' = "idle"
    /\ UnmapLibrary
    /\ UNCHANGED <<machine, goal, core, loaded, active, videoVars, loadVars, audio>>

BeginGame ==
    /\ step = "setup"
    /\ step' = "loading"
    /\ ContextReset
    /\ UNCHANGED <<machine, goal, core, loaded, lib, env, active, videoVars, loadVars, audio>>

\* A core registers its callbacks, if it does, with every game it takes.
GameTaken ==
    /\ step = "loading"
    /\ core \in Registering => env = "live"
    /\ step' = "accepted"
    /\ lib' = "game"
    /\ UNCHANGED <<machine, goal, core, loaded, hw, env, active, videoVars, loadVars, audio>>

GameRefused ==
    /\ step = "loading"
    /\ step' = "destroy"
    /\ goal' = "retry"
    /\ UNCHANGED <<machine, core, loaded, coreVars, active, videoVars, loadVars, audio>>

\* Mutant: the core is deinitialised with its game loaded.
RefuseCoreWithGame ==
    /\ step = "accepted" /\ refusal = "set"
    /\ step' = "destroy" /\ goal' = "refuse"
    /\ UNCHANGED <<machine, core, loaded, coreVars, active, videoVars, loadVars, audio>>

\* The core took the game, yet a context it asked for had been denied.
RefuseCore ==
    /\ step = "accepted"
    /\ refusal = "set"
    /\ step' = "destroy"
    /\ goal' = "refuse"
    /\ lib' = "init"
    /\ UNCHANGED <<machine, core, loaded, hw, env, active, videoVars, loadVars, audio>>

\* Audio may be unavailable.
FinishLoad ==
    /\ step = "accepted"
    /\ refusal = "none"
    /\ step' = "idle"
    /\ ContextReset
    /\ audio' \in {"on", "off"}
    /\ loaded' = core
    /\ UNCHANGED <<machine, goal, core, lib, env, active, videoVars, loadVars>>

\* Mutant: the session is not planned again.
PlanAgainNot == UNCHANGED session

\* The session is planned again, for the context the core asked for.
PlanAgain == session' = SelectBackend(core, requested)

TryNext == IF refusal = "set" \/ left = 1 THEN "idle" ELSE "attempt"

Retry ==
    /\ step = "replan"
    /\ step' = TryNext
    /\ left' = left - 1
    /\ PlanAgain
    /\ UnmapLibrary
    /\ UNCHANGED <<machine, goal, core, loaded, active, window, configured, requested,
                   refusal, audio>>

-----------------------------------------------------------------------------

UnloadNext == \/ UnloadGame \/ UnloadNothing \/ Destroy \/ Deinit \/ AbandonContext
              \/ DropLibrary \/ ClearRuntime
LoadNext   == \/ PlanSession \/ Configure \/ PrepareContent \/ LoadFails \/ MapLibrary
              \/ InitCore \/ ContextFails \/ BeginGame \/ GameTaken \/ GameRefused
              \/ RefuseCore \/ FinishLoad \/ Retry
CoreNext   == Registers \/ \E context \in Contexts : AsksContext(context)

\* The host has been dropped.
Terminated == step = "closed" /\ UNCHANGED vars

Next == \/ \E g \in Unloading : Begin(g)
        \/ UnloadNext \/ LoadNext \/ CoreNext \/ Terminated

Spec == Init /\ [][Next]_vars

-----------------------------------------------------------------------------
(* Properties.                                                              *)

TypeOK ==
    /\ gl \in {"none", "named", "context"}
    /\ cpu \in {"native", "rosetta"}
    /\ step \in Steps
    /\ goal \in Unloading \cup {"retry", "refuse"}
    /\ core \in Core
    /\ loaded \in Core \cup {NoCore}
    /\ lib \in {"none", "mapped", "init", "game"}
    /\ active \in {"registered", "clear"}
    /\ session \in Backends \cup {"none"}
    /\ window \in {"open", "closed"}
    /\ configured \in Backends \cup {"none"}
    /\ requested \in Contexts \cup {"none"}
    /\ refusal \in {"none", "set"}
    /\ hw \in {"none", "asked", "ready", "stale"}
    /\ env \in {"none", "live", "stale"}
    /\ audio \in {"on", "off"}
    /\ left \in 0..MaxStrategies

\* No callback of a core that is gone can reach a core that is there, or be
\* called in its place: keys, frame times and audio states go to the loaded
\* core, and a hardware context left by a failed initialisation is gone before
\* the next core is mapped.
CallbacksOfLoadedCore ==
    /\ loaded # NoCore => env # "stale" /\ hw # "stale"
    /\ lib # "none" => hw # "stale"

\* When load_core has returned with a core, that core holds its game, the C
\* callbacks find their host, its hardware context has been reset, and there is a
\* session whose backend reads its frames back - after however many attempts.
LoadedIsWhole ==
    loaded # NoCore =>
        /\ lib = "game" /\ active = "registered"
        /\ session # "none"
        /\ hw # "asked"
        /\ hw = "ready" => session # "Software"

\* However a load or an unload ends, it leaves nothing of a core behind: no
\* mapped library, no audio, no way for callbacks into the host.  The one
\* exception is a failed hardware initialisation, whose leftovers the next
\* load, or the drop of the host, takes down.
NothingOutlivesCore ==
    /\ loaded = NoCore => audio = "off"
    /\ loaded = NoCore /\ step = "idle" =>
         lib = "none" /\ ((hw = "none" /\ active = "clear") \/ hw = "stale")
    /\ step = "closed" => lib = "none" /\ hw = "none" /\ active = "clear"

\* "so retries can pivot to the correct backend for that core binary": an
\* attempt with a core whose variables are forced by the backend finds them set
\* for the backend of its session.
RetriesPivot ==
    step = "attempt" /\ core \in {"mupen64plus_next", "parallel_n64", "pcsx2", "pcarmsx2"}
        => configured = session

\* Load, retry, refusal, failure and unload keep the order of the libretro API.
Stage == CASE lib = "none" -> "unmapped" [] lib = "mapped" -> "mapped"
           [] lib = "init" -> "ready" [] OTHER -> "playing"
Context == CASE hw = "asked" -> "asked" [] hw = "ready" -> "current" [] OTHER -> "none"
Api == INSTANCE LibretroApi WITH stage <- Stage, context <- Context
LibretroApiSpec == Api!Spec

-----------------------------------------------------------------------------
(* The invariant, one part for each stretch of the host's work.             *)

Clean == lib = "none" /\ hw = "none" /\ active = "clear"
Empty == loaded = NoCore /\ audio = "off"

\* Between calls: a whole core, or none.
Resting ==
    /\ step \in {"idle", "unload"} =>
         \/ /\ loaded \in Core /\ lib = "game" /\ active = "registered"
            /\ session # "none" /\ env # "stale" /\ hw \in {"none", "ready"}
            /\ hw = "ready" => session # "Software"
         \/ /\ Empty /\ lib = "none"
            /\ Clean \/ (hw = "stale" /\ active = "registered")
    /\ step \notin {"idle", "unload"} => Empty

\* A core on its way out.
TearingDown ==
    /\ step \in {"unload", "clear"} => goal \in Unloading
    /\ step = "destroy" => lib = "init" /\ hw # "stale" /\ active = "registered"
                           /\ ~DeinitFirst
    /\ step = "deinit" => lib = "init" /\ hw # "stale" /\ (DeinitFirst \/ hw = "none")
    /\ step = "abandon" => lib = "mapped" /\ hw # "stale" /\ goal \in Unloading
    /\ step = "drop" => lib = "mapped" /\ hw = "none" /\ goal # "retry"
    /\ step = "clear" => lib = "none" /\ hw = "none"
    /\ step \in {"deinit", "drop", "replan"} /\ goal \notin Unloading => active = "clear"
    /\ step = "replan" => lib = "mapped" /\ hw = "none" /\ goal = "retry"
    /\ step \in {"plan", "configure", "prepare", "attempt", "closed"} => Clean

\* A core on its way in.
BringingUp ==
    /\ step \in {"configure", "prepare", "attempt", "init", "setup", "loading", "accepted"} =>
         session # "none"
    /\ step = "init" => lib = "mapped" /\ hw = "none" /\ active = "registered"
    /\ step \in {"setup", "loading", "accepted"} =>
         /\ lib = IF step = "accepted" THEN "game" ELSE "init"
         /\ active = "registered"
         /\ hw # "stale" /\ (hw # "none" => session # "Software")
    /\ \/ step \in {"attempt", "init", "setup", "loading", "accepted", "replan"}
       \/ step \in {"destroy", "deinit"} /\ goal = "retry"
       => left # 0
    /\ \/ step \in {"prepare", "attempt", "init", "setup", "loading", "accepted", "replan"}
       \/ step \in {"destroy", "deinit"} /\ goal = "retry"
       => core \in Registering \/ env = "none"
    /\ step = "accepted" => env # "stale"

IInv == Resting /\ TearingDown /\ BringingUp

=============================================================================
