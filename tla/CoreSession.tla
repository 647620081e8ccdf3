----------------------------- MODULE CoreSession ----------------------------
(***************************************************************************)
(* What LibretroHost promises a libretro core: at most one core is there   *)
(* at a time; every call from loading to unloading it is made by one       *)
(* thread at a time; a core is loaded only when there is none, and nothing *)
(* calls a core that is not there.                                         *)
(***************************************************************************)
CONSTANTS Rom, NoRom

VARIABLES
    core,    \* rom of the core that is loaded, or NoRom
    caller   \* the thread that is inside the core, or "none"

vars == <<core, caller>>

Threads == {"ui", "worker"}

Init == core = NoRom /\ caller = "none"

\* retro_load_game is under way: there is no core to call yet.
Open == core = NoRom /\ caller = "none" /\ caller' = "ui" /\ UNCHANGED core

Opened(rom) == core = NoRom /\ caller = "ui" /\ core' = rom /\ caller' = "none"

\* Any entry point of the core: retro_run, retro_reset, retro_serialize, ...
Enter(thread) == core # NoRom /\ caller = "none" /\ caller' = thread /\ UNCHANGED core

\* The call returns, or fails, or the thread that made it panics.
Leave == caller # "none" /\ caller' = "none" /\ UNCHANGED core

\* retro_unload_game and retro_deinit have returned.
Closed == core # NoRom /\ caller = "ui" /\ core' = NoRom /\ caller' = "none"

Next ==
    \/ Open \/ Leave \/ Closed
    \/ \E rom \in Rom : Opened(rom)
    \/ \E thread \in Threads : Enter(thread)

Spec == Init /\ [][Next]_vars

=============================================================================
