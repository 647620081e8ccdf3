---------------------------- MODULE LibretroApi -----------------------------
(***************************************************************************)
(* The order in which a frontend may use one libretro core, from mapping   *)
(* its shared library to unmapping it: retro_init before retro_load_game,  *)
(* retro_unload_game before retro_deinit, a hardware context reset and     *)
(* destroyed only between retro_init and retro_deinit, and no library      *)
(* unmapped while its core waits for more calls.                           *)
(***************************************************************************)
VARIABLES
    stage,   \* "unmapped", "mapped", "ready" after retro_init, or "playing"
    context  \* the core's hardware context: "none", "asked" for, or "current"

vars == <<stage, context>>

Init == stage = "unmapped" /\ context = "none"

Goes(from, to) == stage = from /\ stage' = to /\ UNCHANGED context

Map        == Goes("unmapped", "mapped")
InitCore   == Goes("mapped", "ready")
LoadGame   == Goes("ready", "playing")
UnloadGame == Goes("playing", "ready")
Deinit     == Goes("ready", "mapped")
Unmap      == context = "none" /\ Goes("mapped", "unmapped")

\* RETRO_ENVIRONMENT_SET_HW_RENDER, and the answer to it.
AskContext   == stage = "ready" /\ context' = "asked" /\ UNCHANGED stage
ResetContext == stage \in {"ready", "playing"} /\ context = "asked"
                /\ context' = "current" /\ UNCHANGED stage
\* Destroyed once the game is unloaded, or forgotten after retro_deinit.
DropContext  == stage \in {"ready", "mapped"} /\ context' = "none" /\ UNCHANGED stage

\* The context that was asked for cannot be made: the core is given up where it is.
Abandon == /\ stage \in {"ready", "playing"} /\ context = "asked"
           /\ stage' = "unmapped" /\ context' = "none"

Next == \/ Map \/ InitCore \/ LoadGame \/ UnloadGame \/ Deinit \/ Unmap
        \/ AskContext \/ ResetContext \/ DropContext \/ Abandon

Spec == Init /\ [][Next]_vars

=============================================================================
