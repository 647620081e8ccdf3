--------------------------- MODULE MCVulkanFrames ---------------------------
(***************************************************************************)
(* A steady core whose swapchain may be made anew with more or fewer       *)
(* images, and a core with a render thread; each also without a window.    *)
(***************************************************************************)
EXTENDS VulkanFrames
MCRigs == {[core |-> "steady", counts |-> {2, 3}], [core |-> "threaded", counts |-> {2}]}
=============================================================================
