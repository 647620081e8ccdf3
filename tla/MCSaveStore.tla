---------------------------- MODULE MCSaveStore ----------------------------
(* SaveStore over two roms with one slot each and three images, of which   *)
(* one is empty, and of the others two fit into the profile only if they   *)
(* are the small ones.                                                     *)
EXTENDS SaveStore, TLC
CONSTANTS empty, small, large

Sizes == empty :> 0 @@ small :> 1 @@ large :> 2
Images == {empty, small, large}
RomSwaps == Permutations(Rom)
=============================================================================
