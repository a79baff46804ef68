---------------------------- MODULE MCViewOutside ----------------------------
(***************************************************************************)
(* The view of the map editor alone, with maps that are smaller and maps   *)
(* that are larger than the largest window.                                *)
(***************************************************************************)
EXTENDS MapView

MCTileSets == {[size |-> 2, n |-> 5], [size |-> 4, n |-> 4]}
MCBlocks == [size |-> 2, n |-> 3]
MCDeltas == {-7, -1, 1, 7}
=============================================================================
