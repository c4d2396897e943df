------------------------------ MODULE Placement ------------------------------
(***************************************************************************)
(* Where the files of a member are put: the manifest's moves and the       *)
(* directory mirrors, side by side.                                        *)
(***************************************************************************)
EXTENDS FileMoves, MirrorSwap

(* applyMovedPaths and ensureDirectoryMirrorsMatch put files elsewhere: what a *)
(* member has, and what refers to it, follows, through collisions, failing     *)
(* renames and kills.                                                          *)
PlacementKeepsFiles ==
  MovesLoseNothing /\ ReferencesFollow /\ MirrorKeepsLocal /\ SwapIsComplete
=============================================================================
