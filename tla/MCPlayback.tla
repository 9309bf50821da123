---------------------------- MODULE MCPlayback ----------------------------
(***************************************************************************)
(* A track of two frames for Playback, sought to on either side of it.     *)
(***************************************************************************)
EXTENDS Playback

Frames == 2
Positions == {-1, Frames + 1}
=============================================================================
