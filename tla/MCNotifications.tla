-------------------------- MODULE MCNotifications --------------------------
(***************************************************************************)
(* Notifications on small instances.                                       *)
(***************************************************************************)
EXTENDS Notifications

(* A guild left in a channel, playing or paused.                           *)
PausedInChannel == [channel : Channels, paused : BOOLEAN, loop : {FALSE}]
=============================================================================
