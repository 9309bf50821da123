------------------------------ MODULE MCGuild ------------------------------
(***************************************************************************)
(* Guild on small instances: the rows a process may find when it starts    *)
(* and the symmetries of the ids.                                          *)
(***************************************************************************)
EXTENDS Guild, TLC

Row(channel, paused, loop) == [channel |-> channel, paused |-> paused, loop |-> loop]

(* A guild left in a channel, playing or, perhaps, paused.                 *)
InChannel       == {Row(ch, FALSE, FALSE) : ch \in Channels}
PausedInChannel == {Row(ch, p, FALSE) : ch \in Channels, p \in BOOLEAN}

(* Position -1 asks Play to append.                                        *)
AppendOnly == {-1}

Symmetry == Permutations(Tracks) \cup Permutations(Clients)
=============================================================================
