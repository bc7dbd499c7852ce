---------------------------- MODULE MCChannelTurns ----------------------------
(* Small instances of ChannelTurns for TLC. *)
EXTENDS ChannelTurns, TLC

Symmetry == Permutations(Turns) \cup Permutations(Procs)
==============================================================================
