---------------------------- MODULE MCAssistantRuns ----------------------------
(* Small instances of AssistantRuns for TLC. *)
EXTENDS AssistantRuns, TLC

Symmetry == Permutations(Sends) \cup Permutations(Ids)
=============================================================================
