------------------------ MODULE MCResponsesPhaseBuffer ----------------------
(* One stream of up to MaxInput arbitrary events over two message items, with *)
(* room for two delayed events and three units of size.                       *)
EXTENDS ResponsesPhaseBuffer, TLC

Symmetry == Permutations(ItemIds)
=============================================================================
