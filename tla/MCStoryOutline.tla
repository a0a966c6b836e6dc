--------------------------- MODULE MCStoryOutline ---------------------------
(* Instances of StoryOutline for TLC.                                        *)
EXTENDS StoryOutline, TLC

Symmetry == Permutations(Requests)

=============================================================================
