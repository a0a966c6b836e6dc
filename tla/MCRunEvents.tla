---------------------------- MODULE MCRunEvents ----------------------------
(* Instances of RunEvents for TLC.  Clients are interchangeable.            *)
EXTENDS RunEvents, TLC

Symmetry == Permutations(Clients)

=============================================================================
