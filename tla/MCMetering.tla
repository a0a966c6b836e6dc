----------------------------- MODULE MCMetering -----------------------------
(* Instances of Metering for TLC.  Runs and callers are interchangeable.    *)
EXTENDS Metering, TLC

Symmetry == Permutations(Runs) \cup Permutations(Callers)

=============================================================================
