-------------------------- MODULE MCPipelineRunner --------------------------
(***************************************************************************)
(* Instances of PipelineRunner for TLC.  Runs, payloads, slots and requests *)
(* are only ever compared for equality, so permuting them is a symmetry.   *)
(***************************************************************************)
EXTENDS PipelineRunner, TLC

Symmetry ==
    Permutations(Runs) \cup Permutations(Payloads)
        \cup Permutations(Slots) \cup Permutations(Requests)

=============================================================================
