-------------------------------- MODULE Lists --------------------------------
(***************************************************************************)
(* Loops over lists that several components have.                          *)
(***************************************************************************)
EXTENDS Sequences, SequencesExt

\* What is in a list and may stay, in its order.
Filter(list, able) ==
    FoldLeft(LAMBDA kept, e : IF e \in able THEN Append(kept, e) ELSE kept, <<>>, list)

\* Not the code: what is named twice is there twice.
BrokenDedupe(list) == list

\* The first occurrence of each.
Dedupe(list) ==
    FoldLeft(LAMBDA kept, e : IF Contains(kept, e) THEN kept ELSE Append(kept, e), <<>>, list)

=============================================================================
