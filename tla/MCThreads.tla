------------------------------ MODULE MCThreads ------------------------------
(* Runs of the single-core scheduler; the cfg files give the sizes.        *)
EXTENDS Threads

(* Masks over two flags: one bit, and both, so that All, Any and One       *)
(* differ.                                                                 *)
TwoMasks == {{0}, {0, 1}}
=============================================================================
