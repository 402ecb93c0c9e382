----------------------------- MODULE MCRunQueue -----------------------------
(* Runs of the runqueue; the cfg files give the sizes.                     *)
EXTENDS RunQueueSim
=============================================================================
