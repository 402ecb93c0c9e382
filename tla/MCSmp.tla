-------------------------------- MODULE MCSmp --------------------------------
(* Runs of the multi-core scheduler; the cfg files give the sizes.         *)
EXTENDS Smp

(* Threads without affinity, and threads of one core.                      *)
AllOrOne == {{0, 1}, {1}}
=============================================================================
