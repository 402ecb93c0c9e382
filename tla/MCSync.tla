-------------------------------- MODULE MCSync --------------------------------
(* Runs of the blocking primitives; the cfg files give the sizes.          *)
EXTENDS Sync
=============================================================================
