------------------------------ MODULE MCChannel ------------------------------
(* Runs of the channel; the cfg files give the sizes.                      *)
EXTENDS Channel
=============================================================================
