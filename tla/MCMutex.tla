------------------------------- MODULE MCMutex -------------------------------
(* Runs of the mutex; the cfg files give the sizes.                        *)
EXTENDS Mutex
=============================================================================
