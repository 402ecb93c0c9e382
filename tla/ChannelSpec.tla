----------------------------- MODULE ChannelSpec -----------------------------
(***************************************************************************)
(* What sync/channel.rs promises: a rendezvous.  A send waits until one    *)
(* receive takes its message and a receive waits until one send hands it   *)
(* one.                                                                    *)
(***************************************************************************)
CONSTANTS Peers,     \* threads that send and receive
          Nobody     \* not a thread

VARIABLES sending,      \* threads waiting in a send
          receiving,    \* threads waiting in a receive
          source        \* per thread: whose send its last receive completed

vars == <<sending, receiving, source>>

Init == /\ sending = {}
        /\ receiving = {}
        /\ source = [t \in Peers |-> Nobody]

Free(t) == t \notin sending \cup receiving

(* A call that finds no partner waits.                                     *)
Offer(t) ==
  /\ Free(t) /\ receiving = {}
  /\ sending' = sending \cup {t}
  /\ UNCHANGED <<receiving, source>>

Ask(t) ==
  /\ Free(t) /\ sending = {}
  /\ receiving' = receiving \cup {t}
  /\ source' = [source EXCEPT ![t] = Nobody]
  /\ UNCHANGED sending

(* A call that finds one completes, and completes the partner's.           *)
Hand(t, r) ==
  /\ Free(t) /\ r \in receiving
  /\ receiving' = receiving \ {r}
  /\ source' = [source EXCEPT ![r] = t]
  /\ UNCHANGED sending

Take(t, s) ==
  /\ Free(t) /\ s \in sending
  /\ sending' = sending \ {s}
  /\ source' = [source EXCEPT ![t] = s]
  /\ UNCHANGED receiving

Next == \/ \E t \in Peers : Offer(t) \/ Ask(t)
        \/ \E t, u \in Peers : Hand(t, u) \/ Take(t, u)

Spec == Init /\ [][Next]_vars
=============================================================================
