---------------------------- MODULE RunQueueSpec ----------------------------
(***************************************************************************)
(* The runqueue as its callers see it: a FIFO per priority, and the values *)
(* that the last pop_next and the last advance returned.                   *)
(***************************************************************************)
EXTENDS RunQueueOps

VARIABLES queues, ret, moved

vars == <<queues, ret, moved>>

Init == queues = EmptyQueues /\ ret = Sentinel /\ moved = FALSE

(* A thread is only ever added to the queue it is in or, when it is in no  *)
(* queue, to any queue.                                                    *)
MayAdd(q, n, rq) == \A r \in Queues : In(q[r], n) => r = rq

Add(n, rq) ==
  /\ MayAdd(queues, n, rq)
  /\ queues' = QAdd(queues, n, rq)
  /\ UNCHANGED <<ret, moved>>

PopHead(n, rq) ==
  /\ queues[rq] # <<>>
  /\ Head(queues[rq]) = n
  /\ queues' = QPopHead(queues, rq)
  /\ UNCHANGED <<ret, moved>>

Del(n) ==
  /\ queues' = QDel(queues, n)
  /\ UNCHANGED <<ret, moved>>

PopNext ==
  /\ ret' = QNext(queues)
  /\ UNCHANGED moved
  /\ queues' = IF Used(queues) = {} THEN queues ELSE QPopHead(queues, Top(queues))

(* Returns false exactly when the call has no effect.                      *)
Advance(rq) ==
  /\ queues' = QAdvance(queues, rq)
  /\ moved' = (Len(queues[rq]) > 1)
  /\ UNCHANGED ret

Next == \/ PopNext
        \/ \E n \in Threads : Del(n)
        \/ \E rq \in Queues : Advance(rq)
        \/ \E n \in Threads, rq \in Queues : Add(n, rq) \/ PopHead(n, rq)

Spec == Init /\ [][Next]_vars
=============================================================================
