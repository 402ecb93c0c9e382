----------------------------- MODULE RunQueueSim -----------------------------
(***************************************************************************)
(* The linked lists of RunQueue together with the FIFOs they stand for:    *)
(* the history variable queues takes the step of RunQueueSpec that the     *)
(* call on the lists stands for, and never influences the lists.           *)
(***************************************************************************)
EXTENDS RunQueue

VARIABLE queues

simvars == <<rqvars, queues>>

Abstract == INSTANCE RunQueueSpec

SimInit == RunQueueInit /\ queues = EmptyQueues

(* The caller's obligation: a thread that is in one runqueue is never      *)
(* added to another.  RunqueueMatches of Threads discharges it.            *)
SimAdd(n, rq) ==
  /\ Abstract!MayAdd(queues, n, rq)
  /\ Add(n, rq)
  /\ queues' = QAdd(queues, n, rq)

SimPopHead(n, rq) == PopHead(n, rq) /\ queues' = QPopHead(queues, rq)

SimDel(n) == Del(n) /\ queues' = QDel(queues, n)

SimPopNext ==
  /\ PopNext
  /\ queues' = IF Used(queues) = {} THEN queues ELSE QPopHead(queues, Top(queues))

SimAdvance(rq) == Advance(rq) /\ queues' = QAdvance(queues, rq)

SimNext == \/ SimPopNext
           \/ \E n \in Threads : SimDel(n)
           \/ \E rq \in Queues : SimAdvance(rq)
           \/ \E n \in Threads, rq \in Queues : SimAdd(n, rq)
           \/ \E n \in Threads, rq \in Queues : SimPopHead(n, rq)

SimSpec == SimInit /\ [][SimNext]_simvars

-----------------------------------------------------------------------------
(* How the lists represent the FIFOs.                                      *)

QueuesOK == queues \in [Queues -> Seq(Threads)]

TailsOK == \A rq \in Queues :
  tail[rq] = IF queues[rq] = <<>> THEN Sentinel ELSE queues[rq][Len(queues[rq])]

LinksOK == \A rq \in Queues : \A i \in DOMAIN queues[rq] :
  next_idxs[queues[rq][i]] = Succ(queues[rq], i)

UnlinkedOK == \A n \in Threads :
  next_idxs[n] # Sentinel => \E rq \in Queues : In(queues[rq], n)

BitcacheOK == bitcache = Used(queues)

(* The circular lists, their tails and the bitcache always encode exactly  *)
(* the FIFOs: no thread is lost, linked twice or left with a stale next    *)
(* index by add, del, pop_head, pop_next or advance, and the bitcache has  *)
(* a bit for a runqueue exactly when its list has an element.              *)
Represents == /\ QueuesOK
              /\ QueuedOnce(queues)
              /\ TailsOK
              /\ LinksOK
              /\ UnlinkedOK
              /\ BitcacheOK

(* get_next answers the oldest thread of the highest non-empty FIFO.       *)
GetNextCorrect == get_next = QNext(queues)

(* get_next_filter (the scheduler's core-affinity search) answers the      *)
(* first accepted thread in priority and queueing order, whatever the      *)
(* predicate: iter_from and RunQueueIter::next visit every queued thread.  *)
FilterCorrect == \A S \in SUBSET Threads : get_next_filter(S) = QNextFilter(queues, S)

(* The lists implement the FIFOs, return values of pop_next and advance    *)
(* included.                                                               *)
ImplementsFifos == Abstract!Spec
=============================================================================
