---------------------------- MODULE RunQueueOps ----------------------------
(***************************************************************************)
(* What the runqueue of ariel-os-runqueue promises: one FIFO of threads    *)
(* per runqueue number, a higher number being a higher priority.  The      *)
(* operators work on the value q of all FIFOs.  RunQueueSpec turns them    *)
(* into a state machine, RunQueueSim shows that the linked lists of        *)
(* RunQueue implement it, and Scheduler uses them for its runqueue.        *)
(***************************************************************************)
EXTENDS Naturals, Sequences

CONSTANTS N_QUEUES,    \* number of runqueues, i.e. of priority levels
          N_THREADS    \* number of thread slots

(***************************************************************************)
(* The assumptions listed at the RunQueue type: thread ids are stored in a *)
(* u8, 0xFF being a special value.                                         *)
(***************************************************************************)
ASSUME SizeAssumption == /\ N_QUEUES \in Nat \ {0}
                         /\ N_THREADS \in Nat \ {0}
                         /\ N_THREADS < 255

Queues == 0 .. N_QUEUES - 1
Threads == 0 .. N_THREADS - 1

(* CList::sentinel(), also Option<ThreadId>::None.                         *)
Sentinel == 255

In(s, n) == \E i \in DOMAIN s : s[i] = n

IndexOf(s, n) == CHOOSE i \in DOMAIN s : s[i] = n

Without(s, n) ==
  LET i == IndexOf(s, n)
  IN  [j \in 1 .. Len(s) - 1 |-> IF j < i THEN s[j] ELSE s[j + 1]]

(* The element after index i, the first one being after the last.          *)
Succ(s, i) == IF i = Len(s) THEN s[1] ELSE s[i + 1]

(* A thread is in one FIFO at most, and there once.                        *)
QueuedOnce(q) ==
  \A p, r \in Queues : \A i \in DOMAIN q[p], j \in DOMAIN q[r] :
    q[p][i] = q[r][j] => p = r /\ i = j

EmptyQueues == [rq \in Queues |-> <<>>]

(* A thread that is already in the runqueue stays where it is.             *)
QAdd(q, n, rq) ==
  IF \E r \in Queues : In(q[r], n) THEN q
                                  ELSE [q EXCEPT ![rq] = Append(@, n)]

QPopHead(q, rq) == [q EXCEPT ![rq] = Tail(@)]

QDel(q, n) ==
  [rq \in Queues |-> IF In(q[rq], n) THEN Without(q[rq], n) ELSE q[rq]]

QAdvance(q, rq) ==
  IF q[rq] = <<>> THEN q ELSE [q EXCEPT ![rq] = Append(Tail(@), Head(@))]

(* Non-empty runqueues, and the one whose head runs next.                  *)
Used(q) == {rq \in Queues : q[rq] # <<>>}

IsTop(q, rq) == rq \in Used(q) /\ \A r \in Used(q) : r <= rq

Top(q) == CHOOSE rq \in Queues : IsTop(q, rq)

QNext(q) == IF Used(q) = {} THEN Sentinel ELSE Head(q[Top(q)])

(* The first thread of S in order of priority and, within one priority, of *)
(* queueing.                                                               *)
QNextFilter(q, S) ==
  LET hit == {rq \in Queues : \E n \in S : In(q[rq], n)}
      rq  == CHOOSE r \in hit : \A s \in hit : s <= r
      i   == CHOOSE j \in DOMAIN q[rq] : /\ q[rq][j] \in S
                                         /\ \A l \in 1 .. j - 1 : q[rq][l] \notin S
  IN  IF hit = {} THEN Sentinel ELSE q[rq][i]
=============================================================================
