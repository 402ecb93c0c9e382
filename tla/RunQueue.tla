------------------------------ MODULE RunQueue ------------------------------
(***************************************************************************)
(* src/ariel-os-runqueue/src/runqueue.rs: N_QUEUES circular singly linked  *)
(* lists over one array of next indexes, plus a bit per non-empty list.    *)
(* The usize bitcache is the set of its one bits.                          *)
(***************************************************************************)
EXTENDS RunQueueOps

CONSTANT USIZE_BITS    \* width of usize on the target

(* "runqueue numbers fit in usize bits"                                    *)
ASSUME WidthAssumption == USIZE_BITS \in Nat /\ N_QUEUES <= USIZE_BITS

VARIABLES bitcache, tail, next_idxs,
          ret,     \* what the last pop_next returned
          moved    \* what the last advance returned

rqvars == <<bitcache, tail, next_idxs, ret, moved>>

RunQueueTypeOK ==
  /\ bitcache \in SUBSET Queues
  /\ tail \in [Queues -> Threads \cup {Sentinel}]
  /\ next_idxs \in [Threads -> Threads \cup {Sentinel}]
  /\ ret \in Threads \cup {Sentinel}
  /\ moved \in BOOLEAN

RunQueueInit ==
  /\ bitcache = {}
  /\ tail = [rq \in Queues |-> Sentinel]
  /\ next_idxs = [n \in Threads |-> Sentinel]
  /\ ret = Sentinel
  /\ moved = FALSE

-----------------------------------------------------------------------------
(* Reading the lists.                                                      *)

IsEmpty(rq) == tail[rq] = Sentinel

peek_head(rq) == IF IsEmpty(rq) THEN Sentinel ELSE next_idxs[tail[rq]]

(* ffs(bits) - 1; the callers have checked that some bit is set.           *)
HighestBit(bits) == CHOOSE b \in bits : \A o \in bits : o <= b

get_next == IF bitcache = {} THEN Sentinel ELSE peek_head(HighestBit(bitcache))

(* Mutant: the mask of iter_from is one bit short.                         *)
BelowShiftShort(bits, amount) == {b \in bits : b < (amount - 1) % USIZE_BITS}

(* The mask `% (1 << (rq + 1))` of iter_from: the shift amount is reduced  *)
(* modulo the width when overflow checks are off.                          *)
BelowShift(bits, amount) == {b \in bits : b < amount % USIZE_BITS}

iter_from(start, rq) ==
  [prev |-> start, rq_head |-> peek_head(rq), bits |-> BelowShift(bitcache, rq + 1)]

(* RunQueueIter::next: the iterator after the call; its prev is the thread *)
(* returned, Sentinel once the iterator has returned None.                 *)
IterNext(it) ==
  LET next == next_idxs[it.prev]
      rest == {b \in it.bits : \E o \in it.bits : b < o}
      head == IF rest = {} THEN Sentinel ELSE peek_head(HighestBit(rest))
  IN  IF it.rq_head = Sentinel THEN [it EXCEPT !.prev = Sentinel]
      ELSE IF next # it.rq_head THEN [it EXCEPT !.prev = next]
      ELSE [prev |-> head, rq_head |-> head, bits |-> rest]

(* The predicate of get_next_filter is the set S of threads it accepts.    *)
get_next_filter(S) ==
  LET iter[i \in 0 .. N_THREADS] ==
        IF i = 0 THEN iter_from(get_next, HighestBit(bitcache))
        ELSE IF iter[i - 1].prev = Sentinel THEN iter[i - 1]
        ELSE IterNext(iter[i - 1])
      found == {i \in 0 .. N_THREADS : iter[i].prev \in S}
      first == CHOOSE i \in found : \A j \in found : i <= j
  IN  IF bitcache = {} \/ found = {} THEN Sentinel ELSE iter[first].prev

-----------------------------------------------------------------------------
(* Updating the lists.                                                     *)

ClearIfEmpty(rq) ==
  bitcache' = IF tail'[rq] = Sentinel THEN bitcache \ {rq} ELSE bitcache

(* CList::push; the bit is set before push looks at the thread.            *)
Add(n, rq) ==
  /\ bitcache' = bitcache \cup {rq}
  /\ IF next_idxs[n] # Sentinel
     THEN UNCHANGED <<tail, next_idxs>>
     ELSE /\ tail' = [tail EXCEPT ![rq] = n]
          /\ next_idxs' = IF IsEmpty(rq)
                          THEN [next_idxs EXCEPT ![n] = n]
                          ELSE [next_idxs EXCEPT ![n] = peek_head(rq), ![tail[rq]] = n]
  /\ UNCHANGED <<ret, moved>>

(* Mutant: the bit of a list that became empty stays set.                  *)
UnlinkHeadKeepsBit(rq) ==
  LET head == peek_head(rq)
  IN  /\ tail' = IF head = tail[rq] THEN [tail EXCEPT ![rq] = Sentinel] ELSE tail
      /\ next_idxs' = [next_idxs EXCEPT ![tail[rq]] = next_idxs[head],
                                        ![head] = Sentinel]
      /\ UNCHANGED bitcache

(* CList::pop_head of a non-empty list.                                    *)
UnlinkHead(rq) ==
  LET head == peek_head(rq)
  IN  /\ tail' = IF head = tail[rq] THEN [tail EXCEPT ![rq] = Sentinel] ELSE tail
      /\ next_idxs' = [next_idxs EXCEPT ![tail[rq]] = next_idxs[head],
                                        ![head] = Sentinel]
      /\ ClearIfEmpty(rq)

(* Panics unless n is the head: there is no such step.                     *)
PopHead(n, rq) ==
  /\ ~IsEmpty(rq)
  /\ peek_head(rq) = n
  /\ UnlinkHead(rq)
  /\ UNCHANGED <<ret, moved>>

PopNext ==
  /\ ret' = get_next
  /\ UNCHANGED moved
  /\ IF bitcache = {} THEN UNCHANGED <<bitcache, tail, next_idxs>>
                      ELSE UnlinkHead(HighestBit(bitcache))

(* position(): the first index of f that holds n.                          *)
IsPosition(f, n, i) == i \in DOMAIN f /\ f[i] = n /\ \A j \in DOMAIN f : f[j] = n => i <= j

Position(f, n) == CHOOSE i \in DOMAIN f : IsPosition(f, n, i)

IsTail(n) == \E rq \in Queues : tail[rq] = n

(* Mutant: del does not look at the tails.                                 *)
DelKeepsTail(n) ==
  /\ UNCHANGED <<ret, moved, bitcache, tail>>
  /\ next_idxs' = IF next_idxs[n] = Sentinel THEN next_idxs
                  ELSE [next_idxs EXCEPT ![Position(next_idxs, n)] = next_idxs[n],
                                         ![n] = Sentinel]

Del(n) ==
  /\ UNCHANGED <<ret, moved>>
  /\ IF next_idxs[n] = Sentinel THEN UNCHANGED <<bitcache, tail, next_idxs>>
     ELSE LET prev == Position(next_idxs, n)
              rq   == Position(tail, n)
          IN  /\ next_idxs' = [next_idxs EXCEPT ![prev] = next_idxs[n], ![n] = Sentinel]
              /\ IF ~IsTail(n) THEN UNCHANGED <<bitcache, tail>>
                 ELSE /\ tail' = [tail EXCEPT ![rq] = IF prev = n THEN Sentinel ELSE prev]
                      /\ ClearIfEmpty(rq)

(* Mutant: advance also reports a move in a list of one thread.            *)
AdvanceReportsAll(rq) ==
  /\ tail' = IF IsEmpty(rq) THEN tail ELSE [tail EXCEPT ![rq] = next_idxs[tail[rq]]]
  /\ moved' = ~IsEmpty(rq)
  /\ UNCHANGED <<bitcache, next_idxs, ret>>

Advance(rq) ==
  LET moves == tail[rq] < N_THREADS /\ next_idxs[tail[rq]] # tail[rq]
  IN  /\ tail' = IF moves THEN [tail EXCEPT ![rq] = next_idxs[tail[rq]]] ELSE tail
      /\ moved' = moves
      /\ UNCHANGED <<bitcache, next_idxs, ret>>
=============================================================================
