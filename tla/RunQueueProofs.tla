--------------------------- MODULE RunQueueProofs ---------------------------
(***************************************************************************)
(* For every number of threads and runqueues, the linked lists of          *)
(* runqueue.rs represent the FIFOs of RunQueueSpec, and the calls on them  *)
(* implement its steps.  The first part has facts about FIFOs, about the   *)
(* operators of RunQueueOps and about highest and lowest numbers that the  *)
(* proofs about the schedulers of one and of several cores use as well.    *)
(***************************************************************************)
EXTENDS RunQueueSim, SequenceTheorems, FiniteSetTheorems, WellFoundedInduction, TLAPS

(* What Append does to a FIFO, index by index.                             *)
LEMMA AppendFacts ==
  ASSUME NEW S, NEW s \in Seq(S), NEW e \in S
  PROVE  LET t == Append(s, e)
         IN  /\ t \in Seq(S)
             /\ Len(t) = Len(s) + 1
             /\ DOMAIN t = 1 .. Len(s) + 1
             /\ \A i \in 1 .. Len(s) : t[i] = s[i]
             /\ t[Len(s) + 1] = e
             /\ t # <<>>
  BY AppendProperties, LenProperties, EmptySeq

(* What Tail does to a non-empty FIFO, index by index.                     *)
LEMMA TailFacts ==
  ASSUME NEW S, NEW s \in Seq(S), s # <<>>
  PROVE  LET t == Tail(s)
         IN  /\ t \in Seq(S)
             /\ Len(s) \in Nat \ {0}
             /\ Len(t) = Len(s) - 1
             /\ DOMAIN t = 1 .. Len(s) - 1
             /\ \A i \in 1 .. Len(s) - 1 : t[i] = s[i + 1]
             /\ t = <<>> <=> Len(s) = 1
             /\ Head(s) = s[1]
  <1>1. Len(s) \in Nat \ {0}
    BY EmptySeq
  <1>2. /\ Tail(s) \in Seq(S)
        /\ Len(Tail(s)) = Len(s) - 1
        /\ \A i \in 1 .. Len(Tail(s)) : Tail(s)[i] = s[i + 1]
    BY HeadTailProperties
  <1>3. DOMAIN Tail(s) = 1 .. Len(s) - 1
    BY <1>2, LenProperties
  <1>4. Tail(s) = <<>> <=> Len(s) = 1
    BY <1>1, <1>2, EmptySeq
  <1>5. Head(s) = s[1]
    BY <1>1
  <1> QED
    BY <1>1, <1>2, <1>3, <1>4, <1>5

(* What advance does to a non-empty FIFO, index by index.                  *)
LEMMA RotateFacts ==
  ASSUME NEW S, NEW s \in Seq(S), s # <<>>
  PROVE  LET t == Append(Tail(s), Head(s))
         IN  /\ t \in Seq(S)
             /\ Len(s) \in Nat \ {0}
             /\ Len(t) = Len(s)
             /\ DOMAIN t = 1 .. Len(s)
             /\ \A i \in 1 .. Len(s) : t[i] = Succ(s, i)
             /\ t # <<>>
  <1>1. /\ Tail(s) \in Seq(S)
        /\ Len(s) \in Nat \ {0}
        /\ Len(Tail(s)) = Len(s) - 1
        /\ \A i \in 1 .. Len(s) - 1 : Tail(s)[i] = s[i + 1]
        /\ Head(s) = s[1]
    BY TailFacts
  <1>2. Head(s) \in S
    BY HeadTailProperties
  <1> DEFINE t == Append(Tail(s), Head(s))
  <1>3. /\ t \in Seq(S)
        /\ Len(t) = Len(s) - 1 + 1
        /\ DOMAIN t = 1 .. Len(s) - 1 + 1
        /\ \A i \in 1 .. Len(s) - 1 : t[i] = Tail(s)[i]
        /\ t[Len(s) - 1 + 1] = Head(s)
        /\ t # <<>>
    BY <1>1, <1>2, AppendFacts
  <1>4. Len(s) - 1 + 1 = Len(s)
    BY <1>1
  <1>5. ASSUME NEW i \in 1 .. Len(s)
        PROVE  t[i] = Succ(s, i)
    <2>1. CASE i = Len(s)
      BY <1>1, <1>3, <1>4, <2>1 DEF Succ
    <2>2. CASE i # Len(s)
      <3>1. i \in 1 .. Len(s) - 1
        <4>1. Len(s) \in Nat
          BY <1>1
        <4> QED
          BY <2>2, <4>1
      <3> HIDE DEF t
      <3> QED
        BY <1>1, <1>3, <2>2, <3>1 DEF Succ
    <2> QED
      BY <2>1, <2>2
  <1> HIDE DEF t
  <1> QED
    BY <1>1, <1>3, <1>4, <1>5 DEF t

(* What del does to the FIFO that holds the thread, index by index.        *)
LEMMA WithoutFacts ==
  ASSUME NEW S, NEW s \in Seq(S), NEW e, In(s, e)
  PROVE  LET k == IndexOf(s, e)
             t == Without(s, e)
         IN  /\ k \in 1 .. Len(s)
             /\ s[k] = e
             /\ Len(s) \in Nat \ {0}
             /\ t \in Seq(S)
             /\ Len(t) = Len(s) - 1
             /\ DOMAIN t = 1 .. Len(s) - 1
             /\ \A i \in 1 .. Len(s) - 1 : t[i] = IF i < k THEN s[i] ELSE s[i + 1]
             /\ t = <<>> <=> Len(s) = 1
  <1> DEFINE k == IndexOf(s, e)
             t == Without(s, e)
  <1>1. DOMAIN s = 1 .. Len(s) /\ Len(s) \in Nat /\ s \in [1 .. Len(s) -> S]
    BY LenProperties
  <1>2. k \in 1 .. Len(s) /\ s[k] = e
    BY <1>1 DEF In, IndexOf
  <1>3. Len(s) - 1 \in Nat
    BY <1>1, <1>2
  <1>4. t = [j \in 1 .. Len(s) - 1 |-> IF j < k THEN s[j] ELSE s[j + 1]]
    BY DEF Without
  <1>5. \A i \in 1 .. Len(s) - 1 : t[i] = IF i < k THEN s[i] ELSE s[i + 1]
    BY <1>4
  <1>6. t \in [1 .. Len(s) - 1 -> S]
    BY <1>1, <1>2, <1>4, <1>5
  <1>7. t \in Seq(S)
    BY <1>3, <1>6, SeqDef
  <1>8. DOMAIN t = 1 .. Len(s) - 1
    BY <1>4
  <1>9. Len(t) = Len(s) - 1
    BY <1>3, <1>7, <1>8, LenProperties
  <1>10. t = <<>> <=> Len(s) = 1
    BY <1>1, <1>2, <1>7, <1>9, EmptySeq
  <1> HIDE DEF t, k
  <1> QED
    BY <1>1, <1>2, <1>3, <1>5, <1>7, <1>8, <1>9, <1>10 DEF t, k

(* A non-empty set of natural numbers has a lowest one.                    *)
LEMMA LowestExists ==
  ASSUME NEW D \in SUBSET Nat, D # {}
  PROVE  \E d \in D : \A m \in D : d <= m
  <1>1. PICK d \in D : \A m \in D : ~(<<m, d>> \in OpToRel(<, Nat))
    BY NatLessThanWellFounded, WFMin, Zenon
  <1>2. \A m \in D : ~(m < d)
    BY <1>1 DEF OpToRel
  <1> QED
    BY <1>2

(* A non-empty set of runqueue numbers has a highest one.                  *)
LEMMA HighestExists ==
  ASSUME NEW B \in SUBSET Queues, B # {}
  PROVE  \E h \in B : \A b \in B : b <= h
  <1> DEFINE D == {N_QUEUES - b : b \in B}
  <1>1. D \in SUBSET Nat /\ D # {}
    <2>1. \A b \in B : b \in Queues
      OBVIOUS
    <2>2. \A b \in B : N_QUEUES - b \in Nat
      BY <2>1, SizeAssumption DEF Queues
    <2> QED
      BY <2>2
  <1>2. PICK d \in D : \A m \in D : d <= m
    <2> HIDE DEF D
    <2> QED
      BY <1>1, LowestExists
  <1>3. PICK h \in B : d = N_QUEUES - h
    BY <1>2
  <1>4. ASSUME NEW b \in B PROVE b <= h
    <2>1. N_QUEUES - b \in D
      OBVIOUS
    <2>2. N_QUEUES - h <= N_QUEUES - b
      BY <1>2, <1>3, <2>1
    <2>3. N_QUEUES \in Int /\ h \in Int /\ b \in Int
      BY SizeAssumption DEF Queues
    <2> QED
      BY <2>2, <2>3
  <1> QED
    BY <1>3, <1>4

(* Threads are never the sentinel.                                         *)
LEMMA SentinelNotThread == Sentinel \notin Threads
  BY SizeAssumption DEF Sentinel, Threads

-----------------------------------------------------------------------------
(* What the operators of the runqueue do to the members and the heads.     *)

QueuesType == [Queues -> Seq(Threads)]

(* Shape of one FIFO.                                                      *)
LEMMA FifoFacts ==
  ASSUME NEW q \in QueuesType, NEW p \in Queues
  PROVE  /\ q[p] \in Seq(Threads)
         /\ Len(q[p]) \in Nat
         /\ DOMAIN q[p] = 1 .. Len(q[p])
         /\ \A i \in 1 .. Len(q[p]) : q[p][i] \in Threads
         /\ q[p] = <<>> <=> Len(q[p]) = 0
         /\ \A t : In(q[p], t) => t \in Threads /\ q[p] # <<>>
         /\ q[p] # <<>> => /\ Head(q[p]) = q[p][1]
                           /\ 1 \in 1 .. Len(q[p])
                           /\ In(q[p], Head(q[p]))
                           /\ Head(q[p]) \in Threads
  <1>1. q[p] \in Seq(Threads)
    BY DEF QueuesType
  <1>2. Len(q[p]) \in Nat /\ DOMAIN q[p] = 1 .. Len(q[p])
    BY <1>1, LenProperties
  <1>3. \A i \in 1 .. Len(q[p]) : q[p][i] \in Threads
    BY <1>1, ElementOfSeq
  <1>4. q[p] = <<>> <=> Len(q[p]) = 0
    BY <1>1, EmptySeq
  <1>5. ASSUME NEW t, In(q[p], t) PROVE t \in Threads /\ q[p] # <<>>
    <2>1. PICK i \in 1 .. Len(q[p]) : q[p][i] = t
      BY <1>2, <1>5 DEF In
    <2> QED
      BY <1>2, <1>3, <1>4, <2>1
  <1>6. ASSUME q[p] # <<>>
        PROVE  /\ Head(q[p]) = q[p][1]
               /\ 1 \in 1 .. Len(q[p])
               /\ In(q[p], Head(q[p]))
               /\ Head(q[p]) \in Threads
    <2>1. Head(q[p]) = q[p][1]
      BY <1>1, <1>6, TailFacts
    <2>2. 1 \in 1 .. Len(q[p])
      BY <1>2, <1>4, <1>6
    <2> QED
      BY <1>2, <1>3, <2>1, <2>2 DEF In
  <1> QED
    BY <1>1, <1>2, <1>3, <1>4, <1>5, <1>6

(* add of a thread that is not queued: it is a member of its priority's    *)
(* FIFO, and no head changes.                                              *)
LEMMA AddFacts ==
  ASSUME NEW q \in QueuesType, QueuedOnce(q), NEW t \in Threads, NEW p \in Queues,
         \A r \in Queues : ~In(q[r], t)
  PROVE  LET n == QAdd(q, t, p)
         IN  /\ n \in QueuesType
             /\ QueuedOnce(n)
             /\ \A r \in Queues, u \in Threads :
                  In(n[r], u) <=> In(q[r], u) \/ (r = p /\ u = t)
             /\ n[p] # <<>>
             /\ \A r \in Queues : r # p => n[r] = q[r]
             /\ Head(n[p]) = IF q[p] = <<>> THEN t ELSE Head(q[p])
  <1> DEFINE n == QAdd(q, t, p)
             L == Len(q[p])
  <1>1. n = [q EXCEPT ![p] = Append(q[p], t)]
    BY DEF QAdd
  <1>2. /\ n \in QueuesType
        /\ n[p] = Append(q[p], t)
        /\ \A r \in Queues : r # p => n[r] = q[r]
    <2>1. Append(q[p], t) \in Seq(Threads)
      BY FifoFacts, AppendFacts
    <2> QED
      BY <1>1, <2>1 DEF QueuesType
  <1>3. /\ L \in Nat
        /\ DOMAIN n[p] = 1 .. L + 1
        /\ \A i \in 1 .. L : n[p][i] = q[p][i]
        /\ n[p][L + 1] = t
        /\ n[p] # <<>>
    BY <1>2, FifoFacts, AppendFacts
  <1>4. \A r \in Queues : DOMAIN q[r] = 1 .. Len(q[r])
    BY FifoFacts
  <1>5. \A r \in Queues : \A i \in DOMAIN q[r] : q[r][i] # t
    BY DEF In
  <1> HIDE DEF n
  <1>6. \A r \in Queues : \A i \in DOMAIN n[r] :
          \/ i \in DOMAIN q[r] /\ n[r][i] = q[r][i]
          \/ r = p /\ i = L + 1 /\ n[r][i] = t
    BY <1>2, <1>3, <1>4
  <1>7. QueuedOnce(n)
    BY <1>5, <1>6 DEF QueuedOnce
  <1>8. ASSUME NEW r \in Queues, NEW u \in Threads
        PROVE  In(n[r], u) <=> In(q[r], u) \/ (r = p /\ u = t)
    <2>1. CASE r # p
      BY <1>2, <2>1
    <2>2. CASE r = p
      <3>1. In(q[p], u) => In(n[p], u)
        BY <1>3, <1>4 DEF In
      <3>2. In(n[p], t)
        BY <1>3 DEF In
      <3>3. In(n[p], u) => In(q[p], u) \/ u = t
        BY <1>6 DEF In
      <3> QED
        BY <2>2, <3>1, <3>2, <3>3
    <2> QED
      BY <2>1, <2>2
  <1>9. Head(n[p]) = IF q[p] = <<>> THEN t ELSE Head(q[p])
    <2>1. Head(n[p]) = n[p][1]
      BY <1>2, <1>3, FifoFacts
    <2>2. CASE q[p] = <<>>
      BY <1>3, <2>1, <2>2, FifoFacts
    <2>3. CASE q[p] # <<>>
      BY <1>3, <2>1, <2>3, FifoFacts
    <2> QED
      BY <2>2, <2>3
  <1> QED
    BY <1>2, <1>3, <1>7, <1>8, <1>9 DEF n

(* What pop_head and del have in common.                                   *)
Removed(q, n, t, p) ==
  /\ n \in QueuesType
  /\ QueuedOnce(n)
  /\ \A r \in Queues, u \in Threads : In(n[r], u) <=> In(q[r], u) /\ u # t
  /\ \A r \in Queues : r # p => n[r] = q[r]

(* pop_head of a thread that is the head removes that thread.              *)
LEMMA PopFacts ==
  ASSUME NEW q \in QueuesType, QueuedOnce(q), NEW p \in Queues, q[p] # <<>>
  PROVE  Removed(q, QPopHead(q, p), Head(q[p]), p)
  <1> DEFINE n == QPopHead(q, p)
             t == Head(q[p])
             L == Len(q[p])
  <1>1. /\ Tail(q[p]) \in Seq(Threads)
        /\ L \in Nat \ {0}
        /\ DOMAIN Tail(q[p]) = 1 .. L - 1
        /\ \A i \in 1 .. L - 1 : Tail(q[p])[i] = q[p][i + 1]
        /\ t = q[p][1]
    BY FifoFacts, TailFacts
  <1>2. /\ n \in QueuesType
        /\ n[p] = Tail(q[p])
        /\ \A r \in Queues : r # p => n[r] = q[r]
    BY <1>1 DEF QPopHead, QueuesType
  <1>3. \A r \in Queues : DOMAIN q[r] = 1 .. Len(q[r])
    BY FifoFacts
  <1> HIDE DEF n, t, L
  <1>4. \A r \in Queues : \A i \in DOMAIN q[r] : q[r][i] = t => r = p /\ i = 1
    <2>1. 1 \in DOMAIN q[p]
      BY <1>1, <1>3 DEF L
    <2> QED
      BY <1>1, <2>1 DEF QueuedOnce
  <1>5. \A i \in 1 .. L - 1 : i + 1 \in DOMAIN q[p] /\ n[p][i] = q[p][i + 1] /\ i \in Nat
    BY <1>1, <1>2, <1>3 DEF L
  <1>6. DOMAIN n[p] = 1 .. L - 1 /\ \A r \in Queues : r # p => n[r] = q[r]
    BY <1>1, <1>2
  <1>7. QueuedOnce(n)
    <2> SUFFICES ASSUME NEW r1 \in Queues, NEW r2 \in Queues,
                        NEW i \in DOMAIN n[r1], NEW j \in DOMAIN n[r2],
                        n[r1][i] = n[r2][j]
                 PROVE  r1 = r2 /\ i = j
      BY DEF QueuedOnce
    <2>1. \A r \in Queues : \A l \in DOMAIN n[r] :
            LET m == IF r = p THEN l + 1 ELSE l
            IN  m \in DOMAIN q[r] /\ q[r][m] = n[r][l] /\ (r = p => l \in Nat)
      BY <1>5, <1>6
    <2>2. PICK m1 \in DOMAIN q[r1] : /\ q[r1][m1] = n[r1][i]
                                     /\ m1 = IF r1 = p THEN i + 1 ELSE i
                                     /\ r1 = p => i \in Nat
      BY <2>1
    <2>3. PICK m2 \in DOMAIN q[r2] : /\ q[r2][m2] = n[r2][j]
                                     /\ m2 = IF r2 = p THEN j + 1 ELSE j
                                     /\ r2 = p => j \in Nat
      BY <2>1
    <2>4. r1 = r2 /\ m1 = m2
      BY <2>2, <2>3 DEF QueuedOnce
    <2>5. CASE r1 = p
      BY <2>2, <2>3, <2>4, <2>5
    <2>6. CASE r1 # p
      BY <2>2, <2>3, <2>4, <2>6
    <2> QED
      BY <2>4, <2>5, <2>6
  <1>8. ASSUME NEW r \in Queues, NEW u \in Threads
        PROVE  In(n[r], u) <=> In(q[r], u) /\ u # t
    <2>1. CASE r # p
      BY <1>2, <1>4, <2>1 DEF In
    <2>2. CASE r = p
      <3>1. ASSUME In(n[p], u) PROVE In(q[p], u) /\ u # t
        <4>1. PICK i \in 1 .. L - 1 : n[p][i] = u
          BY <1>1, <1>2, <3>1 DEF In
        <4>2. i + 1 \in DOMAIN q[p] /\ q[p][i + 1] = u /\ i + 1 # 1
          BY <1>5, <4>1
        <4> QED
          BY <1>4, <4>2 DEF In
      <3>2. ASSUME In(q[p], u), u # t PROVE In(n[p], u)
        <4>1. PICK i \in 1 .. L : q[p][i] = u
          BY <1>3, <3>2 DEF In, L
        <4>2. i - 1 \in 1 .. L - 1 /\ (i - 1) + 1 = i
          BY <1>1, <3>2, <4>1
        <4>3. n[p][i - 1] = u /\ i - 1 \in DOMAIN n[p]
          BY <1>1, <1>2, <1>5, <4>1, <4>2
        <4> QED
          BY <4>3 DEF In
      <3> QED
        BY <2>2, <3>1, <3>2
    <2> QED
      BY <2>1, <2>2
  <1> QED
    BY <1>2, <1>7, <1>8 DEF n, t, Removed

(* del of a thread that is queued removes that thread and keeps the head   *)
(* when it is another one.                                                 *)
LEMMA DelFacts ==
  ASSUME NEW q \in QueuesType, QueuedOnce(q), NEW p \in Queues, NEW t \in Threads,
         In(q[p], t)
  PROVE  /\ Removed(q, QDel(q, t), t, p)
         /\ Head(q[p]) # t => QDel(q, t)[p] # <<>> /\ Head(QDel(q, t)[p]) = Head(q[p])
  <1> DEFINE n == QDel(q, t)
             s == q[p]
             w == Without(q[p], t)
             L == Len(q[p])
             x == IndexOf(q[p], t)
  <1>1. /\ x \in 1 .. L
        /\ s[x] = t
        /\ L \in Nat \ {0}
        /\ w \in Seq(Threads)
        /\ Len(w) = L - 1
        /\ DOMAIN w = 1 .. L - 1
        /\ \A i \in 1 .. L - 1 : w[i] = IF i < x THEN s[i] ELSE s[i + 1]
        /\ w = <<>> <=> L = 1
    BY FifoFacts, WithoutFacts
  <1>2. \A r \in Queues : DOMAIN q[r] = 1 .. Len(q[r])
    BY FifoFacts
  <1> HIDE DEF n, w, L, x, s
  <1>3. \A r \in Queues : r # p => ~In(q[r], t)
    BY DEF QueuedOnce, In
  <1>4. /\ n \in QueuesType
        /\ n[p] = w
        /\ \A r \in Queues : r # p => n[r] = q[r]
    BY <1>1, <1>3 DEF n, w, QDel, QueuesType
  <1>5. \A i \in 1 .. L - 1 :
          /\ i \in Nat
          /\ i < x => w[i] = s[i] /\ i \in DOMAIN s
          /\ ~(i < x) => w[i] = s[i + 1] /\ i + 1 \in DOMAIN s /\ i + 1 > x
    <2>1. DOMAIN s = 1 .. L
      BY <1>2 DEF s, L
    <2> QED
      BY <1>1, <2>1
  <1>6. \A i, j \in DOMAIN s : s[i] = s[j] => i = j
    BY DEF QueuedOnce, s
  <1>7. x \in DOMAIN s /\ x \in Nat
    BY <1>1, <1>2 DEF s, L
  <1>8. QueuedOnce(n)
    <2> SUFFICES ASSUME NEW r1 \in Queues, NEW r2 \in Queues,
                        NEW i \in DOMAIN n[r1], NEW j \in DOMAIN n[r2],
                        n[r1][i] = n[r2][j]
                 PROVE  r1 = r2 /\ i = j
      BY DEF QueuedOnce
    <2>1. CASE r1 # p /\ r2 # p
      BY <1>4, <2>1 DEF QueuedOnce
    <2>2. CASE r1 = p /\ r2 # p
      BY <1>1, <1>4, <1>5, <2>2 DEF QueuedOnce, s
    <2>3. CASE r1 # p /\ r2 = p
      BY <1>1, <1>4, <1>5, <2>3 DEF QueuedOnce, s
    <2>4. CASE r1 = p /\ r2 = p
      <3>1. i \in 1 .. L - 1 /\ j \in 1 .. L - 1 /\ w[i] = w[j]
        BY <1>1, <1>4, <2>4
      <3>2. CASE i < x /\ j < x
        BY <1>5, <1>6, <2>4, <3>1, <3>2
      <3>3. CASE i < x /\ ~(j < x)
        BY <1>5, <1>6, <1>7, <3>1, <3>3
      <3>4. CASE ~(i < x) /\ j < x
        BY <1>5, <1>6, <1>7, <3>1, <3>4
      <3>5. CASE ~(i < x) /\ ~(j < x)
        <4>1. i + 1 = j + 1 /\ i \in Nat /\ j \in Nat
          BY <1>5, <1>6, <3>1, <3>5
        <4> QED
          BY <2>4, <4>1
      <3> QED
        BY <3>2, <3>3, <3>4, <3>5
    <2> QED
      BY <2>1, <2>2, <2>3, <2>4
  <1>9. ASSUME NEW r \in Queues, NEW u \in Threads
        PROVE  In(n[r], u) <=> In(q[r], u) /\ u # t
    <2>1. CASE r # p
      BY <1>3, <1>4, <2>1
    <2>2. CASE r = p
      <3>1. ASSUME In(w, u) PROVE In(s, u) /\ u # t
        <4>1. PICK i \in 1 .. L - 1 : w[i] = u
          BY <1>1, <3>1 DEF In
        <4>2. PICK j \in DOMAIN s : s[j] = u /\ j # x
          BY <1>5, <1>7, <4>1
        <4> QED
          BY <1>1, <1>6, <1>7, <4>2 DEF In
      <3>2. ASSUME In(s, u), u # t PROVE In(w, u)
        <4>1. PICK i \in 1 .. L : s[i] = u
          BY <1>2, <3>2 DEF In, L, s
        <4>2. i # x /\ i \in Nat
          BY <1>1, <3>2, <4>1
        <4>3. CASE i < x
          <5>1. i \in 1 .. L - 1
            BY <1>1, <4>1, <4>3
          <5> QED
            BY <1>1, <1>5, <4>1, <4>3, <5>1 DEF In
        <4>4. CASE i > x
          <5>1. i - 1 \in 1 .. L - 1 /\ (i - 1) + 1 = i /\ ~(i - 1 < x)
            BY <1>1, <1>7, <4>1, <4>4
          <5> QED
            BY <1>1, <1>5, <4>1, <5>1 DEF In
        <4> QED
          BY <1>7, <4>2, <4>3, <4>4
      <3> QED
        BY <1>4, <2>2, <3>1, <3>2 DEF s
    <2> QED
      BY <2>1, <2>2
  <1>10. Head(q[p]) # t => n[p] # <<>> /\ Head(n[p]) = Head(q[p])
    <2> SUFFICES ASSUME Head(q[p]) # t
                 PROVE  n[p] # <<>> /\ Head(n[p]) = Head(q[p])
      OBVIOUS
    <2>1. Head(q[p]) = s[1]
      BY FifoFacts DEF s
    <2>2. 1 < x /\ 1 \in 1 .. L - 1
      BY <1>1, <1>7, <2>1
    <2>3. n[p] # <<>>
      BY <1>1, <1>4, <2>2
    <2>4. Head(n[p]) = n[p][1]
      BY <1>4, <2>3, FifoFacts
    <2> QED
      BY <1>4, <1>5, <2>1, <2>2, <2>3, <2>4
  <1> QED
    BY <1>4, <1>8, <1>9, <1>10 DEF n, Removed

(* advance keeps the members, and a FIFO of one thread as it is.           *)
LEMMA AdvanceFacts ==
  ASSUME NEW q \in QueuesType, QueuedOnce(q), NEW p \in Queues, q[p] # <<>>
  PROVE  LET n == QAdvance(q, p)
         IN  /\ n \in QueuesType
             /\ QueuedOnce(n)
             /\ \A r \in Queues, u \in Threads : In(n[r], u) <=> In(q[r], u)
             /\ \A r \in Queues : r # p => n[r] = q[r]
             /\ n[p] # <<>>
             /\ ~(Len(q[p]) > 1) => Head(n[p]) = Head(q[p])
  <1> DEFINE n == QAdvance(q, p)
             s == q[p]
             L == Len(q[p])
             next(r, i) == IF r # p THEN i ELSE IF i = L THEN 1 ELSE i + 1
  <1>1. /\ Append(Tail(s), Head(s)) \in Seq(Threads)
        /\ L \in Nat \ {0}
        /\ DOMAIN Append(Tail(s), Head(s)) = 1 .. L
        /\ \A i \in 1 .. L : Append(Tail(s), Head(s))[i] = Succ(s, i)
        /\ Append(Tail(s), Head(s)) # <<>>
    BY FifoFacts, RotateFacts
  <1>2. /\ n \in QueuesType
        /\ n[p] = Append(Tail(s), Head(s))
        /\ \A r \in Queues : r # p => n[r] = q[r]
    BY <1>1 DEF QAdvance, QueuesType
  <1>3. \A r \in Queues : DOMAIN q[r] = 1 .. Len(q[r])
    BY FifoFacts
  <1> HIDE DEF n, s, L
  <1>4. /\ DOMAIN n[p] = 1 .. L
        /\ DOMAIN q[p] = 1 .. L
        /\ L \in Nat \ {0}
        /\ n[p] # <<>>
        /\ \A i \in 1 .. L : n[p][i] = IF i = L THEN q[p][1] ELSE q[p][i + 1]
    BY <1>1, <1>2, <1>3 DEF Succ, s, L
  <1>5. \A r \in Queues : \A i \in DOMAIN n[r] :
          /\ next(r, i) \in DOMAIN q[r]
          /\ q[r][next(r, i)] = n[r][i]
          /\ r = p => i \in 1 .. L
    <2> SUFFICES ASSUME NEW r \in Queues, NEW i \in DOMAIN n[r]
                 PROVE  /\ next(r, i) \in DOMAIN q[r]
                        /\ q[r][next(r, i)] = n[r][i]
                        /\ r = p => i \in 1 .. L
      OBVIOUS
    <2>1. CASE r # p
      BY <1>2, <2>1
    <2>2. CASE r = p /\ i = L
      BY <1>4, <2>2
    <2>3. CASE r = p /\ i # L
      <3>1. i \in 1 .. L /\ i + 1 \in 1 .. L
        BY <1>4, <2>3
      <3> QED
        BY <1>4, <2>3, <3>1
    <2> QED
      BY <2>1, <2>2, <2>3
  <1>6. QueuedOnce(n)
    <2> SUFFICES ASSUME NEW r1 \in Queues, NEW r2 \in Queues,
                        NEW i \in DOMAIN n[r1], NEW j \in DOMAIN n[r2],
                        n[r1][i] = n[r2][j]
                 PROVE  r1 = r2 /\ i = j
      BY DEF QueuedOnce
    <2>1. PICK m1 \in DOMAIN q[r1] : q[r1][m1] = n[r1][i] /\ m1 = next(r1, i)
      BY <1>5
    <2>2. PICK m2 \in DOMAIN q[r2] : q[r2][m2] = n[r2][j] /\ m2 = next(r2, j)
      BY <1>5
    <2>3. r1 = r2 /\ m1 = m2
      BY <2>1, <2>2 DEF QueuedOnce
    <2>4. CASE r1 = p
      <3>1. i \in 1 .. L /\ j \in 1 .. L
        BY <1>5, <2>3, <2>4
      <3> QED
        BY <1>4, <2>1, <2>2, <2>3, <2>4, <3>1
    <2>5. CASE r1 # p
      BY <2>1, <2>2, <2>3, <2>5
    <2> QED
      BY <2>3, <2>4, <2>5
  <1>7. ASSUME NEW r \in Queues, NEW u \in Threads
        PROVE  In(n[r], u) <=> In(q[r], u)
    <2>1. CASE r # p
      BY <1>2, <2>1
    <2>2. CASE r = p
      <3>1. In(n[p], u) => In(q[p], u)
        BY <1>5 DEF In
      <3>2. ASSUME In(q[p], u) PROVE In(n[p], u)
        <4>1. PICK i \in 1 .. L : q[p][i] = u
          BY <1>4, <3>2 DEF In
        <4>2. CASE i = 1
          BY <1>4, <4>1, <4>2 DEF In
        <4>3. CASE i # 1
          <5>1. i - 1 \in 1 .. L /\ i - 1 # L /\ (i - 1) + 1 = i
            BY <1>4, <4>1, <4>3
          <5> QED
            BY <1>4, <4>1, <5>1 DEF In
        <4> QED
          BY <4>2, <4>3
      <3> QED
        BY <2>2, <3>1, <3>2
    <2> QED
      BY <2>1, <2>2
  <1>8. ASSUME ~(L > 1) PROVE Head(n[p]) = Head(q[p])
    <2>1. L = 1
      BY <1>4, <1>8
    <2>2. Head(n[p]) = n[p][1] /\ Head(q[p]) = q[p][1]
      BY <1>2, <1>4, FifoFacts
    <2> QED
      BY <1>4, <2>1, <2>2
  <1> QED
    BY <1>2, <1>4, <1>6, <1>7, <1>8 DEF n, L

-----------------------------------------------------------------------------

ListInv == RunQueueTypeOK /\ Represents

-----------------------------------------------------------------------------
(* ffs of the bitcache finds the highest runqueue number in it.            *)
LEMMA HighestBitFacts ==
  ASSUME NEW B \in SUBSET Queues, B # {}
  PROVE  HighestBit(B) \in B /\ \A b \in B : b <= HighestBit(B)
  BY HighestExists DEF HighestBit

-----------------------------------------------------------------------------
(* The representation, read index by index.                                *)

(* Shape of every FIFO and of the list that represents it.                 *)
LEMMA QueueFacts ==
  ASSUME ListInv, NEW rq \in Queues
  PROVE  /\ queues[rq] \in Seq(Threads)
         /\ Len(queues[rq]) \in Nat
         /\ DOMAIN queues[rq] = 1 .. Len(queues[rq])
         /\ \A i \in 1 .. Len(queues[rq]) :
              /\ queues[rq][i] \in Threads
              /\ next_idxs[queues[rq][i]] = Succ(queues[rq], i)
              /\ Succ(queues[rq], i) \in Threads
         /\ queues[rq] # <<>> => /\ Len(queues[rq]) # 0
                                 /\ tail[rq] = queues[rq][Len(queues[rq])]
                                 /\ tail[rq] \in Threads
                                 /\ peek_head(rq) = queues[rq][1]
         /\ queues[rq] = <<>> => tail[rq] = Sentinel
  <1>1. queues[rq] \in Seq(Threads)
    BY DEF ListInv, Represents, QueuesOK
  <1>2. Len(queues[rq]) \in Nat /\ DOMAIN queues[rq] = 1 .. Len(queues[rq])
    BY <1>1, LenProperties
  <1>3. ASSUME NEW i \in 1 .. Len(queues[rq])
        PROVE  /\ queues[rq][i] \in Threads
               /\ next_idxs[queues[rq][i]] = Succ(queues[rq], i)
    BY <1>1, <1>2, ElementOfSeq DEF ListInv, Represents, LinksOK
  <1>4. ASSUME NEW i \in 1 .. Len(queues[rq])
        PROVE  Succ(queues[rq], i) \in Threads
    <2>1. CASE i = Len(queues[rq])
      BY <1>2, <1>3, <2>1 DEF Succ
    <2>2. CASE i # Len(queues[rq])
      <3>1. i + 1 \in 1 .. Len(queues[rq])
        BY <1>2, <2>2
      <3> QED
        BY <1>3, <2>2, <3>1 DEF Succ
    <2> QED
      BY <2>1, <2>2
  <1>5. ASSUME queues[rq] # <<>>
        PROVE  /\ Len(queues[rq]) # 0
               /\ tail[rq] = queues[rq][Len(queues[rq])]
               /\ tail[rq] \in Threads
               /\ peek_head(rq) = queues[rq][1]
    <2>1. Len(queues[rq]) \in 1 .. Len(queues[rq])
      BY <1>1, <1>2, <1>5, EmptySeq
    <2>2. tail[rq] = queues[rq][Len(queues[rq])]
      BY <1>5 DEF ListInv, Represents, TailsOK
    <2>3. next_idxs[tail[rq]] = queues[rq][1]
      BY <1>3, <2>1, <2>2 DEF Succ
    <2> QED
      BY <1>2, <1>3, <2>1, <2>2, <2>3, SentinelNotThread DEF peek_head, IsEmpty
  <1>6. queues[rq] = <<>> => tail[rq] = Sentinel
    BY DEF ListInv, Represents, TailsOK
  <1> QED
    BY <1>1, <1>2, <1>3, <1>4, <1>5, <1>6

(* A next index is set exactly for the threads that are in some FIFO.      *)
LEMMA LinkedIffQueued ==
  ASSUME ListInv, NEW n \in Threads
  PROVE  next_idxs[n] # Sentinel <=> \E rq \in Queues : In(queues[rq], n)
  <1>1. ASSUME NEW rq \in Queues, In(queues[rq], n)
        PROVE  next_idxs[n] # Sentinel
    <2>1. PICK i \in 1 .. Len(queues[rq]) : queues[rq][i] = n
      BY <1>1, QueueFacts DEF In
    <2> QED
      BY <2>1, QueueFacts, SentinelNotThread
  <1> QED
    BY <1>1 DEF ListInv, Represents, UnlinkedOK

(* The highest bit of the bitcache is the highest non-empty FIFO.          *)
LEMMA TopFacts ==
  ASSUME ListInv, bitcache # {}
  PROVE  /\ HighestBit(bitcache) \in Queues
         /\ HighestBit(bitcache) = Top(queues)
         /\ queues[HighestBit(bitcache)] # <<>>
         /\ Used(queues) # {}
  <1> DEFINE h == HighestBit(bitcache)
  <1>1. bitcache = Used(queues) /\ bitcache \in SUBSET Queues
    BY DEF ListInv, RunQueueTypeOK, Represents, BitcacheOK
  <1>2. h \in bitcache /\ \A b \in bitcache : b <= h
    BY <1>1, HighestBitFacts
  <1>3. IsTop(queues, h) /\ h \in Queues
    BY <1>1, <1>2 DEF IsTop
  <1>4. \A r \in Queues : IsTop(queues, r) => r = h
    <2> SUFFICES ASSUME NEW r \in Queues, IsTop(queues, r)
                 PROVE  r = h
      OBVIOUS
    <2>1. r <= h /\ h <= r
      BY <1>1, <1>2, <1>3 DEF IsTop
    <2> QED
      BY <1>3, <2>1, SizeAssumption DEF Queues
  <1>5. Top(queues) = h
    BY <1>3, <1>4 DEF Top
  <1> QED
    BY <1>1, <1>2, <1>3, <1>5 DEF Used

(* get_next answers what the FIFOs prescribe.                              *)
LEMMA GetNextFacts ==
  ASSUME ListInv
  PROVE  get_next = QNext(queues)
  <1>1. CASE bitcache = {}
    BY <1>1 DEF ListInv, Represents, BitcacheOK, get_next, QNext
  <1>2. CASE bitcache # {}
    <2> DEFINE h == HighestBit(bitcache)
    <2>1. h \in Queues /\ h = Top(queues) /\ queues[h] # <<>> /\ Used(queues) # {}
      BY <1>2, TopFacts
    <2>2. get_next = peek_head(h)
      BY <1>2 DEF get_next
    <2>3. peek_head(h) = queues[h][1] /\ queues[h] \in Seq(Threads)
      BY <2>1, QueueFacts
    <2>4. Head(queues[h]) = queues[h][1]
      BY <2>1, <2>3, TailFacts
    <2> HIDE DEF h
    <2> QED
      BY <2>1, <2>2, <2>3, <2>4 DEF QNext
  <1> QED
    BY <1>1, <1>2

-----------------------------------------------------------------------------
(* Every call preserves the representation.                                *)

(* RunQueue::add, the early return of CList::push included.                *)
LEMMA AddStep ==
  ASSUME ListInv, NEW n \in Threads, NEW rq \in Queues, SimAdd(n, rq)
  PROVE  ListInv'
  <1> DEFINE s == queues[rq]
             t == Append(s, n)
             L == Len(s)
  <1>0. UNCHANGED <<ret, moved>> /\ bitcache' = bitcache \cup {rq}
    BY DEF SimAdd, Add
  <1>1. CASE next_idxs[n] # Sentinel
    <2>1. PICK r \in Queues : In(queues[r], n)
      BY <1>1, LinkedIffQueued
    <2>2. r = rq
      BY <2>1 DEF SimAdd, Abstract!MayAdd, Abstract!In, In, Abstract!Queues, Queues
    <2>3. queues' = queues
      BY <2>1 DEF SimAdd, QAdd
    <2>4. queues[rq] # <<>>
      BY <2>1, <2>2, QueueFacts DEF In
    <2>5. bitcache' = bitcache
      BY <1>0, <2>4 DEF ListInv, Represents, BitcacheOK, Used
    <2>6. UNCHANGED <<tail, next_idxs>>
      BY <1>1 DEF SimAdd, Add
    <2> QED
      BY <1>0, <2>3, <2>5, <2>6
      DEF ListInv, RunQueueTypeOK, Represents, QueuesOK, QueuedOnce, TailsOK, LinksOK, UnlinkedOK,
          BitcacheOK, peek_head
  <1>2. CASE next_idxs[n] = Sentinel
    <2>1. \A r \in Queues : ~In(queues[r], n)
      BY <1>2, LinkedIffQueued
    <2>2. \A r \in Queues : \A i \in 1 .. Len(queues[r]) : queues[r][i] # n
      BY <2>1, QueueFacts DEF In
    <2>3. queues' = [queues EXCEPT ![rq] = t]
      BY <2>1 DEF SimAdd, QAdd
    <2>4. /\ t \in Seq(Threads)
          /\ Len(t) = L + 1
          /\ DOMAIN t = 1 .. L + 1
          /\ \A i \in 1 .. L : t[i] = s[i]
          /\ t[L + 1] = n
          /\ t # <<>>
      BY QueueFacts, AppendFacts
    <2>5. /\ s \in Seq(Threads) /\ L \in Nat /\ DOMAIN s = 1 .. L
          /\ \A i \in 1 .. L : s[i] \in Threads /\ next_idxs[s[i]] = Succ(s, i)
          /\ s # <<>> => L # 0 /\ tail[rq] = s[L] /\ tail[rq] \in Threads /\ peek_head(rq) = s[1]
          /\ s = <<>> => tail[rq] = Sentinel /\ L = 0
      BY QueueFacts, EmptySeq
    <2>6. /\ queues'[rq] = t
          /\ \A r \in Queues : r # rq => queues'[r] = queues[r]
          /\ queues \in [Queues -> Seq(Threads)]
          /\ queues' \in [Queues -> Seq(Threads)]
      BY <2>3, <2>4 DEF ListInv, Represents, QueuesOK
    <2>7. tail' = [tail EXCEPT ![rq] = n]
      BY <1>2 DEF SimAdd, Add
    <2>8. next_idxs' = IF s = <<>> THEN [next_idxs EXCEPT ![n] = n]
                       ELSE [next_idxs EXCEPT ![n] = s[1], ![s[L]] = n]
      BY <1>2, <2>5, SentinelNotThread DEF SimAdd, Add, IsEmpty
    <2>9. /\ tail \in [Queues -> Threads \cup {Sentinel}]
          /\ next_idxs \in [Threads -> Threads \cup {Sentinel}]
          /\ bitcache \in SUBSET Queues
          /\ ret \in Threads \cup {Sentinel}
          /\ moved \in BOOLEAN
      BY DEF ListInv, RunQueueTypeOK
    <2>10. s # <<>> => s[1] \in Threads /\ s[L] \in Threads /\ s[L] # n /\ L \in 1 .. L
      BY <2>2, <2>5
    <2> HIDE DEF s, t, L
    <2>11. RunQueueTypeOK'
      BY <1>0, <2>7, <2>8, <2>9, <2>10 DEF RunQueueTypeOK
    <2>12. QueuesOK'
      BY <2>6 DEF QueuesOK
    <2>13. QueuedOnce(queues)'
      <3> SUFFICES ASSUME NEW r1 \in Queues, NEW r2 \in Queues,
                          NEW i \in DOMAIN queues'[r1], NEW j \in DOMAIN queues'[r2],
                          queues'[r1][i] = queues'[r2][j]
                   PROVE  r1 = r2 /\ i = j
        BY DEF QueuedOnce
      <3>1. \A r \in Queues : \A k \in DOMAIN queues'[r] :
              \/ k \in DOMAIN queues[r] /\ queues'[r][k] = queues[r][k] /\ queues'[r][k] # n
              \/ r = rq /\ k = L + 1 /\ queues'[r][k] = n
        <4> SUFFICES ASSUME NEW r \in Queues, NEW k \in DOMAIN queues'[r]
                     PROVE \/ k \in DOMAIN queues[r] /\ queues'[r][k] = queues[r][k] /\ queues'[r][k] # n
                           \/ r = rq /\ k = L + 1 /\ queues'[r][k] = n
          OBVIOUS
        <4>1. CASE r # rq
          BY <2>2, <2>6, <4>1, QueueFacts
        <4>2. CASE r = rq /\ k = L + 1
          BY <2>4, <2>6, <4>2
        <4>3. CASE r = rq /\ k # L + 1
          <5>1. k \in 1 .. L
            BY <2>4, <2>5, <2>6, <4>3
          <5> QED
            BY <2>2, <2>4, <2>5, <2>6, <4>3, <5>1 DEF s, L
        <4> QED
          BY <4>1, <4>2, <4>3
      <3> QED
        BY <3>1 DEF ListInv, Represents, QueuedOnce
    <2>14. TailsOK'
      BY <2>4, <2>6, <2>7, <2>9 DEF TailsOK, ListInv, Represents
    <2>15. LinksOK'
      <3> SUFFICES ASSUME NEW r \in Queues, NEW i \in DOMAIN queues'[r]
                   PROVE  next_idxs'[queues'[r][i]] = Succ(queues'[r], i)
        BY DEF LinksOK
      <3>1. CASE r # rq
        <4>1. i \in 1 .. Len(queues[r]) /\ queues'[r] = queues[r]
          BY <2>6, <3>1, QueueFacts
        <4>2. queues[r][i] # n /\ queues[r][i] \in Threads
          BY <2>2, <4>1, QueueFacts
        <4>3. s # <<>> => queues[r][i] # s[L]
          BY <2>5, <2>10, <3>1, <4>1, QueueFacts DEF ListInv, Represents, QueuedOnce, s, L
        <4>4. next_idxs'[queues[r][i]] = next_idxs[queues[r][i]]
          BY <2>8, <2>9, <2>10, <4>2, <4>3
        <4> QED
          BY <4>1, <4>4, QueueFacts
      <3>2. CASE r = rq /\ i = L + 1
        <4>1. s = <<>> => t[1] = n
          BY <2>4, <2>5
        <4>2. s # <<>> => t[1] = s[1]
          BY <2>4, <2>5
        <4>3. next_idxs'[n] = t[1]
          BY <2>8, <2>9, <2>10, <4>1, <4>2
        <4> QED
          BY <2>4, <2>6, <3>2, <4>3 DEF Succ
      <3>3. CASE r = rq /\ i # L + 1
        <4>1. i \in 1 .. L /\ s # <<>> /\ L \in 1 .. L
          BY <2>4, <2>5, <2>6, <3>3
        <4>2. t[i] = s[i] /\ s[i] \in Threads /\ s[i] # n
          BY <2>2, <2>4, <2>5, <4>1 DEF s, L
        <4>3. CASE i = L
          BY <2>4, <2>5, <2>6, <2>8, <2>9, <2>10, <3>3, <4>1, <4>2, <4>3 DEF Succ
        <4>4. CASE i # L
          <5>1. s[i] # s[L]
            BY <2>5, <4>1, <4>4 DEF ListInv, Represents, QueuedOnce, s, L
          <5>2. next_idxs'[s[i]] = s[i + 1]
            BY <2>5, <2>8, <2>9, <2>10, <4>1, <4>2, <4>4, <5>1 DEF Succ
          <5>3. i + 1 \in 1 .. L
            BY <2>5, <4>1, <4>4
          <5> QED
            BY <2>4, <2>5, <2>6, <3>3, <4>1, <4>2, <5>2, <5>3 DEF Succ
        <4> QED
          BY <4>3, <4>4
      <3> QED
        BY <3>1, <3>2, <3>3
    <2>16. UnlinkedOK'
      <3> SUFFICES ASSUME NEW m \in Threads, next_idxs'[m] # Sentinel
                   PROVE  \E r \in Queues : In(queues'[r], m)
        BY DEF UnlinkedOK
      <3>1. CASE m = n
        <4>1. L + 1 \in DOMAIN queues'[rq] /\ queues'[rq][L + 1] = n
          BY <2>4, <2>5, <2>6
        <4> QED
          BY <3>1, <4>1 DEF In
      <3>2. CASE m # n
        <4>1. next_idxs[m] # Sentinel
          BY <2>5, <2>8, <2>9, <2>10, <3>2, SentinelNotThread, QueueFacts
        <4>2. PICK r \in Queues : In(queues[r], m)
          BY <4>1, LinkedIffQueued
        <4>3. PICK k \in DOMAIN queues[r] : queues[r][k] = m
          BY <4>2 DEF In
        <4>4. k \in DOMAIN queues'[r] /\ queues'[r][k] = m
          <5>1. CASE r # rq
            BY <2>6, <4>3, <5>1
          <5>2. CASE r = rq
            <6>1. k \in 1 .. L /\ k \in 1 .. L + 1
              BY <2>5, <4>3, <5>2 DEF s
            <6> QED
              BY <2>4, <2>6, <4>3, <5>2, <6>1 DEF s
          <5> QED
            BY <5>1, <5>2
        <4> QED
          BY <4>4 DEF In
      <3> QED
        BY <3>1, <3>2
    <2>17. BitcacheOK'
      BY <1>0, <2>4, <2>6 DEF BitcacheOK, Used, ListInv, Represents
    <2> QED
      BY <2>11, <2>12, <2>13, <2>14, <2>15, <2>16, <2>17 DEF ListInv, Represents
  <1> QED
    BY <1>1, <1>2

(* CList::pop_head of a non-empty list with the bitcache update that       *)
(* follows it in pop_head and in pop_next.                                 *)
LEMMA UnlinkHeadStep ==
  ASSUME ListInv, NEW rq \in Queues, queues[rq] # <<>>, UnlinkHead(rq),
         queues' = QPopHead(queues, rq),
         ret' \in Threads \cup {Sentinel}, moved' = moved
  PROVE  ListInv'
  <1> DEFINE s == queues[rq]
             t == Tail(s)
             L == Len(s)
  <1>1. /\ s \in Seq(Threads) /\ L \in Nat /\ L # 0 /\ DOMAIN s = 1 .. L
        /\ \A i \in 1 .. L : s[i] \in Threads /\ next_idxs[s[i]] = Succ(s, i)
        /\ tail[rq] = s[L] /\ peek_head(rq) = s[1]
    BY QueueFacts
  <1>2. /\ t \in Seq(Threads)
        /\ Len(t) = L - 1
        /\ DOMAIN t = 1 .. L - 1
        /\ \A i \in 1 .. L - 1 : t[i] = s[i + 1]
        /\ t = <<>> <=> L = 1
    BY <1>1, TailFacts
  <1>3. /\ queues'[rq] = t
        /\ \A r \in Queues : r # rq => queues'[r] = queues[r]
        /\ queues' \in [Queues -> Seq(Threads)]
    BY <1>2 DEF QPopHead, ListInv, Represents, QueuesOK
  <1>4. /\ tail \in [Queues -> Threads \cup {Sentinel}]
        /\ next_idxs \in [Threads -> Threads \cup {Sentinel}]
        /\ bitcache \in SUBSET Queues
        /\ moved \in BOOLEAN
    BY DEF ListInv, RunQueueTypeOK
  <1>5. \A i, j \in 1 .. L : s[i] = s[j] => i = j
    BY <1>1 DEF ListInv, Represents, QueuedOnce
  <1>6. \A r \in Queues : r # rq =>
          \A i \in 1 .. Len(queues[r]), j \in 1 .. L : queues[r][i] # s[j]
    BY <1>1, QueueFacts DEF ListInv, Represents, QueuedOnce
  <1>7. 1 \in 1 .. L /\ L \in 1 .. L /\ s[1] \in Threads /\ s[L] \in Threads
    BY <1>1
  <1>8. s[1] = s[L] <=> L = 1
    BY <1>5, <1>7
  <1>9. tail' = IF L = 1 THEN [tail EXCEPT ![rq] = Sentinel] ELSE tail
    BY <1>1, <1>8 DEF UnlinkHead
  <1>10. next_idxs' = [next_idxs EXCEPT ![s[L]] = Succ(s, 1), ![s[1]] = Sentinel]
    BY <1>1, <1>7 DEF UnlinkHead
  <1>11. Succ(s, 1) \in Threads
    BY <1>7, QueueFacts
  <1>12. bitcache' = IF L = 1 THEN bitcache \ {rq} ELSE bitcache
    BY <1>1, <1>4, <1>7, <1>9, SentinelNotThread DEF UnlinkHead, ClearIfEmpty
  <1> HIDE DEF s, t, L
  <1>13. RunQueueTypeOK'
    BY <1>4, <1>7, <1>9, <1>10, <1>11, <1>12 DEF RunQueueTypeOK
  <1>14. QueuesOK'
    BY <1>3 DEF QueuesOK
  <1>15. ASSUME NEW r \in Queues, NEW i \in DOMAIN queues'[r]
         PROVE  IF r = rq THEN /\ i \in 1 .. L - 1
                               /\ i + 1 \in 1 .. L
                               /\ i + 1 \in DOMAIN queues[r]
                               /\ queues'[r][i] = queues[r][i + 1]
                          ELSE /\ i \in DOMAIN queues[r]
                               /\ queues'[r][i] = queues[r][i]
    <2>1. CASE r = rq
      <3>1. i \in 1 .. L - 1
        BY <1>2, <1>3, <2>1
      <3>2. i + 1 \in 1 .. L
        BY <1>1, <3>1
      <3> QED
        BY <1>1, <1>2, <1>3, <2>1, <3>1, <3>2 DEF s
    <2>2. CASE r # rq
      BY <1>3, <2>2
    <2> QED
      BY <2>1, <2>2
  <1>16. QueuedOnce(queues)'
    <2> SUFFICES ASSUME NEW r1 \in Queues, NEW r2 \in Queues,
                        NEW i \in DOMAIN queues'[r1], NEW j \in DOMAIN queues'[r2],
                        queues'[r1][i] = queues'[r2][j]
                 PROVE  r1 = r2 /\ i = j
      BY DEF QueuedOnce
    <2>1. CASE r1 = rq /\ r2 = rq
      <3>1. i + 1 = j + 1
        BY <1>15, <2>1 DEF ListInv, Represents, QueuedOnce
      <3>2. i \in 1 .. L - 1 /\ j \in 1 .. L - 1
        BY <1>15, <2>1
      <3> QED
        BY <1>1, <2>1, <3>1, <3>2
    <2>2. CASE r1 # rq \/ r2 # rq
      BY <1>15, <2>2 DEF ListInv, Represents, QueuedOnce
    <2> QED
      BY <2>1, <2>2
  <1>17. TailsOK'
    <2> SUFFICES ASSUME NEW r \in Queues
                 PROVE  tail'[r] = IF queues'[r] = <<>> THEN Sentinel
                                   ELSE queues'[r][Len(queues'[r])]
      BY DEF TailsOK
    <2>1. CASE r # rq
      BY <1>3, <1>4, <1>9, <2>1 DEF ListInv, Represents, TailsOK
    <2>2. CASE r = rq /\ L = 1
      BY <1>2, <1>3, <1>4, <1>9, <2>2
    <2>3. CASE r = rq /\ L # 1
      <3>1. L - 1 \in 1 .. L - 1 /\ L - 1 + 1 = L
        BY <1>1, <2>3
      <3>2. t[L - 1] = s[L]
        BY <1>2, <3>1
      <3> QED
        BY <1>1, <1>2, <1>3, <1>9, <2>3, <3>2
    <2> QED
      BY <2>1, <2>2, <2>3
  <1>18. LinksOK'
    <2> SUFFICES ASSUME NEW r \in Queues, NEW i \in DOMAIN queues'[r]
                 PROVE  next_idxs'[queues'[r][i]] = Succ(queues'[r], i)
      BY DEF LinksOK
    <2>1. CASE r # rq
      <3>1. i \in 1 .. Len(queues[r]) /\ queues'[r] = queues[r]
        BY <1>3, <2>1, QueueFacts
      <3>2. queues[r][i] # s[1] /\ queues[r][i] # s[L] /\ queues[r][i] \in Threads
        BY <1>6, <1>7, <2>1, <3>1, QueueFacts
      <3>3. next_idxs'[queues[r][i]] = next_idxs[queues[r][i]]
        BY <1>4, <1>7, <1>10, <3>2
      <3> QED
        BY <3>1, <3>3, QueueFacts
    <2>2. CASE r = rq
      <3>1. i \in 1 .. L - 1 /\ i + 1 \in 1 .. L /\ queues'[r][i] = s[i + 1]
        BY <1>15, <2>2 DEF s
      <3>2. i + 1 # 1 /\ L # 1
        BY <1>1, <3>1
      <3>3. s[i + 1] # s[1] /\ s[i + 1] \in Threads
        BY <1>1, <1>5, <1>7, <3>1, <3>2
      <3>4. CASE i + 1 = L
        <4>1. next_idxs'[s[L]] = Succ(s, 1)
          BY <1>4, <1>7, <1>8, <1>10, <3>2
        <4>2. Succ(s, 1) = s[1 + 1] /\ t[1] = s[1 + 1]
          <5>1. 1 \in 1 .. L - 1
            BY <1>1, <3>1
          <5>2. t[1] = s[1 + 1]
            BY <1>2, <5>1
          <5> QED
            BY <3>2, <5>2 DEF Succ, L
        <4>3. Succ(t, i) = t[1]
          BY <1>1, <1>2, <3>1, <3>4 DEF Succ
        <4> QED
          BY <1>3, <2>2, <3>1, <3>4, <4>1, <4>2, <4>3
      <3>5. CASE i + 1 # L
        <4>1. s[i + 1] # s[L]
          BY <1>5, <1>7, <3>1, <3>5
        <4>2. next_idxs'[s[i + 1]] = next_idxs[s[i + 1]]
          BY <1>4, <1>7, <1>10, <3>3, <4>1
        <4>3. next_idxs[s[i + 1]] = s[i + 1 + 1]
          BY <1>1, <3>1, <3>5 DEF Succ, L
        <4>4. i + 1 \in 1 .. L - 1 /\ i # L - 1
          BY <1>1, <3>1, <3>5
        <4>5. Succ(t, i) = s[i + 1 + 1]
          BY <1>2, <4>4 DEF Succ
        <4> QED
          BY <1>3, <2>2, <3>1, <4>2, <4>3, <4>5
      <3> QED
        BY <3>4, <3>5
    <2> QED
      BY <2>1, <2>2
  <1>19. UnlinkedOK'
    <2> SUFFICES ASSUME NEW m \in Threads, next_idxs'[m] # Sentinel
                 PROVE  \E r \in Queues : In(queues'[r], m)
      BY DEF UnlinkedOK
    <2>1. m # s[1]
      BY <1>4, <1>7, <1>10
    <2>2. next_idxs[m] # Sentinel
      <3>1. next_idxs[s[L]] # Sentinel
        BY <1>1, <1>7, QueueFacts, SentinelNotThread DEF s
      <3> QED
        BY <1>4, <1>7, <1>10, <2>1, <3>1
    <2>3. PICK r \in Queues : In(queues[r], m)
      BY <2>2, LinkedIffQueued
    <2>4. PICK k \in DOMAIN queues[r] : queues[r][k] = m
      BY <2>3 DEF In
    <2>5. CASE r # rq
      BY <1>3, <2>3, <2>5 DEF In
    <2>6. CASE r = rq
      <3>1. k \in 1 .. L /\ k # 1
        BY <1>1, <2>1, <2>4, <2>6 DEF s
      <3>2. k - 1 \in 1 .. L - 1 /\ k - 1 + 1 = k
        BY <1>1, <3>1
      <3>3. t[k - 1] = m
        BY <1>2, <2>4, <2>6, <3>2 DEF s
      <3> QED
        BY <1>2, <1>3, <3>2, <3>3 DEF In
    <2> QED
      BY <2>5, <2>6
  <1>20. BitcacheOK'
    BY <1>2, <1>3, <1>12 DEF BitcacheOK, Used, ListInv, Represents
  <1> QED
    BY <1>13, <1>14, <1>16, <1>17, <1>18, <1>19, <1>20 DEF ListInv, Represents

(* RunQueue::pop_head of the queue's head.                                 *)
LEMMA PopHeadStep ==
  ASSUME ListInv, NEW n \in Threads, NEW rq \in Queues, SimPopHead(n, rq)
  PROVE  ListInv'
  <1>1. queues[rq] # <<>>
    BY QueueFacts DEF SimPopHead, PopHead, IsEmpty
  <1>2. ret' \in Threads \cup {Sentinel} /\ moved' = moved
    BY DEF SimPopHead, PopHead, ListInv, RunQueueTypeOK
  <1> QED
    BY <1>1, <1>2, UnlinkHeadStep DEF SimPopHead, PopHead

(* RunQueue::pop_next.                                                     *)
LEMMA PopNextStep ==
  ASSUME ListInv, SimPopNext
  PROVE  ListInv'
  <1>1. bitcache = Used(queues) /\ moved' = moved /\ ret' = get_next
    BY DEF SimPopNext, PopNext, ListInv, Represents, BitcacheOK
  <1>2. CASE bitcache = {}
    <2>1. UNCHANGED <<bitcache, tail, next_idxs, queues, moved>> /\ ret' = Sentinel
      BY <1>1, <1>2 DEF SimPopNext, PopNext, get_next
    <2> QED
      BY <2>1 DEF ListInv, RunQueueTypeOK, Represents, QueuesOK, QueuedOnce, TailsOK, LinksOK,
                  UnlinkedOK, BitcacheOK
  <1>3. CASE bitcache # {}
    <2> DEFINE h == HighestBit(bitcache)
    <2>1. h \in Queues /\ h = Top(queues) /\ queues[h] # <<>>
      BY <1>3, TopFacts
    <2>2. UnlinkHead(h) /\ queues' = QPopHead(queues, h)
      BY <1>1, <1>3, <2>1 DEF SimPopNext, PopNext
    <2>3. get_next = queues[h][1] /\ queues[h][1] \in Threads
      BY <1>3, <2>1, QueueFacts DEF get_next
    <2> HIDE DEF h
    <2> QED
      BY <1>1, <2>1, <2>2, <2>3, UnlinkHeadStep
  <1> QED
    BY <1>2, <1>3

(* The predecessor that CList::del searches for is the thread before n in  *)
(* its circular list, and n is a tail exactly when it is last in its FIFO. *)
LEMMA PredecessorFacts ==
  ASSUME ListInv, NEW n \in Threads, NEW rq \in Queues,
         NEW k \in 1 .. Len(queues[rq]), queues[rq][k] = n
  PROVE  LET s == queues[rq]
             p == IF k = 1 THEN Len(s) ELSE k - 1
         IN  /\ p \in 1 .. Len(s)
             /\ Position(next_idxs, n) = s[p]
             /\ IsTail(n) <=> k = Len(s)
             /\ k = Len(s) => Position(tail, n) = rq
  <1> DEFINE s == queues[rq]
             L == Len(s)
             p == IF k = 1 THEN L ELSE k - 1
  <1>1. /\ L \in Nat /\ DOMAIN s = 1 .. L /\ s # <<>>
        /\ \A i \in 1 .. L : s[i] \in Threads /\ next_idxs[s[i]] = Succ(s, i)
        /\ tail[rq] = s[L]
    <2>1. s \in Seq(Threads) /\ L \in Nat /\ DOMAIN s = 1 .. L
      BY QueueFacts
    <2>2. L # 0
      BY <2>1
    <2>3. s # <<>>
      BY <2>1, <2>2, EmptySeq
    <2> QED
      BY <2>1, <2>3, QueueFacts
  <1>2. p \in 1 .. L
    BY <1>1
  <1>3. next_idxs[s[p]] = n
    <2>1. CASE k = 1
      BY <1>1, <1>2, <2>1 DEF Succ
    <2>2. CASE k # 1
      <3>1. p = k - 1 /\ p + 1 = k /\ p # L
        BY <1>1, <2>2
      <3> QED
        BY <1>1, <1>2, <3>1 DEF Succ
    <2> QED
      BY <2>1, <2>2
  <1>4. DOMAIN next_idxs = Threads /\ DOMAIN tail = Queues
    BY DEF ListInv, RunQueueTypeOK
  <1>5. ASSUME NEW m \in Threads, next_idxs[m] = n
        PROVE  m = s[p]
    <2>1. PICK r \in Queues : In(queues[r], m)
      BY <1>5, LinkedIffQueued, SentinelNotThread
    <2>2. PICK j \in 1 .. Len(queues[r]) : queues[r][j] = m
      BY <2>1, QueueFacts DEF In
    <2> DEFINE u == queues[r]
               l == IF j = Len(u) THEN 1 ELSE j + 1
    <2>3. Len(u) \in Nat /\ DOMAIN u = 1 .. Len(u) /\ next_idxs[m] = Succ(u, j)
      BY <2>2, QueueFacts
    <2>4. l \in 1 .. Len(u) /\ u[l] = n
      BY <1>5, <2>2, <2>3 DEF Succ
    <2>5. r = rq /\ l = k
      BY <1>1, <2>3, <2>4 DEF ListInv, Represents, QueuedOnce
    <2>6. j = p
      BY <1>1, <2>2, <2>3, <2>5
    <2> QED
      BY <2>2, <2>5, <2>6
  <1>6. Position(next_idxs, n) = s[p]
    <2>1. s[p] \in Threads
      BY <1>1, <1>2
    <2>2. s[p] <= s[p]
      BY <2>1, SizeAssumption DEF Threads
    <2>3. IsPosition(next_idxs, n, s[p])
      BY <1>3, <1>4, <1>5, <2>1, <2>2 DEF IsPosition
    <2>4. \A m \in DOMAIN next_idxs : IsPosition(next_idxs, n, m) => m = s[p]
      BY <1>4, <1>5 DEF IsPosition
    <2> HIDE DEF s, p
    <2> QED
      BY <1>4, <2>1, <2>3, <2>4 DEF Position
  <1>7. ASSUME NEW r \in Queues, tail[r] = n
        PROVE  r = rq /\ k = L
    <2>1. queues[r] # <<>>
      BY <1>7, QueueFacts, SentinelNotThread
    <2>2. /\ Len(queues[r]) \in 1 .. Len(queues[r])
          /\ queues[r][Len(queues[r])] = n
          /\ DOMAIN queues[r] = 1 .. Len(queues[r])
      BY <1>7, <2>1, QueueFacts
    <2> QED
      BY <1>1, <2>2 DEF ListInv, Represents, QueuedOnce
  <1>8. IsTail(n) <=> k = L
    BY <1>1, <1>7 DEF IsTail
  <1>9. ASSUME k = L
        PROVE  Position(tail, n) = rq
    <2>1. tail[rq] = n
      BY <1>1, <1>9
    <2>2. rq <= rq
      BY SizeAssumption DEF Queues
    <2>3. IsPosition(tail, n, rq)
      BY <1>4, <1>7, <2>1, <2>2 DEF IsPosition
    <2>4. \A r \in DOMAIN tail : IsPosition(tail, n, r) => r = rq
      BY <1>4, <1>7 DEF IsPosition
    <2> QED
      BY <1>4, <2>3, <2>4 DEF Position
  <1> QED
    BY <1>2, <1>6, <1>8, <1>9

(* RunQueue::del of a thread at any place of its list.                     *)
LEMMA DelStep ==
  ASSUME ListInv, NEW n \in Threads, SimDel(n)
  PROVE  ListInv'
  <1>0. UNCHANGED <<ret, moved>> /\ ret \in Threads \cup {Sentinel} /\ moved \in BOOLEAN
    BY DEF SimDel, Del, ListInv, RunQueueTypeOK
  <1>a. queues \in [Queues -> Seq(Threads)]
    BY DEF ListInv, Represents, QueuesOK
  <1>1. CASE next_idxs[n] = Sentinel
    <2>1. \A r \in Queues : ~In(queues[r], n)
      BY <1>1, LinkedIffQueued
    <2>2. queues' = queues
      BY <1>a, <2>1 DEF SimDel, QDel
    <2>3. UNCHANGED <<bitcache, tail, next_idxs>>
      BY <1>1 DEF SimDel, Del
    <2> QED
      BY <1>0, <2>2, <2>3
      DEF ListInv, RunQueueTypeOK, Represents, QueuesOK, QueuedOnce, TailsOK, LinksOK, UnlinkedOK,
          BitcacheOK
  <1>2. CASE next_idxs[n] # Sentinel
    <2>1. PICK rq \in Queues : In(queues[rq], n)
      BY <1>2, LinkedIffQueued
    <2> DEFINE s == queues[rq]
               L == Len(s)
               k == IndexOf(s, n)
               t == Without(s, n)
               p == IF k = 1 THEN L ELSE k - 1
    <2>2. /\ s \in Seq(Threads) /\ DOMAIN s = 1 .. L
          /\ \A i \in 1 .. L : /\ s[i] \in Threads
                               /\ next_idxs[s[i]] = Succ(s, i)
                               /\ Succ(s, i) \in Threads
      BY QueueFacts
    <2>3. /\ k \in 1 .. L /\ s[k] = n
          /\ L \in Nat \ {0}
          /\ t \in Seq(Threads)
          /\ Len(t) = L - 1
          /\ DOMAIN t = 1 .. L - 1
          /\ \A i \in 1 .. L - 1 : t[i] = IF i < k THEN s[i] ELSE s[i + 1]
          /\ t = <<>> <=> L = 1
      BY <2>1, <2>2, WithoutFacts
    <2>4. \A r \in Queues : r # rq => ~In(queues[r], n)
      BY <2>2, <2>3 DEF In, ListInv, Represents, QueuedOnce
    <2>5. /\ queues'[rq] = t
          /\ \A r \in Queues : r # rq => queues'[r] = queues[r]
          /\ queues' = [r \in Queues |-> IF In(queues[r], n) THEN Without(queues[r], n) ELSE queues[r]]
      BY <2>1, <2>4 DEF SimDel, QDel
    <2>6. queues' \in [Queues -> Seq(Threads)]
      BY <1>a, <2>3, <2>5
    <2>7. /\ p \in 1 .. L
          /\ Position(next_idxs, n) = s[p]
          /\ IsTail(n) <=> k = L
          /\ k = L => Position(tail, n) = rq
      BY <2>3, PredecessorFacts
    <2>8. /\ tail \in [Queues -> Threads \cup {Sentinel}]
          /\ next_idxs \in [Threads -> Threads \cup {Sentinel}]
          /\ bitcache \in SUBSET Queues
      BY DEF ListInv, RunQueueTypeOK
    <2>9. \A i, j \in 1 .. L : s[i] = s[j] => i = j
      BY <2>2 DEF ListInv, Represents, QueuedOnce
    <2>10. s[p] = n <=> L = 1
      BY <2>3, <2>7, <2>9
    <2>11. next_idxs' = [next_idxs EXCEPT ![s[p]] = Succ(s, k), ![n] = Sentinel]
      <3>1. next_idxs[n] = Succ(s, k)
        BY <2>2, <2>3
      <3> HIDE DEF s, L, k, t, p
      <3> QED
        BY <1>2, <2>7, <3>1 DEF SimDel, Del
    <2>12. tail' = IF k = L THEN [tail EXCEPT ![rq] = IF L = 1 THEN Sentinel ELSE s[p]] ELSE tail
      <3> HIDE DEF s, L, k, t, p
      <3> QED
        BY <1>2, <2>7, <2>10 DEF SimDel, Del
    <2>13. tail[rq] = s[L] /\ s[p] \in Threads
      BY <2>2, <2>3, <2>7, QueueFacts, EmptySeq
    <2>14. bitcache' = IF L = 1 THEN bitcache \ {rq} ELSE bitcache
      <3>1. k # L => L # 1
        BY <2>3
      <3> HIDE DEF s, L, k, t, p
      <3>2. CASE k # L
        BY <1>2, <2>7, <3>1, <3>2 DEF SimDel, Del
      <3>3. CASE k = L
        <4>1. bitcache' = IF tail'[rq] = Sentinel THEN bitcache \ {rq} ELSE bitcache
          BY <1>2, <2>7, <3>3 DEF SimDel, Del, ClearIfEmpty
        <4>2. tail'[rq] = Sentinel <=> L = 1
          BY <2>8, <2>12, <2>13, <3>3, SentinelNotThread
        <4> QED
          BY <4>1, <4>2
      <3> QED
        BY <3>2, <3>3
    <2>15. \A r \in Queues : r # rq =>
             \A i \in 1 .. Len(queues[r]), j \in 1 .. L : queues[r][i] # s[j]
      BY <2>2, QueueFacts DEF ListInv, Represents, QueuedOnce
    <2>16. p = IF k = 1 THEN L ELSE k - 1
      OBVIOUS
    <2>17. Succ(s, k) \in Threads
      BY <2>2, <2>3
    <2> HIDE DEF s, L, k, t, p
    <2>18. RunQueueTypeOK'
      BY <1>0, <2>8, <2>11, <2>12, <2>13, <2>14, <2>17 DEF RunQueueTypeOK
    <2>19. QueuesOK'
      BY <2>6 DEF QueuesOK
    <2>20. ASSUME NEW i \in 1 .. L - 1
           PROVE  LET o == IF i < k THEN i ELSE i + 1
                  IN  o \in 1 .. L /\ o # k /\ t[i] = s[o]
      BY <2>3
    <2>21. QueuedOnce(queues)'
      <3> SUFFICES ASSUME NEW r1 \in Queues, NEW r2 \in Queues,
                          NEW i \in DOMAIN queues'[r1], NEW j \in DOMAIN queues'[r2],
                          queues'[r1][i] = queues'[r2][j]
                   PROVE  r1 = r2 /\ i = j
        BY DEF QueuedOnce
      <3>1. CASE r1 = rq /\ r2 = rq
        <4>1. i \in 1 .. L - 1 /\ j \in 1 .. L - 1 /\ t[i] = t[j]
          BY <2>3, <2>5, <3>1
        <4>2. (IF i < k THEN i ELSE i + 1) = (IF j < k THEN j ELSE j + 1)
          BY <2>9, <2>20, <4>1
        <4> QED
          BY <2>3, <3>1, <4>1, <4>2
      <3>2. CASE r1 # rq /\ r2 # rq
        BY <2>5, <3>2 DEF ListInv, Represents, QueuedOnce
      <3>3. CASE r1 = rq /\ r2 # rq
        <4>1. i \in 1 .. L - 1 /\ queues'[r1][i] = t[i] /\ j \in 1 .. Len(queues[r2])
              /\ queues'[r2][j] = queues[r2][j]
          BY <2>3, <2>5, <3>3, QueueFacts
        <4> QED
          BY <2>15, <2>20, <3>3, <4>1
      <3>4. CASE r1 # rq /\ r2 = rq
        <4>1. j \in 1 .. L - 1 /\ queues'[r2][j] = t[j] /\ i \in 1 .. Len(queues[r1])
              /\ queues'[r1][i] = queues[r1][i]
          BY <2>3, <2>5, <3>4, QueueFacts
        <4> QED
          BY <2>15, <2>20, <3>4, <4>1
      <3> QED
        BY <3>1, <3>2, <3>3, <3>4
    <2>22. TailsOK'
      <3> SUFFICES ASSUME NEW r \in Queues
                   PROVE  tail'[r] = IF queues'[r] = <<>> THEN Sentinel
                                     ELSE queues'[r][Len(queues'[r])]
        BY DEF TailsOK
      <3>1. CASE r # rq
        BY <2>5, <2>8, <2>12, <3>1 DEF ListInv, Represents, TailsOK
      <3>2. CASE r = rq /\ L = 1
        <4>1. k = L
          BY <2>3, <3>2
        <4> QED
          BY <2>3, <2>5, <2>8, <2>12, <3>2, <4>1
      <3>3. CASE r = rq /\ L # 1
        <4>1. L - 1 \in 1 .. L - 1
          BY <2>3, <3>3
        <4>2. tail'[rq] = t[L - 1]
          <5>1. CASE k = L
            <6>1. p = L - 1 /\ L - 1 < k
              BY <2>3, <2>16, <3>3, <5>1
            <6>2. t[L - 1] = s[L - 1]
              BY <2>3, <4>1, <6>1
            <6> QED
              BY <2>8, <2>12, <3>3, <5>1, <6>1, <6>2
          <5>2. CASE k # L
            <6>1. ~(L - 1 < k) /\ L - 1 + 1 = L
              BY <2>3, <5>2
            <6>2. t[L - 1] = s[L]
              BY <2>3, <4>1, <6>1
            <6> QED
              BY <2>12, <2>13, <5>2, <6>2
          <5> QED
            BY <5>1, <5>2
        <4> QED
          BY <2>3, <2>5, <3>3, <4>2
      <3> QED
        BY <3>1, <3>2, <3>3
    <2>23. LinksOK'
      <3> SUFFICES ASSUME NEW r \in Queues, NEW i \in DOMAIN queues'[r]
                   PROVE  next_idxs'[queues'[r][i]] = Succ(queues'[r], i)
        BY DEF LinksOK
      <3>1. CASE r # rq
        <4>1. i \in 1 .. Len(queues[r]) /\ queues'[r] = queues[r]
          BY <2>5, <3>1, QueueFacts
        <4>2. queues[r][i] # s[p] /\ queues[r][i] # n /\ queues[r][i] \in Threads
          BY <2>3, <2>7, <2>15, <3>1, <4>1, QueueFacts
        <4>3. next_idxs'[queues[r][i]] = next_idxs[queues[r][i]]
          BY <2>8, <2>11, <4>2
        <4> QED
          BY <4>1, <4>3, QueueFacts
      <3>2. CASE r = rq
        <4> DEFINE o == IF i < k THEN i ELSE i + 1
        <4>1. i \in 1 .. L - 1 /\ queues'[r][i] = t[i] /\ L # 1
          BY <2>3, <2>5, <3>2
        <4>2. o \in 1 .. L /\ o # k /\ t[i] = s[o]
          BY <2>20, <4>1
        <4>3. s[o] # n /\ s[o] \in Threads
          BY <2>2, <2>3, <2>9, <4>2
        <4>4. CASE o = p
          <5>1. next_idxs'[s[o]] = Succ(s, k)
            BY <2>8, <2>11, <2>13, <4>3, <4>4
          <5>2. CASE k = 1
            <6>1. i = L - 1 /\ ~(1 < k) /\ 1 \in 1 .. L - 1 /\ k # L
              BY <2>3, <2>16, <4>1, <4>4, <5>2
            <6>2. Succ(s, k) = s[1 + 1]
              BY <5>2, <6>1 DEF Succ, L
            <6>3. t[1] = s[1 + 1]
              BY <2>3, <6>1
            <6>4. Succ(t, i) = t[1]
              BY <2>3, <6>1 DEF Succ
            <6> QED
              BY <2>5, <3>2, <4>1, <4>2, <5>1, <6>2, <6>3, <6>4
          <5>3. CASE k # 1
            <6>1. i = k - 1 /\ i < k
              BY <2>3, <2>16, <4>1, <4>4, <5>3
            <6>2. CASE k = L
              <7>1. 1 \in 1 .. L - 1 /\ 1 < k /\ i = L - 1
                BY <2>3, <4>1, <5>3, <6>1, <6>2
              <7>2. Succ(s, k) = s[1] /\ t[1] = s[1] /\ Succ(t, i) = t[1]
                BY <2>3, <6>2, <7>1 DEF Succ, L
              <7> QED
                BY <2>5, <3>2, <4>1, <4>2, <5>1, <7>2
            <6>3. CASE k # L
              <7>1. k \in 1 .. L - 1 /\ i + 1 = k /\ i # L - 1 /\ ~(k < k)
                BY <2>3, <4>1, <6>1, <6>3
              <7>2. Succ(s, k) = s[k + 1]
                BY <6>3 DEF Succ, L
              <7>3. t[k] = s[k + 1]
                BY <2>3, <7>1
              <7>4. Succ(t, i) = t[k]
                BY <2>3, <7>1 DEF Succ
              <7> QED
                BY <2>5, <3>2, <4>1, <4>2, <5>1, <7>2, <7>3, <7>4
            <6> QED
              BY <6>2, <6>3
          <5> QED
            BY <5>2, <5>3
        <4>5. CASE o # p
          <5>1. s[o] # s[p]
            BY <2>7, <2>9, <4>2, <4>5
          <5>2. next_idxs'[s[o]] = Succ(s, o)
            BY <2>2, <2>8, <2>11, <2>13, <4>2, <4>3, <5>1
          <5>3. CASE o = L
            <6>1. i = L - 1 /\ 1 \in 1 .. L - 1 /\ k # 1 /\ 1 < k
              BY <2>3, <2>16, <4>1, <4>2, <4>5, <5>3
            <6>2. Succ(s, o) = s[1]
              BY <5>3 DEF Succ, L
            <6>3. t[1] = s[1]
              BY <2>3, <6>1
            <6>4. Succ(t, i) = t[1]
              BY <2>3, <6>1 DEF Succ
            <6> QED
              BY <2>5, <3>2, <4>1, <4>2, <5>2, <6>2, <6>3, <6>4
          <5>4. CASE o # L
            <6>1. /\ i + 1 \in 1 .. L - 1 /\ i # L - 1
                  /\ o + 1 = IF i + 1 < k THEN i + 1 ELSE i + 1 + 1
              BY <2>3, <2>16, <4>1, <4>2, <4>5, <5>4
            <6>2. Succ(s, o) = s[o + 1]
              BY <5>4 DEF Succ, L
            <6>3. t[i + 1] = s[o + 1]
              BY <2>3, <6>1
            <6>4. Succ(t, i) = t[i + 1]
              BY <2>3, <6>1 DEF Succ
            <6> QED
              BY <2>5, <3>2, <4>1, <4>2, <5>2, <6>2, <6>3, <6>4
          <5> QED
            BY <5>3, <5>4
        <4> QED
          BY <4>4, <4>5
      <3> QED
        BY <3>1, <3>2
    <2>24. UnlinkedOK'
      <3> SUFFICES ASSUME NEW m \in Threads, next_idxs'[m] # Sentinel
                   PROVE  \E r \in Queues : In(queues'[r], m)
        BY DEF UnlinkedOK
      <3>1. m # n
        BY <2>8, <2>11
      <3>2. next_idxs[m] # Sentinel
        <4>1. next_idxs[s[p]] # Sentinel
          BY <2>2, <2>7, SentinelNotThread
        <4> QED
          BY <2>8, <2>11, <2>13, <3>1, <4>1
      <3>3. PICK r \in Queues : In(queues[r], m)
        BY <3>2, LinkedIffQueued
      <3>4. CASE r # rq
        BY <2>5, <3>3, <3>4 DEF In
      <3>5. CASE r = rq
        <4>1. PICK j \in 1 .. L : s[j] = m
          BY <2>2, <3>3, <3>5 DEF In, s
        <4>2. j # k
          BY <2>3, <3>1, <4>1
        <4>3. CASE j < k
          <5>1. j \in 1 .. L - 1
            BY <2>3, <4>3
          <5>2. t[j] = m
            BY <2>3, <4>1, <4>3, <5>1
          <5> QED
            BY <2>3, <2>5, <5>1, <5>2 DEF In
        <4>4. CASE ~(j < k)
          <5>1. j - 1 \in 1 .. L - 1 /\ ~(j - 1 < k) /\ j - 1 + 1 = j
            BY <2>3, <4>2, <4>4
          <5>2. t[j - 1] = m
            BY <2>3, <4>1, <5>1
          <5> QED
            BY <2>3, <2>5, <5>1, <5>2 DEF In
        <4> QED
          BY <4>3, <4>4
      <3> QED
        BY <3>4, <3>5
    <2>25. BitcacheOK'
      <3>1. /\ queues'[rq] = <<>> <=> L = 1
            /\ \A r \in Queues : r # rq => queues'[r] = queues[r]
        BY <2>3, <2>5
      <3>2. bitcache = Used(queues) /\ queues[rq] # <<>>
        BY <2>1 DEF BitcacheOK, ListInv, Represents, In
      <3> QED
        BY <2>14, <3>1, <3>2 DEF BitcacheOK, Used
    <2> QED
      BY <2>18, <2>19, <2>21, <2>22, <2>23, <2>24, <2>25 DEF ListInv, Represents
  <1> QED
    BY <1>1, <1>2

(* RunQueue::advance, its two early returns included.                      *)
LEMMA AdvanceStep ==
  ASSUME ListInv, NEW rq \in Queues, SimAdvance(rq)
  PROVE  ListInv' /\ moved' = (Len(queues[rq]) > 1)
  <1> DEFINE s == queues[rq]
             L == Len(s)
             t == Append(Tail(s), Head(s))
  <1>0. UNCHANGED <<bitcache, next_idxs, ret>> /\ moved' \in BOOLEAN
    BY DEF SimAdvance, Advance
  <1>1. /\ tail \in [Queues -> Threads \cup {Sentinel}]
        /\ queues \in [Queues -> Seq(Threads)]
        /\ s \in Seq(Threads) /\ L \in Nat /\ DOMAIN s = 1 .. L
        /\ \A i \in 1 .. L : s[i] \in Threads /\ next_idxs[s[i]] = Succ(s, i)
    BY QueueFacts DEF ListInv, RunQueueTypeOK, Represents, QueuesOK
  <1>2. CASE s = <<>>
    <2>1. tail[rq] = Sentinel /\ ~(Sentinel < N_THREADS) /\ L = 0
      BY <1>1, <1>2, QueueFacts, EmptySeq, SizeAssumption DEF Sentinel
    <2>2. UNCHANGED <<tail, queues>> /\ moved' = FALSE
      BY <1>2, <2>1 DEF SimAdvance, Advance, QAdvance
    <2> QED
      BY <1>0, <2>1, <2>2
      DEF ListInv, RunQueueTypeOK, Represents, QueuesOK, QueuedOnce, TailsOK, LinksOK, UnlinkedOK,
          BitcacheOK
  <1>3. CASE s # <<>>
    <2>1. /\ L \in Nat \ {0}
          /\ t \in Seq(Threads)
          /\ Len(t) = L
          /\ DOMAIN t = 1 .. L
          /\ \A i \in 1 .. L : t[i] = Succ(s, i)
          /\ t # <<>>
      BY <1>1, <1>3, RotateFacts
    <2>2. queues' = [queues EXCEPT ![rq] = t]
      BY <1>3 DEF SimAdvance, QAdvance
    <2>3. /\ queues'[rq] = t
          /\ \A r \in Queues : r # rq => queues'[r] = queues[r]
          /\ queues' \in [Queues -> Seq(Threads)]
      BY <1>1, <2>1, <2>2
    <2>4. /\ tail[rq] = s[L] /\ tail[rq] \in Threads
          /\ next_idxs[tail[rq]] = s[1] /\ s[1] \in Threads
      <3>1. L \in 1 .. L /\ 1 \in 1 .. L
        BY <2>1
      <3>2. Succ(s, L) = s[1]
        BY DEF Succ
      <3>3. tail[rq] = s[L] /\ tail[rq] \in Threads
        BY <1>3, QueueFacts
      <3> HIDE DEF s, L, t
      <3> QED
        BY <1>1, <3>1, <3>2, <3>3
    <2>5. tail[rq] < N_THREADS
      BY <2>4, SizeAssumption DEF Threads
    <2>6. \A i, j \in 1 .. L : s[i] = s[j] => i = j
      BY <1>1 DEF ListInv, Represents, QueuedOnce
    <2>7. s[1] = s[L] <=> L = 1
      <3>1. L \in 1 .. L /\ 1 \in 1 .. L
        BY <2>1
      <3> HIDE DEF s, L, t
      <3> QED
        BY <2>6, <3>1
    <2>8. tail' = [tail EXCEPT ![rq] = s[1]] /\ moved' = (L > 1)
      <3>1. L > 1 <=> s[1] # s[L]
        BY <2>1, <2>7
      <3> HIDE DEF s, L, t
      <3>2. CASE s[1] # s[L]
        BY <2>4, <2>5, <3>1, <3>2 DEF SimAdvance, Advance
      <3>3. CASE s[1] = s[L]
        <4>1. tail' = tail /\ moved' = FALSE
          BY <2>4, <2>5, <3>3 DEF SimAdvance, Advance
        <4>2. [tail EXCEPT ![rq] = s[1]] = tail
          BY <1>1, <2>4, <3>3
        <4>3. (L > 1) = FALSE
          BY <3>1, <3>3
        <4> QED
          BY <4>1, <4>2, <4>3
      <3> QED
        BY <3>2, <3>3
    <2>a. s # <<>>
      BY <1>3
    <2> HIDE DEF s, L, t
    <2>9. RunQueueTypeOK'
      BY <1>0, <2>4, <2>8 DEF RunQueueTypeOK, ListInv
    <2>10. QueuesOK'
      BY <2>3 DEF QueuesOK
    <2>11. ASSUME NEW i \in 1 .. L
           PROVE  LET o == IF i = L THEN 1 ELSE i + 1
                  IN  o \in 1 .. L /\ t[i] = s[o]
      <3>1. t[i] = Succ(s, i)
        BY <2>1
      <3>2. (IF i = L THEN 1 ELSE i + 1) \in 1 .. L
        BY <2>1
      <3> QED
        BY <3>1, <3>2 DEF Succ, L
    <2>12. ASSUME NEW r \in Queues, r # rq,
                  NEW i \in 1 .. Len(queues[r]), NEW j \in 1 .. L
           PROVE  queues[r][i] # s[j]
      BY <1>1, <2>12, QueueFacts DEF ListInv, Represents, QueuedOnce, s, L
    <2>13. QueuedOnce(queues)'
      <3> SUFFICES ASSUME NEW r1 \in Queues, NEW r2 \in Queues,
                          NEW i \in DOMAIN queues'[r1], NEW j \in DOMAIN queues'[r2],
                          queues'[r1][i] = queues'[r2][j]
                   PROVE  r1 = r2 /\ i = j
        BY DEF QueuedOnce
      <3>1. CASE r1 = rq /\ r2 = rq
        <4>1. i \in 1 .. L /\ j \in 1 .. L /\ t[i] = t[j]
          BY <2>1, <2>3, <3>1
        <4>2. (IF i = L THEN 1 ELSE i + 1) = (IF j = L THEN 1 ELSE j + 1)
          BY <2>6, <2>11, <4>1
        <4> QED
          BY <2>1, <3>1, <4>1, <4>2
      <3>2. CASE r1 # rq /\ r2 # rq
        BY <2>3, <3>2 DEF ListInv, Represents, QueuedOnce
      <3>3. CASE r1 = rq /\ r2 # rq
        <4>1. i \in 1 .. L /\ queues'[r1][i] = t[i] /\ j \in 1 .. Len(queues[r2])
              /\ queues'[r2][j] = queues[r2][j]
          BY <2>1, <2>3, <3>3, QueueFacts
        <4> QED
          BY <2>11, <2>12, <3>3, <4>1
      <3>4. CASE r1 # rq /\ r2 = rq
        <4>1. j \in 1 .. L /\ queues'[r2][j] = t[j] /\ i \in 1 .. Len(queues[r1])
              /\ queues'[r1][i] = queues[r1][i]
          BY <2>1, <2>3, <3>4, QueueFacts
        <4> QED
          BY <2>11, <2>12, <3>4, <4>1
      <3> QED
        BY <3>1, <3>2, <3>3, <3>4
    <2>14. TailsOK'
      <3>1. t[L] = s[1]
        BY <2>1, <2>11
      <3> QED
        BY <1>1, <2>1, <2>3, <2>8, <3>1 DEF TailsOK, ListInv, Represents
    <2>15. LinksOK'
      <3> SUFFICES ASSUME NEW r \in Queues, NEW i \in DOMAIN queues'[r]
                   PROVE  next_idxs'[queues'[r][i]] = Succ(queues'[r], i)
        BY DEF LinksOK
      <3>1. CASE r # rq
        BY <1>0, <2>3, <3>1 DEF ListInv, Represents, LinksOK
      <3>2. CASE r = rq
        <4> DEFINE o == IF i = L THEN 1 ELSE i + 1
        <4>1. i \in 1 .. L /\ o \in 1 .. L /\ t[i] = s[o]
          BY <2>1, <2>3, <2>11, <3>2
        <4>2. next_idxs'[t[i]] = Succ(s, o)
          BY <1>0, <1>1, <4>1
        <4>3. t[o] = Succ(s, o)
          BY <2>1, <4>1
        <4>4. Succ(t, i) = t[o]
          BY <2>1 DEF Succ
        <4> QED
          BY <2>3, <3>2, <4>2, <4>3, <4>4
      <3> QED
        BY <3>1, <3>2
    <2>16. UnlinkedOK'
      <3> SUFFICES ASSUME NEW m \in Threads, next_idxs'[m] # Sentinel
                   PROVE  \E r \in Queues : In(queues'[r], m)
        BY DEF UnlinkedOK
      <3>1. PICK r \in Queues : In(queues[r], m)
        BY <1>0, LinkedIffQueued
      <3>2. CASE r # rq
        BY <2>3, <3>1, <3>2 DEF In
      <3>3. CASE r = rq
        <4>1. PICK j \in 1 .. L : s[j] = m
          BY <1>1, <3>1, <3>3 DEF In, s
        <4> DEFINE o == IF j = 1 THEN L ELSE j - 1
        <4>2. o \in 1 .. L /\ (IF o = L THEN 1 ELSE o + 1) = j
          BY <2>1
        <4>3. t[o] = m
          BY <2>11, <4>1, <4>2
        <4> HIDE DEF o
        <4> QED
          BY <2>1, <2>3, <4>2, <4>3 DEF In
      <3> QED
        BY <3>2, <3>3
    <2>17. BitcacheOK'
      <3>1. \A r \in Queues : queues'[r] = <<>> <=> queues[r] = <<>>
        BY <2>1, <2>3, <2>a DEF s
      <3> QED
        BY <1>0, <3>1 DEF BitcacheOK, Used, ListInv, Represents
    <2> QED
      BY <2>8, <2>9, <2>10, <2>13, <2>14, <2>15, <2>16, <2>17 DEF ListInv, Represents, L, s
  <1> QED
    BY <1>2, <1>3

-----------------------------------------------------------------------------
(* The filtered search: the iterator returns every queued thread, in order.*)

(* The states of the iterator, as get_next_filter defines them: a recursion *)
(* has a value because it can be extended call by call.                    *)
Walk(g) ==
  [i \in 0 .. N_THREADS |->
     IF i = 0 THEN iter_from(get_next, HighestBit(bitcache))
     ELSE IF g[i - 1].prev = Sentinel THEN g[i - 1]
     ELSE IterNext(g[i - 1])]

Visits == CHOOSE g : g = Walk(g)

(* get_next_filter in terms of these states.                               *)
LEMMA FilterByVisits ==
  ASSUME NEW S
  PROVE  LET found == {i \in 0 .. N_THREADS : Visits[i].prev \in S}
             first == CHOOSE i \in found : \A j \in found : i <= j
         IN  get_next_filter(S) = IF bitcache = {} \/ found = {} THEN Sentinel
                                  ELSE Visits[first].prev
  BY DEF get_next_filter, Visits, Walk

(* The recursive definition is satisfied.                                  *)
LEMMA VisitsExist == Visits = Walk(Visits)
  <1> DEFINE Upto(m, g) ==
        /\ DOMAIN g = 0 .. m
        /\ \A i \in 0 .. m : g[i] = IF i = 0 THEN iter_from(get_next, HighestBit(bitcache))
                              ELSE IF g[i - 1].prev = Sentinel THEN g[i - 1]
                              ELSE IterNext(g[i - 1])
  <1> DEFINE D == {m \in Nat : ~\E g : g = [i \in 0 .. m |-> g[i]] /\ Upto(m, g)}
  <1>1. D = {}
    <2> SUFFICES ASSUME D # {} PROVE FALSE
      OBVIOUS
    <2>1. PICK m \in D : \A n \in D : m <= n
      <3>1. D \in SUBSET Nat
        OBVIOUS
      <3> HIDE DEF D
      <3> QED
        BY <3>1, LowestExists
    <2>2. CASE m = 0
      <3> DEFINE g == [i \in 0 .. 0 |-> iter_from(get_next, HighestBit(bitcache))]
      <3>1. g = [i \in 0 .. 0 |-> g[i]] /\ Upto(0, g)
        OBVIOUS
      <3> QED
        BY <2>1, <2>2, <3>1
    <2>3. CASE m # 0
      <3>1. m - 1 \in Nat /\ m - 1 \notin D
        BY <2>1, <2>3
      <3>2. PICK g : g = [i \in 0 .. m - 1 |-> g[i]] /\ Upto(m - 1, g)
        BY <3>1
      <3> DEFINE h == [i \in 0 .. m |-> IF i < m THEN g[i]
                         ELSE IF g[m - 1].prev = Sentinel THEN g[m - 1] ELSE IterNext(g[m - 1])]
      <3>3. Upto(m, h)
        <4>1. \A i \in 0 .. m - 1 : h[i] = g[i] 
          BY <2>1
        <4>2. h[m] = IF h[m - 1].prev = Sentinel THEN h[m - 1] ELSE IterNext(h[m - 1])
          BY <2>1, <3>1, <4>1
        <4>3. ASSUME NEW i \in 0 .. m
              PROVE h[i] = IF i = 0 THEN iter_from(get_next, HighestBit(bitcache))
                              ELSE IF h[i - 1].prev = Sentinel THEN h[i - 1]
                              ELSE IterNext(h[i - 1])
          <5>1. CASE i = m
            BY <4>2, <5>1, <2>3
          <5>2. CASE i < m
            <6> HIDE DEF h
            <6>1. i \in 0 .. m - 1 /\ (i # 0 => i - 1 \in 0 .. m - 1)
              BY <5>2, <2>1
            <6> QED
              BY <6>1, <4>1, <3>2
          <5> QED
            BY <5>1, <5>2, <2>1
        <4> QED
          BY <4>3
      <3>4. h = [i \in 0 .. m |-> h[i]]
        OBVIOUS
      <3> HIDE DEF h
      <3> QED
        BY <2>1, <3>3, <3>4
    <2> QED
      BY <2>2, <2>3
  <1>2. N_THREADS \in Nat
    BY SizeAssumption
  <1>3. PICK g : g = [i \in 0 .. N_THREADS |-> g[i]] /\ Upto(N_THREADS, g)
    BY <1>1, <1>2
  <1>4. g = Walk(g)
    BY <1>3 DEF Walk
  <1> QED
    BY <1>4 DEF Visits

(* The iterator at index p of runqueue rq.                                 *)
At(it, rq, p) ==
  it = [prev |-> queues[rq][p], rq_head |-> queues[rq][1],
        bits |-> {b \in Used(queues) : b <= rq}]

(* iter_from starts at the head of the highest runqueue.  The width of     *)
(* usize matters here: the shift of the mask must not wrap.                *)
LEMMA StartFacts ==
  ASSUME ListInv, bitcache # {}, N_QUEUES < USIZE_BITS
  PROVE  At(iter_from(get_next, HighestBit(bitcache)), HighestBit(bitcache), 1)
  <1> DEFINE h == HighestBit(bitcache)
  <1>1. h \in Queues /\ queues[h] # <<>>
    BY TopFacts
  <1>2. bitcache = Used(queues) /\ bitcache \in SUBSET Queues
    BY DEF ListInv, RunQueueTypeOK, Represents, BitcacheOK
  <1>3. get_next = queues[h][1] /\ peek_head(h) = queues[h][1]
    BY <1>1, QueueFacts DEF get_next
  <1>4. (h + 1) % USIZE_BITS = h + 1
    <2>1. h + 1 \in Nat /\ USIZE_BITS \in Nat /\ h + 1 < USIZE_BITS
      BY <1>1, SizeAssumption, WidthAssumption DEF Queues
    <2> HIDE DEF h
    <2> QED
      BY <2>1
  <1>5. BelowShift(bitcache, h + 1) = {b \in Used(queues) : b <= h}
    <2> HIDE DEF h
    <2>1. \A b \in bitcache : b < h + 1 <=> b <= h
      BY <1>1, <1>2, SizeAssumption DEF Queues
    <2> QED
      BY <1>2, <1>4, <2>1 DEF BelowShift
  <1> QED
    BY <1>3, <1>5 DEF iter_from, At

(* RunQueueIter::next goes to the next thread of the list, then to the     *)
(* head of the next lower runqueue.                                        *)
LEMMA StepFacts ==
  ASSUME ListInv, NEW rq \in Queues, NEW p \in 1 .. Len(queues[rq]), NEW it, At(it, rq, p)
  PROVE  LET lower == {r \in Used(queues) : r < rq}
         IN  /\ p < Len(queues[rq]) => At(IterNext(it), rq, p + 1)
             /\ p = Len(queues[rq]) /\ lower # {} =>
                  At(IterNext(it), HighestBit(lower), 1)
             /\ p = Len(queues[rq]) /\ lower = {} => IterNext(it).prev = Sentinel
  <1> DEFINE lower == {r \in Used(queues) : r < rq}
  <1> DEFINE L == Len(queues[rq])
  <1>1. /\ L \in Nat /\ 1 \in 1 .. L /\ queues[rq][1] \in Threads
        /\ next_idxs[queues[rq][p]] = Succ(queues[rq], p)
        /\ DOMAIN queues[rq] = 1 .. L
    BY QueueFacts
  <1>2. it.rq_head = queues[rq][1] /\ it.rq_head # Sentinel /\ it.prev = queues[rq][p]
        /\ it.bits = {b \in Used(queues) : b <= rq}
    BY <1>1, SentinelNotThread DEF At
  <1>3. rq \in Used(queues) /\ Used(queues) \in SUBSET Queues
    BY <1>1, EmptySeq, QueueFacts DEF Used
  <1>4. {b \in it.bits : \E o \in it.bits : b < o} = lower
    <2>1. \A b, o \in Queues : (b < o /\ o <= rq => b < rq) /\ (b < rq => b <= rq) /\ rq <= rq
      BY SizeAssumption DEF Queues
    <2> QED
      BY <1>2, <1>3, <2>1
  <1>5. CASE p < L
    <2>1. p + 1 \in 1 .. L /\ p + 1 # 1 /\ Succ(queues[rq], p) = queues[rq][p + 1]
      BY <1>1, <1>5 DEF Succ
    <2>2. queues[rq][p + 1] # queues[rq][1]
      BY <1>1, <2>1 DEF ListInv, Represents, QueuedOnce
    <2>3. IterNext(it) = [it EXCEPT !.prev = queues[rq][p + 1]]
      BY <1>1, <1>2, <2>1, <2>2 DEF IterNext
    <2>4. At(IterNext(it), rq, p + 1)
      BY <2>3 DEF At
    <2>5. p # L
      BY <1>1, <1>5
    <2> QED
      BY <2>4, <2>5
  <1>6. CASE p = L
    <2>1. next_idxs[it.prev] = it.rq_head
      BY <1>1, <1>2, <1>6 DEF Succ
    <2> DEFINE head == IF lower = {} THEN Sentinel ELSE peek_head(HighestBit(lower))
    <2>2. IterNext(it) = [prev |-> head, rq_head |-> head, bits |-> lower]
      BY <1>2, <1>4, <2>1 DEF IterNext
    <2>3. CASE lower = {}
      BY <2>2, <2>3, <1>6
    <2>4. CASE lower # {}
      <3>1. lower \in SUBSET Queues
        BY <1>3
      <3>2. PICK g : g = HighestBit(lower)
        OBVIOUS
      <3>3. g \in lower /\ \A b \in lower : b <= g
        BY <2>4, <3>1, <3>2, HighestBitFacts
      <3>4. peek_head(g) = queues[g][1]
        BY <3>3, QueueFacts DEF Used
      <3>5. lower = {b \in Used(queues) : b <= g}
        <4>1. \A b \in Queues : b <= g => b < rq
          BY <3>3, <3>1, SizeAssumption DEF Queues
        <4> QED
          BY <4>1, <3>3, <1>3
      <3>6. head = queues[g][1]
        BY <2>4, <3>2, <3>4
      <3>7. At(IterNext(it), g, 1)
        <4> HIDE DEF lower, head
        <4> QED
          BY <2>2, <3>5, <3>6 DEF At
      <3>8. ~(p < L)
        BY <1>1, <1>6
      <3> QED
        BY <2>4, <3>2, <3>7, <3>8
    <2> QED
      BY <2>3, <2>4
  <1> QED
    BY <1>1, <1>5, <1>6

(* Index l of runqueue r comes before index p of runqueue rq.              *)
ComesBefore(r, l, rq, p) == r > rq \/ (r = rq /\ l < p)

Visited(i, n) == \E j \in 0 .. i - 1 : Visits[j].prev = n

(* After i calls the iterator is at the first thread it has not returned   *)
(* yet, or has returned them all.                                          *)
ArrivedAt(i, rq, p) ==
  /\ At(Visits[i], rq, p)
  /\ \A r \in Queues : \A l \in 1 .. Len(queues[r]) :
       Visited(i, queues[r][l]) <=> ComesBefore(r, l, rq, p)

Arrived(i) == \E rq \in Queues : \E p \in 1 .. Len(queues[rq]) : ArrivedAt(i, rq, p)

Stopped(i) ==
  /\ Visits[i].prev = Sentinel
  /\ \A r \in Queues : \A l \in 1 .. Len(queues[r]) : Visited(i, queues[r][l])

(* One more call visits one more thread.                                   *)
LEMMA VisitedFacts ==
  ASSUME NEW i \in Nat, NEW n
  PROVE  /\ ~Visited(0, n)
         /\ Visited(i + 1, n) <=> Visited(i, n) \/ Visits[i].prev = n
  <1>1. 0 .. i + 1 - 1 = (0 .. i - 1) \cup {i}
    OBVIOUS
  <1>2. 0 .. 0 - 1 = {}
    OBVIOUS
  <1> QED
    BY <1>1, <1>2 DEF Visited

(* A call keeps the iterator at the first thread it has not returned.      *)
LEMMA VisitStep ==
  ASSUME ListInv, NEW i \in Nat, Arrived(i) \/ Stopped(i),
         Visits[i + 1] = IF Visits[i].prev = Sentinel THEN Visits[i] ELSE IterNext(Visits[i])
  PROVE  Arrived(i + 1) \/ Stopped(i + 1)
  <1>1. CASE Stopped(i)
    BY <1>1, VisitedFacts DEF Stopped
  <1>2. CASE Arrived(i)
    <2>12. PICK rq \in Queues : \E p \in 1 .. Len(queues[rq]) : ArrivedAt(i, rq, p)
      BY <1>2 DEF Arrived
    <2>13. PICK p \in 1 .. Len(queues[rq]) : ArrivedAt(i, rq, p)
      BY <2>12
    <2>1. /\ At(Visits[i], rq, p)
          /\ \A r \in Queues : \A l \in 1 .. Len(queues[r]) :
               Visited(i, queues[r][l]) <=> ComesBefore(r, l, rq, p)
      BY <2>13 DEF ArrivedAt
    <2>2. /\ Len(queues[rq]) \in Nat /\ queues[rq][p] \in Threads
          /\ DOMAIN queues[rq] = 1 .. Len(queues[rq])
      BY QueueFacts
    <2>3. Visits[i].prev = queues[rq][p] /\ Visits[i + 1] = IterNext(Visits[i])
      BY <2>1, <2>2, SentinelNotThread DEF At
    (* The thread just returned is now visited too. *)
    <2>4. ASSUME NEW r \in Queues, NEW l \in 1 .. Len(queues[r])
          PROVE  Visited(i + 1, queues[r][l]) <=> ComesBefore(r, l, rq, p) \/ (r = rq /\ l = p)
      <3>1. DOMAIN queues[r] = 1 .. Len(queues[r])
        BY QueueFacts
      <3>2. queues[rq][p] = queues[r][l] <=> r = rq /\ l = p
        BY <2>2, <3>1 DEF ListInv, Represents, QueuedOnce
      <3> QED
        BY <2>1, <2>3, <3>2, VisitedFacts
    <2> DEFINE lower == {r \in Used(queues) : r < rq}
    <2>5. CASE p < Len(queues[rq])
      <3>1. At(Visits[i + 1], rq, p + 1)
        BY <2>1, <2>3, <2>5, StepFacts
      <3>2. p + 1 \in 1 .. Len(queues[rq])
        BY <2>2, <2>5
      <3>3. ASSUME NEW r \in Queues, NEW l \in 1 .. Len(queues[r])
            PROVE  ComesBefore(r, l, rq, p) \/ (r = rq /\ l = p) <=> ComesBefore(r, l, rq, p + 1)
        <4>1. l \in Nat /\ p \in Nat
          BY <2>2, QueueFacts
        <4> QED
          BY <4>1 DEF ComesBefore
      <3> QED
        BY <2>4, <3>1, <3>2, <3>3 DEF Arrived, ArrivedAt
    <2>6. ASSUME p = Len(queues[rq]), NEW r \in Queues, NEW l \in 1 .. Len(queues[r])
          PROVE  ComesBefore(r, l, rq, p) \/ (r = rq /\ l = p) <=> r >= rq
      <3>1. Len(queues[r]) \in Nat /\ l \in Nat /\ l <= Len(queues[r])
        BY QueueFacts
      <3>2. r \in Nat /\ rq \in Nat
        BY SizeAssumption DEF Queues
      <3> QED
        BY <2>6, <3>1, <3>2 DEF ComesBefore
    <2>7. Used(queues) \in SUBSET Queues /\ lower \in SUBSET Queues
      BY DEF Used
    <2>8. ASSUME NEW r \in Queues, NEW l \in 1 .. Len(queues[r]) PROVE r \in Used(queues)
      BY QueueFacts, EmptySeq DEF Used
    <2>9. CASE p = Len(queues[rq]) /\ lower = {}
      <3>1. Visits[i + 1].prev = Sentinel
        BY <2>1, <2>3, <2>9, StepFacts
      <3>2. ASSUME NEW r \in Queues, NEW l \in 1 .. Len(queues[r]) PROVE r >= rq
        <4>1. ~(r < rq)
          BY <2>8, <2>9
        <4> QED
          BY <4>1, SizeAssumption DEF Queues
      <3> QED
        BY <2>4, <2>6, <2>9, <3>1, <3>2 DEF Stopped
    <2>10. CASE p = Len(queues[rq]) /\ lower # {}
      <3>1. PICK g : g = HighestBit(lower)
        OBVIOUS
      <3>2. g \in lower /\ \A b \in lower : b <= g
        BY <2>7, <2>10, <3>1, HighestBitFacts
      <3>3. At(Visits[i + 1], g, 1)
        BY <2>1, <2>3, <2>10, <3>1, StepFacts
      <3>4. g \in Queues /\ g < rq /\ queues[g] # <<>>
        BY <3>2 DEF Used
      <3>5. 1 \in 1 .. Len(queues[g])
        BY <3>4, QueueFacts
      <3>6. ASSUME NEW r \in Queues, NEW l \in 1 .. Len(queues[r])
            PROVE  r >= rq <=> ComesBefore(r, l, g, 1)
        <4>1. r < rq => r <= g
          BY <2>8, <3>2
        <4>2. l \in Nat /\ l >= 1
          BY QueueFacts
        <4> QED
          BY <3>4, <4>1, <4>2, SizeAssumption DEF ComesBefore, Queues
      <3> QED
        BY <2>4, <2>6, <2>10, <3>3, <3>4, <3>5, <3>6 DEF Arrived, ArrivedAt
    <2>11. p <= Len(queues[rq])
      BY <2>2
    <2> QED
      BY <2>2, <2>5, <2>9, <2>10, <2>11
  <1> QED
    BY <1>1, <1>2

(* The iterator visits the threads in order of priority and queueing.      *)
LEMMA VisitsInOrder ==
  ASSUME ListInv, bitcache # {}, N_QUEUES < USIZE_BITS
  PROVE  \A i \in 0 .. N_THREADS : Arrived(i) \/ Stopped(i)
  <1>1. N_THREADS \in Nat
    BY SizeAssumption
  <1> DEFINE D == {i \in 0 .. N_THREADS : ~(Arrived(i) \/ Stopped(i))}
  <1>2. SUFFICES ASSUME D # {} PROVE FALSE
    OBVIOUS
  <1>3. PICK m \in D : \A n \in D : m <= n
    <2>1. D \in SUBSET Nat
      BY <1>1
    <2> HIDE DEF D
    <2> QED
      BY <1>2, <2>1, LowestExists
  <1>4. CASE m = 0
    <2> DEFINE h == HighestBit(bitcache)
    <2>1. Visits[0] = iter_from(get_next, h)
      BY <1>1, VisitsExist DEF Walk
    <2>2. h \in Queues /\ queues[h] # <<>> /\ h = Top(queues)
      BY TopFacts
    <2>3. At(Visits[0], h, 1)
      BY <2>1, StartFacts
    <2>4. 1 \in 1 .. Len(queues[h])
      BY <2>2, QueueFacts
    <2>5. \A b \in Used(queues) : b <= h
      BY HighestBitFacts DEF ListInv, RunQueueTypeOK, Represents, BitcacheOK
    <2>6. ASSUME NEW r \in Queues, NEW l \in 1 .. Len(queues[r])
          PROVE  ~ComesBefore(r, l, h, 1)
      <3>1. r \in Used(queues)
        BY QueueFacts, EmptySeq DEF Used
      <3>2. r <= h /\ r \in Nat /\ h \in Nat /\ l \in Nat /\ l >= 1
        BY <2>2, <2>5, <3>1, QueueFacts, SizeAssumption DEF Queues
      <3> HIDE DEF h
      <3> QED
        BY <3>2 DEF ComesBefore
    <2> HIDE DEF h
    <2>7. Arrived(0)
      BY <2>2, <2>3, <2>4, <2>6, VisitedFacts DEF Arrived, ArrivedAt
    <2> QED
      BY <1>3, <1>4, <2>7
  <1>5. CASE m # 0
    <2>1. m - 1 \in 0 .. N_THREADS /\ m - 1 \in Nat /\ m - 1 \notin D /\ (m - 1) + 1 = m
      BY <1>1, <1>3, <1>5
    <2>2. Visits[m] = IF Visits[m - 1].prev = Sentinel THEN Visits[m - 1]
                      ELSE IterNext(Visits[m - 1])
      BY <1>1, <1>3, <1>5, VisitsExist DEF Walk
    <2>3. Arrived(m - 1) \/ Stopped(m - 1)
      BY <2>1
    <2>4. Arrived(m) \/ Stopped(m)
      BY <2>1, <2>2, <2>3, VisitStep
    <2> QED
      BY <1>3, <2>4
  <1> QED
    BY <1>4, <1>5

(* N_THREADS calls are enough: the threads returned differ.                *)
LEMMA VisitsEnd ==
  ASSUME ListInv, bitcache # {}, N_QUEUES < USIZE_BITS
  PROVE  \E i \in 0 .. N_THREADS : Stopped(i)
  <1> SUFFICES ASSUME \A i \in 0 .. N_THREADS : ~Stopped(i) PROVE FALSE
    OBVIOUS
  <1> DEFINE f == [i \in 0 .. N_THREADS |-> Visits[i].prev]
  <1>1. N_THREADS \in Nat \ {0}
    BY SizeAssumption
  <1>2. ASSUME NEW i \in 0 .. N_THREADS
        PROVE  Visits[i].prev \in Threads /\ ~Visited(i, Visits[i].prev)
    <2>1. PICK rq \in Queues : \E p \in 1 .. Len(queues[rq]) : ArrivedAt(i, rq, p)
      BY VisitsInOrder DEF Arrived
    <2>2. PICK p \in 1 .. Len(queues[rq]) : ArrivedAt(i, rq, p)
      BY <2>1
    <2>3. Visits[i].prev = queues[rq][p] /\ queues[rq][p] \in Threads
      BY <2>2, QueueFacts DEF ArrivedAt, At
    <2>4. rq \in Nat /\ p \in Nat
      BY QueueFacts, SizeAssumption DEF Queues
    <2>5. ~ComesBefore(rq, p, rq, p)
      BY <2>4 DEF ComesBefore
    <2> QED
      BY <2>2, <2>3, <2>5 DEF ArrivedAt
  <1>3. f \in [0 .. N_THREADS -> Threads]
    BY <1>2
  <1>4. /\ IsFiniteSet(0 .. N_THREADS) /\ Cardinality(0 .. N_THREADS) = N_THREADS + 1
        /\ IsFiniteSet(Threads) /\ Cardinality(Threads) = N_THREADS
    <2>1. 0 \in Int /\ N_THREADS \in Int /\ N_THREADS - 1 \in Int
      BY <1>1
    <2>2. IsFiniteSet(0 .. N_THREADS)
          /\ Cardinality(0 .. N_THREADS) = IF 0 > N_THREADS THEN 0 ELSE N_THREADS - 0 + 1
      BY <2>1, FS_Interval
    <2>3. IsFiniteSet(0 .. N_THREADS - 1)
          /\ Cardinality(0 .. N_THREADS - 1) =
               IF 0 > N_THREADS - 1 THEN 0 ELSE (N_THREADS - 1) - 0 + 1
      BY <2>1, FS_Interval
    <2> QED
      BY <1>1, <2>2, <2>3 DEF Threads
  <1>5. PICK x, y \in 0 .. N_THREADS : x # y /\ f[x] = f[y]
    <2>1. Cardinality(Threads) < Cardinality(0 .. N_THREADS)
      BY <1>1, <1>4
    <2> HIDE DEF f
    <2> QED
      BY <1>3, <1>4, <2>1, FS_PigeonHole
  <1>6. \A i, j \in 0 .. N_THREADS : i < j => f[i] # f[j]
    <2> SUFFICES ASSUME NEW i \in 0 .. N_THREADS, NEW j \in 0 .. N_THREADS, i < j, f[i] = f[j]
                 PROVE  FALSE
      OBVIOUS
    <2>1. i \in 0 .. j - 1
      BY <1>1
    <2> QED
      BY <1>2, <2>1 DEF Visited
  <1>7. x < y \/ y < x
    BY <1>1, <1>5
  <1> QED
    BY <1>5, <1>6, <1>7

(* The iterator answers the first accepted thread.                         *)
LEMMA ListFilterFacts ==
  ASSUME ListInv, N_QUEUES < USIZE_BITS, NEW S \in SUBSET Threads
  PROVE  get_next_filter(S) = QNextFilter(queues, S)
  <1> DEFINE hit == {r \in Queues : \E n \in S : In(queues[r], n)}
             found == {i \in 0 .. N_THREADS : Visits[i].prev \in S}
             first == CHOOSE i \in found : \A j \in found : i <= j
  <1>1. get_next_filter(S) = IF bitcache = {} \/ found = {} THEN Sentinel ELSE Visits[first].prev
    BY FilterByVisits
  <1>2. bitcache = Used(queues) /\ Used(queues) \in SUBSET Queues
    BY DEF ListInv, Represents, BitcacheOK, Used
  <1>3. ASSUME NEW r \in hit
        PROVE  r \in Queues /\ \E l \in 1 .. Len(queues[r]) : queues[r][l] \in S
    BY QueueFacts DEF In
  <1>4. N_THREADS \in Nat
    BY SizeAssumption
  <1>5. CASE bitcache = {}
    <2>1. hit = {}
      <3>1. \A r \in hit : r \in Used(queues)
        BY <1>3, QueueFacts, EmptySeq DEF Used
      <3> QED
        BY <1>2, <1>5, <3>1
    <2> QED
      BY <1>1, <1>5, <2>1 DEF QNextFilter
  <1>6. CASE bitcache # {} /\ found = {}
    <2>1. PICK e \in 0 .. N_THREADS : Stopped(e)
      BY <1>6, VisitsEnd
    <2>2. hit = {}
      <3> SUFFICES ASSUME NEW r \in hit PROVE FALSE
        OBVIOUS
      <3>1. PICK l \in 1 .. Len(queues[r]) : queues[r][l] \in S
        BY <1>3
      <3>2. PICK j \in 0 .. e - 1 : Visits[j].prev = queues[r][l]
        BY <1>3, <2>1, <3>1 DEF Stopped, Visited
      <3>3. j \in 0 .. N_THREADS
        BY <1>4
      <3> QED
        BY <1>6, <3>1, <3>2, <3>3
    <2> QED
      BY <1>1, <1>6, <2>2 DEF QNextFilter
  <1>7. CASE bitcache # {} /\ found # {}
    <2>1. first \in found /\ \A j \in found : first <= j
      <3>1. found \in SUBSET Nat
        BY <1>4
      <3> HIDE DEF found
      <3> QED
        BY <1>7, <3>1, LowestExists
    <2>2. PICK e : e = first
      OBVIOUS
    <2>3. e \in 0 .. N_THREADS /\ Visits[e].prev \in S /\ \A j \in found : e <= j
      BY <2>1, <2>2
    <2>4. Visits[e].prev # Sentinel
      BY <2>3, SentinelNotThread
    <2>5. PICK rq \in Queues : \E p \in 1 .. Len(queues[rq]) : ArrivedAt(e, rq, p)
      BY <1>7, <2>3, <2>4, VisitsInOrder DEF Arrived, Stopped
    <2>6. PICK p \in 1 .. Len(queues[rq]) : ArrivedAt(e, rq, p)
      BY <2>5
    <2>7. Visits[e].prev = queues[rq][p]
      BY <2>6 DEF ArrivedAt, At
    <2>8. ASSUME NEW r \in Queues, NEW l \in 1 .. Len(queues[r]), ComesBefore(r, l, rq, p)
          PROVE  queues[r][l] \notin S
      <3>1. PICK j \in 0 .. e - 1 : Visits[j].prev = queues[r][l]
        BY <2>6, <2>8 DEF ArrivedAt, Visited
      <3>2. j \in 0 .. N_THREADS /\ ~(e <= j)
        BY <1>4, <2>3
      <3> QED
        BY <2>3, <3>1, <3>2
    <2>9. DOMAIN queues[rq] = 1 .. Len(queues[rq]) /\ Len(queues[rq]) \in Nat
      BY QueueFacts
    <2>10. rq \in hit /\ \A s \in hit : s <= rq
      <3>1. rq \in hit
        BY <2>3, <2>7, <2>9 DEF In
      <3>2. ASSUME NEW s \in hit PROVE s <= rq
        <4>1. PICK l \in 1 .. Len(queues[s]) : queues[s][l] \in S
          BY <1>3
        <4>2. ~(s > rq)
          BY <1>3, <2>8, <4>1 DEF ComesBefore
        <4> QED
          BY <1>3, <4>2, SizeAssumption DEF Queues
      <3> QED
        BY <3>1, <3>2
    <2>11. (CHOOSE r \in hit : \A s \in hit : s <= r) = rq
      <3>1. \A r \in hit : (\A s \in hit : s <= r) => r = rq
        BY <1>3, <2>10, SizeAssumption DEF Queues
      <3> HIDE DEF hit
      <3> QED
        BY <2>10, <3>1
    <2>12. (CHOOSE j \in DOMAIN queues[rq] : /\ queues[rq][j] \in S
                                             /\ \A l \in 1 .. j - 1 : queues[rq][l] \notin S) = p
      <3>1. \A l \in 1 .. p - 1 : queues[rq][l] \notin S
        BY <2>8, <2>9 DEF ComesBefore
      <3>2. \A j \in 1 .. Len(queues[rq]) :
              queues[rq][j] \in S /\ (\A l \in 1 .. j - 1 : queues[rq][l] \notin S) => j = p
        <4> SUFFICES ASSUME NEW j \in 1 .. Len(queues[rq]), queues[rq][j] \in S,
                            \A l \in 1 .. j - 1 : queues[rq][l] \notin S
                     PROVE  j = p
          OBVIOUS
        <4>1. ~(p < j) /\ ~(j < p)
          BY <2>3, <2>7, <2>9, <3>1
        <4> QED
          BY <2>9, <4>1
      <3> QED
        BY <2>3, <2>7, <2>9, <3>1, <3>2
    <2>13. get_next_filter(S) = queues[rq][p]
      BY <1>1, <1>7, <2>2, <2>7
    <2> HIDE DEF hit
    <2>14. hit # {}
      BY <2>10
    <2> QED
      BY <2>11, <2>12, <2>13, <2>14 DEF QNextFilter, hit
  <1> QED
    BY <1>5, <1>6, <1>7

-----------------------------------------------------------------------------
(* The theorems.                                                           *)

(* The invariant is inductive.                                             *)
LEMMA SimInvariant == SimSpec => []ListInv
  <1>1. SimInit => ListInv
    <2> SUFFICES ASSUME SimInit PROVE ListInv
      OBVIOUS
    <2>1. \A rq \in Queues : queues[rq] = <<>>
      BY DEF SimInit, EmptyQueues
    <2>2. queues \in [Queues -> Seq(Threads)]
      BY EmptySeq DEF SimInit, EmptyQueues
    <2>3. DOMAIN <<>> = {}
      OBVIOUS
    <2> QED
      BY <2>1, <2>2, <2>3
      DEF SimInit, RunQueueInit, ListInv, RunQueueTypeOK, Represents, QueuesOK, QueuedOnce, TailsOK, LinksOK,
          UnlinkedOK, BitcacheOK, Used
  <1>2. ListInv /\ [SimNext]_simvars => ListInv'
    <2> SUFFICES ASSUME ListInv, [SimNext]_simvars PROVE ListInv'
      OBVIOUS
    <2>1. CASE SimPopNext
      BY <2>1, PopNextStep
    <2>2. CASE \E n \in Threads : SimDel(n)
      BY <2>2, DelStep
    <2>3. CASE \E rq \in Queues : SimAdvance(rq)
      BY <2>3, AdvanceStep
    <2>4. CASE \E n \in Threads, rq \in Queues : SimAdd(n, rq)
      BY <2>4, AddStep
    <2>5. CASE \E n \in Threads, rq \in Queues : SimPopHead(n, rq)
      BY <2>5, PopHeadStep
    <2>6. CASE UNCHANGED simvars
      BY <2>6
      DEF simvars, rqvars, ListInv, RunQueueTypeOK, Represents, QueuesOK, QueuedOnce, TailsOK, LinksOK,
          UnlinkedOK, BitcacheOK
    <2> QED
      BY <2>1, <2>2, <2>3, <2>4, <2>5, <2>6 DEF SimNext
  <1> QED
    BY <1>1, <1>2, PTL DEF SimSpec

(* Indexes stored in tail and next_idxs are thread ids or the sentinel.    *)
THEOREM ListsTypeCorrect == SimSpec => []RunQueueTypeOK
  <1>1. ListInv => RunQueueTypeOK
    BY DEF ListInv
  <1> QED
    BY <1>1, SimInvariant, PTL

(* The linked lists of runqueue.rs always encode the FIFOs, for every      *)
(* number of threads and of priorities.                                    *)
THEOREM ListsRepresentFifos == SimSpec => []Represents
  <1>1. ListInv => Represents
    BY DEF ListInv
  <1> QED
    BY <1>1, SimInvariant, PTL

(* get_next, which the single-core scheduler follows, always answers the   *)
(* oldest thread of the highest non-empty priority.                        *)
THEOREM GetNextIsFifo == SimSpec => []GetNextCorrect
  <1>1. ListInv => GetNextCorrect
    BY GetNextFacts DEF GetNextCorrect
  <1> QED
    BY <1>1, SimInvariant, PTL

(* get_next_filter, the multi-core scheduler's search for a thread that    *)
(* may run on a core, answers the first accepted thread for every          *)
(* predicate, when there are fewer runqueues than usize has bits (with as  *)
(* many, the mask of iter_from overflows: see the run runqueue_wide).      *)
THEOREM FilterIsFifo ==
  ASSUME N_QUEUES < USIZE_BITS
  PROVE  SimSpec => []FilterCorrect
  <1>1. ListInv => FilterCorrect
    BY ListFilterFacts DEF FilterCorrect
  <1> QED
    BY <1>1, SimInvariant, PTL

(* Every call on the linked lists is a step of the FIFOs, with the same    *)
(* return value.                                                           *)
THEOREM ListsImplementFifos == SimSpec => ImplementsFifos
  <1>1. SimInit => Abstract!Init
    BY DEF SimInit, RunQueueInit, Abstract!Init, EmptyQueues, Abstract!EmptyQueues, Queues,
           Abstract!Queues, Sentinel, Abstract!Sentinel
  <1>2. ListInv /\ [SimNext]_simvars => [Abstract!Next]_(Abstract!vars)
    <2> SUFFICES ASSUME ListInv, [SimNext]_simvars
                 PROVE  Abstract!Next \/ UNCHANGED Abstract!vars
      BY DEF Abstract!vars
    <2> USE DEF Queues, Abstract!Queues, Threads, Abstract!Threads
    <2>1. CASE SimPopNext
      <3>1. ret' = QNext(queues) /\ moved' = moved
        BY <2>1, GetNextFacts DEF SimPopNext, PopNext
      <3>2. Abstract!PopNext
        BY <2>1, <3>1
        DEF SimPopNext, Abstract!PopNext, QNext, Abstract!QNext, Used, Abstract!Used, Top,
            Abstract!Top, IsTop, Abstract!IsTop, QPopHead, Abstract!QPopHead, Sentinel,
            Abstract!Sentinel
      <3> QED
        BY <3>2 DEF Abstract!Next
    <2>2. ASSUME NEW n \in Threads, SimDel(n)
          PROVE  Abstract!Next
      <3>1. Abstract!Del(n)
        BY <2>2
        DEF SimDel, Del, Abstract!Del, QDel, Abstract!QDel, In, Abstract!In, Without,
            Abstract!Without, IndexOf, Abstract!IndexOf
      <3> QED
        BY <3>1 DEF Abstract!Next
    <2>3. ASSUME NEW rq \in Queues, SimAdvance(rq)
          PROVE  Abstract!Next
      <3>1. moved' = (Len(queues[rq]) > 1)
        BY <2>3, AdvanceStep
      <3>2. Abstract!Advance(rq)
        BY <2>3, <3>1 DEF SimAdvance, Advance, Abstract!Advance, QAdvance, Abstract!QAdvance
      <3> QED
        BY <3>2 DEF Abstract!Next
    <2>4. ASSUME NEW n \in Threads, NEW rq \in Queues, SimAdd(n, rq)
          PROVE  Abstract!Next
      <3>1. Abstract!Add(n, rq)
        BY <2>4 DEF SimAdd, Add, Abstract!Add, QAdd, Abstract!QAdd, In, Abstract!In
      <3> QED
        BY <3>1 DEF Abstract!Next
    <2>5. ASSUME NEW n \in Threads, NEW rq \in Queues, SimPopHead(n, rq)
          PROVE  Abstract!Next
      <3>1. queues[rq] # <<>> /\ queues[rq] \in Seq(Threads)
        BY <2>5, QueueFacts DEF SimPopHead, PopHead, IsEmpty
      <3>2. queues[rq][1] = n
        BY <2>5, <3>1, QueueFacts DEF SimPopHead, PopHead
      <3>3. Head(queues[rq]) = n
        BY <3>1, <3>2, TailFacts
      <3>4. Abstract!PopHead(n, rq)
        BY <2>5, <3>1, <3>3 DEF SimPopHead, PopHead, Abstract!PopHead, QPopHead, Abstract!QPopHead
      <3> QED
        BY <3>4 DEF Abstract!Next
    <2>6. CASE UNCHANGED simvars
      BY <2>6 DEF simvars, rqvars, Abstract!vars
    <2> QED
      BY <2>1, <2>2, <2>3, <2>4, <2>5, <2>6 DEF SimNext
  <1> QED
    BY <1>1, <1>2, SimInvariant, PTL DEF SimSpec, ImplementsFifos, Abstract!Spec
=============================================================================
