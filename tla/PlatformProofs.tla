--------------------------- MODULE PlatformProofs ---------------------------
(***************************************************************************)
(* Theorems about the parts of the system that are not the scheduler: the  *)
(* CoAP server's security contexts, and the parts of the platform.         *)
(***************************************************************************)
EXTENDS SecContexts, MCPlatform, RunQueueProofs

-----------------------------------------------------------------------------
(* OrderedPool.                                                            *)

PoolType(E) == [entries : Seq(E), sorted : Seq(Nat)]

(* sorted is a permutation of the indices of entries.                      *)
Permutes(v) ==
  /\ Len(v.sorted) = Len(v.entries) /\ Len(v.entries) <= MAX_CONTEXTS
  /\ \A i \in DOMAIN v.sorted : v.sorted[i] \in DOMAIN v.entries
  /\ \A i, j \in DOMAIN v.sorted : v.sorted[i] = v.sorted[j] => i = j

(* Where the element at i comes from when the one at pos is moved to q.    *)
Moved(pos, q, i) ==
  IF i = q THEN pos
  ELSE IF q < i /\ i <= pos THEN i - 1
  ELSE IF pos <= i /\ i < q THEN i + 1
  ELSE i

(* Moving is a permutation of the positions.                               *)
LEMMA MovedFacts ==
  ASSUME NEW len \in Nat, NEW pos \in 1 .. len, NEW q \in 1 .. len
  PROVE  /\ \A i \in 1 .. len : Moved(pos, q, i) \in 1 .. len
         /\ \A i, j \in 1 .. len : Moved(pos, q, i) = Moved(pos, q, j) => i = j
  BY DEF Moved

(* What the rotations of touch() do, position by position.                 *)
LEMMA MoveToFacts ==
  ASSUME NEW S, NEW z \in Seq(S), NEW pos \in 1 .. Len(z), NEW q \in 1 .. Len(z)
  PROVE  LET t == Pool!MoveTo(z, pos, q)
         IN  /\ t \in Seq(S) /\ Len(t) = Len(z) /\ DOMAIN t = 1 .. Len(z)
             /\ \A i \in 1 .. Len(z) : t[i] = z[Moved(pos, q, i)]
  <1> DEFINE t == Pool!MoveTo(z, pos, q)
  <1>1. Len(z) \in Nat /\ DOMAIN z = 1 .. Len(z) /\ \A i \in 1 .. Len(z) : z[i] \in S
    OBVIOUS
  <1>2. DOMAIN t = 1 .. Len(z)
    BY <1>1 DEF Pool!MoveTo
  <1>3. ASSUME NEW i \in 1 .. Len(z) PROVE t[i] = z[Moved(pos, q, i)]
    <2>1. t[i] = CASE i = q -> z[pos]
                   [] q < i /\ i <= pos -> z[i - 1]
                   [] pos <= i /\ i < q -> z[i + 1]
                   [] OTHER -> z[i]
      BY <1>1 DEF Pool!MoveTo
    <2> HIDE DEF t
    <2>2. i \in Int /\ q \in Int /\ pos \in Int
      BY <1>1
    <2>3. CASE i = q
      BY <2>1, <2>2, <2>3 DEF Moved
    <2>4. CASE i # q /\ q < i /\ i <= pos
      <3>1. ~(pos <= i /\ i < q)
        BY <2>2, <2>4
      <3> QED
        BY <2>1, <2>2, <2>4, <3>1 DEF Moved
    <2>5. CASE i # q /\ ~(q < i /\ i <= pos) /\ pos <= i /\ i < q
      BY <2>1, <2>2, <2>5 DEF Moved
    <2>6. CASE i # q /\ ~(q < i /\ i <= pos) /\ ~(pos <= i /\ i < q)
      BY <2>1, <2>2, <2>6 DEF Moved
    <2> QED
      BY <2>3, <2>4, <2>5, <2>6
  <1>4. \A i \in 1 .. Len(z) : t[i] \in S
    BY <1>1, <1>3, MovedFacts
  <1>5. t = [i \in 1 .. Len(z) |-> t[i]]
    BY <1>1 DEF Pool!MoveTo
  <1>6. t \in Seq(S) /\ Len(t) = Len(z)
    <2> HIDE DEF t
    <2> QED
      BY <1>1, <1>2, <1>4, <1>5
  <1> QED
    BY <1>2, <1>3, <1>6

(* Levels that are sorted but for the one at pos are sorted after it has   *)
(* moved to where touch() puts it.                                         *)
LEMMA SortedMove ==
  ASSUME NEW len \in Nat, NEW L \in [1 .. len -> Int],
         NEW pos \in 1 .. len, NEW q \in 1 .. len,
         \A i, j \in 1 .. len : i < j /\ i # pos /\ j # pos => L[i] <= L[j],
         \/ /\ q < pos
            /\ \A i \in q .. pos - 1 : L[i] >= L[pos]
            /\ q > 1 => L[q - 1] < L[pos]
         \/ /\ pos <= q
            /\ pos > 1 => L[pos - 1] < L[pos]
            /\ \A i \in pos + 1 .. q : L[i] < L[pos]
            /\ q < len => L[q + 1] >= L[pos],
         NEW i \in 1 .. len, NEW j \in 1 .. len, i < j
  PROVE  L[Moved(pos, q, i)] <= L[Moved(pos, q, j)]
  <1>1. \A x \in 1 .. len : L[x] \in Int
    OBVIOUS
  <1>2. CASE /\ q < pos
             /\ \A x \in q .. pos - 1 : L[x] >= L[pos]
             /\ q > 1 => L[q - 1] < L[pos]
    <2>1. \A x \in 1 .. len : x < q => L[x] <= L[pos]
      <3> SUFFICES ASSUME NEW x \in 1 .. len, x < q PROVE L[x] <= L[pos]
        OBVIOUS
      <3>1. q - 1 \in 1 .. len /\ q > 1 /\ q - 1 # pos /\ x # pos
        BY <1>2
      <3>2. x = q - 1 \/ L[x] <= L[q - 1]
        BY <1>2, <3>1
      <3> QED
        BY <1>1, <1>2, <3>1, <3>2
    <2>2. \A x \in 1 .. len : x >= q /\ x # pos => L[pos] <= L[x]
      <3> SUFFICES ASSUME NEW x \in 1 .. len, x >= q, x # pos PROVE L[pos] <= L[x]
        OBVIOUS
      <3>1. CASE x < pos
        BY <1>1, <1>2, <3>1
      <3>2. CASE x > pos
        <4>1. pos - 1 \in 1 .. len /\ pos - 1 \in q .. pos - 1 /\ pos - 1 # pos /\ pos - 1 < x
          BY <1>2, <3>2
        <4>2. L[pos - 1] <= L[x]
          BY <4>1
        <4>3. L[pos] <= L[pos - 1]
          BY <1>1, <1>2, <4>1
        <4> QED
          BY <1>1, <4>1, <4>2, <4>3
      <3> QED
        BY <3>1, <3>2
    <2>3. CASE i = q
      <3>1. Moved(pos, q, i) = pos /\ Moved(pos, q, j) \in 1 .. len
            /\ Moved(pos, q, j) >= q /\ Moved(pos, q, j) # pos
        BY <1>2, <2>3 DEF Moved
      <3> QED
        BY <2>2, <3>1
    <2>4. CASE j = q
      <3>1. Moved(pos, q, j) = pos /\ Moved(pos, q, i) = i /\ i < q
        BY <1>2, <2>4 DEF Moved
      <3> QED
        BY <2>1, <3>1
    <2>5. CASE i # q /\ j # q
      <3>1. /\ Moved(pos, q, i) \in 1 .. len /\ Moved(pos, q, j) \in 1 .. len
            /\ Moved(pos, q, i) # pos /\ Moved(pos, q, j) # pos
            /\ Moved(pos, q, i) < Moved(pos, q, j)
        BY <1>2, <2>5 DEF Moved
      <3> QED
        BY <3>1
    <2> QED
      BY <2>3, <2>4, <2>5
  <1>3. CASE /\ pos <= q
             /\ pos > 1 => L[pos - 1] < L[pos]
             /\ \A x \in pos + 1 .. q : L[x] < L[pos]
             /\ q < len => L[q + 1] >= L[pos]
    <2>1. \A x \in 1 .. len : x <= q /\ x # pos => L[x] <= L[pos]
      <3> SUFFICES ASSUME NEW x \in 1 .. len, x <= q, x # pos PROVE L[x] <= L[pos]
        OBVIOUS
      <3>1. CASE x > pos
        BY <1>1, <1>3, <3>1
      <3>2. CASE x < pos
        <4>1. pos - 1 \in 1 .. len /\ pos > 1 /\ pos - 1 # pos /\ L[pos - 1] < L[pos]
          BY <1>3, <3>2
        <4>2. x = pos - 1 \/ L[x] <= L[pos - 1]
          BY <3>2, <4>1
        <4> QED
          BY <1>1, <4>1, <4>2
      <3> QED
        BY <3>1, <3>2
    <2>2. \A x \in 1 .. len : x > q => L[pos] <= L[x]
      <3> SUFFICES ASSUME NEW x \in 1 .. len, x > q PROVE L[pos] <= L[x]
        OBVIOUS
      <3>1. q + 1 \in 1 .. len /\ q < len /\ q + 1 # pos /\ x # pos
        BY <1>3
      <3>2. x = q + 1 \/ L[q + 1] <= L[x]
        BY <3>1
      <3>3. L[q + 1] >= L[pos]
        BY <1>3, <3>1
      <3> QED
        BY <1>1, <3>1, <3>2, <3>3
    <2>3. CASE i = q
      <3>1. Moved(pos, q, i) = pos /\ Moved(pos, q, j) = j /\ j > q
        BY <1>3, <2>3 DEF Moved
      <3> QED
        BY <2>2, <3>1
    <2>4. CASE j = q
      <3>1. Moved(pos, q, j) = pos /\ Moved(pos, q, i) \in 1 .. len
            /\ Moved(pos, q, i) <= q /\ Moved(pos, q, i) # pos
        BY <1>3, <2>4 DEF Moved
      <3> QED
        BY <2>1, <3>1
    <2>5. CASE i # q /\ j # q
      <3>1. /\ Moved(pos, q, i) \in 1 .. len /\ Moved(pos, q, j) \in 1 .. len
            /\ Moved(pos, q, i) # pos /\ Moved(pos, q, j) # pos
            /\ Moved(pos, q, i) < Moved(pos, q, j)
        BY <1>3, <2>5 DEF Moved
      <3> QED
        BY <3>1
    <2> QED
      BY <2>3, <2>4, <2>5
  <1> QED
    BY <1>2, <1>3

(* The position that touch() looks for to the front.                       *)
LEMMA FrontOfFacts ==
  ASSUME NEW v, NEW len \in Nat, Len(v.sorted) = len,
         \A i \in 1 .. len : Pool!LevelAt(v, i) \in Nat,
         NEW pos \in 1 .. len
  PROVE  LET q == Pool!FrontOf(v, pos)
         IN  /\ q \in 1 .. pos
             /\ \A i \in q .. pos - 1 : Pool!LevelAt(v, i) >= Pool!LevelAt(v, pos)
             /\ q > 1 => Pool!LevelAt(v, q - 1) < Pool!LevelAt(v, pos)
  <1> DEFINE D == {q \in 1 .. pos :
                     \A i \in q .. pos - 1 : Pool!LevelAt(v, i) >= Pool!LevelAt(v, pos)}
  <1>1. D \in SUBSET Nat /\ pos \in D
    OBVIOUS
  <1>2. PICK q \in D : \A x \in D : q <= x
    BY <1>1, LowestExists
  <1>3. q > 1 => Pool!LevelAt(v, q - 1) < Pool!LevelAt(v, pos)
    <2> SUFFICES ASSUME q > 1, Pool!LevelAt(v, q - 1) >= Pool!LevelAt(v, pos) PROVE FALSE
      <3>1. q > 1 => Pool!LevelAt(v, q - 1) \in Nat /\ Pool!LevelAt(v, pos) \in Nat
        OBVIOUS
      <3> QED
        BY <3>1
    <2>1. q - 1 \in D
      <3>1. \A i \in q - 1 .. pos - 1 : i = q - 1 \/ i \in q .. pos - 1
        OBVIOUS
      <3> QED
        BY <3>1
    <2>2. q \in Int /\ q <= q - 1
      BY <1>2, <2>1
    <2> QED
      BY <2>2
  <1>4. \E x \in 1 .. pos :
          /\ \A i \in x .. pos - 1 : Pool!LevelAt(v, i) >= Pool!LevelAt(v, pos)
          /\ x > 1 => Pool!LevelAt(v, x - 1) < Pool!LevelAt(v, pos)
    BY <1>2, <1>3
  <1> QED
    BY <1>4 DEF Pool!FrontOf

(* A non-empty set of numbers up to a bound has a highest one.             *)
LEMMA HighestUpTo ==
  ASSUME NEW len \in Nat, NEW D \in SUBSET (0 .. len), D # {}
  PROVE  \E q \in D : \A x \in D : x <= q
  <1> DEFINE M == {len - x : x \in D}
  <1>1. M \in SUBSET Nat /\ M # {}
    <2>1. \A x \in D : len - x \in Nat
      OBVIOUS
    <2> QED
      BY <2>1
  <1>2. PICK y \in M : \A x \in M : y <= x
    <2> HIDE DEF M
    <2> QED
      BY <1>1, LowestExists
  <1>3. PICK q \in D : y = len - q
    BY <1>2
  <1>4. ASSUME NEW x \in D PROVE x <= q
    <2>1. len - x \in M
      OBVIOUS
    <2>2. len - q <= len - x
      BY <1>2, <1>3, <2>1
    <2>3. x \in Int /\ q \in Int
      OBVIOUS
    <2> QED
      BY <2>2, <2>3
  <1> QED
    BY <1>4

(* And the one to the back.                                                *)
LEMMA BackOfFacts ==
  ASSUME NEW v, NEW len \in Nat, Len(v.sorted) = len,
         \A i \in 1 .. len : Pool!LevelAt(v, i) \in Nat,
         NEW pos \in 1 .. len
  PROVE  LET q == Pool!BackOf(v, pos)
         IN  /\ q \in pos .. len
             /\ \A i \in pos + 1 .. q : Pool!LevelAt(v, i) < Pool!LevelAt(v, pos)
             /\ q < len => Pool!LevelAt(v, q + 1) >= Pool!LevelAt(v, pos)
  <1> DEFINE D == {q \in pos .. len :
                     \A i \in pos + 1 .. q : Pool!LevelAt(v, i) < Pool!LevelAt(v, pos)}
  <1>1. D \in SUBSET (0 .. len) /\ pos \in D
    OBVIOUS
  <1>2. PICK q \in D : \A x \in D : x <= q
    BY <1>1, HighestUpTo
  <1>3. q < len => Pool!LevelAt(v, q + 1) >= Pool!LevelAt(v, pos)
    <2> SUFFICES ASSUME q < len, Pool!LevelAt(v, q + 1) < Pool!LevelAt(v, pos) PROVE FALSE
      <3>1. q < len => Pool!LevelAt(v, q + 1) \in Nat /\ Pool!LevelAt(v, pos) \in Nat
        OBVIOUS
      <3> QED
        BY <3>1
    <2>1. q + 1 \in D
      <3>1. \A i \in pos + 1 .. q + 1 : i = q + 1 \/ i \in pos + 1 .. q
        OBVIOUS
      <3> QED
        BY <3>1
    <2> QED
      BY <1>2, <2>1
  <1>4. \E x \in pos .. len :
          /\ \A i \in pos + 1 .. x : Pool!LevelAt(v, i) < Pool!LevelAt(v, pos)
          /\ x < len => Pool!LevelAt(v, x + 1) >= Pool!LevelAt(v, pos)
    BY <1>2, <1>3
  <1> QED
    BY <1>4 DEF Pool!BackOf

(* touch(): the entries stay, and the pool is ordered if it was but for    *)
(* the entry that is touched.                                              *)
LEMMA TouchFacts ==
  ASSUME NEW E, \A e \in E : SecLevel(e) \in Nat,
         NEW v \in PoolType(E), Permutes(v), NEW pos \in DOMAIN v.sorted,
         \A i, j \in DOMAIN v.sorted :
           i < j /\ i # pos /\ j # pos => Pool!LevelAt(v, i) <= Pool!LevelAt(v, j)
  PROVE  LET t == Pool!Touch(v, pos)
         IN  t \in PoolType(E) /\ t.entries = v.entries /\ Pool!IsOrdered(t)
  <1> DEFINE t == Pool!Touch(v, pos)
             q == IF Pool!FrontOf(v, pos) = pos THEN Pool!BackOf(v, pos)
                  ELSE Pool!FrontOf(v, pos)
             len == Len(v.sorted)
             L == [i \in 1 .. len |-> Pool!LevelAt(v, i)]
  <1>1. /\ v.entries \in Seq(E) /\ v.sorted \in Seq(Nat) /\ len \in Nat
        /\ DOMAIN v.sorted = 1 .. len /\ DOMAIN v.entries = 1 .. len
        /\ Len(v.entries) = len
        /\ v = [entries |-> v.entries, sorted |-> v.sorted]
    BY DEF PoolType, Permutes
  <1>2. \A i \in 1 .. len : v.entries[v.sorted[i]] \in E
    BY <1>1 DEF Permutes
  <1>3. \A i \in 1 .. len : Pool!LevelAt(v, i) \in Nat
    BY <1>2 DEF Pool!LevelAt
  <1>4. t = [entries |-> v.entries, sorted |-> Pool!MoveTo(v.sorted, pos, q)]
    BY <1>1 DEF Pool!Touch
  <1>5. /\ q \in 1 .. len
        /\ \/ /\ q < pos
              /\ \A i \in q .. pos - 1 : L[i] >= L[pos]
              /\ q > 1 => L[q - 1] < L[pos]
           \/ /\ pos <= q
              /\ pos > 1 => L[pos - 1] < L[pos]
              /\ \A i \in pos + 1 .. q : L[i] < L[pos]
              /\ q < len => L[q + 1] >= L[pos]
    <2> DEFINE front == Pool!FrontOf(v, pos)
               back == Pool!BackOf(v, pos)
    <2>1. /\ front \in 1 .. pos
          /\ \A i \in front .. pos - 1 : Pool!LevelAt(v, i) >= Pool!LevelAt(v, pos)
          /\ front > 1 => Pool!LevelAt(v, front - 1) < Pool!LevelAt(v, pos)
      BY <1>1, <1>3, FrontOfFacts
    <2>2. /\ back \in pos .. len
          /\ \A i \in pos + 1 .. back : Pool!LevelAt(v, i) < Pool!LevelAt(v, pos)
          /\ back < len => Pool!LevelAt(v, back + 1) >= Pool!LevelAt(v, pos)
      BY <1>1, <1>3, BackOfFacts
    <2>3. \A i \in 1 .. len : L[i] = Pool!LevelAt(v, i)
      OBVIOUS
    <2>4. q = IF front = pos THEN back ELSE front
      OBVIOUS
    <2> HIDE DEF L, front, back, q, len
    <2>5. len \in Nat /\ pos \in 1 .. len
      BY <1>1
    <2>6. CASE front = pos
      <3>1. q \in 1 .. len /\ pos <= q
        BY <2>2, <2>4, <2>5, <2>6
      <3>2. pos > 1 => L[pos - 1] < L[pos]
        BY <2>1, <2>3, <2>5, <2>6
      <3>3. \A i \in pos + 1 .. q : L[i] < L[pos]
        BY <2>2, <2>3, <2>4, <2>5, <2>6
      <3>4. q < len => L[q + 1] >= L[pos]
        BY <2>2, <2>3, <2>4, <2>5, <2>6
      <3> QED
        BY <3>1, <3>2, <3>3, <3>4
    <2>7. CASE front # pos
      <3>1. q \in 1 .. len /\ q < pos
        BY <2>1, <2>4, <2>5, <2>7
      <3>2. \A i \in q .. pos - 1 : L[i] >= L[pos]
        BY <2>1, <2>3, <2>4, <2>5, <2>7
      <3>3. q > 1 => L[q - 1] < L[pos]
        BY <2>1, <2>3, <2>4, <2>5, <2>7
      <3> QED
        BY <3>1, <3>2, <3>3
    <2> QED
      BY <2>6, <2>7
  <1>6. /\ t.sorted \in Seq(Nat) /\ Len(t.sorted) = len /\ DOMAIN t.sorted = 1 .. len
        /\ \A i \in 1 .. len : t.sorted[i] = v.sorted[Moved(pos, q, i)]
    <2> HIDE DEF q, len, L
    <2>0. /\ v.sorted \in Seq(Nat)
          /\ pos \in 1 .. Len(v.sorted) /\ q \in 1 .. Len(v.sorted)
      BY <1>1, <1>5 DEF len
    <2>1. LET z == Pool!MoveTo(v.sorted, pos, q)
          IN  /\ z \in Seq(Nat) /\ Len(z) = Len(v.sorted) /\ DOMAIN z = 1 .. Len(v.sorted)
              /\ \A i \in 1 .. Len(v.sorted) : z[i] = v.sorted[Moved(pos, q, i)]
      BY <2>0, MoveToFacts
    <2> QED
      BY <1>4, <2>1 DEF len
  <1>7. t.entries = v.entries /\ t \in PoolType(E)
    BY <1>1, <1>4, <1>6 DEF PoolType
  <1>8. \A i, j \in 1 .. len : i < j => L[Moved(pos, q, i)] <= L[Moved(pos, q, j)]
    <2>1. L \in [1 .. len -> Int]
      BY <1>3
    <2>2. \A i, j \in 1 .. len : i < j /\ i # pos /\ j # pos => L[i] <= L[j]
      BY <1>1
    <2> HIDE DEF q, len, L
    <2> QED
      BY <1>1, <1>5, <2>1, <2>2, SortedMove
  <1>9. \A i \in 1 .. len : Moved(pos, q, i) \in 1 .. len
    <2> HIDE DEF q, len, L
    <2> QED
      BY <1>1, <1>5, MovedFacts
  <1>10. \A i, j \in 1 .. len : Moved(pos, q, i) = Moved(pos, q, j) => i = j
    <2> HIDE DEF q, len, L
    <2> QED
      BY <1>1, <1>5, MovedFacts
  <1>11. \A i \in 1 .. len : Pool!LevelAt(t, i) = L[Moved(pos, q, i)]
    <2>1. \A i \in 1 .. len : L[i] = SecLevel(v.entries[v.sorted[i]])
      BY DEF Pool!LevelAt
    <2> HIDE DEF q, len, L, t
    <2> QED
      BY <1>6, <1>7, <1>9, <2>1 DEF Pool!LevelAt
  <1> HIDE DEF q, len, L, t
  <1>12. \A i, j \in 1 .. len : i < j => Pool!LevelAt(t, i) <= Pool!LevelAt(t, j)
    BY <1>8, <1>11
  <1>13. \A i \in 1 .. len : t.sorted[i] \in 1 .. len
    <2>1. \A i \in 1 .. len : v.sorted[i] \in 1 .. len
      BY <1>1 DEF Permutes
    <2> QED
      BY <1>6, <1>9, <2>1
  <1>14. \A i, j \in 1 .. len : t.sorted[i] = t.sorted[j] => i = j
    BY <1>1, <1>6, <1>9, <1>10 DEF Permutes
  <1>15. Pool!IsOrdered(t)
    BY <1>1, <1>6, <1>7, <1>12, <1>13, <1>14 DEF Pool!IsOrdered, Permutes
  <1> QED
    BY <1>7, <1>15 DEF t

(* A permutation reaches every index.                                      *)
LEMMA SortedOnto ==
  ASSUME NEW E, NEW v \in PoolType(E), Permutes(v), NEW x \in DOMAIN v.entries
  PROVE  \E i \in DOMAIN v.sorted : v.sorted[i] = x
  <1> DEFINE I == 1 .. Len(v.entries)
  <1>1. /\ Len(v.entries) \in Nat /\ DOMAIN v.entries = I /\ DOMAIN v.sorted = I
        /\ v.sorted \in [I -> I]
    <2>1. /\ Len(v.entries) \in Nat /\ DOMAIN v.entries = I /\ DOMAIN v.sorted = I
          /\ v.sorted \in [I -> Nat]
      BY DEF PoolType, Permutes
    <2>2. \A i \in I : v.sorted[i] \in I
      BY <2>1 DEF Permutes
    <2> QED
      BY <2>1, <2>2
  <1>2. v.sorted \in Injection(I, I)
    BY <1>1 DEF Injection, IsInjective, Permutes
  <1>3. IsFiniteSet(I)
    BY <1>1, FS_Interval
  <1>4. v.sorted \in Surjection(I, I)
    <2> HIDE DEF I
    <2> QED
      BY <1>2, <1>3, FS_Injection
  <1> QED
    BY <1>1, <1>4 DEF Surjection

(* x has got the value e, or has been added with it; nothing else changed. *)
Replaced(old, new, x, e) ==
  /\ DOMAIN new = DOMAIN old \cup {x}
  /\ new[x] = e
  /\ \A i \in DOMAIN old \ {x} : new[i] = old[i]

LEMMA OrderedPermutes ==
  ASSUME NEW v, Pool!IsOrdered(v)
  PROVE  /\ Permutes(v)
         /\ \A i, j \in DOMAIN v.sorted : i < j => Pool!LevelAt(v, i) <= Pool!LevelAt(v, j)
  BY DEF Pool!IsOrdered, Permutes

LEMMA SetEntry ==
  ASSUME NEW v, v = [entries |-> v.entries, sorted |-> v.sorted], NEW x, NEW e
  PROVE  [v EXCEPT !.entries[x] = e] = [entries |-> [v.entries EXCEPT ![x] = e], sorted |-> v.sorted]
  <1> DEFINE y == [v.entries EXCEPT ![x] = e]
  <1>1. [v EXCEPT !.entries[x] = e] = [v EXCEPT !.entries = y]
    OBVIOUS
  <1> HIDE DEF y
  <1>2. [v EXCEPT !.entries = y] = [entries |-> y, sorted |-> v.sorted]
    OBVIOUS
  <1> QED
    BY <1>1, <1>2 DEF y

(* An entry that changes and is touched.                                   *)
LEMMA SetTouchFacts ==
  ASSUME NEW E, \A e \in E : SecLevel(e) \in Nat,
         NEW v \in PoolType(E), Pool!IsOrdered(v), NEW pos \in DOMAIN v.sorted, NEW e \in E
  PROVE  LET t == Pool!Touch([v EXCEPT !.entries[v.sorted[pos]] = e], pos)
         IN  /\ t \in PoolType(E) /\ Pool!IsOrdered(t) /\ Len(t.entries) = Len(v.entries)
             /\ v.sorted[pos] \in DOMAIN v.entries
             /\ Replaced(v.entries, t.entries, v.sorted[pos], e)
  <1> DEFINE x == v.sorted[pos]
             u == [v EXCEPT !.entries[v.sorted[pos]] = e]
             t == Pool!Touch(u, pos)
  <1>1. Permutes(v) /\ \A i, j \in DOMAIN v.sorted : i < j => Pool!LevelAt(v, i) <= Pool!LevelAt(v, j)
    BY OrderedPermutes
  <1>2. /\ v.entries \in Seq(E) /\ v.sorted \in Seq(Nat) /\ Len(v.sorted) \in Nat
        /\ DOMAIN v.sorted = 1 .. Len(v.sorted)
        /\ v = [entries |-> v.entries, sorted |-> v.sorted]
    BY DEF PoolType
  <1>5. x \in DOMAIN v.entries
    BY <1>1 DEF Permutes
  <1>6. u = [entries |-> [v.entries EXCEPT ![x] = e], sorted |-> v.sorted]
    <2> HIDE DEF x
    <2>1. u = [v EXCEPT !.entries[x] = e]
      BY DEF x
    <2> HIDE DEF u
    <2> QED
      BY <1>2, <2>1, SetEntry
  <1> HIDE DEF x
  <1>7. /\ u.sorted = v.sorted /\ u.entries = [v.entries EXCEPT ![x] = e]
        /\ u.entries \in Seq(E) /\ Len(u.entries) = Len(v.entries)
        /\ DOMAIN u.entries = DOMAIN v.entries
    <2> HIDE DEF u
    <2>1. u.sorted = v.sorted /\ u.entries = [v.entries EXCEPT ![x] = e]
      BY <1>6
    <2> QED
      BY <1>2, <1>5, <2>1
  <1>8. Replaced(v.entries, u.entries, x, e)
    <2> HIDE DEF u
    <2> QED
      BY <1>2, <1>5, <1>7 DEF Replaced
  <1>9. u \in PoolType(E) /\ Permutes(u)
    <2>1. u \in PoolType(E)
      BY <1>2, <1>6, <1>7 DEF PoolType
    <2> HIDE DEF u
    <2> QED
      BY <1>1, <1>7, <2>1 DEF Permutes
  <1> HIDE DEF u
  <1>10. ASSUME NEW i \in DOMAIN u.sorted, NEW j \in DOMAIN u.sorted, i < j, i # pos, j # pos
         PROVE  Pool!LevelAt(u, i) <= Pool!LevelAt(u, j)
    <2>1. /\ v.sorted[i] \in DOMAIN v.entries /\ v.sorted[i] # x
          /\ v.sorted[j] \in DOMAIN v.entries /\ v.sorted[j] # x
      BY <1>1, <1>7, <1>10 DEF Permutes, x
    <2>2. u.entries[v.sorted[i]] = v.entries[v.sorted[i]] /\ u.entries[v.sorted[j]] = v.entries[v.sorted[j]]
      BY <1>8, <2>1 DEF Replaced
    <2>3. Pool!LevelAt(v, i) <= Pool!LevelAt(v, j)
      BY <1>1, <1>7, <1>10
    <2> QED
      BY <1>7, <2>2, <2>3 DEF Pool!LevelAt
  <1>11. t \in PoolType(E) /\ t.entries = u.entries /\ Pool!IsOrdered(t)
    <2>1. pos \in DOMAIN u.sorted
      BY <1>7
    <2>2. \A i, j \in DOMAIN u.sorted :
            i < j /\ i # pos /\ j # pos => Pool!LevelAt(u, i) <= Pool!LevelAt(u, j)
      BY <1>10
    <2> QED
      BY <1>9, <2>1, <2>2, TouchFacts DEF t
  <1> HIDE DEF t
  <1>12. Len(t.entries) = Len(v.entries) /\ Replaced(v.entries, t.entries, x, e)
    BY <1>7, <1>8, <1>11
  <1> QED
    BY <1>5, <1>11, <1>12 DEF t, u, x

(* lookup() with a change of the entry that it finds.                      *)
LEMMA PutFacts ==
  ASSUME NEW E, \A e \in E : SecLevel(e) \in Nat,
         NEW v \in PoolType(E), Pool!IsOrdered(v), NEW pass, Pool!Found(v, pass), NEW e \in E
  PROVE  LET t == Pool!Put(v, pass, e)
         IN  /\ t \in PoolType(E) /\ Pool!IsOrdered(t) /\ Len(t.entries) = Len(v.entries)
             /\ \E x \in DOMAIN v.entries \cap pass :
                  /\ Pool!FoundEntry(v, pass) = v.entries[x]
                  /\ Replaced(v.entries, t.entries, x, e)
  <1> DEFINE t == Pool!Put(v, pass, e)
             pos == Pool!FoundAt(v, pass)
             x == v.sorted[pos]
             D == {i \in DOMAIN v.sorted : v.sorted[i] \in pass}
  <1>2. /\ v.entries \in Seq(E) /\ v.sorted \in Seq(Nat) /\ Len(v.sorted) \in Nat
        /\ DOMAIN v.sorted = 1 .. Len(v.sorted)
        /\ v = [entries |-> v.entries, sorted |-> v.sorted]
    BY DEF PoolType
  <1>3. pos \in DOMAIN v.sorted /\ v.sorted[pos] \in pass
    <2>1. D \in SUBSET Nat /\ D # {}
      BY <1>2 DEF Pool!Found
    <2>2. PICK y \in D : \A z \in D : y <= z
      <3> HIDE DEF D
      <3> QED
        BY <2>1, LowestExists
    <2>3. \A z \in 1 .. y - 1 : v.sorted[z] \notin pass
      <3> SUFFICES ASSUME NEW z \in 1 .. y - 1, v.sorted[z] \in pass PROVE FALSE
        OBVIOUS
      <3>1. y \in 1 .. Len(v.sorted) /\ z \in 1 .. Len(v.sorted) /\ z < y
        BY <1>2, <2>2
      <3>2. y <= z
        BY <1>2, <2>2, <3>1
      <3> QED
        BY <3>1, <3>2
    <2>4. \E y1 \in DOMAIN v.sorted :
            v.sorted[y1] \in pass /\ \A z \in 1 .. y1 - 1 : v.sorted[z] \notin pass
      BY <2>2, <2>3
    <2> QED
      BY <2>4 DEF Pool!FoundAt
  <1>4. t = Pool!Touch([v EXCEPT !.entries[v.sorted[pos]] = e], pos) /\ Pool!FoundEntry(v, pass) = v.entries[x]
    BY DEF Pool!Put, Pool!FoundEntry
  <1> HIDE DEF pos, t
  <1>5. /\ t \in PoolType(E) /\ Pool!IsOrdered(t) /\ Len(t.entries) = Len(v.entries)
        /\ x \in DOMAIN v.entries /\ Replaced(v.entries, t.entries, x, e)
    BY <1>3, <1>4, SetTouchFacts
  <1> QED
    BY <1>3, <1>4, <1>5 DEF t

(* lookup() finds an entry if there is one.                                *)
LEMMA FoundIff ==
  ASSUME NEW E, NEW v \in PoolType(E), Pool!IsOrdered(v), NEW pass,
         NEW x \in DOMAIN v.entries, x \in pass
  PROVE  Pool!Found(v, pass)
  <1>1. Permutes(v)
    BY OrderedPermutes
  <1>2. \E i \in DOMAIN v.sorted : v.sorted[i] = x
    BY <1>1, SortedOnto
  <1> QED
    BY <1>2 DEF Pool!Found

(* The last entry of the pool has the lowest priority.                     *)
LEMMA LastIsLowest ==
  ASSUME NEW E, \A e \in E : SecLevel(e) \in Nat,
         NEW v \in PoolType(E), Pool!IsOrdered(v), v.entries # <<>>
  PROVE  LET x == v.sorted[Len(v.sorted)]
         IN  /\ x \in DOMAIN v.entries /\ Pool!LastEntry(v) = v.entries[x]
             /\ \A i \in DOMAIN v.entries : SecLevel(v.entries[i]) <= SecLevel(v.entries[x])
  <1> DEFINE len == Len(v.sorted)
             x == v.sorted[len]
  <1>1. Permutes(v) /\ \A i, j \in DOMAIN v.sorted : i < j => Pool!LevelAt(v, i) <= Pool!LevelAt(v, j)
    BY OrderedPermutes
  <1>2. /\ len \in Nat \ {0} /\ DOMAIN v.sorted = 1 .. len /\ DOMAIN v.entries = 1 .. len
        /\ v.entries \in Seq(E)
    BY <1>1, EmptySeq DEF PoolType, Permutes
  <1>3. x \in DOMAIN v.entries
    BY <1>1, <1>2 DEF Permutes
  <1>4. Pool!LastEntry(v) = v.entries[x]
    BY DEF Pool!LastEntry
  <1> HIDE DEF len
  <1>5. ASSUME NEW i \in DOMAIN v.entries
        PROVE  SecLevel(v.entries[i]) <= SecLevel(v.entries[x])
    <2>1. PICK j \in DOMAIN v.sorted : v.sorted[j] = i
      BY <1>1, SortedOnto
    <2>2. v.entries[i] \in E /\ v.entries[x] \in E
      BY <1>2, <1>3
    <2>3. CASE j = len
      <3>1. SecLevel(v.entries[i]) \in Nat /\ i = x
        BY <2>1, <2>2, <2>3
      <3> QED
        BY <3>1
    <2>4. CASE j # len
      <3>1. j < len /\ len \in DOMAIN v.sorted
        BY <1>2, <2>4
      <3>2. Pool!LevelAt(v, j) <= Pool!LevelAt(v, len)
        BY <1>1, <3>1
      <3> QED
        BY <2>1, <3>2 DEF Pool!LevelAt
    <2> QED
      BY <2>3, <2>4
  <1> QED
    BY <1>3, <1>4, <1>5 DEF len

(* force_insert(): a free index, or the one of the entry with the lowest   *)
(* priority.                                                               *)
LEMMA ForceInsertFacts ==
  ASSUME NEW E, \A e \in E : SecLevel(e) \in Nat,
         NEW v \in PoolType(E), Pool!IsOrdered(v), NEW e \in E
  PROVE  LET t == Pool!ForceInsert(v, e)
         IN  /\ t \in PoolType(E) /\ Pool!IsOrdered(t)
             /\ \E x \in 1 .. MAX_CONTEXTS :
                  /\ Replaced(v.entries, t.entries, x, e)
                  /\ x \in DOMAIN v.entries <=> Pool!IsFull(v)
                  /\ x \in DOMAIN v.entries =>
                       /\ Pool!LastEntry(v) = v.entries[x]
                       /\ \A i \in DOMAIN v.entries : SecLevel(v.entries[i]) <= SecLevel(v.entries[x])
  <1> DEFINE t == Pool!ForceInsert(v, e)
  <1>1. Permutes(v) /\ \A i, j \in DOMAIN v.sorted : i < j => Pool!LevelAt(v, i) <= Pool!LevelAt(v, j)
    BY OrderedPermutes
  <1>2. /\ v.entries \in Seq(E) /\ v.sorted \in Seq(Nat) /\ Len(v.entries) \in Nat
        /\ DOMAIN v.sorted = 1 .. Len(v.entries) /\ DOMAIN v.entries = 1 .. Len(v.entries)
        /\ Len(v.entries) <= MAX_CONTEXTS /\ Len(v.sorted) = Len(v.entries)
    BY <1>1 DEF PoolType, Permutes
  <1>3. CASE Pool!IsFull(v)
    <2>1. Len(v.entries) = MAX_CONTEXTS /\ MAX_CONTEXTS \in DOMAIN v.sorted
      BY <1>2, <1>3, PoolAssumption DEF Pool!IsFull
    <2>2. t = Pool!Touch([v EXCEPT !.entries[v.sorted[MAX_CONTEXTS]] = e], MAX_CONTEXTS)
      BY <1>3 DEF Pool!ForceInsert
    <2> HIDE DEF t
    <2> DEFINE x == v.sorted[MAX_CONTEXTS]
    <2>3. /\ t \in PoolType(E) /\ Pool!IsOrdered(t) /\ Len(t.entries) = Len(v.entries)
          /\ x \in DOMAIN v.entries /\ Replaced(v.entries, t.entries, x, e)
      BY <2>1, <2>2, SetTouchFacts
    <2>4. v.entries # <<>>
      BY <1>2, <2>1, PoolAssumption
    <2>5. /\ Pool!LastEntry(v) = v.entries[x]
          /\ \A i \in DOMAIN v.entries : SecLevel(v.entries[i]) <= SecLevel(v.entries[x])
      BY <1>2, <2>1, <2>4, LastIsLowest
    <2>6. x \in 1 .. MAX_CONTEXTS
      BY <1>2, <2>1, <2>3
    <2> HIDE DEF x
    <2> QED
      BY <1>3, <2>3, <2>5, <2>6 DEF t
  <1>4. CASE ~Pool!IsFull(v)
    <2> DEFINE x == Len(v.entries) + 1
               a == Append(v.entries, e)
               z == Append(v.sorted, x)
               u == [entries |-> a, sorted |-> z]
    <2>1. t = Pool!Touch(u, x)
      BY <1>4 DEF Pool!ForceInsert
    <2>2. /\ x \in 1 .. MAX_CONTEXTS /\ x \notin DOMAIN v.entries /\ x \in Nat
          /\ DOMAIN v.entries \cup {x} = 1 .. x
      BY <1>2, <1>4, PoolAssumption DEF Pool!IsFull
    <2>3. /\ a \in Seq(E) /\ Len(a) = x /\ DOMAIN a = 1 .. x /\ a[x] = e
          /\ \A i \in DOMAIN v.entries : a[i] = v.entries[i]
      BY <1>2
    <2>4. /\ z \in Seq(Nat) /\ Len(z) = x /\ DOMAIN z = 1 .. x /\ z[x] = x
          /\ \A i \in DOMAIN v.entries : z[i] = v.sorted[i]
      <3>1. x = Len(v.sorted) + 1 /\ x \in Nat
        BY <1>2
      <3> HIDE DEF x
      <3> QED
        BY <1>2, <3>1
    <2> HIDE DEF x, a, z, t
    <2>5. u \in PoolType(E) /\ u.entries = a /\ u.sorted = z
      BY <2>3, <2>4 DEF PoolType
    <2> HIDE DEF u
    <2>6. Replaced(v.entries, a, x, e)
      BY <2>2, <2>3 DEF Replaced
    <2>7. \A i \in DOMAIN v.entries : z[i] \in DOMAIN v.entries
      BY <1>1, <1>2, <2>4 DEF Permutes
    <2>8. Permutes(u)
      <3>1. ASSUME NEW i \in 1 .. x PROVE z[i] \in 1 .. x
        <4>1. i \in DOMAIN v.entries \/ i = x
          BY <2>2
        <4>2. i \in DOMAIN v.entries => z[i] \in 1 .. x
          BY <2>2, <2>7
        <4>3. z[x] \in 1 .. x
          BY <2>2, <2>4
        <4> QED
          BY <4>1, <4>2, <4>3
      <3>2. \A i, j \in 1 .. x : z[i] = z[j] => i = j
        <4>1. \A i, j \in DOMAIN v.entries : z[i] = z[j] => i = j
          BY <1>1, <1>2, <2>4 DEF Permutes
        <4>2. \A i \in 1 .. x : i \in DOMAIN v.entries \/ i = x
          BY <2>2
        <4>3. \A i \in DOMAIN v.entries : z[i] # z[x]
          BY <2>2, <2>4, <2>7
        <4> QED
          BY <4>1, <4>2, <4>3
      <3>3. x <= MAX_CONTEXTS
        BY <2>2, PoolAssumption
      <3> QED
        BY <2>3, <2>4, <2>5, <3>1, <3>2, <3>3 DEF Permutes
    <2>9. ASSUME NEW i \in DOMAIN u.sorted, NEW j \in DOMAIN u.sorted, i < j, i # x, j # x
          PROVE  Pool!LevelAt(u, i) <= Pool!LevelAt(u, j)
      <3>1. i \in DOMAIN v.entries /\ j \in DOMAIN v.entries
        BY <2>2, <2>4, <2>5, <2>9
      <3>2. Pool!LevelAt(v, i) <= Pool!LevelAt(v, j)
        BY <1>1, <1>2, <2>9, <3>1
      <3>3. /\ a[z[i]] = v.entries[v.sorted[i]] /\ a[z[j]] = v.entries[v.sorted[j]]
        BY <2>3, <2>4, <2>7, <3>1
      <3> QED
        BY <2>5, <3>2, <3>3 DEF Pool!LevelAt
    <2>10. t \in PoolType(E) /\ t.entries = u.entries /\ Pool!IsOrdered(t)
      <3>1. x \in DOMAIN u.sorted
        BY <2>2, <2>4, <2>5
      <3>2. \A i, j \in DOMAIN u.sorted :
              i < j /\ i # x /\ j # x => Pool!LevelAt(u, i) <= Pool!LevelAt(u, j)
        BY <2>9
      <3> QED
        BY <2>1, <2>5, <2>8, <3>1, <3>2, TouchFacts
    <2> QED
      BY <1>4, <2>2, <2>5, <2>6, <2>10 DEF t
  <1> QED
    BY <1>3, <1>4

-----------------------------------------------------------------------------
(* The security contexts.                                                  *)

(* Whom a peer can show to be, and the claims that it can get for it.      *)
Peers == {Nobody} \cup Creds \cup Tokens

ClaimSet ==
  {NoClaims} \cup {NosecAuthorization(PolicyOf[x]) : x \in Policies}
    \cup {ExpandIdCred(PolicyOf[x], cred) : x \in Policies, cred \in Creds}
    \cup {TokenClaims(TokenOf[tok]) : tok \in Tokens}

ContextSet ==
  [stage : {"ProcessedM1", "SentM2", "Oscore"}, ses : Sessions, cown : COwns, same : {FALSE},
   auth : ClaimSet, who : Peers]

EntrySet == {Empty} \cup ContextSet

ItemSet ==
  {item \in [kind : {"Inner", "EdhocOkSend2", "ProcessedToken", "EdhocOscoreRequest"},
             ses : Sessions \cup {NoSession}, kid : COwns \cup {NoCOwn}, allowed : BOOLEAN,
             who : Peers, req : InnerRequests] :
     item.kind \in {"EdhocOkSend2", "EdhocOscoreRequest"} => item.kid \in COwns}

(* A key ID is the one of a single context.                                *)
KidsUnique(a) ==
  \A i, j \in DOMAIN a : a[i] # Empty /\ i # j => a[i].cown # a[j].cown

(* A context that is in use has the claims of the peer it was made for.    *)
OfPeer(e) == e.stage = "Oscore" => e.auth = Granted(e.who)

PoolInv(v) ==
  /\ v \in PoolType(EntrySet) /\ Pool!IsOrdered(v)
  /\ KidsUnique(v.entries) /\ \A i \in DOMAIN v.entries : OfPeer(v.entries[i])

(* The inductive invariant of the security layer.                          *)
SecInv ==
  /\ config \in Policies
  /\ PoolInv(pool)
  /\ inflight \in Seq(ItemSet) /\ Len(inflight) <= MaxInFlight
  /\ Authorized

(* With one request at a time: the context that the response needs is in   *)
(* the pool, in the stage it had when the request was extracted.           *)
Awaited(stage) ==
  \E i \in DOMAIN pool.entries :
    pool.entries[i].stage = stage /\ pool.entries[i].cown = First.kid
      /\ pool.entries[i].ses = First.ses

ResponseInv ==
  /\ ResponseProtected
  /\ inflight # <<>> => /\ First.kind = "EdhocOscoreRequest" => Awaited("Oscore")
                        /\ First.kind = "EdhocOkSend2" => Awaited("ProcessedM1")

LEMMA LevelNat == \A e \in EntrySet : SecLevel(e) \in Nat
  <1>1. ASSUME NEW e \in EntrySet
        PROVE  e.stage \in {"Empty", "ProcessedM1", "SentM2", "Oscore"}
    <2>1. Empty.stage = "Empty"
      BY DEF Empty
    <2>2. e \in ContextSet => e.stage \in {"ProcessedM1", "SentM2", "Oscore"}
      BY DEF ContextSet
    <2> QED
      BY <2>1, <2>2 DEF EntrySet
  <1>2. ASSUME NEW e \in EntrySet PROVE SecLevel(e) \in Nat
    <2>1. CASE e.stage = "Empty"
      BY <2>1 DEF SecLevel, LEVEL_EMPTY
    <2>2. CASE e.stage \in {"ProcessedM1", "SentM2"}
      BY <2>2 DEF SecLevel, LEVEL_ONGOING
    <2>3. CASE e.stage = "Oscore"
      BY <2>3 DEF SecLevel, LEVEL_AUTHENTICATED, LEVEL_ADMIN
    <2> QED
      BY <1>1, <2>1, <2>2, <2>3
  <1> QED
    BY <1>2

LEMMA EntryFacts ==
  ASSUME NEW e \in EntrySet
  PROVE  /\ e.stage \in {"Empty", "ProcessedM1", "SentM2", "Oscore"}
         /\ e.stage = "Empty" <=> e = Empty
         /\ e.cown \in COwns => e \in ContextSet
         /\ e \in ContextSet => e # Empty /\ e.cown \in COwns /\ ~e.same
         /\ ~e.same
  <1>1. Empty.stage = "Empty" /\ Empty.cown = -1 /\ ~Empty.same
    BY DEF Empty, NoCOwn
  <1>2. e \in ContextSet => e.stage \in {"ProcessedM1", "SentM2", "Oscore"} /\ e.cown \in COwns /\ ~e.same
    BY DEF ContextSet
  <1>3. -1 \notin COwns
    BY PoolAssumption DEF COwns
  <1> HIDE DEF Empty
  <1> QED
    BY <1>1, <1>2, <1>3 DEF EntrySet

(* A number up to len is left by len values.                               *)
HasFree(F, len, K) == \E y \in 0 .. K : \A i \in 1 .. len : F[i] # y

LEMMA FreeExists ==
  ASSUME NEW F, NEW len \in Nat, NEW K \in Nat, len <= K
  PROVE  HasFree(F, len, K)
  <1> DEFINE R == {F[i] : i \in 1 .. len}
             G == [i \in 1 .. len |-> F[i]]
  <1>1. IsFiniteSet(1 .. len) /\ Cardinality(1 .. len) = len
    BY FS_Interval
  <1>2. G \in Surjection(1 .. len, R)
    BY DEF Surjection
  <1>3. IsFiniteSet(R) /\ Cardinality(R) <= len
    <2> HIDE DEF R, G
    <2> QED
      BY <1>1, <1>2, FS_Surjection
  <1>4. IsFiniteSet(0 .. K) /\ Cardinality(0 .. K) = K + 1
    BY FS_Interval
  <1>5. ~(0 .. K \subseteq R)
    <2>1. 0 .. K \subseteq R => Cardinality(0 .. K) <= Cardinality(R)
      <3> HIDE DEF R
      <3> QED
        BY <1>3, FS_Subset
    <2>2. Cardinality(R) \in Nat
      <3> HIDE DEF R
      <3> QED
        BY <1>3, FS_CardinalityType
    <2> HIDE DEF R
    <2> QED
      BY <1>3, <1>4, <2>1, <2>2
  <1> QED
    BY <1>5 DEF HasFree

(* cown_but_not() finds an identifier that no context has, and that the    *)
(* peer has not chosen.                                                    *)
LEMMA CownFacts ==
  ASSUME pool \in PoolType(EntrySet), Pool!IsOrdered(pool), NEW peer
  PROVE  LET y == CownButNot(peer)
         IN  /\ y \in COwns /\ y # peer
             /\ \A i \in DOMAIN pool.entries : pool.entries[i].cown # y
  <1> DEFINE len == Len(pool.entries)
             used == {e.cown : e \in Contexts} \cup {peer}
             F == [i \in 1 .. len + 1 |-> IF i \in 1 .. len THEN pool.entries[i].cown ELSE peer]
  <1>1. len \in Nat /\ len <= MAX_CONTEXTS /\ DOMAIN pool.entries = 1 .. len
        /\ \A i \in 1 .. len : pool.entries[i] \in EntrySet
    BY OrderedPermutes DEF PoolType, Permutes
  <1>2. PICK y \in 0 .. MAX_CONTEXTS + 1 : \A i \in 1 .. len + 1 : F[i] # y
    <2>1. len + 1 \in Nat /\ MAX_CONTEXTS + 1 \in Nat /\ len + 1 <= MAX_CONTEXTS + 1
      BY <1>1, PoolAssumption
    <2> HIDE DEF F, len
    <2>2. HasFree(F, len + 1, MAX_CONTEXTS + 1)
      BY <2>1, FreeExists
    <2> QED
      BY <2>2 DEF HasFree
  <1>3. \A i \in 1 .. len : F[i] = pool.entries[i].cown
    BY <1>1
  <1>4. F[len + 1] = peer /\ len + 1 \in 1 .. len + 1 /\ \A i \in 1 .. len : i \in 1 .. len + 1
    BY <1>1
  <1> HIDE DEF F, len
  <1>5. y \notin used
    BY <1>1, <1>2, <1>3, <1>4 DEF Contexts
  <1> DEFINE D == {z \in COwns : z \notin used}
  <1>6. PICK low \in D : \A z \in D : low <= z
    <2>1. D \in SUBSET Nat /\ D # {}
      BY <1>2, <1>5, PoolAssumption DEF COwns
    <2> HIDE DEF D
    <2> QED
      BY <2>1, LowestExists
  <1>7. \A m \in 0 .. low - 1 : m \in used
    <2> SUFFICES ASSUME NEW m \in 0 .. low - 1, m \notin used PROVE FALSE
      OBVIOUS
    <2>1. m \in COwns /\ m < low /\ low \in Int /\ m \in Int
      BY <1>6, PoolAssumption DEF COwns
    <2> QED
      BY <1>6, <2>1
  <1>8. CownButNot(peer) \in COwns /\ CownButNot(peer) \notin used
    <2>1. \E z \in COwns : z \notin used /\ \A m \in 0 .. z - 1 : m \in used
      BY <1>6, <1>7
    <2> QED
      BY <2>1 DEF CownButNot
  <1>9. ASSUME NEW i \in DOMAIN pool.entries, pool.entries[i].cown = CownButNot(peer) PROVE FALSE
    <2>1. pool.entries[i] \in ContextSet
      BY <1>1, <1>8, <1>9, EntryFacts
    <2>2. pool.entries[i] \in Contexts
      BY <1>1, <2>1, EntryFacts DEF Contexts
    <2> QED
      BY <1>8, <1>9, <2>2
  <1> QED
    BY <1>8, <1>9

(* A session that no request in flight has.                                *)
LEMMA SessionFacts ==
  ASSUME inflight \in Seq(ItemSet), Len(inflight) <= MaxInFlight, NEW c_r \in COwns
  PROVE  NewSession(c_r) \in Sessions
  <1> DEFINE used == {inflight[i].ses : i \in DOMAIN inflight}
             len == Len(inflight)
             F == [i \in 1 .. len |-> inflight[i].ses[2]]
             D == {z \in 0 .. MaxInFlight : <<c_r, z>> \notin used}
  <1>1. len \in Nat /\ DOMAIN inflight = 1 .. len
    OBVIOUS
  <1>2. PICK y \in 0 .. MaxInFlight : \A i \in 1 .. len : F[i] # y
    <2> HIDE DEF F
    <2>1. HasFree(F, len, MaxInFlight)
      BY <1>1, FreeExists, PoolAssumption
    <2> QED
      BY <2>1 DEF HasFree
  <1>3. <<c_r, y>> \notin used
    <2> SUFFICES ASSUME NEW i \in 1 .. len, <<c_r, y>> = inflight[i].ses PROVE FALSE
      BY <1>1
    <2>1. <<c_r, y>>[2] = y
      OBVIOUS
    <2>2. inflight[i].ses[2] = y
      BY <2>1
    <2> QED
      BY <1>2, <2>2
  <1> HIDE DEF used, F
  <1>4. PICK low \in D : \A z \in D : low <= z
    <2>1. y \in D
      BY <1>2, <1>3
    <2>2. 0 .. MaxInFlight \subseteq Nat
      BY PoolAssumption
    <2>3. D \in SUBSET Nat
      BY <2>2
    <2> HIDE DEF D
    <2> QED
      BY <2>1, <2>3, LowestExists
  <1>5. \A m \in 0 .. low - 1 : <<c_r, m>> \in used
    <2> SUFFICES ASSUME NEW m \in 0 .. low - 1, <<c_r, m>> \notin used PROVE FALSE
      OBVIOUS
    <2>1. m \in 0 .. MaxInFlight /\ m < low /\ low \in Int /\ m \in Int
      BY <1>4, PoolAssumption
    <2> QED
      BY <1>4, <2>1
  <1>6. \E z \in 0 .. MaxInFlight : <<c_r, z>> \notin used /\ \A m \in 0 .. z - 1 : <<c_r, m>> \in used
    BY <1>4, <1>5
  <1>7. \E z \in 0 .. MaxInFlight : NewSession(c_r) = <<c_r, z>>
    BY <1>6 DEF NewSession, used
  <1> QED
    BY <1>7 DEF Sessions

LEMMA EntriesReplaced ==
  ASSUME NEW old \in Seq(EntrySet), NEW new, NEW x, NEW e \in EntrySet, Replaced(old, new, x, e),
         KidsUnique(old), \A i \in DOMAIN old : OfPeer(old[i]), OfPeer(e),
         e = Empty \/ \A i \in DOMAIN old \ {x} : old[i].cown # e.cown
  PROVE  KidsUnique(new) /\ \A i \in DOMAIN new : OfPeer(new[i])
  <1>1. \A i \in DOMAIN old : old[i] \in EntrySet
    OBVIOUS
  <1>2. \A i \in DOMAIN new : i # x => i \in DOMAIN old /\ new[i] = old[i]
    BY DEF Replaced
  <1>3. new[x] = e
    BY DEF Replaced
  <1>4. \A i \in DOMAIN new : OfPeer(new[i])
    BY <1>2, <1>3
  <1>5. ASSUME NEW i \in DOMAIN new, NEW j \in DOMAIN new, new[i] # Empty, i # j
        PROVE  new[i].cown # new[j].cown
    <2>1. CASE i # x /\ j # x
      BY <1>2, <1>5, <2>1 DEF KidsUnique
    <2>2. CASE i = x
      BY <1>2, <1>3, <1>5, <2>2
    <2>3. CASE j = x /\ e # Empty
      BY <1>2, <1>3, <1>5, <2>3
    <2>4. CASE j = x /\ e = Empty
      <3>1. new[i] \in EntrySet /\ new[i] # Empty
        BY <1>1, <1>2, <1>5, <2>4
      <3>2. new[i].cown \in COwns /\ e.cown = -1
        BY <2>4, <3>1, EntryFacts DEF EntrySet, Empty, NoCOwn
      <3>3. -1 \notin COwns
        BY PoolAssumption DEF COwns
      <3> QED
        BY <1>3, <2>4, <3>2, <3>3
    <2> QED
      BY <2>1, <2>2, <2>3, <2>4
  <1> QED
    BY <1>4, <1>5 DEF KidsUnique

(* A context with a key ID of its own is inserted.                         *)
LEMMA InsertKeeps ==
  ASSUME NEW v, PoolInv(v), NEW e \in ContextSet, OfPeer(e),
         \A i \in DOMAIN v.entries : v.entries[i].cown # e.cown
  PROVE  LET t == Pool!ForceInsert(v, e)
         IN  /\ PoolInv(t)
             /\ \E x \in 1 .. MAX_CONTEXTS :
                  /\ Replaced(v.entries, t.entries, x, e)
                  /\ x \in DOMAIN v.entries <=> Pool!IsFull(v)
                  /\ x \in DOMAIN v.entries =>
                       /\ Pool!LastEntry(v) = v.entries[x]
                       /\ \A i \in DOMAIN v.entries : SecLevel(v.entries[i]) <= SecLevel(v.entries[x])
  <1> DEFINE t == Pool!ForceInsert(v, e)
  <1>1. /\ v \in PoolType(EntrySet) /\ Pool!IsOrdered(v) /\ KidsUnique(v.entries)
        /\ \A i \in DOMAIN v.entries : OfPeer(v.entries[i])
        /\ v.entries \in Seq(EntrySet) /\ e \in EntrySet
    BY DEF PoolInv, PoolType, EntrySet
  <1>2. /\ t \in PoolType(EntrySet) /\ Pool!IsOrdered(t)
        /\ \E x \in 1 .. MAX_CONTEXTS :
             /\ Replaced(v.entries, t.entries, x, e)
             /\ x \in DOMAIN v.entries <=> Pool!IsFull(v)
             /\ x \in DOMAIN v.entries =>
                  /\ Pool!LastEntry(v) = v.entries[x]
                  /\ \A i \in DOMAIN v.entries : SecLevel(v.entries[i]) <= SecLevel(v.entries[x])
    BY <1>1, LevelNat, ForceInsertFacts
  <1> HIDE DEF t
  <1>3. KidsUnique(t.entries) /\ \A i \in DOMAIN t.entries : OfPeer(t.entries[i])
    BY <1>1, <1>2, EntriesReplaced
  <1>4. PoolInv(t)
    BY <1>2, <1>3 DEF PoolInv
  <1> QED
    BY <1>2, <1>4 DEF t

(* The context with a key ID is looked up, and changed or taken out.       *)
LEMMA LookupFacts ==
  ASSUME PoolInv(pool), NEW kid \in COwns, Pool!Found(pool, WithCOwn(kid)),
         NEW e \in EntrySet, OfPeer(e), e = Empty \/ e.cown = kid
  PROVE  LET t == Pool!Put(pool, WithCOwn(kid), e)
             f == Pool!FoundEntry(pool, WithCOwn(kid))
         IN  /\ f \in ContextSet /\ f.cown = kid /\ OfPeer(f)
             /\ PoolInv(t) /\ Len(t.entries) = Len(pool.entries)
             /\ \E x \in DOMAIN pool.entries :
                  f = pool.entries[x] /\ Replaced(pool.entries, t.entries, x, e)
  <1> DEFINE t == Pool!Put(pool, WithCOwn(kid), e)
             f == Pool!FoundEntry(pool, WithCOwn(kid))
  <1>1. /\ pool \in PoolType(EntrySet) /\ Pool!IsOrdered(pool) /\ KidsUnique(pool.entries)
        /\ \A i \in DOMAIN pool.entries : OfPeer(pool.entries[i])
        /\ pool.entries \in Seq(EntrySet)
    BY DEF PoolInv, PoolType
  <1>2. /\ t \in PoolType(EntrySet) /\ Pool!IsOrdered(t) /\ Len(t.entries) = Len(pool.entries)
        /\ \E x \in DOMAIN pool.entries \cap WithCOwn(kid) :
             f = pool.entries[x] /\ Replaced(pool.entries, t.entries, x, e)
    BY <1>1, LevelNat, PutFacts
  <1> HIDE DEF t, f
  <1>3. PICK x \in DOMAIN pool.entries :
          /\ pool.entries[x].cown = kid /\ f = pool.entries[x]
          /\ Replaced(pool.entries, t.entries, x, e)
    BY <1>2 DEF WithCOwn
  <1>4. f \in ContextSet /\ f.cown = kid /\ OfPeer(f) /\ f # Empty
    <2>1. f \in EntrySet
      BY <1>1, <1>3
    <2> QED
      BY <1>1, <1>3, <2>1, EntryFacts
  <1>5. e = Empty \/ \A i \in DOMAIN pool.entries \ {x} : pool.entries[i].cown # e.cown
    BY <1>1, <1>3, <1>4 DEF KidsUnique
  <1>6. KidsUnique(t.entries) /\ \A i \in DOMAIN t.entries : OfPeer(t.entries[i])
    BY <1>1, <1>3, <1>5, EntriesReplaced
  <1>7. PoolInv(t)
    BY <1>2, <1>6 DEF PoolInv
  <1> QED
    BY <1>2, <1>3, <1>4, <1>7 DEF t, f

(* What Authorized says of one request.                                    *)
ItemAuthorized(item) ==
  LET claims == IF item.kind = "Inner" THEN NosecAuthorization(policy) ELSE Granted(item.who)
  IN  item.kind \in {"Inner", "EdhocOscoreRequest"} /\ item.allowed =>
        /\ claims # NoClaims
        /\ RequestIsAllowed(claims.scope, item.req)
        /\ (claims.exp = NoExp \/ now < claims.exp)

LEMMA AuthorizedItems == Authorized <=> \A i \in DOMAIN inflight : ItemAuthorized(inflight[i])
  BY DEF Authorized, ItemAuthorized

(* The authorization of a request does not change while it is in flight.   *)
LEMMA ItemStays ==
  ASSUME config' = config, now' = now, NEW item, ItemAuthorized(item)
  PROVE  ItemAuthorized(item)'
  BY DEF ItemAuthorized, Granted, policy

LEMMA OfPeerStays ==
  ASSUME config' = config, NEW v, PoolInv(v), pool' = v
  PROVE  PoolInv(pool)'
  BY DEF PoolInv, OfPeer, Granted, policy

(* A request that has been extracted.                                      *)
LEMMA ExtractedKeeps ==
  ASSUME SecInv, NEW item \in ItemSet, ItemAuthorized(item), CanExtract, Extracted(item),
         config' = config, now' = now
  PROVE  /\ inflight' \in Seq(ItemSet) /\ Len(inflight') <= MaxInFlight
         /\ Authorized'
  <1>1. /\ inflight \in Seq(ItemSet) /\ Len(inflight) < MaxInFlight
        /\ inflight' = Append(inflight, item)
    BY DEF SecInv, CanExtract, Extracted
  <1>2. /\ inflight' \in Seq(ItemSet) /\ Len(inflight') = Len(inflight) + 1
        /\ DOMAIN inflight' = 1 .. Len(inflight) + 1
        /\ \A i \in 1 .. Len(inflight) : inflight'[i] = inflight[i]
        /\ inflight'[Len(inflight) + 1] = item
    BY <1>1
  <1>3. Len(inflight') <= MaxInFlight
    BY <1>1, <1>2, PoolAssumption
  <1>4. ASSUME NEW i \in DOMAIN inflight' PROVE ItemAuthorized(inflight'[i])
    <2>1. CASE i \in 1 .. Len(inflight)
      BY <1>1, <1>2, <2>1, AuthorizedItems DEF SecInv
    <2>2. CASE i = Len(inflight) + 1
      BY <1>2, <2>2
    <2> QED
      BY <1>1, <1>2, <2>1, <2>2
  <1>5. Authorized'
    BY <1>4 DEF Authorized, ItemAuthorized, Granted, policy
  <1> QED
    BY <1>2, <1>3, <1>5

(* A request that is answered.                                             *)
LEMMA AnsweredKeeps ==
  ASSUME SecInv, inflight # <<>>, NEW how, Answered(how), config' = config, now' = now
  PROVE  /\ First \in ItemSet
         /\ inflight' \in Seq(ItemSet) /\ Len(inflight') <= MaxInFlight
         /\ Len(inflight') = Len(inflight) - 1
         /\ Authorized'
  <1>1. /\ inflight \in Seq(ItemSet) /\ Len(inflight) <= MaxInFlight
        /\ inflight' = Tail(inflight)
    BY DEF SecInv, Answered
  <1>2. /\ First \in ItemSet
        /\ inflight' \in Seq(ItemSet) /\ Len(inflight') = Len(inflight) - 1
        /\ \A i \in DOMAIN inflight' : i + 1 \in DOMAIN inflight /\ inflight'[i] = inflight[i + 1]
    BY <1>1 DEF First
  <1>3. Len(inflight') <= MaxInFlight
    BY <1>1, <1>2, PoolAssumption
  <1>4. ASSUME NEW i \in DOMAIN inflight' PROVE ItemAuthorized(inflight'[i])
    BY <1>2, AuthorizedItems DEF SecInv
  <1>5. Authorized'
    BY <1>4 DEF Authorized, ItemAuthorized, Granted, policy
  <1> QED
    BY <1>2, <1>3, <1>5

LEMMA ClaimFacts ==
  /\ NoClaims \in ClaimSet
  /\ config \in Policies => NosecAuthorization(policy) \in ClaimSet
  /\ config \in Policies => \A cred \in Creds : ExpandIdCred(policy, cred) \in ClaimSet
  /\ \A tok \in Tokens : TokenClaims(TokenOf[tok]) \in ClaimSet
  /\ Granted(Nobody) = NoClaims
  /\ \A tok \in Tokens : Grants(TokenOf[tok]) => Granted(tok) = TokenClaims(TokenOf[tok])
  /\ \A cred \in Creds : Granted(cred) = ExpandIdCred(policy, cred)
  <1>1. \A cred \in Creds : cred # Nobody
    BY DEF Creds, Nobody
  <1>2. \A tok \in Tokens : tok # Nobody /\ tok \notin Creds
    BY NamesAssumption
  <1> QED
    BY <1>1, <1>2 DEF ClaimSet, Granted, policy

(* What message 3 leaves of a context.                                     *)
LEMMA Message3Facts ==
  ASSUME config \in Policies, NEW e \in ContextSet, OfPeer(e), NEW m3 \in Messages3
  PROVE  LET f == ProcessMessage3(e, m3)
         IN  /\ f \in EntrySet /\ OfPeer(f)
             /\ f = Empty \/ (f.cown = e.cown /\ f.ses = e.ses)
  <1> DEFINE token == IF m3.tok = NoToken THEN NoClaims ELSE EdhocTokenClaims(policy, TokenOf[m3.tok])
             claims == IF token # NoClaims THEN token ELSE ExpandIdCred(policy, m3.cred)
             who == IF token # NoClaims THEN m3.tok ELSE m3.cred
             f == ProcessMessage3(e, m3)
             g == [e EXCEPT !.stage = "Oscore", !.auth = claims, !.who = who]
  <1>1. (m3 # NotCbor => m3.cred \in Creds) /\ (m3.tok = NoToken \/ m3.tok \in Tokens)
    <2>1. \/ m3 = NotCbor
          \/ m3 = Unverified
          \/ m3 \in [tok : {NoToken}, cred : Creds, verifies : {TRUE}]
          \/ m3 \in [tok : Tokens, cred : {"by_value"}, verifies : {TRUE}]
      BY DEF Messages3
    <2>2. CASE m3 = Unverified
      <3>1. m3.tok = NoToken /\ m3.cred = "known"
        BY <2>2 DEF Unverified
      <3> QED
        BY <3>1 DEF Creds
    <2>5. CASE m3 = NotCbor
      BY <2>5 DEF NotCbor
    <2>3. CASE m3 \in [tok : {NoToken}, cred : Creds, verifies : {TRUE}]
      BY <2>3
    <2>4. CASE m3 \in [tok : Tokens, cred : {"by_value"}, verifies : {TRUE}]
      BY <2>4 DEF Creds
    <2> QED
      BY <2>1, <2>2, <2>3, <2>4, <2>5
  <1>2. token # NoClaims => /\ m3.tok \in Tokens /\ token = TokenClaims(TokenOf[m3.tok])
                            /\ Grants(TokenOf[m3.tok])
    BY <1>1 DEF EdhocTokenClaims, DecryptSymmetric, VerifyAsymmetric, Grants
  <1>3. f = IF m3 = NotCbor THEN Empty
            ELSE IF e.stage # "SentM2" THEN e ELSE IF claims = NoClaims \/ ~m3.verifies THEN Empty ELSE g
    BY DEF ProcessMessage3
  <1> HIDE DEF token, f
  <1>4. m3 # NotCbor => claims \in ClaimSet /\ who \in Peers /\ claims = Granted(who)
    <2>1. CASE token # NoClaims
      BY <1>2, <2>1, ClaimFacts DEF Peers
    <2>2. CASE token = NoClaims
      BY <1>1, <2>2, ClaimFacts DEF Peers
    <2> QED
      BY <2>1, <2>2
  <1> HIDE DEF claims, who
  <1>5. m3 # NotCbor => /\ g \in ContextSet /\ g.cown = e.cown /\ g.ses = e.ses
                        /\ g.auth = claims /\ g.who = who
    BY <1>4 DEF ContextSet
  <1>6. m3 # NotCbor => OfPeer(g)
    BY <1>4, <1>5 DEF OfPeer
  <1>7. OfPeer(Empty)
    BY DEF OfPeer, Empty
  <1> HIDE DEF g
  <1> QED
    BY <1>3, <1>5, <1>6, <1>7 DEF EntrySet, f

(* Only a free slot has the lowest priority.                               *)
LEMMA LevelFacts ==
  /\ SecLevel(Empty) = 3
  /\ \A e \in EntrySet : SecLevel(e) >= 3 => e = Empty
  <1>1. SecLevel(Empty) = 3
    BY DEF SecLevel, Empty, LEVEL_EMPTY
  <1>2. ASSUME NEW e \in EntrySet, SecLevel(e) >= 3 PROVE e = Empty
    <2>1. CASE e.stage \in {"ProcessedM1", "SentM2"}
      <3>1. SecLevel(e) = 2
        BY <2>1 DEF SecLevel, LEVEL_ONGOING
      <3> QED
        BY <1>2, <3>1
    <2>2. CASE e.stage = "Oscore"
      <3>1. SecLevel(e) \in {0, 1}
        BY <2>2 DEF SecLevel, LEVEL_AUTHENTICATED, LEVEL_ADMIN
      <3> QED
        BY <1>2, <3>1
    <2> QED
      BY <2>1, <2>2, EntryFacts
  <1> QED
    BY <1>1, <1>2

(* The contexts of the sessions are still there.                           *)
Kept(old, new) ==
  \A i \in DOMAIN old : old[i] # Empty => \E j \in DOMAIN new : new[j] # Empty /\ new[j].ses = old[i].ses

(* The part of extract_oscore_edhoc() that puts the context back.          *)
LEMMA PutBackFacts ==
  ASSUME PoolInv(pool), NEW kid \in COwns, Pool!Found(pool, WithCOwn(kid)),
         NEW e \in ContextSet, OfPeer(e), e.cown = kid,
         e.ses = Pool!FoundEntry(pool, WithCOwn(kid)).ses
  PROVE  LET rest == Pool!Put(pool, WithCOwn(kid), Empty)
             t == Pool!ForceInsert(rest, e)
         IN  /\ PoolInv(t) /\ ~(Pool!IsFull(rest) /\ Pool!LastEntry(rest) # Empty)
             /\ Kept(pool.entries, t.entries)
             /\ \E i \in DOMAIN t.entries : t.entries[i] = e
  <1> DEFINE rest == Pool!Put(pool, WithCOwn(kid), Empty)
             t == Pool!ForceInsert(rest, e)
             f == Pool!FoundEntry(pool, WithCOwn(kid))
  <1>0. Empty \in EntrySet /\ OfPeer(Empty) /\ Empty.cown = -1
    BY DEF EntrySet, OfPeer, Empty, NoCOwn
  <1>1. /\ f \in ContextSet /\ f.cown = kid /\ OfPeer(f) /\ PoolInv(rest)
        /\ \E x \in DOMAIN pool.entries :
             f = pool.entries[x] /\ Replaced(pool.entries, rest.entries, x, Empty)
    BY <1>0, LookupFacts
  <1> HIDE DEF rest, f
  <1>2. PICK x \in DOMAIN pool.entries :
          f = pool.entries[x] /\ Replaced(pool.entries, rest.entries, x, Empty)
    BY <1>1
  <1>3. /\ DOMAIN rest.entries = DOMAIN pool.entries /\ rest.entries[x] = Empty
        /\ \A i \in DOMAIN pool.entries \ {x} : rest.entries[i] = pool.entries[i]
    BY <1>2 DEF Replaced
  <1>4. f # Empty /\ e # Empty
    <2>1. f \in EntrySet /\ e \in EntrySet
      BY <1>1 DEF EntrySet
    <2> QED
      BY <1>1, <2>1, EntryFacts
  <1>5. \A i \in DOMAIN rest.entries : rest.entries[i].cown # e.cown
    <2>1. -1 # kid
      BY PoolAssumption DEF COwns
    <2>2. \A i \in DOMAIN pool.entries \ {x} : pool.entries[i].cown # kid
      BY <1>1, <1>2, <1>4 DEF PoolInv, KidsUnique
    <2> QED
      BY <1>0, <1>3, <2>1, <2>2
  <1>6. /\ PoolInv(t)
        /\ \E y \in 1 .. MAX_CONTEXTS :
             /\ Replaced(rest.entries, t.entries, y, e)
             /\ y \in DOMAIN rest.entries <=> Pool!IsFull(rest)
             /\ y \in DOMAIN rest.entries =>
                  /\ Pool!LastEntry(rest) = rest.entries[y]
                  /\ \A i \in DOMAIN rest.entries : SecLevel(rest.entries[i]) <= SecLevel(rest.entries[y])
    BY <1>1, <1>5, InsertKeeps
  <1> HIDE DEF t
  <1>7. PICK y \in 1 .. MAX_CONTEXTS :
          /\ Replaced(rest.entries, t.entries, y, e)
          /\ y \in DOMAIN rest.entries <=> Pool!IsFull(rest)
          /\ y \in DOMAIN rest.entries =>
               /\ Pool!LastEntry(rest) = rest.entries[y]
               /\ \A i \in DOMAIN rest.entries : SecLevel(rest.entries[i]) <= SecLevel(rest.entries[y])
    BY <1>6
  <1>8. y \in DOMAIN rest.entries => rest.entries[y] = Empty
    <2> SUFFICES ASSUME y \in DOMAIN rest.entries PROVE rest.entries[y] = Empty
      OBVIOUS
    <2>1. SecLevel(rest.entries[x]) <= SecLevel(rest.entries[y])
      BY <1>3, <1>7
    <2>2. rest.entries[y] \in EntrySet
      BY <1>1 DEF PoolInv, PoolType
    <2>3. SecLevel(rest.entries[y]) >= 3
      BY <1>3, <2>1, LevelFacts
    <2> QED
      BY <2>2, <2>3, LevelFacts
  <1>9. ~(Pool!IsFull(rest) /\ Pool!LastEntry(rest) # Empty)
    BY <1>7, <1>8
  <1>10. y \in DOMAIN t.entries /\ t.entries[y] = e
    BY <1>7 DEF Replaced
  <1>11. ASSUME NEW i \in DOMAIN pool.entries, pool.entries[i] # Empty
         PROVE  \E j \in DOMAIN t.entries : t.entries[j] # Empty /\ t.entries[j].ses = pool.entries[i].ses
    <2>1. CASE i = x
      BY <1>2, <1>4, <1>10, <2>1 DEF f
    <2>2. CASE i # x
      <3>1. rest.entries[i] = pool.entries[i] /\ i \in DOMAIN rest.entries /\ i # y
        BY <1>3, <1>8, <1>11, <2>2
      <3>2. i \in DOMAIN t.entries /\ t.entries[i] = pool.entries[i]
        BY <1>7, <3>1 DEF Replaced
      <3> QED
        BY <1>11, <3>2
    <2> QED
      BY <2>1, <2>2
  <1> QED
    BY <1>6, <1>9, <1>10, <1>11 DEF t, rest, Kept

(* extract_oscore_edhoc() from the copy of the message on.                 *)
LEMMA UnprotectFacts ==
  ASSUME PoolInv(pool), NEW kid \in COwns, Pool!Found(pool, WithCOwn(kid)),
         NEW e \in ContextSet, OfPeer(e), e.cown = kid,
         e.ses = Pool!FoundEntry(pool, WithCOwn(kid)).ses, NEW req,
         NEW rest, rest = Pool!Put(pool, WithCOwn(kid), Empty), PoolInv(rest),
         Unprotect(rest, e, kid, req)
  PROVE  /\ PoolInv(pool')
         /\ \/ pool' = rest /\ inflight' = inflight /\ answer' = answer /\ fault' \in {fault, "panic"}
            \/ /\ Kept(pool.entries, pool'.entries) /\ inflight' = inflight /\ answer' = answer
               /\ fault' = fault
            \/ /\ Extracted(Item("EdhocOscoreRequest", e.ses, kid,
                                 RequestIsAllowed(e.auth.scope, req), e.who, req))
               /\ req # NoRequest /\ req # NotCopied /\ fault' = fault
               /\ Kept(pool.entries, pool'.entries)
               /\ \E i \in DOMAIN pool'.entries : pool'.entries[i] = e
  <1>1. CASE pool' = rest /\ UNCHANGED <<inflight, answer>> /\ fault' \in {fault, "panic"}
    BY <1>1
  <1>2. CASE /\ req # NotCopied /\ ~CodePanics(e.auth.scope, req)
             /\ pool' = PutBack(rest, e)
             /\ fault' = IF Pool!IsFull(rest) /\ Pool!LastEntry(rest) # Empty THEN "debug_assert" ELSE fault
             /\ IF req = NoRequest THEN UNCHANGED <<inflight, answer>>
                ELSE Extracted(Item("EdhocOscoreRequest", e.ses, kid,
                                    RequestIsAllowed(e.auth.scope, req), e.who, req))
    <2>1. pool' = Pool!ForceInsert(rest, e)
      BY <1>2 DEF PutBack
    <2>2. /\ PoolInv(pool') /\ ~(Pool!IsFull(rest) /\ Pool!LastEntry(rest) # Empty)
          /\ Kept(pool.entries, pool'.entries)
          /\ \E i \in DOMAIN pool'.entries : pool'.entries[i] = e
      BY <2>1, PutBackFacts
    <2>3. fault' = fault
      BY <1>2, <2>2
    <2>4. CASE req = NoRequest
      BY <1>2, <2>2, <2>3, <2>4
    <2>5. CASE req # NoRequest
      <3>1. Extracted(Item("EdhocOscoreRequest", e.ses, kid,
                           RequestIsAllowed(e.auth.scope, req), e.who, req))
        BY <1>2, <2>5
      <3> QED
        BY <1>2, <2>2, <2>3, <2>5, <3>1
    <2> QED
      BY <2>4, <2>5
  <1> QED
    BY <1>1, <1>2 DEF Unprotect

(* extract_oscore_edhoc(): nothing of the kind is in flight afterwards, or *)
(* the request of a context that is back in the pool.                      *)
LEMMA ProtectedFacts ==
  ASSUME SecInv, NEW kid \in COwns, NEW m3 \in {NoMessage3} \cup Messages3, Protected(kid, m3)
  PROVE  /\ PoolInv(pool') /\ fault' \in {fault, "panic"}
         /\ \/ /\ inflight' = inflight /\ answer' = answer
               /\ \/ Kept(pool.entries, pool'.entries)
                  \/ \E x \in DOMAIN pool.entries : Replaced(pool.entries, pool'.entries, x, Empty)
            \/ \E e \in ContextSet, req \in InnerRequests :
                 /\ e.stage = "Oscore" /\ e.cown = kid /\ OfPeer(e)
                 /\ e.auth # NoClaims /\ IsValid(e.auth, now) /\ fault' = fault
                 /\ Extracted(Item("EdhocOscoreRequest", e.ses, kid,
                                   RequestIsAllowed(e.auth.scope, req), e.who, req))
                 /\ Kept(pool.entries, pool'.entries)
                 /\ \E i \in DOMAIN pool'.entries : pool'.entries[i] = e
  <1> DEFINE pass == WithCOwn(kid)
             taken == Pool!FoundEntry(pool, pass)
             rest == Pool!Put(pool, pass, Empty)
             e == IF m3 = NoMessage3 THEN taken ELSE ProcessMessage3(taken, m3)
             usable == e.stage = "Oscore" /\ e.auth # NoClaims /\ IsValid(e.auth, now)
  <1>1. /\ PoolInv(pool) /\ config \in Policies /\ Pool!Found(pool, pass)
        /\ \/ /\ ~usable
              /\ pool' = rest
              /\ UNCHANGED <<inflight, answer, fault>>
           \/ /\ usable
              /\ \E req \in {NoRequest, NotCopied} \cup InnerRequests : Unprotect(rest, e, kid, req)
    BY DEF SecInv, Protected
  <1>2. Empty \in EntrySet /\ OfPeer(Empty) /\ Empty.stage # "Oscore"
    BY DEF EntrySet, OfPeer, Empty
  <1>3. /\ taken \in ContextSet /\ taken.cown = kid /\ OfPeer(taken) /\ PoolInv(rest)
        /\ \E x \in DOMAIN pool.entries : Replaced(pool.entries, rest.entries, x, Empty)
    BY <1>1, <1>2, LookupFacts
  <1> HIDE DEF rest
  <1>4. e = Empty \/ (e \in ContextSet /\ OfPeer(e) /\ e.cown = kid /\ e.ses = taken.ses)
    <2>1. CASE m3 = NoMessage3
      BY <1>3, <2>1
    <2>2. CASE m3 # NoMessage3
      <3>1. m3 \in Messages3 /\ e = ProcessMessage3(taken, m3)
        BY <2>2
      <3> HIDE DEF taken, e
      <3>2. /\ e \in EntrySet /\ OfPeer(e)
            /\ e = Empty \/ (e.cown = taken.cown /\ e.ses = taken.ses)
        BY <1>1, <1>3, <3>1, Message3Facts
      <3> QED
        BY <1>3, <3>2 DEF EntrySet
    <2> QED
      BY <2>1, <2>2
  <1> HIDE DEF e, taken
  <1>5. ASSUME usable, NEW req \in {NoRequest, NotCopied} \cup InnerRequests,
               Unprotect(rest, e, kid, req)
        PROVE  /\ PoolInv(pool') /\ fault' \in {fault, "panic"}
               /\ \/ /\ inflight' = inflight /\ answer' = answer
                     /\ Kept(pool.entries, pool'.entries) \/ pool' = rest
                  \/ /\ req \in InnerRequests /\ fault' = fault
                     /\ Extracted(Item("EdhocOscoreRequest", e.ses, kid,
                                       RequestIsAllowed(e.auth.scope, req), e.who, req))
                     /\ Kept(pool.entries, pool'.entries)
                     /\ \E i \in DOMAIN pool'.entries : pool'.entries[i] = e
    <2>1. e \in ContextSet /\ OfPeer(e) /\ e.cown = kid /\ e.ses = taken.ses
      BY <1>2, <1>4, <1>5
    <2>2. /\ PoolInv(pool')
          /\ \/ pool' = rest /\ inflight' = inflight /\ answer' = answer /\ fault' \in {fault, "panic"}
             \/ /\ Kept(pool.entries, pool'.entries) /\ inflight' = inflight /\ answer' = answer
                /\ fault' = fault
             \/ /\ Extracted(Item("EdhocOscoreRequest", e.ses, kid,
                                  RequestIsAllowed(e.auth.scope, req), e.who, req))
                /\ req # NoRequest /\ req # NotCopied /\ fault' = fault
                /\ Kept(pool.entries, pool'.entries)
                /\ \E i \in DOMAIN pool'.entries : pool'.entries[i] = e
      BY <1>1, <1>3, <1>5, <2>1, UnprotectFacts DEF taken, rest
    <2> HIDE DEF usable
    <2> QED
      BY <1>5, <2>2
  <1>6. CASE usable
    <2>1. PICK req \in {NoRequest, NotCopied} \cup InnerRequests : Unprotect(rest, e, kid, req)
      BY <1>1, <1>6
    <2>2. e \in ContextSet /\ OfPeer(e) /\ e.cown = kid
      BY <1>2, <1>4, <1>6
    <2> QED
      BY <1>3, <1>5, <1>6, <2>1, <2>2
  <1>7. CASE ~usable
    BY <1>1, <1>3, <1>7
  <1> QED
    BY <1>6, <1>7

(* The action of EvictsLowest.                                             *)
Evicts ==
  pool' # pool =>
    /\ \A i, j \in Lost : i = j
    /\ Lost # {} => \A j \in Occupied \ Lost : pool'.entries[j] = pool.entries[j]
    /\ Len(inflight') > Len(inflight) =>
         \A i \in Lost, j \in Occupied : Worth(pool.entries[i]) <= Worth(pool.entries[j])

LEMMA WorthFacts ==
  ASSUME NEW e \in ContextSet, NEW f \in ContextSet, SecLevel(f) <= SecLevel(e)
  PROVE  Worth(e) <= Worth(f)
  <1>1. \A g \in ContextSet : g.stage \in {"ProcessedM1", "SentM2", "Oscore"}
    BY DEF ContextSet
  <1>2. \A g \in ContextSet :
          \/ SecLevel(g) = 2 /\ Worth(g) = 0
          \/ SecLevel(g) = 1 /\ Worth(g) = 1
          \/ SecLevel(g) = 0 /\ Worth(g) = 2
    <2> SUFFICES ASSUME NEW g \in ContextSet
                 PROVE  \/ SecLevel(g) = 2 /\ Worth(g) = 0
                        \/ SecLevel(g) = 1 /\ Worth(g) = 1
                        \/ SecLevel(g) = 0 /\ Worth(g) = 2
      OBVIOUS
    <2>1. CASE g.stage \in {"ProcessedM1", "SentM2"}
      BY <2>1 DEF SecLevel, Worth, LEVEL_ONGOING
    <2>2. CASE g.stage = "Oscore"
      BY <2>2 DEF SecLevel, Worth, LEVEL_AUTHENTICATED, LEVEL_ADMIN
    <2> QED
      BY <1>1, <2>1, <2>2
  <1>3. \/ SecLevel(e) = 2 /\ Worth(e) = 0
        \/ SecLevel(e) = 1 /\ Worth(e) = 1
        \/ SecLevel(e) = 0 /\ Worth(e) = 2
    BY <1>2
  <1>4. \/ SecLevel(f) = 2 /\ Worth(f) = 0
        \/ SecLevel(f) = 1 /\ Worth(f) = 1
        \/ SecLevel(f) = 0 /\ Worth(f) = 2
    BY <1>2
  <1> QED
    BY <1>3, <1>4

LEMMA ContextsTyped ==
  ASSUME PoolInv(pool)
  PROVE  /\ pool.entries \in Seq(EntrySet)
         /\ pool \in PoolType(EntrySet) /\ Pool!IsOrdered(pool)
  BY DEF PoolInv, PoolType

LEMMA KeptEvicts ==
  ASSUME Kept(pool.entries, pool'.entries)
  PROVE  Evicts
  <1>1. Lost = {}
    <2> SUFFICES ASSUME NEW i \in Lost PROVE FALSE
      OBVIOUS
    <2>1. /\ i \in DOMAIN pool.entries /\ pool.entries[i] # Empty
          /\ \A j \in Occupied' : pool'.entries[j].ses # pool.entries[i].ses
      BY DEF Lost, Occupied
    <2>2. PICK j \in DOMAIN pool'.entries :
            pool'.entries[j] # Empty /\ pool'.entries[j].ses = pool.entries[i].ses
      BY <2>1 DEF Kept
    <2>3. j \in Occupied'
      BY <2>2 DEF Occupied
    <2> QED
      BY <2>1, <2>2, <2>3
  <1> QED
    BY <1>1 DEF Evicts

(* One slot changes: no other context is lost.                             *)
LEMMA ReplacedEvicts ==
  ASSUME PoolInv(pool), NEW x, NEW e, Replaced(pool.entries, pool'.entries, x, e),
         Len(inflight') > Len(inflight) /\ x \in DOMAIN pool.entries =>
           \A i \in DOMAIN pool.entries : SecLevel(pool.entries[i]) <= SecLevel(pool.entries[x])
  PROVE  Evicts
  <1>1. ASSUME NEW i \in Occupied, i # x PROVE pool'.entries[i] = pool.entries[i] /\ i \notin Lost
    <2>1. /\ i \in DOMAIN pool'.entries /\ pool'.entries[i] = pool.entries[i]
          /\ pool.entries[i] # Empty
      BY <1>1 DEF Occupied, Replaced
    <2>2. i \in Occupied'
      BY <2>1 DEF Occupied
    <2> QED
      BY <2>1, <2>2 DEF Lost
  <1>2. Lost \subseteq Occupied
    BY DEF Lost
  <1>3. \A i \in Lost : i = x
    BY <1>1, <1>2
  <1>4. \A j \in Occupied \ Lost : Lost # {} => pool'.entries[j] = pool.entries[j]
    BY <1>1, <1>3
  <1>5. ASSUME Len(inflight') > Len(inflight), NEW i \in Lost, NEW j \in Occupied
        PROVE  Worth(pool.entries[i]) <= Worth(pool.entries[j])
    <2>1. /\ pool.entries[i] \in ContextSet /\ pool.entries[j] \in ContextSet
          /\ i \in DOMAIN pool.entries /\ j \in DOMAIN pool.entries
      BY <1>2 DEF PoolInv, PoolType, Occupied, EntrySet
    <2>2. SecLevel(pool.entries[j]) <= SecLevel(pool.entries[i])
      BY <1>3, <1>5, <2>1
    <2> QED
      BY <2>1, <2>2, WorthFacts
  <1> QED
    BY <1>3, <1>4, <1>5 DEF Evicts

(* A new context.                                                          *)
LEMMA NewContextFacts ==
  ASSUME PoolInv(pool), NEW e \in ContextSet, OfPeer(e),
         \A i \in DOMAIN pool.entries : pool.entries[i].cown # e.cown,
         pool' = Pool!ForceInsert(pool, e)
  PROVE  /\ PoolInv(pool') /\ Evicts
         /\ \E i \in DOMAIN pool'.entries : pool'.entries[i] = e
  <1>1. PICK x \in 1 .. MAX_CONTEXTS :
          /\ Replaced(pool.entries, pool'.entries, x, e)
          /\ x \in DOMAIN pool.entries =>
               \A i \in DOMAIN pool.entries : SecLevel(pool.entries[i]) <= SecLevel(pool.entries[x])
    BY InsertKeeps
  <1>2. PoolInv(pool')
    BY InsertKeeps
  <1>3. Evicts
    BY <1>1, ReplacedEvicts
  <1>4. x \in DOMAIN pool'.entries /\ pool'.entries[x] = e
    BY <1>1 DEF Replaced
  <1> QED
    BY <1>2, <1>3, <1>4

(* A context that this operation makes.                                    *)
LEMMA MadeFacts ==
  ASSUME SecInv, NEW stage \in {"ProcessedM1", "Oscore"}, NEW peer, NEW auth \in ClaimSet, NEW who \in Peers,
         stage = "Oscore" => auth = Granted(who)
  PROVE  LET c_r == CownButNot(peer)
             ses == NewSession(c_r)
             e == Context(stage, ses, c_r, peer, auth, who)
         IN  /\ c_r \in COwns /\ ses \in Sessions
             /\ e \in ContextSet /\ OfPeer(e)
             /\ e.stage = stage /\ e.cown = c_r /\ e.ses = ses
             /\ \A i \in DOMAIN pool.entries : pool.entries[i].cown # c_r
  <1> DEFINE c_r == CownButNot(peer)
             ses == NewSession(c_r)
             e == Context(stage, ses, c_r, peer, auth, who)
  <1>1. /\ c_r \in COwns /\ c_r # peer
        /\ \A i \in DOMAIN pool.entries : pool.entries[i].cown # c_r
    BY CownFacts DEF SecInv, PoolInv
  <1> HIDE DEF c_r
  <1>2. ses \in Sessions
    BY <1>1, SessionFacts DEF SecInv
  <1> HIDE DEF ses
  <1>3. e \in ContextSet /\ OfPeer(e) /\ e.stage = stage /\ e.cown = c_r /\ e.ses = ses
    <2>1. e = [stage |-> stage, ses |-> ses, cown |-> c_r, same |-> FALSE, auth |-> auth, who |-> who]
      BY <1>1 DEF Context
    <2> HIDE DEF e
    <2> QED
      BY <1>1, <1>2, <2>1 DEF ContextSet, OfPeer
  <1> QED
    BY <1>1, <1>2, <1>3 DEF c_r, ses

(* The item that an operation extracts, and the context its response needs *)
Held(item, stage) ==
  \E i \in DOMAIN pool'.entries :
    /\ pool'.entries[i].stage = stage /\ pool'.entries[i].cown = item.kid
    /\ pool'.entries[i].ses = item.ses

LEMMA RequestFacts ==
  /\ Requests \subseteq InnerRequests /\ Public \in InnerRequests
  /\ \A req : \A scope : RequestIsAllowed(scope, req) \in BOOLEAN
  BY DEF RequestIsAllowed, Requests, InnerRequests

LEMMA PlainFacts ==
  ASSUME SecInv, NEW req \in Requests, Plain(req)
  PROVE  \E item \in ItemSet : ItemAuthorized(item) /\ Extracted(item) /\ item.kind = "Inner"
  <1> DEFINE claims == NosecAuthorization(policy)
             allowed == claims # NoClaims /\ RequestIsAllowed(claims.scope, req) /\ IsValid(claims, now)
             item == Item("Inner", NoSession, NoCOwn, allowed, Nobody, req)
  <1>1. Extracted(item)
    BY DEF Plain
  <1>2. allowed \in BOOLEAN
    BY DEF IsValid
  <1>3. allowed => /\ claims # NoClaims /\ RequestIsAllowed(claims.scope, req)
                   /\ (claims.exp = NoExp \/ now < claims.exp)
    BY DEF IsValid
  <1> HIDE DEF allowed
  <1>4. /\ item \in ItemSet /\ item.kind = "Inner" /\ item.allowed = allowed /\ item.req = req
    BY <1>2, RequestFacts DEF Item, ItemSet, Peers
  <1> HIDE DEF item
  <1>5. ItemAuthorized(item)
    BY <1>3, <1>4 DEF ItemAuthorized
  <1> QED
    BY <1>1, <1>4, <1>5

LEMMA Message1Facts ==
  ASSUME SecInv, NEW peer, Message1(peer)
  PROVE  /\ PoolInv(pool') /\ Evicts
         /\ \E item \in ItemSet :
              /\ ItemAuthorized(item) /\ Extracted(item)
              /\ item.kind = "EdhocOkSend2" /\ Held(item, "ProcessedM1")
  <1> DEFINE c_r == CownButNot(peer)
             ses == NewSession(c_r)
             e == Context("ProcessedM1", ses, c_r, peer, NosecAuthorization(policy), Nobody)
             item == Item("EdhocOkSend2", ses, c_r, TRUE, Nobody, Public)
  <1>1. pool' = Pool!ForceInsert(pool, e) /\ Extracted(item)
    BY DEF Message1
  <1>2. /\ c_r \in COwns /\ ses \in Sessions
        /\ e \in ContextSet /\ OfPeer(e)
        /\ e.stage = "ProcessedM1" /\ e.cown = c_r /\ e.ses = ses
        /\ \A i \in DOMAIN pool.entries : pool.entries[i].cown # c_r
    BY MadeFacts, ClaimFacts DEF SecInv, Peers
  <1> HIDE DEF c_r, ses, e
  <1>3. /\ PoolInv(pool') /\ Evicts
        /\ \E i \in DOMAIN pool'.entries : pool'.entries[i] = e
    BY <1>1, <1>2, NewContextFacts DEF SecInv
  <1>4. item \in ItemSet /\ item.kind = "EdhocOkSend2" /\ item.kid = c_r /\ item.ses = ses
    BY <1>2, RequestFacts DEF Item, ItemSet, Peers
  <1> HIDE DEF item
  <1>5. ItemAuthorized(item) /\ Held(item, "ProcessedM1")
    BY <1>2, <1>3, <1>4 DEF ItemAuthorized, Held
  <1> QED
    BY <1>1, <1>3, <1>4, <1>5

LEMMA PostTokenFacts ==
  ASSUME SecInv, NEW peer, NEW tok \in Tokens, PostToken(tok, peer)
  PROVE  /\ PoolInv(pool') /\ Evicts
         /\ \E item \in ItemSet :
              ItemAuthorized(item) /\ Extracted(item) /\ item.kind = "ProcessedToken"
  <1> DEFINE c_r == CownButNot(peer)
             ses == NewSession(c_r)
             claims == AuthzInfoClaims(policy, TokenOf[tok])
             e == Context("Oscore", ses, c_r, peer, claims, tok)
             item == Item("ProcessedToken", ses, c_r, TRUE, Nobody, Public)
  <1>1. pool' = Pool!ForceInsert(pool, e) /\ Extracted(item) /\ claims # NoClaims
    BY DEF PostToken
  <1>2. claims = TokenClaims(TokenOf[tok]) /\ Grants(TokenOf[tok])
    BY <1>1 DEF AuthzInfoClaims, DecryptSymmetric, Grants
  <1> HIDE DEF claims
  <1>3. claims \in ClaimSet /\ claims = Granted(tok) /\ tok \in Peers
    BY <1>2, ClaimFacts DEF Peers
  <1>4. /\ c_r \in COwns /\ ses \in Sessions
        /\ e \in ContextSet /\ OfPeer(e)
        /\ e.stage = "Oscore" /\ e.cown = c_r /\ e.ses = ses
        /\ \A i \in DOMAIN pool.entries : pool.entries[i].cown # c_r
    BY <1>3, MadeFacts
  <1> HIDE DEF c_r, ses, e
  <1>5. PoolInv(pool') /\ Evicts
    BY <1>1, <1>4, NewContextFacts DEF SecInv
  <1>6. item \in ItemSet /\ item.kind = "ProcessedToken"
    BY <1>4, RequestFacts DEF Item, ItemSet, Peers
  <1> HIDE DEF item
  <1>7. ItemAuthorized(item)
    BY <1>6 DEF ItemAuthorized
  <1> QED
    BY <1>1, <1>5, <1>6, <1>7

LEMMA RequestProtected ==
  ASSUME SecInv, NEW kid \in COwns, NEW m3 \in {NoMessage3} \cup Messages3, Protected(kid, m3)
  PROVE  /\ PoolInv(pool') /\ Evicts /\ fault' \in {fault, "panic"}
         /\ \/ inflight' = inflight /\ answer' = answer
            \/ \E item \in ItemSet :
                 /\ ItemAuthorized(item) /\ Extracted(item) /\ fault' = fault
                 /\ item.kind = "EdhocOscoreRequest" /\ Held(item, "Oscore")
  <1>1. PoolInv(pool') /\ fault' \in {fault, "panic"} /\ PoolInv(pool)
    BY ProtectedFacts DEF SecInv
  <1>2. CASE /\ inflight' = inflight /\ answer' = answer
             /\ \/ Kept(pool.entries, pool'.entries)
                \/ \E x \in DOMAIN pool.entries : Replaced(pool.entries, pool'.entries, x, Empty)
    <2>1. ~(Len(inflight') > Len(inflight))
      BY <1>2 DEF SecInv
    <2>2. Evicts
      BY <1>1, <1>2, <2>1, KeptEvicts, ReplacedEvicts
    <2> QED
      BY <1>1, <1>2, <2>2
  <1>3. ASSUME NEW e \in ContextSet, NEW req \in InnerRequests,
               /\ e.stage = "Oscore" /\ e.cown = kid /\ OfPeer(e)
               /\ e.auth # NoClaims /\ IsValid(e.auth, now) /\ fault' = fault
               /\ Extracted(Item("EdhocOscoreRequest", e.ses, kid,
                                 RequestIsAllowed(e.auth.scope, req), e.who, req))
               /\ Kept(pool.entries, pool'.entries)
               /\ \E i \in DOMAIN pool'.entries : pool'.entries[i] = e
        PROVE  /\ Evicts
               /\ \E item \in ItemSet :
                    /\ ItemAuthorized(item) /\ Extracted(item) /\ fault' = fault
                    /\ item.kind = "EdhocOscoreRequest" /\ Held(item, "Oscore")
    <2> DEFINE allowed == RequestIsAllowed(e.auth.scope, req)
               item == Item("EdhocOscoreRequest", e.ses, kid, allowed, e.who, req)
    <2>2. e.ses \in Sessions /\ e.who \in Peers /\ e.auth = Granted(e.who)
      BY <1>3 DEF ContextSet, OfPeer
    <2>3. allowed \in BOOLEAN
      BY RequestFacts
    <2>4. Evicts
      BY <1>3, KeptEvicts
    <2>5. allowed => /\ e.auth # NoClaims /\ RequestIsAllowed(e.auth.scope, req)
                     /\ (e.auth.exp = NoExp \/ now < e.auth.exp)
      BY <1>3 DEF IsValid
    <2>6. Extracted(item)
      BY <1>3
    <2> HIDE DEF allowed
    <2>7. /\ item \in ItemSet /\ item.kind = "EdhocOscoreRequest" /\ item.kid = kid
          /\ item.ses = e.ses /\ item.allowed = allowed /\ item.who = e.who /\ item.req = req
      BY <2>2, <2>3 DEF Item, ItemSet
    <2> HIDE DEF item
    <2>8. ItemAuthorized(item) /\ Held(item, "Oscore")
      BY <1>3, <2>2, <2>5, <2>7 DEF ItemAuthorized, Held, allowed
    <2> QED
      BY <1>3, <2>4, <2>6, <2>7, <2>8
  <1> QED
    BY <1>1, <1>2, <1>3, ProtectedFacts

(* The context that the response at the head of the queue needs is found.  *)
LEMMA AwaitedFound ==
  ASSUME PoolInv(pool), First.kid \in COwns, NEW stage, Awaited(stage)
  PROVE  LET pass == WithCOwn(First.kid)
             f == Pool!FoundEntry(pool, pass)
         IN  Pool!Found(pool, pass) /\ f.stage = stage /\ f.ses = First.ses
  <1> DEFINE pass == WithCOwn(First.kid)
             f == Pool!FoundEntry(pool, pass)
  <1>1. PICK i \in DOMAIN pool.entries :
          /\ pool.entries[i].stage = stage /\ pool.entries[i].cown = First.kid
          /\ pool.entries[i].ses = First.ses
    BY DEF Awaited
  <1>2. Pool!Found(pool, pass)
    <2>1. i \in pass
      BY <1>1 DEF WithCOwn
    <2>2. pool \in PoolType(EntrySet) /\ Pool!IsOrdered(pool)
      BY ContextsTyped
    <2> HIDE DEF pass
    <2> QED
      BY <2>1, <2>2, FoundIff
  <1>3. Empty \in EntrySet /\ OfPeer(Empty)
    BY DEF EntrySet, OfPeer, Empty
  <1>4. /\ f \in ContextSet /\ f.cown = First.kid
        /\ \E x \in DOMAIN pool.entries : f = pool.entries[x]
    BY <1>2, <1>3, LookupFacts
  <1> HIDE DEF f
  <1>5. PICK x \in DOMAIN pool.entries : f = pool.entries[x]
    BY <1>4
  <1>6. f # Empty
    BY <1>4, EntryFacts DEF EntrySet
  <1>7. i = x
    BY <1>1, <1>4, <1>5, <1>6 DEF PoolInv, KidsUnique
  <1> QED
    BY <1>1, <1>2, <1>5, <1>7 DEF f

LEMMA AnsweredLess ==
  ASSUME SecInv, inflight # <<>>, NEW how, Answered(how)
  PROVE  ~(Len(inflight') > Len(inflight))
  <1>1. inflight \in Seq(ItemSet) /\ inflight' = Tail(inflight)
    BY DEF SecInv, Answered
  <1> QED
    BY <1>1

LEMMA BuildMessage2Facts ==
  ASSUME SecInv, NEW prepared \in BOOLEAN, BuildMessage2(prepared)
  PROVE  /\ PoolInv(pool') /\ Evicts /\ inflight # <<>> /\ Answered("none")
         /\ First.kind = "EdhocOkSend2" /\ (Awaited("ProcessedM1") => fault' = fault)
  <1> DEFINE pass == WithCOwn(First.kid)
             f == Pool!FoundEntry(pool, pass)
             e == IF prepared THEN [f EXCEPT !.stage = "SentM2"] ELSE Empty
  <1>1. /\ inflight # <<>> /\ Answered("none") /\ First.kind = "EdhocOkSend2"
        /\ IF ~Pool!Found(pool, pass) THEN pool' = pool /\ fault' = fault
           ELSE IF f.stage # "ProcessedM1" THEN pool' = pool /\ fault' = "todo"
           ELSE pool' = Pool!Put(pool, pass, e) /\ fault' = fault
    BY DEF BuildMessage2, CanBuild
  <1>2. First.kid \in COwns /\ PoolInv(pool)
    <2>1. First \in ItemSet
      BY <1>1 DEF SecInv, First
    <2> QED
      BY <1>1, <2>1 DEF ItemSet, SecInv
  <1>3. Awaited("ProcessedM1") => fault' = fault
    BY <1>1, <1>2, AwaitedFound
  <1>4. CASE Pool!Found(pool, pass) /\ f.stage = "ProcessedM1"
    <2>1. Empty \in EntrySet /\ OfPeer(Empty)
      BY DEF EntrySet, OfPeer, Empty
    <2>2. f \in ContextSet /\ f.cown = First.kid
      BY <1>2, <1>4, <2>1, LookupFacts
    <2>3. pool' = Pool!Put(pool, pass, e)
      BY <1>1, <1>4
    <2> HIDE DEF f
    <2>4. e \in EntrySet /\ OfPeer(e) /\ (e = Empty \/ e.cown = First.kid)
      <3>1. CASE prepared
        <4> DEFINE g == [f EXCEPT !.stage = "SentM2"]
        <4>1. g \in ContextSet /\ g.cown = First.kid /\ g.stage = "SentM2"
          BY <2>2 DEF ContextSet
        <4>2. e = g
          BY <3>1
        <4> HIDE DEF g, e
        <4> QED
          BY <4>1, <4>2 DEF EntrySet, OfPeer
      <3>2. CASE ~prepared
        BY <2>1, <3>2
      <3> QED
        BY <3>1, <3>2
    <2> HIDE DEF e
    <2>5. PoolInv(pool') /\ \E x \in DOMAIN pool.entries : Replaced(pool.entries, pool'.entries, x, e)
      BY <1>2, <1>4, <2>3, <2>4, LookupFacts
    <2>6. Evicts
      BY <1>1, <1>2, <2>5, AnsweredLess, ReplacedEvicts
    <2> QED
      BY <1>1, <1>3, <2>5, <2>6
  <1>5. CASE ~(Pool!Found(pool, pass) /\ f.stage = "ProcessedM1")
    BY <1>1, <1>2, <1>3, <1>5 DEF Evicts
  <1> QED
    BY <1>4, <1>5

LEMMA BuildOscoreFacts ==
  ASSUME SecInv, BuildOscore
  PROVE  /\ PoolInv(pool') /\ Evicts /\ inflight # <<>> /\ Answered(answer') /\ fault' = fault
         /\ First.kind = "EdhocOscoreRequest" /\ (Awaited("Oscore") => answer' = "none")
  <1> DEFINE pass == WithCOwn(First.kid)
             f == Pool!FoundEntry(pool, pass)
  <1>1. /\ inflight # <<>> /\ First.kind = "EdhocOscoreRequest" /\ fault' = fault
        /\ IF Pool!Found(pool, pass)
           THEN /\ pool' = Pool!Put(pool, pass, f)
                /\ Answered(IF f.stage = "Oscore" /\ f.ses = First.ses THEN "none" ELSE "wrong")
           ELSE pool' = pool /\ Answered("wrong")
    BY DEF BuildOscore, CanBuild
  <1>2. First.kid \in COwns /\ PoolInv(pool)
    <2>1. First \in ItemSet
      BY <1>1 DEF SecInv, First
    <2> QED
      BY <1>1, <2>1 DEF ItemSet, SecInv
  <1>3. Answered(answer')
    BY <1>1 DEF Answered
  <1>4. Awaited("Oscore") => answer' = "none"
    <2>1. Awaited("Oscore") => Pool!Found(pool, pass) /\ f.stage = "Oscore" /\ f.ses = First.ses
      BY <1>2, AwaitedFound
    <2> QED
      BY <1>1, <2>1 DEF Answered
  <1>5. PoolInv(pool') /\ Evicts
    <2>1. Empty \in EntrySet /\ OfPeer(Empty)
      BY DEF EntrySet, OfPeer, Empty
    <2>2. CASE Pool!Found(pool, pass)
      <3>1. f \in ContextSet /\ f.cown = First.kid /\ OfPeer(f)
        BY <1>2, <2>1, <2>2, LookupFacts
      <3>2. f \in EntrySet /\ pool' = Pool!Put(pool, pass, f)
        BY <1>1, <2>2, <3>1 DEF EntrySet
      <3> HIDE DEF f
      <3>3. PoolInv(pool') /\ \E x \in DOMAIN pool.entries : Replaced(pool.entries, pool'.entries, x, f)
        BY <1>2, <2>2, <3>1, <3>2, LookupFacts
      <3>4. Evicts
        BY <1>1, <1>2, <1>3, <3>3, AnsweredLess, ReplacedEvicts
      <3> QED
        BY <3>3, <3>4
    <2>3. CASE ~Pool!Found(pool, pass)
      BY <1>1, <1>2, <2>3 DEF Evicts
    <2> QED
      BY <2>2, <2>3
  <1> QED
    BY <1>1, <1>3, <1>4, <1>5

LEMMA SecInvInit ==
  ASSUME Init
  PROVE  SecInv /\ ResponseInv
  <1>1. /\ pool = [entries |-> <<>>, sorted |-> <<>>] /\ inflight = <<>>
        /\ config \in Policies /\ answer = "none" /\ fault = "none"
    BY DEF Init, Pool!NewPool
  <1>2. PoolInv(pool)
    <2>1. pool \in PoolType(EntrySet)
      BY <1>1 DEF PoolType
    <2>2. pool.entries = <<>> /\ pool.sorted = <<>>
      BY <1>1
    <2>3. Pool!IsOrdered(pool)
      BY <2>2, PoolAssumption DEF Pool!IsOrdered
    <2> QED
      BY <2>1, <2>2, <2>3 DEF PoolInv, KidsUnique
  <1>3. inflight \in Seq(ItemSet) /\ Len(inflight) <= MaxInFlight /\ Authorized
    BY <1>1, PoolAssumption DEF Authorized
  <1>4. ResponseInv
    BY <1>1 DEF ResponseInv, ResponseProtected
  <1> QED
    BY <1>1, <1>2, <1>3, <1>4 DEF SecInv

(* What a step does: it extracts a request, answers one, or neither.       *)
SecStepFacts ==
  /\ PoolInv(pool') /\ Evicts /\ config' = config
  /\ \/ /\ CanExtract /\ now' = now /\ fault' = fault
        /\ \E item \in ItemSet :
             /\ ItemAuthorized(item) /\ Extracted(item)
             /\ item.kind = "EdhocOscoreRequest" => Held(item, "Oscore")
             /\ item.kind = "EdhocOkSend2" => Held(item, "ProcessedM1")
     \/ /\ inflight # <<>> /\ now' = now /\ Answered(answer')
        /\ \/ answer' = "none" /\ fault' = fault
           \/ answer' = "none" /\ First.kind = "EdhocOkSend2" /\ ~Awaited("ProcessedM1")
           \/ fault' = fault /\ First.kind = "EdhocOscoreRequest" /\ ~Awaited("Oscore")
     \/ /\ inflight' = inflight /\ answer' = answer /\ fault' \in {fault, "panic"}
        /\ \/ inflight = <<>>
           \/ now' = now /\ (pool' = pool \/ CanExtract)

LEMMA SecStep ==
  ASSUME SecInv, Next
  PROVE  SecStepFacts
  <1>0. PoolInv(pool) /\ Len(inflight) \in Nat
    BY DEF SecInv
  <1>1. CASE Tick
    <2>1. /\ inflight = <<>> /\ UNCHANGED <<config, pool, inflight, answer, fault>>
      BY <1>1 DEF Tick
    <2>2. Evicts
      BY <2>1 DEF Evicts
    <2> QED
      BY <1>0, <2>1, <2>2 DEF SecStepFacts
  <1>2. CASE BuildOscore
    <2>1. /\ PoolInv(pool') /\ Evicts /\ inflight # <<>> /\ Answered(answer') /\ fault' = fault
          /\ First.kind = "EdhocOscoreRequest" /\ (Awaited("Oscore") => answer' = "none")
      BY <1>2, BuildOscoreFacts
    <2>2. config' = config /\ now' = now
      BY <1>2 DEF BuildOscore
    <2> QED
      BY <2>1, <2>2 DEF SecStepFacts
  <1>3. CASE BuildOther
    <2>1. inflight # <<>> /\ Answered("none") /\ UNCHANGED <<config, pool, now, fault>>
      BY <1>3 DEF BuildOther, CanBuild
    <2>2. Evicts
      BY <2>1 DEF Evicts
    <2>3. Answered(answer') /\ answer' = "none"
      BY <2>1 DEF Answered
    <2> QED
      BY <1>0, <2>1, <2>2, <2>3 DEF SecStepFacts
  <1>4. ASSUME NEW prepared \in BOOLEAN, BuildMessage2(prepared) PROVE SecStepFacts
    <2>1. /\ PoolInv(pool') /\ Evicts /\ inflight # <<>> /\ Answered("none")
          /\ First.kind = "EdhocOkSend2" /\ (Awaited("ProcessedM1") => fault' = fault)
      BY <1>4, BuildMessage2Facts
    <2>2. config' = config /\ now' = now
      BY <1>4 DEF BuildMessage2
    <2>3. Answered(answer') /\ answer' = "none"
      BY <2>1 DEF Answered
    <2> QED
      BY <2>1, <2>2, <2>3 DEF SecStepFacts
  <1>5. ASSUME NEW req \in Requests, Plain(req) PROVE SecStepFacts
    <2>1. PICK item \in ItemSet : ItemAuthorized(item) /\ Extracted(item) /\ item.kind = "Inner"
      BY <1>5, PlainFacts
    <2>2. CanExtract /\ UNCHANGED <<config, pool, now, fault>>
      BY <1>5 DEF Plain
    <2>3. Evicts
      BY <2>2 DEF Evicts
    <2> QED
      BY <1>0, <2>1, <2>2, <2>3 DEF SecStepFacts
  <1>6. ASSUME NEW peer \in PeerIds, Message1(peer) PROVE SecStepFacts
    <2>1. /\ PoolInv(pool') /\ Evicts
          /\ \E item \in ItemSet :
               /\ ItemAuthorized(item) /\ Extracted(item)
               /\ item.kind = "EdhocOkSend2" /\ Held(item, "ProcessedM1")
      BY <1>6, Message1Facts
    <2>2. CanExtract /\ UNCHANGED <<config, now, fault>>
      BY <1>6 DEF Message1
    <2> QED
      BY <2>1, <2>2 DEF SecStepFacts
  <1>7. ASSUME NEW peer \in PeerIds, NEW tok \in Tokens, PostToken(tok, peer) PROVE SecStepFacts
    <2>1. /\ PoolInv(pool') /\ Evicts
          /\ \E item \in ItemSet :
               ItemAuthorized(item) /\ Extracted(item) /\ item.kind = "ProcessedToken"
      BY <1>7, PostTokenFacts
    <2>2. CanExtract /\ UNCHANGED <<config, now, fault>>
      BY <1>7 DEF PostToken
    <2> QED
      BY <2>1, <2>2 DEF SecStepFacts
  <1>8. ASSUME NEW kid \in COwns, NEW m3 \in {NoMessage3} \cup Messages3, Protected(kid, m3)
        PROVE  SecStepFacts
    <2>1. /\ PoolInv(pool') /\ Evicts /\ fault' \in {fault, "panic"}
          /\ \/ inflight' = inflight /\ answer' = answer
             \/ \E item \in ItemSet :
                  /\ ItemAuthorized(item) /\ Extracted(item) /\ fault' = fault
                  /\ item.kind = "EdhocOscoreRequest" /\ Held(item, "Oscore")
      BY <1>8, RequestProtected
    <2>2. CanExtract /\ UNCHANGED <<config, now>>
      BY <1>8 DEF Protected
    <2> QED
      BY <2>1, <2>2 DEF SecStepFacts
  <1> QED
    BY <1>1, <1>2, <1>3, <1>4, <1>5, <1>6, <1>7, <1>8 DEF Next

LEMMA SecInvStep ==
  ASSUME SecInv, [Next]_vars
  PROVE  SecInv' /\ Evicts
  <1>1. CASE Next
    <2>1. SecStepFacts
      BY <1>1, SecStep
    <2>2. PoolInv(pool)' /\ config' \in Policies
      BY <2>1, OfPeerStays DEF SecStepFacts, SecInv
    <2>3. CASE \E item \in ItemSet : CanExtract /\ now' = now /\ ItemAuthorized(item) /\ Extracted(item)
      <3>1. inflight' \in Seq(ItemSet) /\ Len(inflight') <= MaxInFlight /\ Authorized'
        BY <2>1, <2>3, ExtractedKeeps DEF SecStepFacts
      <3> QED
        BY <2>1, <2>2, <3>1 DEF SecInv, SecStepFacts
    <2>4. CASE inflight # <<>> /\ now' = now /\ Answered(answer')
      <3>1. inflight' \in Seq(ItemSet) /\ Len(inflight') <= MaxInFlight /\ Authorized'
        BY <2>1, <2>4, AnsweredKeeps DEF SecStepFacts
      <3> QED
        BY <2>1, <2>2, <3>1 DEF SecInv, SecStepFacts
    <2>5. CASE inflight' = inflight /\ (inflight = <<>> \/ now' = now)
      <3>1. Authorized'
        BY <2>1, <2>5 DEF SecInv, Authorized, Granted, policy, SecStepFacts
      <3>2. inflight' \in Seq(ItemSet) /\ Len(inflight') <= MaxInFlight
        BY <2>5 DEF SecInv
      <3> QED
        BY <2>1, <2>2, <3>1, <3>2 DEF SecInv, SecStepFacts
    <2> QED
      BY <2>1, <2>3, <2>4, <2>5 DEF SecStepFacts
  <1>2. CASE UNCHANGED vars
    <2>1. /\ config' = config /\ pool' = pool /\ now' = now /\ inflight' = inflight
      BY <1>2 DEF vars
    <2>2. PoolInv(pool)'
      BY <2>1, OfPeerStays DEF SecInv
    <2>3. Authorized'
      BY <2>1 DEF SecInv, Authorized, Granted, policy
    <2>4. Evicts
      BY <2>1 DEF Evicts
    <2> QED
      BY <2>1, <2>2, <2>3, <2>4 DEF SecInv
  <1> QED
    BY <1>1, <1>2

(* The inductive invariant of the security layer.                          *)
THEOREM SecInvariant == Spec => []SecInv
  <1>1. Init => SecInv
    BY SecInvInit
  <1>2. SecInv /\ [Next]_vars => SecInv'
    BY SecInvStep
  <1> QED
    BY <1>1, <1>2, PTL DEF Spec

(* Any sequence of requests and answers leaves a pool in its documented    *)
(* order, in which a key ID names a single context that is not the one the *)
(* peer chose (OrderedPool, cown_but_not).                                 *)
THEOREM PoolIsSound == Spec => []PoolSound
  <1>1. SecInv => PoolSound
    <2> SUFFICES ASSUME SecInv PROVE PoolSound
      OBVIOUS
    <2>1. /\ pool.entries \in Seq(EntrySet) /\ Pool!IsOrdered(pool) /\ KidsUnique(pool.entries)
      BY ContextsTyped DEF SecInv, PoolInv
    <2>2. \A i \in DOMAIN pool.entries : ~pool.entries[i].same
      BY <2>1, EntryFacts
    <2> QED
      BY <2>1, <2>2 DEF PoolSound, PoolOrdered, COwnsUnique, KidsUnique
  <1> QED
    BY <1>1, SecInvariant, PTL

(* A request reaches the inner handler with the claims that its peer has   *)
(* shown a credential or a token for, and before they expire               *)
(* (extract_oscore_edhoc, process_edhoc_in_payload).                       *)
THEOREM OnlyAuthorized == Spec => []Authorized
  <1>1. SecInv => Authorized
    BY DEF SecInv
  <1> QED
    BY <1>1, SecInvariant, PTL

(* A step removes at most one context, and the one that gives way to a new *)
(* context is of the least worth (force_insert, extract_oscore_edhoc).     *)
THEOREM EvictsTheLowest == Spec => EvictsLowest
  <1>1. SecInv /\ [Next]_vars => [Evicts]_vars
    BY SecInvStep
  <1>2. Spec => [][Evicts]_vars
    BY <1>1, SecInvariant, PTL DEF Spec
  <1>3. EvictsLowest <=> [][Evicts]_vars
    BY DEF EvictsLowest, Evicts
  <1> QED
    BY <1>2, <1>3

LEMMA ResponseStep ==
  ASSUME MaxInFlight = 1, SecInv, ResponseInv, [Next]_vars
  PROVE  ResponseInv'
  <1>1. /\ inflight \in Seq(ItemSet) /\ Len(inflight) <= 1
        /\ fault \in {"none", "panic"} /\ answer # "wrong"
    BY DEF SecInv, ResponseInv, ResponseProtected
  <1>2. CASE Next
    <2>1. SecStepFacts
      BY <1>2, SecStep
    <2>2. ASSUME NEW item \in ItemSet, CanExtract, fault' = fault, Extracted(item),
                 item.kind = "EdhocOscoreRequest" => Held(item, "Oscore"),
                 item.kind = "EdhocOkSend2" => Held(item, "ProcessedM1")
          PROVE  ResponseInv'
      <3>1. inflight = <<>>
        <4>1. Len(inflight) < 1
          BY <2>2 DEF CanExtract
        <4> QED
          BY <1>1, <4>1, EmptySeq
      <3>2. inflight' = <<item>> /\ answer' = "none"
        BY <2>2, <3>1 DEF Extracted
      <3>3. First' = item
        BY <3>2 DEF First
      <3> QED
        BY <1>1, <2>2, <3>2, <3>3 DEF ResponseInv, ResponseProtected, Awaited, Held
    <2>3. CASE /\ inflight # <<>> /\ Answered(answer')
               /\ \/ answer' = "none" /\ fault' = fault
                  \/ answer' = "none" /\ First.kind = "EdhocOkSend2" /\ ~Awaited("ProcessedM1")
                  \/ fault' = fault /\ First.kind = "EdhocOscoreRequest" /\ ~Awaited("Oscore")
      <3>1. inflight' = <<>>
        <4>1. inflight' \in Seq(ItemSet) /\ Len(inflight') = Len(inflight) - 1
          BY <1>1, <2>3 DEF Answered
        <4>2. Len(inflight') = 0
          BY <1>1, <4>1
        <4> QED
          BY <4>1, <4>2, EmptySeq
      <3>2. answer' = "none" /\ fault' = fault
        BY <1>1, <2>3 DEF ResponseInv
      <3> QED
        BY <1>1, <3>1, <3>2 DEF ResponseInv, ResponseProtected
    <2>4. CASE /\ inflight' = inflight /\ answer' = answer /\ fault' \in {fault, "panic"}
               /\ \/ inflight = <<>>
                  \/ now' = now /\ (pool' = pool \/ CanExtract)
      <3>1. CASE inflight = <<>>
        BY <1>1, <2>4, <3>1 DEF ResponseInv, ResponseProtected
      <3>2. CASE inflight # <<>>
        <4>1. pool' = pool
          <5>1. ~(Len(inflight) < 1)
            BY <1>1, <3>2, EmptySeq
          <5> QED
            BY <2>4, <3>2, <5>1 DEF CanExtract
        <4> QED
          BY <1>1, <2>4, <4>1 DEF ResponseInv, ResponseProtected, Awaited, First
      <3> QED
        BY <3>1, <3>2
    <2> QED
      BY <2>1, <2>2, <2>3, <2>4 DEF SecStepFacts
  <1>3. CASE UNCHANGED vars
    BY <1>3 DEF vars, ResponseInv, ResponseProtected, Awaited, First
  <1> QED
    BY <1>2, <1>3

(* When a request is answered before the next one is extracted, its        *)
(* response is protected with the context it was verified with, and        *)
(* neither the todo!() nor the debug assertion on the way is met           *)
(* (build_oscore_response, build_edhoc_message_2, extract_oscore_edhoc).   *)
THEOREM ResponsesProtected ==
  ASSUME MaxInFlight = 1
  PROVE  Spec => []ResponseProtected
  <1>1. Init => ResponseInv
    BY SecInvInit
  <1>2. SecInv /\ ResponseInv /\ [Next]_vars => ResponseInv'
    BY ResponseStep
  <1>3. ResponseInv => ResponseProtected
    BY DEF ResponseInv
  <1> QED
    BY <1>1, <1>2, <1>3, SecInvariant, PTL DEF Spec

-----------------------------------------------------------------------------
(* The native port.                                                        *)

InCriticalSection == {"cs", "leave", "wake", "created"}
HostPcs == {"none", "run", "end", "wait", "asleep"} \cup InCriticalSection

HostRecords ==
  [state : [Slots -> {"Invalid", "Parked", "Running"}], runnable : [Slots -> {0, 1}],
   cs : Host!All \cup {Host!Nobody}, slot : [Host!All -> Slots \cup {Host!Nobody}],
   pc : [Host!All -> HostPcs], target : [Host!All -> Slots \cup {Host!Nobody}],
   ends : [Host!All -> BOOLEAN]]

HostType == w \in HostRecords

(* A host thread is in the critical section, alone, at these places.       *)
OneInside == \A i \in Host!All : w.pc[i] \in InCriticalSection <=> w.cs = i

(* A host thread that is spawned has a thread ID of its own; the main      *)
(* thread, which never waits, has none.                                    *)
OwnSlots ==
  /\ w.slot[Host!Main] = Host!Nobody /\ w.pc[Host!Main] \in {"run"} \cup InCriticalSection
  /\ \A i \in Hosts : w.pc[i] = "none" <=> w.slot[i] = Host!Nobody
  /\ \A i, j \in Hosts : i # j /\ w.slot[i] # Host!Nobody => w.slot[i] # w.slot[j]

(* The word is set while the thread is Running.                            *)
WordsRight == \A t \in Slots : w.runnable[t] = 1 <=> w.state[t] = "Running"

OnlyRunning == \A i \in Hosts : w.pc[i] = "run" => w.state[w.slot[i]] = "Running"

(* What the host thread in the critical section is about to do.            *)
TargetsRight ==
  \A i \in Host!All :
    /\ w.pc[i] = "wake" => w.target[i] \in Slots /\ w.state[w.target[i]] = "Running"
    /\ w.pc[i] = "created" => w.target[i] \in Slots /\ w.state[w.target[i]] = "Parked"

SleepersWoken ==
  \A i \in Hosts :
    w.pc[i] = "asleep" /\ w.runnable[w.slot[i]] = 1 =>
      \E j \in Host!All : w.pc[j] = "wake" /\ w.target[j] = w.slot[i]

HostInv ==
  HostType /\ OneInside /\ OwnSlots /\ WordsRight /\ OnlyRunning /\ TargetsRight /\ SleepersWoken

LEMMA HostFacts ==
  /\ Hosts \subseteq Host!All /\ Host!Main \in Host!All /\ Host!Main \notin Hosts
  /\ \A i \in Host!All : i \in Hosts \/ i = Host!Main
  /\ Host!Nobody \notin Host!All /\ Host!Nobody \notin Slots
  /\ Hosts \subseteq Nat /\ Slots \subseteq Nat
  BY HostsAssumption DEF Host!All, Host!Main, Host!Nobody

LEMMA AcquireKeeps ==
  ASSUME HostInv, NEW i \in Host!All, Host!Acquire(i)
  PROVE  HostInv'
  <1>1. HostType /\ w.pc[i] = "run" /\ w.cs = Host!Nobody /\ w' = [w EXCEPT !.cs = i, !.pc[i] = "cs"]
    BY DEF HostInv, Host!Acquire, Host!At
  <1>2. HostType'
    BY <1>1 DEF HostType, HostRecords, HostPcs, InCriticalSection
  <1>3. /\ w'.state = w.state /\ w'.runnable = w.runnable /\ w'.slot = w.slot /\ w'.target = w.target
        /\ w'.cs = i /\ w'.pc = [w.pc EXCEPT ![i] = "cs"]
    BY <1>1 DEF HostType, HostRecords
  <1>4. w.pc \in [Host!All -> HostPcs]
    BY <1>1 DEF HostType, HostRecords
  <1>5. OneInside'
    BY <1>1, <1>3, <1>4, HostFacts DEF HostInv, OneInside, InCriticalSection
  <1>6. OwnSlots'
    BY <1>1, <1>3, <1>4, HostFacts DEF HostInv, OwnSlots, InCriticalSection
  <1>7. WordsRight' /\ OnlyRunning' /\ TargetsRight'
    BY <1>1, <1>3, <1>4, HostFacts DEF HostInv, WordsRight, OnlyRunning, TargetsRight
  <1>8. SleepersWoken'
    BY <1>1, <1>3, <1>4, HostFacts DEF HostInv, SleepersWoken
  <1> QED
    BY <1>2, <1>5, <1>6, <1>7, <1>8 DEF HostInv

LEMMA ReleaseKeeps ==
  ASSUME HostInv, NEW i \in Host!All, Host!Release(i)
  PROVE  HostInv'
  <1> DEFINE next == IF w.slot[i] = Host!Nobody THEN "run" ELSE "wait"
  <1>1. HostType /\ w.pc[i] = "leave" /\ w' = [w EXCEPT !.cs = Host!Nobody, !.pc[i] = next]
    BY DEF HostInv, Host!Release, Host!At
  <1>2. next \in {"run", "wait"} /\ (next = "run" <=> w.slot[i] = Host!Nobody)
    OBVIOUS
  <1>3. w.cs = i /\ (i \in Hosts => w.slot[i] # Host!Nobody)
    BY <1>1 DEF HostInv, OneInside, OwnSlots, InCriticalSection
  <1> HIDE DEF next
  <1>4. HostType'
    BY <1>1, <1>2 DEF HostType, HostRecords, HostPcs
  <1>5. /\ w'.state = w.state /\ w'.runnable = w.runnable /\ w'.slot = w.slot /\ w'.target = w.target
        /\ w'.cs = Host!Nobody /\ w'.pc = [w.pc EXCEPT ![i] = next]
    BY <1>1 DEF HostType, HostRecords
  <1>6. w.pc \in [Host!All -> HostPcs]
    BY <1>1 DEF HostType, HostRecords
  <1>7. OneInside'
    BY <1>2, <1>3, <1>5, <1>6, HostFacts DEF HostInv, OneInside, InCriticalSection
  <1>8. OwnSlots'
    BY <1>1, <1>2, <1>3, <1>5, <1>6, HostFacts DEF HostInv, OwnSlots, InCriticalSection
  <1>9. WordsRight' /\ OnlyRunning' /\ TargetsRight'
    BY <1>1, <1>2, <1>3, <1>5, <1>6, HostFacts DEF HostInv, WordsRight, OnlyRunning, TargetsRight
  <1>10. SleepersWoken'
    BY <1>1, <1>2, <1>5, <1>6, HostFacts DEF HostInv, SleepersWoken
  <1> QED
    BY <1>4, <1>7, <1>8, <1>9, <1>10 DEF HostInv

LEMMA WaitKeeps ==
  ASSUME ~SpuriousWakes, HostInv, NEW i \in Host!All, Host!Wait(i)
  PROVE  HostInv'
  <1>1. PICK pc \in {"asleep", "run", "end"} :
          /\ HostType /\ w.pc[i] = "wait" /\ w' = [w EXCEPT !.pc[i] = pc]
          /\ pc = "asleep" <=> w.runnable[w.slot[i]] = 0
    <2>1. Host!Resumed(i) \in {"run", "end"}
      BY DEF Host!Resumed
    <2> QED
      BY <2>1 DEF HostInv, Host!Wait, Host!At
  <1>2. i \in Hosts /\ w.slot[i] \in Slots
    BY <1>1, HostFacts DEF HostInv, OwnSlots, HostType, HostRecords, InCriticalSection
  <1>3. HostType'
    BY <1>1 DEF HostType, HostRecords, HostPcs
  <1>4. /\ w'.state = w.state /\ w'.runnable = w.runnable /\ w'.slot = w.slot /\ w'.target = w.target
        /\ w'.cs = w.cs /\ w'.pc = [w.pc EXCEPT ![i] = pc]
    BY <1>1 DEF HostType, HostRecords
  <1>5. w.pc \in [Host!All -> HostPcs] /\ w.runnable[w.slot[i]] \in {0, 1}
    BY <1>1, <1>2 DEF HostType, HostRecords
  <1>6. OneInside'
    BY <1>1, <1>4, <1>5, HostFacts DEF HostInv, OneInside, InCriticalSection
  <1>7. OwnSlots'
    BY <1>1, <1>2, <1>4, <1>5, HostFacts DEF HostInv, OwnSlots, InCriticalSection
  <1>8. WordsRight' /\ OnlyRunning' /\ TargetsRight'
    BY <1>1, <1>2, <1>4, <1>5, HostFacts DEF HostInv, WordsRight, OnlyRunning, TargetsRight
  <1>9. SleepersWoken'
    BY <1>1, <1>2, <1>4, <1>5, HostFacts DEF HostInv, SleepersWoken
  <1> QED
    BY <1>3, <1>6, <1>7, <1>8, <1>9 DEF HostInv

LEMMA WakeOneKeeps ==
  ASSUME HostInv, NEW i \in Host!All, Host!WakeOne(i)
  PROVE  HostInv'
  <1> DEFINE sleepers == {j \in Hosts : w.pc[j] = "asleep" /\ w.slot[j] = w.target[i]}
  <1>1. HostType /\ w.pc[i] = "wake"
    BY DEF HostInv, Host!WakeOne, Host!At
  <1>0. IF sleepers = {} THEN w' = [w EXCEPT !.pc[i] = "leave"]
        ELSE \E j \in sleepers : w' = [w EXCEPT !.pc[i] = "leave", !.pc[j] = Host!Resumed(j)]
    BY DEF Host!WakeOne, Host!At
  <1>2. /\ w.cs = i /\ w.target[i] \in Slots /\ w.state[w.target[i]] = "Running"
        /\ \A j \in Host!All : w.pc[j] = "wake" => j = i
    BY <1>1 DEF HostInv, OneInside, TargetsRight, InCriticalSection
  <1>3. w.pc \in [Host!All -> HostPcs]
    BY <1>1 DEF HostType, HostRecords
  <1>4. CASE sleepers = {}
    <2>0. \A j \in Hosts : ~(w.pc[j] = "asleep" /\ w.slot[j] = w.target[i])
      BY <1>4
    <2>1. w' = [w EXCEPT !.pc[i] = "leave"]
      BY <1>0, <1>4
    <2> HIDE DEF sleepers
    <2>2. HostType'
      BY <1>1, <2>1 DEF HostType, HostRecords, HostPcs, InCriticalSection
    <2>3. /\ w'.state = w.state /\ w'.runnable = w.runnable /\ w'.slot = w.slot
          /\ w'.target = w.target /\ w'.cs = w.cs /\ w'.pc = [w.pc EXCEPT ![i] = "leave"]
      BY <1>1, <2>1 DEF HostType, HostRecords
    <2>4. OneInside' /\ OwnSlots'
      BY <1>1, <1>3, <2>3, HostFacts DEF HostInv, OneInside, OwnSlots, InCriticalSection
    <2>5. WordsRight' /\ OnlyRunning' /\ TargetsRight'
      BY <1>1, <1>3, <2>3, HostFacts DEF HostInv, WordsRight, OnlyRunning, TargetsRight
    <2>6. SleepersWoken'
      <3> SUFFICES ASSUME NEW h \in Hosts, w'.pc[h] = "asleep", w'.runnable[w'.slot[h]] = 1
                   PROVE  FALSE
        BY DEF SleepersWoken
      <3>1. h # i /\ w.pc[h] = "asleep" /\ w.runnable[w.slot[h]] = 1
        BY <1>1, <1>3, <2>3, HostFacts
      <3>2. w.target[i] = w.slot[h]
        BY <1>2, <3>1 DEF HostInv, SleepersWoken
      <3> QED
        BY <2>0, <3>1, <3>2
    <2> QED
      BY <2>2, <2>4, <2>5, <2>6 DEF HostInv
  <1>5. CASE sleepers # {}
    <2>1. PICK j \in sleepers : w' = [w EXCEPT !.pc[i] = "leave", !.pc[j] = Host!Resumed(j)]
      BY <1>0, <1>5
    <2> DEFINE to == Host!Resumed(j)
    <2>2. to \in {"run", "end"}
      BY DEF Host!Resumed
    <2>3. /\ j \in Hosts /\ j \in Host!All /\ j # i /\ w.pc[j] = "asleep" /\ w.slot[j] = w.target[i]
          /\ w' = [w EXCEPT !.pc[i] = "leave", !.pc[j] = to]
      BY <1>1, <2>1, HostFacts
    <2> HIDE DEF to, sleepers
    <2>4. HostType'
      BY <1>1, <2>2, <2>3 DEF HostType, HostRecords, HostPcs, InCriticalSection
    <2>5. /\ w'.state = w.state /\ w'.runnable = w.runnable /\ w'.slot = w.slot
          /\ w'.target = w.target /\ w'.cs = w.cs
          /\ w'.pc = [[w.pc EXCEPT ![i] = "leave"] EXCEPT ![j] = to]
      BY <1>1, <2>3 DEF HostType, HostRecords
    <2>6. \A h \in Host!All : w'.pc[h] = IF h = j THEN to ELSE IF h = i THEN "leave" ELSE w.pc[h]
      BY <1>3, <2>5
    <2>7. OneInside' /\ OwnSlots'
      BY <1>1, <1>3, <2>2, <2>3, <2>5, <2>6, HostFacts DEF HostInv, OneInside, OwnSlots, InCriticalSection
    <2>8. WordsRight' /\ OnlyRunning' /\ TargetsRight'
      BY <1>1, <1>2, <1>3, <2>2, <2>3, <2>5, <2>6, HostFacts DEF HostInv, WordsRight, OnlyRunning, TargetsRight
    <2>9. SleepersWoken'
      <3> SUFFICES ASSUME NEW h \in Hosts, w'.pc[h] = "asleep", w'.runnable[w'.slot[h]] = 1
                   PROVE  FALSE
        BY DEF SleepersWoken
      <3>1. h # j /\ h # i /\ w.pc[h] = "asleep" /\ w.runnable[w.slot[h]] = 1
        BY <2>2, <2>3, <2>5, <2>6, HostFacts
      <3>2. w.target[i] = w.slot[h]
        BY <1>2, <3>1 DEF HostInv, SleepersWoken
      <3>3. w.slot[j] = w.slot[h] /\ w.slot[j] # Host!Nobody
        BY <1>2, <2>3, <3>2, HostFacts
      <3> QED
        BY <2>3, <3>1, <3>3 DEF HostInv, OwnSlots
    <2> QED
      BY <2>4, <2>7, <2>8, <2>9 DEF HostInv
  <1> QED
    BY <1>4, <1>5

LEMMA StoppedKeeps ==
  ASSUME HostInv, NEW i \in Host!All, w.pc[i] = "cs", i # Host!Main,
         NEW new \in {"Parked", "Invalid"}, NEW last \in BOOLEAN,
         w' = [w EXCEPT !.state[w.slot[i]] = new, !.runnable[w.slot[i]] = 0, !.pc[i] = "leave",
                        !.ends[i] = last]
  PROVE  HostInv'
  <1> DEFINE t == w.slot[i]
  <1>1. HostType /\ w.cs = i /\ i \in Hosts
    BY HostFacts DEF HostInv, OneInside, InCriticalSection
  <1>2. t \in Slots
    BY <1>1, HostFacts DEF HostInv, OwnSlots, HostType, HostRecords
  <1>3. w' = [w EXCEPT !.state[t] = new, !.runnable[t] = 0, !.pc[i] = "leave", !.ends[i] = last]
    OBVIOUS
  <1>4. \A j \in Hosts : j # i => w.slot[j] # t
    BY <1>1, <1>2, HostFacts DEF HostInv, OwnSlots
  <1>5. t = w.slot[i]
    OBVIOUS
  <1> HIDE DEF t
  <1>6. HostType'
    <2> DEFINE u == [w EXCEPT !.state[t] = new, !.runnable[t] = 0]
    <2>1. u \in HostRecords
      BY <1>1, <1>2 DEF HostType, HostRecords
    <2> DEFINE x == [u EXCEPT !.pc[i] = "leave"]
    <2>2. w' = [x EXCEPT !.ends[i] = last]
      BY <1>3
    <2> HIDE DEF u
    <2>3. x \in HostRecords
      BY <2>1 DEF HostRecords, HostPcs, InCriticalSection
    <2> HIDE DEF x
    <2> DEFINE z == [x.ends EXCEPT ![i] = last]
    <2>4. w' = [x EXCEPT !.ends = z]
      BY <2>2
    <2>5. z \in [Host!All -> BOOLEAN]
      <3>1. x.ends \in [Host!All -> BOOLEAN]
        BY <2>3 DEF HostRecords
      <3> QED
        BY <3>1, Zenon
    <2> HIDE DEF z
    <2> QED
      BY <2>3, <2>4, <2>5 DEF HostType, HostRecords
  <1>7. /\ w'.state = [w.state EXCEPT ![t] = new] /\ w'.runnable = [w.runnable EXCEPT ![t] = 0]
        /\ w'.slot = w.slot /\ w'.target = w.target /\ w'.cs = w.cs
        /\ w'.pc = [w.pc EXCEPT ![i] = "leave"]
    BY <1>1, <1>3 DEF HostType, HostRecords
  <1>8. /\ w.pc \in [Host!All -> HostPcs] /\ w.state \in [Slots -> {"Invalid", "Parked", "Running"}]
        /\ w.runnable \in [Slots -> {0, 1}] /\ w.slot \in [Host!All -> Slots \cup {Host!Nobody}]
    BY <1>1 DEF HostType, HostRecords
  <1>9. OneInside' /\ OwnSlots'
    BY <1>1, <1>7, <1>8, HostFacts DEF HostInv, OneInside, OwnSlots, InCriticalSection
  <1>10. WordsRight'
    BY <1>2, <1>7, <1>8 DEF HostInv, WordsRight
  <1>11. OnlyRunning'
    BY <1>1, <1>4, <1>7, <1>8, HostFacts DEF HostInv, OnlyRunning, OwnSlots
  <1>12. TargetsRight'
    BY <1>1, <1>7, <1>8, HostFacts DEF HostInv, TargetsRight, OneInside, InCriticalSection
  <1>13. SleepersWoken'
    BY <1>1, <1>2, <1>4, <1>7, <1>8, HostFacts DEF HostInv, SleepersWoken, OneInside, OwnSlots, InCriticalSection
  <1> QED
    BY <1>6, <1>9, <1>10, <1>11, <1>12, <1>13 DEF HostInv

LEMMA ParkKeeps ==
  ASSUME HostInv, NEW i \in Host!All, Host!Park(i)
  PROVE  HostInv'
  <1>1. /\ HostType /\ w.pc[i] = "cs" /\ i # Host!Main
        /\ w' = [w EXCEPT !.state[w.slot[i]] = "Parked", !.runnable[w.slot[i]] = 0, !.pc[i] = "leave"]
    BY DEF HostInv, Host!Park, Host!At, Host!Stopped
  <1> DEFINE last == w.ends[i]
             y == [w EXCEPT !.state[w.slot[i]] = "Parked", !.runnable[w.slot[i]] = 0, !.pc[i] = "leave"]
  <1>2. y.ends = w.ends /\ w.ends = [w.ends EXCEPT ![i] = last] /\ last \in BOOLEAN
    <2>1. w.ends \in [Host!All -> BOOLEAN]
      BY <1>1 DEF HostType, HostRecords
    <2>2. y.ends = w.ends
      BY <1>1 DEF HostType, HostRecords
    <2> HIDE DEF y
    <2> QED
      BY <2>1, <2>2, Zenon
  <1>3. y = [y EXCEPT !.ends[i] = last]
    <2>0. y \in HostRecords
      BY <1>1, HostFacts DEF HostInv, OwnSlots, HostType, HostRecords, HostPcs, InCriticalSection
    <2>1. y = [state |-> y.state, runnable |-> y.runnable, cs |-> y.cs, slot |-> y.slot, pc |-> y.pc,
               target |-> y.target, ends |-> y.ends]
      <3> HIDE DEF y
      <3> QED
        BY <2>0 DEF HostRecords
    <2>2. y.ends = [y.ends EXCEPT ![i] = last]
      BY <1>2
    <2> HIDE DEF y, last
    <2> DEFINE z == [y.ends EXCEPT ![i] = last]
    <2>3. [y EXCEPT !.ends[i] = last] = [y EXCEPT !.ends = z]
      OBVIOUS
    <2>4. z = y.ends
      BY <2>2
    <2> HIDE DEF z
    <2> QED
      BY <2>1, <2>3, <2>4
  <1>4. w' = [w EXCEPT !.state[w.slot[i]] = "Parked", !.runnable[w.slot[i]] = 0, !.pc[i] = "leave",
                       !.ends[i] = last]
    BY <1>1, <1>3
  <1> HIDE DEF last, y
  <1> QED
    BY <1>1, <1>2, <1>4, StoppedKeeps

LEMMA ExitKeeps ==
  ASSUME HostInv, NEW i \in Host!All, Host!Exit(i)
  PROVE  HostInv'
  <1>1. /\ w.pc[i] = "cs" /\ i # Host!Main
        /\ w' = [w EXCEPT !.state[w.slot[i]] = "Invalid", !.runnable[w.slot[i]] = 0, !.pc[i] = "leave",
                          !.ends[i] = TRUE]
    BY DEF Host!Exit, Host!At, Host!Stopped
  <1> QED
    BY <1>1, StoppedKeeps

LEMMA SetRunningKeeps ==
  ASSUME HostInv, NEW i \in Host!All, w.pc[i] \in {"cs", "created"}, NEW t \in Slots,
         w.state[t] = "Parked", w' = Host!SetRunning(i, t)
  PROVE  HostInv'
  <1>1. /\ HostType /\ w.cs = i /\ w.runnable[t] = 0
        /\ w' = [w EXCEPT !.state[t] = "Running", !.runnable[t] = 1, !.target[i] = t, !.pc[i] = "wake"]
    <2>1. HostType /\ w.cs = i
      BY DEF HostInv, OneInside, InCriticalSection
    <2>2. w.runnable[t] = 0
      <3>1. w.runnable[t] \in {0, 1}
        BY <2>1 DEF HostType, HostRecords
      <3> QED
        BY <3>1 DEF HostInv, WordsRight
    <2> QED
      BY <2>1, <2>2 DEF Host!SetRunning
  <1>2. HostType'
    <2> DEFINE u == [w EXCEPT !.state[t] = "Running", !.runnable[t] = 1]
    <2>1. u \in HostRecords
      BY <1>1 DEF HostType, HostRecords
    <2> DEFINE x == [u EXCEPT !.target[i] = t]
    <2>2. w' = [x EXCEPT !.pc[i] = "wake"]
      BY <1>1
    <2> HIDE DEF u
    <2>3. x \in HostRecords
      BY <2>1 DEF HostRecords
    <2> HIDE DEF x
    <2> QED
      BY <2>2, <2>3 DEF HostType, HostRecords, HostPcs, InCriticalSection
  <1>3. /\ w'.state = [w.state EXCEPT ![t] = "Running"] /\ w'.runnable = [w.runnable EXCEPT ![t] = 1]
        /\ w'.slot = w.slot /\ w'.target = [w.target EXCEPT ![i] = t] /\ w'.cs = w.cs
        /\ w'.pc = [w.pc EXCEPT ![i] = "wake"]
    BY <1>1 DEF HostType, HostRecords
  <1>4. /\ w.pc \in [Host!All -> HostPcs] /\ w.state \in [Slots -> {"Invalid", "Parked", "Running"}]
        /\ w.runnable \in [Slots -> {0, 1}] /\ w.slot \in [Host!All -> Slots \cup {Host!Nobody}]
        /\ w.target \in [Host!All -> Slots \cup {Host!Nobody}]
    BY <1>1 DEF HostType, HostRecords
  <1>5. OneInside' /\ OwnSlots'
    BY <1>1, <1>3, <1>4, HostFacts DEF HostInv, OneInside, OwnSlots, InCriticalSection
  <1>6. WordsRight'
    BY <1>3, <1>4 DEF HostInv, WordsRight
  <1>7. OnlyRunning'
    <2> SUFFICES ASSUME NEW h \in Hosts, w'.pc[h] = "run" PROVE w'.state[w'.slot[h]] = "Running"
      BY DEF OnlyRunning
    <2>1. w.pc[h] = "run" /\ h \in Host!All
      BY <1>3, <1>4, HostFacts
    <2>2. w.slot[h] \in Slots /\ w.state[w.slot[h]] = "Running"
      BY <1>4, <2>1, HostFacts DEF HostInv, OnlyRunning, OwnSlots
    <2> QED
      BY <1>3, <1>4, <2>2
  <1>8. TargetsRight'
    <2>1. \A h \in Host!All : h # i => w.pc[h] \notin {"wake", "created"}
      BY <1>1 DEF HostInv, OneInside, InCriticalSection
    <2>2. \A h \in Host!All : h # i => w'.pc[h] = w.pc[h]
      BY <1>3, <1>4
    <2>3. w'.pc[i] = "wake" /\ w'.target[i] = t /\ w'.state[t] = "Running"
      BY <1>3, <1>4
    <2> QED
      BY <2>1, <2>2, <2>3 DEF TargetsRight
  <1>9. SleepersWoken'
    <2> SUFFICES ASSUME NEW h \in Hosts, w'.pc[h] = "asleep", w'.runnable[w'.slot[h]] = 1
                 PROVE  \E j \in Host!All : w'.pc[j] = "wake" /\ w'.target[j] = w'.slot[h]
      BY DEF SleepersWoken
    <2>1. w.pc[h] = "asleep" /\ h # i
      BY <1>3, <1>4, HostFacts
    <2>2. CASE w.slot[h] = t
      BY <1>3, <1>4, <2>2
    <2>3. CASE w.slot[h] # t
      <3>1. w.slot[h] \in Slots
        BY <1>4, <2>1, HostFacts DEF HostInv, OwnSlots
      <3>2. w.runnable[w.slot[h]] = 1
        BY <1>3, <1>4, <2>3, <3>1
      <3>3. PICK j \in Host!All : w.pc[j] = "wake" /\ w.target[j] = w.slot[h]
        BY <2>1, <3>2 DEF HostInv, SleepersWoken
      <3>4. j # i /\ w.cs = j
        BY <3>3 DEF HostInv, OneInside, InCriticalSection
      <3> QED
        BY <1>1, <3>4
    <2> QED
      BY <2>2, <2>3
  <1> QED
    BY <1>2, <1>5, <1>6, <1>7, <1>8, <1>9 DEF HostInv

LEMMA LeaveKeeps ==
  ASSUME HostInv, NEW i \in Host!All, w.pc[i] = "cs", w' = [w EXCEPT !.pc[i] = "leave"]
  PROVE  HostInv'
  <1>1. HostType /\ w.cs = i
    BY DEF HostInv, OneInside, InCriticalSection
  <1>2. HostType'
    BY <1>1 DEF HostType, HostRecords, HostPcs, InCriticalSection
  <1>3. /\ w'.state = w.state /\ w'.runnable = w.runnable /\ w'.slot = w.slot /\ w'.target = w.target
        /\ w'.cs = w.cs /\ w'.pc = [w.pc EXCEPT ![i] = "leave"]
    BY <1>1 DEF HostType, HostRecords
  <1>4. w.pc \in [Host!All -> HostPcs]
    BY <1>1 DEF HostType, HostRecords
  <1>5. OneInside' /\ OwnSlots'
    BY <1>1, <1>3, <1>4, HostFacts DEF HostInv, OneInside, OwnSlots, InCriticalSection
  <1>6. WordsRight' /\ OnlyRunning' /\ TargetsRight'
    BY <1>3, <1>4, HostFacts DEF HostInv, WordsRight, OnlyRunning, TargetsRight
  <1>7. SleepersWoken'
    BY <1>3, <1>4, HostFacts DEF HostInv, SleepersWoken
  <1> QED
    BY <1>2, <1>5, <1>6, <1>7 DEF HostInv

LEMMA CreateKeeps ==
  ASSUME ~ReuseSlots, HostInv, NEW i \in Host!All, Host!Create(i)
  PROVE  HostInv'
  <1> DEFINE unused == {t \in Slots : w.state[t] = "Invalid"}
             fresh == {j \in Hosts : w.pc[j] = "none"}
             t == CHOOSE t \in unused : \A u \in unused : t <= u
             j == CHOOSE j \in fresh : \A g \in fresh : j <= g
  <1>1. /\ HostType /\ w.pc[i] = "cs" /\ unused # {} /\ fresh # {}
        /\ \A h \in Hosts : w.slot[h] # t
        /\ w' = [w EXCEPT !.state[t] = "Parked", !.slot[j] = t, !.pc[j] = "wait",
                          !.target[i] = t, !.pc[i] = "created"]
    BY DEF HostInv, Host!Create, Host!At
  <1>2. t \in unused
    <2>1. unused \in SUBSET Nat
      BY HostFacts
    <2>2. \E x \in unused : \A u \in unused : x <= u
      <3> HIDE DEF unused
      <3> QED
        BY <1>1, <2>1, LowestExists
    <2> HIDE DEF unused
    <2> QED
      BY <2>2
  <1>3. j \in fresh
    <2>1. fresh \in SUBSET Nat
      BY HostFacts
    <2>2. \E x \in fresh : \A u \in fresh : x <= u
      <3> HIDE DEF fresh
      <3> QED
        BY <1>1, <2>1, LowestExists
    <2> HIDE DEF fresh
    <2> QED
      BY <2>2
  <1> HIDE DEF t, j
  <1>4. t \in Slots /\ w.state[t] = "Invalid" /\ j \in Hosts /\ j \in Host!All /\ w.pc[j] = "none"
        /\ i # j
    BY <1>1, <1>2, <1>3, HostFacts
  <1>5. HostType /\ w.pc[i] = "cs" /\ (\A h \in Hosts : w.slot[h] # t)
    BY <1>1
  <1>6. w' = [w EXCEPT !.state[t] = "Parked", !.slot[j] = t, !.pc[j] = "wait",
                       !.target[i] = t, !.pc[i] = "created"]
    BY <1>1
  <1> HIDE DEF unused, fresh
  <1>7. w.cs = i /\ w.runnable[t] = 0 /\ w.slot[j] = Host!Nobody
    <2>1. w.runnable[t] \in {0, 1}
      BY <1>4, <1>5 DEF HostType, HostRecords
    <2> QED
      BY <1>4, <1>5, <2>1 DEF HostInv, OneInside, WordsRight, OwnSlots, InCriticalSection
  <1>8. HostType'
    <2> DEFINE u == [w EXCEPT !.state[t] = "Parked", !.slot[j] = t]
               x == [u EXCEPT !.pc[j] = "wait"]
               y == [x EXCEPT !.target[i] = t]
    <2>1. w' = [y EXCEPT !.pc[i] = "created"]
      BY <1>6
    <2>2. u \in HostRecords
      BY <1>4, <1>5 DEF HostType, HostRecords
    <2> HIDE DEF u
    <2>3. x \in HostRecords
      BY <2>2 DEF HostRecords, HostPcs
    <2> HIDE DEF x
    <2>4. y \in HostRecords
      BY <1>4, <2>3 DEF HostRecords
    <2> HIDE DEF y
    <2> QED
      BY <2>1, <2>4 DEF HostType, HostRecords, HostPcs, InCriticalSection
  <1>9. /\ w'.state = [w.state EXCEPT ![t] = "Parked"] /\ w'.runnable = w.runnable
        /\ w'.slot = [w.slot EXCEPT ![j] = t] /\ w'.target = [w.target EXCEPT ![i] = t]
        /\ w'.cs = w.cs /\ w'.pc = [[w.pc EXCEPT ![j] = "wait"] EXCEPT ![i] = "created"]
    BY <1>5, <1>6 DEF HostType, HostRecords
  <1>10. /\ w.pc \in [Host!All -> HostPcs] /\ w.state \in [Slots -> {"Invalid", "Parked", "Running"}]
         /\ w.runnable \in [Slots -> {0, 1}] /\ w.slot \in [Host!All -> Slots \cup {Host!Nobody}]
         /\ w.target \in [Host!All -> Slots \cup {Host!Nobody}]
    BY <1>5 DEF HostType, HostRecords
  <1>11. \A h \in Host!All :
           /\ w'.pc[h] = IF h = i THEN "created" ELSE IF h = j THEN "wait" ELSE w.pc[h]
           /\ w'.slot[h] = IF h = j THEN t ELSE w.slot[h]
           /\ w'.target[h] = IF h = i THEN t ELSE w.target[h]
    BY <1>9, <1>10
  <1>12. \A u \in Slots : w'.state[u] = IF u = t THEN "Parked" ELSE w.state[u]
    BY <1>9, <1>10
  <1>13. OneInside'
    BY <1>4, <1>5, <1>9, <1>11 DEF HostInv, OneInside, InCriticalSection
  <1>14. OwnSlots'
    <2>1. w'.slot[Host!Main] = Host!Nobody /\ w'.pc[Host!Main] \in {"run"} \cup InCriticalSection
      BY <1>4, <1>11, HostFacts DEF HostInv, OwnSlots, InCriticalSection
    <2>2. \A h \in Hosts : w'.pc[h] = "none" <=> w'.slot[h] = Host!Nobody
      BY <1>4, <1>5, <1>11, HostFacts DEF HostInv, OwnSlots
    <2>3. \A g, h \in Hosts : g # h /\ w'.slot[g] # Host!Nobody => w'.slot[g] # w'.slot[h]
      BY <1>4, <1>5, <1>11, HostFacts DEF HostInv, OwnSlots
    <2> QED
      BY <2>1, <2>2, <2>3 DEF OwnSlots
  <1>15. WordsRight'
    BY <1>4, <1>7, <1>9, <1>12 DEF HostInv, WordsRight
  <1>16. OnlyRunning'
    <2> SUFFICES ASSUME NEW h \in Hosts, w'.pc[h] = "run" PROVE w'.state[w'.slot[h]] = "Running"
      BY DEF OnlyRunning
    <2>1. h # i /\ h # j /\ w.pc[h] = "run" /\ h \in Host!All
      BY <1>11, HostFacts
    <2>2. w.slot[h] \in Slots /\ w.slot[h] # t /\ w.state[w.slot[h]] = "Running"
      BY <1>5, <1>10, <2>1, HostFacts DEF HostInv, OnlyRunning, OwnSlots
    <2> QED
      BY <1>11, <1>12, <2>1, <2>2
  <1>17. TargetsRight'
    <2>1. \A h \in Host!All : h # i => w.pc[h] \notin {"wake", "created"}
      BY <1>7 DEF HostInv, OneInside, InCriticalSection
    <2>2. \A h \in Host!All : h # i => w'.pc[h] \notin {"wake", "created"}
      BY <1>11, <2>1
    <2>3. w'.pc[i] = "created" /\ w'.target[i] = t /\ w'.state[t] = "Parked"
      BY <1>4, <1>11, <1>12
    <2> QED
      BY <1>4, <2>2, <2>3 DEF TargetsRight
  <1>18. SleepersWoken'
    <2> SUFFICES ASSUME NEW h \in Hosts, w'.pc[h] = "asleep", w'.runnable[w'.slot[h]] = 1
                 PROVE  FALSE
      BY DEF SleepersWoken
    <2>1. h # i /\ h # j /\ w.pc[h] = "asleep" /\ w.runnable[w.slot[h]] = 1
      BY <1>9, <1>11, HostFacts
    <2>2. PICK g \in Host!All : w.pc[g] = "wake"
      BY <2>1 DEF HostInv, SleepersWoken
    <2> QED
      BY <1>5, <1>7, <2>2 DEF HostInv, OneInside, InCriticalSection
  <1> QED
    BY <1>8, <1>13, <1>14, <1>15, <1>16, <1>17, <1>18 DEF HostInv

LEMMA StartThreadingKeeps ==
  ASSUME HostInv, Host!StartThreading
  PROVE  HostInv'
  <1> DEFINE runnable == [t \in Slots |-> IF w.state[t] = "Running" THEN 1 ELSE w.runnable[t]]
             pc == [i \in Host!All |->
                      IF i = Host!Main THEN "leave"
                      ELSE IF /\ w.pc[i] = "asleep" /\ w.state[w.slot[i]] = "Running"
                              /\ w.runnable[w.slot[i]] = 0
                           THEN Host!Resumed(i) ELSE w.pc[i]]
  <1>1. HostType /\ w.pc[Host!Main] = "cs" /\ w' = [w EXCEPT !.runnable = runnable, !.pc = pc]
    BY DEF HostInv, Host!StartThreading, Host!At
  <1>2. /\ w.pc \in [Host!All -> HostPcs] /\ w.runnable \in [Slots -> {0, 1}]
        /\ w.slot \in [Host!All -> Slots \cup {Host!Nobody}]
    BY <1>1 DEF HostType, HostRecords
  <1>3. runnable = w.runnable
    BY <1>2 DEF HostInv, WordsRight
  <1>4. pc = [w.pc EXCEPT ![Host!Main] = "leave"]
    <2>1. \A i \in Host!All : i # Host!Main /\ w.pc[i] = "asleep" =>
            ~(w.state[w.slot[i]] = "Running" /\ w.runnable[w.slot[i]] = 0)
      <3> SUFFICES ASSUME NEW i \in Host!All, i # Host!Main, w.pc[i] = "asleep",
                          w.state[w.slot[i]] = "Running", w.runnable[w.slot[i]] = 0
                   PROVE  FALSE
        OBVIOUS
      <3>1. w.slot[i] \in Slots
        BY <1>2, HostFacts DEF HostInv, OwnSlots
      <3> QED
        BY <3>1 DEF HostInv, WordsRight
    <2>2. \A i \in Host!All : pc[i] = IF i = Host!Main THEN "leave" ELSE w.pc[i]
      BY <2>1
    <2>3. DOMAIN pc = Host!All /\ pc = [i \in Host!All |-> pc[i]]
      OBVIOUS
    <2> HIDE DEF pc
    <2> QED
      BY <1>2, <2>2, <2>3
  <1> HIDE DEF runnable, pc
  <1>5. w' = [w EXCEPT !.pc[Host!Main] = "leave"]
    <2>1. w = [state |-> w.state, runnable |-> w.runnable, cs |-> w.cs, slot |-> w.slot, pc |-> w.pc,
               target |-> w.target, ends |-> w.ends]
      BY <1>1 DEF HostType, HostRecords
    <2>2. w' = [w EXCEPT !.pc = pc]
      BY <1>1, <1>3, <2>1
    <2> QED
      BY <1>4, <2>2
  <1> QED
    BY <1>1, <1>5, HostFacts, LeaveKeeps

LEMMA HostInit ==
  ASSUME Host!Init
  PROVE  HostInv
  <1>1. /\ w.state = [t \in Slots |-> "Invalid"] /\ w.runnable = [t \in Slots |-> 0]
        /\ w.cs = Host!Nobody /\ w.slot = [i \in Host!All |-> Host!Nobody]
        /\ w.pc = [i \in Host!All |-> IF i = Host!Main THEN "run" ELSE "none"]
        /\ w.target = [i \in Host!All |-> Host!Nobody] /\ w.ends = [i \in Host!All |-> FALSE]
    BY DEF Host!Init
  <1>2. HostType
    <2>1. [i \in Host!All |-> FALSE] \in [Host!All -> BOOLEAN]
      BY Zenon
    <2>2. [i \in Host!All |-> IF i = Host!Main THEN "run" ELSE "none"] \in [Host!All -> HostPcs]
      BY DEF HostPcs
    <2> QED
      BY <2>1, <2>2 DEF HostType, HostRecords, Host!Init
  <1>3. OneInside
    BY <1>1, HostFacts DEF OneInside, InCriticalSection
  <1>4. OwnSlots
    BY <1>1, HostFacts DEF OwnSlots
  <1>5. WordsRight /\ OnlyRunning /\ TargetsRight /\ SleepersWoken
    BY <1>1, HostFacts DEF WordsRight, OnlyRunning, TargetsRight, SleepersWoken
  <1> QED
    BY <1>2, <1>3, <1>4, <1>5 DEF HostInv

LEMMA HostStep ==
  ASSUME ~ReuseSlots, ~SpuriousWakes, HostInv, [Host!Next]_w
  PROVE  HostInv'
  <1>1. CASE Host!StartThreading
    BY <1>1, StartThreadingKeeps
  <1>2. ASSUME NEW i \in Host!All, Host!Step(i) PROVE HostInv'
    <2>1. CASE Host!Acquire(i) \/ Host!Release(i) \/ Host!Wait(i) \/ Host!WakeOne(i)
      BY <2>1, AcquireKeeps, ReleaseKeeps, WaitKeeps, WakeOneKeeps
    <2>2. CASE Host!Park(i) \/ Host!Exit(i) \/ Host!Create(i)
      BY <2>2, ParkKeeps, ExitKeeps, CreateKeeps
    <2>3. CASE Host!Other(i)
      BY <2>3, LeaveKeeps DEF Host!Other, Host!At
    <2>4. CASE Host!Created(i)
      <3>1. w.pc[i] = "created" /\ w' = Host!SetRunning(i, w.target[i])
        BY <2>4 DEF Host!Created, Host!At
      <3>2. w.target[i] \in Slots /\ w.state[w.target[i]] = "Parked"
        BY <3>1 DEF HostInv, TargetsRight
      <3> QED
        BY <3>1, <3>2, SetRunningKeeps
    <2>5. ASSUME NEW t \in Slots, Host!Unpark(i, t) PROVE HostInv'
      BY <2>5, SetRunningKeeps DEF Host!Unpark, Host!At
    <2> QED
      BY <1>2, <2>1, <2>2, <2>3, <2>4, <2>5 DEF Host!Step
  <1>3. CASE UNCHANGED w
    BY <1>3 DEF HostInv, HostType, OneInside, OwnSlots, WordsRight, OnlyRunning, TargetsRight, SleepersWoken
  <1> QED
    BY <1>1, <1>2, <1>3 DEF Host!Next

(* A thread of the native port runs only while it is runnable, and only on *)
(* one host thread; a host thread that sleeps on a word that is set is     *)
(* about to be woken.  create is called for fresh slots only, and wait     *)
(* does not return without a wake.                                         *)
THEOREM ThreadsRunWhenRunnable ==
  ASSUME ~ReuseSlots, ~SpuriousWakes
  PROVE  PlatformSpec => []NativeRuns
  <1> DEFINE Inv == part = "native" => HostInv
  <1>1. PlatformInit => Inv
    BY HostInit DEF PlatformInit
  <1>2. Inv /\ [PlatformNext]_platformvars => Inv'
    <2> SUFFICES ASSUME Inv, [PlatformNext]_platformvars, part' = "native" PROVE HostInv'
      OBVIOUS
    <2>1. part = "native" /\ [Host!Next]_w
      BY DEF PlatformNext, platformvars
    <2> QED
      BY <2>1, HostStep
  <1>3. Inv => NativeRuns
    <2> SUFFICES ASSUME HostInv PROVE Host!NativeRuns
      BY DEF NativeRuns
    <2>1. w.slot \in [Host!All -> Slots \cup {Host!Nobody}]
      BY DEF HostInv, HostType, HostRecords
    <2>2. \A i \in Hosts : w.pc[i] = "run" => w.slot[i] # Host!Nobody
      BY DEF HostInv, OwnSlots
    <2> QED
      BY <2>2 DEF HostInv, OnlyRunning, OwnSlots, SleepersWoken, Host!NativeRuns, Host!At
  <1> HIDE DEF Inv
  <1> QED
    BY <1>1, <1>2, <1>3, PTL DEF PlatformSpec

-----------------------------------------------------------------------------
(* The ring buffer.                                                        *)

LEMMA PowersPositive == RingBuf!Powers \subseteq Nat \ {0} /\ 1 \in RingBuf!Powers /\ 128 \in RingBuf!Powers
  BY DEF RingBuf!Powers

Up(x) == (x + 1) % 256

(* The arithmetic of the counters, for each size of a buffer.              *)
LEMMA CounterFacts ==
  ASSUME NEW x \in 0 .. 255, NEW y \in 0 .. 255
  PROVE  /\ RingBuf!Sub(y, x) \in 0 .. 255 /\ Up(x) \in 0 .. 255
         /\ RingBuf!Sub(y, x) < 255 => RingBuf!Sub(Up(y), x) = RingBuf!Sub(y, x) + 1
         /\ RingBuf!Sub(y, x) > 0 => RingBuf!Sub(y, Up(x)) = RingBuf!Sub(y, x) - 1
  <1>1. RingBuf!Sub(y, x) = IF y >= x THEN y - x ELSE y + 256 - x
    BY DEF RingBuf!Sub, RingBuf!U8
  <1>2. /\ Up(y) = IF y = 255 THEN 0 ELSE y + 1
        /\ Up(x) = IF x = 255 THEN 0 ELSE x + 1
    BY DEF Up
  <1>3. RingBuf!Sub(Up(y), x) = IF Up(y) >= x THEN Up(y) - x ELSE Up(y) + 256 - x
    BY <1>2 DEF RingBuf!Sub, RingBuf!U8
  <1>4. RingBuf!Sub(y, Up(x)) = IF y >= Up(x) THEN y - Up(x) ELSE y + 256 - Up(x)
    BY <1>2 DEF RingBuf!Sub, RingBuf!U8
  <1> QED
    BY <1>1, <1>2, <1>3, <1>4

LEMMA IndexFacts ==
  ASSUME NEW m \in Nat, m + 1 \in RingBuf!Powers, NEW x \in 0 .. 255, NEW y \in 0 .. 255
  PROVE  /\ \A i \in Nat : RingBuf!And(i, m) \in 0 .. m
         /\ RingBuf!And(x + RingBuf!Sub(y, x), m) = RingBuf!And(y, m)
         /\ RingBuf!Sub(y, x) <= m
            => \A i \in 1 .. RingBuf!Sub(y, x) : RingBuf!And(x + i - 1, m) # RingBuf!And(y, m)
         /\ \A i \in Nat : RingBuf!And(Up(x) + i, m) = RingBuf!And(x + i + 1, m)
  <1>1. m \in {0, 1, 3, 7, 15, 31, 63, 127}
    BY DEF RingBuf!Powers
  <1>2. CASE m = 0
    BY <1>2 DEF RingBuf!Sub, RingBuf!U8, RingBuf!And, Up
  <1>3. CASE m = 1
    BY <1>3 DEF RingBuf!Sub, RingBuf!U8, RingBuf!And, Up
  <1>4. CASE m = 3
    BY <1>4 DEF RingBuf!Sub, RingBuf!U8, RingBuf!And, Up
  <1>5. CASE m = 7
    BY <1>5 DEF RingBuf!Sub, RingBuf!U8, RingBuf!And, Up
  <1>6. CASE m = 15
    BY <1>6 DEF RingBuf!Sub, RingBuf!U8, RingBuf!And, Up
  <1>7. CASE m = 31
    BY <1>7 DEF RingBuf!Sub, RingBuf!U8, RingBuf!And, Up
  <1>8. CASE m = 63
    BY <1>8 DEF RingBuf!Sub, RingBuf!U8, RingBuf!And, Up
  <1>9. CASE m = 127
    BY <1>9 DEF RingBuf!Sub, RingBuf!U8, RingBuf!And, Up
  <1> QED
    BY <1>1, <1>2, <1>3, <1>4, <1>5, <1>6, <1>7, <1>8, <1>9

(* The array of a buffer holds its capacity, also when its length is cut   *)
(* to a byte.                                                              *)
LEMMA PowerFacts ==
  ASSUME NEW x \in 0 .. 255
  PROVE  LET m == RingBuf!next_smaller_power_of_two(x)
         IN  m \in RingBuf!Powers /\ (m = 1 \/ m <= x) /\ x < 2 * m
  <1> DEFINE m == RingBuf!next_smaller_power_of_two(x)
             half == (x \div 2) + 1
  <1>1. CASE x \in RingBuf!Powers
    <2>1. m = x
      BY <1>1 DEF RingBuf!next_smaller_power_of_two
    <2> QED
      BY <1>1, <2>1, PowersPositive
  <1>2. CASE x \notin RingBuf!Powers
    <2>1. m = RingBuf!NextPowerOfTwo(half)
      BY <1>2 DEF RingBuf!next_smaller_power_of_two
    <2>2. half \in 1 .. 128 /\ 2 * (half - 1) <= x /\ x < 2 * half
      OBVIOUS
    <2> HIDE DEF half, m
    <2> DEFINE D == {q \in RingBuf!Powers : half <= q}
    <2>3. PICK low \in D : \A q \in D : low <= q
      <3>1. D \in SUBSET Nat /\ 128 \in D
        <4>1. RingBuf!Powers \subseteq Nat /\ 128 \in RingBuf!Powers /\ half <= 128
          BY <2>2, PowersPositive
        <4> QED
          BY <4>1
      <3> HIDE DEF D
      <3> QED
        BY <3>1, LowestExists
    <2>4. \E z \in RingBuf!Powers : half <= z /\ \A q \in RingBuf!Powers : half <= q => z <= q
      BY <2>3
    <2>5. m \in RingBuf!Powers /\ half <= m /\ \A q \in RingBuf!Powers : half <= q => m <= q
      BY <2>1, <2>4 DEF RingBuf!NextPowerOfTwo
    <2>6. m = 1 \/ m <= x
      <3>1. \A q \in RingBuf!Powers : q < m => q < half
        BY <2>2, <2>5 DEF RingBuf!Powers
      <3>2. m \in {1, 2, 4, 8, 16, 32, 64, 128} /\ {1, 2, 4, 8, 16, 32, 64} \subseteq RingBuf!Powers
        BY <2>5 DEF RingBuf!Powers
      <3>3. \A q \in 1 .. 64 : q < half => 2 * q <= x
        BY <2>2
      <3>4. \A q \in {1, 2, 4, 8, 16, 32, 64} : m = 2 * q => q < m /\ q \in 1 .. 64
        OBVIOUS
      <3>5. \A q \in {1, 2, 4, 8, 16, 32, 64} : m = 2 * q => m <= x
        BY <3>1, <3>2, <3>3, <3>4
      <3>6. m = 1 \/ \E q \in {1, 2, 4, 8, 16, 32, 64} : m = 2 * q
        BY <3>2
      <3> QED
        BY <3>5, <3>6
    <2>7. x < 2 * m
      <3>1. m \in Nat
        BY <2>5, PowersPositive
      <3> QED
        BY <2>2, <2>5, <3>1
    <2> QED
      BY <2>5, <2>6, <2>7 DEF m
  <1> QED
    BY <1>1, <1>2

(* What a byte of the backing array holds: 0 before it is written.         *)
Bytes == 0 .. 2

Slices == UNION {[0 .. len - 1 -> Bytes] : len \in Lengths}

(* The elements q are between the counters x and y, in the array z; a      *)
(* buffer without room is empty.                                           *)
Holds(x, y, m, z, q) ==
  /\ RingBuf!Sub(y, x) = Len(q) /\ Len(q) <= m + 1
  /\ m = 0 => q = <<>>
  /\ \A i \in 1 .. Len(q) : z[RingBuf!And(x + i - 1, m)] = q[i]

RingRecords ==
  [len : Lengths, reads : 0 .. 255, writes : 0 .. 255, mask : Nat, slice : Slices, fifo : Seq(Bytes)]

(* The mask says how much of the array is used, the length a byte.         *)
RingOk(v) ==
  /\ v \in RingRecords /\ v.slice \in [0 .. v.len - 1 -> Bytes]
  /\ v.mask + 1 \in RingBuf!Powers /\ (v.mask # 0 => v.mask + 1 <= v.len % 256)
  /\ v.len % 256 < 2 * (v.mask + 1)
  /\ Holds(v.reads, v.writes, v.mask, v.slice, v.fifo)

RingInv == RingOk(r)

LEMMA PutHolds ==
  ASSUME NEW len \in Nat, NEW x \in 0 .. 255, NEW y \in 0 .. 255,
         NEW m \in Nat, m + 1 \in RingBuf!Powers, m + 1 <= len, m # 0,
         NEW z \in [0 .. len - 1 -> Bytes], NEW q \in Seq(Bytes), NEW e \in Bytes,
         Holds(x, y, m, z, q), RingBuf!Sub(y, x) <= m
  PROVE  /\ [z EXCEPT ![RingBuf!And(y, m)] = e] \in [0 .. len - 1 -> Bytes]
         /\ Append(q, e) \in Seq(Bytes) /\ Up(y) \in 0 .. 255
         /\ Holds(x, Up(y), m, [z EXCEPT ![RingBuf!And(y, m)] = e], Append(q, e))
  <1> DEFINE at == RingBuf!And(y, m)
             v == [z EXCEPT ![at] = e]
             f == Append(q, e)
  <1>1. m <= 127 /\ Len(q) \in Nat /\ Len(q) = RingBuf!Sub(y, x)
    BY DEF Holds, RingBuf!Powers
  <1>2. /\ \A i \in Nat : RingBuf!And(i, m) \in 0 .. len - 1
        /\ RingBuf!And(x + Len(q), m) = at
        /\ \A i \in 1 .. Len(q) : RingBuf!And(x + i - 1, m) # at
    <2>1. \A i \in Nat : RingBuf!And(i, m) \in 0 .. m
      BY IndexFacts
    <2>2. 0 .. m \subseteq 0 .. len - 1
      OBVIOUS
    <2>3. /\ RingBuf!And(x + Len(q), m) = at
          /\ \A i \in 1 .. Len(q) : RingBuf!And(x + i - 1, m) # at
      <3> DEFINE size == Len(q)
      <3>1. size = RingBuf!Sub(y, x)
        BY <1>1
      <3> HIDE DEF size
      <3>2. /\ RingBuf!And(x + size, m) = at
            /\ \A i \in 1 .. size : RingBuf!And(x + i - 1, m) # at
        BY <3>1, IndexFacts
      <3> QED
        BY <3>2 DEF size
    <2> QED
      BY <2>1, <2>2, <2>3
  <1>3. at \in 0 .. len - 1
    <2>1. y \in Nat
      OBVIOUS
    <2> QED
      BY <1>2, <2>1, Zenon
  <1> HIDE DEF at
  <1>4. v \in [0 .. len - 1 -> Bytes] /\ \A i \in 0 .. len - 1 : v[i] = IF i = at THEN e ELSE z[i]
    BY <1>3
  <1>5. /\ f \in Seq(Bytes) /\ Len(f) = Len(q) + 1
        /\ \A i \in 1 .. Len(f) : f[i] = IF i = Len(f) THEN e ELSE q[i]
    OBVIOUS
  <1> HIDE DEF v, f
  <1>6. Up(y) \in 0 .. 255 /\ RingBuf!Sub(Up(y), x) = Len(f)
    <2> DEFINE size == Len(q)
               top == Len(f)
    <2>1. size \in Nat /\ size <= m /\ size = RingBuf!Sub(y, x) /\ top = size + 1
      BY <1>1, <1>5
    <2> HIDE DEF size, top
    <2>2. Up(y) \in 0 .. 255 /\ RingBuf!Sub(Up(y), x) = top
      <3>1. size < 255 /\ m <= 127
        BY <1>1, <2>1
      <3> QED
        BY <2>1, <3>1, CounterFacts
    <2> QED
      BY <2>2 DEF top
  <1>7. \A i \in 1 .. Len(f) : v[RingBuf!And(x + i - 1, m)] = f[i]
    <2> SUFFICES ASSUME NEW i \in 1 .. Len(f) PROVE v[RingBuf!And(x + i - 1, m)] = f[i]
      OBVIOUS
    <2>1. RingBuf!And(x + i - 1, m) \in 0 .. len - 1
      <3>1. i \in Nat /\ i >= 1
        BY <1>1, <1>5
      <3>2. x + i - 1 \in Nat
        BY <3>1
      <3> QED
        BY <1>2, <3>2
    <2>2. CASE i = Len(f)
      <3>1. x + i - 1 = x + Len(q)
        BY <1>1, <1>5, <2>2
      <3> QED
        BY <1>2, <1>4, <1>5, <2>1, <2>2, <3>1
    <2>3. CASE i # Len(f)
      <3>1. i \in 1 .. Len(q) /\ f[i] = q[i]
        BY <1>1, <1>5, <2>3
      <3>2. z[RingBuf!And(x + i - 1, m)] = q[i] /\ RingBuf!And(x + i - 1, m) # at
        BY <1>2, <3>1 DEF Holds
      <3> QED
        BY <1>4, <2>1, <3>1, <3>2
    <2> QED
      BY <2>2, <2>3
  <1>8. Holds(x, Up(y), m, v, f)
    BY <1>1, <1>5, <1>6, <1>7 DEF Holds
  <1> QED
    BY <1>4, <1>5, <1>6, <1>8 DEF v, f, at

LEMMA GetHolds ==
  ASSUME NEW x \in 0 .. 255, NEW y \in 0 .. 255, NEW m \in Nat, m + 1 \in RingBuf!Powers,
         NEW z, NEW q \in Seq(Bytes), Holds(x, y, m, z, q), RingBuf!Sub(y, x) # 0
  PROVE  Tail(q) \in Seq(Bytes) /\ Up(x) \in 0 .. 255 /\ Holds(Up(x), y, m, z, Tail(q))
  <1> DEFINE f == Tail(q)
             u == Up(x)
  <1>1. Len(q) \in Nat /\ Len(q) > 0 /\ Len(q) = RingBuf!Sub(y, x) /\ Len(q) <= m + 1 /\ m # 0
    BY DEF Holds
  <1>2. f \in Seq(Bytes) /\ Len(f) = Len(q) - 1 /\ \A i \in 1 .. Len(f) : f[i] = q[i + 1]
    BY <1>1
  <1>3. u \in 0 .. 255 /\ RingBuf!Sub(y, u) = Len(f)
    <2> DEFINE size == Len(q)
               top == Len(f)
    <2>1. size \in Nat /\ size > 0 /\ size = RingBuf!Sub(y, x) /\ top = size - 1
      BY <1>1, <1>2
    <2> HIDE DEF size, top
    <2>2. u \in 0 .. 255 /\ RingBuf!Sub(y, u) = top
      BY <2>1, CounterFacts
    <2> QED
      BY <2>2 DEF top
  <1>4. \A i \in Nat : RingBuf!And(u + i, m) = RingBuf!And(x + i + 1, m)
    BY IndexFacts
  <1> HIDE DEF f, u
  <1>5. \A i \in 1 .. Len(f) : z[RingBuf!And(u + i - 1, m)] = f[i]
    <2> SUFFICES ASSUME NEW i \in 1 .. Len(f) PROVE z[RingBuf!And(u + i - 1, m)] = f[i]
      OBVIOUS
    <2>1. /\ i - 1 \in Nat /\ i + 1 \in 1 .. Len(q) /\ u + i - 1 = u + (i - 1)
          /\ x + (i - 1) + 1 = x + (i + 1) - 1
      BY <1>1, <1>2, <1>3
    <2>2. RingBuf!And(u + i - 1, m) = RingBuf!And(x + (i + 1) - 1, m)
      BY <1>4, <2>1
    <2>3. z[RingBuf!And(x + (i + 1) - 1, m)] = q[i + 1]
      BY <2>1 DEF Holds
    <2> QED
      BY <1>2, <2>2, <2>3
  <1>6. Holds(u, y, m, z, f)
    BY <1>1, <1>2, <1>3, <1>5 DEF Holds
  <1> QED
    BY <1>2, <1>3, <1>6 DEF f, u

LEMMA RingNewOk ==
  ASSUME NEW len \in Lengths, NEW v, v = RingBuf!New(len)
  PROVE  RingOk(v)
  <1> DEFINE m == RingBuf!next_smaller_power_of_two(len % 256)
             z == [i \in 0 .. len - 1 |-> 0]
  <1>1. len \in Nat /\ len % 256 \in 0 .. 255 /\ len % 256 <= len
    BY LengthsAssumption
  <1>2. m \in RingBuf!Powers /\ (m = 1 \/ m <= len % 256) /\ len % 256 < 2 * m
    BY <1>1, PowerFacts
  <1>3. m \in Nat /\ m >= 1
    <2> HIDE DEF m
    <2> QED
      BY <1>2, PowersPositive
  <1>4. z \in [0 .. len - 1 -> Bytes] /\ z \in Slices
    BY DEF Slices, Bytes
  <1>5. v = [len |-> len, reads |-> 0, writes |-> 0, mask |-> m - 1, slice |-> z, fifo |-> <<>>]
    BY DEF RingBuf!New, RingBuf!U8
  <1> HIDE DEF m, z
  <1>6. m - 1 \in Nat /\ (m - 1) + 1 = m /\ (m - 1 # 0 => m <= len % 256)
    BY <1>1, <1>2, <1>3
  <1>7. Holds(0, 0, m - 1, z, <<>>)
    BY <1>6 DEF Holds, RingBuf!Sub, RingBuf!U8
  <1>8. v \in RingRecords
    BY <1>4, <1>5, <1>6 DEF RingRecords
  <1> QED
    BY <1>2, <1>4, <1>5, <1>6, <1>7, <1>8 DEF RingOk

LEMMA RingFields ==
  ASSUME RingInv
  PROVE  /\ r.len \in Lengths /\ r.len \in Nat
         /\ r.reads \in 0 .. 255 /\ r.writes \in 0 .. 255 /\ r.mask \in Nat
         /\ r.fifo \in Seq(Bytes) /\ r.slice \in Slices
  <1>1. /\ r.len \in Lengths
        /\ r.reads \in 0 .. 255 /\ r.writes \in 0 .. 255 /\ r.mask \in Nat
        /\ r.fifo \in Seq(Bytes) /\ r.slice \in Slices
    BY DEF RingInv, RingOk, RingRecords
  <1>2. r.len \in Nat
    BY <1>1, LengthsAssumption
  <1> QED
    BY <1>1, <1>2

LEMMA RingPutKeeps ==
  ASSUME RingInv, NEW e \in 1 .. 2, RingBuf!put(e)
  PROVE  RingInv'
  <1> DEFINE x == r.reads
             y == Up(r.writes)
             m == r.mask
             z == [r.slice EXCEPT ![RingBuf!And(r.writes, m)] = e]
             f == Append(r.fifo, e)
  <1>1. CASE RingBuf!is_full
    <2>1. r' = r
      BY <1>1 DEF RingBuf!put
    <2> QED
      BY <2>1 DEF RingInv, RingOk
  <1>2. CASE ~RingBuf!is_full
    <2>1. r' = [r EXCEPT !.writes = y, !.slice = z, !.fifo = f]
      BY <1>2 DEF RingBuf!put, RingBuf!U8, Up
    <2>2. m # 0 /\ ~(RingBuf!Sub(r.writes, x) > m)
      BY <1>2 DEF RingBuf!is_full, RingBuf!available
    <2>3. m \in Nat /\ RingBuf!Sub(r.writes, x) \in 0 .. 255
      BY RingFields, CounterFacts
    <2>4. RingBuf!Sub(r.writes, x) <= m
      <3> DEFINE t == RingBuf!Sub(r.writes, x)
      <3> HIDE DEF m, t
      <3> QED
        BY <2>2, <2>3 DEF t
    <2>5. /\ m + 1 \in RingBuf!Powers /\ m + 1 <= r.len /\ e \in Bytes
          /\ r.slice \in [0 .. r.len - 1 -> Bytes] /\ Holds(x, r.writes, m, r.slice, r.fifo)
      <3>1. /\ m + 1 \in RingBuf!Powers /\ m + 1 <= r.len % 256 /\ e \in Bytes
            /\ r.slice \in [0 .. r.len - 1 -> Bytes] /\ Holds(x, r.writes, m, r.slice, r.fifo)
        BY <2>2 DEF RingInv, RingOk, Bytes
      <3>2. m + 1 <= r.len
        <4> DEFINE len == r.len
        <4>1. len \in Nat /\ len % 256 <= len /\ len % 256 \in Nat
          BY RingFields
        <4> HIDE DEF len, m
        <4> QED
          BY <3>1, <2>3, <4>1 DEF len
      <3> QED
        BY <3>1, <3>2
    <2>6. z \in [0 .. r.len - 1 -> Bytes] /\ f \in Seq(Bytes) /\ y \in 0 .. 255 /\ Holds(x, y, m, z, f)
      BY <2>2, <2>3, <2>4, <2>5, RingFields, PutHolds
    <2> HIDE DEF z, f, y
    <2>7. z \in Slices
      BY <2>6, RingFields DEF Slices
    <2>8. /\ r' \in RingRecords /\ r'.len = r.len /\ r'.reads = r.reads /\ r'.writes = y
          /\ r'.mask = r.mask /\ r'.slice = z /\ r'.fifo = f
      <3>1. r \in RingRecords
        BY DEF RingInv, RingOk
      <3> QED
        BY <2>1, <2>6, <2>7, <3>1 DEF RingRecords
    <2> QED
      BY <2>5, <2>6, <2>8 DEF RingInv, RingOk
  <1> QED
    BY <1>1, <1>2

LEMMA RingGetKeeps ==
  ASSUME RingInv, RingBuf!get
  PROVE  RingInv'
  <1> DEFINE f == Tail(r.fifo)
             u == Up(r.reads)
  <1>1. CASE RingBuf!is_empty
    <2>1. r' = r
      BY <1>1 DEF RingBuf!get
    <2> QED
      BY <2>1 DEF RingInv, RingOk
  <1>2. CASE ~RingBuf!is_empty
    <2>1. r' = [r EXCEPT !.reads = u, !.fifo = f]
      BY <1>2 DEF RingBuf!get, RingBuf!U8, Up
    <2>2. /\ r.mask + 1 \in RingBuf!Powers /\ Holds(r.reads, r.writes, r.mask, r.slice, r.fifo)
          /\ RingBuf!Sub(r.writes, r.reads) # 0
      BY <1>2 DEF RingInv, RingOk, RingBuf!is_empty, RingBuf!available
    <2>3. f \in Seq(Bytes) /\ u \in 0 .. 255 /\ Holds(u, r.writes, r.mask, r.slice, f)
      BY <2>2, RingFields, GetHolds
    <2> HIDE DEF f, u
    <2>4. /\ r' \in RingRecords /\ r'.len = r.len /\ r'.reads = u /\ r'.writes = r.writes
          /\ r'.mask = r.mask /\ r'.slice = r.slice /\ r'.fifo = f
      <3>1. r \in RingRecords
        BY DEF RingInv, RingOk
      <3> QED
        BY <2>1, <2>3, <3>1 DEF RingRecords
    <2> QED
      BY <2>3, <2>4 DEF RingInv, RingOk
  <1> QED
    BY <1>1, <1>2

LEMMA RingSafe ==
  ASSUME RingInv
  PROVE  RingBuf!RingFifo
  <1> DEFINE m == r.mask
             q == r.fifo
             len == r.len
             x == r.reads
  <1>1. m \in Nat /\ q \in Seq(Bytes) /\ len \in Nat /\ x \in 0 .. 255
    BY RingFields
  <1>2. /\ RingBuf!available = Len(q) /\ Len(q) <= m + 1 /\ (m = 0 => q = <<>>)
        /\ (m # 0 => m + 1 <= len % 256) /\ len % 256 < 2 * (m + 1)
        /\ \A i \in 1 .. Len(q) : r.slice[RingBuf!And(x + i - 1, m)] = q[i]
    BY DEF RingInv, RingOk, Holds, RingBuf!available
  <1>3. /\ RingBuf!is_empty = (RingBuf!available = 0)
        /\ RingBuf!capacity = IF m > 0 THEN m + 1 ELSE 0
        /\ RingBuf!is_full = (m = 0 \/ RingBuf!available > m)
        /\ RingBuf!peek = r.slice[RingBuf!And(x, m)]
    BY DEF RingBuf!is_empty, RingBuf!capacity, RingBuf!is_full, RingBuf!peek
  <1> HIDE DEF m, q, len, x
  <1>4. /\ RingBuf!is_empty = (q = <<>>) /\ Len(q) <= RingBuf!capacity
        /\ IF len % 256 < 2 THEN RingBuf!capacity = 0
                            ELSE RingBuf!capacity <= len % 256 /\ len % 256 < 2 * RingBuf!capacity
        /\ RingBuf!is_full = (Len(q) = RingBuf!capacity)
    BY <1>1, <1>2, <1>3
  <1>5. q # <<>> => RingBuf!peek = Head(q)
    <2> SUFFICES ASSUME q # <<>> PROVE r.slice[RingBuf!And(x, m)] = Head(q)
      BY <1>3
    <2>1. 1 \in 1 .. Len(q) /\ x + 1 - 1 = x /\ Head(q) = q[1]
      BY <1>1
    <2> QED
      BY <1>2, <2>1
  <1> QED
    BY <1>2, <1>4, <1>5 DEF RingBuf!RingFifo, RingBuf!U8, m, q, len, x

LEMMA RingStep ==
  ASSUME RingInv, [RingBuf!Next]_r
  PROVE  RingInv'
  <1>1. CASE \E e \in Elements[r.len] : RingBuf!put(e)
    <2>1. Elements[r.len] \subseteq 1 .. 2
      BY RingFields DEF Elements
    <2> QED
      BY <1>1, <2>1, RingPutKeeps
  <1>2. CASE RingBuf!get
    BY <1>2, RingGetKeeps
  <1>3. CASE RingBuf!set_backing_array(0)
    BY <1>3, RingNewOk, LengthsAssumption DEF RingBuf!set_backing_array, RingInv, RingOk
  <1>4. CASE UNCHANGED r
    BY <1>4 DEF RingInv, RingOk, RingBuf!available
  <1> QED
    BY <1>1, <1>2, <1>3, <1>4 DEF RingBuf!Next

LEMMA RingInit ==
  ASSUME RingBuf!Init
  PROVE  RingInv
  BY RingNewOk DEF RingBuf!Init, RingInv

-----------------------------------------------------------------------------
(* The paint of a stack.                                                   *)

Ports == {"cortex_m", "riscv", "xtensa"}

PaintRecords ==
  [arch : Ports, start : Nat, size : Nat, lowest : Nat, highest : Nat, sp : Nat, top : Nat,
   dirty : SUBSET Nat, painting : BOOLEAN, pos : Int, deepest : Int, settled : Int,
   collided : BOOLEAN]

(* What is dirty was written since the last repaint began, or repaint has  *)
(* yet to reach it.                                                        *)
DirtyBounded ==
  \A a \in k.dirty : k.deepest <= a \/ (k.painting /\ k.pos <= a /\ a < Paint!PaintEnd)

(* The lowest byte written and not painted over is dirty; while repaint    *)
(* runs, so is all that is in use, which repaint spares.                   *)
DirtyEnough ==
  IF k.painting THEN /\ k.sp .. (k.highest - 1) \subseteq k.dirty
                     /\ k.settled = k.sp \/ (k.settled < k.pos /\ k.settled \in k.dirty)
                ELSE k.settled >= k.highest \/ k.settled \in k.dirty

PaintInv ==
  /\ k \in PaintRecords
  /\ k.lowest <= k.sp /\ k.sp <= k.top /\ k.top <= k.highest /\ k.highest <= k.start + k.size
  /\ k.top % 8 = 0 /\ k.deepest <= k.highest
  /\ \A a \in k.dirty : k.lowest <= a /\ a < k.highest
  /\ k.painting => k.deepest <= Paint!PaintEnd
  /\ DirtyBounded
  /\ k.collided \/ DirtyEnough

LEMMA MinOfTwo ==
  ASSUME NEW x \in Int, NEW y \in Int
  PROVE  Paint!Min({x, y}) = IF x <= y THEN x ELSE y
  <1> DEFINE low == IF x <= y THEN x ELSE y
  <1>1. low \in {x, y} /\ \A a \in {x, y} : low <= a
    OBVIOUS
  <1>2. \A a \in {x, y} : a <= low => a = low
    OBVIOUS
  <1> HIDE DEF low
  <1>3. Paint!Min({x, y}) \in {x, y} /\ Paint!Min({x, y}) <= low
    BY <1>1 DEF Paint!Min
  <1>4. Paint!Min({x, y}) = low
    BY <1>2, <1>3
  <1> QED
    BY <1>4 DEF low

LEMMA MinOfDirty ==
  ASSUME NEW D \in SUBSET Nat, D # {}
  PROVE  Paint!Min(D) \in D /\ \A a \in D : Paint!Min(D) <= a
  <1>1. \E q \in D : \A a \in D : q <= a
    BY LowestExists
  <1> QED
    BY <1>1 DEF Paint!Min

LEMMA PaintFields ==
  ASSUME PaintInv
  PROVE  /\ k.arch \in Ports /\ k.start \in Nat /\ k.size \in Nat /\ k.lowest \in Nat
         /\ k.highest \in Nat /\ k.sp \in Nat /\ k.top \in Nat /\ k.dirty \in SUBSET Nat
         /\ k.painting \in BOOLEAN /\ k.pos \in Int /\ k.deepest \in Int /\ k.settled \in Int
         /\ k.collided \in BOOLEAN
         /\ Paint!STACK_PAINT_IGNORE \in Nat
  BY DEF PaintInv, PaintRecords, Paint!STACK_PAINT_IGNORE

LEMMA SetupFacts ==
  ASSUME NEW arch \in Ports, NEW start \in Starts, NEW size \in Sizes
  PROVE  LET t == Paint!SetupStack(arch, start, size)
         IN  /\ t.highest \in Nat /\ t.sp \in Nat /\ start \in Nat /\ size \in Nat
             /\ start <= t.sp /\ t.sp <= t.highest /\ t.highest <= start + size /\ t.sp % 8 = 0
  <1> DEFINE t == Paint!SetupStack(arch, start, size)
             x == start + size
  <1>1. start \in Nat /\ size \in Nat /\ x \in Nat /\ start <= t.sp
    BY StacksAssumption DEF Ports
  <1>2. CASE arch = "cortex_m"
    <2>1. t = Paint!CortexMStack(start, size)
      BY <1>2 DEF Paint!SetupStack
    <2>2. t.highest = x - (x % 8) /\ t.sp = x - (x % 8) - 32
      BY <2>1 DEF Paint!CortexMStack, Paint!Aligned
    <2> HIDE DEF t, x
    <2> QED
      BY <1>1, <2>2 DEF t, x
  <1>3. CASE arch = "riscv"
    <2>1. t = Paint!RiscvStack(start, size)
      BY <1>3 DEF Paint!SetupStack
    <2>2. t.highest = x - (x % 32) /\ t.sp = x - (x % 32)
      BY <2>1 DEF Paint!RiscvStack, Paint!Aligned
    <2> HIDE DEF t, x
    <2> QED
      BY <1>1, <2>2 DEF t, x
  <1>4. CASE arch = "xtensa"
    <2>1. t = Paint!XtensaStack(start, size)
      BY <1>4 DEF Paint!SetupStack
    <2>2. t.highest = x - (x % 16) /\ t.sp = x - (x % 16)
      BY <2>1 DEF Paint!XtensaStack, Paint!Aligned
    <2> HIDE DEF t, x
    <2> QED
      BY <1>1, <2>2 DEF t, x
  <1> QED
    BY <1>2, <1>3, <1>4 DEF Ports

LEMMA PaintInit ==
  ASSUME Paint!Init
  PROVE  PaintInv
  <1>1. PICK arch \in Ports, start \in Starts, size \in Sizes : k = Paint!Painted(arch, start, size)
    BY DEF Paint!Init, Ports
  <1> DEFINE t == Paint!SetupStack(arch, start, size)
             high == t.highest
             at == t.sp
  <1>2. /\ high \in Nat /\ at \in Nat /\ start \in Nat /\ size \in Nat
        /\ start <= at /\ at <= high /\ high <= start + size /\ at % 8 = 0
    BY SetupFacts
  <1>3. k = [arch |-> arch, start |-> start, size |-> size, lowest |-> start, highest |-> high,
             sp |-> at, top |-> at, dirty |-> at .. (high - 1), painting |-> FALSE,
             pos |-> start, deepest |-> at, settled |-> at, collided |-> FALSE]
    BY <1>1 DEF Paint!Painted
  <1> HIDE DEF high, at
  <1>4. at .. (high - 1) \in SUBSET Nat /\ \A a \in at .. (high - 1) : start <= a /\ a < high /\ at <= a
    BY <1>2
  <1>5. k \in PaintRecords
    BY <1>2, <1>3, <1>4 DEF PaintRecords
  <1>6. DirtyBounded /\ DirtyEnough
    BY <1>2, <1>3, <1>4 DEF DirtyBounded, DirtyEnough
  <1> QED
    BY <1>2, <1>3, <1>4, <1>5, <1>6 DEF PaintInv

(* What writing some bytes leaves.                                         *)
LEMMA WrittenFacts ==
  ASSUME PaintInv, NEW from \in Nat, k.lowest <= from, from < k.sp,
         NEW v \in Paint!Written(k, from, k.sp - 1)
  PROVE  /\ v \in PaintRecords
         /\ v.start = k.start /\ v.size = k.size /\ v.arch = k.arch
         /\ v.lowest = k.lowest /\ v.highest = k.highest /\ v.sp = k.sp /\ v.top = k.top
         /\ v.painting = k.painting /\ v.pos = k.pos
         /\ v.deepest <= k.deepest /\ (Paint!Stays(from) => v.deepest <= from)
         /\ \A a \in v.dirty : a \in k.dirty \/ (from <= a /\ a < k.sp)
         /\ v.collided \/ ( /\ ~k.collided /\ k.dirty \subseteq v.dirty /\ from \in v.dirty
                            /\ v.settled = k.settled \/ (v.settled = from /\ Paint!Stays(from)) )
  <1> DEFINE deep == IF Paint!Stays(from) /\ from < k.deepest THEN from ELSE k.deepest
             set == IF Paint!Stays(from) /\ from < k.settled THEN from ELSE k.settled
             low == [k EXCEPT !.deepest = deep, !.settled = set]
             more == k.dirty \cup (from .. (k.sp - 1))
  <1>1. /\ deep \in Int /\ set \in Int /\ deep <= k.deepest /\ (Paint!Stays(from) => deep <= from)
        /\ set = k.settled \/ (set = from /\ Paint!Stays(from))
    BY PaintFields
  <1>2. more \in SUBSET Nat /\ \A a \in more : a \in k.dirty \/ (from <= a /\ a < k.sp)
    BY PaintFields
  <1>3. from \in more /\ k.dirty \subseteq more
    BY PaintFields
  <1>4. v \in {[low EXCEPT !.dirty = more], [low EXCEPT !.dirty = more \ {from}, !.collided = TRUE]}
    BY DEF Paint!Written
  <1>5. k \in PaintRecords
    BY DEF PaintInv
  <1> HIDE DEF deep, set, more
  <1>6. /\ low \in PaintRecords
        /\ low.start = k.start /\ low.size = k.size /\ low.arch = k.arch
        /\ low.lowest = k.lowest /\ low.highest = k.highest /\ low.sp = k.sp /\ low.top = k.top
        /\ low.painting = k.painting /\ low.pos = k.pos
        /\ low.deepest = deep /\ low.settled = set /\ low.collided = k.collided
    BY <1>1, <1>5 DEF PaintRecords
  <1> HIDE DEF low
  <1>7. CASE v = [low EXCEPT !.dirty = more]
    <2>1. /\ v \in PaintRecords
          /\ v.start = low.start /\ v.size = low.size /\ v.arch = low.arch
          /\ v.lowest = low.lowest /\ v.highest = low.highest /\ v.sp = low.sp /\ v.top = low.top
          /\ v.painting = low.painting /\ v.pos = low.pos /\ v.deepest = low.deepest
          /\ v.settled = low.settled /\ v.collided = low.collided /\ v.dirty = more
      BY <1>2, <1>6, <1>7 DEF PaintRecords
    <2> QED
      BY <1>1, <1>2, <1>3, <1>6, <2>1
  <1>8. CASE v = [low EXCEPT !.dirty = more \ {from}, !.collided = TRUE]
    <2>1. /\ v \in PaintRecords
          /\ v.start = low.start /\ v.size = low.size /\ v.arch = low.arch
          /\ v.lowest = low.lowest /\ v.highest = low.highest /\ v.sp = low.sp /\ v.top = low.top
          /\ v.painting = low.painting /\ v.pos = low.pos /\ v.deepest = low.deepest
          /\ v.collided /\ v.dirty = more \ {from}
      BY <1>2, <1>6, <1>8 DEF PaintRecords
    <2> QED
      BY <1>1, <1>2, <1>6, <2>1
  <1> QED
    BY <1>4, <1>7, <1>8

(* A push keeps the invariant, wherever it leaves the stack pointer.       *)
LEMMA PushKeeps ==
  ASSUME PaintInv, NEW from \in Nat, k.lowest <= from, from < k.sp,
         NEW v \in Paint!Written(k, from, k.sp - 1), NEW at \in Nat,
         k.lowest <= at, at <= k.sp, k.painting => at = k.sp, k' = [v EXCEPT !.sp = at]
  PROVE  PaintInv'
  <1>1. /\ v \in PaintRecords
        /\ v.start = k.start /\ v.size = k.size /\ v.arch = k.arch
        /\ v.lowest = k.lowest /\ v.highest = k.highest /\ v.sp = k.sp /\ v.top = k.top
        /\ v.painting = k.painting /\ v.pos = k.pos
        /\ v.deepest <= k.deepest /\ (Paint!Stays(from) => v.deepest <= from)
        /\ \A a \in v.dirty : a \in k.dirty \/ (from <= a /\ a < k.sp)
        /\ v.collided \/ ( /\ ~k.collided /\ k.dirty \subseteq v.dirty /\ from \in v.dirty
                           /\ v.settled = k.settled \/ (v.settled = from /\ Paint!Stays(from)) )
    BY WrittenFacts
  <1>2. /\ k' \in PaintRecords
        /\ k'.start = k.start /\ k'.size = k.size /\ k'.arch = k.arch
        /\ k'.lowest = k.lowest /\ k'.highest = k.highest /\ k'.sp = at /\ k'.top = k.top
        /\ k'.painting = k.painting /\ k'.pos = k.pos
        /\ k'.deepest = v.deepest /\ k'.settled = v.settled /\ k'.dirty = v.dirty /\ k'.collided = v.collided
    BY <1>1 DEF PaintRecords
  <1>3. Paint!PaintEnd \in Int /\ (k.painting => Paint!PaintEnd' = Paint!PaintEnd)
    BY <1>2, PaintFields DEF Paint!PaintEnd, Paint!STACK_PAINT_IGNORE
  <1>4. v.deepest \in Int
    BY <1>1 DEF PaintRecords
  <1>5. /\ k.lowest <= k.sp /\ k.sp <= k.top /\ k.top <= k.highest /\ k.highest <= k.start + k.size
        /\ k.top % 8 = 0 /\ \A a \in k.dirty : k.lowest <= a /\ a < k.highest
        /\ DirtyBounded /\ (k.collided \/ DirtyEnough)
        /\ (k.painting => k.deepest <= Paint!PaintEnd)
    BY DEF PaintInv
  <1>6. \A a \in k'.dirty : k'.lowest <= a /\ a < k'.highest
    <2> SUFFICES ASSUME NEW a \in v.dirty PROVE k.lowest <= a /\ a < k.highest
      BY <1>2
    <2>1. a \in Nat
      BY <1>1 DEF PaintRecords
    <2> QED
      BY <1>1, <1>5, <2>1, PaintFields
  <1>7. DirtyBounded'
    <2> SUFFICES ASSUME NEW a \in v.dirty
                 PROVE  v.deepest <= a \/ (k.painting /\ k.pos <= a /\ a < Paint!PaintEnd)
      BY <1>2, <1>3 DEF DirtyBounded
    <2>1. a \in Nat
      BY <1>1 DEF PaintRecords
    <2>2. CASE a \in k.dirty
      <3>1. k.deepest <= a \/ (k.painting /\ k.pos <= a /\ a < Paint!PaintEnd)
        BY <1>5, <2>2 DEF DirtyBounded
      <3> QED
        BY <1>1, <1>4, <2>1, <3>1, PaintFields
    <2>3. CASE from <= a
      <3>1. CASE Paint!Stays(from)
        BY <1>1, <1>4, <2>1, <2>3, <3>1
      <3>2. CASE ~Paint!Stays(from)
        <4>1. k.painting /\ k.pos <= a
          BY <2>1, <2>3, <3>2, PaintFields DEF Paint!Stays, Paint!Idle
        <4>2. v.deepest <= Paint!PaintEnd
          BY <1>1, <1>3, <1>4, <1>5, <4>1, PaintFields
        <4> QED
          BY <1>3, <1>4, <2>1, <4>1, <4>2
      <3> QED
        BY <3>1, <3>2
    <2> QED
      BY <1>1, <2>2, <2>3
  <1>8. k'.collided \/ DirtyEnough'
    <2> SUFFICES ASSUME ~v.collided PROVE DirtyEnough'
      BY <1>2
    <2>1. /\ ~k.collided /\ k.dirty \subseteq v.dirty /\ from \in v.dirty
          /\ v.settled = k.settled \/ (v.settled = from /\ Paint!Stays(from))
      BY <1>1
    <2>2. Paint!Stays(from) => ~k.painting \/ from < k.pos
      BY DEF Paint!Stays, Paint!Idle
    <2> QED
      BY <1>2, <1>5, <2>1, <2>2 DEF DirtyEnough
  <1>9. v.deepest <= k.highest
    BY <1>1, <1>4, PaintFields DEF PaintInv
  <1>10. k'.painting => k'.deepest <= Paint!PaintEnd'
    BY <1>1, <1>2, <1>3, <1>4, <1>5, PaintFields
  <1> QED
    BY <1>2, <1>5, <1>6, <1>7, <1>8, <1>9, <1>10, PaintFields DEF PaintInv

LEMMA CallKeeps ==
  ASSUME PaintInv, NEW size \in FrameSizes, Paint!Call(size) \/ Paint!Interrupt(size)
  PROVE  PaintInv'
  <1> DEFINE from == k.sp - size - Paint!STACK_PAINT_IGNORE
             at == k.sp - size
  <1>1. /\ size \in Nat \ {0} /\ k.sp \in Nat /\ k.lowest \in Nat /\ Paint!STACK_PAINT_IGNORE \in Nat
        /\ k.lowest <= k.sp /\ k.lowest <= from
    BY StacksAssumption, PaintFields DEF Paint!Call, Paint!Interrupt, PaintInv
  <1>2. from \in Nat /\ from < k.sp /\ at \in Nat /\ k.lowest <= at /\ at <= k.sp
    BY <1>1
  <1>3. CASE Paint!Call(size)
    <2>1. PICK v \in Paint!Written(k, from, k.sp - 1) : k' = [v EXCEPT !.sp = @ - size]
      BY <1>3 DEF Paint!Call
    <2>2. ~k.painting
      BY <1>3 DEF Paint!Call, Paint!Idle
    <2> HIDE DEF from
    <2>3. v \in PaintRecords /\ v.sp = k.sp
      BY <1>1, <1>2, WrittenFacts
    <2>4. k' = [v EXCEPT !.sp = at]
      BY <2>1, <2>3 DEF PaintRecords
    <2> HIDE DEF at
    <2> QED
      BY <1>1, <1>2, <2>2, <2>4, PushKeeps
  <1>4. CASE Paint!Interrupt(size)
    <2>1. PICK v \in Paint!Written(k, from, k.sp - 1) : k' = v
      BY <1>4 DEF Paint!Interrupt
    <2> HIDE DEF from
    <2>2. v \in PaintRecords /\ v.sp = k.sp
      BY <1>1, <1>2, WrittenFacts
    <2>3. k' = [v EXCEPT !.sp = k.sp]
      BY <2>1, <2>2 DEF PaintRecords
    <2> QED
      BY <1>1, <1>2, <2>3, PushKeeps
  <1> QED
    BY <1>3, <1>4

LEMMA ReturnKeeps ==
  ASSUME PaintInv, NEW size \in FrameSizes, Paint!Return(size)
  PROVE  PaintInv'
  <1> DEFINE at == k.sp + size
  <1>1. at \in Nat /\ k.sp <= at /\ at <= k.top /\ ~k.painting /\ k' = [k EXCEPT !.sp = at]
    BY StacksAssumption, PaintFields DEF Paint!Return, Paint!Idle
  <1> HIDE DEF at
  <1>2. /\ k' \in PaintRecords
        /\ k'.start = k.start /\ k'.size = k.size
        /\ k'.lowest = k.lowest /\ k'.highest = k.highest /\ k'.sp = at /\ k'.top = k.top
        /\ k'.painting = k.painting /\ k'.pos = k.pos
        /\ k'.deepest = k.deepest /\ k'.settled = k.settled /\ k'.dirty = k.dirty
        /\ k'.collided = k.collided
    BY <1>1 DEF PaintInv, PaintRecords
  <1>3. DirtyBounded' /\ (k'.collided \/ DirtyEnough')
    BY <1>1, <1>2 DEF PaintInv, DirtyBounded, DirtyEnough
  <1>4. k.lowest <= at
    BY <1>1, PaintFields DEF PaintInv
  <1> QED
    BY <1>1, <1>2, <1>3, <1>4 DEF PaintInv

LEMMA RepaintKeeps ==
  ASSUME PaintInv, Paint!Repaint
  PROVE  PaintInv'
  <1> DEFINE end == k.sp - Paint!STACK_PAINT_IGNORE
             hit == \E a \in k.sp .. (k.highest - 1) : a \notin k.dirty
  <1>1. k' = [k EXCEPT !.painting = TRUE, !.pos = k.lowest, !.deepest = end, !.settled = k.sp, !.collided = hit]
    BY DEF Paint!Repaint
  <1>2. end \in Int /\ hit \in BOOLEAN /\ Paint!PaintEnd = end
    BY PaintFields DEF Paint!PaintEnd
  <1>3. ~hit => k.sp .. (k.highest - 1) \subseteq k.dirty
    OBVIOUS
  <1> HIDE DEF end, hit
  <1>4. /\ k' \in PaintRecords
        /\ k'.arch = k.arch /\ k'.start = k.start /\ k'.size = k.size
        /\ k'.lowest = k.lowest /\ k'.highest = k.highest /\ k'.sp = k.sp /\ k'.top = k.top
        /\ k'.painting /\ k'.pos = k.lowest
        /\ k'.deepest = end /\ k'.settled = k.sp /\ k'.dirty = k.dirty /\ k'.collided = hit
    <2> DEFINE u == [k EXCEPT !.painting = TRUE, !.pos = k.lowest]
    <2>1. /\ u \in PaintRecords
          /\ u.arch = k.arch /\ u.start = k.start /\ u.size = k.size
          /\ u.lowest = k.lowest /\ u.highest = k.highest /\ u.sp = k.sp /\ u.top = k.top
          /\ u.painting /\ u.pos = k.lowest /\ u.dirty = k.dirty
      <3> DEFINE at == k.lowest
      <3>1. k \in PaintRecords /\ at \in Int
        BY PaintFields DEF PaintInv
      <3>2. u = [k EXCEPT !.painting = TRUE, !.pos = at]
        OBVIOUS
      <3> HIDE DEF at, u
      <3>3. /\ u \in PaintRecords
            /\ u.arch = k.arch /\ u.start = k.start /\ u.size = k.size
            /\ u.lowest = k.lowest /\ u.highest = k.highest /\ u.sp = k.sp /\ u.top = k.top
            /\ u.painting /\ u.pos = at /\ u.dirty = k.dirty
        BY <3>1, <3>2 DEF PaintRecords
      <3> QED
        BY <3>3 DEF at
    <2> DEFINE low == k.sp
    <2>2. k' = [u EXCEPT !.deepest = end, !.settled = low, !.collided = hit]
      BY <1>1 DEF PaintInv, PaintRecords
    <2>3. low \in Int
      BY PaintFields
    <2> HIDE DEF u, low
    <2>4. /\ k' \in PaintRecords
          /\ k'.arch = k.arch /\ k'.start = k.start /\ k'.size = k.size
          /\ k'.lowest = k.lowest /\ k'.highest = k.highest /\ k'.sp = k.sp /\ k'.top = k.top
          /\ k'.painting /\ k'.pos = k.lowest
          /\ k'.deepest = end /\ k'.settled = low /\ k'.dirty = k.dirty /\ k'.collided = hit
      BY <1>2, <2>1, <2>2, <2>3 DEF PaintRecords
    <2> QED
      BY <2>4 DEF low
  <1>5. Paint!PaintEnd' = end
    BY <1>2, <1>4 DEF Paint!PaintEnd, Paint!STACK_PAINT_IGNORE
  <1>6. DirtyBounded'
    <2> SUFFICES ASSUME NEW a \in k.dirty PROVE end <= a \/ (k.lowest <= a /\ a < end)
      BY <1>4, <1>5 DEF DirtyBounded
    <2> QED
      BY <1>2, PaintFields DEF PaintInv
  <1>7. k'.collided \/ DirtyEnough'
    BY <1>3, <1>4 DEF DirtyEnough
  <1>8. end <= k.highest
    BY PaintFields DEF end, PaintInv
  <1>9. k'.deepest <= Paint!PaintEnd'
    BY <1>2, <1>4, <1>5
  <1> QED
    BY <1>4, <1>6, <1>7, <1>8, <1>9 DEF PaintInv

LEMMA RepaintStepKeeps ==
  ASSUME PaintInv, Paint!RepaintStep
  PROVE  PaintInv'
  <1> DEFINE end == Paint!PaintEnd
             at == Paint!Min({k.pos + Grain, end})
             left == k.dirty \ (k.pos .. (at - 1))
  <1>1. k.painting /\ k.pos < end /\ k' = [k EXCEPT !.dirty = left, !.pos = at]
    BY DEF Paint!RepaintStep, Paint!Idle
  <1>2. end \in Int /\ end <= k.sp
    BY PaintFields DEF Paint!PaintEnd
  <1>3. at \in Int /\ k.pos < at /\ at <= end
    <2>1. k.pos + Grain \in Int /\ k.pos + Grain > k.pos
      BY StacksAssumption, PaintFields
    <2> DEFINE sum == k.pos + Grain
    <2> HIDE DEF sum, end
    <2>2. at = IF sum <= end THEN sum ELSE end
      BY <1>2, <2>1, MinOfTwo DEF sum
    <2> HIDE DEF at
    <2> QED
      BY <1>1, <1>2, <2>1, <2>2 DEF sum
  <1>4. left \in SUBSET Nat /\ \A a \in Nat : a \in left <=> a \in k.dirty /\ (a < k.pos \/ a >= at)
    <2> HIDE DEF at
    <2> QED
      BY <1>3, PaintFields
  <1> HIDE DEF end, at, left
  <1>5. /\ k' \in PaintRecords
        /\ k'.arch = k.arch /\ k'.start = k.start /\ k'.size = k.size
        /\ k'.lowest = k.lowest /\ k'.highest = k.highest /\ k'.sp = k.sp /\ k'.top = k.top
        /\ k'.painting = k.painting /\ k'.pos = at
        /\ k'.deepest = k.deepest /\ k'.settled = k.settled /\ k'.dirty = left
        /\ k'.collided = k.collided
    BY <1>1, <1>3, <1>4 DEF PaintInv, PaintRecords
  <1>6. Paint!PaintEnd' = end
    BY <1>5 DEF end, Paint!PaintEnd, Paint!STACK_PAINT_IGNORE
  <1>7. \A a \in left : a \in Nat /\ a \in k.dirty
    BY <1>4
  <1>8. DirtyBounded'
    <2> SUFFICES ASSUME NEW a \in left PROVE k.deepest <= a \/ (at <= a /\ a < end)
      BY <1>1, <1>5, <1>6 DEF DirtyBounded
    <2>1. k.deepest <= a \/ (k.pos <= a /\ a < end)
      BY <1>7 DEF PaintInv, DirtyBounded, end
    <2>2. a \in Nat /\ (a < k.pos \/ a >= at)
      BY <1>4, <1>7
    <2> QED
      BY <2>1, <2>2, <1>3, PaintFields
  <1>9. k'.collided \/ DirtyEnough'
    <2> SUFFICES ASSUME ~k.collided PROVE DirtyEnough'
      BY <1>5
    <2>1. DirtyEnough
      BY DEF PaintInv
    <2>2. ASSUME NEW a \in k.sp .. (k.highest - 1) PROVE a \in left
      <3>1. a \in k.dirty
        BY <1>1, <2>1 DEF DirtyEnough
      <3>2. a \in Nat /\ a >= at
        BY <1>2, <1>3, PaintFields
      <3> QED
        BY <1>4, <3>1, <3>2
    <2>3. k.settled = k.sp \/ (k.settled < at /\ k.settled \in left)
      <3>1. CASE k.settled < k.pos /\ k.settled \in k.dirty
        <4>1. k.settled \in Nat
          BY <3>1, PaintFields
        <4> QED
          BY <1>3, <1>4, <3>1, <4>1, PaintFields
      <3> QED
        BY <1>1, <2>1, <3>1 DEF DirtyEnough
    <2> QED
      BY <1>1, <1>5, <2>2, <2>3 DEF DirtyEnough
  <1>10. k'.deepest <= Paint!PaintEnd'
    BY <1>1, <1>5, <1>6 DEF PaintInv, end
  <1> QED
    BY <1>5, <1>7, <1>8, <1>9, <1>10 DEF PaintInv

LEMMA RepaintEndsKeeps ==
  ASSUME PaintInv, Paint!RepaintEnds
  PROVE  PaintInv'
  <1>1. k.painting /\ k.pos = Paint!PaintEnd /\ k' = [k EXCEPT !.painting = FALSE]
    BY DEF Paint!RepaintEnds, Paint!Idle
  <1>2. /\ k' \in PaintRecords
        /\ k'.start = k.start /\ k'.size = k.size
        /\ k'.lowest = k.lowest /\ k'.highest = k.highest /\ k'.sp = k.sp /\ k'.top = k.top
        /\ ~k'.painting
        /\ k'.deepest = k.deepest /\ k'.settled = k.settled /\ k'.dirty = k.dirty
        /\ k'.collided = k.collided
    BY <1>1 DEF PaintInv, PaintRecords
  <1>3. DirtyBounded'
    <2> SUFFICES ASSUME NEW a \in k.dirty PROVE k.deepest <= a
      BY <1>2 DEF DirtyBounded
    <2>1. k.deepest <= a \/ (Paint!PaintEnd <= a /\ a < Paint!PaintEnd)
      BY <1>1 DEF PaintInv, DirtyBounded
    <2>2. Paint!PaintEnd \in Int /\ a \in Nat
      BY PaintFields DEF Paint!PaintEnd
    <2> QED
      BY <2>1, <2>2
  <1>4. k'.collided \/ DirtyEnough'
    <2> SUFFICES ASSUME ~k.collided PROVE k.settled >= k.highest \/ k.settled \in k.dirty
      BY <1>2 DEF DirtyEnough
    <2>1. /\ k.sp .. (k.highest - 1) \subseteq k.dirty
          /\ k.settled = k.sp \/ k.settled \in k.dirty
      BY <1>1 DEF PaintInv, DirtyEnough
    <2> QED
      BY <2>1, PaintFields
  <1> QED
    BY <1>2, <1>3, <1>4 DEF PaintInv

LEMMA PaintStep ==
  ASSUME PaintInv, [Paint!Next]_k
  PROVE  PaintInv'
  <1>1. CASE \E size \in FrameSizes : Paint!Call(size) \/ Paint!Return(size) \/ Paint!Interrupt(size)
    BY <1>1, CallKeeps, ReturnKeeps
  <1>2. CASE Paint!Repaint
    BY <1>2, RepaintKeeps
  <1>3. CASE Paint!RepaintStep
    BY <1>3, RepaintStepKeeps
  <1>4. CASE Paint!RepaintEnds
    BY <1>4, RepaintEndsKeeps
  <1>5. CASE UNCHANGED k
    BY <1>5 DEF PaintInv, DirtyBounded, DirtyEnough, Paint!PaintEnd, Paint!STACK_PAINT_IGNORE
  <1> QED
    BY <1>1, <1>2, <1>3, <1>4, <1>5 DEF Paint!Next

LEMMA PaintSafe ==
  ASSUME PaintInv
  PROVE  Paint!PaintMeasures
  <1>1. /\ k.lowest <= k.sp /\ k.sp <= k.top /\ k.top <= k.highest /\ k.highest <= k.start + k.size
        /\ k.top % 8 = 0 /\ \A a \in k.dirty : k.lowest <= a /\ a < k.highest
        /\ DirtyBounded /\ (k.collided \/ DirtyEnough)
        /\ (k.painting => k.deepest <= Paint!PaintEnd)
    BY DEF PaintInv
  <1>2. ASSUME ~k.painting
        PROVE  /\ Paint!peak_usage <= k.highest - k.deepest
               /\ k.collided \/ Paint!peak_usage >= k.highest - k.settled
    <2>1. \A a \in k.dirty : k.deepest <= a
      BY <1>1, <1>2 DEF DirtyBounded
    <2>2. k.collided \/ k.settled >= k.highest \/ k.settled \in k.dirty
      BY <1>1, <1>2 DEF DirtyEnough
    <2>3. CASE k.dirty = {}
      <3>1. Paint!peak_usage = 0
        BY <2>3, PaintFields DEF Paint!peak_usage, Paint!free_min, Paint!size
      <3>2. k.deepest <= k.highest
        BY DEF PaintInv
      <3> QED
        BY <2>2, <2>3, <3>1, <3>2, PaintFields
    <2>4. CASE k.dirty # {}
      <3> DEFINE least == Paint!Min(k.dirty)
      <3>1. least \in k.dirty /\ \A a \in k.dirty : least <= a
        BY <2>4, PaintFields, MinOfDirty
      <3>2. Paint!peak_usage = k.highest - k.lowest - (least - k.lowest)
        BY <2>4 DEF Paint!peak_usage, Paint!free_min, Paint!size
      <3> HIDE DEF least
      <3>3. least \in Nat /\ Paint!peak_usage = k.highest - least
        BY <3>1, <3>2, PaintFields
      <3> QED
        BY <1>1, <2>1, <2>2, <3>1, <3>3, PaintFields
    <2> QED
      BY <2>3, <2>4
  <1> QED
    BY <1>1, <1>2 DEF Paint!PaintMeasures, Paint!Idle

(* The ring buffer holds what was put and not yet got, in order, up to its *)
(* capacity (put, get and set_backing_array of ringbuffer.rs).  peak_usage *)
(* counts nothing but what is in use or was written since repaint and not  *)
(* painted over, and misses none of it (stack.rs, setup_stack).            *)
THEOREM MemoryIsExact == PlatformSpec => []MemoryExact
  <1> DEFINE Inv == (part = "ring" => RingInv) /\ (part = "stack" => PaintInv)
  <1>1. PlatformInit => Inv
    BY RingInit, PaintInit DEF PlatformInit
  <1>2. Inv /\ [PlatformNext]_platformvars => Inv'
    <2> SUFFICES ASSUME Inv, [PlatformNext]_platformvars PROVE Inv'
      OBVIOUS
    <2>1. ASSUME part' = "ring" PROVE RingInv'
      <3>1. part = "ring" /\ [RingBuf!Next]_r
        BY <2>1 DEF PlatformNext, platformvars
      <3> QED
        BY <3>1, RingStep
    <2>2. ASSUME part' = "stack" PROVE PaintInv'
      <3>1. part = "stack" /\ [Paint!Next]_k
        BY <2>2 DEF PlatformNext, platformvars
      <3> QED
        BY <3>1, PaintStep
    <2> QED
      BY <2>1, <2>2
  <1>3. Inv => MemoryExact
    BY RingSafe, PaintSafe DEF MemoryExact
  <1> HIDE DEF Inv
  <1> QED
    BY <1>1, <1>2, <1>3, PTL DEF PlatformSpec

-----------------------------------------------------------------------------
(* The sensor drivers.                                                     *)

Sigs == {Sensor!None} \cup {Sensor!Waiting(i) : i \in Clients} \cup {Sensor!Ready(x) : x \in Sensor!Results}
Chans == {<<>>} \cup {<<x>> : x \in Sensor!Commands}
ClientPcs == {"idle", "get", "set", "send", "accept", "poll", "start", "stop"}
Runs == {"init", "wait", "bus", "config", "top", "idle", "open", "stream", "select"}

SensorRecords ==
  [drv : Drivers, users : SUBSET Clients, state : Sensor!States \cup Modes, sig : Sigs,
   woken : SUBSET Clients, request : BOOLEAN, chan : Chans, pc : [Clients -> ClientPcs], run : Runs,
   step : Nat, drdy : BOOLEAN, update : BOOLEAN, fix : BOOLEAN]

Heard(v) == \A i \in v.users : v.pc[i] = "poll" => i \in v.woken \/ v.sig = Sensor!Waiting(i)

Noticed(v) ==
  v.run = "select" /\ v.state \in {"Disabled", "Sleeping"} =>
    v.chan # <<>> \/ \E i \in v.users : v.pc[i] \in {"start", "stop"}

(* Only the GNSS driver runs what its modes send commands for.             *)
SensorInv ==
  /\ s \in SensorRecords /\ Heard(s) /\ Noticed(s)
  /\ s.drv \in Sensor!I2cDrivers => s.run \in {"init", "wait", "bus"}

LEMMA SigFacts ==
  /\ \A x : /\ Sensor!Waiting(x).tag = "Waiting" /\ Sensor!Waiting(x).by = x
            /\ Sensor!Ready(x).tag = "Ready"
  /\ Sensor!None.tag = "None"
  /\ \A g \in Sigs : g.tag = "Waiting" => g.by \in Clients /\ g = Sensor!Waiting(g.by)
  /\ Sensor!None \in Sigs /\ (\A i \in Clients : Sensor!Waiting(i) \in Sigs)
  /\ Sensor!Ready("Samples") \in Sigs /\ Sensor!Ready("SensorAccess") \in Sigs
  <1>1. /\ \A x : /\ Sensor!Waiting(x).tag = "Waiting" /\ Sensor!Waiting(x).by = x
                  /\ Sensor!Ready(x).tag = "Ready"
        /\ Sensor!None.tag = "None"
    BY DEF Sensor!None, Sensor!Waiting, Sensor!Ready
  <1>2. \A g : g \in Sigs <=> g = Sensor!None \/ (\E i \in Clients : g = Sensor!Waiting(i))
                              \/ g = Sensor!Ready("Samples") \/ g = Sensor!Ready("SensorAccess")
    BY Zenon DEF Sigs, Sensor!Results
  <1>3. \A g \in Sigs : g.tag = "Waiting" => g.by \in Clients /\ g = Sensor!Waiting(g.by)
    BY <1>1, <1>2
  <1> QED
    BY <1>1, <1>2, <1>3

LEMMA ChanFacts ==
  /\ <<>> \in Chans /\ \A x \in Sensor!Commands : <<x>> \in Chans /\ <<x>> # <<>>
  /\ {"Start", "Trigger", "Stop"} = Sensor!Commands
  BY DEF Chans, Sensor!Commands

LEMMA WaiterFacts ==
  ASSUME NEW v \in SensorRecords
  PROVE  /\ Sensor!Waiter(v) \subseteq Clients
         /\ \A i : v.sig = Sensor!Waiting(i) => Sensor!Waiter(v) = {i}
         /\ v.sig.tag # "Waiting" => Sensor!Waiter(v) = {}
  <1>1. v.sig \in Sigs
    BY DEF SensorRecords
  <1> QED
    BY <1>1, SigFacts DEF Sensor!Waiter

(* The fields that a signal may change.                                    *)
SameBut(v, u) ==
  /\ u.drv = v.drv /\ u.users = v.users /\ u.state = v.state /\ u.request = v.request
  /\ u.chan = v.chan /\ u.pc = v.pc /\ u.run = v.run /\ u.step = v.step /\ u.drdy = v.drdy
  /\ u.update = v.update /\ u.fix = v.fix

LEMMA SignalFacts ==
  ASSUME NEW v \in SensorRecords, Heard(v), NEW x \in {"Samples", "SensorAccess"}
  PROVE  LET u == Sensor!Signal(v, x) IN u \in SensorRecords /\ Heard(u) /\ SameBut(v, u)
  <1> DEFINE u == Sensor!Signal(v, x)
             g == Sensor!Ready(x)
             more == v.woken \cup Sensor!Waiter(v)
  <1>1. g \in Sigs
    BY SigFacts
  <1>2. more \in SUBSET Clients
    BY WaiterFacts DEF SensorRecords
  <1>3. u = [v EXCEPT !.sig = g, !.woken = more]
    BY DEF Sensor!Signal
  <1>4. \A i : v.sig = Sensor!Waiting(i) => i \in more
    BY WaiterFacts
  <1>5. v.woken \subseteq more
    OBVIOUS
  <1> HIDE DEF u, g, more
  <1>6. u \in SensorRecords /\ SameBut(v, u) /\ u.woken = more
    BY <1>1, <1>2, <1>3 DEF SensorRecords, SameBut
  <1>7. Heard(u)
    BY <1>4, <1>5, <1>6 DEF Heard, SameBut
  <1> QED
    BY <1>6, <1>7 DEF u

(* A task signals a reading and goes on.                                   *)
LEMMA SignalledFacts ==
  ASSUME NEW v \in SensorRecords, Heard(v), NEW x \in {"Samples", "SensorAccess"}, NEW q \in Runs
  PROVE  LET u == [Sensor!Signal(v, x) EXCEPT !.run = q]
         IN  u \in SensorRecords /\ u.drv = v.drv /\ u.run = q /\ Heard(u)
  <1> DEFINE y == Sensor!Signal(v, x)
             u == [y EXCEPT !.run = q]
  <1>1. y \in SensorRecords /\ Heard(y) /\ SameBut(v, y)
    BY SignalFacts
  <1> HIDE DEF y
  <1>2. /\ u \in SensorRecords /\ u.drv = y.drv /\ u.run = q
        /\ u.users = y.users /\ u.pc = y.pc /\ u.woken = y.woken /\ u.sig = y.sig
    BY <1>1 DEF SensorRecords
  <1> HIDE DEF u
  <1>3. Heard(u)
    BY <1>1, <1>2 DEF Heard
  <1> QED
    BY <1>1, <1>2, <1>3 DEF SameBut, u, y

LEMMA ClearFacts ==
  ASSUME NEW v \in SensorRecords, Heard(v)
  PROVE  LET u == Sensor!Clear(v) IN u \in SensorRecords /\ Heard(u) /\ SameBut(v, u)
  <1> DEFINE u == Sensor!Clear(v)
  <1>1. CASE v.sig.tag = "Waiting"
    BY <1>1 DEF Sensor!Clear, SameBut
  <1>2. CASE v.sig.tag # "Waiting"
    <2>1. u = [v EXCEPT !.sig = Sensor!None]
      BY <1>2 DEF Sensor!Clear
    <2> HIDE DEF u
    <2>2. u \in SensorRecords /\ SameBut(v, u) /\ u.woken = v.woken
      BY <2>1, SigFacts DEF SensorRecords, SameBut
    <2>3. \A i : v.sig # Sensor!Waiting(i)
      BY <1>2, SigFacts
    <2>4. Heard(u)
      BY <2>2, <2>3 DEF Heard, SameBut
    <2> QED
      BY <2>2, <2>4 DEF u
  <1> QED
    BY <1>1, <1>2

LEMMA GotoFacts ==
  ASSUME NEW v \in SensorRecords, NEW i \in Clients, NEW q \in ClientPcs
  PROVE  LET u == Sensor!Goto(v, i, q)
         IN  /\ u \in SensorRecords
             /\ u.drv = v.drv /\ u.users = v.users /\ u.state = v.state /\ u.chan = v.chan
             /\ u.run = v.run /\ u.sig = v.sig /\ u.woken = v.woken
             /\ \A j \in Clients : u.pc[j] = IF j = i THEN q ELSE v.pc[j]
             /\ Heard(v) /\ (q = "poll" => i \in v.woken) => Heard(u)
  <1> DEFINE u == Sensor!Goto(v, i, q)
             f == [v.pc EXCEPT ![i] = q]
  <1>1. v.pc \in [Clients -> ClientPcs] /\ v.users \subseteq Clients
    BY DEF SensorRecords
  <1>2. f \in [Clients -> ClientPcs] /\ \A j \in Clients : f[j] = IF j = i THEN q ELSE v.pc[j]
    BY <1>1
  <1>3. u = [v EXCEPT !.pc = f]
    BY DEF Sensor!Goto
  <1> HIDE DEF u, f
  <1>4. /\ u \in SensorRecords
        /\ u.drv = v.drv /\ u.users = v.users /\ u.state = v.state /\ u.chan = v.chan
        /\ u.run = v.run /\ u.sig = v.sig /\ u.woken = v.woken /\ u.pc = f
    BY <1>2, <1>3 DEF SensorRecords
  <1>5. ASSUME Heard(v), q = "poll" => i \in v.woken PROVE Heard(u)
    <2> SUFFICES ASSUME NEW j \in v.users, f[j] = "poll" PROVE j \in v.woken \/ v.sig = Sensor!Waiting(j)
      BY <1>4 DEF Heard
    <2> QED
      BY <1>1, <1>2, <1>5 DEF Heard
  <1> QED
    BY <1>2, <1>4, <1>5 DEF u

(* A step of a client that leaves the signal, or uses it as it should.     *)
LEMMA ClientKeeps ==
  ASSUME SensorInv, NEW i \in s.users, NEW v \in SensorRecords, NEW q \in ClientPcs,
         s' = Sensor!Goto(v, i, q), Heard(v), q = "poll" => i \in v.woken,
         v.drv = s.drv, v.users = s.users, v.run = s.run, v.pc = s.pc,
         \/ v.state = s.state /\ v.chan = s.chan /\ s.pc[i] \notin {"start", "stop"}
         \/ v.state \notin {"Disabled", "Sleeping"} \/ q = "stop" \/ v.chan # <<>>
         \/ s.drv \in Sensor!I2cDrivers
  PROVE  SensorInv'
  <1>1. i \in Clients /\ s.users \subseteq Clients
    BY DEF SensorInv, SensorRecords
  <1>2. /\ s' \in SensorRecords
        /\ s'.drv = s.drv /\ s'.users = s.users /\ s'.state = v.state /\ s'.chan = v.chan
        /\ s'.run = s.run /\ Heard(s')
        /\ \A j \in Clients : s'.pc[j] = IF j = i THEN q ELSE s.pc[j]
    BY <1>1, GotoFacts
  <1>3. s'.drv \in Sensor!I2cDrivers => s'.run \in {"init", "wait", "bus"}
    BY <1>2 DEF SensorInv
  <1>4. Noticed(s')
    <2> SUFFICES ASSUME s.run = "select", v.state \in {"Disabled", "Sleeping"}, v.chan = <<>>
                 PROVE  \E j \in s.users : s'.pc[j] \in {"start", "stop"}
      BY <1>2 DEF Noticed
    <2>1. s.drv \notin Sensor!I2cDrivers
      BY DEF SensorInv
    <2>2. CASE q = "stop"
      BY <1>1, <1>2, <2>2
    <2>3. CASE v.state = s.state /\ v.chan = s.chan /\ s.pc[i] \notin {"start", "stop"}
      <3>1. PICK j \in s.users : s.pc[j] \in {"start", "stop"}
        BY <2>3 DEF SensorInv, Noticed
      <3>2. j # i /\ j \in Clients
        BY <1>1, <2>3, <3>1
      <3> QED
        BY <1>2, <3>1, <3>2
    <2> QED
      BY <2>1, <2>2, <2>3
  <1> QED
    BY <1>2, <1>3, <1>4 DEF SensorInv

LEMMA SentFacts ==
  ASSUME NEW v \in SensorRecords, NEW x \in Sensor!Commands
  PROVE  LET u == Sensor!TrySend(v, x)
         IN  /\ u \in SensorRecords /\ u.drv = v.drv /\ u.users = v.users /\ u.run = v.run
             /\ u.pc = v.pc /\ u.chan # <<>> /\ (Heard(v) => Heard(u))
  <1> DEFINE u == Sensor!TrySend(v, x)
  <1>1. CASE v.chan = <<>>
    <2> DEFINE one == <<x>>
    <2>1. u = [v EXCEPT !.chan = one] /\ one \in Chans /\ one # <<>>
      BY <1>1, ChanFacts DEF Sensor!TrySend
    <2> HIDE DEF u, one
    <2>2. /\ u \in SensorRecords /\ u.drv = v.drv /\ u.users = v.users /\ u.run = v.run
          /\ u.pc = v.pc /\ u.chan = one /\ u.sig = v.sig /\ u.woken = v.woken
      BY <2>1 DEF SensorRecords
    <2>3. Heard(v) => Heard(u)
      BY <2>2 DEF Heard
    <2> QED
      BY <2>1, <2>2, <2>3 DEF u
  <1>2. CASE v.chan # <<>>
    BY <1>2 DEF Sensor!TrySend
  <1> QED
    BY <1>1, <1>2

(* A client that waited no longer does; v has taken the reading for it, or *)
(* nothing.                                                                *)
LEMMA LeaveKeepsHeard ==
  ASSUME SensorInv, NEW i \in s.users, s.pc[i] = "poll", NEW g \in Sigs,
         g = s.sig \/ (\A j : s.sig # Sensor!Waiting(j)),
         s' = Sensor!Goto([s EXCEPT !.sig = g, !.woken = @ \ {i}], i, "idle")
  PROVE  SensorInv'
  <1> DEFINE less == s.woken \ {i}
             v == [s EXCEPT !.sig = g, !.woken = less]
  <1>1. s \in SensorRecords /\ Heard(s) /\ less \in SUBSET Clients /\ s.users \subseteq Clients
    BY DEF SensorInv, SensorRecords
  <1>2. s' = Sensor!Goto(v, i, "idle") /\ "idle" \in ClientPcs
    BY <1>1 DEF SensorRecords, ClientPcs
  <1> HIDE DEF less
  <1>3. /\ v \in SensorRecords /\ v.drv = s.drv /\ v.users = s.users /\ v.state = s.state
        /\ v.chan = s.chan /\ v.run = s.run /\ v.sig = g /\ v.woken = less /\ v.pc = s.pc
    BY <1>1 DEF SensorRecords
  <1> HIDE DEF v
  <1>4. /\ s' \in SensorRecords
        /\ s'.drv = s.drv /\ s'.users = s.users /\ s'.state = s.state /\ s'.chan = s.chan
        /\ s'.run = s.run /\ s'.sig = g /\ s'.woken = less
        /\ \A j \in Clients : s'.pc[j] = IF j = i THEN "idle" ELSE s.pc[j]
    BY <1>1, <1>2, <1>3, GotoFacts
  <1>5. Heard(s')
    <2> SUFFICES ASSUME NEW j \in s.users, s'.pc[j] = "poll" PROVE j \in less \/ g = Sensor!Waiting(j)
      BY <1>4 DEF Heard
    <2>1. j # i /\ s.pc[j] = "poll"
      BY <1>1, <1>4
    <2>2. j \in s.woken \/ s.sig = Sensor!Waiting(j)
      BY <1>1, <2>1 DEF Heard
    <2> QED
      BY <2>1, <2>2 DEF less
  <1>6. Noticed(s')
    <2> SUFFICES ASSUME s.run = "select", s.state \in {"Disabled", "Sleeping"}, s.chan = <<>>
                 PROVE  \E j \in s.users : s'.pc[j] \in {"start", "stop"}
      BY <1>4 DEF Noticed
    <2>1. PICK j \in s.users : s.pc[j] \in {"start", "stop"}
      BY DEF SensorInv, Noticed
    <2> QED
      BY <1>1, <1>4, <2>1
  <1> QED
    BY <1>4, <1>5, <1>6 DEF SensorInv

LEMMA SendKeeps ==
  ASSUME SensorInv, NEW i \in s.users, NEW x \in Sensor!Commands,
         s' = Sensor!Goto(Sensor!TrySend(s, x), i, "idle")
  PROVE  SensorInv'
  <1> DEFINE v == Sensor!TrySend(s, x)
  <1>1. /\ v \in SensorRecords /\ v.drv = s.drv /\ v.users = s.users /\ v.run = s.run
        /\ v.pc = s.pc /\ v.chan # <<>> /\ Heard(v)
    BY SentFacts DEF SensorInv
  <1>2. "idle" \in ClientPcs
    BY DEF ClientPcs
  <1> HIDE DEF v
  <1>3. s' = Sensor!Goto(v, i, "idle")
    BY DEF v
  <1> QED
    BY <1>1, <1>2, <1>3, ClientKeeps

(* trigger_measurement                                                     *)
LEMMA TriggerKeeps ==
  ASSUME SensorInv, NEW i \in Clients,
         Sensor!TriggerClear(i) \/ Sensor!TriggerGet(i) \/ Sensor!TriggerSet(i) \/ Sensor!TriggerSend(i)
  PROVE  SensorInv'
  <1>1. s \in SensorRecords /\ Heard(s)
    BY DEF SensorInv
  <1>2. i \in s.users
    BY DEF Sensor!TriggerClear, Sensor!TriggerGet, Sensor!TriggerSet, Sensor!TriggerSend, Sensor!At
  <1>3. {"idle", "get", "set", "send", "accept", "poll", "start", "stop"} \subseteq ClientPcs
    BY DEF ClientPcs
  <1>4. CASE Sensor!TriggerClear(i)
    <2> DEFINE v == Sensor!Clear(s)
    <2>1. v \in SensorRecords /\ Heard(v) /\ SameBut(s, v)
      BY <1>1, ClearFacts
    <2>2. s' = Sensor!Goto(v, i, "get") /\ s.pc[i] = "idle"
      BY <1>4 DEF Sensor!TriggerClear, Sensor!At
    <2> HIDE DEF v
    <2> QED
      BY <1>2, <1>3, <2>1, <2>2, ClientKeeps DEF SameBut
  <1>5. CASE Sensor!TriggerGet(i)
    <2>1. PICK q \in {"set", "send", "idle"} : s' = Sensor!Goto(s, i, q)
      BY <1>5 DEF Sensor!TriggerGet
    <2>2. s.pc[i] = "get" /\ q \in ClientPcs /\ q # "poll"
      BY <1>3, <1>5 DEF Sensor!TriggerGet, Sensor!At
    <2> QED
      BY <1>1, <1>2, <2>1, <2>2, ClientKeeps
  <1>6. CASE Sensor!TriggerSet(i)
    <2> DEFINE v == [s EXCEPT !.state = "Measuring"]
    <2>1. /\ v \in SensorRecords /\ v.state = "Measuring" /\ v.sig = s.sig /\ v.woken = s.woken
          /\ v.drv = s.drv /\ v.users = s.users /\ v.run = s.run /\ v.pc = s.pc
      BY <1>1 DEF SensorRecords, Sensor!States
    <2>2. s' = Sensor!Goto(v, i, "send")
      BY <1>6 DEF Sensor!TriggerSet
    <2> HIDE DEF v
    <2>3. Heard(v)
      BY <1>1, <2>1 DEF Heard
    <2> QED
      BY <1>2, <1>3, <2>1, <2>2, <2>3, ClientKeeps
  <1>7. CASE Sensor!TriggerSend(i)
    <2>1. CASE Sensor!IsI2c
      <3> DEFINE v == [s EXCEPT !.request = TRUE]
      <3>1. /\ v \in SensorRecords /\ v.state = s.state /\ v.sig = s.sig /\ v.woken = s.woken
            /\ v.drv = s.drv /\ v.users = s.users /\ v.run = s.run /\ v.pc = s.pc /\ v.chan = s.chan
        BY <1>1 DEF SensorRecords
      <3>2. s' = Sensor!Goto(v, i, "idle") /\ s.pc[i] = "send"
        BY <1>7, <2>1 DEF Sensor!TriggerSend, Sensor!At
      <3> HIDE DEF v
      <3>3. Heard(v)
        BY <1>1, <3>1 DEF Heard
      <3> QED
        BY <1>2, <1>3, <3>1, <3>2, <3>3, ClientKeeps
    <2>2. CASE ~Sensor!IsI2c
      <3>1. s' = Sensor!Goto(Sensor!TrySend(s, "Trigger"), i, "idle")
        BY <1>7, <2>2 DEF Sensor!TriggerSend
      <3>2. "Trigger" \in Sensor!Commands
        BY DEF Sensor!Commands
      <3> QED
        BY <1>2, <3>1, <3>2, SendKeeps
    <2> QED
      BY <2>1, <2>2
  <1> QED
    BY <1>4, <1>5, <1>6, <1>7

LEMMA WaitKeepsHeard ==
  ASSUME SensorInv, NEW i \in Clients, Sensor!WaitGet(i) \/ Sensor!WaitSet(i) \/ Sensor!DropWaiter(i)
  PROVE  SensorInv'
  <1>1. s \in SensorRecords /\ Heard(s)
    BY DEF SensorInv
  <1>2. i \in s.users
    BY DEF Sensor!WaitGet, Sensor!WaitSet, Sensor!DropWaiter, Sensor!At
  <1>3. {"idle", "get", "set", "send", "accept", "poll", "start", "stop"} \subseteq ClientPcs
    BY DEF ClientPcs
  <1>4. CASE Sensor!WaitGet(i)
    <2>1. s' = Sensor!Goto(s, i, "accept") /\ s.pc[i] = "idle"
      BY <1>4 DEF Sensor!WaitGet, Sensor!At
    <2> QED
      BY <1>1, <1>2, <1>3, <2>1, ClientKeeps
  <1>5. CASE Sensor!WaitSet(i)
    <2> DEFINE more == s.woken \cup {i}
               v == [s EXCEPT !.state = "Enabled", !.woken = more]
    <2>1. more \in SUBSET Clients /\ i \in more /\ s.woken \subseteq more
      BY <1>1 DEF SensorRecords
    <2>2. s' = Sensor!Goto(v, i, "poll")
      BY <1>5 DEF Sensor!WaitSet
    <2> HIDE DEF more
    <2>3. /\ v \in SensorRecords /\ v.state = "Enabled" /\ v.sig = s.sig /\ v.woken = more
          /\ v.drv = s.drv /\ v.users = s.users /\ v.run = s.run /\ v.pc = s.pc
      BY <1>1, <2>1 DEF SensorRecords, Sensor!States
    <2> HIDE DEF v
    <2>4. Heard(v)
      BY <1>1, <2>1, <2>3 DEF Heard
    <2> QED
      BY <1>2, <1>3, <2>1, <2>2, <2>3, <2>4, ClientKeeps
  <1>6. CASE Sensor!DropWaiter(i)
    <2> DEFINE g == s.sig
    <2>1. s' = Sensor!Goto([s EXCEPT !.sig = g, !.woken = @ \ {i}], i, "idle")
      <3> DEFINE less == s.woken \ {i}
      <3>1. [s EXCEPT !.woken = less] = [s EXCEPT !.sig = g, !.woken = less]
        <4> HIDE DEF less
        <4> QED
          BY <1>1 DEF SensorRecords
      <3> QED
        BY <1>1, <1>6, <3>1 DEF Sensor!DropWaiter, SensorRecords
    <2>2. s.pc[i] = "poll" /\ g \in Sigs
      BY <1>1, <1>6 DEF Sensor!DropWaiter, Sensor!At, SensorRecords
    <2> QED
      BY <1>2, <2>1, <2>2, LeaveKeepsHeard
  <1> QED
    BY <1>4, <1>5, <1>6

LEMMA PollKeeps ==
  ASSUME SensorInv, NEW i \in Clients, Sensor!Poll(i)
  PROVE  SensorInv'
  <1>1. s \in SensorRecords /\ Heard(s) /\ i \in s.users /\ s.pc[i] = "poll"
    BY DEF SensorInv, Sensor!Poll, Sensor!At
  <1>2. CASE s.sig.tag = "Ready"
    <2>1. s' = Sensor!Goto([s EXCEPT !.sig = Sensor!None, !.woken = @ \ {i}], i, "idle")
      BY <1>2 DEF Sensor!Poll
    <2>2. Sensor!None \in Sigs /\ \A j : s.sig # Sensor!Waiting(j)
      BY <1>2, SigFacts
    <2> QED
      BY <1>1, <2>1, <2>2, LeaveKeepsHeard
  <1>3. CASE s.sig.tag # "Ready"
    <2> DEFINE others == (s.woken \ {i}) \cup (Sensor!Waiter(s) \ {i})
               g == Sensor!Waiting(i)
    <2>1. s' = [s EXCEPT !.sig = g, !.woken = others]
      BY <1>3 DEF Sensor!Poll, Sensor!Enroll
    <2>2. others \in SUBSET Clients /\ g \in Sigs
      BY <1>1, WaiterFacts, SigFacts DEF SensorRecords
    <2>3. \A j : j # i /\ (j \in s.woken \/ s.sig = Sensor!Waiting(j)) => j \in others
      BY <1>1, WaiterFacts
    <2> HIDE DEF others, g
    <2>4. /\ s' \in SensorRecords /\ s'.drv = s.drv /\ s'.users = s.users /\ s'.state = s.state
          /\ s'.chan = s.chan /\ s'.run = s.run /\ s'.sig = g /\ s'.woken = others /\ s'.pc = s.pc
      BY <1>1, <2>1, <2>2 DEF SensorRecords
    <2>5. Heard(s')
      BY <1>1, <2>3, <2>4 DEF Heard, g
    <2>6. Noticed(s')
      BY <2>4 DEF SensorInv, Noticed
    <2> QED
      BY <2>4, <2>5, <2>6 DEF SensorInv
  <1> QED
    BY <1>2, <1>3

(* set_mode                                                                *)
LEMMA ModeKeeps ==
  ASSUME SensorInv, NEW i \in Clients, (\E mode \in Modes : Sensor!SetMode(i, mode)) \/ Sensor!SendMode(i)
  PROVE  SensorInv'
  <1>1. s \in SensorRecords /\ Heard(s)
    BY DEF SensorInv
  <1>2. i \in s.users
    BY DEF Sensor!SetMode, Sensor!SendMode, Sensor!At
  <1>3. ASSUME NEW mode \in Modes, Sensor!SetMode(i, mode) PROVE SensorInv'
    <2> DEFINE v == [s EXCEPT !.state = mode]
    <2>1. /\ v \in SensorRecords /\ v.state = mode /\ v.sig = s.sig /\ v.woken = s.woken
          /\ v.drv = s.drv /\ v.users = s.users /\ v.run = s.run /\ v.pc = s.pc
      BY <1>1 DEF SensorRecords
    <2>2. PICK q \in {"idle", "start", "stop"} :
            /\ s' = Sensor!Goto(v, i, q)
            /\ s.drv \in Sensor!I2cDrivers \/ mode = "Enabled" \/ q = "stop"
      BY <1>3 DEF Sensor!SetMode, Sensor!IsI2c
    <2> HIDE DEF v
    <2>3. Heard(v) /\ q \in ClientPcs /\ q # "poll"
      BY <1>1, <2>1 DEF Heard, ClientPcs
    <2> QED
      BY <1>2, <2>1, <2>2, <2>3, ClientKeeps
  <1>4. CASE Sensor!SendMode(i)
    <2>1. {"Start", "Stop"} \subseteq Sensor!Commands
      BY DEF Sensor!Commands
    <2> QED
      BY <1>2, <1>4, <2>1, SendKeeps DEF Sensor!SendMode
  <1> QED
    BY <1>3, <1>4

(* A step of the driver's task that leaves the signal alone.               *)
LEMMA QuietKeeps ==
  ASSUME SensorInv, s' \in SensorRecords, s'.drv = s.drv, s'.users = s.users, s'.sig = s.sig,
         s'.woken = s.woken, s'.pc = s.pc,
         s'.run # "select" \/ s'.state \in {"Enabled", "Measuring"},
         s.drv \in Sensor!I2cDrivers => s'.run \in {"init", "wait", "bus"}
  PROVE  SensorInv'
  BY DEF SensorInv, Heard, Noticed

(* run() of the I2C drivers, and the device.                               *)
LEMMA I2cKeeps ==
  ASSUME SensorInv, Sensor!I2cRun \/ Sensor!DataReady
  PROVE  SensorInv'
  <1>1. s \in SensorRecords /\ Heard(s) /\ s.step \in Nat /\ s.step + 1 \in Nat
    BY DEF SensorInv, SensorRecords
  <1>2. {"init", "wait", "bus"} \subseteq Runs /\ "Enabled" \in Sensor!States
    BY DEF Runs, Sensor!States
  <1>3. CASE Sensor!I2cInit
    <2> DEFINE one == [s EXCEPT !.step = @ + 1]
               two == [s EXCEPT !.run = "wait", !.state = "Enabled"]
    <2>1. s' = one \/ s' = two
      BY <1>3 DEF Sensor!I2cInit
    <2>2. s.run = "init"
      BY <1>3 DEF Sensor!I2cInit
    <2>3. CASE s' = one
      <3>1. /\ s' \in SensorRecords /\ s'.drv = s.drv /\ s'.users = s.users /\ s'.sig = s.sig
            /\ s'.woken = s.woken /\ s'.pc = s.pc /\ s'.run = s.run
        BY <1>1, <2>3 DEF SensorRecords
      <3> QED
        BY <2>2, <3>1, QuietKeeps
    <2>4. CASE s' = two
      <3>1. /\ s' \in SensorRecords /\ s'.drv = s.drv /\ s'.users = s.users /\ s'.sig = s.sig
            /\ s'.woken = s.woken /\ s'.pc = s.pc /\ s'.run = "wait"
        BY <1>1, <1>2, <2>4 DEF SensorRecords
      <3> QED
        BY <3>1, QuietKeeps
    <2> QED
      BY <2>1, <2>3, <2>4
  <1>4. CASE Sensor!I2cInitFails
    <2>1. s' = [s EXCEPT !.run = "wait"]
      BY <1>4 DEF Sensor!I2cInitFails
    <2>2. /\ s' \in SensorRecords /\ s'.drv = s.drv /\ s'.users = s.users /\ s'.sig = s.sig
          /\ s'.woken = s.woken /\ s'.pc = s.pc /\ s'.run = "wait"
      BY <1>1, <1>2, <2>1 DEF SensorRecords
    <2> QED
      BY <2>2, QuietKeeps
  <1>5. CASE Sensor!MeasureStart
    <2> DEFINE u == [s EXCEPT !.request = FALSE, !.run = "bus", !.step = 1]
    <2>1. /\ u \in SensorRecords /\ u.drv = s.drv /\ u.users = s.users /\ u.sig = s.sig
          /\ u.woken = s.woken /\ u.pc = s.pc /\ u.run = "bus"
      BY <1>1, <1>2 DEF SensorRecords
    <2>2. s' = [u EXCEPT !.drdy = FALSE]
      BY <1>1, <1>5 DEF Sensor!MeasureStart, SensorRecords
    <2> HIDE DEF u
    <2>3. /\ s' \in SensorRecords /\ s'.drv = s.drv /\ s'.users = s.users /\ s'.sig = s.sig
          /\ s'.woken = s.woken /\ s'.pc = s.pc /\ s'.run = "bus"
      BY <2>1, <2>2 DEF SensorRecords
    <2> QED
      BY <2>3, QuietKeeps
  <1>6. CASE Sensor!DataReady
    <2>1. s' = [s EXCEPT !.drdy = TRUE] /\ s.run = "bus"
      BY <1>6 DEF Sensor!DataReady
    <2>2. /\ s' \in SensorRecords /\ s'.drv = s.drv /\ s'.users = s.users /\ s'.sig = s.sig
          /\ s'.woken = s.woken /\ s'.pc = s.pc /\ s'.run = "bus"
      BY <1>1, <2>1 DEF SensorRecords
    <2> QED
      BY <2>2, QuietKeeps
  <1>7. ASSUME NEW x \in {"Samples", "SensorAccess"}, s.run = "bus",
               s' = [Sensor!Signal(s, x) EXCEPT !.run = "wait"]
        PROVE  SensorInv'
    <2>1. s' \in SensorRecords /\ s'.drv = s.drv /\ s'.run = "wait" /\ Heard(s')
      BY <1>1, <1>2, <1>7, SignalledFacts
    <2> QED
      BY <2>1 DEF SensorInv, Noticed
  <1>8. CASE Sensor!MeasureFails
    BY <1>7, <1>8 DEF Sensor!MeasureFails
  <1>9. CASE Sensor!MeasureStep
    <2> DEFINE one == [s EXCEPT !.step = @ + 1]
    <2>1. s.run = "bus" /\ (s' = one \/ s' = [Sensor!Signal(s, "Samples") EXCEPT !.run = "wait"])
      BY <1>9 DEF Sensor!MeasureStep
    <2>2. CASE s' = one
      <3>1. /\ s' \in SensorRecords /\ s'.drv = s.drv /\ s'.users = s.users /\ s'.sig = s.sig
            /\ s'.woken = s.woken /\ s'.pc = s.pc /\ s'.run = s.run
        BY <1>1, <2>2 DEF SensorRecords
      <3> QED
        BY <2>1, <3>1, QuietKeeps
    <2> QED
      BY <1>7, <2>1, <2>2
  <1> QED
    BY <1>3, <1>4, <1>5, <1>6, <1>8, <1>9 DEF Sensor!I2cRun

(* run() of the GNSS driver.                                               *)
LEMMA GnssKeeps ==
  ASSUME SensorInv, Sensor!GnssRun
  PROVE  SensorInv'
  <1>1. s \in SensorRecords /\ Heard(s)
    BY DEF SensorInv
  <1>2. Runs = {"init", "wait", "bus", "config", "top", "idle", "open", "stream", "select"}
        /\ "Enabled" \in Sensor!States
    BY DEF Runs, Sensor!States
  <1>3. s.drv \notin Sensor!I2cDrivers
    <2>1. Sensor!IsGnss \/ s.run \in {"config", "top", "idle", "open", "stream", "select"}
      BY DEF Sensor!GnssRun, Sensor!GnssInit, Sensor!GnssConfig, Sensor!GnssTop, Sensor!GnssStart,
             Sensor!GnssOpen, Sensor!GnssCheck, Sensor!GnssCommand, Sensor!GnssPosition, Sensor!GnssEnd
    <2> QED
      BY <2>1 DEF SensorInv, Sensor!IsGnss, Sensor!GnssDrivers, Sensor!I2cDrivers
  <1>4. ASSUME NEW v \in SensorRecords, NEW q \in Runs \ {"select"}, Heard(v), v.drv = s.drv,
               s' = [v EXCEPT !.run = q]
        PROVE  SensorInv'
    <2>1. /\ s' \in SensorRecords /\ s'.drv = v.drv /\ s'.users = v.users /\ s'.sig = v.sig
          /\ s'.woken = v.woken /\ s'.pc = v.pc /\ s'.run = q
      BY <1>4 DEF SensorRecords
    <2>2. Heard(s')
      BY <1>4, <2>1 DEF Heard
    <2> QED
      BY <1>3, <1>4, <2>1, <2>2 DEF SensorInv, Noticed
  <1>5. CASE Sensor!GnssInit
    <2> DEFINE v == [s EXCEPT !.state = "Enabled"]
    <2>1. /\ v \in SensorRecords /\ v.drv = s.drv /\ v.users = s.users /\ v.sig = s.sig
          /\ v.woken = s.woken /\ v.pc = s.pc
      BY <1>1, <1>2 DEF SensorRecords
    <2>2. s' = [v EXCEPT !.run = "config"]
      BY <1>1, <1>5 DEF Sensor!GnssInit, SensorRecords
    <2> HIDE DEF v
    <2>3. Heard(v)
      BY <1>1, <2>1 DEF Heard
    <2> QED
      BY <1>2, <1>4, <2>1, <2>2, <2>3
  <1>6. CASE Sensor!GnssConfig \/ Sensor!GnssTop
    <2>1. \E q \in {"top", "open", "idle"} : s' = [s EXCEPT !.run = q]
      BY <1>6 DEF Sensor!GnssConfig, Sensor!GnssTop
    <2> QED
      BY <1>1, <1>2, <1>4, <2>1
  <1>7. CASE Sensor!GnssCheck
    <2>1. CASE s.state \in {"Enabled", "Measuring"}
      <3>1. s' = [s EXCEPT !.run = "select"]
        BY <1>7, <2>1 DEF Sensor!GnssCheck
      <3>2. /\ s' \in SensorRecords /\ s'.drv = s.drv /\ s'.users = s.users /\ s'.sig = s.sig
            /\ s'.woken = s.woken /\ s'.pc = s.pc /\ s'.state = s.state
        BY <1>1, <1>2, <3>1 DEF SensorRecords
      <3> QED
        BY <1>3, <2>1, <3>2, QuietKeeps
    <2>2. CASE s.state \notin {"Enabled", "Measuring"}
      <3>1. s' = [s EXCEPT !.run = "top"]
        BY <1>7, <2>2 DEF Sensor!GnssCheck
      <3> QED
        BY <1>1, <1>2, <1>4, <3>1
    <2> QED
      BY <2>1, <2>2
  <1>8. /\ Sensor!Received(s) \in SensorRecords /\ Heard(Sensor!Received(s))
        /\ Sensor!Received(s).drv = s.drv
    <2> DEFINE v == Sensor!Received(s)
               none == <<>>
    <2>1. v = [s EXCEPT !.chan = none] /\ none \in Chans
      BY ChanFacts DEF Sensor!Received
    <2> HIDE DEF none, v
    <2>2. /\ v \in SensorRecords /\ v.drv = s.drv /\ v.users = s.users /\ v.sig = s.sig
          /\ v.woken = s.woken /\ v.pc = s.pc
      BY <1>1, <2>1 DEF SensorRecords
    <2>3. Heard(v)
      BY <1>1, <2>2 DEF Heard
    <2> QED
      BY <2>2, <2>3 DEF v
  <1>9. ASSUME NEW v \in SensorRecords, Heard(v), v.drv = s.drv, s' = Sensor!Streaming(v) PROVE SensorInv'
    <2> DEFINE u == [v EXCEPT !.update = FALSE, !.fix = FALSE]
    <2>1. /\ u \in SensorRecords /\ u.drv = v.drv /\ u.users = v.users /\ u.sig = v.sig
          /\ u.woken = v.woken /\ u.pc = v.pc
      BY DEF SensorRecords
    <2>2. s' = [u EXCEPT !.run = "stream"]
      BY <1>9 DEF Sensor!Streaming, SensorRecords
    <2> HIDE DEF u
    <2>3. Heard(u)
      BY <1>9, <2>1 DEF Heard
    <2> QED
      BY <1>2, <1>4, <1>9, <2>1, <2>2, <2>3
  <1>10. CASE Sensor!GnssStart
    <2>1. \E q \in {"open", "top"} : s' = [Sensor!Received(s) EXCEPT !.run = q]
      BY <1>10 DEF Sensor!GnssStart
    <2> QED
      BY <1>2, <1>4, <1>8, <2>1
  <1>11. CASE Sensor!GnssOpen
    <2>1. \/ s' = Sensor!Streaming(s) \/ s' = Sensor!Streaming(Sensor!Received(s))
          \/ s' = [Sensor!Received(s) EXCEPT !.run = "top"]
      BY <1>11 DEF Sensor!GnssOpen
    <2> QED
      BY <1>1, <1>2, <1>4, <1>8, <1>9, <2>1
  <1>12. CASE Sensor!GnssCommand
    <2> DEFINE y == Sensor!Received(s)
               v == [y EXCEPT !.update = TRUE]
    <2>1. \/ s' = [y EXCEPT !.run = "top"] \/ s' = [y EXCEPT !.run = "stream"]
          \/ s' = [y EXCEPT !.run = "stream", !.update = TRUE]
      BY <1>12 DEF Sensor!GnssCommand
    <2> HIDE DEF y
    <2>2. y \in SensorRecords /\ Heard(y) /\ y.drv = s.drv
      BY <1>8 DEF y
    <2>3. CASE s' = [y EXCEPT !.run = "stream", !.update = TRUE]
      <3>1. /\ v \in SensorRecords /\ v.drv = y.drv /\ v.users = y.users /\ v.sig = y.sig
            /\ v.woken = y.woken /\ v.pc = y.pc
        BY <2>2 DEF SensorRecords
      <3>2. s' = [v EXCEPT !.run = "stream"]
        BY <2>2, <2>3 DEF SensorRecords
      <3> HIDE DEF v
      <3>3. Heard(v)
        BY <2>2, <3>1 DEF Heard
      <3> QED
        BY <1>2, <1>4, <2>2, <3>1, <3>2, <3>3
    <2> QED
      BY <1>2, <1>4, <2>1, <2>2, <2>3
  <1>13. CASE Sensor!GnssPosition
    <2> DEFINE y == IF s.update THEN Sensor!Signal(s, "Samples") ELSE s
               v == [y EXCEPT !.update = FALSE, !.fix = TRUE]
    <2>1. s' = [y EXCEPT !.run = "stream", !.update = FALSE, !.fix = TRUE]
      BY <1>13 DEF Sensor!GnssPosition
    <2>2. y \in SensorRecords /\ Heard(y) /\ y.drv = s.drv
      BY <1>1, SignalFacts DEF SameBut
    <2> HIDE DEF y
    <2>3. /\ v \in SensorRecords /\ v.drv = y.drv /\ v.users = y.users /\ v.sig = y.sig
          /\ v.woken = y.woken /\ v.pc = y.pc
      BY <2>2 DEF SensorRecords
    <2>4. s' = [v EXCEPT !.run = "stream"]
      BY <2>1, <2>2 DEF SensorRecords
    <2> HIDE DEF v
    <2>5. Heard(v)
      BY <2>2, <2>3 DEF Heard
    <2> QED
      BY <1>2, <1>4, <2>2, <2>3, <2>4, <2>5
  <1>14. CASE Sensor!GnssEnd
    <2> DEFINE y == Sensor!Clear(s)
    <2>1. y \in SensorRecords /\ Heard(y) /\ y.drv = s.drv
      BY <1>1, ClearFacts DEF SameBut
    <2>2. \/ s' = [s EXCEPT !.run = "top"]
          \/ \E x \in {"Samples", "SensorAccess"} : s' = [Sensor!Signal(y, x) EXCEPT !.run = "top"]
      BY <1>14 DEF Sensor!GnssEnd
    <2> HIDE DEF y
    <2>3. ASSUME NEW x \in {"Samples", "SensorAccess"}, s' = [Sensor!Signal(y, x) EXCEPT !.run = "top"]
          PROVE  SensorInv'
      <3>1. Sensor!Signal(y, x) \in SensorRecords /\ Heard(Sensor!Signal(y, x)) /\ Sensor!Signal(y, x).drv = s.drv
        BY <2>1, SignalFacts DEF SameBut
      <3> QED
        BY <1>2, <1>4, <2>3, <3>1
    <2> QED
      BY <1>1, <1>2, <1>4, <2>2, <2>3
  <1> QED
    BY <1>5, <1>6, <1>7, <1>10, <1>11, <1>12, <1>13, <1>14 DEF Sensor!GnssRun

LEMMA SensorInit ==
  ASSUME Sensor!Init
  PROVE  SensorInv
  <1>1. PICK drv \in Drivers, users \in SUBSET Clients : s = Sensor!New(drv, users)
    BY DEF Sensor!Init
  <1> DEFINE f == [i \in Clients |-> "idle"]
             g == Sensor!None
             none == <<>>
  <1>2. /\ f \in [Clients -> ClientPcs] /\ \A i \in Clients : f[i] = "idle"
        /\ g \in Sigs /\ none \in Chans
    BY SigFacts, ChanFacts DEF ClientPcs
  <1>3. s = [drv |-> drv, users |-> users, state |-> "Uninitialized", sig |-> g, woken |-> {},
             request |-> FALSE, chan |-> none, pc |-> f, run |-> "init", step |-> 1, drdy |-> FALSE,
             update |-> FALSE, fix |-> FALSE]
    BY <1>1 DEF Sensor!New
  <1> HIDE DEF f, g, none
  <1>4. s \in SensorRecords
    BY <1>2, <1>3 DEF SensorRecords, Runs, Sensor!States
  <1> QED
    BY <1>2, <1>3, <1>4 DEF SensorInv, Heard, Noticed

LEMMA SensorStep ==
  ASSUME SensorInv, [Sensor!Next]_s
  PROVE  SensorInv'
  <1>1. CASE \E i \in Clients : Sensor!ClientStep(i)
    BY <1>1, TriggerKeeps, WaitKeepsHeard, PollKeeps, ModeKeeps DEF Sensor!ClientStep
  <1>2. CASE UNCHANGED s
    BY <1>2 DEF SensorInv, Heard, Noticed
  <1> QED
    BY <1>1, <1>2, I2cKeeps, GnssKeeps DEF Sensor!Next

(* A client that waits for a reading is woken or in the signal, and the    *)
(* GNSS driver's task has a command once its mode is Disabled or Sleeping, *)
(* for any number of clients that preempt each other (Signal::poll_wait    *)
(* and clear, set_mode and the try_send that may find the channel full).   *)
THEOREM SignalsAreHeard == PlatformSpec => []SignalsHeard
  <1> DEFINE Inv == part = "sensors" => SensorInv
  <1>1. PlatformInit => Inv
    BY SensorInit DEF PlatformInit
  <1>2. Inv /\ [PlatformNext]_platformvars => Inv'
    <2> SUFFICES ASSUME Inv, [PlatformNext]_platformvars, part' = "sensors" PROVE SensorInv'
      OBVIOUS
    <2>1. part = "sensors" /\ [Sensor!Next]_s
      BY DEF PlatformNext, platformvars
    <2> QED
      BY <2>1, SensorStep
  <1>3. Inv => SignalsHeard
    BY DEF SensorInv, Heard, Noticed, SignalsHeard, Sensor!WaiterHeard, Sensor!StopNoticed
  <1> HIDE DEF Inv
  <1> QED
    BY <1>1, <1>2, <1>3, PTL DEF PlatformSpec

-----------------------------------------------------------------------------
(* A boot.                                                                 *)

BootItems == {"marker", "credential"} \X Nat
Flashes == [1 .. Pages -> SUBSET BootItems]
EarlyPcs == {"startup", "spawner", "rng", "storage", "erase", "tasks"}
LatePcs == {"ble", "hooks", "net", "join", "done"}
TaskPcs == {"off", "start", "with", "network", "run", "insert", "announce"}
Globals == {"spawner", "rng", "storage", "ble", "net"}

BootRecords ==
  [flash : Flashes, pc : EarlyPcs \cup LatePcs \cup {"reset", "panic"}, page : Nat,
   ready : SUBSET Globals, task : [BootUp!Tasks -> TaskPcs],
   hook : [Hooks -> {"idle", "sent", "replied"}], exercised : SUBSET Hooks,
   configured : SUBSET Hooks, built : {BootUp!NotYet, Hooks}, thread : {"off", "wait", "run"},
   cred : Nat, fault : BOOLEAN, fresh : Nat, announced : SUBSET Nat, crashes : Nat]

Credential(f) == BootUp!Get(f, "credential")
Marked(f) == BootUp!Marker \in BootUp!Items(f)

(* There is one credential, the one that has been announced if one has; it *)
(* lasts while there is the marker, without which nothing is announced.    *)
IdentityOk(v) ==
  /\ \A x, y \in Credential(v.flash) : x = y
  /\ v.announced = {} \/ (Marked(v.flash) /\ v.announced = Credential(v.flash))
  /\ v.pc = "tasks" => Marked(v.flash)
  /\ v.pc \in {"erase", "reset"} => v.announced = {}
  /\ v.pc = "reset" => v.task["coap"] = "run"
  /\ v.pc \in EarlyPcs => v.task["coap"] = "off"
  /\ v.task["coap"] \in {"start", "insert", "announce"} => Marked(v.flash)
  /\ v.task["coap"] = "insert" => Credential(v.flash) = {}
  /\ v.task["coap"] = "announce" => v.cred \in Credential(v.flash)

(* What has been initialised follows from where init_task is.              *)
ReadyOk(v) ==
  /\ v.pc = "startup" \/ v.pc = "spawner" => v.ready = {}
  /\ v.pc = "rng" => v.ready = {"spawner"}
  /\ v.pc = "storage" => v.ready = {"spawner", "rng"}
  /\ v.pc \in {"erase", "tasks", "ble"} => v.ready = {"spawner", "rng", "storage"}
  /\ v.pc \in {"hooks", "net"} => v.ready = Globals \ {"net"}
  /\ v.pc \in {"join", "done", "reset"} => v.ready = Globals
  /\ v.thread = "run" => v.ready = Globals /\ v.pc \in {"done", "reset", "panic"}
  /\ ~v.fault

(* Every hook's closure runs once, and only for the builder it was sent.   *)
HooksOk(v) ==
  /\ v.pc \in EarlyPcs => v.exercised = {} /\ \A i \in Hooks : v.task[i] = "off"
  /\ \A i \in Hooks : v.task[i] = "start" => i \notin v.exercised
  /\ v.configured = {i \in Hooks : v.hook[i] = "replied"}

BootOk(v) == v \in BootRecords /\ IdentityOk(v) /\ ReadyOk(v) /\ HooksOk(v)

BootInv == BootOk(o)

LEMMA FlashFacts ==
  ASSUME NEW f \in Flashes
  PROVE  /\ \A x : x \in BootUp!Items(f) <=> \E q \in 1 .. Pages : x \in f[q]
         /\ BootUp!Items(f) \subseteq BootItems
         /\ \A x \in Nat : x \in Credential(f) <=> <<"credential", x>> \in BootUp!Items(f)
         /\ Credential(f) \subseteq Nat
         /\ BootUp!Marker \in BootItems /\ \A x \in Nat : <<"credential", x>> \in BootItems
  <1>1. \A x : x \in BootUp!Items(f) <=> \E q \in 1 .. Pages : x \in f[q]
    BY DEF BootUp!Items
  <1>2. BootUp!Items(f) \subseteq BootItems
    BY <1>1 DEF Flashes
  <1>3. \A x : x \in Credential(f) <=> \E y \in BootUp!Items(f) : y[1] = "credential" /\ y[2] = x
    BY Zenon DEF Credential, BootUp!Get
  <1>4. \A y \in BootItems : y = <<y[1], y[2]>> /\ y[2] \in Nat
    BY DEF BootItems
  <1>5. \A x : <<"credential", x>>[1] = "credential" /\ <<"credential", x>>[2] = x
    OBVIOUS
  <1>6. BootUp!Marker \in BootItems /\ \A x \in Nat : <<"credential", x>> \in BootItems
    BY DEF BootItems, BootUp!Marker
  <1>7. Credential(f) \subseteq Nat
    BY <1>2, <1>3, <1>4
  <1>8. \A x \in Nat : x \in Credential(f) <=> <<"credential", x>> \in BootUp!Items(f)
    <2> SUFFICES ASSUME NEW x \in Nat PROVE x \in Credential(f) <=> <<"credential", x>> \in BootUp!Items(f)
      OBVIOUS
    <2>1. ASSUME x \in Credential(f) PROVE <<"credential", x>> \in BootUp!Items(f)
      <3>1. PICK y \in BootUp!Items(f) : y[1] = "credential" /\ y[2] = x
        BY <1>3, <2>1
      <3>2. y = <<y[1], y[2]>>
        BY <1>2, <1>4
      <3> QED
        BY <3>1, <3>2
    <2>2. ASSUME <<"credential", x>> \in BootUp!Items(f) PROVE x \in Credential(f)
      BY <1>3, <1>5, <2>2
    <2> QED
      BY <2>1, <2>2
  <1> QED
    BY <1>1, <1>2, <1>6, <1>7, <1>8

(* Erasing a page takes items away.                                        *)
LEMMA EraseFacts ==
  ASSUME NEW f \in Flashes, NEW q
  PROVE  LET e == [f EXCEPT ![q] = {}]
         IN  /\ e \in Flashes /\ BootUp!Items(e) \subseteq BootUp!Items(f)
             /\ Credential(e) \subseteq Credential(f)
  <1> DEFINE e == [f EXCEPT ![q] = {}]
  <1>1. e \in Flashes /\ \A x \in 1 .. Pages : e[x] \subseteq f[x]
    BY DEF Flashes
  <1> HIDE DEF e
  <1>2. BootUp!Items(e) \subseteq BootUp!Items(f)
    BY <1>1, FlashFacts
  <1>3. Credential(e) \subseteq Credential(f)
    <2> SUFFICES ASSUME NEW x \in Credential(e) PROVE x \in Credential(f)
      OBVIOUS
    <2>1. x \in Nat
      BY <1>1, FlashFacts
    <2> QED
      BY <1>1, <1>2, <2>1, FlashFacts
  <1> QED
    BY <1>1, <1>2, <1>3 DEF e

(* Inserting an item replaces those of its key.                            *)
LEMMA InsertFacts ==
  ASSUME NEW f \in Flashes, NEW q \in 1 .. Pages, NEW item \in BootItems
  PROVE  LET e == BootUp!Insert(f, q, item)
         IN  /\ e \in Flashes
             /\ \A x : x \in BootUp!Items(e) <=> x = item \/ (x \in BootUp!Items(f) /\ x[1] # item[1])
  <1> DEFINE kept(j) == {x \in f[j] : x[1] # item[1]}
             e == BootUp!Insert(f, q, item)
  <1>1. e = [j \in 1 .. Pages |-> kept(j) \cup (IF j = q THEN {item} ELSE {})]
    BY DEF BootUp!Insert
  <1>2. \A j \in 1 .. Pages : kept(j) \subseteq BootItems /\ \A x : x \in kept(j) <=> x \in f[j] /\ x[1] # item[1]
    BY DEF Flashes
  <1> HIDE DEF e, kept
  <1>3. e \in Flashes
    BY <1>1, <1>2 DEF Flashes
  <1>4. \A j \in 1 .. Pages : \A x : x \in e[j] <=> (x \in f[j] /\ x[1] # item[1]) \/ (j = q /\ x = item)
    BY <1>1, <1>2
  <1>5. \A x : x \in BootUp!Items(e) <=> x = item \/ (x \in BootUp!Items(f) /\ x[1] # item[1])
    BY <1>3, <1>4, FlashFacts
  <1> QED
    BY <1>3, <1>5 DEF e

LEMMA MarkerInserted ==
  ASSUME NEW f \in Flashes, NEW q \in 1 .. Pages
  PROVE  LET e == BootUp!Insert(f, q, BootUp!Marker)
         IN  e \in Flashes /\ Marked(e) /\ Credential(e) = Credential(f)
  <1> DEFINE e == BootUp!Insert(f, q, BootUp!Marker)
  <1>1. BootUp!Marker \in BootItems /\ BootUp!Marker[1] = "marker"
    BY FlashFacts DEF BootUp!Marker
  <1>2. /\ e \in Flashes
        /\ \A x : x \in BootUp!Items(e) <=> x = BootUp!Marker \/ (x \in BootUp!Items(f) /\ x[1] # "marker")
    BY <1>1, InsertFacts
  <1> HIDE DEF e
  <1>3. \A x : <<"credential", x>>[1] # "marker" /\ <<"credential", x>> # BootUp!Marker
    BY DEF BootUp!Marker
  <1>4. \A x \in Nat : x \in Credential(e) <=> x \in Credential(f)
    BY <1>2, <1>3, FlashFacts
  <1>5. Credential(e) \subseteq Nat /\ Credential(f) \subseteq Nat
    BY <1>2, FlashFacts
  <1> QED
    BY <1>2, <1>4, <1>5 DEF e, Marked

LEMMA CredentialInserted ==
  ASSUME NEW f \in Flashes, NEW q \in 1 .. Pages, NEW z \in Nat
  PROVE  LET e == BootUp!Insert(f, q, <<"credential", z>>)
         IN  e \in Flashes /\ (Marked(f) => Marked(e)) /\ Credential(e) = {z}
  <1> DEFINE item == <<"credential", z>>
             e == BootUp!Insert(f, q, item)
  <1>1. item \in BootItems /\ item[1] = "credential"
    BY FlashFacts
  <1>2. BootUp!Marker[1] # "credential"
    BY DEF BootUp!Marker
  <1>3. \A x : <<"credential", x>>[1] = "credential" /\ (<<"credential", x>> = item <=> x = z)
    OBVIOUS
  <1> HIDE DEF item
  <1>4. /\ e \in Flashes
        /\ \A x : x \in BootUp!Items(e) <=> x = item \/ (x \in BootUp!Items(f) /\ x[1] # "credential")
    BY <1>1, InsertFacts
  <1> HIDE DEF e
  <1>5. \A x \in Nat : x \in Credential(e) <=> x = z
    BY <1>3, <1>4, FlashFacts
  <1>6. Credential(e) \subseteq Nat
    BY <1>4, FlashFacts
  <1> QED
    BY <1>2, <1>4, <1>5, <1>6 DEF e, item, Marked

LEMMA BootFields ==
  ASSUME BootInv
  PROVE  /\ o \in BootRecords /\ IdentityOk(o) /\ ReadyOk(o) /\ HooksOk(o)
         /\ o.flash \in Flashes /\ o.ready \in SUBSET Globals /\ o.announced \in SUBSET Nat
         /\ o.task \in [BootUp!Tasks -> TaskPcs] /\ o.hook \in [Hooks -> {"idle", "sent", "replied"}]
         /\ o.exercised \in SUBSET Hooks /\ o.configured \in SUBSET Hooks
         /\ o.page \in Nat /\ o.cred \in Nat /\ o.fresh \in Nat /\ o.crashes \in Nat
         /\ {"coap", "ble"} \subseteq BootUp!Tasks /\ Hooks \subseteq BootUp!Tasks
  BY DEF BootInv, BootOk, BootRecords, BootUp!Tasks

(* The steps of init_task that leave the storage and the hooks alone.      *)
LEMMA BootQuietKeeps ==
  ASSUME BootInv, NEW pc, NEW ready, NEW thread, o' \in BootRecords,
         o'.pc = pc, o'.ready = ready, o'.thread = thread, o'.flash = o.flash, o'.task = o.task,
         o'.hook = o.hook, o'.exercised = o.exercised, o'.configured = o.configured,
         o'.cred = o.cred, o'.announced = o.announced, ~o'.fault,
         pc \in EarlyPcs => o.pc \in EarlyPcs, pc = "tasks" => Marked(o.flash),
         pc = "erase" => o.announced = {}, pc # "reset", ReadyOk(o')
  PROVE  BootInv'
  <1>1. IdentityOk(o) /\ HooksOk(o)
    BY BootFields
  <1>2. IdentityOk(o')
    BY <1>1 DEF IdentityOk
  <1>3. HooksOk(o')
    BY <1>1 DEF HooksOk
  <1> QED
    BY <1>2, <1>3 DEF BootInv, BootOk

LEMMA StartupKeeps ==
  ASSUME BootInv, BootUp!Startup \/ BootUp!SetSpawner \/ BootUp!ConstructRng
  PROVE  BootInv'
  <1>1. o \in BootRecords /\ ReadyOk(o)
    BY BootFields
  <1>2. CASE BootUp!Startup
    <2>1. o' = [o EXCEPT !.pc = "spawner", !.thread = "wait"] /\ o.pc = "startup"
      BY <1>2 DEF BootUp!Startup
    <2>2. /\ o' \in BootRecords
          /\ o'.pc = "spawner" /\ o'.thread = "wait" /\ o'.ready = o.ready /\ o'.flash = o.flash
          /\ o'.task = o.task /\ o'.hook = o.hook /\ o'.exercised = o.exercised
          /\ o'.configured = o.configured /\ o'.cred = o.cred /\ o'.announced = o.announced
          /\ o'.fault = o.fault
      BY <1>1, <2>1 DEF BootRecords, EarlyPcs
    <2>3. ReadyOk(o')
      BY <1>1, <2>1, <2>2 DEF ReadyOk
    <2> QED
      BY <1>1, <2>1, <2>2, <2>3, BootQuietKeeps DEF ReadyOk, EarlyPcs
  <1>3. CASE BootUp!SetSpawner
    <2> DEFINE more == o.ready \cup {"spawner"}
    <2>1. o' = [o EXCEPT !.pc = "rng", !.ready = more] /\ o.pc = "spawner"
      BY <1>3 DEF BootUp!SetSpawner
    <2>2. more = {"spawner"} /\ more \in SUBSET Globals
      BY <1>1, <2>1 DEF ReadyOk, Globals
    <2> HIDE DEF more
    <2>3. /\ o' \in BootRecords
          /\ o'.pc = "rng" /\ o'.thread = o.thread /\ o'.ready = more /\ o'.flash = o.flash
          /\ o'.task = o.task /\ o'.hook = o.hook /\ o'.exercised = o.exercised
          /\ o'.configured = o.configured /\ o'.cred = o.cred /\ o'.announced = o.announced
          /\ o'.fault = o.fault
      BY <1>1, <2>1, <2>2 DEF BootRecords, EarlyPcs
    <2>4. ReadyOk(o')
      BY <1>1, <2>1, <2>2, <2>3 DEF ReadyOk
    <2> QED
      BY <1>1, <2>1, <2>3, <2>4, BootQuietKeeps DEF ReadyOk, EarlyPcs
  <1>4. CASE BootUp!ConstructRng
    <2> DEFINE more == o.ready \cup {"rng"}
    <2>1. o' = [o EXCEPT !.pc = "storage", !.ready = more] /\ o.pc = "rng"
      BY <1>4 DEF BootUp!ConstructRng
    <2>2. more = {"spawner", "rng"} /\ more \in SUBSET Globals
      BY <1>1, <2>1 DEF ReadyOk, Globals
    <2> HIDE DEF more
    <2>3. /\ o' \in BootRecords
          /\ o'.pc = "storage" /\ o'.thread = o.thread /\ o'.ready = more /\ o'.flash = o.flash
          /\ o'.task = o.task /\ o'.hook = o.hook /\ o'.exercised = o.exercised
          /\ o'.configured = o.configured /\ o'.cred = o.cred /\ o'.announced = o.announced
          /\ o'.fault = o.fault
      BY <1>1, <2>1, <2>2 DEF BootRecords, EarlyPcs
    <2>4. ReadyOk(o')
      BY <1>1, <2>1, <2>2, <2>3 DEF ReadyOk
    <2> QED
      BY <1>1, <2>1, <2>3, <2>4, BootQuietKeeps DEF ReadyOk, EarlyPcs
  <1> QED
    BY <1>2, <1>3, <1>4

(* storage::init: the flash is erased only without the marker.             *)
LEMMA ReadMarkerKeeps ==
  ASSUME ~MarkerReadFails, BootInv, BootUp!ReadMarker
  PROVE  BootInv'
  <1>1. o \in BootRecords /\ ReadyOk(o) /\ IdentityOk(o)
    BY BootFields
  <1> DEFINE more == o.ready \cup {"storage"}
             pc == IF Marked(o.flash) THEN "tasks" ELSE "erase"
  <1>2. o' = [o EXCEPT !.pc = pc, !.page = 1, !.ready = more] /\ o.pc = "storage"
    BY DEF BootUp!ReadMarker, Marked
  <1>3. more = {"spawner", "rng", "storage"} /\ more \in SUBSET Globals
    BY <1>1, <1>2 DEF ReadyOk, Globals
  <1>4. pc \in {"tasks", "erase"} /\ (pc = "tasks" => Marked(o.flash)) /\ (pc = "erase" => o.announced = {})
    BY <1>1 DEF IdentityOk
  <1> HIDE DEF more, pc
  <1>5. /\ o' \in BootRecords
        /\ o'.pc = pc /\ o'.thread = o.thread /\ o'.ready = more /\ o'.flash = o.flash
        /\ o'.task = o.task /\ o'.hook = o.hook /\ o'.exercised = o.exercised
        /\ o'.configured = o.configured /\ o'.cred = o.cred /\ o'.announced = o.announced
        /\ o'.fault = o.fault
    BY <1>1, <1>2, <1>3, <1>4 DEF BootRecords, EarlyPcs
  <1>6. ReadyOk(o')
    BY <1>1, <1>2, <1>3, <1>4, <1>5 DEF ReadyOk
  <1> QED
    BY <1>1, <1>2, <1>4, <1>5, <1>6, BootQuietKeeps DEF ReadyOk, EarlyPcs

(* erase_all and the marker that follows it.                               *)
LEMMA ErasingKeeps ==
  ASSUME BootInv, BootUp!ErasePage \/ BootUp!InsertMarker
  PROVE  BootInv'
  <1>1. o \in BootRecords /\ ReadyOk(o) /\ IdentityOk(o) /\ HooksOk(o) /\ o.flash \in Flashes
        /\ o.page \in Nat /\ o.page + 1 \in Nat /\ o.crashes \in Nat /\ o.crashes + 1 \in Nat
    BY BootFields
  <1>2. o.pc \in {"erase", "reset"} /\ o.announced = {}
        /\ o.task["coap"] \notin {"start", "insert", "announce"}
        /\ (o.pc = "reset" => o.task["coap"] = "run")
    <2>1. o.pc \in {"erase", "reset"}
      BY DEF BootUp!ErasePage, BootUp!InsertMarker
    <2> QED
      BY <1>1, <2>1 DEF IdentityOk, EarlyPcs
  <1>3. ASSUME NEW f \in Flashes, NEW pc \in {o.pc, "tasks", "done", "panic"},
               \A x, y \in Credential(f) : x = y, pc = "tasks" => Marked(f),
               pc = "tasks" => o.pc = "erase", pc = "done" => o.pc = "reset",
               o' \in BootRecords, o'.flash = f, o'.pc = pc, o'.ready = o.ready, o'.task = o.task,
               o'.hook = o.hook, o'.exercised = o.exercised, o'.configured = o.configured,
               o'.thread = o.thread, o'.cred = o.cred, o'.fault = o.fault, o'.announced = o.announced
        PROVE  BootInv'
    <2>1. IdentityOk(o')
      BY <1>1, <1>2, <1>3 DEF IdentityOk, EarlyPcs
    <2>2. ReadyOk(o')
      BY <1>1, <1>2, <1>3 DEF ReadyOk
    <2>3. HooksOk(o')
      BY <1>1, <1>2, <1>3 DEF HooksOk, EarlyPcs
    <2> QED
      BY <1>3, <2>1, <2>2, <2>3 DEF BootInv, BootOk
  <1>4. ASSUME o' = [o EXCEPT !.flash[o.page] = {}, !.page = @ + 1],
               BootUp!ErasePage
        PROVE  BootInv'
    <2> DEFINE f == [o.flash EXCEPT ![o.page] = {}]
               next == o.page + 1
    <2>1. o' = [o EXCEPT !.flash = f, !.page = next]
      BY <1>4
    <2>2. f \in Flashes /\ \A x, y \in Credential(f) : x = y
      BY <1>1, EraseFacts DEF IdentityOk
    <2>3. next \in Nat
      BY <1>1
    <2> HIDE DEF f, next
    <2>4. /\ o' \in BootRecords /\ o'.flash = f /\ o'.pc = o.pc /\ o'.ready = o.ready /\ o'.task = o.task
          /\ o'.hook = o.hook /\ o'.exercised = o.exercised /\ o'.configured = o.configured
          /\ o'.thread = o.thread /\ o'.cred = o.cred /\ o'.fault = o.fault /\ o'.announced = o.announced
      BY <1>1, <2>1, <2>2, <2>3 DEF BootRecords
    <2> QED
      BY <1>2, <1>3, <2>2, <2>4
  <1>5. ASSUME NEW q \in 1 .. Pages,
               o' = [o EXCEPT !.flash = BootUp!Insert(@, q, BootUp!Marker),
                              !.pc = IF o.pc = "erase" THEN "tasks" ELSE "done"]
        PROVE  BootInv'
    <2> DEFINE f == BootUp!Insert(o.flash, q, BootUp!Marker)
               pc == IF o.pc = "erase" THEN "tasks" ELSE "done"
    <2>1. o' = [o EXCEPT !.flash = f, !.pc = pc]
      BY <1>5
    <2>2. f \in Flashes /\ Marked(f) /\ \A x, y \in Credential(f) : x = y
      BY <1>1, MarkerInserted DEF IdentityOk
    <2>3. pc \in {"tasks", "done"} /\ (pc = "tasks" => o.pc = "erase") /\ (pc = "done" => o.pc = "reset")
      BY <1>2
    <2> HIDE DEF f, pc
    <2>4. /\ o' \in BootRecords /\ o'.flash = f /\ o'.pc = pc /\ o'.ready = o.ready /\ o'.task = o.task
          /\ o'.hook = o.hook /\ o'.exercised = o.exercised /\ o'.configured = o.configured
          /\ o'.thread = o.thread /\ o'.cred = o.cred /\ o'.fault = o.fault /\ o'.announced = o.announced
      BY <1>1, <2>1, <2>2, <2>3 DEF BootRecords, EarlyPcs, LatePcs
    <2> QED
      BY <1>3, <2>2, <2>3, <2>4
  <1>6. ASSUME NEW pc \in {"panic", "done"}, pc = "done" => o.pc = "reset",
               o' = [o EXCEPT !.pc = pc, !.crashes = @ + 1]
        PROVE  BootInv'
    <2> DEFINE next == o.crashes + 1
    <2>1. o' = [o EXCEPT !.pc = pc, !.crashes = next] /\ next \in Nat
      BY <1>1, <1>6
    <2> HIDE DEF next
    <2>2. /\ o' \in BootRecords /\ o'.flash = o.flash /\ o'.pc = pc /\ o'.ready = o.ready /\ o'.task = o.task
          /\ o'.hook = o.hook /\ o'.exercised = o.exercised /\ o'.configured = o.configured
          /\ o'.thread = o.thread /\ o'.cred = o.cred /\ o'.fault = o.fault /\ o'.announced = o.announced
      BY <1>1, <1>6, <2>1 DEF BootRecords, LatePcs
    <2> QED
      BY <1>1, <1>3, <1>6, <2>2 DEF IdentityOk
  <1> QED
    BY <1>4, <1>5, <1>6 DEF BootUp!ErasePage, BootUp!InsertMarker, BootUp!EraseFails, BootUp!Panic

(* The rest of init_task.                                                  *)
LEMMA StartTasksKeeps ==
  ASSUME BootInv, BootUp!StartTasks
  PROVE  BootInv'
  <1> DEFINE f == [i \in BootUp!Tasks |-> "start"]
  <1>1. o \in BootRecords /\ ReadyOk(o) /\ IdentityOk(o) /\ HooksOk(o)
        /\ {"coap", "ble"} \subseteq BootUp!Tasks /\ Hooks \subseteq BootUp!Tasks
    BY BootFields
  <1>2. o' = [o EXCEPT !.pc = "ble", !.task = f] /\ o.pc = "tasks"
    BY DEF BootUp!StartTasks
  <1>3. f \in [BootUp!Tasks -> TaskPcs] /\ f["coap"] = "start"
    BY <1>1 DEF TaskPcs
  <1> HIDE DEF f
  <1>4. /\ o' \in BootRecords /\ o'.pc = "ble" /\ o'.task = f /\ o'.flash = o.flash /\ o'.ready = o.ready
        /\ o'.hook = o.hook /\ o'.exercised = o.exercised /\ o'.configured = o.configured
        /\ o'.thread = o.thread /\ o'.cred = o.cred /\ o'.fault = o.fault /\ o'.announced = o.announced
    BY <1>1, <1>2, <1>3 DEF BootRecords, LatePcs
  <1>5. IdentityOk(o')
    BY <1>1, <1>2, <1>3, <1>4 DEF IdentityOk, EarlyPcs
  <1>6. ReadyOk(o')
    BY <1>1, <1>2, <1>4 DEF ReadyOk
  <1>7. HooksOk(o')
    BY <1>1, <1>2, <1>4 DEF HooksOk, EarlyPcs
  <1> QED
    BY <1>4, <1>5, <1>6, <1>7 DEF BootInv, BootOk

LEMMA DriversKeep ==
  ASSUME BootInv, BootUp!BleDriver \/ BootUp!StartNet \/ BootUp!StartThreads
  PROVE  BootInv'
  <1>1. o \in BootRecords /\ ReadyOk(o) /\ o.fault \in BOOLEAN
    BY BootFields DEF BootRecords
  <1>2. CASE BootUp!BleDriver
    <2> DEFINE more == o.ready \cup {"ble"}
               bad == o.fault \/ "rng" \notin o.ready
    <2>1. o' = [o EXCEPT !.pc = "hooks", !.ready = more, !.fault = bad] /\ o.pc = "ble"
      BY <1>2 DEF BootUp!BleDriver
    <2>2. more = Globals \ {"net"} /\ more \in SUBSET Globals /\ ~bad /\ bad \in BOOLEAN
      BY <1>1, <2>1 DEF ReadyOk, Globals
    <2> HIDE DEF more, bad
    <2>3. /\ o' \in BootRecords
          /\ o'.pc = "hooks" /\ o'.thread = o.thread /\ o'.ready = more /\ o'.flash = o.flash
          /\ o'.task = o.task /\ o'.hook = o.hook /\ o'.exercised = o.exercised
          /\ o'.configured = o.configured /\ o'.cred = o.cred /\ o'.announced = o.announced
          /\ o'.fault = bad
      BY <1>1, <2>1, <2>2 DEF BootRecords, LatePcs
    <2>4. ReadyOk(o')
      BY <1>1, <2>1, <2>2, <2>3 DEF ReadyOk
    <2> QED
      BY <2>2, <2>3, <2>4, BootQuietKeeps DEF EarlyPcs
  <1>3. CASE BootUp!StartNet
    <2> DEFINE more == o.ready \cup {"net"}
               bad == o.fault \/ "rng" \notin o.ready
    <2>1. o' = [o EXCEPT !.pc = "join", !.ready = more, !.fault = bad] /\ o.pc = "net"
      BY <1>3 DEF BootUp!StartNet
    <2>2. more = Globals /\ more \in SUBSET Globals /\ ~bad /\ bad \in BOOLEAN
      BY <1>1, <2>1 DEF ReadyOk, Globals
    <2> HIDE DEF more, bad
    <2>3. /\ o' \in BootRecords
          /\ o'.pc = "join" /\ o'.thread = o.thread /\ o'.ready = more /\ o'.flash = o.flash
          /\ o'.task = o.task /\ o'.hook = o.hook /\ o'.exercised = o.exercised
          /\ o'.configured = o.configured /\ o'.cred = o.cred /\ o'.announced = o.announced
          /\ o'.fault = bad
      BY <1>1, <2>1, <2>2 DEF BootRecords, LatePcs
    <2>4. ReadyOk(o')
      BY <1>1, <2>1, <2>2, <2>3 DEF ReadyOk
    <2> QED
      BY <2>2, <2>3, <2>4, BootQuietKeeps DEF EarlyPcs
  <1>4. CASE BootUp!StartThreads
    <2>1. o' = [o EXCEPT !.pc = "done", !.thread = "run"] /\ o.pc = "join"
      BY <1>4 DEF BootUp!StartThreads
    <2>2. /\ o' \in BootRecords
          /\ o'.pc = "done" /\ o'.thread = "run" /\ o'.ready = o.ready /\ o'.flash = o.flash
          /\ o'.task = o.task /\ o'.hook = o.hook /\ o'.exercised = o.exercised
          /\ o'.configured = o.configured /\ o'.cred = o.cred /\ o'.announced = o.announced
          /\ o'.fault = o.fault
      BY <1>1, <2>1 DEF BootRecords, LatePcs
    <2>3. ReadyOk(o')
      BY <1>1, <2>1, <2>2 DEF ReadyOk
    <2> QED
      BY <1>1, <2>2, <2>3, BootQuietKeeps DEF ReadyOk, EarlyPcs
  <1> QED
    BY <1>2, <1>3, <1>4

LEMMA UsbKeeps ==
  ASSUME BootInv, BootUp!Lend \/ BootUp!BuildUsb
  PROVE  BootInv'
  <1>1. o \in BootRecords /\ ReadyOk(o) /\ IdentityOk(o) /\ HooksOk(o)
        /\ o.hook \in [Hooks -> {"idle", "sent", "replied"}]
    BY BootFields
  <1>2. CASE BootUp!Lend
    <2>1. PICK i \in Hooks : o.hook[i] = "idle" /\ o' = [o EXCEPT !.hook[i] = "sent"]
      BY <1>2 DEF BootUp!Lend, BootUp!Unlent
    <2> DEFINE f == [o.hook EXCEPT ![i] = "sent"]
    <2>2. /\ f \in [Hooks -> {"idle", "sent", "replied"}]
          /\ \A j \in Hooks : f[j] = "replied" <=> o.hook[j] = "replied"
      BY <1>1, <2>1
    <2>3. o' = [o EXCEPT !.hook = f]
      BY <2>1
    <2> HIDE DEF f
    <2>4. /\ o' \in BootRecords /\ o'.pc = o.pc /\ o'.task = o.task /\ o'.flash = o.flash
          /\ o'.ready = o.ready /\ o'.hook = f /\ o'.exercised = o.exercised
          /\ o'.configured = o.configured /\ o'.thread = o.thread /\ o'.cred = o.cred
          /\ o'.fault = o.fault /\ o'.announced = o.announced
      BY <1>1, <2>2, <2>3 DEF BootRecords
    <2>5. IdentityOk(o') /\ ReadyOk(o')
      BY <1>1, <2>4 DEF IdentityOk, ReadyOk
    <2>6. HooksOk(o')
      BY <1>1, <2>2, <2>4 DEF HooksOk
    <2> QED
      BY <2>4, <2>5, <2>6 DEF BootInv, BootOk
  <1>3. CASE BootUp!BuildUsb
    <2>1. /\ o' = [o EXCEPT !.pc = "net", !.built = o.configured] /\ o.pc = "hooks"
          /\ \A i \in Hooks : o.hook[i] # "idle" /\ o.hook[i] # "sent"
      BY <1>3 DEF BootUp!BuildUsb, BootUp!Unlent
    <2>2. o.configured = Hooks
      <3>1. \A i \in Hooks : o.hook[i] = "replied"
        BY <1>1, <2>1
      <3> QED
        BY <1>1, <3>1 DEF HooksOk
    <2>3. /\ o' \in BootRecords
          /\ o'.pc = "net" /\ o'.thread = o.thread /\ o'.ready = o.ready /\ o'.flash = o.flash
          /\ o'.task = o.task /\ o'.hook = o.hook /\ o'.exercised = o.exercised
          /\ o'.configured = o.configured /\ o'.cred = o.cred /\ o'.announced = o.announced
          /\ o'.fault = o.fault
      BY <1>1, <2>1, <2>2 DEF BootRecords, LatePcs
    <2>4. ReadyOk(o')
      BY <1>1, <2>1, <2>3 DEF ReadyOk
    <2> QED
      BY <1>1, <2>3, <2>4, BootQuietKeeps DEF ReadyOk, EarlyPcs
  <1> QED
    BY <1>2, <1>3

(* A task that is not the server's starts to run.                          *)
LEMMA TaskRuns ==
  ASSUME BootInv, NEW i \in BootUp!Tasks \ {"coap"}, i \in Hooks => o.task[i] # "off",
         o' = [o EXCEPT !.task[i] = "run"]
  PROVE  BootInv'
  <1> DEFINE f == [o.task EXCEPT ![i] = "run"]
  <1>1. /\ o \in BootRecords /\ ReadyOk(o) /\ IdentityOk(o) /\ HooksOk(o)
        /\ o.task \in [BootUp!Tasks -> TaskPcs] /\ "coap" \in BootUp!Tasks /\ Hooks \subseteq BootUp!Tasks
    BY BootFields
  <1>2. "run" \in TaskPcs
    BY DEF TaskPcs
  <1>3. /\ f \in [BootUp!Tasks -> TaskPcs] /\ f["coap"] = o.task["coap"]
        /\ \A j \in BootUp!Tasks : f[j] = IF j = i THEN "run" ELSE o.task[j]
    BY <1>1, <1>2
  <1>4. o' = [o EXCEPT !.task = f]
    OBVIOUS
  <1> HIDE DEF f
  <1>5. /\ o' \in BootRecords /\ o'.pc = o.pc /\ o'.task = f /\ o'.flash = o.flash
        /\ o'.ready = o.ready /\ o'.hook = o.hook /\ o'.exercised = o.exercised
        /\ o'.configured = o.configured /\ o'.thread = o.thread /\ o'.cred = o.cred
        /\ o'.fault = o.fault /\ o'.announced = o.announced
    BY <1>1, <1>3, <1>4 DEF BootRecords
  <1>6. IdentityOk(o') /\ ReadyOk(o')
    BY <1>1, <1>3, <1>5 DEF IdentityOk, ReadyOk
  <1>7. HooksOk(o')
    <2>1. \A j \in Hooks : f[j] = IF j = i THEN "run" ELSE o.task[j]
      BY <1>1, <1>3
    <2> QED
      BY <1>1, <1>5, <2>1 DEF HooksOk
  <1> QED
    BY <1>5, <1>6, <1>7 DEF BootInv, BootOk

(* Delegate::with, for each hooked task.                                   *)
LEMMA HookKeeps ==
  ASSUME BootInv, NEW i \in Hooks, BootUp!HookTask(i)
  PROVE  BootInv'
  <1>1. /\ o \in BootRecords /\ ReadyOk(o) /\ IdentityOk(o) /\ HooksOk(o)
        /\ o.hook \in [Hooks -> {"idle", "sent", "replied"}] /\ o.task \in [BootUp!Tasks -> TaskPcs]
        /\ o.exercised \in SUBSET Hooks /\ o.configured \in SUBSET Hooks /\ i \in BootUp!Tasks
        /\ Hooks \subseteq BootUp!Tasks /\ "coap" \in BootUp!Tasks
    BY BootFields
  <1>2. i # "coap"
    BY HooksAssumption
  <1>3. o.pc \notin EarlyPcs
    <2>1. o.task[i] # "off"
      BY DEF BootUp!HookTask
    <2> QED
      BY <1>1, <2>1 DEF HooksOk
  <1>4. ASSUME NEW q \in TaskPcs, q # "start"
        PROVE  LET f == [o.task EXCEPT ![i] = q]
               IN  /\ f \in [BootUp!Tasks -> TaskPcs] /\ f["coap"] = o.task["coap"]
                   /\ \A j \in Hooks : f[j] = "start" => j # i /\ o.task[j] = "start"
    BY <1>1, <1>2, <1>4
  <1>5. \A q \in {"with", "network", "run"} : q \in TaskPcs /\ q # "start"
    BY DEF TaskPcs
  <1>6. CASE o.task[i] = "start"
    <2> DEFINE f == [o.task EXCEPT ![i] = "with"]
               more == o.exercised \cup {i}
               bad == o.fault \/ i \in o.exercised
    <2>1. o' = [o EXCEPT !.task = f, !.exercised = more, !.fault = bad]
      BY <1>6 DEF BootUp!HookTask
    <2>2. /\ more \in SUBSET Hooks /\ ~bad /\ bad \in BOOLEAN
          /\ \A j \in Hooks : j \in more <=> j = i \/ j \in o.exercised
      BY <1>1, <1>6 DEF ReadyOk, HooksOk
    <2>3. /\ f \in [BootUp!Tasks -> TaskPcs] /\ f["coap"] = o.task["coap"]
          /\ \A j \in Hooks : f[j] = "start" => j # i /\ o.task[j] = "start"
      BY <1>4, <1>5
    <2> HIDE DEF f, more, bad
    <2>4. /\ o' \in BootRecords /\ o'.pc = o.pc /\ o'.task = f /\ o'.flash = o.flash
          /\ o'.ready = o.ready /\ o'.hook = o.hook /\ o'.exercised = more
          /\ o'.configured = o.configured /\ o'.thread = o.thread /\ o'.cred = o.cred
          /\ o'.fault = bad /\ o'.announced = o.announced
      BY <1>1, <2>1, <2>2, <2>3 DEF BootRecords
    <2>5. IdentityOk(o') /\ ReadyOk(o')
      BY <1>1, <2>2, <2>3, <2>4 DEF IdentityOk, ReadyOk
    <2>6. HooksOk(o')
      BY <1>1, <1>3, <2>2, <2>3, <2>4 DEF HooksOk
    <2> QED
      BY <2>4, <2>5, <2>6 DEF BootInv, BootOk
  <1>7. CASE o.task[i] = "with"
    <2> DEFINE f == [o.task EXCEPT ![i] = "network"]
               g == [o.hook EXCEPT ![i] = "replied"]
               more == o.configured \cup {i}
    <2>1. o' = [o EXCEPT !.task = f, !.hook = g, !.configured = more]
      BY <1>7 DEF BootUp!HookTask
    <2>2. /\ f \in [BootUp!Tasks -> TaskPcs] /\ f["coap"] = o.task["coap"]
          /\ \A j \in Hooks : f[j] = "start" => j # i /\ o.task[j] = "start"
      BY <1>4, <1>5
    <2>3. g \in [Hooks -> {"idle", "sent", "replied"}]
          /\ \A j \in Hooks : g[j] = "replied" <=> j = i \/ o.hook[j] = "replied"
      BY <1>1
    <2>4. more \in SUBSET Hooks /\ more = {j \in Hooks : g[j] = "replied"}
      <3>1. o.configured = {j \in Hooks : o.hook[j] = "replied"}
        BY <1>1 DEF HooksOk
      <3> HIDE DEF g
      <3> QED
        BY <2>3, <3>1
    <2> HIDE DEF f, g, more
    <2>5. /\ o' \in BootRecords /\ o'.pc = o.pc /\ o'.task = f /\ o'.flash = o.flash
          /\ o'.ready = o.ready /\ o'.hook = g /\ o'.exercised = o.exercised
          /\ o'.configured = more /\ o'.thread = o.thread /\ o'.cred = o.cred
          /\ o'.fault = o.fault /\ o'.announced = o.announced
      BY <1>1, <2>1, <2>2, <2>3, <2>4 DEF BootRecords
    <2>6. IdentityOk(o') /\ ReadyOk(o')
      BY <1>1, <2>2, <2>5 DEF IdentityOk, ReadyOk
    <2>7. HooksOk(o')
      BY <1>1, <1>3, <2>2, <2>4, <2>5 DEF HooksOk
    <2> QED
      BY <2>5, <2>6, <2>7 DEF BootInv, BootOk
  <1>8. CASE o.task[i] = "network"
    <2>1. o' = [o EXCEPT !.task[i] = "run"]
      BY <1>8 DEF BootUp!HookTask
    <2> QED
      BY <1>1, <1>2, <1>8, <2>1, TaskRuns
  <1> QED
    BY <1>6, <1>7, <1>8 DEF BootUp!HookTask

LEMMA BleKeeps ==
  ASSUME BootInv, BootUp!BleTask
  PROVE  BootInv'
  <1>1. o' = [o EXCEPT !.task["ble"] = "run"] /\ o.task["ble"] = "start"
    BY DEF BootUp!BleTask
  <1>2. "ble" \in BootUp!Tasks \ {"coap"}
    BY DEF BootUp!Tasks
  <1> QED
    BY <1>1, <1>2, TaskRuns

(* The server's task loads or makes its credential.                        *)
LEMMA CoapFields ==
  ASSUME BootInv, NEW q \in TaskPcs
  PROVE  LET f == [o.task EXCEPT !["coap"] = q]
         IN  /\ f \in [BootUp!Tasks -> TaskPcs] /\ f["coap"] = q
             /\ \A i \in Hooks : f[i] = o.task[i]
  <1>1. /\ o.task \in [BootUp!Tasks -> TaskPcs] /\ "coap" \in BootUp!Tasks /\ Hooks \subseteq BootUp!Tasks
    BY BootFields
  <1>2. \A i \in Hooks : i # "coap"
    BY HooksAssumption
  <1> QED
    BY <1>1, <1>2

LEMMA CoapKeeps ==
  ASSUME BootInv, NEW q \in TaskPcs, NEW flash \in Flashes, NEW cred \in Nat, NEW said \in SUBSET Nat,
         o' \in BootRecords, o'.task = [o.task EXCEPT !["coap"] = q], o'.flash = flash, o'.cred = cred,
         o'.announced = said, o'.pc = o.pc, o'.ready = o.ready, o'.hook = o.hook,
         o'.exercised = o.exercised, o'.configured = o.configured, o'.thread = o.thread, ~o'.fault,
         o.pc \notin EarlyPcs, o.pc # "reset",
         \A x, y \in Credential(flash) : x = y,
         said = {} \/ (Marked(flash) /\ said = Credential(flash)),
         q \in {"start", "insert", "announce"} => Marked(flash),
         q = "insert" => Credential(flash) = {}, q = "announce" => cred \in Credential(flash)
  PROVE  BootInv'
  <1> DEFINE f == [o.task EXCEPT !["coap"] = q]
  <1>1. ReadyOk(o) /\ HooksOk(o)
    BY BootFields
  <1>2. f["coap"] = q /\ \A i \in Hooks : f[i] = o.task[i]
    BY CoapFields
  <1>3. o'.task = f
    OBVIOUS
  <1> HIDE DEF f
  <1>4. IdentityOk(o')
    BY <1>2, <1>3 DEF IdentityOk, EarlyPcs
  <1>5. ReadyOk(o')
    BY <1>1 DEF ReadyOk
  <1>6. HooksOk(o')
    BY <1>1, <1>2, <1>3 DEF HooksOk
  <1> QED
    BY <1>4, <1>5, <1>6 DEF BootInv, BootOk

LEMMA BootPanicKeeps ==
  ASSUME BootInv, o' = BootUp!Panic(o)
  PROVE  BootInv'
  <1> DEFINE next == o.crashes + 1
  <1>1. /\ o \in BootRecords /\ ReadyOk(o) /\ IdentityOk(o) /\ HooksOk(o) /\ o.crashes \in Nat
    BY BootFields
  <1>2. o' = [o EXCEPT !.pc = "panic", !.crashes = next] /\ next \in Nat
    BY <1>1 DEF BootUp!Panic
  <1> HIDE DEF next
  <1>3. /\ o' \in BootRecords /\ o'.pc = "panic" /\ o'.task = o.task /\ o'.flash = o.flash
        /\ o'.ready = o.ready /\ o'.hook = o.hook /\ o'.exercised = o.exercised
        /\ o'.configured = o.configured /\ o'.thread = o.thread /\ o'.cred = o.cred
        /\ o'.fault = o.fault /\ o'.announced = o.announced
    BY <1>1, <1>2 DEF BootRecords
  <1>4. IdentityOk(o') /\ ReadyOk(o') /\ HooksOk(o')
    BY <1>1, <1>3 DEF IdentityOk, ReadyOk, HooksOk, EarlyPcs
  <1> QED
    BY <1>3, <1>4 DEF BootInv, BootOk

LEMMA ServerKeeps ==
  ASSUME BootInv, BootUp!CoapTask
  PROVE  BootInv'
  <1>1. /\ o \in BootRecords /\ ReadyOk(o) /\ IdentityOk(o)
        /\ o.task \in [BootUp!Tasks -> TaskPcs] /\ o.flash \in Flashes /\ o.announced \in SUBSET Nat
        /\ o.cred \in Nat /\ o.fresh \in Nat /\ o.fresh + 1 \in Nat
    BY BootFields
  <1>2. {"announce", "insert", "network", "run"} \subseteq TaskPcs
    BY DEF TaskPcs
  <1>3. o.task["coap"] \in {"start", "insert", "announce", "network"} /\ o.pc # "panic"
    BY DEF BootUp!CoapTask, BootUp!LoadCredential, BootUp!InsertCredential, BootUp!Announce, BootUp!Serve
  <1>4. o.pc \notin EarlyPcs /\ o.pc # "reset" /\ ~o.fault /\ o.fault \in BOOLEAN
    BY <1>1, <1>3 DEF IdentityOk, ReadyOk, BootRecords
  <1>5. /\ \A x, y \in Credential(o.flash) : x = y
        /\ o.announced = {} \/ (Marked(o.flash) /\ o.announced = Credential(o.flash))
        /\ o.task["coap"] # "network" => Marked(o.flash)
        /\ o.task["coap"] = "insert" => Credential(o.flash) = {}
        /\ o.task["coap"] = "announce" => o.cred \in Credential(o.flash)
    BY <1>1, <1>3 DEF IdentityOk
  <1>6. ASSUME NEW z \in Credential(o.flash), o.task["coap"] = "start",
               o' = [o EXCEPT !.task["coap"] = "announce", !.cred = z]
        PROVE  BootInv'
    <2> DEFINE f == [o.task EXCEPT !["coap"] = "announce"]
    <2>1. z \in Nat
      BY <1>1, <1>6, FlashFacts
    <2>2. f \in [BootUp!Tasks -> TaskPcs] /\ o' = [o EXCEPT !.task = f, !.cred = z]
      BY <1>2, <1>6, CoapFields
    <2> HIDE DEF f
    <2>3. /\ o' \in BootRecords /\ o'.pc = o.pc /\ o'.task = f /\ o'.flash = o.flash
          /\ o'.ready = o.ready /\ o'.hook = o.hook /\ o'.exercised = o.exercised
          /\ o'.configured = o.configured /\ o'.thread = o.thread /\ o'.cred = z
          /\ o'.fault = o.fault /\ o'.announced = o.announced
      BY <1>1, <2>1, <2>2 DEF BootRecords
    <2>4. Marked(o.flash)
      BY <1>5, <1>6
    <2> QED
      BY <1>1, <1>2, <1>4, <1>5, <2>1, <2>3, <2>4, <1>6, CoapKeeps DEF f
  <1>7. ASSUME Credential(o.flash) = {}, o.task["coap"] = "start",
               o' = [o EXCEPT !.task["coap"] = "insert", !.cred = o.fresh + 1, !.fresh = @ + 1,
                              !.fault = @ \/ "rng" \notin o.ready]
        PROVE  BootInv'
    <2> DEFINE f == [o.task EXCEPT !["coap"] = "insert"]
               z == o.fresh + 1
               bad == o.fault \/ "rng" \notin o.ready
    <2>1. f \in [BootUp!Tasks -> TaskPcs] /\ z \in Nat
          /\ o' = [o EXCEPT !.task = f, !.cred = z, !.fresh = z, !.fault = bad]
      BY <1>1, <1>2, <1>7, CoapFields
    <2>2. o.pc \in LatePcs
      BY <1>1, <1>3, <1>4 DEF BootRecords
    <2>3. "rng" \in o.ready
      BY <1>1, <2>2 DEF ReadyOk, LatePcs, Globals
    <2>4. ~bad /\ bad \in BOOLEAN
      BY <1>4, <2>3
    <2> HIDE DEF f, z, bad
    <2>5. /\ o' \in BootRecords /\ o'.pc = o.pc /\ o'.task = f /\ o'.flash = o.flash
          /\ o'.ready = o.ready /\ o'.hook = o.hook /\ o'.exercised = o.exercised
          /\ o'.configured = o.configured /\ o'.thread = o.thread /\ o'.cred = z
          /\ o'.fault = bad /\ o'.announced = o.announced
      BY <1>1, <2>1, <2>4 DEF BootRecords
    <2>6. Marked(o.flash)
      BY <1>5, <1>7
    <2> QED
      BY <1>1, <1>2, <1>4, <1>5, <1>7, <2>1, <2>4, <2>5, <2>6, CoapKeeps DEF f
  <1>8. ASSUME NEW p1 \in 1 .. Pages, o.task["coap"] = "insert",
               o' = [o EXCEPT !.task["coap"] = "announce",
                              !.flash = BootUp!Insert(@, p1, <<"credential", o.cred>>)]
        PROVE  BootInv'
    <2> DEFINE f == [o.task EXCEPT !["coap"] = "announce"]
               e == BootUp!Insert(o.flash, p1, <<"credential", o.cred>>)
    <2>1. f \in [BootUp!Tasks -> TaskPcs] /\ o' = [o EXCEPT !.task = f, !.flash = e]
      BY <1>2, <1>8, CoapFields
    <2>2. e \in Flashes /\ Marked(e) /\ Credential(e) = {o.cred}
      BY <1>1, <1>5, <1>8, CredentialInserted
    <2>3. o.announced = {}
      BY <1>5, <1>8
    <2> HIDE DEF f, e
    <2>4. /\ o' \in BootRecords /\ o'.pc = o.pc /\ o'.task = f /\ o'.flash = e
          /\ o'.ready = o.ready /\ o'.hook = o.hook /\ o'.exercised = o.exercised
          /\ o'.configured = o.configured /\ o'.thread = o.thread /\ o'.cred = o.cred
          /\ o'.fault = o.fault /\ o'.announced = o.announced
      BY <1>1, <2>1, <2>2 DEF BootRecords
    <2> QED
      BY <1>1, <1>2, <1>4, <2>2, <2>3, <2>4, CoapKeeps DEF f
  <1>9. ASSUME o.task["coap"] = "announce",
               o' = [o EXCEPT !.task["coap"] = "network", !.announced = @ \cup {o.cred}]
        PROVE  BootInv'
    <2> DEFINE f == [o.task EXCEPT !["coap"] = "network"]
               said == o.announced \cup {o.cred}
    <2>1. f \in [BootUp!Tasks -> TaskPcs] /\ o' = [o EXCEPT !.task = f, !.announced = said]
      BY <1>2, <1>9, CoapFields
    <2>2. Marked(o.flash) /\ Credential(o.flash) = {o.cred}
      BY <1>5, <1>9
    <2>3. said = {o.cred} /\ said \in SUBSET Nat
      BY <1>1, <1>5, <2>2
    <2> HIDE DEF f, said
    <2>4. /\ o' \in BootRecords /\ o'.pc = o.pc /\ o'.task = f /\ o'.flash = o.flash
          /\ o'.ready = o.ready /\ o'.hook = o.hook /\ o'.exercised = o.exercised
          /\ o'.configured = o.configured /\ o'.thread = o.thread /\ o'.cred = o.cred
          /\ o'.fault = o.fault /\ o'.announced = said
      BY <1>1, <2>1, <2>3 DEF BootRecords
    <2> QED
      BY <1>1, <1>2, <1>4, <1>5, <2>2, <2>3, <2>4, CoapKeeps DEF f
  <1>10. ASSUME o' = [o EXCEPT !.task["coap"] = "run"]
         PROVE  BootInv'
    <2> DEFINE f == [o.task EXCEPT !["coap"] = "run"]
    <2>1. f \in [BootUp!Tasks -> TaskPcs] /\ o' = [o EXCEPT !.task = f]
      BY <1>2, <1>10, CoapFields
    <2> HIDE DEF f
    <2>2. /\ o' \in BootRecords /\ o'.pc = o.pc /\ o'.task = f /\ o'.flash = o.flash
          /\ o'.ready = o.ready /\ o'.hook = o.hook /\ o'.exercised = o.exercised
          /\ o'.configured = o.configured /\ o'.thread = o.thread /\ o'.cred = o.cred
          /\ o'.fault = o.fault /\ o'.announced = o.announced
      BY <1>1, <2>1 DEF BootRecords
    <2> QED
      BY <1>1, <1>2, <1>4, <1>5, <2>2, CoapKeeps DEF f
  <1>11. CASE BootUp!LoadCredential
    BY <1>6, <1>7, <1>11, BootPanicKeeps DEF BootUp!LoadCredential, Credential
  <1>12. CASE BootUp!InsertCredential
    BY <1>8, <1>12, BootPanicKeeps DEF BootUp!InsertCredential
  <1>13. CASE BootUp!Announce
    BY <1>9, <1>13 DEF BootUp!Announce
  <1>14. CASE BootUp!Serve
    BY <1>10, <1>14 DEF BootUp!Serve
  <1> QED
    BY <1>11, <1>12, <1>13, <1>14 DEF BootUp!CoapTask

LEMMA EraseAllKeeps ==
  ASSUME BootInv, BootUp!EraseAll
  PROVE  BootInv'
  <1> DEFINE none == {}
  <1>1. o \in BootRecords /\ ReadyOk(o) /\ IdentityOk(o) /\ HooksOk(o) /\ none \in SUBSET Nat
    BY BootFields
  <1>2. o' = [o EXCEPT !.pc = "reset", !.page = 1, !.announced = none] /\ o.pc = "done"
        /\ o.task["coap"] = "run"
    BY DEF BootUp!EraseAll
  <1> HIDE DEF none
  <1>3. /\ o' \in BootRecords /\ o'.pc = "reset" /\ o'.task = o.task /\ o'.flash = o.flash
        /\ o'.ready = o.ready /\ o'.hook = o.hook /\ o'.exercised = o.exercised
        /\ o'.configured = o.configured /\ o'.thread = o.thread /\ o'.cred = o.cred
        /\ o'.fault = o.fault /\ o'.announced = none
    BY <1>1, <1>2 DEF BootRecords
  <1>4. IdentityOk(o')
    BY <1>1, <1>2, <1>3 DEF IdentityOk, EarlyPcs, none
  <1>5. ReadyOk(o')
    BY <1>1, <1>2, <1>3 DEF ReadyOk
  <1>6. HooksOk(o')
    BY <1>1, <1>3 DEF HooksOk, EarlyPcs
  <1> QED
    BY <1>3, <1>4, <1>5, <1>6 DEF BootInv, BootOk

(* A boot begins with the flash as the last one left it.                   *)
LEMMA BootingOk ==
  ASSUME NEW flash \in Flashes, NEW fresh \in Nat, NEW said \in SUBSET Nat, NEW crashes \in Nat,
         \A x, y \in Credential(flash) : x = y,
         said = {} \/ (Marked(flash) /\ said = Credential(flash)),
         NEW v, v = BootUp!Booting(flash, fresh, said, crashes)
  PROVE  BootOk(v)
  <1> DEFINE f == [i \in BootUp!Tasks |-> "off"]
             g == [i \in Hooks |-> "idle"]
  <1>1. f \in [BootUp!Tasks -> TaskPcs] /\ f["coap"] = "off" /\ \A i \in Hooks : f[i] = "off"
    BY DEF BootUp!Tasks, TaskPcs
  <1>2. g \in [Hooks -> {"idle", "sent", "replied"}] /\ \A i \in Hooks : g[i] # "replied"
    OBVIOUS
  <1>3. v = [flash |-> flash, pc |-> "startup", page |-> 1, ready |-> {}, task |-> f,
             hook |-> g, exercised |-> {}, configured |-> {}, built |-> BootUp!NotYet,
             thread |-> "off", cred |-> 0, fault |-> FALSE, fresh |-> fresh, announced |-> said,
             crashes |-> crashes]
    BY DEF BootUp!Booting
  <1> HIDE DEF f, g
  <1>4. v \in BootRecords
    BY <1>1, <1>2, <1>3 DEF BootRecords, EarlyPcs
  <1>5. IdentityOk(v)
    BY <1>1, <1>3 DEF IdentityOk
  <1>6. ReadyOk(v)
    BY <1>3 DEF ReadyOk
  <1>7. HooksOk(v)
    BY <1>1, <1>2, <1>3 DEF HooksOk
  <1> QED
    BY <1>4, <1>5, <1>6, <1>7 DEF BootOk

LEMMA BootInit ==
  ASSUME BootUp!Init
  PROVE  BootInv
  <1>1. PICK junk \in BOOLEAN :
          o = BootUp!Booting([q \in 1 .. Pages |-> IF junk THEN {<<"credential", 0>>} ELSE {}], 0, {}, 0)
    BY DEF BootUp!Init
  <1> DEFINE e == [q \in 1 .. Pages |-> IF junk THEN {<<"credential", 0>>} ELSE {}]
  <1>2. <<"credential", 0>> \in BootItems
    BY DEF BootItems
  <1>3. e \in Flashes /\ \A q \in 1 .. Pages : \A x \in e[q] : x = <<"credential", 0>>
    BY <1>2 DEF Flashes
  <1> HIDE DEF e
  <1>4. \A x \in Credential(e) : x = 0
    <2> SUFFICES ASSUME NEW x \in Credential(e) PROVE x = 0
      OBVIOUS
    <2>1. x \in Nat /\ <<"credential", x>> \in BootUp!Items(e)
      BY <1>3, FlashFacts
    <2>2. PICK q \in 1 .. Pages : <<"credential", x>> \in e[q]
      BY <1>3, <2>1, FlashFacts
    <2>3. <<"credential", x>> = <<"credential", 0>>
      BY <1>3, <2>2
    <2> QED
      BY <2>3
  <1>5. \A x, y \in Credential(e) : x = y
    BY <1>4
  <1>6. o = BootUp!Booting(e, 0, {}, 0)
    BY <1>1 DEF e
  <1> QED
    BY <1>3, <1>5, <1>6, BootingOk DEF BootInv

LEMMA PowerFailsKeeps ==
  ASSUME BootInv, BootUp!PowerFails
  PROVE  BootInv'
  <1>1. /\ IdentityOk(o) /\ o.flash \in Flashes /\ o.fresh \in Nat /\ o.announced \in SUBSET Nat
        /\ o.crashes + 1 \in Nat
    BY BootFields
  <1>2. o' = BootUp!Booting(o.flash, o.fresh, o.announced, o.crashes + 1)
    BY DEF BootUp!PowerFails
  <1>3. \A x, y \in Credential(o.flash) : x = y
    BY <1>1 DEF IdentityOk
  <1>4. o.announced = {} \/ (Marked(o.flash) /\ o.announced = Credential(o.flash))
    BY <1>1 DEF IdentityOk
  <1>5. BootOk(o')
    BY <1>1, <1>2, <1>3, <1>4, BootingOk
  <1> QED
    BY <1>5 DEF BootInv

LEMMA BootStep ==
  ASSUME ~MarkerReadFails, BootInv, [BootUp!Next]_o
  PROVE  BootInv'
  <1>1. CASE BootUp!InitTask
    BY <1>1, StartupKeeps, ReadMarkerKeeps, ErasingKeeps, StartTasksKeeps, DriversKeep, UsbKeeps
       DEF BootUp!InitTask
  <1>2. CASE BootUp!CoapTask \/ BootUp!BleTask \/ BootUp!EraseAll \/ BootUp!PowerFails
    BY <1>2, ServerKeeps, BleKeeps, EraseAllKeeps, PowerFailsKeeps
  <1>3. CASE \E i \in Hooks : BootUp!HookTask(i)
    BY <1>3, HookKeeps
  <1>4. CASE UNCHANGED o
    BY <1>4 DEF BootInv
  <1> QED
    BY <1>1, <1>2, <1>3, <1>4 DEF BootUp!Next

LEMMA BootSafeNow ==
  ASSUME BootInv
  PROVE  BootUp!IdentityStable /\ BootUp!BootOrder
  <1>1. o \in BootRecords /\ ReadyOk(o) /\ IdentityOk(o)
    BY BootFields
  <1>2. BootUp!IdentityStable
    <2>1. \A x, y \in o.announced : x = y
      BY <1>1 DEF IdentityOk
    <2>2. o.announced = {} \/ \E x : o.announced = {x}
      BY <2>1
    <2>3. Cardinality({}) = 0 /\ \A x : Cardinality({x}) = 1
      BY FS_EmptySet, FS_Singleton
    <2>4. Cardinality(o.announced) = 0 \/ Cardinality(o.announced) = 1
      BY <2>2, <2>3
    <2>5. BootUp!Cardinality(o.announced) = Cardinality(o.announced)
      BY Zenon DEF BootUp!Cardinality, Cardinality
    <2> QED
      BY <2>4, <2>5 DEF BootUp!IdentityStable
  <1>3. BootUp!BootOrder
    <2>1. ~o.fault /\ (o.thread = "run" => o.ready = {"spawner", "rng", "storage", "ble", "net"})
      BY <1>1 DEF ReadyOk, Globals
    <2>2. o.built \in {BootUp!NotYet, Hooks}
      BY <1>1 DEF BootRecords
    <2> QED
      BY <2>1, <2>2 DEF BootUp!BootOrder
  <1> QED
    BY <1>2, <1>3

(* The CoAP server announces one identity over any number of power         *)
(* failures and flash errors, no global is used before init_task has       *)
(* initialised it, and the USB device is built with every hook.  The       *)
(* marker can be read: storage::init takes an error for a missing marker.  *)
THEOREM BootIsSafe ==
  ASSUME ~MarkerReadFails
  PROVE  PlatformSpec => []BootSafe
  <1> DEFINE Inv == part = "boot" => BootInv
  <1>1. PlatformInit => Inv
    BY BootInit DEF PlatformInit
  <1>2. Inv /\ [PlatformNext]_platformvars => Inv'
    <2> SUFFICES ASSUME Inv, [PlatformNext]_platformvars, part' = "boot" PROVE BootInv'
      OBVIOUS
    <2>1. part = "boot" /\ [BootUp!Next]_o
      BY DEF PlatformNext, platformvars
    <2> QED
      BY <2>1, BootStep
  <1>3. Inv => BootSafe
    BY BootSafeNow DEF BootSafe
  <1> HIDE DEF Inv
  <1> QED
    BY <1>1, <1>2, <1>3, PTL DEF PlatformSpec

-----------------------------------------------------------------------------
(* Peripherals.                                                            *)

(* The feature whose tables have the peripheral x, on the chip ch; the     *)
(* UART for debug output is one that belongs to "uart".                    *)
Owner(ch, x) ==
  CASE x[1] \in {"TWISPI", "I2C"} -> "i2c"
    [] x[1] = "SPI" -> "spi"
    [] x[1] = "SERIAL" -> IF x[2] < 2 THEN "i2c" ELSE IF x[2] = 2 THEN "spi" ELSE "uart"
    [] x[1] \in {"UARTE", "UART", "USART", "LPUART", "PPI_GROUP"} -> "uart"
    [] x[1] = "TIMER" -> IF x[2] < 2 THEN "ble" ELSE "uart"
    [] x[1] = "PPI_CH" -> IF (17 <= x[2] /\ ch # "nrf5340-app") \/ ch = "nrf5340-net" THEN "ble" ELSE "uart"
    [] x[1] \in {"RTC", "TEMP"} -> "ble"
    [] x[1] \in {"RNG", "TRNG"} -> "hwrng"
    [] x[1] \in {"NVMC", "FLASH"} -> "storage"
    [] x[1] = "DMA_CH" -> IF x[2] = 1 THEN "storage" ELSE "cyw43"
    [] x[1] \in {"PIN", "PIO"} -> "cyw43"
    [] x[1] \in {"USBD", "USB", "USB_OTG_FS", "USB_OTG_HS", "PD"} -> "usb"
    [] x[1] = "GPIO" -> IF x[2] = 15 THEN "boards" ELSE "usb"
    [] x[1] = "PA" -> IF x[2] < 11 THEN (IF ch = "stm32u083mc" THEN "debug_uart" ELSE "ethernet") ELSE "usb"
    [] x[1] = "PB" -> IF x[2] = 13 THEN "ethernet" ELSE "debug_uart"
    [] x[1] = "P0" -> "debug_uart"
    [] x[1] \in {"ETH", "PC", "PG"} -> "ethernet"
    [] x[1] = "EXTI" -> "extint"
    [] x[1] \in {"TIMG", "SYSTIMER"} -> "time"
    [] x[1] = "BT" -> "esp_ble"
    [] x[1] = "WIFI" -> "wifi"

(* What the rows give their chips belongs to the feature f.                *)
Owned(rows, f) == \A row \in rows : \A ch \in row[1] : \A x \in row[2] : Owner(ch, x) = f

LEMMA OwnedJoins ==
  ASSUME NEW t, NEW u, NEW f, Owned(t, f), Owned(u, f)
  PROVE  Owned(t \cup u, f)
  BY DEF Owned

LEMMA TableOf ==
  ASSUME NEW rows, NEW ch
  PROVE  /\ ch \in DOMAIN Periph!Table(rows) <=> \E row \in rows : ch \in row[1]
         /\ ch \in DOMAIN Periph!Table(rows) =>
              \A x : x \in Periph!Table(rows)[ch] <=> \E row \in rows : ch \in row[1] /\ x \in row[2]
  <1> DEFINE Mine == {q \in rows : ch \in q[1]}
  <1>1. ch \in DOMAIN Periph!Table(rows) => Periph!Table(rows)[ch] = UNION {row[2] : row \in Mine}
    BY DEF Periph!Table
  <1>2. \A x : x \in UNION {row[2] : row \in Mine} <=> \E row \in rows : ch \in row[1] /\ x \in row[2]
    OBVIOUS
  <1>3. ch \in DOMAIN Periph!Table(rows) <=> \E row \in rows : ch \in row[1]
    BY DEF Periph!Table
  <1> QED
    BY <1>1, <1>2, <1>3

LEMMA TableOwned ==
  ASSUME NEW rows, NEW f, Owned(rows, f)
  PROVE  \A ch \in DOMAIN Periph!Table(rows) : \A x \in Periph!Table(rows)[ch] : Owner(ch, x) = f
  BY TableOf DEF Owned

LEMMA OwnedTime ==
  \A ch \in DOMAIN Periph!Takes["time"] : \A x \in Periph!Takes["time"][ch] : Owner(ch, x) = "time"
  <1>1. Owned(Periph!EspTime, "time")
    BY DEF Owned, Owner, Periph!EspTime, Periph!Many, Periph!One
  <1> DEFINE rows == Periph!EspTime
  <1>2. Owned(rows, "time")
    BY <1>1
  <1>3. Periph!Takes["time"] = Periph!Table(rows)
    BY DEF Periph!Takes
  <1> HIDE DEF rows
  <1> QED
    BY <1>2, <1>3, TableOwned

LEMMA OwnedExtint ==
  \A ch \in DOMAIN Periph!Takes["extint"] : \A x \in Periph!Takes["extint"][ch] : Owner(ch, x) = "extint"
  <1>1. Owned(Periph!Stm32Extint, "extint")
    BY DEF Owned, Owner, Periph!Stm32Extint, Periph!Many
  <1> DEFINE rows == Periph!Stm32Extint
  <1>2. Owned(rows, "extint")
    BY <1>1
  <1>3. Periph!Takes["extint"] = Periph!Table(rows)
    BY DEF Periph!Takes
  <1> HIDE DEF rows
  <1> QED
    BY <1>2, <1>3, TableOwned

LEMMA OwnedI2c ==
  \A ch \in DOMAIN Periph!Takes["i2c"] : \A x \in Periph!Takes["i2c"][ch] : Owner(ch, x) = "i2c"
  <1>1. Owned(Periph!NrfI2cInit, "i2c")
    BY DEF Owned, Owner, Periph!NrfI2cInit, Periph!Many
  <1>2. Owned(Periph!Stm32I2cInit, "i2c")
    BY DEF Owned, Owner, Periph!Stm32I2cInit, Periph!Many
  <1>3. Owned(Periph!RpI2cInit, "i2c")
    BY DEF Owned, Owner, Periph!RpI2cInit, Periph!Many
  <1>4. Owned(Periph!EspI2cInit, "i2c")
    BY DEF Owned, Owner, Periph!EspI2cInit, Periph!Many
  <1> DEFINE rows == Periph!NrfI2cInit \cup Periph!Stm32I2cInit \cup Periph!RpI2cInit \cup Periph!EspI2cInit
  <1>5. Owned(rows, "i2c")
    BY <1>1, <1>2, <1>3, <1>4, OwnedJoins
  <1>6. Periph!Takes["i2c"] = Periph!Table(rows)
    BY DEF Periph!Takes
  <1> HIDE DEF rows
  <1> QED
    BY <1>5, <1>6, TableOwned

LEMMA OwnedSpi ==
  \A ch \in DOMAIN Periph!Takes["spi"] : \A x \in Periph!Takes["spi"][ch] : Owner(ch, x) = "spi"
  <1>1. Owned(Periph!NrfSpiInit, "spi")
    BY DEF Owned, Owner, Periph!NrfSpiInit, Periph!Many
  <1>2. Owned(Periph!Stm32SpiInit, "spi")
    BY DEF Owned, Owner, Periph!Stm32SpiInit, Periph!Many
  <1>3. Owned(Periph!RpSpiInit, "spi")
    BY DEF Owned, Owner, Periph!RpSpiInit, Periph!Many
  <1>4. Owned(Periph!EspSpiInit, "spi")
    BY DEF Owned, Owner, Periph!EspSpiInit, Periph!Many
  <1> DEFINE rows == Periph!NrfSpiInit \cup Periph!Stm32SpiInit \cup Periph!RpSpiInit \cup Periph!EspSpiInit
  <1>5. Owned(rows, "spi")
    BY <1>1, <1>2, <1>3, <1>4, OwnedJoins
  <1>6. Periph!Takes["spi"] = Periph!Table(rows)
    BY DEF Periph!Takes
  <1> HIDE DEF rows
  <1> QED
    BY <1>5, <1>6, TableOwned

LEMMA OwnedUart ==
  \A ch \in DOMAIN Periph!Takes["uart"] : \A x \in Periph!Takes["uart"][ch] : Owner(ch, x) = "uart"
  <1>1. Owned(Periph!NrfUartInit, "uart")
    BY DEF Owned, Owner, Periph!NrfUartInit, Periph!Many
  <1>2. Owned(Periph!Stm32UartInit, "uart")
    BY DEF Owned, Owner, Periph!Stm32UartInit, Periph!Many
  <1>3. Owned(Periph!RpUartInit, "uart")
    BY DEF Owned, Owner, Periph!RpUartInit, Periph!Many
  <1>4. Owned(Periph!EspUartInit, "uart")
    BY DEF Owned, Owner, Periph!EspUartInit, Periph!Many
  <1> DEFINE rows == Periph!NrfUartInit \cup Periph!Stm32UartInit \cup Periph!RpUartInit \cup Periph!EspUartInit
  <1>5. Owned(rows, "uart")
    BY <1>1, <1>2, <1>3, <1>4, OwnedJoins
  <1>6. Periph!Takes["uart"] = Periph!Table(rows)
    BY DEF Periph!Takes
  <1> HIDE DEF rows
  <1> QED
    BY <1>5, <1>6, TableOwned

LEMMA OwnedHwrng ==
  \A ch \in DOMAIN Periph!Takes["hwrng"] : \A x \in Periph!Takes["hwrng"][ch] : Owner(ch, x) = "hwrng"
  <1>1. Owned(Periph!NrfHwrng, "hwrng")
    BY DEF Owned, Owner, Periph!NrfHwrng, Periph!One
  <1>2. Owned(Periph!Stm32Hwrng, "hwrng")
    BY DEF Owned, Owner, Periph!Stm32Hwrng, Periph!One
  <1>3. Owned(Periph!RpHwrng, "hwrng")
    BY DEF Owned, Owner, Periph!RpHwrng, Periph!One
  <1>4. Owned({<<Periph!Esp, {}>>}, "hwrng")
    BY DEF Owned
  <1> DEFINE rows == Periph!NrfHwrng \cup Periph!Stm32Hwrng \cup Periph!RpHwrng \cup {<<Periph!Esp, {}>>}
  <1>5. Owned(rows, "hwrng")
    BY <1>1, <1>2, <1>3, <1>4, OwnedJoins
  <1>6. Periph!Takes["hwrng"] = Periph!Table(rows)
    BY DEF Periph!Takes
  <1> HIDE DEF rows
  <1> QED
    BY <1>5, <1>6, TableOwned

LEMMA OwnedStorage ==
  \A ch \in DOMAIN Periph!Takes["storage"] : \A x \in Periph!Takes["storage"][ch] : Owner(ch, x) = "storage"
  <1>1. Owned(Periph!NrfStorage, "storage")
    BY DEF Owned, Owner, Periph!NrfStorage, Periph!One
  <1>2. Owned(Periph!Stm32Storage, "storage")
    BY DEF Owned, Owner, Periph!Stm32Storage, Periph!One
  <1>3. Owned(Periph!RpStorage, "storage")
    BY DEF Owned, Owner, Periph!RpStorage, Periph!Many, Periph!One
  <1> DEFINE rows == Periph!NrfStorage \cup Periph!Stm32Storage \cup Periph!RpStorage
  <1>4. Owned(rows, "storage")
    BY <1>1, <1>2, <1>3, OwnedJoins
  <1>5. Periph!Takes["storage"] = Periph!Table(rows)
    BY DEF Periph!Takes
  <1> HIDE DEF rows
  <1> QED
    BY <1>4, <1>5, TableOwned

LEMMA OwnedBle ==
  \A ch \in DOMAIN Periph!Takes["ble"] : \A x \in Periph!Takes["ble"][ch] : Owner(ch, x) = "ble"
  <1>1. Owned(Periph!NrfBle, "ble")
    BY DEF Owned, Owner, Periph!NrfBle, Periph!Nrf52Ble, Periph!Nrf53Ble, Periph!Many, Periph!One
  <1> DEFINE rows == Periph!NrfBle
  <1>2. Owned(rows, "ble")
    BY <1>1
  <1>3. Periph!Takes["ble"] = Periph!Table(rows)
    BY DEF Periph!Takes
  <1> HIDE DEF rows
  <1> QED
    BY <1>2, <1>3, TableOwned

LEMMA OwnedUsb ==
  \A ch \in DOMAIN Periph!Takes["usb"] : \A x \in Periph!Takes["usb"][ch] : Owner(ch, x) = "usb"
  <1>1. Owned(Periph!NrfUsb, "usb")
    BY DEF Owned, Owner, Periph!NrfUsb, Periph!One
  <1>2. Owned(Periph!Stm32Usb, "usb")
    BY DEF Owned, Owner, Periph!Stm32Usb, Periph!Many, Periph!One
  <1>3. Owned(Periph!RpUsb, "usb")
    BY DEF Owned, Owner, Periph!RpUsb, Periph!One
  <1>4. Owned(Periph!EspUsb, "usb")
    BY DEF Owned, Owner, Periph!EspUsb, Periph!Many, Periph!One
  <1> DEFINE rows == Periph!NrfUsb \cup Periph!Stm32Usb \cup Periph!RpUsb \cup Periph!EspUsb
  <1>5. Owned(rows, "usb")
    BY <1>1, <1>2, <1>3, <1>4, OwnedJoins
  <1>6. Periph!Takes["usb"] = Periph!Table(rows)
    BY DEF Periph!Takes
  <1> HIDE DEF rows
  <1> QED
    BY <1>5, <1>6, TableOwned

LEMMA OwnedEthernet ==
  \A ch \in DOMAIN Periph!Takes["ethernet"] : \A x \in Periph!Takes["ethernet"][ch] : Owner(ch, x) = "ethernet"
  <1>1. Owned(Periph!Stm32Ethernet, "ethernet")
    BY DEF Owned, Owner, Periph!Stm32Ethernet, Periph!Many, Periph!One, Periph!H7
  <1> DEFINE rows == Periph!Stm32Ethernet
  <1>2. Owned(rows, "ethernet")
    BY <1>1
  <1>3. Periph!Takes["ethernet"] = Periph!Table(rows)
    BY DEF Periph!Takes
  <1> HIDE DEF rows
  <1> QED
    BY <1>2, <1>3, TableOwned

LEMMA OwnedCyw43 ==
  \A ch \in DOMAIN Periph!Takes["cyw43"] : \A x \in Periph!Takes["cyw43"][ch] : Owner(ch, x) = "cyw43"
  <1>1. Owned(Periph!RpCyw43, "cyw43")
    BY DEF Owned, Owner, Periph!RpCyw43, Periph!Many, Periph!One
  <1> DEFINE rows == Periph!RpCyw43
  <1>2. Owned(rows, "cyw43")
    BY <1>1
  <1>3. Periph!Takes["cyw43"] = Periph!Table(rows)
    BY DEF Periph!Takes
  <1> HIDE DEF rows
  <1> QED
    BY <1>2, <1>3, TableOwned

LEMMA OwnedEspBle ==
  \A ch \in DOMAIN Periph!Takes["esp_ble"] : \A x \in Periph!Takes["esp_ble"][ch] : Owner(ch, x) = "esp_ble"
  <1>1. Owned(Periph!EspBle, "esp_ble")
    BY DEF Owned, Owner, Periph!EspBle, Periph!One
  <1> DEFINE rows == Periph!EspBle
  <1>2. Owned(rows, "esp_ble")
    BY <1>1
  <1>3. Periph!Takes["esp_ble"] = Periph!Table(rows)
    BY DEF Periph!Takes
  <1> HIDE DEF rows
  <1> QED
    BY <1>2, <1>3, TableOwned

LEMMA OwnedWifi ==
  \A ch \in DOMAIN Periph!Takes["wifi"] : \A x \in Periph!Takes["wifi"][ch] : Owner(ch, x) = "wifi"
  <1>1. Owned(Periph!EspWifi, "wifi")
    BY DEF Owned, Owner, Periph!EspWifi, Periph!One
  <1> DEFINE rows == Periph!EspWifi
  <1>2. Owned(rows, "wifi")
    BY <1>1
  <1>3. Periph!Takes["wifi"] = Periph!Table(rows)
    BY DEF Periph!Takes
  <1> HIDE DEF rows
  <1> QED
    BY <1>2, <1>3, TableOwned

LEMMA OwnedBoards ==
  \A ch \in DOMAIN Periph!Takes["boards"] : \A x \in Periph!Takes["boards"][ch] : Owner(ch, x) = "boards"
  <1>1. Owned(Periph!BoardsInit, "boards")
    BY DEF Owned, Owner, Periph!BoardsInit, Periph!Many
  <1> DEFINE rows == Periph!BoardsInit
  <1>2. Owned(rows, "boards")
    BY <1>1
  <1>3. Periph!Takes["boards"] = Periph!Table(rows)
    BY DEF Periph!Takes
  <1> HIDE DEF rows
  <1> QED
    BY <1>2, <1>3, TableOwned

LEMMA OwnedDebugUart ==
  \A ch \in DOMAIN Periph!Takes["debug_uart"] : \A x \in Periph!Takes["debug_uart"][ch] :
    Owner(ch, x) \in {"debug_uart", "uart"}
  <1> DEFINE rows == Periph!NrfDebugUart \cup Periph!Stm32DebugUart
  <1>1. \A row \in rows : \A ch \in row[1] : \A x \in row[2] : Owner(ch, x) \in {"debug_uart", "uart"}
    <2>1. \A row \in Periph!NrfDebugUart : \A ch \in row[1] : \A x \in row[2] :
            Owner(ch, x) \in {"debug_uart", "uart"}
      BY DEF Owner, Periph!NrfDebugUart, Periph!Many
    <2>2. \A row \in Periph!Stm32DebugUart : \A ch \in row[1] : \A x \in row[2] :
            Owner(ch, x) \in {"debug_uart", "uart"}
      BY DEF Owner, Periph!Stm32DebugUart, Periph!Many
    <2> QED
      BY <2>1, <2>2
  <1>2. Periph!Takes["debug_uart"] = Periph!Table(rows)
    BY DEF Periph!Takes
  <1> HIDE DEF rows
  <1> QED
    BY <1>1, <1>2, TableOf

(* On each chip, uart::init wants the UART that debug_uart::init took.     *)
LEMMA UartsOverlap ==
  ASSUME NEW ch \in DOMAIN Periph!Takes["debug_uart"] \cap DOMAIN Periph!Takes["uart"]
  PROVE  \E x \in Periph!Takes["debug_uart"][ch] : x \in Periph!Takes["uart"][ch]
  <1> DEFINE debug == Periph!NrfDebugUart \cup Periph!Stm32DebugUart
             rows == Periph!NrfUartInit \cup Periph!Stm32UartInit \cup Periph!RpUartInit \cup Periph!EspUartInit
  <1>1. Periph!Takes["debug_uart"] = Periph!Table(debug) /\ Periph!Takes["uart"] = Periph!Table(rows)
    BY DEF Periph!Takes
  <1>2. \E row \in debug : ch \in row[1]
    BY <1>1, TableOf
  <1>3. ch \in {"nrf52832", "nrf52840", "stm32l475vg", "stm32wb55rg", "stm32u083mc"}
    BY <1>2 DEF Periph!NrfDebugUart, Periph!Stm32DebugUart
  <1> DEFINE Shared(x) == /\ \E row \in debug : ch \in row[1] /\ x \in row[2]
                          /\ \E row \in rows : ch \in row[1] /\ x \in row[2]
  <1>4. ch \in {"nrf52832", "nrf52840"} => Shared(<<"UARTE", 0>>)
    <2> SUFFICES ASSUME ch \in {"nrf52832", "nrf52840"}
                 PROVE  Shared(<<"UARTE", 0>>)
      OBVIOUS
    <2>1. \E row \in Periph!NrfDebugUart : ch \in row[1] /\ <<"UARTE", 0>> \in row[2]
      BY DEF Periph!NrfDebugUart, Periph!Many
    <2>2. \E row \in Periph!NrfUartInit : ch \in row[1] /\ <<"UARTE", 0>> \in row[2]
      BY DEF Periph!NrfUartInit, Periph!Many
    <2> QED
      BY <2>1, <2>2
  <1>5. ch \in {"stm32l475vg", "stm32wb55rg"} => Shared(<<"USART", 1>>)
    <2> SUFFICES ASSUME ch \in {"stm32l475vg", "stm32wb55rg"}
                 PROVE  Shared(<<"USART", 1>>)
      OBVIOUS
    <2>1. \E row \in Periph!Stm32DebugUart : ch \in row[1] /\ <<"USART", 1>> \in row[2]
      BY DEF Periph!Stm32DebugUart, Periph!Many
    <2>2. \E row \in Periph!Stm32UartInit : ch \in row[1] /\ <<"USART", 1>> \in row[2]
      BY DEF Periph!Stm32UartInit, Periph!Many
    <2> QED
      BY <2>1, <2>2
  <1>6. ch = "stm32u083mc" => Shared(<<"USART", 2>>)
    <2> SUFFICES ASSUME ch = "stm32u083mc"
                 PROVE  Shared(<<"USART", 2>>)
      OBVIOUS
    <2>1. \E row \in Periph!Stm32DebugUart : ch \in row[1] /\ <<"USART", 2>> \in row[2]
      BY DEF Periph!Stm32DebugUart, Periph!Many
    <2>2. \E row \in Periph!Stm32UartInit : ch \in row[1] /\ <<"USART", 2>> \in row[2]
      BY DEF Periph!Stm32UartInit, Periph!Many, Periph!U0
    <2> QED
      BY <2>1, <2>2
  <1> HIDE DEF Shared
  <1>7. \E x : Shared(x)
    BY <1>3, <1>4, <1>5, <1>6
  <1>8. PICK x : Shared(x)
    BY <1>7
  <1> HIDE DEF debug, rows
  <1> QED
    BY <1>1, <1>8, TableOf DEF Shared

LEMMA TakesOwned ==
  \A f \in Features : \A ch \in DOMAIN Periph!Takes[f] : \A x \in Periph!Takes[f][ch] :
    Owner(ch, x) = f \/ (f = "debug_uart" /\ Owner(ch, x) = "uart")
  BY OwnedBoards, OwnedDebugUart, OwnedTime, OwnedExtint, OwnedI2c, OwnedSpi, OwnedUart, OwnedHwrng, OwnedStorage,
     OwnedBle, OwnedUsb, OwnedEthernet, OwnedCyw43, OwnedEspBle, OwnedWifi DEF Features

(* The drivers of a table operate nothing that their feature did not take, *)
(* and no two of them the same peripheral.                                 *)
Within(drivers, rows) ==
  \A row \in drivers : \A ch \in row[1] : \A dr \in row[2] : \A x \in dr :
    \E q \in rows : ch \in q[1] /\ x \in q[2]

Covers(drivers, rows) == \A row \in rows : \A ch \in row[1] : \E q \in drivers : ch \in q[1]

Apart(drivers) ==
  \A row, other \in drivers : \A ch \in row[1] \cap other[1] : \A dr \in row[2], e \in other[2] :
    dr \cap e # {} => dr = e

LEMMA WithinJoins ==
  ASSUME NEW a, NEW b1, NEW t, NEW u, Within(a, t), Within(b1, u)
  PROVE  Within(a \cup b1, t \cup u)
  BY DEF Within

LEMMA CoversJoins ==
  ASSUME NEW a, NEW b1, NEW t, NEW u, Covers(a, t), Covers(b1, u)
  PROVE  Covers(a \cup b1, t \cup u)
  BY DEF Covers

(* Where each driver operates one peripheral.                              *)
LEMMA SingleRows ==
  ASSUME NEW rows
  PROVE  /\ Apart(Periph!Singly(rows))
         /\ \A ch : \A row \in Periph!Singly(rows) : ch \in row[1] =>
              \A dr \in row[2] : \A x \in dr : \E q \in rows : q[1] = row[1] /\ x \in q[2]
         /\ Within(Periph!Singly(rows), rows)
         /\ Covers(Periph!Singly(rows), rows)
  <1>1. \A row \in Periph!Singly(rows) : \E q \in rows : row[1] = q[1] /\ row[2] = {{x} : x \in q[2]}
    BY DEF Periph!Singly
  <1>2. \A q \in rows : \E row \in Periph!Singly(rows) : row[1] = q[1]
    <2>1. \A q \in rows : <<q[1], {{x} : x \in q[2]}>> \in Periph!Singly(rows)
      BY DEF Periph!Singly
    <2> QED
      BY <2>1
  <1>3. \A row \in Periph!Singly(rows) : \A dr \in row[2] : \E x : dr = {x}
    BY <1>1
  <1>4. \A dr, e, x, y : dr = {x} /\ e = {y} /\ dr \cap e # {} => dr = e
    OBVIOUS
  <1>5. Apart(Periph!Singly(rows))
    BY <1>3, <1>4 DEF Apart
  <1>6. \A row \in Periph!Singly(rows) : \A dr \in row[2] : \A x \in dr :
          \E q \in rows : q[1] = row[1] /\ x \in q[2]
    BY <1>1
  <1>7. Within(Periph!Singly(rows), rows)
    BY <1>6 DEF Within
  <1>8. Covers(Periph!Singly(rows), rows)
    BY <1>2 DEF Covers
  <1> QED
    BY <1>5, <1>6, <1>7, <1>8


(* What the rows of drivers have, the other rows have too.                 *)
Below(drivers, rows) ==
  \A row \in drivers : \A ch \in row[1] : \A x \in row[2] : \E q \in rows : ch \in q[1] /\ x \in q[2]

LEMMA SingleDrivers ==
  ASSUME NEW drivers, NEW rows, Below(drivers, rows), Covers(drivers, rows)
  PROVE  /\ Within(Periph!Singly(drivers), rows)
         /\ Covers(Periph!Singly(drivers), rows)
  <1>1. Within(Periph!Singly(drivers), rows)
    BY SingleRows DEF Within, Below
  <1>2. Covers(Periph!Singly(drivers), rows)
    BY SingleRows DEF Covers
  <1> QED
    BY <1>1, <1>2

LEMMA ApartJoins ==
  ASSUME NEW a, NEW b1, Apart(a), Apart(b1),
         \A row \in a, other \in b1 : row[1] \cap other[1] = {}
  PROVE  Apart(a \cup b1)
  BY DEF Apart

LEMMA TableOfDrivers ==
  ASSUME NEW drivers, NEW rows, Within(drivers, rows), Covers(drivers, rows), Apart(drivers),
         NEW ch \in DOMAIN Periph!Table(rows)
  PROVE  /\ ch \in DOMAIN Periph!Table(drivers)
         /\ \A dr \in Periph!Table(drivers)[ch] : dr \subseteq Periph!Table(rows)[ch]
         /\ \A dr, e \in Periph!Table(drivers)[ch] : dr \cap e # {} => dr = e
  <1>1. ch \in DOMAIN Periph!Table(drivers)
    BY TableOf DEF Covers
  <1>2. \A dr \in Periph!Table(drivers)[ch] : \E row \in drivers : ch \in row[1] /\ dr \in row[2]
    BY <1>1, TableOf
  <1>3. ASSUME NEW dr \in Periph!Table(drivers)[ch], NEW x \in dr
        PROVE  x \in Periph!Table(rows)[ch]
    BY <1>2, TableOf DEF Within
  <1>4. ASSUME NEW dr \in Periph!Table(drivers)[ch], NEW e \in Periph!Table(drivers)[ch], dr \cap e # {}
        PROVE  dr = e
    <2>1. PICK row \in drivers : ch \in row[1] /\ dr \in row[2]
      BY <1>2
    <2>2. PICK other \in drivers : ch \in other[1] /\ e \in other[2]
      BY <1>2
    <2> QED
      BY <2>1, <2>2, <1>4 DEF Apart
  <1> QED
    BY <1>1, <1>3, <1>4

LEMMA Stm32I2cDriversHave ==
  /\ Below(Periph!Stm32I2cDrivers, Periph!Stm32I2cInit)
  /\ Covers(Periph!Stm32I2cDrivers, Periph!Stm32I2cInit)
  <1>1. Below(Periph!Stm32I2cDrivers, Periph!Stm32I2cInit)
    BY DEF Below, Periph!Stm32I2cDrivers, Periph!Stm32I2cInit, Periph!Many, Periph!H7, Periph!U0
  <1>2. Covers(Periph!Stm32I2cDrivers, Periph!Stm32I2cInit)
    BY DEF Covers, Periph!Stm32I2cDrivers, Periph!Stm32I2cInit, Periph!H7, Periph!U0
  <1> QED
    BY <1>1, <1>2

LEMMA Stm32SpiDriversHave ==
  /\ Below(Periph!Stm32SpiDrivers, Periph!Stm32SpiInit)
  /\ Covers(Periph!Stm32SpiDrivers, Periph!Stm32SpiInit)
  <1>1. Below(Periph!Stm32SpiDrivers, Periph!Stm32SpiInit)
    BY DEF Below, Periph!Stm32SpiDrivers, Periph!Stm32SpiInit, Periph!Many, Periph!H7, Periph!U0
  <1>2. Covers(Periph!Stm32SpiDrivers, Periph!Stm32SpiInit)
    BY DEF Covers, Periph!Stm32SpiDrivers, Periph!Stm32SpiInit, Periph!H7, Periph!U0
  <1> QED
    BY <1>1, <1>2

LEMMA Stm32UartDriversHave ==
  /\ Below(Periph!Stm32UartDrivers, Periph!Stm32UartInit)
  /\ Covers(Periph!Stm32UartDrivers, Periph!Stm32UartInit)
  <1>1. Below(Periph!Stm32UartDrivers, Periph!Stm32UartInit)
    BY DEF Below, Periph!Stm32UartDrivers, Periph!Stm32UartInit, Periph!Many, Periph!H7, Periph!U0
  <1>2. Covers(Periph!Stm32UartDrivers, Periph!Stm32UartInit)
    BY DEF Covers, Periph!Stm32UartDrivers, Periph!Stm32UartInit, Periph!H7, Periph!U0
  <1> QED
    BY <1>1, <1>2

LEMMA NrfSpiDriversHave ==
  /\ Below(Periph!NrfSpiDrivers, Periph!NrfSpiInit)
  /\ Covers(Periph!NrfSpiDrivers, Periph!NrfSpiInit)
  BY DEF Below, Covers, Periph!NrfSpiDrivers, Periph!NrfSpiInit, Periph!Many

LEMMA NrfUartDriversHave ==
  /\ Within(Periph!NrfUartDrivers, Periph!NrfUartInit)
  /\ Covers(Periph!NrfUartDrivers, Periph!NrfUartInit)
  /\ Apart(Periph!NrfUartDrivers)
  <1>1. Within(Periph!NrfUartDrivers, Periph!NrfUartInit)
    BY DEF Within, Periph!NrfUartDrivers, Periph!NrfUart, Periph!NrfUartInit, Periph!Many
  <1>2. Covers(Periph!NrfUartDrivers, Periph!NrfUartInit)
    BY DEF Covers, Periph!NrfUartDrivers, Periph!NrfUartInit
  <1>3. Apart(Periph!NrfUartDrivers)
    <2>1. \A row, other \in Periph!NrfUartDrivers : row[1] \cap other[1] # {} => row[2] = other[2]
      BY DEF Periph!NrfUartDrivers
    <2>2. Periph!NrfUart(<<"UARTE", 0>>, 3, 13, 14, 4) \cap Periph!NrfUart(<<"UARTE", 1>>, 4, 15, 16, 5) = {}
      BY DEF Periph!NrfUart
    <2>3. ASSUME NEW row \in Periph!NrfUartDrivers, NEW dr \in row[2], NEW e \in row[2], dr \cap e # {}
          PROVE  dr = e
      BY <2>2, <2>3 DEF Periph!NrfUartDrivers
    <2> QED
      BY <2>1, <2>3 DEF Apart
  <1> QED
    BY <1>1, <1>2, <1>3

LEMMA I2cDriversHave ==
  ASSUME NEW ch \in DOMAIN Periph!Takes["i2c"]
  PROVE  /\ ch \in DOMAIN Periph!DriverTypes["i2c"]
         /\ \A dr \in Periph!DriverTypes["i2c"][ch] : dr \subseteq Periph!Takes["i2c"][ch]
         /\ \A dr, e \in Periph!DriverTypes["i2c"][ch] : dr \cap e # {} => dr = e
  <1> DEFINE drivers == Periph!NrfI2cDrivers \cup Periph!Stm32I2cDrivers \cup Periph!RpI2cInit \cup Periph!EspI2cInit
             rows == Periph!NrfI2cInit \cup Periph!Stm32I2cInit \cup Periph!RpI2cInit \cup Periph!EspI2cInit
  <1>1. Below(drivers, rows) /\ Covers(drivers, rows)
    BY Stm32I2cDriversHave DEF Below, Covers, Periph!NrfI2cDrivers
  <1>2. /\ Periph!Takes["i2c"] = Periph!Table(rows)
        /\ Periph!DriverTypes["i2c"] = Periph!Table(Periph!Singly(drivers))
    BY DEF Periph!Takes, Periph!DriverTypes
  <1> HIDE DEF drivers, rows
  <1> QED
    BY <1>1, <1>2, SingleDrivers, SingleRows, TableOfDrivers

LEMMA SpiDriversHave ==
  ASSUME NEW ch \in DOMAIN Periph!Takes["spi"]
  PROVE  /\ ch \in DOMAIN Periph!DriverTypes["spi"]
         /\ \A dr \in Periph!DriverTypes["spi"][ch] : dr \subseteq Periph!Takes["spi"][ch]
         /\ \A dr, e \in Periph!DriverTypes["spi"][ch] : dr \cap e # {} => dr = e
  <1> DEFINE drivers == Periph!NrfSpiDrivers \cup Periph!Stm32SpiDrivers \cup Periph!RpSpiInit \cup Periph!EspSpiInit
             rows == Periph!NrfSpiInit \cup Periph!Stm32SpiInit \cup Periph!RpSpiInit \cup Periph!EspSpiInit
  <1>1. Below(drivers, rows) /\ Covers(drivers, rows)
    BY NrfSpiDriversHave, Stm32SpiDriversHave DEF Below, Covers
  <1>2. /\ Periph!Takes["spi"] = Periph!Table(rows)
        /\ Periph!DriverTypes["spi"] = Periph!Table(Periph!Singly(drivers))
    BY DEF Periph!Takes, Periph!DriverTypes
  <1> HIDE DEF drivers, rows
  <1> QED
    BY <1>1, <1>2, SingleDrivers, SingleRows, TableOfDrivers

LEMMA UartDriversHave ==
  ASSUME NEW ch \in DOMAIN Periph!Takes["uart"]
  PROVE  /\ ch \in DOMAIN Periph!DriverTypes["uart"]
         /\ \A dr \in Periph!DriverTypes["uart"][ch] : dr \subseteq Periph!Takes["uart"][ch]
         /\ \A dr, e \in Periph!DriverTypes["uart"][ch] : dr \cap e # {} => dr = e
  <1> DEFINE single == Periph!Stm32UartDrivers \cup Periph!RpUartInit \cup Periph!EspUartInit
             others == Periph!Stm32UartInit \cup Periph!RpUartInit \cup Periph!EspUartInit
             drivers == Periph!NrfUartDrivers \cup Periph!Singly(single)
             rows == Periph!NrfUartInit \cup others
  <1>1. Below(single, others) /\ Covers(single, others)
    BY Stm32UartDriversHave DEF Below, Covers
  <1>2. \A row \in Periph!NrfUartDrivers, q \in single : row[1] \cap q[1] = {}
    BY DEF Periph!NrfUartDrivers, Periph!Stm32UartDrivers, Periph!RpUartInit, Periph!EspUartInit,
           Periph!H7, Periph!U0, Periph!Rp
  <1>3. \A row \in Periph!Singly(single) : \E q \in single : row[1] = q[1]
    BY DEF Periph!Singly
  <1>4. /\ Periph!Takes["uart"] = Periph!Table(rows)
        /\ Periph!DriverTypes["uart"] = Periph!Table(drivers)
    <2>1. rows = Periph!NrfUartInit \cup Periph!Stm32UartInit \cup Periph!RpUartInit \cup Periph!EspUartInit
      OBVIOUS
    <2> QED
      BY <2>1 DEF Periph!Takes, Periph!DriverTypes
  <1> HIDE DEF single, others
  <1>5. Within(drivers, rows) /\ Covers(drivers, rows)
    BY <1>1, NrfUartDriversHave, SingleDrivers, WithinJoins, CoversJoins
  <1>6. Apart(drivers)
    BY <1>2, <1>3, NrfUartDriversHave, SingleRows, ApartJoins
  <1> HIDE DEF drivers, rows
  <1> QED
    BY <1>4, <1>5, <1>6, TableOfDrivers

(* What a driver steals was taken for it, and no other driver has it.      *)
LEMMA DriversHave ==
  ASSUME NEW f \in DOMAIN Periph!DriverTypes, NEW ch \in DOMAIN Periph!Takes[f]
  PROVE  /\ ch \in DOMAIN Periph!DriverTypes[f]
         /\ \A dr \in Periph!DriverTypes[f][ch] : dr \subseteq Periph!Takes[f][ch]
         /\ \A dr, e \in Periph!DriverTypes[f][ch] : dr \cap e # {} => dr = e
  <1>1. f \in {"i2c", "spi", "uart"}
    BY DEF Periph!DriverTypes
  <1> QED
    BY <1>1, I2cDriversHave, SpiDriversHave, UartDriversHave

-----------------------------------------------------------------------------
(* What each user of a peripheral is, and what has been taken for whom.    *)
Steps == Periph!InitSteps

(* The steps of init_task that took the peripherals of their feature.      *)
Taken(v, i) == i \in 1 .. v.step /\ Steps[i] \in v.features

TaskUse(v, u) ==
  /\ u[1] = <<"task">>
  /\ \A i : Taken(v, i) => u[2] \notin Periph!Takes[Steps[i]][v.chip]

SystemUse(v, u) ==
  \E i : /\ Taken(v, i)
         /\ Steps[i] \notin Periph!Kept
         /\ u[1] = <<Steps[i]>>
         /\ u[2] \in Periph!Takes[Steps[i]][v.chip]

DriverUse(v, u) ==
  \E f \in v.features \cap DOMAIN Periph!DriverTypes : \E dr \in Periph!DriverTypes[f][v.chip] :
    u[1] = <<f, dr, 1>> /\ u[2] \in dr /\ \E i : Taken(v, i) /\ Steps[i] = f

ChannelUse(v, u) ==
  /\ u[1] \in v.channels
  /\ u[2] = <<"EXTI", u[1][2]>>
  /\ v.chip \in Periph!Stm32 /\ "extint" \in v.features

PeriphType(v) ==
  /\ v = [chip |-> v.chip, features |-> v.features, step |-> v.step, gone |-> v.gone, uses |-> v.uses,
          channels |-> v.channels, claims |-> v.claims, panic |-> v.panic]
  /\ v.features \subseteq Features
  /\ \A f \in v.features : v.chip \in DOMAIN Periph!Takes[f]
  /\ v.step \in 0 .. 16
  /\ v.channels \subseteq Pins
  /\ v.panic \in BOOLEAN

(* A step took all of its feature; what is gone was taken by a step or a   *)
(* task.                                                                   *)
GoneInv(v) ==
  /\ \A i : Taken(v, i) => Periph!Takes[Steps[i]][v.chip] \subseteq v.gone
  /\ \A x \in v.gone : \/ \E i : Taken(v, i) /\ x \in Periph!Takes[Steps[i]][v.chip]
                       \/ <<<<"task">>, x>> \in v.uses

UsesInv(v) ==
  /\ \A u \in v.uses : u[2] \in v.gone
  /\ \A u \in v.uses : TaskUse(v, u) \/ SystemUse(v, u) \/ DriverUse(v, u) \/ ChannelUse(v, u)

Distinct(v) == \A q1, q2 \in v.channels : v.chip \in Periph!Stm32 /\ q1[2] = q2[2] => q1 = q2

OneUserOf(v) == \A u1, u2 \in v.uses : u1[2] = u2[2] => u1[1] = u2[1]

WantedOf(v) == IF Steps[v.step + 1] \in v.features THEN Periph!Takes[Steps[v.step + 1]][v.chip] ELSE {}

(* With the UART of debug_uart::init gone, uart::init is never done.       *)
BothUarts(v) == {"debug_uart", "uart"} \subseteq v.features

Exclusive(v) == BothUarts(v) => v.step < 7

PanicsForTasks(v) ==
  v.panic => \/ \E u \in v.uses : u[1] = <<"task">> /\ u[2] \in WantedOf(v)
             \/ BothUarts(v) /\ Steps[v.step + 1] = "uart"

PeriphInv(v) ==
  /\ PeriphType(v) /\ GoneInv(v) /\ UsesInv(v) /\ Distinct(v) /\ OneUserOf(v) /\ Exclusive(v)
  /\ PanicsForTasks(v)

LEMMA InitStepsFacts ==
  /\ Len(Steps) = 16
  /\ \A i, j \in 1 .. 16 : Steps[i] = Steps[j] => i = j
  /\ Steps[2] = "debug_uart" /\ Steps[4] = "extint" /\ Steps[5] = "i2c" /\ Steps[6] = "spi"
  /\ Steps[7] = "uart" /\ Steps[12] = "tasks"
  /\ "tasks" \notin Features
  BY DEF Steps, Periph!InitSteps, Features

(* A peripheral belongs to one feature, but for the UART of both.          *)
LEMMA OneFeature ==
  ASSUME NEW f \in Features, NEW g \in Features, NEW ch \in DOMAIN Periph!Takes[f] \cap DOMAIN Periph!Takes[g],
         NEW x \in Periph!Takes[f][ch] \cap Periph!Takes[g][ch]
  PROVE  f = g \/ {f, g} = {"debug_uart", "uart"}
  BY TakesOwned

LEMMA OneStep ==
  ASSUME NEW v, PeriphType(v), NEW i \in 1 .. 16, NEW j \in 1 .. 16, Steps[i] \in v.features, Steps[j] \in v.features,
         NEW x \in Periph!Takes[Steps[i]][v.chip] \cap Periph!Takes[Steps[j]][v.chip]
  PROVE  i = j \/ (BothUarts(v) /\ {Steps[i], Steps[j]} = {"debug_uart", "uart"})
  <1>1. Steps[i] = Steps[j] \/ {Steps[i], Steps[j]} = {"debug_uart", "uart"}
    BY OneFeature DEF PeriphType
  <1> QED
    BY <1>1, InitStepsFacts DEF BothUarts

(* Of the steps that are done, only one took a peripheral.                 *)
LEMMA OneTaken ==
  ASSUME NEW v, PeriphType(v), Exclusive(v), NEW i, NEW j, Taken(v, i), Taken(v, j),
         NEW x \in Periph!Takes[Steps[i]][v.chip] \cap Periph!Takes[Steps[j]][v.chip]
  PROVE  i = j
  <1>1. /\ i \in 1 .. 16 /\ j \in 1 .. 16 /\ i <= v.step /\ j <= v.step /\ v.step \in Int
        /\ Steps[i] \in v.features /\ Steps[j] \in v.features
    BY DEF Taken, PeriphType
  <1>2. ASSUME BothUarts(v), {Steps[i], Steps[j]} = {"debug_uart", "uart"}
        PROVE  FALSE
    <2>1. v.step < 7
      BY <1>2 DEF Exclusive
    <2>2. Steps[i] = "uart" \/ Steps[j] = "uart"
      BY <1>2
    <2>3. i = 7 \/ j = 7
      BY <1>1, <2>2, InitStepsFacts
    <2> QED
      BY <1>1, <2>1, <2>3
  <1> QED
    BY <1>1, <1>2, OneStep

(* Once the tasks run, the interrupts and the buses have been taken.       *)
LEMMA KeptTaken ==
  ASSUME NEW v, PeriphType(v), v.step >= 12
  PROVE  /\ \A f \in v.features \cap DOMAIN Periph!DriverTypes : \E i \in 1 .. 16 : Taken(v, i) /\ Steps[i] = f
         /\ "extint" \in v.features => Taken(v, 4) /\ Steps[4] = "extint"
  <1>1. v.step \in Int /\ 4 \in 1 .. v.step /\ 5 \in 1 .. v.step /\ 6 \in 1 .. v.step /\ 7 \in 1 .. v.step
    BY DEF PeriphType
  <1>2. DOMAIN Periph!DriverTypes = {"i2c", "spi", "uart"}
    BY DEF Periph!DriverTypes
  <1> QED
    BY <1>1, <1>2, InitStepsFacts DEF Taken

(* The interrupts of an STM32.                                             *)
LEMMA InterruptsTaken ==
  ASSUME NEW ch \in Periph!Stm32, NEW i \in 0 .. 15
  PROVE  ch \in DOMAIN Periph!Takes["extint"] /\ <<"EXTI", i>> \in Periph!Takes["extint"][ch]
  <1>1. Periph!Takes["extint"] = Periph!Table(Periph!Stm32Extint)
    BY DEF Periph!Takes
  <1>2. \E row \in Periph!Stm32Extint : ch \in row[1] /\ <<"EXTI", i>> \in row[2]
    BY DEF Periph!Stm32Extint, Periph!Many
  <1> QED
    BY <1>1, <1>2, TableOf

LEMMA PeriphInitOk ==
  ASSUME Periph!Init
  PROVE  PeriphInv(p)
  <1>1. PICK ch \in Periph!Chips, fs \in FeatureSets :
          (\A f \in fs : ch \in DOMAIN Periph!Takes[f]) /\ p = Periph!Booting(ch, fs)
    BY DEF Periph!Init
  <1>2. /\ p.chip = ch /\ p.features = fs /\ p.step = 0 /\ p.gone = {} /\ p.uses = {} /\ p.channels = {}
        /\ p.claims = 0 /\ p.panic = FALSE
    BY <1>1 DEF Periph!Booting
  <1>3. PeriphType(p)
    BY <1>1, <1>2, FeaturesAssumption DEF PeriphType, Periph!Booting
  <1>4. ~\E i : Taken(p, i)
    BY <1>2 DEF Taken
  <1> QED
    BY <1>2, <1>3, <1>4 DEF PeriphInv, GoneInv, UsesInv, Distinct, OneUserOf, Exclusive, PanicsForTasks

(* A use of the peripheral x stays what it is when more is taken for       *)
(* others, and a feature that has not been taken has no use.               *)
LEMMA UsesStay ==
  ASSUME NEW v, NEW t, NEW u,
         t.features = v.features, t.chip = v.chip, v.channels \subseteq t.channels,
         \A i : Taken(v, i) => Taken(t, i),
         \A i : Taken(t, i) /\ ~Taken(v, i) => u[2] \notin Periph!Takes[Steps[i]][v.chip],
         TaskUse(v, u) \/ SystemUse(v, u) \/ DriverUse(v, u) \/ ChannelUse(v, u)
  PROVE  TaskUse(t, u) \/ SystemUse(t, u) \/ DriverUse(t, u) \/ ChannelUse(t, u)
  <1>1. CASE TaskUse(v, u)
    BY <1>1 DEF TaskUse
  <1>2. CASE SystemUse(v, u)
    BY <1>2 DEF SystemUse
  <1>3. CASE DriverUse(v, u)
    BY <1>3 DEF DriverUse
  <1>4. CASE ChannelUse(v, u)
    BY <1>4 DEF ChannelUse
  <1> QED
    BY <1>1, <1>2, <1>3, <1>4

(* Who uses what a step that is done has taken, is no task.                *)
LEMMA UserOfTaken ==
  ASSUME NEW v, PeriphInv(v), NEW u \in v.uses, NEW i, Taken(v, i), u[2] \in Periph!Takes[Steps[i]][v.chip]
  PROVE  \/ /\ Steps[i] \notin Periph!Kept
            /\ u[1] = <<Steps[i]>>
         \/ /\ Steps[i] \in DOMAIN Periph!DriverTypes
            /\ \E dr \in Periph!DriverTypes[Steps[i]][v.chip] : u[1] = <<Steps[i], dr, 1>> /\ u[2] \in dr
         \/ Steps[i] = "extint" /\ ChannelUse(v, u)
  <1>1. PeriphType(v) /\ i \in 1 .. 16 /\ Steps[i] \in v.features /\ Steps[i] \in Features
    BY DEF PeriphInv, PeriphType, Taken
  <1>2. v.chip \in DOMAIN Periph!Takes[Steps[i]]
    BY <1>1 DEF PeriphType
  <1>3. TaskUse(v, u) \/ SystemUse(v, u) \/ DriverUse(v, u) \/ ChannelUse(v, u)
    BY DEF PeriphInv, UsesInv
  <1>4. ~TaskUse(v, u)
    BY DEF TaskUse
  <1>5. CASE SystemUse(v, u)
    <2>1. PICK j : /\ Taken(v, j) /\ Steps[j] \notin Periph!Kept /\ u[1] = <<Steps[j]>>
                   /\ u[2] \in Periph!Takes[Steps[j]][v.chip]
      BY <1>5 DEF SystemUse
    <2>2. i = j
      BY <1>1, <2>1, OneTaken DEF PeriphInv
    <2> QED
      BY <2>1, <2>2
  <1>6. CASE DriverUse(v, u)
    <2>1. PICK f \in v.features \cap DOMAIN Periph!DriverTypes :
            /\ \E dr \in Periph!DriverTypes[f][v.chip] : u[1] = <<f, dr, 1>> /\ u[2] \in dr
            /\ \E j : Taken(v, j) /\ Steps[j] = f
      BY <1>6 DEF DriverUse
    <2>2. f \in Features /\ v.chip \in DOMAIN Periph!Takes[f]
      BY <1>1 DEF PeriphType
    <2>3. u[2] \in Periph!Takes[f][v.chip]
      BY <2>1, <2>2, DriversHave
    <2>4. f = Steps[i]
      BY <1>1, <2>1, <2>3, OneTaken DEF PeriphInv
    <2> QED
      BY <2>1, <2>4
  <1>7. CASE ChannelUse(v, u)
    <2>1. PICK q \in Pins : u[1] = q /\ u[2] = <<"EXTI", q[2]>>
      BY <1>1, <1>7 DEF ChannelUse, PeriphType
    <2>2. q[2] \in 0 .. 15
      BY <2>1, PinsAssumption
    <2>3. v.chip \in DOMAIN Periph!Takes["extint"] /\ u[2] \in Periph!Takes["extint"][v.chip]
      BY <1>7, <2>1, <2>2, InterruptsTaken DEF ChannelUse
    <2>4. "extint" \in Features
      BY DEF Features
    <2>5. Steps[i] = "extint" \/ {Steps[i], "extint"} = {"debug_uart", "uart"}
      BY <1>1, <1>2, <2>3, <2>4, OneFeature
    <2> QED
      BY <1>7, <2>5
  <1> QED
    BY <1>3, <1>4, <1>5, <1>6, <1>7

LEMMA InitStepKeeps ==
  ASSUME PeriphInv(p), Periph!InitStep
  PROVE  PeriphInv(p')
  <1> DEFINE k1 == p.step + 1
             want == WantedOf(p)
  <1>1. PeriphType(p) /\ GoneInv(p) /\ UsesInv(p) /\ Distinct(p) /\ OneUserOf(p) /\ Exclusive(p)
    BY DEF PeriphInv
  <1>2. /\ p.panic = FALSE /\ p.step < 16
        /\ p' = IF want \cap p.gone # {}
                THEN [p EXCEPT !.panic = TRUE]
                ELSE [p EXCEPT !.step = @ + 1, !.gone = @ \cup want,
                               !.uses = @ \cup (IF Steps[k1] \in Periph!Kept THEN {} ELSE {<<Steps[k1]>>} \X want)]
    BY <1>1, InitStepsFacts DEF Periph!InitStep, Periph!Wanted, Periph!Name, WantedOf, Steps, PeriphType
  <1>3. k1 \in 1 .. 16 /\ p.step \in 0 .. 15 /\ k1 \in Int
    BY <1>1, <1>2 DEF PeriphType
  <1>4. CASE want \cap p.gone # {}
    <2>1. p' = [p EXCEPT !.panic = TRUE]
      BY <1>2, <1>4
    <2>2. /\ p'.chip = p.chip /\ p'.features = p.features /\ p'.step = p.step /\ p'.gone = p.gone
          /\ p'.uses = p.uses /\ p'.channels = p.channels /\ p'.panic = TRUE
      BY <2>1, <1>1 DEF PeriphType
    <2>3. PeriphType(p')
      <3>1. p' = [chip |-> p'.chip, features |-> p'.features, step |-> p'.step, gone |-> p'.gone,
                  uses |-> p'.uses, channels |-> p'.channels, claims |-> p'.claims, panic |-> p'.panic]
        BY <2>1, <1>1 DEF PeriphType
      <3> QED
        BY <3>1, <2>2, <1>1 DEF PeriphType
    <2>4. \A i : Taken(p', i) <=> Taken(p, i)
      BY <2>2 DEF Taken
    <2>5. GoneInv(p') /\ Distinct(p') /\ OneUserOf(p') /\ Exclusive(p')
      BY <2>2, <2>4, <1>1 DEF GoneInv, Distinct, OneUserOf, Exclusive, BothUarts
    <2>6. UsesInv(p')
      BY <2>2, <2>4, <1>1, UsesStay DEF UsesInv
    <2>7. PICK x : x \in want /\ x \in p.gone
      BY <1>4
    <2>8. ASSUME NEW i, Taken(p, i), x \in Periph!Takes[Steps[i]][p.chip]
          PROVE  BothUarts(p) /\ Steps[k1] = "uart"
      <3>1. Taken(p, i) /\ x \in Periph!Takes[Steps[i]][p.chip]
        BY <2>8
      <3>2. i \in 1 .. p.step /\ i \in 1 .. 16 /\ Steps[i] \in p.features
        BY <3>1, <1>3 DEF Taken
      <3>3. Steps[k1] \in p.features /\ x \in Periph!Takes[Steps[k1]][p.chip]
        BY <2>7 DEF WantedOf
      <3>4. i # k1
        BY <3>2, <1>3
      <3>5. BothUarts(p) /\ {Steps[i], Steps[k1]} = {"debug_uart", "uart"}
        BY <1>1, <1>3, <3>1, <3>2, <3>3, <3>4, OneStep
      <3>6. Steps[i] # "uart"
        <4>1. p.step < 7
          BY <3>5, <1>1 DEF Exclusive
        <4>2. i # 7
          BY <4>1, <3>2, <1>3
        <4> QED
          BY <4>2, <3>2, InitStepsFacts
      <3> QED
        BY <3>5, <3>6
    <2>9. \/ <<<<"task">>, x>> \in p.uses
          \/ BothUarts(p) /\ Steps[k1] = "uart"
      BY <2>7, <2>8, <1>1 DEF GoneInv
    <2>10. WantedOf(p') = want
      BY <2>2 DEF WantedOf
    <2>11. PanicsForTasks(p')
      <3> DEFINE u == <<<<"task">>, x>>
      <3>1. CASE u \in p.uses
        <4>1. u \in p'.uses /\ u[1] = <<"task">> /\ u[2] \in WantedOf(p')
          BY <2>2, <2>7, <3>1, <2>10
        <4> QED
          BY <4>1 DEF PanicsForTasks
      <3>2. CASE BothUarts(p) /\ Steps[k1] = "uart"
        BY <2>2, <3>2 DEF PanicsForTasks, BothUarts
      <3> QED
        BY <2>9, <3>1, <3>2
    <2> QED
      BY <2>3, <2>5, <2>6, <2>11 DEF PeriphInv
  <1>5. CASE want \cap p.gone = {}
    <2> DEFINE more == IF Steps[k1] \in Periph!Kept THEN {} ELSE {<<Steps[k1]>>} \X want
    <2>1. p' = [p EXCEPT !.step = p.step + 1, !.gone = p.gone \cup want, !.uses = p.uses \cup more]
      BY <1>2, <1>5
    <2> HIDE DEF want, more
    <2>2. /\ p'.chip = p.chip /\ p'.features = p.features /\ p'.step = k1 /\ p'.gone = p.gone \cup want
          /\ p'.uses = p.uses \cup more /\ p'.channels = p.channels /\ p'.panic = FALSE
      BY <2>1, <1>1, <1>2 DEF PeriphType
    <2>3. PeriphType(p')
      <3>1. p' = [chip |-> p'.chip, features |-> p'.features, step |-> p'.step, gone |-> p'.gone,
                  uses |-> p'.uses, channels |-> p'.channels, claims |-> p'.claims, panic |-> p'.panic]
        BY <2>1, <1>1 DEF PeriphType
      <3>2. p'.step \in 0 .. 16
        BY <2>2, <1>3
      <3> HIDE DEF k1
      <3> QED
        BY <3>1, <3>2, <2>2, <1>1 DEF PeriphType
    <2>4. \A i : Taken(p', i) <=> (Taken(p, i) \/ (i = k1 /\ Steps[k1] \in p.features))
      BY <2>2, <1>3 DEF Taken
    <2>5. Steps[k1] \in p.features => want = Periph!Takes[Steps[k1]][p.chip]
      BY DEF want, WantedOf
    <2>6. \A x \in want : Steps[k1] \in p.features
      BY DEF want, WantedOf
    <2>7. \A u \in more : u[1] = <<Steps[k1]>> /\ u[2] \in want /\ Steps[k1] \notin Periph!Kept
      BY DEF more
    <2>8. \A u \in p.uses : u[2] \in p.gone /\ u[2] \notin want
      BY <1>1, <1>5 DEF UsesInv
    <2>9. GoneInv(p')
      <3>1. \A i : Taken(p', i) => Periph!Takes[Steps[i]][p'.chip] \subseteq p'.gone
        BY <2>2, <2>4, <2>5, <1>1 DEF GoneInv
      <3>2. ASSUME NEW x \in p'.gone
            PROVE  \/ \E i : Taken(p', i) /\ x \in Periph!Takes[Steps[i]][p'.chip]
                   \/ <<<<"task">>, x>> \in p'.uses
        <4>1. CASE x \in p.gone
          BY <4>1, <2>2, <2>4, <1>1 DEF GoneInv
        <4>2. CASE x \in want
          BY <4>2, <2>2, <2>4, <2>5, <2>6
        <4> QED
          BY <2>2, <3>2, <4>1, <4>2
      <3> QED
        BY <3>1, <3>2 DEF GoneInv
    <2>10. UsesInv(p')
      <3>1. \A u \in p'.uses : u[2] \in p'.gone
        BY <2>2, <2>7, <2>8
      <3>2. ASSUME NEW u \in p.uses
            PROVE  TaskUse(p', u) \/ SystemUse(p', u) \/ DriverUse(p', u) \/ ChannelUse(p', u)
        <4>1. \A i : Taken(p', i) /\ ~Taken(p, i) => u[2] \notin Periph!Takes[Steps[i]][p.chip]
          BY <2>4, <2>5, <2>8
        <4>2. TaskUse(p, u) \/ SystemUse(p, u) \/ DriverUse(p, u) \/ ChannelUse(p, u)
          BY <1>1 DEF UsesInv
        <4> QED
          BY <2>2, <2>4, <4>1, <4>2, UsesStay
      <3>3. ASSUME NEW u \in more
            PROVE  SystemUse(p', u)
        BY <2>2, <2>4, <2>5, <2>6, <2>7, <3>3 DEF SystemUse
      <3> QED
        BY <2>2, <3>1, <3>2, <3>3 DEF UsesInv
    <2>11. Distinct(p')
      BY <2>2, <1>1 DEF Distinct
    <2>12. OneUserOf(p')
      <3>1. ASSUME NEW u1 \in p'.uses, NEW u2 \in p'.uses, u1[2] = u2[2]
            PROVE  u1[1] = u2[1]
        <4>1. CASE u1 \in p.uses /\ u2 \in p.uses
          BY <3>1, <4>1, <1>1 DEF OneUserOf
        <4>2. CASE u1 \in more /\ u2 \in more
          BY <4>2, <2>7
        <4> QED
          BY <2>2, <2>7, <2>8, <3>1, <4>1, <4>2
      <3> QED
        BY <3>1 DEF OneUserOf
    <2>13. PanicsForTasks(p')
      BY <2>2 DEF PanicsForTasks
    <2>14. Exclusive(p')
      <3>1. SUFFICES ASSUME BothUarts(p)
                     PROVE  k1 < 7
        BY <2>2 DEF Exclusive, BothUarts
      <3>2. p.step < 7
        BY <3>1, <1>1 DEF Exclusive
      <3>3. ASSUME k1 = 7
            PROVE  FALSE
        <4>1. Steps[7] = "uart" /\ Steps[2] = "debug_uart" /\ Steps[k1] = "uart"
          BY <3>3, InitStepsFacts
        <4>2. /\ "debug_uart" \in p.features /\ "uart" \in p.features
              /\ p.chip \in DOMAIN Periph!Takes["debug_uart"] \cap DOMAIN Periph!Takes["uart"]
          BY <3>1, <1>1 DEF BothUarts, PeriphType
        <4>3. PICK x \in Periph!Takes["debug_uart"][p.chip] : x \in Periph!Takes["uart"][p.chip]
          BY <4>2, UartsOverlap
        <4>4. 2 \in 1 .. p.step
          BY <3>3, <1>3
        <4>5. Taken(p, 2)
          BY <4>1, <4>2, <4>4 DEF Taken
        <4>6. x \in p.gone
          BY <4>1, <4>3, <4>5, <1>1 DEF GoneInv
        <4>7. x \in want
          BY <2>5, <4>1, <4>2, <4>3
        <4> QED
          BY <4>6, <4>7, <1>5
      <3> QED
        BY <3>2, <3>3, <1>3
    <2> QED
      BY <2>3, <2>9, <2>10, <2>11, <2>12, <2>13, <2>14 DEF PeriphInv
  <1> QED
    BY <1>4, <1>5

(* A claim of the application: what it takes is a task's, and what it      *)
(* operates has no other user.                                             *)
LEMMA ClaimKeeps ==
  ASSUME NEW v, PeriphInv(v), v.panic = FALSE, NEW t,
         t.chip = v.chip, t.features = v.features, t.step = v.step, t.panic = v.panic,
         t = [chip |-> t.chip, features |-> t.features, step |-> t.step, gone |-> t.gone,
              uses |-> t.uses, channels |-> t.channels, claims |-> t.claims, panic |-> t.panic],
         v.uses \subseteq t.uses, v.gone \subseteq t.gone, v.channels \subseteq t.channels, t.channels \subseteq Pins,
         \A x \in t.gone \ v.gone : <<<<"task">>, x>> \in t.uses,
         \A u \in t.uses \ v.uses :
           /\ u[2] \in t.gone
           /\ TaskUse(v, u) \/ DriverUse(v, u) \/ ChannelUse(t, u)
           /\ \A u1 \in t.uses : u1[2] = u[2] => u1[1] = u[1],
         Distinct(t)
  PROVE  PeriphInv(t)
  <1>1. PeriphType(v) /\ GoneInv(v) /\ UsesInv(v) /\ OneUserOf(v)
    BY DEF PeriphInv
  <1>2. PeriphType(t)
    BY <1>1 DEF PeriphType
  <1>3. \A i : Taken(t, i) <=> Taken(v, i)
    BY DEF Taken
  <1>4. GoneInv(t)
    <2>1. \A i : Taken(t, i) => Periph!Takes[Steps[i]][t.chip] \subseteq t.gone
      BY <1>1, <1>3 DEF GoneInv
    <2>2. \A x \in t.gone : \/ \E i : Taken(t, i) /\ x \in Periph!Takes[Steps[i]][t.chip]
                            \/ <<<<"task">>, x>> \in t.uses
      BY <1>1, <1>3 DEF GoneInv
    <2> QED
      BY <2>1, <2>2 DEF GoneInv
  <1>5. UsesInv(t)
    <2>1. \A u \in t.uses : u[2] \in t.gone
      BY <1>1 DEF UsesInv
    <2>2. ASSUME NEW u \in v.uses
          PROVE  TaskUse(t, u) \/ SystemUse(t, u) \/ DriverUse(t, u) \/ ChannelUse(t, u)
      <3>1. TaskUse(v, u) \/ SystemUse(v, u) \/ DriverUse(v, u) \/ ChannelUse(v, u)
        BY <1>1 DEF UsesInv
      <3> QED
        BY <1>3, <3>1, UsesStay
    <2>3. ASSUME NEW u \in t.uses \ v.uses
          PROVE  TaskUse(t, u) \/ SystemUse(t, u) \/ DriverUse(t, u) \/ ChannelUse(t, u)
      BY <1>3, <2>3 DEF TaskUse, DriverUse
    <2> QED
      BY <2>1, <2>2, <2>3 DEF UsesInv
  <1>6. OneUserOf(t)
    BY <1>1 DEF OneUserOf
  <1>7. PanicsForTasks(t)
    BY DEF PanicsForTasks
  <1>8. Exclusive(t)
    BY DEF PeriphInv, Exclusive, BothUarts
  <1> QED
    BY <1>2, <1>4, <1>5, <1>6, <1>7, <1>8 DEF PeriphInv

LEMMA RunningFacts ==
  ASSUME PeriphInv(p), Periph!Running
  PROVE  p.panic = FALSE /\ p.step >= 12 /\ p.step \in 12 .. 16
  <1>1. PeriphType(p)
    BY DEF PeriphInv
  <1>2. p.panic = FALSE /\ \E i \in 1 .. p.step : Steps[i] = "tasks"
    BY <1>1 DEF Periph!Running, Periph!Done, PeriphType, Steps
  <1>3. p.step \in 0 .. 16
    BY <1>1 DEF PeriphType
  <1>4. PICK i \in 1 .. p.step : Steps[i] = "tasks"
    BY <1>2
  <1>5. i \in 1 .. 16
    BY <1>3, <1>4
  <1>6. i = 12
    BY <1>4, <1>5, InitStepsFacts
  <1> QED
    BY <1>2, <1>3, <1>4, <1>6

LEMMA TaskTakesKeeps ==
  ASSUME PeriphInv(p), Periph!TaskTakes
  PROVE  PeriphInv(p')
  <1>1. PeriphType(p) /\ GoneInv(p) /\ UsesInv(p) /\ Distinct(p)
    BY DEF PeriphInv
  <1>2. p.panic = FALSE
    BY RunningFacts DEF Periph!TaskTakes
  <1>3. PICK f \in p.features : \E y \in Periph!Takes[f][p.chip] \ p.gone :
          p' = [p EXCEPT !.claims = @ + 1, !.gone = @ \cup {y}, !.uses = @ \cup {<<<<"task">>, y>>}]
    BY DEF Periph!TaskTakes
  <1>4. PICK x \in Periph!Takes[f][p.chip] \ p.gone :
          p' = [p EXCEPT !.claims = @ + 1, !.gone = @ \cup {x}, !.uses = @ \cup {<<<<"task">>, x>>}]
    BY <1>3
  <1> DEFINE use == <<<<"task">>, x>>
  <1>5. /\ p'.chip = p.chip /\ p'.features = p.features /\ p'.step = p.step /\ p'.gone = p.gone \cup {x}
        /\ p'.uses = p.uses \cup {use} /\ p'.channels = p.channels /\ p'.panic = p.panic
    BY <1>1, <1>4 DEF PeriphType
  <1>6. p' = [chip |-> p'.chip, features |-> p'.features, step |-> p'.step, gone |-> p'.gone,
              uses |-> p'.uses, channels |-> p'.channels, claims |-> p'.claims, panic |-> p'.panic]
    BY <1>1, <1>4 DEF PeriphType
  <1>7. use[1] = <<"task">> /\ use[2] = x
    OBVIOUS
  <1> HIDE DEF use
  <1>8. TaskUse(p, use)
    BY <1>1, <1>4, <1>7 DEF TaskUse, GoneInv
  <1>9. \A u \in p.uses : u[2] # x
    BY <1>1, <1>4 DEF UsesInv
  <1>10. <<<<"task">>, x>> \in p'.uses
    BY <1>5 DEF use
  <1>11. p.channels \subseteq Pins
    BY <1>1 DEF PeriphType
  <1>12. Distinct(p')
    BY <1>1, <1>5 DEF Distinct
  <1>13. \A y \in p'.gone \ p.gone : <<<<"task">>, y>> \in p'.uses
    BY <1>5, <1>10
  <1>14. \A u \in p'.uses \ p.uses :
           /\ u[2] \in p'.gone
           /\ TaskUse(p, u) \/ DriverUse(p, u) \/ ChannelUse(p', u)
           /\ \A u1 \in p'.uses : u1[2] = u[2] => u1[1] = u[1]
    BY <1>5, <1>7, <1>8, <1>9
  <1> QED
    BY <1>2, <1>5, <1>6, <1>11, <1>12, <1>13, <1>14, ClaimKeeps

LEMMA ConstructKeeps ==
  ASSUME PeriphInv(p), Periph!Construct, ~Reconstruct
  PROVE  PeriphInv(p')
  <1>1. PeriphType(p) /\ GoneInv(p) /\ UsesInv(p) /\ Distinct(p)
    BY DEF PeriphInv
  <1>2. p.panic = FALSE /\ p.step >= 12
    BY RunningFacts DEF Periph!Construct
  <1>3. PICK f \in p.features \cap DOMAIN Periph!DriverTypes : \E e \in Periph!DriverTypes[f][p.chip] :
          \E j \in IF Reconstruct THEN {1, 2} ELSE {1} :
            p' = [p EXCEPT !.claims = @ + 1, !.uses = @ \cup ({<<f, e, j>>} \X e)]
    BY DEF Periph!Construct
  <1>4. PICK dr \in Periph!DriverTypes[f][p.chip] :
          p' = [p EXCEPT !.claims = @ + 1, !.uses = @ \cup ({<<f, dr, 1>>} \X dr)]
    BY <1>3
  <1> DEFINE more == {<<f, dr, 1>>} \X dr
  <1>5. /\ p'.chip = p.chip /\ p'.features = p.features /\ p'.step = p.step /\ p'.gone = p.gone
        /\ p'.uses = p.uses \cup more /\ p'.channels = p.channels /\ p'.panic = p.panic
    BY <1>1, <1>4 DEF PeriphType
  <1>6. p' = [chip |-> p'.chip, features |-> p'.features, step |-> p'.step, gone |-> p'.gone,
              uses |-> p'.uses, channels |-> p'.channels, claims |-> p'.claims, panic |-> p'.panic]
    BY <1>1, <1>4 DEF PeriphType
  <1>7. \A u \in more : u[1] = <<f, dr, 1>> /\ u[2] \in dr
    OBVIOUS
  <1> HIDE DEF more
  <1>8. PICK i \in 1 .. 16 : Taken(p, i) /\ Steps[i] = f
    BY <1>1, <1>2, KeptTaken
  <1>9. p.chip \in DOMAIN Periph!Takes[f]
    BY <1>1 DEF PeriphType
  <1>10. dr \subseteq Periph!Takes[f][p.chip] /\ dr \subseteq p.gone
    BY <1>1, <1>8, <1>9, DriversHave DEF GoneInv
  <1>11. ASSUME NEW u \in p.uses, u[2] \in dr
         PROVE  u[1] = <<f, dr, 1>>
    <2>1. u[2] \in Periph!Takes[Steps[i]][p.chip]
      BY <1>8, <1>10, <1>11
    <2>2. f \in {"i2c", "spi", "uart"}
      BY DEF Periph!DriverTypes
    <2>3. \E e \in Periph!DriverTypes[f][p.chip] : u[1] = <<f, e, 1>> /\ u[2] \in e
      BY <1>8, <2>1, <2>2, UserOfTaken DEF Periph!Kept
    <2>4. PICK e \in Periph!DriverTypes[f][p.chip] : u[1] = <<f, e, 1>> /\ u[2] \in e
      BY <2>3
    <2>5. e = dr
      BY <1>9, <1>11, <2>4, DriversHave
    <2> QED
      BY <2>4, <2>5
  <1>12. \A u \in more : DriverUse(p, u)
    BY <1>7, <1>8 DEF DriverUse
  <1>13. \A u \in p'.uses \ p.uses :
           /\ u[2] \in p'.gone
           /\ TaskUse(p, u) \/ DriverUse(p, u) \/ ChannelUse(p', u)
           /\ \A u1 \in p'.uses : u1[2] = u[2] => u1[1] = u[1]
    BY <1>5, <1>7, <1>10, <1>11, <1>12
  <1>14. p.channels \subseteq Pins
    BY <1>1 DEF PeriphType
  <1>15. Distinct(p')
    BY <1>1, <1>5 DEF Distinct
  <1> QED
    BY <1>2, <1>5, <1>6, <1>13, <1>14, <1>15, ClaimKeeps

LEMMA Stm32ChannelKeeps ==
  ASSUME PeriphInv(p), NEW pin \in Pins, Periph!Stm32Channel(pin)
  PROVE  PeriphInv(p')
  <1>1. PeriphType(p) /\ GoneInv(p) /\ UsesInv(p) /\ Distinct(p)
    BY DEF PeriphInv
  <1>2. p.panic = FALSE /\ p.step >= 12
    BY RunningFacts DEF Periph!Stm32Channel
  <1>3. /\ p.chip \in Periph!Stm32 /\ "extint" \in p.features
        /\ \A used \in p.channels : used[2] # pin[2]
        /\ p' = [p EXCEPT !.claims = @ + 1, !.channels = @ \cup {pin},
                          !.uses = @ \cup {<<pin, <<"EXTI", pin[2]>>>>}]
    BY DEF Periph!Stm32Channel
  <1> DEFINE x == <<"EXTI", pin[2]>>
             use == <<pin, x>>
  <1>4. /\ p'.chip = p.chip /\ p'.features = p.features /\ p'.step = p.step /\ p'.gone = p.gone
        /\ p'.uses = p.uses \cup {use} /\ p'.channels = p.channels \cup {pin} /\ p'.panic = p.panic
    BY <1>1, <1>3 DEF PeriphType
  <1>5. p' = [chip |-> p'.chip, features |-> p'.features, step |-> p'.step, gone |-> p'.gone,
              uses |-> p'.uses, channels |-> p'.channels, claims |-> p'.claims, panic |-> p'.panic]
    BY <1>1, <1>3 DEF PeriphType
  <1>6. use[1] = pin /\ use[2] = x
    OBVIOUS
  <1>7. pin[2] \in 0 .. 15
    BY PinsAssumption
  <1>8. x \in Periph!Takes["extint"][p.chip] /\ Taken(p, 4) /\ Steps[4] = "extint"
    BY <1>1, <1>2, <1>3, <1>7, InterruptsTaken, KeptTaken
  <1>9. \A y : x = <<"EXTI", y>> => y = pin[2]
    OBVIOUS
  <1> HIDE DEF x, use
  <1>10. x \in p.gone
    BY <1>1, <1>8 DEF GoneInv
  <1>11. ASSUME NEW u \in p.uses, u[2] = x
         PROVE  FALSE
    <2>1. "extint" \in Periph!Kept /\ "extint" \notin DOMAIN Periph!DriverTypes
      BY DEF Periph!Kept, Periph!DriverTypes
    <2>2. ChannelUse(p, u)
      BY <1>8, <1>11, <2>1, UserOfTaken
    <2>3. u[1] \in p.channels /\ x = <<"EXTI", u[1][2]>>
      BY <1>11, <2>2 DEF ChannelUse
    <2> QED
      BY <1>3, <1>9, <2>3
  <1>12. ChannelUse(p', use)
    BY <1>3, <1>4, <1>6 DEF ChannelUse, x
  <1>13. \A u \in p'.uses \ p.uses :
           /\ u[2] \in p'.gone
           /\ TaskUse(p, u) \/ DriverUse(p, u) \/ ChannelUse(p', u)
           /\ \A u1 \in p'.uses : u1[2] = u[2] => u1[1] = u[1]
    BY <1>4, <1>6, <1>10, <1>11, <1>12
  <1>14. p'.channels \subseteq Pins
    BY <1>1, <1>4 DEF PeriphType
  <1>15. Distinct(p')
    BY <1>1, <1>3, <1>4 DEF Distinct
  <1> QED
    BY <1>2, <1>4, <1>5, <1>13, <1>14, <1>15, ClaimKeeps

LEMMA NrfChannelKeeps ==
  ASSUME PeriphInv(p), NEW pin \in Pins, Periph!NrfChannel(pin)
  PROVE  PeriphInv(p')
  <1>1. PeriphType(p) /\ GoneInv(p) /\ UsesInv(p) /\ Distinct(p)
    BY DEF PeriphInv
  <1>2. p.panic = FALSE
    BY RunningFacts DEF Periph!NrfChannel
  <1>3. p.chip \in Periph!Nrf /\ p' = [p EXCEPT !.claims = @ + 1, !.channels = @ \cup {pin}]
    BY DEF Periph!NrfChannel
  <1>4. /\ p'.chip = p.chip /\ p'.features = p.features /\ p'.step = p.step /\ p'.gone = p.gone
        /\ p'.uses = p.uses /\ p'.channels = p.channels \cup {pin} /\ p'.panic = p.panic
    BY <1>1, <1>3 DEF PeriphType
  <1>5. p' = [chip |-> p'.chip, features |-> p'.features, step |-> p'.step, gone |-> p'.gone,
              uses |-> p'.uses, channels |-> p'.channels, claims |-> p'.claims, panic |-> p'.panic]
    BY <1>1, <1>3 DEF PeriphType
  <1>6. p.chip \notin Periph!Stm32
    BY <1>3 DEF Periph!Nrf, Periph!Stm32, Periph!H7, Periph!U0
  <1>7. p'.channels \subseteq Pins
    BY <1>1, <1>4 DEF PeriphType
  <1>8. Distinct(p')
    BY <1>4, <1>6 DEF Distinct
  <1> QED
    BY <1>2, <1>4, <1>5, <1>7, <1>8, ClaimKeeps

LEMMA PeriphKeeps ==
  ASSUME PeriphInv(p), [Periph!Next]_p, ~Reconstruct
  PROVE  PeriphInv(p')
  BY InitStepKeeps, TaskTakesKeeps, ConstructKeeps, Stm32ChannelKeeps, NrfChannelKeeps
     DEF Periph!Next, PeriphInv, PeriphType, GoneInv, UsesInv, Distinct, OneUserOf, PanicsForTasks, Taken,
         TaskUse, SystemUse, DriverUse, ChannelUse, WantedOf, Exclusive, BothUarts

LEMMA PeripheralsHaveOneUser ==
  ASSUME PeriphInv(p)
  PROVE  Periph!OneUser /\ Periph!InitSucceeds
  <1>1. Periph!OneUser
    BY DEF PeriphInv, OneUserOf, Periph!OneUser
  <1>2. Periph!InitSucceeds
    <2>1. Periph!TwoUarts => ~Periph!Done("uart")
      <3>1. SUFFICES ASSUME Periph!TwoUarts, NEW i \in 1 .. p.step, Steps[i] = "uart"
                     PROVE  FALSE
        BY DEF Periph!Done, Steps
      <3>2. p.step \in 0 .. 16 /\ p.step < 7
        BY <3>1 DEF PeriphInv, PeriphType, Exclusive, BothUarts, Periph!TwoUarts
      <3> QED
        BY <3>1, <3>2, InitStepsFacts
    <2> QED
      BY <2>1 DEF PeriphInv, PanicsForTasks, BothUarts, WantedOf, Steps, Periph!InitSucceeds,
                  Periph!TwoUarts, Periph!Wanted, Periph!Name
  <1> QED
    BY <1>1, <1>2

(* Unless an application constructs a driver twice, which new() does not   *)
(* prevent, no two users operate one peripheral, whatever the features and *)
(* tasks are; init_task panics only for what a task took, or at uart::init *)
(* in a build that has the debug UART too, which never comes further (take *)
(* and steal of the drivers, debug_uart::init, get_interrupt_channel_for_pin).*)
THEOREM PeripheralsAreOwned ==
  ASSUME ~Reconstruct
  PROVE  PlatformSpec => []OneUser
  <1> DEFINE Inv == part = "peripherals" => PeriphInv(p)
  <1>1. PlatformInit => Inv
    BY PeriphInitOk DEF PlatformInit
  <1>2. Inv /\ [PlatformNext]_platformvars => Inv'
    <2> SUFFICES ASSUME Inv, [PlatformNext]_platformvars, part' = "peripherals"
                 PROVE  PeriphInv(p')
      OBVIOUS
    <2>1. part = "peripherals" /\ [Periph!Next]_p
      BY DEF PlatformNext, platformvars
    <2> QED
      BY <2>1, PeriphKeeps
  <1>3. Inv => OneUser
    BY PeripheralsHaveOneUser DEF OneUser
  <1> HIDE DEF Inv
  <1> QED
    BY <1>1, <1>2, <1>3, PTL DEF PlatformSpec

-----------------------------------------------------------------------------
(* Drivers.                                                                *)

I2cRight(hw, x) ==
  /\ hw.sda = "sda_pin" /\ hw.scl = "scl_pin"
  /\ hw.hz = Driver!CommonFrequency[x.frequency] * 1000
  /\ \A key \in DOMAIN x \ {"frequency"} : hw[key] = x[key]

SpiRight(hw, x) ==
  /\ hw.sck = "sck_pin" /\ hw.miso = "miso_pin" /\ hw.mosi = "mosi_pin"
  /\ hw.hz = Driver!SpiFrequency[x.frequency] * 1000
  /\ hw.polarity = IF Driver!Cpol[x.mode] = 1 THEN "IdleHigh" ELSE "IdleLow"
  /\ hw.phase = IF Driver!Cpha[x.mode] = 1 THEN "Second" ELSE "First"
  /\ "bit_order" \in DOMAIN x => hw.order = x.bit_order

UartRight(hw, x) ==
  /\ hw.rx = "rx_pin" /\ hw.tx = "tx_pin"
  /\ hw.rx_buf = "rx_buffer" /\ hw.tx_buf = "tx_buffer"
  /\ x.baudrate[1] = "Hal" => hw.baud = x.baudrate[2]
  /\ x.baudrate = <<"common", "B115200">> => hw.baud = 115200
  /\ hw.data = Driver!Meaning[x.data_bits] /\ hw.stop = Driver!Meaning[x.stop_bits]
  /\ hw.parity \in Driver!ParityMeans[x.parity]

LEMMA I2cFrequencies ==
  /\ Driver!CommonFrequency["_100k"] * Driver!KHZ_TO_HZ = Driver!CommonFrequency["_100k"] * 1000
  /\ Driver!CommonFrequency["_400k"] * Driver!KHZ_TO_HZ = Driver!CommonFrequency["_400k"] * 1000
  /\ Driver!NrfTwimFrequency["_100k"] = Driver!CommonFrequency["_100k"] * 1000
  /\ Driver!NrfTwimFrequency["_400k"] = Driver!CommonFrequency["_400k"] * 1000
  BY DEF Driver!CommonFrequency, Driver!NrfTwimFrequency, Driver!KHZ_TO_HZ

LEMMA NrfI2cRight ==
  ASSUME NEW x \in Driver!NrfI2cConfig
  PROVE  I2cRight(Driver!NrfI2cNew(x), x)
  <1> DEFINE pins == [sda |-> "sda_pin", scl |-> "scl_pin"]
             rest == [hz |-> Driver!NrfTwimFrequency[x.frequency], sda_pullup |-> x.sda_pullup,
                      scl_pullup |-> x.scl_pullup, sda_high_drive |-> x.sda_high_drive,
                      scl_high_drive |-> x.scl_high_drive]
             hw == Driver!NrfI2cNew(x)
  <1>1. hw = Driver!++(pins, rest)
    BY DEF Driver!NrfI2cNew, Driver!HalSdaScl
  <1> HIDE DEF hw
  <1>2. /\ hw.sda = "sda_pin" /\ hw.scl = "scl_pin" /\ hw.hz = Driver!NrfTwimFrequency[x.frequency]
        /\ hw.sda_pullup = x.sda_pullup /\ hw.scl_pullup = x.scl_pullup
        /\ hw.sda_high_drive = x.sda_high_drive /\ hw.scl_high_drive = x.scl_high_drive
    BY <1>1 DEF Driver!++
  <1>3. x.frequency \in {"_100k", "_400k"}
    BY DEF Driver!NrfI2cConfig
  <1>4. DOMAIN x = {"frequency", "sda_pullup", "scl_pullup", "sda_high_drive", "scl_high_drive"}
    BY DEF Driver!NrfI2cConfig
  <1> QED
    BY <1>2, <1>3, <1>4, I2cFrequencies DEF I2cRight, hw

LEMMA Stm32I2cRight ==
  ASSUME NEW x \in Driver!PullupConfig
  PROVE  I2cRight(Driver!Stm32I2cNew(x), x)
  <1> DEFINE pins == [sda |-> "sda_pin", scl |-> "scl_pin"]
             rest == [hz |-> Driver!CommonFrequency[x.frequency] * Driver!KHZ_TO_HZ,
                      sda_pullup |-> x.sda_pullup, scl_pullup |-> x.scl_pullup]
             hw == Driver!Stm32I2cNew(x)
  <1>1. hw = Driver!++(pins, rest)
    BY DEF Driver!Stm32I2cNew, Driver!HalSclSda
  <1> HIDE DEF hw
  <1>2. /\ hw.sda = "sda_pin" /\ hw.scl = "scl_pin"
        /\ hw.hz = Driver!CommonFrequency[x.frequency] * Driver!KHZ_TO_HZ
        /\ hw.sda_pullup = x.sda_pullup /\ hw.scl_pullup = x.scl_pullup
    BY <1>1 DEF Driver!++
  <1>3. x.frequency \in {"_100k", "_400k"}
    BY DEF Driver!PullupConfig
  <1>4. DOMAIN x = {"frequency", "sda_pullup", "scl_pullup"}
    BY DEF Driver!PullupConfig
  <1> QED
    BY <1>2, <1>3, <1>4, I2cFrequencies DEF I2cRight, hw

LEMMA RpAndEspI2cRight ==
  ASSUME NEW x \in Driver!I2cConfig
  PROVE  I2cRight(Driver!RpI2cNew(x), x) /\ I2cRight(Driver!EspI2cNew(x), x)
  <1>1. x.frequency \in {"_100k", "_400k"} /\ DOMAIN x = {"frequency"}
    BY DEF Driver!I2cConfig
  <1>2. I2cRight(Driver!RpI2cNew(x), x)
    <2> DEFINE hw == Driver!RpI2cNew(x)
    <2>1. hw = Driver!++([sda |-> "sda_pin", scl |-> "scl_pin"],
                         [hz |-> Driver!CommonFrequency[x.frequency] * Driver!KHZ_TO_HZ])
      BY DEF Driver!RpI2cNew, Driver!HalSclSda
    <2> HIDE DEF hw
    <2>2. /\ hw.sda = "sda_pin" /\ hw.scl = "scl_pin"
          /\ hw.hz = Driver!CommonFrequency[x.frequency] * Driver!KHZ_TO_HZ
      BY <2>1 DEF Driver!++
    <2> QED
      BY <1>1, <2>2, I2cFrequencies DEF I2cRight, hw
  <1>3. I2cRight(Driver!EspI2cNew(x), x)
    BY <1>1, I2cFrequencies DEF I2cRight, Driver!EspI2cNew
  <1> QED
    BY <1>2, <1>3

LEMMA I2cIsRight ==
  ASSUME NEW f \in Driver!Families, NEW x \in Driver!Configs(f, "i2c")
  PROVE  I2cRight(Driver!I2cNew(f, x), x)
  BY NrfI2cRight, Stm32I2cRight, RpAndEspI2cRight DEF Driver!Families, Driver!Configs, Driver!I2cNew

LEMMA SpiFrequencies ==
  ASSUME NEW fr \in DOMAIN Driver!SpiFrequency
  PROVE  /\ Driver!SpiFrequency[fr] * Driver!KHZ_TO_HZ = Driver!SpiFrequency[fr] * 1000
         /\ Driver!NrfSpimFrequency[fr] = Driver!SpiFrequency[fr] * 1000
  BY DEF Driver!SpiFrequency, Driver!NrfSpimFrequency, Driver!KHZ_TO_HZ

(* The modes of SPI are polarities and phases.                             *)
LEMMA SpiClocks ==
  ASSUME NEW mode \in Driver!SpiModes,
         NEW t, t = Driver!NrfFromMode \/ t = Driver!RpFromMode
  PROVE  /\ t[mode][1] = IF Driver!Cpol[mode] = 1 THEN "IdleHigh" ELSE "IdleLow"
         /\ t[mode][2] = IF Driver!Cpha[mode] = 1 THEN "Second" ELSE "First"
  BY DEF Driver!SpiModes, Driver!NrfFromMode, Driver!RpFromMode, Driver!HalMode, Driver!Cpol, Driver!Cpha

(* Pins, clock and format put together.                                    *)
SpiSet(clk, hz, order) ==
  Driver!++(Driver!++([sck |-> "sck_pin", miso |-> "miso_pin", mosi |-> "mosi_pin"], Driver!Clock(clk)),
            [hz |-> hz, order |-> order])

LEMMA SpiTogether ==
  ASSUME NEW clk, NEW hz, NEW order
  PROVE  /\ SpiSet(clk, hz, order).sck = "sck_pin"
         /\ SpiSet(clk, hz, order).miso = "miso_pin"
         /\ SpiSet(clk, hz, order).mosi = "mosi_pin"
         /\ SpiSet(clk, hz, order).polarity = clk[1]
         /\ SpiSet(clk, hz, order).phase = clk[2]
         /\ SpiSet(clk, hz, order).hz = hz
         /\ SpiSet(clk, hz, order).order = order
  <1> DEFINE pins == [sck |-> "sck_pin", miso |-> "miso_pin", mosi |-> "mosi_pin"]
             form == [polarity |-> clk[1], phase |-> clk[2]]
             both == Driver!++(pins, form)
             rest == [hz |-> hz, order |-> order]
  <1>1. SpiSet(clk, hz, order) = Driver!++(both, rest)
    BY DEF SpiSet, Driver!Clock
  <1>2. /\ DOMAIN both = {"sck", "miso", "mosi", "polarity", "phase"}
        /\ both.sck = "sck_pin" /\ both.miso = "miso_pin" /\ both.mosi = "mosi_pin"
        /\ both.polarity = clk[1] /\ both.phase = clk[2]
    BY DEF Driver!++
  <1> HIDE DEF both
  <1> QED
    BY <1>1, <1>2 DEF Driver!++

LEMMA SpiIsRight ==
  ASSUME NEW f \in Driver!Families, NEW x \in Driver!Configs(f, "spi")
  PROVE  SpiRight(Driver!SpiNew(f, x), x)
  <1>1. x.frequency \in DOMAIN Driver!SpiFrequency /\ x.mode \in Driver!SpiModes
    BY DEF Driver!Families, Driver!Configs, Driver!RpSpiConfig, Driver!SpiConfig
  <1>2. CASE f = "nrf"
    <2> DEFINE hw == Driver!NrfSpiNew(x)
    <2>1. hw = SpiSet(Driver!NrfFromMode[x.mode], Driver!NrfSpimFrequency[x.frequency], x.bit_order)
      BY DEF Driver!NrfSpiNew, Driver!HalSckMisoMosi, SpiSet
    <2>2. Driver!SpiNew(f, x) = hw
      BY <1>2 DEF Driver!SpiNew
    <2> HIDE DEF hw
    <2>3. /\ hw.sck = "sck_pin" /\ hw.miso = "miso_pin" /\ hw.mosi = "mosi_pin"
          /\ hw.polarity = Driver!NrfFromMode[x.mode][1] /\ hw.phase = Driver!NrfFromMode[x.mode][2]
          /\ hw.hz = Driver!NrfSpimFrequency[x.frequency] /\ hw.order = x.bit_order
      BY <2>1, SpiTogether
    <2> QED
      BY <1>1, <2>2, <2>3, SpiClocks, SpiFrequencies DEF SpiRight
  <1>3. CASE f = "stm32"
    <2> DEFINE hw == Driver!Stm32SpiNew(x)
    <2>1. hw = SpiSet(Driver!NrfFromMode[x.mode], Driver!SpiFrequency[x.frequency] * Driver!KHZ_TO_HZ, x.bit_order)
      BY DEF Driver!Stm32SpiNew, Driver!HalSckMosiMiso, Driver!Stm32FromMode, SpiSet
    <2>2. Driver!SpiNew(f, x) = hw
      BY <1>3 DEF Driver!SpiNew
    <2> HIDE DEF hw
    <2>3. /\ hw.sck = "sck_pin" /\ hw.miso = "miso_pin" /\ hw.mosi = "mosi_pin"
          /\ hw.polarity = Driver!NrfFromMode[x.mode][1] /\ hw.phase = Driver!NrfFromMode[x.mode][2]
          /\ hw.hz = Driver!SpiFrequency[x.frequency] * Driver!KHZ_TO_HZ /\ hw.order = x.bit_order
      BY <2>1, SpiTogether
    <2> QED
      BY <1>1, <2>2, <2>3, SpiClocks, SpiFrequencies DEF SpiRight
  <1>4. CASE f = "rp"
    <2> DEFINE hw == Driver!RpSpiNew(x)
    <2>1. hw = SpiSet(Driver!RpFromMode[x.mode], Driver!SpiFrequency[x.frequency] * Driver!KHZ_TO_HZ, "MsbFirst")
      BY DEF Driver!RpSpiNew, Driver!HalSckMosiMiso, SpiSet
    <2>2. Driver!SpiNew(f, x) = hw
      BY <1>4 DEF Driver!SpiNew
    <2> HIDE DEF hw
    <2>3. /\ hw.sck = "sck_pin" /\ hw.miso = "miso_pin" /\ hw.mosi = "mosi_pin"
          /\ hw.polarity = Driver!RpFromMode[x.mode][1] /\ hw.phase = Driver!RpFromMode[x.mode][2]
          /\ hw.hz = Driver!SpiFrequency[x.frequency] * Driver!KHZ_TO_HZ
      BY <2>1, SpiTogether
    <2>4. "bit_order" \notin DOMAIN x
      BY <1>4 DEF Driver!Configs, Driver!RpSpiConfig
    <2> QED
      BY <1>1, <2>2, <2>3, <2>4, SpiClocks, SpiFrequencies DEF SpiRight
  <1>5. CASE f = "esp"
    <2> DEFINE hw == Driver!EspSpiNew(x)
    <2>1. hw = SpiSet(Driver!NrfFromMode[x.mode], Driver!SpiFrequency[x.frequency] * Driver!KHZ_TO_HZ, x.bit_order)
      BY DEF Driver!EspSpiNew, Driver!EspFromMode, SpiSet
    <2>2. Driver!SpiNew(f, x) = hw
      BY <1>5 DEF Driver!SpiNew
    <2> HIDE DEF hw
    <2>3. /\ hw.sck = "sck_pin" /\ hw.miso = "miso_pin" /\ hw.mosi = "mosi_pin"
          /\ hw.polarity = Driver!NrfFromMode[x.mode][1] /\ hw.phase = Driver!NrfFromMode[x.mode][2]
          /\ hw.hz = Driver!SpiFrequency[x.frequency] * Driver!KHZ_TO_HZ /\ hw.order = x.bit_order
      BY <2>1, SpiTogether
    <2> QED
      BY <1>1, <2>2, <2>3, SpiClocks, SpiFrequencies DEF SpiRight
  <1> QED
    BY <1>2, <1>3, <1>4, <1>5 DEF Driver!Families

(* The baud rates that every HAL is given.                                 *)
LEMMA BaudsAreMeant ==
  ASSUME NEW baud \in Driver!Bauds
  PROVE  /\ baud[1] = "Hal" => Driver!FromBaud(baud) = baud[2] /\ Driver!NrfBaud(baud) = baud[2]
         /\ baud = <<"common", "B115200">> => Driver!FromBaud(baud) = 115200 /\ Driver!NrfBaud(baud) = 115200
  <1>1. CASE baud[1] = "Hal"
    <2>1. baud[2] \in HalBauds
      BY <1>1 DEF Driver!Bauds
    <2>2. Driver!FromBaud(baud) = baud[2] /\ baud[2] \in Driver!NrfBauds
      BY <1>1, <2>1, BaudsAssumption DEF Driver!FromBaud
    <2>3. baud # <<"common", "B115200">>
      BY <1>1
    <2> QED
      BY <2>2, <2>3 DEF Driver!NrfBaud, Driver!NrfFromBaudrate
  <1>2. CASE baud = <<"common", "B115200">>
    <2>1. Driver!FromBaud(baud) = 115200
      BY <1>2 DEF Driver!FromBaud, Driver!CommonBaud
    <2>2. 115200 \in Driver!NrfBauds
      BY DEF Driver!NrfBauds
    <2>3. baud[1] # "Hal"
      BY <1>2
    <2> QED
      BY <2>1, <2>2, <2>3 DEF Driver!NrfBaud, Driver!NrfFromBaudrate
  <1> QED
    BY <1>1, <1>2

(* Pins and buffers, and the frame.                                        *)
UartSet(baud, data, stop, parity) ==
  Driver!++([rx |-> "rx_pin", tx |-> "tx_pin", rx_buf |-> "rx_buffer", tx_buf |-> "tx_buffer"],
            [baud |-> baud, data |-> data, stop |-> stop, parity |-> parity])

LEMMA UartTogether ==
  ASSUME NEW baud, NEW data, NEW stop, NEW parity
  PROVE  /\ UartSet(baud, data, stop, parity).rx = "rx_pin"
         /\ UartSet(baud, data, stop, parity).tx = "tx_pin"
         /\ UartSet(baud, data, stop, parity).rx_buf = "rx_buffer"
         /\ UartSet(baud, data, stop, parity).tx_buf = "tx_buffer"
         /\ UartSet(baud, data, stop, parity).baud = baud
         /\ UartSet(baud, data, stop, parity).data = data
         /\ UartSet(baud, data, stop, parity).stop = stop
         /\ UartSet(baud, data, stop, parity).parity = parity
  BY DEF UartSet, Driver!++

LEMMA UartIsRight ==
  ASSUME NEW f \in Driver!Families, NEW x \in Driver!Configs(f, "uart")
  PROVE  UartRight(Driver!UartNew(f, x), x)
  <1>1. x.baudrate \in Driver!Bauds
    <2>1. x \in Driver!UartConfig[f]
      BY DEF Driver!Configs
    <2>2. \E data, stop, parities : Driver!UartConfig[f] = Driver!Uart(data, stop, parities)
      BY DEF Driver!Families, Driver!UartConfig
    <2> QED
      BY <2>1, <2>2 DEF Driver!Uart
  <1>2. CASE f = "nrf"
    <2> DEFINE hw == Driver!NrfUartNew(x)
    <2>1. hw = UartSet(Driver!NrfBaud(x.baudrate), 8, 2, Driver!NrfFromParity[x.parity])
      BY DEF Driver!NrfUartNew, Driver!HalUarte, UartSet
    <2>2. Driver!UartNew(f, x) = hw
      BY <1>2 DEF Driver!UartNew
    <2>3. x.data_bits = "Data8" /\ x.stop_bits = "Stop1" /\ x.parity \in {"None", "Even"}
      BY <1>2 DEF Driver!Configs, Driver!UartConfig, Driver!Uart
    <2>4. /\ Driver!NrfFromParity[x.parity] \in Driver!ParityMeans[x.parity]
          /\ Driver!Meaning[x.data_bits] = 8 /\ Driver!Meaning[x.stop_bits] = 2
      BY <2>3 DEF Driver!NrfFromParity, Driver!ParityMeans, Driver!Meaning
    <2> HIDE DEF hw
    <2>5. /\ hw.rx = "rx_pin" /\ hw.tx = "tx_pin" /\ hw.rx_buf = "rx_buffer" /\ hw.tx_buf = "tx_buffer"
          /\ hw.baud = Driver!NrfBaud(x.baudrate) /\ hw.data = 8 /\ hw.stop = 2
          /\ hw.parity = Driver!NrfFromParity[x.parity]
      BY <2>1, UartTogether
    <2> QED
      BY <1>1, <2>2, <2>4, <2>5, BaudsAreMeant DEF UartRight
  <1>3. CASE f = "stm32"
    <2> DEFINE hw == Driver!Stm32UartNew(x)
    <2>1. hw = UartSet(Driver!FromBaud(x.baudrate), Driver!Stm32FromDataBits[x.data_bits],
                       Driver!Stm32FromStopBits[x.stop_bits], Driver!Stm32FromParity[x.parity])
      BY DEF Driver!Stm32UartNew, Driver!HalUsart, Driver!Stm32Baud, UartSet
    <2>2. Driver!UartNew(f, x) = hw
      BY <1>3 DEF Driver!UartNew
    <2>3. /\ x.data_bits \in {"Data7", "Data8", "Data9"}
          /\ x.stop_bits \in {"Stop1", "Stop0P5", "Stop2", "Stop1P5"} /\ x.parity \in {"None", "Even", "Odd"}
      BY <1>3 DEF Driver!Configs, Driver!UartConfig, Driver!Uart
    <2>4. Driver!Stm32FromParity[x.parity] \in Driver!ParityMeans[x.parity]
      BY <2>3 DEF Driver!Stm32FromParity, Driver!ParityMeans
    <2>5. /\ Driver!Meaning[x.data_bits] = Driver!Stm32FromDataBits[x.data_bits]
          /\ Driver!Meaning[x.stop_bits] = Driver!Stm32FromStopBits[x.stop_bits]
      BY <2>3 DEF Driver!Stm32FromDataBits, Driver!Stm32FromStopBits, Driver!Meaning
    <2> HIDE DEF hw
    <2>6. /\ hw.rx = "rx_pin" /\ hw.tx = "tx_pin" /\ hw.rx_buf = "rx_buffer" /\ hw.tx_buf = "tx_buffer"
          /\ hw.baud = Driver!FromBaud(x.baudrate) /\ hw.data = Driver!Stm32FromDataBits[x.data_bits]
          /\ hw.stop = Driver!Stm32FromStopBits[x.stop_bits] /\ hw.parity = Driver!Stm32FromParity[x.parity]
      BY <2>1, UartTogether
    <2> QED
      BY <1>1, <2>2, <2>4, <2>5, <2>6, BaudsAreMeant DEF UartRight
  <1>4. CASE f = "rp"
    <2> DEFINE hw == Driver!RpUartNew(x)
    <2>1. hw = UartSet(Driver!FromBaud(x.baudrate), Driver!RpFromDataBits[x.data_bits],
                       Driver!RpFromStopBits[x.stop_bits], Driver!RpFromParity[x.parity])
      BY DEF Driver!RpUartNew, Driver!HalRpUart, Driver!RpBaud, UartSet
    <2>2. Driver!UartNew(f, x) = hw
      BY <1>4 DEF Driver!UartNew
    <2>3. /\ x.data_bits \in {"Data5", "Data6", "Data7", "Data8"}
          /\ x.stop_bits \in {"Stop1", "Stop2"} /\ x.parity \in {"None", "Even", "Odd"}
      BY <1>4 DEF Driver!Configs, Driver!UartConfig, Driver!Uart
    <2>4. Driver!RpFromParity[x.parity] \in Driver!ParityMeans[x.parity]
      BY <2>3 DEF Driver!RpFromParity, Driver!ParityMeans
    <2>5. /\ Driver!Meaning[x.data_bits] = Driver!RpFromDataBits[x.data_bits]
          /\ Driver!Meaning[x.stop_bits] = Driver!RpFromStopBits[x.stop_bits]
      BY <2>3 DEF Driver!RpFromDataBits, Driver!RpFromStopBits, Driver!Meaning
    <2> HIDE DEF hw
    <2>6. /\ hw.rx = "rx_pin" /\ hw.tx = "tx_pin" /\ hw.rx_buf = "rx_buffer" /\ hw.tx_buf = "tx_buffer"
          /\ hw.baud = Driver!FromBaud(x.baudrate) /\ hw.data = Driver!RpFromDataBits[x.data_bits]
          /\ hw.stop = Driver!RpFromStopBits[x.stop_bits] /\ hw.parity = Driver!RpFromParity[x.parity]
      BY <2>1, UartTogether
    <2> QED
      BY <1>1, <2>2, <2>4, <2>5, <2>6, BaudsAreMeant DEF UartRight
  <1>5. CASE f = "esp"
    <2> DEFINE hw == Driver!EspUartNew(x)
    <2>1. Driver!UartNew(f, x) = hw
      BY <1>5 DEF Driver!UartNew
    <2>2. /\ x.data_bits \in {"Data5", "Data6", "Data7", "Data8"}
          /\ x.stop_bits \in {"Stop1", "Stop1P5", "Stop2"} /\ x.parity \in {"None", "Even", "Odd"}
      BY <1>5 DEF Driver!Configs, Driver!UartConfig, Driver!Uart
    <2>3. Driver!EspFromParity[x.parity] \in Driver!ParityMeans[x.parity]
      BY <2>2 DEF Driver!EspFromParity, Driver!ParityMeans
    <2>4. /\ Driver!Meaning[x.data_bits] = Driver!EspFromDataBits[x.data_bits]
          /\ Driver!Meaning[x.stop_bits] = Driver!EspFromStopBits[x.stop_bits]
      BY <2>2 DEF Driver!EspFromDataBits, Driver!EspFromStopBits, Driver!Meaning
    <2>5. /\ hw.rx = "rx_pin" /\ hw.tx = "tx_pin" /\ hw.rx_buf = "rx_buffer" /\ hw.tx_buf = "tx_buffer"
          /\ hw.baud = Driver!FromBaud(x.baudrate) /\ hw.data = Driver!EspFromDataBits[x.data_bits]
          /\ hw.stop = Driver!EspFromStopBits[x.stop_bits] /\ hw.parity = Driver!EspFromParity[x.parity]
      BY DEF Driver!EspUartNew, Driver!EspBaud
    <2> HIDE DEF hw
    <2> QED
      BY <1>1, <2>1, <2>3, <2>4, <2>5, BaudsAreMeant DEF UartRight
  <1> QED
    BY <1>2, <1>3, <1>4, <1>5 DEF Driver!Families

(* The portable settings of an output keep their order on every family.    *)
LEMMA SettingsInOrder ==
  ASSUME NEW f \in Driver!Families
  PROVE  /\ Driver!Monotone(Driver!Strengths, Driver!DriveStrength[f])
         /\ Driver!Monotone(Driver!Speeds, Driver!Speed[f])
         /\ \A x \in Driver!Hardware[f] :
              Driver!DriveStrength[f]["Lowest"] <= x /\ x <= Driver!DriveStrength[f]["Highest"]
  <1>1. Driver!Monotone(Driver!Strengths, Driver!DriveStrength[f])
    BY DEF Driver!Families, Driver!Monotone, Driver!Strengths, Driver!DriveStrength,
           Driver!NrfDriveStrength, Driver!Stm32DriveStrength, Driver!RpDriveStrength, Driver!EspDriveStrength
  <1>2. Driver!Monotone(Driver!Speeds, Driver!Speed[f])
    BY DEF Driver!Families, Driver!Monotone, Driver!Speeds, Driver!Speed,
           Driver!Unsupported, Driver!Stm32Speed, Driver!RpSpeed
  <1>3. \A x \in Driver!Hardware[f] :
          Driver!DriveStrength[f]["Lowest"] <= x /\ x <= Driver!DriveStrength[f]["Highest"]
    BY DEF Driver!Families, Driver!Hardware, Driver!DriveStrength,
           Driver!NrfDriveStrength, Driver!Stm32DriveStrength, Driver!RpDriveStrength, Driver!EspDriveStrength
  <1> QED
    BY <1>1, <1>2, <1>3

LEMMA OutputLevel ==
  ASSUME NEW f \in Driver!Families, NEW x
  PROVE  Driver!OutputNew(f, x).level = x.initial_level
  BY DEF Driver!Families, Driver!OutputNew, Driver!NrfOutput, Driver!Stm32Output, Driver!RpOutput,
         Driver!EspOutput

(* What new() returned is what it makes of the configuration, unless it    *)
(* failed.                                                                 *)
DriverInv(v) ==
  /\ v = [family |-> v.family, bus |-> v.bus, config |-> v.config, hw |-> v.hw]
  /\ v.family \in Driver!Families
  /\ v.bus \in {"i2c", "spi", "uart"} => v.config \in Driver!Configs(v.family, v.bus)
  /\ \/ v.hw = Driver!Unset
     \/ "error" \in DOMAIN v.hw
     \/ /\ v.bus = "i2c" => v.hw = Driver!I2cNew(v.family, v.config)
        /\ v.bus = "spi" => v.hw = Driver!SpiNew(v.family, v.config)
        /\ v.bus = "uart" => v.hw = Driver!UartNew(v.family, v.config)
        /\ v.bus = "output" => v.hw = Driver!OutputNew(v.family, v.config)

LEMMA DriverInitOk ==
  ASSUME Driver!Init
  PROVE  DriverInv(d)
  BY DEF DriverInv, Driver!Init

LEMMA DriverKeeps ==
  ASSUME DriverInv(d), [Driver!Next]_d
  PROVE  DriverInv(d')
  <1>1. CASE Driver!Build
    <2>1. d.hw = Driver!Unset /\ d.bus \notin {"i2c", "spi", "uart"}
      BY <1>1 DEF Driver!Build, Driver!OptSchmittTrigger, Driver!OptDriveStrength, Driver!OptSpeed
    <2>2. PICK set : d' = [d EXCEPT !.config = set]
      BY <1>1 DEF DriverInv, Driver!Build, Driver!OptSchmittTrigger, Driver!OptDriveStrength, Driver!OptSpeed
    <2> QED
      BY <2>1, <2>2 DEF DriverInv
  <1>2. CASE Driver!Construct
    <2>1. PICK hw : /\ d' = [d EXCEPT !.hw = hw]
                    /\ d.bus = "i2c" => hw = Driver!I2cNew(d.family, d.config)
                    /\ d.bus = "spi" => hw = Driver!SpiNew(d.family, d.config)
                    /\ d.bus = "uart" => hw = Driver!UartNew(d.family, d.config)
                    /\ d.bus = "output" => hw = Driver!OutputNew(d.family, d.config)
      BY <1>2 DEF Driver!Construct
    <2> QED
      BY <2>1 DEF DriverInv
  <1>3. CASE Driver!ConstructFails
    <2>1. PICK e : d' = [d EXCEPT !.hw = [error |-> e]]
      BY <1>3 DEF Driver!ConstructFails
    <2>2. "error" \in DOMAIN d'.hw /\ d'.family = d.family /\ d'.bus = d.bus /\ d'.config = d.config
      BY <2>1 DEF DriverInv
    <2> QED
      BY <2>1, <2>2 DEF DriverInv
  <1>4. CASE UNCHANGED d
    BY <1>4 DEF DriverInv
  <1> QED
    BY <1>1, <1>2, <1>3, <1>4 DEF Driver!Next

LEMMA DriversAreRight ==
  ASSUME DriverInv(d)
  PROVE  Driver!AsConfigured
  <1>1. ASSUME Driver!Constructed("i2c") PROVE Driver!I2cAsConfigured
    <2>1. I2cRight(d.hw, d.config)
      BY <1>1, I2cIsRight DEF DriverInv, Driver!Constructed
    <2> QED
      BY <2>1 DEF I2cRight, Driver!I2cAsConfigured
  <1>2. ASSUME Driver!Constructed("spi") PROVE Driver!SpiAsConfigured
    <2>1. SpiRight(d.hw, d.config)
      BY <1>2, SpiIsRight DEF DriverInv, Driver!Constructed
    <2> QED
      BY <2>1 DEF SpiRight, Driver!SpiAsConfigured
  <1>3. ASSUME Driver!Constructed("uart") PROVE Driver!UartAsConfigured
    <2>1. UartRight(d.hw, d.config)
      BY <1>3, UartIsRight DEF DriverInv, Driver!Constructed
    <2> QED
      BY <2>1 DEF UartRight, Driver!UartAsConfigured
  <1>4. ASSUME Driver!Constructed("output") PROVE Driver!OutputAsConfigured
    <2>1. d.family \in Driver!Families /\ d.hw = Driver!OutputNew(d.family, d.config)
      BY <1>4 DEF DriverInv, Driver!Constructed
    <2> QED
      BY <2>1, OutputLevel, SettingsInOrder DEF Driver!OutputAsConfigured
  <1> QED
    BY <1>1, <1>2, <1>3, <1>4 DEF Driver!AsConfigured
-----------------------------------------------------------------------------
(* Clocks.                                                                 *)

(* The clocks that the configuration x gives are the stated ones.          *)
GivesStated(board, x) ==
  \A clock \in DOMAIN Clock!Stated[board] : Clock!Tree(x)[clock] = Clock!Stated[board][clock]

(* The signals that a configuration selects, from the PLLs or oscillators. *)
LEMMA Signals ==
  ASSUME NEW x, NEW v \in Nat, Clock!Vco(x) = v
  PROVE  /\ Clock!Signal(x, "pll_p") = Clock!Divided(v, x.p)
         /\ Clock!Signal(x, "pll_q") = Clock!Divided(v, x.q)
         /\ Clock!Signal(x, "pll_r") = Clock!Divided(v, x.r)
         /\ Clock!Signal(x, "none") = 0
         /\ Clock!Signal(x, "hsi48") = x.hsi48
         /\ Clock!Signal(x, "hse") = x.hse
         /\ Clock!Signal(x, "sai_q") = Clock!Divided((x[x.src] \div x.prediv) * x.sai.mul, x.sai.q)
  BY DEF Clock!Signal

LEMMA ClocksOfBl475eiot01a == GivesStated("st_b_l475e_iot01a", Clock!RccConfig("st_b_l475e_iot01a"))
  <1> DEFINE x == Clock!RccConfig("st_b_l475e_iot01a")
  <1>1. x = Clock!B_l475e_iot01a
    BY DEF Clock!RccConfig, Clock!Boards
  <1> HIDE DEF x
  <1>2. /\ x.msi = 8 /\ x.src = "msi" /\ x.prediv = 1 /\ x.mul = 20 /\ x.p = 0 /\ x.q = 0
        /\ x.r = 2 /\ x.sys = "pll_r" /\ x.usb = "sai_q" /\ x.ahb = 1 /\ x.apb1 = 1 /\ x.apb2 = 1
        /\ x.sai.mul = 12 /\ x.sai.q = 2
    BY <1>1 DEF Clock!B_l475e_iot01a, Clock!Default
  <1>3. Clock!Vco(x) = 160
    <2>1. x[x.src] = 8 /\ 8 \div 1 = 8
      BY <1>2
    <2> QED
      BY <1>2, <2>1 DEF Clock!Vco
  <1>4. Clock!Signal(x, x.sys) = 80 /\ Clock!Signal(x, x.usb) = 48 /\ Clock!Signal(x, "pll_q") = 0
    BY <1>2, <1>3, Signals DEF Clock!Divided
  <1> QED
    BY <1>2, <1>4 DEF GivesStated, Clock!Stated, Clock!Tree, x

LEMMA ClocksOfNucleowb55 == GivesStated("st_nucleo_wb55", Clock!RccConfig("st_nucleo_wb55"))
  <1> DEFINE x == Clock!RccConfig("st_nucleo_wb55")
  <1>1. x = Clock!Nucleo_wb55
    BY DEF Clock!RccConfig, Clock!Boards
  <1> HIDE DEF x
  <1>2. /\ x.hse = 32 /\ x.src = "hse" /\ x.prediv = 2 /\ x.mul = 10 /\ x.p = 0 /\ x.q = 0
        /\ x.r = 2 /\ x.sys = "pll_r" /\ x.usb = "hsi48" /\ x.ahb = 1 /\ x.apb1 = 1 /\ x.apb2 = 1
        /\ x.hsi48 = 48
    BY <1>1 DEF Clock!Nucleo_wb55, Clock!Default
  <1>3. Clock!Vco(x) = 160
    <2>1. x[x.src] = 32 /\ 32 \div 2 = 16
      BY <1>2
    <2> QED
      BY <1>2, <2>1 DEF Clock!Vco
  <1>4. Clock!Signal(x, x.sys) = 80 /\ Clock!Signal(x, x.usb) = 48 /\ Clock!Signal(x, "pll_q") = 0
    BY <1>2, <1>3, Signals DEF Clock!Divided
  <1> QED
    BY <1>2, <1>4 DEF GivesStated, Clock!Stated, Clock!Tree, x

LEMMA ClocksOfStm32f303 == GivesStated("stm32f303", Clock!RccConfig("stm32f303"))
  <1> DEFINE x == Clock!RccConfig("stm32f303")
  <1>1. x = Clock!Stm32f303
    BY DEF Clock!RccConfig, Clock!Boards
  <1> HIDE DEF x
  <1>2. /\ x.hse = 8 /\ x.src = "hse" /\ x.prediv = 1 /\ x.mul = 9 /\ x.p = 1 /\ x.q = 0
        /\ x.r = 0 /\ x.sys = "pll_p" /\ x.usb = "none" /\ x.ahb = 1 /\ x.apb1 = 4 /\ x.apb2 = 2
    BY <1>1 DEF Clock!Stm32f303, Clock!Default
  <1>3. Clock!Vco(x) = 72
    <2>1. x[x.src] = 8 /\ 8 \div 1 = 8
      BY <1>2
    <2> QED
      BY <1>2, <2>1 DEF Clock!Vco
  <1>4. Clock!Signal(x, x.sys) = 72 /\ Clock!Signal(x, x.usb) = 0 /\ Clock!Signal(x, "pll_q") = 0
    BY <1>2, <1>3, Signals DEF Clock!Divided
  <1> QED
    BY <1>2, <1>4 DEF GivesStated, Clock!Stated, Clock!Tree, x

LEMMA ClocksOfStm32h755zi == GivesStated("stm32h755zi", Clock!RccConfig("stm32h755zi"))
  <1> DEFINE x == Clock!RccConfig("stm32h755zi")
  <1>1. x = Clock!Stm32h755zi
    BY DEF Clock!RccConfig, Clock!Boards
  <1> HIDE DEF x
  <1>2. /\ x.hsi = 64 /\ x.src = "hsi" /\ x.prediv = 4 /\ x.mul = 50 /\ x.p = 2 /\ x.q = 16
        /\ x.r = 0 /\ x.sys = "pll_p" /\ x.usb = "hsi48" /\ x.ahb = 2 /\ x.apb1 = 2 /\ x.apb2 = 2
        /\ x.hsi48 = 48
    BY <1>1 DEF Clock!Stm32h755zi, Clock!Default
  <1>3. Clock!Vco(x) = 800
    <2>1. x[x.src] = 64 /\ 64 \div 4 = 16
      BY <1>2
    <2> QED
      BY <1>2, <2>1 DEF Clock!Vco
  <1>4. Clock!Signal(x, x.sys) = 400 /\ Clock!Signal(x, x.usb) = 48 /\ Clock!Signal(x, "pll_q") = 50
    BY <1>2, <1>3, Signals DEF Clock!Divided
  <1> QED
    BY <1>2, <1>4 DEF GivesStated, Clock!Stated, Clock!Tree, x

LEMMA ClocksOfStm32h753zi == GivesStated("stm32h753zi", Clock!RccConfig("stm32h753zi"))
  <1> DEFINE x == Clock!RccConfig("stm32h753zi")
  <1>1. x = Clock!Stm32h753zi
    BY DEF Clock!RccConfig, Clock!Boards
  <1> HIDE DEF x
  <1>2. /\ x.hsi = 64 /\ x.src = "hsi" /\ x.prediv = 4 /\ x.mul = 50 /\ x.p = 2 /\ x.q = 16
        /\ x.r = 0 /\ x.sys = "pll_p" /\ x.usb = "hsi48" /\ x.ahb = 2 /\ x.apb1 = 2 /\ x.apb2 = 2
        /\ x.hsi48 = 48
    BY <1>1 DEF Clock!Stm32h753zi, Clock!Default
  <1>3. Clock!Vco(x) = 800
    <2>1. x[x.src] = 64 /\ 64 \div 4 = 16
      BY <1>2
    <2> QED
      BY <1>2, <2>1 DEF Clock!Vco
  <1>4. Clock!Signal(x, x.sys) = 400 /\ Clock!Signal(x, x.usb) = 48 /\ Clock!Signal(x, "pll_q") = 50
    BY <1>2, <1>3, Signals DEF Clock!Divided
  <1> QED
    BY <1>2, <1>4 DEF GivesStated, Clock!Stated, Clock!Tree, x

LEMMA ClocksOfStm32u0 == GivesStated("stm32u0", Clock!RccConfig("stm32u0"))
  <1> DEFINE x == Clock!RccConfig("stm32u0")
  <1>1. x = Clock!Stm32u0
    BY DEF Clock!RccConfig, Clock!Boards
  <1> HIDE DEF x
  <1>2. /\ x.hsi = 16 /\ x.src = "hsi" /\ x.prediv = 1 /\ x.mul = 7 /\ x.p = 0 /\ x.q = 0
        /\ x.r = 2 /\ x.sys = "pll_r" /\ x.usb = "hsi48" /\ x.ahb = 1 /\ x.apb1 = 1 /\ x.apb2 = 1
        /\ x.hsi48 = 48
    BY <1>1 DEF Clock!Stm32u0, Clock!Default
  <1>3. Clock!Vco(x) = 112
    <2>1. x[x.src] = 16 /\ 16 \div 1 = 16
      BY <1>2
    <2> QED
      BY <1>2, <2>1 DEF Clock!Vco
  <1>4. Clock!Signal(x, x.sys) = 56 /\ Clock!Signal(x, x.usb) = 48 /\ Clock!Signal(x, "pll_q") = 0
    BY <1>2, <1>3, Signals DEF Clock!Divided
  <1> QED
    BY <1>2, <1>4 DEF GivesStated, Clock!Stated, Clock!Tree, x

LEMMA ClocksOfStevalmkboxpro == GivesStated("st_steval_mkboxpro", Clock!RccConfig("st_steval_mkboxpro"))
  <1> DEFINE x == Clock!RccConfig("st_steval_mkboxpro")
  <1>1. x = Clock!Steval_mkboxpro
    BY DEF Clock!RccConfig, Clock!Boards
  <1> HIDE DEF x
  <1>2. /\ x.hse = 16 /\ x.src = "hse" /\ x.prediv = 1 /\ x.mul = 10 /\ x.p = 0 /\ x.q = 0
        /\ x.r = 1 /\ x.sys = "pll_r" /\ x.usb = "hsi48" /\ x.ahb = 1 /\ x.apb1 = 1 /\ x.apb2 = 1
        /\ x.hsi48 = 48
    BY <1>1 DEF Clock!Steval_mkboxpro, Clock!Default
  <1>3. Clock!Vco(x) = 160
    <2>1. x[x.src] = 16 /\ 16 \div 1 = 16
      BY <1>2
    <2> QED
      BY <1>2, <2>1 DEF Clock!Vco
  <1>4. Clock!Signal(x, x.sys) = 160 /\ Clock!Signal(x, x.usb) = 48 /\ Clock!Signal(x, "pll_q") = 0
    BY <1>2, <1>3, Signals DEF Clock!Divided
  <1> QED
    BY <1>2, <1>4 DEF GivesStated, Clock!Stated, Clock!Tree, x

LEMMA ClocksOfLorae5mini == GivesStated("seeedstudio_lora_e5_mini", Clock!RccConfig("seeedstudio_lora_e5_mini"))
  <1> DEFINE x == Clock!RccConfig("seeedstudio_lora_e5_mini")
  <1>1. x = Clock!Lora_e5_mini
    BY DEF Clock!RccConfig, Clock!Boards
  <1> HIDE DEF x
  <1>2. /\ x.hse = 32 /\ x.src = "hse" /\ x.prediv = 2 /\ x.mul = 6 /\ x.p = 0 /\ x.q = 2
        /\ x.r = 2 /\ x.sys = "pll_r" /\ x.usb = "none" /\ x.ahb = 1 /\ x.apb1 = 1 /\ x.apb2 = 1
    BY <1>1 DEF Clock!Lora_e5_mini, Clock!Default
  <1>3. Clock!Vco(x) = 96
    <2>1. x[x.src] = 32 /\ 32 \div 2 = 16
      BY <1>2
    <2> QED
      BY <1>2, <2>1 DEF Clock!Vco
  <1>4. Clock!Signal(x, x.sys) = 48 /\ Clock!Signal(x, x.usb) = 0 /\ Clock!Signal(x, "pll_q") = 48
    BY <1>2, <1>3, Signals DEF Clock!Divided
  <1> QED
    BY <1>2, <1>4 DEF GivesStated, Clock!Stated, Clock!Tree, x

LEMMA ClocksOfNucleowba65ri == GivesStated("st_nucleo_wba65ri", Clock!RccConfig("st_nucleo_wba65ri"))
  <1> DEFINE x == Clock!RccConfig("st_nucleo_wba65ri")
  <1>1. x = Clock!Nucleo_wba65ri
    BY DEF Clock!RccConfig, Clock!Boards
  <1> HIDE DEF x
  <1>2. /\ x.hse = 32 /\ x.src = "hse" /\ x.prediv = 2 /\ x.mul = 12 /\ x.p = 6 /\ x.q = 0
        /\ x.r = 2 /\ x.sys = "pll_r" /\ x.usb = "hse" /\ x.ahb = 1 /\ x.apb1 = 1 /\ x.apb2 = 1
    BY <1>1 DEF Clock!Nucleo_wba65ri, Clock!Default
  <1>3. Clock!Vco(x) = 192
    <2>1. x[x.src] = 32 /\ 32 \div 2 = 16
      BY <1>2
    <2> QED
      BY <1>2, <2>1 DEF Clock!Vco
  <1>4. Clock!Signal(x, x.sys) = 96 /\ Clock!Signal(x, x.usb) = 32 /\ Clock!Signal(x, "pll_q") = 0
    BY <1>2, <1>3, Signals DEF Clock!Divided
  <1> QED
    BY <1>2, <1>4 DEF GivesStated, Clock!Stated, Clock!Tree, x

LEMMA StatedClocks ==
  ASSUME NEW board \in DOMAIN Clock!Stated
  PROVE  GivesStated(board, Clock!RccConfig(board))
  BY ClocksOfBl475eiot01a, ClocksOfNucleowb55, ClocksOfStm32f303, ClocksOfStm32h755zi, ClocksOfStm32h753zi,
     ClocksOfStm32u0, ClocksOfStevalmkboxpro, ClocksOfLorae5mini, ClocksOfNucleowba65ri
     DEF Clock!Stated

(* What is configured is the board's configuration unless the application  *)
(* overrides it, and the clocks are set from it.                           *)
ClockInv(v) ==
  /\ v = [board |-> v.board, pc |-> v.pc, rcc |-> v.rcc, override |-> v.override, mhz |-> v.mhz,
          cache |-> v.cache]
  /\ v.pc \in {"reset", "configured", "clocked", "running"}
  /\ v.override \in BOOLEAN
  /\ v.pc # "reset" /\ ~v.override => v.rcc = Clock!RccConfig(v.board)
  /\ v.pc \in {"clocked", "running"} => v.mhz = Clock!Tree(v.rcc)

LEMMA ClockInitOk ==
  ASSUME Clock!Init
  PROVE  ClockInv(c)
  BY DEF ClockInv, Clock!Init

LEMMA ClockKeeps ==
  ASSUME ClockInv(c), [Clock!Next]_c
  PROVE  ClockInv(c')
  <1>1. CASE Clock!BoardConfig
    BY <1>1 DEF ClockInv, Clock!BoardConfig
  <1>2. CASE Clock!HalInit
    BY <1>2 DEF ClockInv, Clock!HalInit
  <1>3. CASE Clock!EnableFlashCache
    BY <1>3 DEF ClockInv, Clock!EnableFlashCache
  <1>4. CASE UNCHANGED c
    BY <1>4 DEF ClockInv
  <1> QED
    BY <1>1, <1>2, <1>3, <1>4 DEF Clock!Next

LEMMA ClocksAreStated ==
  ASSUME ClockInv(c)
  PROVE  Clock!ClocksAsStated
  BY StatedClocks DEF ClockInv, GivesStated, Clock!ClocksAsStated
-----------------------------------------------------------------------------
(* Buses: the search for a frequency.                                      *)

(* A table of frequencies is in order.                                     *)
Increasing(t) == t \in Seq(Nat) /\ t # <<>> /\ \A i, j \in DOMAIN t : i < j => t[i] < t[j]

(* The frequencies at which a search may be.                               *)
FreqOk(chip, kind, f) ==
  IF Bus!HasTable(chip, kind)
  THEN \E i \in DOMAIN Bus!Table(chip, kind) : f = Bus!Step(Bus!Table(chip, kind), i)
  ELSE IF kind = "spi" THEN \E x \in 1 .. Bus!MaxFrequency(chip) : f = Bus!F(x)
  ELSE \/ \E x \in 1 .. 100 : f = Bus!UpTo100k(x)
       \/ \E x \in 101 .. 400 : f = Bus!UpTo400k(x)

Kinds == {"i2c", "spi"}

LEMMA TablesIncrease ==
  ASSUME NEW chip, NEW kind
  PROVE  Increasing(Bus!Table(chip, kind))
  <1>1. Increasing(Bus!EspI2cTable)
    BY DEF Increasing, Bus!EspI2cTable
  <1>2. Increasing(<<100, 400>>) /\ Increasing(<<100, 250, 400>>)
    BY DEF Increasing
  <1>3. Increasing(Bus!NrfI2cTable(chip))
    BY <1>2 DEF Bus!NrfI2cTable
  <1>4. Increasing(Bus!NrfSpiTable)
    BY DEF Increasing, Bus!NrfSpiTable
  <1> QED
    BY <1>1, <1>3, <1>4 DEF Bus!Table

(* In a table the neighbours are those of the index.                       *)
LEMMA TableFacts ==
  ASSUME NEW t, Increasing(t), NEW i \in DOMAIN t, NEW f, f = Bus!Step(t, i)
  PROVE  /\ f.khz = t[i] /\ t[i] \in Nat
         /\ Bus!TableNext(t, f) = Bus!Step(t, i + 1)
         /\ Bus!TablePrev(t, f) = Bus!Step(t, i - 1)
  <1>1. f.khz = t[i]
    BY DEF Bus!Step
  <1>0. t[i] \in Nat /\ i \in Nat /\ DOMAIN t \subseteq Nat
    BY DEF Increasing
  <1>2. \A j \in DOMAIN t : t[j] = t[i] => j = i
    <2> SUFFICES ASSUME NEW j \in DOMAIN t, t[j] = t[i], j # i PROVE FALSE
      OBVIOUS
    <2>1. j < i \/ i < j
      BY <1>0
    <2>2. t[j] < t[i] \/ t[i] < t[j]
      BY <2>1 DEF Increasing
    <2> QED
      BY <2>2, <1>0
  <1>3. Bus!Position(t, f) = i
    BY <1>1, <1>2 DEF Bus!Position
  <1> QED
    BY <1>1, <1>0, <1>3 DEF Bus!TableNext, Bus!TablePrev

(* What the loops of highest_freq_in need of next() and prev().            *)
Neighbours(chip, kind, f, g) ==
  /\ f.khz \in Bus!Available(chip, kind)
  /\ g = Bus!None => \A a \in Bus!Available(chip, kind) : a <= f.khz
  /\ g # Bus!None =>
       /\ FreqOk(chip, kind, g) /\ g.khz \in Nat /\ f.khz < g.khz
       /\ Bus!Pred(chip, kind, g) = f
       /\ \A a \in Bus!Available(chip, kind) : a <= f.khz \/ g.khz <= a

LEMMA TableNeighbours ==
  ASSUME NEW chip, NEW kind, NEW f, Bus!HasTable(chip, kind), FreqOk(chip, kind, f)
  PROVE  Neighbours(chip, kind, f, Bus!Succ(chip, kind, f))
  <1> DEFINE t == Bus!Table(chip, kind)
             g == Bus!Succ(chip, kind, f)
  <1>1. Increasing(t)
    BY TablesIncrease
  <1>2. PICK i \in DOMAIN t : f = Bus!Step(t, i)
    BY DEF FreqOk
  <1>3. Bus!Available(chip, kind) = {t[j] : j \in DOMAIN t}
    BY DEF Bus!Available
  <1> HIDE DEF t
  <1>4. Len(t) \in Nat /\ DOMAIN t = 1 .. Len(t) /\ \A j \in DOMAIN t : t[j] \in Nat
    BY <1>1 DEF Increasing
  <1>5. f.khz = t[i] /\ g = Bus!Step(t, i + 1)
    BY <1>1, <1>2, TableFacts DEF Bus!Succ, t
  <1>6. CASE i + 1 \in DOMAIN t
    <2>1. g # Bus!None /\ g = Bus!Step(t, i + 1) /\ g.khz = t[i + 1] /\ i + 1 - 1 = i
      <3>1. i \in Nat
        BY <1>4
      <3> HIDE DEF g
      <3>2. g = [variant |-> "_", khz |-> t[i + 1]]
        BY <1>5, <1>6 DEF Bus!Step
      <3>3. g.variant = "_" /\ Bus!None.variant = "None"
        BY <3>2 DEF Bus!None
      <3>4. g.khz = t[i + 1]
        BY <3>2
      <3>5. g # Bus!None
        BY <3>3
      <3>6. i + 1 - 1 = i
        BY <3>1
      <3> QED
        BY <1>5, <3>4, <3>5, <3>6
    <2>2. Bus!Pred(chip, kind, g) = f
      <3>1. \A j \in DOMAIN t : Bus!TablePrev(t, Bus!Step(t, j)) = Bus!Step(t, j - 1)
        BY <1>1, TableFacts
      <3>2. PICK j \in DOMAIN t : j = i + 1 /\ j - 1 = i
        BY <1>4, <1>6
      <3>3. g = Bus!Step(t, j)
        BY <2>1, <3>2
      <3>4. Bus!TablePrev(t, Bus!Step(t, j)) = Bus!Step(t, i)
        BY <3>1, <3>2
      <3>5. Bus!Pred(chip, kind, g) = Bus!TablePrev(t, g)
        BY DEF Bus!Pred, t
      <3> QED
        BY <1>2, <3>3, <3>4, <3>5
    <2>3. \A j \in DOMAIN t : t[j] <= t[i] \/ t[i + 1] <= t[j]
      <3> SUFFICES ASSUME NEW j \in DOMAIN t PROVE t[j] <= t[i] \/ t[i + 1] <= t[j]
        OBVIOUS
      <3>1. j < i \/ j = i \/ j = i + 1 \/ i + 1 < j
        BY <1>4
      <3> QED
        BY <3>1, <1>1, <1>4, <1>6 DEF Increasing
    <2>4. t[i] < t[i + 1]
      BY <1>1, <1>4, <1>6 DEF Increasing
    <2>5. FreqOk(chip, kind, g)
      BY <1>6, <2>1 DEF FreqOk, t
    <2> QED
      BY <1>3, <1>4, <1>5, <1>6, <2>1, <2>2, <2>3, <2>4, <2>5 DEF Neighbours
  <1>7. CASE i + 1 \notin DOMAIN t
    <2>1. g = Bus!None
      BY <1>5, <1>7 DEF Bus!Step
    <2>2. \A j \in DOMAIN t : t[j] <= t[i]
      <3> SUFFICES ASSUME NEW j \in DOMAIN t PROVE t[j] <= t[i]
        OBVIOUS
      <3>1. j < i \/ j = i
        BY <1>4, <1>7
      <3> QED
        BY <3>1, <1>1, <1>4 DEF Increasing
    <2> QED
      BY <1>3, <1>5, <2>1, <2>2 DEF Neighbours
  <1> QED
    BY <1>6, <1>7

LEMMA MaxFrequencies ==
  ASSUME NEW chip \in Bus!Chips, ~Bus!HasTable(chip, "spi")
  PROVE  Bus!MaxFrequency(chip) \in Nat \ {0}
  <1>1. chip \notin Bus!Nrf
    BY DEF Bus!HasTable
  <1>2. CASE chip \in Bus!Stm32
    <2>1. Bus!Stm32MaxFrequency[chip] \in Nat \ {0}
      BY <1>2 DEF Bus!Stm32, Bus!Stm32MaxFrequency
    <2>2. chip \notin DOMAIN Bus!RpMaxFrequency /\ chip \notin DOMAIN Bus!EspMaxFrequency
      BY <1>2 DEF Bus!Stm32, Bus!Stm32MaxFrequency, Bus!RpMaxFrequency, Bus!EspMaxFrequency
    <2> QED
      BY <1>2, <2>1, <2>2 DEF Bus!MaxFrequency, Bus!Stm32
  <1>3. CASE chip \in Bus!Rp \cup Bus!Esp
    BY <1>3 DEF Bus!MaxFrequency, Bus!Rp, Bus!Esp, Bus!Stm32MaxFrequency, Bus!RpMaxFrequency, Bus!EspMaxFrequency
  <1> QED
    BY <1>1, <1>2, <1>3 DEF Bus!Chips

LEMMA SpiNeighbours ==
  ASSUME NEW chip \in Bus!Chips, NEW f, ~Bus!HasTable(chip, "spi"), FreqOk(chip, "spi", f), SpiStep = 1
  PROVE  Neighbours(chip, "spi", f, Bus!Succ(chip, "spi", f))
  <1> DEFINE max == Bus!MaxFrequency(chip)
             g == Bus!Succ(chip, "spi", f)
  <1>1. max \in Nat \ {0}
    BY MaxFrequencies
  <1>2. PICK x \in 1 .. max : f = Bus!F(x)
    BY DEF FreqOk
  <1>3. Bus!Available(chip, "spi") = {SpiStep * i : i \in 1 .. (max \div SpiStep)}
    BY DEF Bus!Available
  <1>4. max \div SpiStep = max /\ \A i \in Nat : SpiStep * i = i
    BY <1>1
  <1>5. Bus!Available(chip, "spi") = 1 .. max
    <2>1. \A i \in 1 .. max : SpiStep * i = i
      BY <1>4
    <2>2. Bus!Available(chip, "spi") = {SpiStep * i : i \in 1 .. max}
      BY <1>3, <1>4
    <2> HIDE DEF max
    <2> QED
      BY <2>1, <2>2
  <1>6. g = IF x < max THEN Bus!F(x + 1) ELSE Bus!None
    BY <1>2 DEF Bus!Succ, Bus!SpiNext, Bus!F
  <1> HIDE DEF max
  <1>7. f.khz = x
    BY <1>2 DEF Bus!F
  <1>8. CASE x < max
    <2>1. g = Bus!F(x + 1) /\ g.khz = x + 1 /\ g # Bus!None
      BY <1>6, <1>8 DEF Bus!F, Bus!None
    <2>2. Bus!Pred(chip, "spi", g) = f
      BY <1>2, <2>1 DEF Bus!Pred, Bus!SpiPrev, Bus!F
    <2>3. FreqOk(chip, "spi", g)
      BY <1>1, <1>8, <2>1 DEF FreqOk, max
    <2> QED
      BY <1>1, <1>5, <1>7, <1>8, <2>1, <2>2, <2>3 DEF Neighbours
  <1>9. CASE ~(x < max)
    <2>1. g = Bus!None /\ x = max
      BY <1>1, <1>6, <1>9
    <2> QED
      BY <1>1, <1>5, <1>7, <2>1 DEF Neighbours
  <1> QED
    BY <1>8, <1>9

LEMMA I2cNeighbours ==
  ASSUME NEW chip \in Bus!Chips, NEW f, ~Bus!HasTable(chip, "i2c"), FreqOk(chip, "i2c", f)
  PROVE  Neighbours(chip, "i2c", f, Bus!Succ(chip, "i2c", f))
  <1> DEFINE g == Bus!Stm32I2cNext(f)
  <1>1. Bus!Available(chip, "i2c") = 1 .. 400
    BY DEF Bus!Available
  <1>2. Bus!Succ(chip, "i2c", f) = g
    BY DEF Bus!Succ, Bus!RpI2cNext
  <1>3. \A h : Bus!Pred(chip, "i2c", h) = Bus!Stm32I2cPrev(h)
    BY DEF Bus!Pred, Bus!RpI2cPrev
  <1>4. \A h : FreqOk(chip, "i2c", h) <=> (\/ \E x \in 1 .. 100 : h = Bus!UpTo100k(x)
                                           \/ \E x \in 101 .. 400 : h = Bus!UpTo400k(x))
    BY DEF FreqOk
  <1>5. CASE \E x \in 1 .. 99 : f = Bus!UpTo100k(x)
    <2> PICK x \in 1 .. 99 : f = Bus!UpTo100k(x)
      BY <1>5
    <2>1. g = Bus!UpTo100k(x + 1) /\ f.khz = x /\ g.khz = x + 1 /\ g # Bus!None
      BY DEF Bus!Stm32I2cNext, Bus!UpTo100k, Bus!UpTo400k, Bus!None
    <2>2. Bus!Stm32I2cPrev(g) = f
      BY <2>1 DEF Bus!Stm32I2cPrev, Bus!UpTo100k, Bus!UpTo400k
    <2>3. FreqOk(chip, "i2c", g)
      BY <1>4, <2>1
    <2> QED
      BY <1>1, <1>2, <1>3, <2>1, <2>2, <2>3 DEF Neighbours
  <1>6. CASE f = Bus!UpTo100k(100)
    <2>1. g = Bus!UpTo400k(101) /\ f.khz = 100 /\ g.khz = 101 /\ g # Bus!None
      BY <1>6 DEF Bus!Stm32I2cNext, Bus!UpTo100k, Bus!UpTo400k, Bus!None
    <2>2. Bus!Stm32I2cPrev(g) = f
      BY <1>6, <2>1 DEF Bus!Stm32I2cPrev, Bus!UpTo100k, Bus!UpTo400k
    <2>3. FreqOk(chip, "i2c", g)
      BY <1>4, <2>1
    <2> QED
      BY <1>1, <1>2, <1>3, <2>1, <2>2, <2>3 DEF Neighbours
  <1>7. CASE \E x \in 101 .. 399 : f = Bus!UpTo400k(x)
    <2> PICK x \in 101 .. 399 : f = Bus!UpTo400k(x)
      BY <1>7
    <2>1. g = Bus!UpTo400k(x + 1) /\ f.khz = x /\ g.khz = x + 1 /\ g # Bus!None
      BY DEF Bus!Stm32I2cNext, Bus!UpTo100k, Bus!UpTo400k, Bus!None
    <2>2. Bus!Stm32I2cPrev(g) = f
      BY <2>1 DEF Bus!Stm32I2cPrev, Bus!UpTo100k, Bus!UpTo400k
    <2>3. FreqOk(chip, "i2c", g)
      BY <1>4, <2>1
    <2> QED
      BY <1>1, <1>2, <1>3, <2>1, <2>2, <2>3 DEF Neighbours
  <1>8. CASE f = Bus!UpTo400k(400)
    <2>1. g = Bus!None /\ f.khz = 400
      BY <1>8 DEF Bus!Stm32I2cNext, Bus!UpTo100k, Bus!UpTo400k
    <2> QED
      BY <1>1, <1>2, <2>1 DEF Neighbours
  <1> QED
    BY <1>4, <1>5, <1>6, <1>7, <1>8

LEMMA SuccFacts ==
  ASSUME NEW chip \in Bus!Chips, NEW kind \in Kinds, NEW f, FreqOk(chip, kind, f), SpiStep = 1
  PROVE  Neighbours(chip, kind, f, Bus!Succ(chip, kind, f))
  BY TableNeighbours, SpiNeighbours, I2cNeighbours DEF Kinds

Searches ==
  [job : {"search"}, chip : Bus!Chips, kind : Kinds, range : Nat \X Nat,
   freq : [variant : {"_", "F", "UpTo100k", "UpTo400k"}, khz : Nat], phase : {"raise", "fit", "done", "panic"}]

(* Every frequency that a search has passed is too low.                    *)
PassedTooLow(v) ==
  \A a \in Bus!Available(v.chip, v.kind) : a < v.freq.khz => a < v.range[1]

InRange(v) == {a \in Bus!Available(v.chip, v.kind) : v.range[1] <= a /\ a <= v.range[2]}

(* Where a search is, and what it has found out.                           *)
SearchOk(v) ==
  /\ FreqOk(v.chip, v.kind, v.freq)
  /\ v.phase = "raise" => PassedTooLow(v)
  /\ v.phase = "fit" => v.range[1] <= v.freq.khz /\ (v.range[2] < v.freq.khz => PassedTooLow(v))
  /\ v.phase = "done" => /\ v.freq.khz \in InRange(v)
                         /\ \A a \in InRange(v) : a <= v.freq.khz
  /\ v.phase = "panic" => InRange(v) = {}

BusInv ==
  \/ b \in Searches /\ SearchOk(b)
  \/ b.job = "share" /\ "job" \in DOMAIN b

LEMMA FreqTyped ==
  ASSUME NEW chip \in Bus!Chips, NEW kind \in Kinds, NEW f, FreqOk(chip, kind, f)
  PROVE  f \in [variant : {"_", "F", "UpTo100k", "UpTo400k"}, khz : Nat]
  <1>1. CASE Bus!HasTable(chip, kind)
    <2>1. Increasing(Bus!Table(chip, kind))
      BY TablesIncrease
    <2>2. PICK i \in DOMAIN Bus!Table(chip, kind) : f = Bus!Step(Bus!Table(chip, kind), i)
      BY <1>1 DEF FreqOk
    <2>3. Bus!Table(chip, kind)[i] \in Nat
      BY <2>1 DEF Increasing
    <2> QED
      BY <2>2, <2>3 DEF Bus!Step
  <1>2. CASE ~Bus!HasTable(chip, kind) /\ kind = "spi"
    <2>1. Bus!MaxFrequency(chip) \in Nat
      BY <1>2, MaxFrequencies
    <2>2. PICK x \in 1 .. Bus!MaxFrequency(chip) : f = Bus!F(x)
      BY <1>2 DEF FreqOk
    <2>3. x \in Nat
      BY <2>1
    <2> QED
      BY <2>2, <2>3 DEF Bus!F
  <1>3. CASE ~Bus!HasTable(chip, kind) /\ kind # "spi"
    <2>1. PICK x \in 1 .. 400 : f = Bus!UpTo100k(x) \/ f = Bus!UpTo400k(x)
      BY <1>3 DEF FreqOk
    <2>2. x \in Nat
      OBVIOUS
    <2>3. Bus!UpTo100k(x) \in [variant : {"_", "F", "UpTo100k", "UpTo400k"}, khz : Nat]
      BY <2>2 DEF Bus!UpTo100k
    <2>4. Bus!UpTo400k(x) \in [variant : {"_", "F", "UpTo100k", "UpTo400k"}, khz : Nat]
      BY <2>2 DEF Bus!UpTo400k
    <2> QED
      BY <2>1, <2>3, <2>4
  <1> QED
    BY <1>1, <1>2, <1>3

LEMMA FirstFacts ==
  ASSUME NEW chip \in Bus!Chips, NEW kind \in Kinds, SpiStep = 1
  PROVE  LET f == Bus!First(chip, kind)
         IN  FreqOk(chip, kind, f) /\ \A a \in Bus!Available(chip, kind) : f.khz <= a
  <1> DEFINE f == Bus!First(chip, kind)
             t == Bus!Table(chip, kind)
  <1>1. CASE Bus!HasTable(chip, kind)
    <2>1. Increasing(t)
      BY TablesIncrease
    <2>2. f = Bus!Step(t, 1)
      BY <1>1 DEF Bus!First
    <2>3. Bus!Available(chip, kind) = {t[j] : j \in DOMAIN t}
      BY <1>1 DEF Bus!Available
    <2>4. FreqOk(chip, kind, f) <=> \E i \in DOMAIN t : f = Bus!Step(t, i)
      BY <1>1 DEF FreqOk
    <2> HIDE DEF t, f
    <2>5. 1 \in DOMAIN t /\ DOMAIN t = 1 .. Len(t) /\ \A j \in DOMAIN t : t[j] \in Nat
      BY <2>1 DEF Increasing
    <2>6. f.khz = t[1]
      BY <2>2, <2>5 DEF Bus!Step
    <2>7. \A j \in DOMAIN t : t[1] <= t[j]
      <3> SUFFICES ASSUME NEW j \in DOMAIN t PROVE t[1] <= t[j]
        OBVIOUS
      <3>1. j = 1 \/ 1 < j
        BY <2>5
      <3>2. 1 < j => t[1] < t[j]
        BY <2>1, <2>5 DEF Increasing
      <3> QED
        BY <3>1, <3>2, <2>5
    <2> QED
      BY <2>2, <2>3, <2>4, <2>5, <2>6, <2>7 DEF f
  <1>2. CASE ~Bus!HasTable(chip, kind) /\ kind = "spi"
    <2>1. Bus!MaxFrequency(chip) \in Nat \ {0}
      BY <1>2, MaxFrequencies
    <2>2. f = Bus!F(1) /\ f.khz = 1
      BY <1>2 DEF Bus!First, Bus!F
    <2>3. Bus!MaxFrequency(chip) \div 1 = Bus!MaxFrequency(chip)
      BY <2>1
    <2>4. \A a \in Bus!Available(chip, kind) : 1 <= a
      <3>1. Bus!Available(chip, kind) = {SpiStep * i : i \in 1 .. Bus!MaxFrequency(chip)}
        BY <1>2, <2>3 DEF Bus!Available
      <3>2. \A i \in 1 .. Bus!MaxFrequency(chip) : 1 <= SpiStep * i
        BY <2>1
      <3> QED
        BY <3>1, <3>2
    <2>5. FreqOk(chip, kind, f)
      BY <1>2, <2>1, <2>2 DEF FreqOk
    <2> QED
      BY <2>2, <2>4, <2>5
  <1>3. CASE ~Bus!HasTable(chip, kind) /\ kind = "i2c"
    <2>1. f = Bus!UpTo100k(1) /\ f.khz = 1
      BY <1>3 DEF Bus!First, Bus!UpTo100k
    <2>2. Bus!Available(chip, kind) = 1 .. 400
      BY <1>3 DEF Bus!Available
    <2>3. FreqOk(chip, kind, f)
      BY <1>3, <2>1 DEF FreqOk
    <2> QED
      BY <2>1, <2>2, <2>3
  <1> QED
    BY <1>1, <1>2, <1>3 DEF Kinds

LEMMA AvailableNat ==
  ASSUME NEW chip \in Bus!Chips, NEW kind \in Kinds, SpiStep = 1
  PROVE  Bus!Available(chip, kind) \subseteq Nat
  <1>1. CASE Bus!HasTable(chip, kind)
    <2>1. Increasing(Bus!Table(chip, kind))
      BY TablesIncrease
    <2>2. \A j \in DOMAIN Bus!Table(chip, kind) : Bus!Table(chip, kind)[j] \in Nat
      BY <2>1 DEF Increasing
    <2> QED
      BY <1>1, <2>2 DEF Bus!Available
  <1>2. CASE ~Bus!HasTable(chip, kind) /\ kind = "spi"
    BY <1>2 DEF Bus!Available
  <1>3. CASE ~Bus!HasTable(chip, kind) /\ kind = "i2c"
    BY <1>3 DEF Bus!Available
  <1> QED
    BY <1>1, <1>2, <1>3 DEF Kinds


LEMMA BusInitOk ==
  ASSUME SpiStep = 1, Bus!Init
  PROVE  BusInv
  <1>1. CASE \E chip \in {"nrf52840", "stm32f401re", "rp2040", "esp32"} : b = Bus!Sharing(chip)
    BY <1>1 DEF Bus!Sharing, BusInv
  <1>2. CASE \E chip \in Bus!Chips, kind \in {"i2c", "spi"}, range \in Ranges :
               range[1] <= range[2] /\ b = Bus!Searching(chip, kind, range)
    <2>1. PICK chip \in Bus!Chips, kind \in Kinds, range \in Ranges : b = Bus!Searching(chip, kind, range)
      BY <1>2 DEF Kinds
    <2>2. range \in Nat \X Nat
      BY RangesAssumption
    <2> DEFINE f == Bus!First(chip, kind)
    <2>3. FreqOk(chip, kind, f) /\ \A a \in Bus!Available(chip, kind) : f.khz <= a
      BY FirstFacts
    <2>4. f \in [variant : {"_", "F", "UpTo100k", "UpTo400k"}, khz : Nat]
      BY <2>3, FreqTyped
    <2>5. Bus!Available(chip, kind) \subseteq Nat /\ f.khz \in Nat
      BY <2>4, AvailableNat
    <2>6. b = [job |-> "search", chip |-> chip, kind |-> kind, range |-> range, freq |-> f, phase |-> "raise"]
      BY <2>1 DEF Bus!Searching
    <2> HIDE DEF f
    <2>7. b \in Searches
      BY <2>2, <2>4, <2>6 DEF Searches
    <2>8. \A a \in Bus!Available(chip, kind) : ~(a < f.khz)
      BY <2>3, <2>5
    <2>9. SearchOk(b)
      BY <2>3, <2>6, <2>8 DEF SearchOk, PassedTooLow
    <2> QED
      BY <2>7, <2>9 DEF BusInv
  <1> QED
    BY <1>1, <1>2 DEF Bus!Init

LEMMA SharingStays ==
  ASSUME b.job = "share", "job" \in DOMAIN b, Bus!Next
  PROVE  BusInv'
  <1>1. ~Bus!RaiseToMin /\ ~Bus!RaiseToMax
    BY DEF Bus!RaiseToMin, Bus!RaiseToMax
  <1>2. PICK i \in Devices : Bus!DeviceStep(i)
    BY <1>1 DEF Bus!Next
  <1>3. DOMAIN b' = DOMAIN b /\ b'.job = b.job
    BY <1>2 DEF Bus!DeviceStep, Bus!Call, Bus!Lock, Bus!TransferEnds, Bus!HalTimeout, Bus!Timeout,
       Bus!Cancel, Bus!Returned
  <1> QED
    BY <1>3 DEF BusInv

LEMMA RaiseToMinOk ==
  ASSUME SpiStep = 1, b \in Searches, SearchOk(b), Bus!RaiseToMin
  PROVE  BusInv'
  <1> DEFINE g == Bus!NextFreq
  <1>1. /\ b.chip \in Bus!Chips /\ b.kind \in Kinds /\ b.range \in Nat \X Nat
        /\ b.freq.khz \in Nat /\ FreqOk(b.chip, b.kind, b.freq) /\ b.phase = "raise" /\ PassedTooLow(b)
    BY DEF Searches, SearchOk, Bus!RaiseToMin
  <1>2. Neighbours(b.chip, b.kind, b.freq, g)
    BY <1>1, SuccFacts DEF Bus!NextFreq
  <1>3. Bus!Available(b.chip, b.kind) \subseteq Nat /\ b.range[1] \in Nat /\ b.range[2] \in Nat
    BY <1>1, AvailableNat
  <1> HIDE DEF g
  <1>4. CASE b.freq.khz >= b.range[1] /\ b' = [b EXCEPT !.phase = "fit"]
    <2>1. b' \in Searches /\ b'.phase = "fit"
      BY <1>4 DEF Searches
    <2>2. b'.chip = b.chip /\ b'.kind = b.kind /\ b'.range = b.range /\ b'.freq = b.freq
      BY <1>4 DEF Searches
    <2>3. SearchOk(b')
      BY <1>1, <1>3, <1>4, <2>1, <2>2 DEF SearchOk, PassedTooLow
    <2> QED
      BY <2>1, <2>3 DEF BusInv
  <1>5. CASE b.freq.khz < b.range[1] /\ g # Bus!None /\ b' = [b EXCEPT !.freq = g]
    <2>1. FreqOk(b.chip, b.kind, g) /\ g.khz \in Nat
      BY <1>2, <1>5 DEF Neighbours
    <2>2. g \in [variant : {"_", "F", "UpTo100k", "UpTo400k"}, khz : Nat]
      BY <1>1, <2>1, FreqTyped
    <2>3. b' \in Searches
      BY <1>5, <2>2 DEF Searches
    <2>4. b'.chip = b.chip /\ b'.kind = b.kind /\ b'.range = b.range /\ b'.freq = g /\ b'.phase = "raise"
      BY <1>1, <1>5 DEF Searches
    <2>5. \A a \in Bus!Available(b.chip, b.kind) : a < g.khz => a < b.range[1]
      BY <1>1, <1>2, <1>3, <1>5, <2>1 DEF Neighbours
    <2>6. SearchOk(b')
      BY <2>1, <2>4, <2>5 DEF SearchOk, PassedTooLow
    <2> QED
      BY <2>3, <2>6 DEF BusInv
  <1>6. CASE b.freq.khz < b.range[1] /\ g = Bus!None /\ b' = [b EXCEPT !.phase = "panic"]
    <2>1. b' \in Searches /\ b'.phase = "panic"
      BY <1>6 DEF Searches
    <2>2. b'.chip = b.chip /\ b'.kind = b.kind /\ b'.range = b.range /\ b'.freq = b.freq
      BY <1>6 DEF Searches
    <2>3. \A a \in Bus!Available(b.chip, b.kind) : ~(b.range[1] <= a)
      BY <1>1, <1>2, <1>3, <1>6 DEF Neighbours
    <2>4. SearchOk(b')
      BY <1>1, <2>1, <2>2, <2>3 DEF SearchOk, InRange
    <2> QED
      BY <2>1, <2>4 DEF BusInv
  <1>7. \/ b.freq.khz >= b.range[1] /\ b' = [b EXCEPT !.phase = "fit"]
        \/ b.freq.khz < b.range[1] /\ g # Bus!None /\ b' = [b EXCEPT !.freq = g]
        \/ b.freq.khz < b.range[1] /\ g = Bus!None /\ b' = [b EXCEPT !.phase = "panic"]
    <2>1. b.freq.khz >= b.range[1] \/ b.freq.khz < b.range[1]
      BY <1>1, <1>3
    <2>2. ~(b.freq.khz >= b.range[1] /\ b.freq.khz < b.range[1])
      BY <1>1, <1>3
    <2> QED
      BY <2>1, <2>2 DEF Bus!RaiseToMin, Bus!Lo, g
  <1> QED
    BY <1>4, <1>5, <1>6, <1>7

LEMMA RaiseToMaxOk ==
  ASSUME SpiStep = 1, b \in Searches, SearchOk(b), Bus!RaiseToMax
  PROVE  BusInv'
  <1> DEFINE g == Bus!NextFreq
  <1>1. /\ b.chip \in Bus!Chips /\ b.kind \in Kinds /\ b.range \in Nat \X Nat
        /\ b.freq.khz \in Nat /\ FreqOk(b.chip, b.kind, b.freq) /\ b.phase = "fit"
        /\ b.range[1] <= b.freq.khz /\ (b.range[2] < b.freq.khz => PassedTooLow(b))
    BY DEF Searches, SearchOk, Bus!RaiseToMax
  <1>2. Neighbours(b.chip, b.kind, b.freq, g)
    BY <1>1, SuccFacts DEF Bus!NextFreq
  <1>3. Bus!Available(b.chip, b.kind) \subseteq Nat /\ b.range[1] \in Nat /\ b.range[2] \in Nat
    BY <1>1, AvailableNat
  <1> HIDE DEF g
  <1>4. CASE b.range[2] < b.freq.khz /\ b' = [b EXCEPT !.phase = "panic"]
    <2>1. b' \in Searches /\ b'.phase = "panic"
      BY <1>4 DEF Searches
    <2>2. b'.chip = b.chip /\ b'.kind = b.kind /\ b'.range = b.range /\ b'.freq = b.freq
      BY <1>4 DEF Searches
    <2>3. \A a \in Bus!Available(b.chip, b.kind) : ~(b.range[1] <= a /\ a <= b.range[2])
      BY <1>1, <1>3, <1>4 DEF PassedTooLow
    <2>4. SearchOk(b')
      BY <1>1, <2>1, <2>2, <2>3 DEF SearchOk, InRange
    <2> QED
      BY <2>1, <2>4 DEF BusInv
  <1>5. CASE g # Bus!None /\ g.khz <= b.range[2] /\ b' = [b EXCEPT !.freq = g]
    <2>1. FreqOk(b.chip, b.kind, g) /\ g.khz \in Nat /\ b.freq.khz < g.khz
      BY <1>2, <1>5 DEF Neighbours
    <2>2. g \in [variant : {"_", "F", "UpTo100k", "UpTo400k"}, khz : Nat]
      BY <1>1, <2>1, FreqTyped
    <2>3. b' \in Searches
      BY <1>5, <2>2 DEF Searches
    <2>4. b'.chip = b.chip /\ b'.kind = b.kind /\ b'.range = b.range /\ b'.freq = g /\ b'.phase = "fit"
      BY <1>1, <1>5 DEF Searches
    <2>5. b.range[1] <= g.khz /\ ~(b.range[2] < g.khz)
      BY <1>1, <1>3, <1>5, <2>1
    <2>6. SearchOk(b')
      BY <2>1, <2>4, <2>5 DEF SearchOk
    <2> QED
      BY <2>3, <2>6 DEF BusInv
  <1>6. CASE /\ b.freq.khz <= b.range[2] /\ (g = Bus!None \/ ~(g.khz <= b.range[2]))
             /\ b' = [b EXCEPT !.phase = "done"]
    <2>1. b' \in Searches /\ b'.phase = "done"
      BY <1>6 DEF Searches
    <2>2. b'.chip = b.chip /\ b'.kind = b.kind /\ b'.range = b.range /\ b'.freq = b.freq
      BY <1>6 DEF Searches
    <2>3. b.freq.khz \in InRange(b)
      BY <1>1, <1>2, <1>6 DEF InRange, Neighbours
    <2>4. \A a \in InRange(b) : a <= b.freq.khz
      BY <1>1, <1>2, <1>3, <1>6 DEF InRange, Neighbours
    <2>5. SearchOk(b')
      BY <1>1, <2>1, <2>2, <2>3, <2>4 DEF SearchOk, InRange
    <2> QED
      BY <2>1, <2>5 DEF BusInv
  <1>7. \/ b.range[2] < b.freq.khz /\ b' = [b EXCEPT !.phase = "panic"]
        \/ g # Bus!None /\ g.khz <= b.range[2] /\ b' = [b EXCEPT !.freq = g]
        \/ /\ b.freq.khz <= b.range[2] /\ (g = Bus!None \/ ~(g.khz <= b.range[2]))
           /\ b' = [b EXCEPT !.phase = "done"]
    <2>1. \/ b.freq.khz > b.range[2] /\ ~(b.freq.khz <= b.range[2])
          \/ b.freq.khz <= b.range[2] /\ ~(b.freq.khz > b.range[2])
      BY <1>1, <1>3
    <2>2. b.freq.khz > b.range[2] => b.range[2] < b.freq.khz
      BY <1>1, <1>3
    <2> QED
      BY <2>1, <2>2 DEF Bus!RaiseToMax, Bus!Hi, g
  <1> QED
    BY <1>4, <1>5, <1>6, <1>7

LEMMA BusKeeps ==
  ASSUME SpiStep = 1, BusInv, [Bus!Next]_b
  PROVE  BusInv'
  <1>1. CASE UNCHANGED b
    BY <1>1 DEF BusInv, SearchOk, PassedTooLow, InRange
  <1>2. CASE Bus!Next /\ b.job = "share" /\ "job" \in DOMAIN b
    BY <1>2, SharingStays
  <1>3. CASE Bus!Next /\ b \in Searches /\ SearchOk(b)
    <2>1. b.job # "share"
      BY <1>3 DEF Searches
    <2>2. ~\E i \in Devices : Bus!DeviceStep(i)
      BY <2>1 DEF Bus!DeviceStep, Bus!Call, Bus!Lock, Bus!TransferEnds, Bus!HalTimeout, Bus!Timeout, Bus!Cancel
    <2> QED
      BY <1>3, <2>2, RaiseToMinOk, RaiseToMaxOk DEF Bus!Next
  <1> QED
    BY <1>1, <1>2, <1>3 DEF BusInv

(* The invariant says that a search ends with the best frequency.          *)
LEMMA SearchIsBest ==
  ASSUME SpiStep = 1, BusInv
  PROVE  Bus!BestFrequency
  <1> SUFFICES ASSUME b.job = "search" PROVE Bus!BestFrequency
    BY DEF Bus!BestFrequency
  <1>1. b \in Searches /\ SearchOk(b)
    BY DEF BusInv
  <1>2. b.chip \in Bus!Chips /\ b.kind \in Kinds /\ FreqOk(b.chip, b.kind, b.freq)
    BY <1>1 DEF Searches, SearchOk
  <1>3. Bus!Fitting = InRange(b)
    BY DEF Bus!Fitting, InRange, Bus!Lo, Bus!Hi
  <1>4. b.phase = "done" => Bus!Fitting # {} /\ b.freq.khz = Bus!Max(Bus!Fitting)
    <2> SUFFICES ASSUME b.phase = "done" PROVE Bus!Fitting # {} /\ b.freq.khz = Bus!Max(Bus!Fitting)
      OBVIOUS
    <2>1. InRange(b) \subseteq Nat
      BY <1>2, AvailableNat DEF InRange
    <2>2. b.freq.khz \in InRange(b) /\ \A a \in InRange(b) : a <= b.freq.khz
      BY <1>1 DEF SearchOk
    <2>3. \A x \in InRange(b) : (\A y \in InRange(b) : x >= y) => x = b.freq.khz
      BY <2>1, <2>2
    <2>4. \A y \in InRange(b) : b.freq.khz >= y
      BY <2>1, <2>2
    <2> QED
      BY <1>3, <2>2, <2>3, <2>4 DEF Bus!Max
  <1>5. b.phase = "panic" => Bus!Fitting = {}
    BY <1>1, <1>3 DEF SearchOk
  <1>6. /\ b.freq.variant = "UpTo100k" => b.freq.khz <= 100
        /\ b.freq.variant = "UpTo400k" => b.freq.khz > 100
    <2> DEFINE f == b.freq
    <2>1. \/ \E i \in DOMAIN Bus!Table(b.chip, b.kind) : f = Bus!Step(Bus!Table(b.chip, b.kind), i)
          \/ \E x \in 1 .. Bus!MaxFrequency(b.chip) : f = Bus!F(x)
          \/ \E x \in 1 .. 100 : f = Bus!UpTo100k(x)
          \/ \E x \in 101 .. 400 : f = Bus!UpTo400k(x)
      BY <1>2 DEF FreqOk
    <2> HIDE DEF f
    <2>2. CASE \E i \in DOMAIN Bus!Table(b.chip, b.kind) : f = Bus!Step(Bus!Table(b.chip, b.kind), i)
      <3>1. PICK i \in DOMAIN Bus!Table(b.chip, b.kind) :
              f = [variant |-> "_", khz |-> Bus!Table(b.chip, b.kind)[i]]
        BY <2>2 DEF Bus!Step
      <3>2. f.variant = "_"
        BY <3>1
      <3> QED
        BY <3>2 DEF f
    <2>3. CASE \E x \in 1 .. Bus!MaxFrequency(b.chip) : f = Bus!F(x)
      <3>1. f.variant = "F"
        BY <2>3 DEF Bus!F
      <3> QED
        BY <3>1 DEF f
    <2>4. CASE \E x \in 1 .. 100 : f = Bus!UpTo100k(x)
      <3>1. f.variant = "UpTo100k" /\ f.khz <= 100
        BY <2>4 DEF Bus!UpTo100k
      <3> QED
        BY <3>1 DEF f
    <2>5. CASE \E x \in 101 .. 400 : f = Bus!UpTo400k(x)
      <3>1. f.variant = "UpTo400k" /\ f.khz > 100
        BY <2>5 DEF Bus!UpTo400k
      <3> QED
        BY <3>1 DEF f
    <2> QED
      BY <2>1, <2>2, <2>3, <2>4, <2>5
  <1>7. Bus!NextFreq # Bus!None => Bus!Pred(b.chip, b.kind, Bus!NextFreq) = b.freq
    BY <1>2, SuccFacts DEF Neighbours, Bus!NextFreq
  <1> QED
    BY <1>4, <1>5, <1>6, <1>7 DEF Bus!BestFrequency


(* The hardware is set to what was configured: the pins, rates and formats *)
(* of the drivers (new and build of the families), the clocks that         *)
(* rcc_config states for the boards, and the highest frequency of a range  *)
(* (highest_freq_in), which a step of 1 kHz does not miss, as in the code. *)
THEOREM HardwareIsAsConfigured ==
  ASSUME SpiStep = 1
  PROVE  PlatformSpec => []AsConfigured
  <1> DEFINE Inv == /\ part = "drivers" => DriverInv(d)
                    /\ part = "buses" => BusInv
                    /\ part = "clocks" => ClockInv(c)
  <1>1. PlatformInit => Inv
    BY DriverInitOk, BusInitOk, ClockInitOk DEF PlatformInit
  <1>2. Inv /\ [PlatformNext]_platformvars => Inv'
    <2> SUFFICES ASSUME Inv, [PlatformNext]_platformvars PROVE Inv'
      OBVIOUS
    <2>1. ASSUME part' = "drivers" PROVE DriverInv(d')
      <3>1. part = "drivers" /\ [Driver!Next]_d
        BY <2>1 DEF PlatformNext, platformvars
      <3> QED
        BY <3>1, DriverKeeps
    <2>2. ASSUME part' = "buses" PROVE BusInv'
      <3>1. part = "buses" /\ [Bus!Next]_b
        BY <2>2 DEF PlatformNext, platformvars
      <3> QED
        BY <3>1, BusKeeps
    <2>3. ASSUME part' = "clocks" PROVE ClockInv(c')
      <3>1. part = "clocks" /\ [Clock!Next]_c
        BY <2>3 DEF PlatformNext, platformvars
      <3> QED
        BY <3>1, ClockKeeps
    <2> QED
      BY <2>1, <2>2, <2>3
  <1>3. Inv => AsConfigured
    BY DriversAreRight, SearchIsBest, ClocksAreStated DEF AsConfigured
  <1> HIDE DEF Inv
  <1> QED
    BY <1>1, <1>2, <1>3, PTL DEF PlatformSpec

=============================================================================
