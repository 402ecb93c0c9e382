----------------------------- MODULE OrderedPool -----------------------------
(***************************************************************************)
(* oluru.rs of coapcore: a container of capacity N that orders its entries *)
(* by priority level (0 is the highest priority) and, within a level, by   *)
(* time of use.  The pool is a record: entries is a vector without order,  *)
(* sorted a vector of indices into it.  A "position" is a key of sorted,   *)
(* an "index" a key of entries.                                            *)
(***************************************************************************)
EXTENDS Naturals, Sequences

CONSTANTS N,           \* capacity
          Level(_)     \* PriorityLevel::level of an entry

NewPool == [entries |-> <<>>, sorted |-> <<>>]

LevelAt(p, n) == Level(p.entries[p.sorted[n]])

(* rotate_right(1) of q..=pos when q < pos, rotate_left(1) of pos..=q when *)
(* pos < q.                                                                *)
MoveTo(s, pos, q) ==
  [n \in DOMAIN s |-> CASE n = q -> s[pos]
                        [] q < n /\ n <= pos -> s[n - 1]
                        [] pos <= n /\ n < q -> s[n + 1]
                        [] OTHER -> s[n]]

(* The two loops of touch(): in front of the entries of its own level, or  *)
(* behind the ones of higher priority when its own has become lower.       *)
FrontOf(p, pos) ==
  CHOOSE q \in 1 .. pos :
    /\ \A n \in q .. pos - 1 : LevelAt(p, n) >= LevelAt(p, pos)
    /\ q > 1 => LevelAt(p, q - 1) < LevelAt(p, pos)

BackOf(p, pos) ==
  CHOOSE q \in pos .. Len(p.sorted) :
    /\ \A n \in pos + 1 .. q : LevelAt(p, n) < LevelAt(p, pos)
    /\ q < Len(p.sorted) => LevelAt(p, q + 1) >= LevelAt(p, pos)

(* Mutant: a level that has become lower is not looked for.                *)
TouchForward(p, pos) == [p EXCEPT !.sorted = MoveTo(@, pos, FrontOf(p, pos))]

Touch(p, pos) ==
  LET q == IF FrontOf(p, pos) = pos THEN BackOf(p, pos) ELSE FrontOf(p, pos)
  IN  [p EXCEPT !.sorted = MoveTo(@, pos, q)]

(* lookup: the first entry, in the order of sorted, among the indices that *)
(* pass the test; the entry becomes e and is touched.                      *)
Found(p, pass) == \E n \in DOMAIN p.sorted : p.sorted[n] \in pass

FoundAt(p, pass) ==
  CHOOSE n \in DOMAIN p.sorted :
    p.sorted[n] \in pass /\ \A m \in 1 .. n - 1 : p.sorted[m] \notin pass

FoundEntry(p, pass) == p.entries[p.sorted[FoundAt(p, pass)]]

Put(p, pass, e) ==
  LET pos == FoundAt(p, pass)
  IN  Touch([p EXCEPT !.entries[p.sorted[pos]] = e], pos)

(* force_insert, and what it evicts: the last entry of a full pool.        *)
IsFull(p) == Len(p.entries) = N
LastEntry(p) == p.entries[p.sorted[Len(p.sorted)]]

ForceInsert(p, e) ==
  IF IsFull(p) THEN Touch([p EXCEPT !.entries[p.sorted[N]] = e], N)
  ELSE LET n == Len(p.entries) + 1
       IN  Touch([entries |-> Append(p.entries, e), sorted |-> Append(p.sorted, n)], n)

(* The invariants that the type documents: sorted is a permutation of the  *)
(* indices, and the levels along it are sorted.                            *)
IsOrdered(p) ==
  /\ Len(p.sorted) = Len(p.entries) /\ Len(p.entries) <= N
  /\ \A n \in DOMAIN p.sorted : p.sorted[n] \in DOMAIN p.entries
  /\ \A m, n \in DOMAIN p.sorted : p.sorted[m] = p.sorted[n] => m = n
  /\ \A m, n \in DOMAIN p.sorted : m < n => LevelAt(p, m) <= LevelAt(p, n)
=============================================================================
