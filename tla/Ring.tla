-------------------------------- MODULE Ring -------------------------------
(***************************************************************************)
(* The ring buffer: RingBufferIndex counts puts and gets in bytes that     *)
(* wrap around, RingBuffer keeps the elements in a slice.                  *)
(*                                                                         *)
(*   r.len       length of the backing array, 0 without one                *)
(*   r.reads, r.writes, r.mask                                             *)
(*   r.slice     the backing array; 0 is uninitialised memory              *)
(*   r.fifo      for the properties: the elements put and not yet got      *)
(***************************************************************************)
EXTENDS Naturals, Sequences

CONSTANTS Lengths,      \* lengths of the backing arrays
          Elements      \* elements, by the length of the array

VARIABLE r

U8 == 256
Sub(a, b) == (a + U8 - b) % U8

(* Only a mask of the form 2^k - 1 is used.                                *)
And(x, mask) == x % (mask + 1)
Powers == {1, 2, 4, 8, 16, 32, 64, 128}
NextPowerOfTwo(x) == CHOOSE p \in Powers : x <= p /\ \A q \in Powers : x <= q => p <= q

next_smaller_power_of_two(val) ==
  IF val \in Powers THEN val ELSE NextPowerOfTwo((val \div 2) + 1)

-----------------------------------------------------------------------------
available == Sub(r.writes, r.reads)
is_empty == available = 0

(* Mutant: one element more than fits. *)
is_full_late == r.mask = 0 \/ available > r.mask + 1

is_full == r.mask = 0 \/ available > r.mask
capacity == IF r.mask > 0 THEN r.mask + 1 ELSE 0
peek == r.slice[And(r.reads, r.mask)]

New(len) ==
  [len |-> len, reads |-> 0, writes |-> 0, mask |-> next_smaller_power_of_two(len % U8) - 1,
   slice |-> [i \in 0 .. len - 1 |-> 0], fifo |-> <<>>]

put(e) ==
  IF is_full
  THEN UNCHANGED r
  ELSE r' = [r EXCEPT !.writes = (@ + 1) % U8, !.slice[And(r.writes, r.mask)] = e,
                      !.fifo = Append(@, e)]

get ==
  IF is_empty
  THEN UNCHANGED r
  ELSE r' = [r EXCEPT !.reads = (@ + 1) % U8, !.fifo = Tail(@)]

set_backing_array(len) == r' = New(len)

-----------------------------------------------------------------------------
(* new has no array; new_with and set_backing_array have one.              *)
Init == \E len \in Lengths : r = New(len)

Next ==
  \/ \E e \in Elements[r.len] : put(e)
  \/ get
  \/ set_backing_array(0)

Spec == Init /\ [][Next]_r

-----------------------------------------------------------------------------
(* The buffer is a queue of its capacity although its counters wrap: what  *)
(* is in it can be got in order, get never reads memory that put has not   *)
(* written, and put succeeds until all of the capacity is used.  That is   *)
(* the largest power of two that the length of the array, cut to a byte,   *)
(* has room for, or nothing below two, where the comment of                *)
(* RingBufferIndex::new says that floor(log2(size)) elements are used.     *)
RingFifo ==
  /\ available = Len(r.fifo) /\ is_empty = (r.fifo = <<>>)
  /\ LET size == r.len % U8
     IN  IF size < 2 THEN capacity = 0 ELSE capacity <= size /\ size < 2 * capacity
  /\ Len(r.fifo) <= capacity
  /\ is_full = (Len(r.fifo) = capacity)
  /\ r.fifo # <<>> => peek = Head(r.fifo)
  /\ \A i \in 1 .. Len(r.fifo) : r.slice[And(r.reads + i - 1, r.mask)] = r.fifo[i]
=============================================================================
