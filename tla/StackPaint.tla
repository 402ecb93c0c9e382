---------------------------- MODULE StackPaint -----------------------------
(***************************************************************************)
(* The stack of a thread: setup_stack of the ports places the first frame  *)
(* and paints the rest, the thread and the interrupts that use its stack   *)
(* cover the paint, and Stack measures how much is left of it.  Addresses  *)
(* are bytes.                                                              *)
(*                                                                         *)
(*   k.arch      the port                                                  *)
(*   k.lowest, k.highest                                                   *)
(*   k.sp        the stack pointer; k.top what it was at the start         *)
(*   k.dirty     bytes that do not have the colour of the paint            *)
(*   k.painting  repaint runs; k.pos is the byte that it paints next       *)
(* and, for the properties,                                                *)
(*   k.settled   lowest byte in use or written since the last repaint      *)
(*               began, without what repaint has painted over since        *)
(*   k.deepest   the same with the bytes below the stack pointer that      *)
(*               repaint spares (Xtensa)                                   *)
(*   k.collided  a byte written had the colour of the paint                *)
(***************************************************************************)
EXTENDS Integers, FiniteSets, FiniteSetsExt

CONSTANTS Starts, Sizes,     \* addresses and sizes of stacks
          FrameSizes,        \* sizes of what is pushed at once
          Grain              \* repaint is interrupted after so many bytes; 1 in reality

VARIABLE k

-----------------------------------------------------------------------------
(* setup_stack of the ports: highest, sp and whether a frame is written.   *)

Aligned(x, to) == x - (x % to)

CortexMStack(start, size) == [highest |-> Aligned(start + size, 8), sp |-> Aligned(start + size, 8) - 32]
RiscvStack(start, size) == [highest |-> Aligned(start + size, 32), sp |-> Aligned(start + size, 32)]
XtensaStack(start, size) == [highest |-> Aligned(start + size, 16), sp |-> Aligned(start + size, 16)]

SetupStack(arch, start, size) ==
  CASE arch = "cortex_m" -> CortexMStack(start, size)
    [] arch = "riscv" -> RiscvStack(start, size)
    [] arch = "xtensa" -> XtensaStack(start, size)

(* stack_paint_init leaves the frame of the Cortex-M as the only dirty     *)
(* bytes.                                                                  *)
Painted(arch, start, size) ==
  LET s == SetupStack(arch, start, size)
  IN  [arch |-> arch, start |-> start, size |-> size, lowest |-> start, highest |-> s.highest,
       sp |-> s.sp, top |-> s.sp, dirty |-> s.sp .. (s.highest - 1), painting |-> FALSE,
       pos |-> start, deepest |-> s.sp, settled |-> s.sp,
       collided |-> FALSE]

Init ==
  \E arch \in {"cortex_m", "riscv", "xtensa"}, start \in Starts, size \in Sizes :
    k = Painted(arch, start, size)

-----------------------------------------------------------------------------
STACK_PAINT_IGNORE == IF k.arch = "xtensa" THEN 16 ELSE 0

size == k.highest - k.lowest
current_usage == k.highest - (k.sp - STACK_PAINT_IGNORE)
free_min == IF k.dirty = {} THEN size ELSE Min(k.dirty) - k.lowest
peak_usage == size - free_min

Idle == ~k.painting

(* What is written below the byte that repaint has come to is not painted  *)
(* over; the rest is.                                                      *)
Stays(from) == Idle \/ from < k.pos

(* The bytes from `from` up to `to` are written, the first one perhaps in  *)
(* the colour of the paint.                                                *)
Written(v, from, to) ==
  LET low == [v EXCEPT !.deepest = IF Stays(from) /\ from < @ THEN from ELSE @,
                       !.settled = IF Stays(from) /\ from < @ THEN from ELSE @]
  IN  { [low EXCEPT !.dirty = @ \cup (from .. to)],
        [low EXCEPT !.dirty = (@ \cup (from .. to)) \ {from}, !.collided = TRUE] }

Call(n) ==
  /\ Idle
  /\ k.sp - n - STACK_PAINT_IGNORE >= k.lowest
  /\ \E w \in Written(k, k.sp - n - STACK_PAINT_IGNORE, k.sp - 1) : k' = [w EXCEPT !.sp = @ - n]

Return(n) ==
  /\ Idle
  /\ k.sp + n <= k.top
  /\ k' = [k EXCEPT !.sp = @ + n]

(* An interrupt saves registers on the stack (RISC-V and Xtensa handle it  *)
(* there) and is gone.                                                     *)
Interrupt(n) ==
  /\ k.sp - n - STACK_PAINT_IGNORE >= k.lowest
  /\ k' \in Written(k, k.sp - n - STACK_PAINT_IGNORE, k.sp - 1)

Repaint ==
  /\ Idle
  /\ k.lowest # k.highest
  /\ k' = [k EXCEPT !.painting = TRUE, !.pos = k.lowest, !.deepest = k.sp - STACK_PAINT_IGNORE,
                    !.settled = k.sp,
                    !.collided = \E a \in k.sp .. (k.highest - 1) : a \notin k.dirty]

PaintEnd == k.sp - STACK_PAINT_IGNORE

RepaintStep ==
  /\ ~Idle
  /\ k.pos < PaintEnd
  /\ k' = [k EXCEPT !.dirty = @ \ (k.pos .. Min({k.pos + Grain, PaintEnd}) - 1),
                    !.pos = Min({k.pos + Grain, PaintEnd})]

RepaintEnds ==
  /\ ~Idle
  /\ k.pos = PaintEnd
  /\ k' = [k EXCEPT !.painting = FALSE]

Next ==
  \/ \E n \in FrameSizes : Call(n) \/ Return(n) \/ Interrupt(n)
  \/ Repaint \/ RepaintStep \/ RepaintEnds

Spec == Init /\ [][Next]_k

-----------------------------------------------------------------------------
(* A thread starts within its stack, whatever the alignment of the memory  *)
(* it was given.  peak_usage is the depth of what has been written since   *)
(* the last repaint began and not painted over, unless a byte had the      *)
(* colour of the paint; up to the bytes that repaint spares, it is exact.  *)
(* repaint spares the frames in use, and interrupts may come at any byte:  *)
(* what one writes where repaint has been is measured, also when repaint   *)
(* has not ended; what it writes further up is painted over and lost,      *)
(* although repaint's comment has it included by the next peak_usage().    *)
PaintMeasures ==
  /\ k.lowest <= k.sp /\ k.sp <= k.top /\ k.top <= k.highest /\ k.highest <= k.start + k.size
  /\ k.top % 8 = 0
  /\ Idle => /\ peak_usage <= k.highest - k.deepest
             /\ k.collided \/ peak_usage >= k.highest - k.settled
=============================================================================
