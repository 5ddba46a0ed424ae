----------------------------- MODULE ReadyQueue -----------------------------
(***************************************************************************)
(* The per-PU ready queue of src/sched.c: a singly-linked list kept in     *)
(* priority order, head = highest priority, FIFO among equal priorities.   *)
(* The list is modelled as a sequence; enqueue0 is its linear insertion.   *)
(*                                                                         *)
(* Priorities are the 16-bit values of src/sched.h; every comparison       *)
(* masks them with PRI_VAL_MASK, and a numerically lower value is a higher *)
(* priority.                                                               *)
(***************************************************************************)
EXTENDS Naturals, Sequences

CONSTANT Pri          \* Pri[p]: the 16-bit priority field of process p

PRI_VAL_MASK == 4096  \* x & 0x0fff  ==  x % 4096

PriVal(x) == x % PRI_VAL_MASK

\* pri_le(p1, p2): p1 is not of higher priority than p2
PriLe(p1, p2) == PriVal(Pri[p1]) >= PriVal(Pri[p2])

\* pri_lt(p1, p2): p1 is of strictly lower priority than p2
PriLt(p1, p2) == PriVal(Pri[p1]) > PriVal(Pri[p2])

\* pri_gt(p1, p2): p1 is of strictly higher priority than p2
PriGt(p1, p2) == PriVal(Pri[p1]) < PriVal(Pri[p2])

(***************************************************************************)
(* enqueue0(proc): walk past every entry that proc does not outrank, then  *)
(* link proc in before the first entry it outranks (or at the end).        *)
(***************************************************************************)
\* Mutant: the loop test of the commented-out line of enqueue0, pri_lt in
\* place of pri_le, which puts a process before its equals (LIFO).
RECURSIVE Enqueue0LtMutant(_, _)
Enqueue0LtMutant(que, proc) ==
  IF que = << >> \/ ~PriLt(proc, Head(que))
    THEN << proc >> \o que
    ELSE << Head(que) >> \o Enqueue0LtMutant(Tail(que), proc)

RECURSIVE Enqueue0(_, _)
Enqueue0(que, proc) ==
  IF que = << >> \/ ~PriLe(proc, Head(que))
    THEN << proc >> \o que
    ELSE << Head(que) >> \o Enqueue0(Tail(que), proc)

(***************************************************************************)
(* The loop that opens take(), take1() and the interprocessor interrupt    *)
(* handler: ipq_remove() each process of the interprocessor queue, in      *)
(* order, and enqueue0 it.                                                 *)
(***************************************************************************)
RECURSIVE DrainInto(_, _)
DrainInto(que, ipq) ==
  IF ipq = << >> THEN que ELSE DrainInto(Enqueue0(que, Head(ipq)), Tail(ipq))

=============================================================================
