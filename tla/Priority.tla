------------------------------ MODULE Priority ------------------------------
(***************************************************************************)
(* The priority field of src/sched.h as the PRI PAR runners of src/run.c  *)
(* fill it: the high-order bits hold the nesting level, the low-order 12  *)
(* bits the value.  par_pri and placed_par_pri give their children the    *)
(* level one below the parent's and values that start at the parent's    *)
(* value and step by pri_delta(level); par and placed_par pass the        *)
(* parent's priority on unchanged.                                         *)
(***************************************************************************)
EXTENDS ReadyQueue

PRI_LEVELS == 4
PRI_PROCS == 8
PRI_LOW == 4095      \* 0x0fff, IDLE_PRI
PRI_HIGH == 0        \* INIT_PRI

\* priority(lvl, val): (lvl << 13) | (val & PRI_VAL_MASK), kept in the
\* 16-bit field of the process record.
priority(lvl, val) == (lvl * 8192 + (val % PRI_VAL_MASK)) % 65536

\* pri_level(p): ((uint16) p) >> 13
pri_level(p) == (p % 65536) \div 8192

\* Mutant: the delta of the comment's numbering, where the topmost PRI PAR
\* is level 0: the code's level 1 gets the whole value span.
PriDeltaLevelZeroMutant(lvl) == PRI_VAL_MASK \div (2 ^ (3 * (lvl - 1)))

\* pri_delta(lvl): (PRI_VAL_MASK+1) / (1 << (3*lvl))
pri_delta(lvl) == PRI_VAL_MASK \div (2 ^ (3 * lvl))

\* the level placed_par_pri gives its children, and its plotz checks
ChildLevel(ppri) == pri_level(ppri) + 1
ParPriAllowed(ppri, nc) == nc <= PRI_PROCS /\ ChildLevel(ppri) <= PRI_LEVELS

(***************************************************************************)
(* The priorities of the nc children of a par_pri / placed_par_pri run by *)
(* a parent of priority ppri: pri starts as the whole 16-bit parent->pri  *)
(* and grows by delta per child; priority() masks it to the value bits.   *)
(***************************************************************************)
PriParChildren(ppri, nc) ==
  LET level == ChildLevel(ppri)
      delta == pri_delta(level) IN
  [i \in 1..nc |-> priority(level, ppri + (i - 1) * delta)]

\* Every priority a process can have: the initial process's, and those of
\* the children of every PRI PAR nested under it (plain PARs add none).
RECURSIVE PriTree(_)
PriTree(ppri) ==
  IF ParPriAllowed(ppri, PRI_PROCS)
    THEN {ppri} \cup UNION { PriTree(PriParChildren(ppri, PRI_PROCS)[i]) : i \in 1..PRI_PROCS }
    ELSE {ppri}

=============================================================================
