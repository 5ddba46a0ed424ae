---------------------------- MODULE MCReadyQueue ----------------------------
(***************************************************************************)
(* Checks enqueue0 of src/sched.c against a reference definition, over   *)
(* every ready queue of at most QLen distinct processes in priority order *)
(* and every process that may be added to it; and the priorities the     *)
(* PRI PAR runners of src/run.c hand out, over every nesting they allow;  *)
(* and find_mem_index of src/memory.c at every size-class boundary.       *)
(***************************************************************************)
EXTENDS Priority, FiniteSets, Memory

CONSTANTS a, b, c, d, e, QLen

P == {a, b, c, d, e}

\* Two processes of equal priority value, a third (0x2200: level 1) whose
\* value 0x200 equals theirs once the level bits are masked off, the
\* initial priority PRI_HIGH and the idle priority PRI_LOW.
MCPri == [x \in P |-> CASE x = a -> 0 [] x = b -> 512 [] x = c -> 512
                          [] x = d -> 8704 [] x = e -> 4095]

VARIABLES que, proc,
          ppri,    \* the priority of a process that runs a par_pri
          memsize  \* the byte size build_process asks find_mem_index for
vars == << que, proc, ppri, memsize >>

\* A ready queue as sched.c keeps it: distinct processes, priority order.
Sorted(s) == \A i \in 1..(Len(s) - 1) : PriVal(Pri[s[i]]) <= PriVal(Pri[s[i + 1]])
Distinct(s) == \A i, j \in DOMAIN s : i # j => s[i] # s[j]
SeqsUpTo(n) == UNION { [1..k -> P] : k \in 0..n }
Queues == { s \in SeqsUpTo(QLen) : Sorted(s) /\ Distinct(s) }
Elems(s) == { s[i] : i \in DOMAIN s }

\* the size classes: the indexes before the terminating 0
Classes == { i \in 0..(Len(procmemlen) - 1) : procmemlen[i + 1] # 0 }

QueueInputs ==
  /\ que \in Queues
  /\ proc \in P \ Elems(que)
  /\ ppri \in { x \in PriTree(PRI_HIGH) : ParPriAllowed(x, PRI_PROCS) }

\* every class length, one below and one above it, and 0
MemSizes == {0} \cup UNION { {l - 1, l, l + 1} : l \in { procmemlen[i + 1] : i \in Classes } }

\* The inputs of each algorithm, the others held at one value each.
Init ==
  \/ QueueInputs /\ memsize = 0
  \/ /\ que = << >> /\ proc = a /\ ppri = PRI_HIGH
     /\ memsize \in MemSizes

Next == UNCHANGED vars

Spec == Init /\ [][Next]_vars

(***************************************************************************)
(* Reference: the stable sort of s by priority value, characterised        *)
(* without reference to an insertion procedure: r is sorted, and for each  *)
(* priority value r lists the processes of that value in the order s does. *)
(***************************************************************************)
IsStableSortOf(r, s) ==
  /\ Len(r) = Len(s)
  /\ Sorted(r)
  /\ \A v \in { PriVal(Pri[x]) : x \in P } :
       SelectSeq(r, LAMBDA x : PriVal(Pri[x]) = v)
         = SelectSeq(s, LAMBDA x : PriVal(Pri[x]) = v)

\* enqueue0 keeps the ready queue in priority order and FIFO among equal
\* priorities: inserting proc equals appending it and sorting stably.
Enqueue0IsStableInsert == IsStableSortOf(Enqueue0(que, proc), que \o << proc >>)

(***************************************************************************)
(* PRI PAR orders whole subtrees: for every parent priority ppri that a  *)
(* nesting of par_pri / placed_par_pri allows (up to PRI_LEVELS deep,     *)
(* PRI_PROCS children each), every process descended from a child -- the *)
(* child itself included -- outranks the child's next sibling.  So no     *)
(* child value wraps past 0x0fff (the open question of spec.md), and the  *)
(* descendants of a higher-priority sibling never tie with or lose to a   *)
(* lower one's.  Plain PARs pass priorities on and add no case.           *)
(***************************************************************************)
PriParSubtreesOrdered ==
  LET ch == PriParChildren(ppri, PRI_PROCS) IN
  \A i \in 1..(PRI_PROCS - 1) :
    \A x \in PriTree(ch[i]) : PriVal(x) < PriVal(ch[i + 1])

(***************************************************************************)
(* Reference: memory.h's "index of smallest allocation >= given size":    *)
(* among the classes that hold size, the one of least length; none when   *)
(* size exceeds them all.                                                 *)
(***************************************************************************)
Holds(i, size) == procmemlen[i + 1] >= size

SmallestFit(size) ==
  IF \E i \in Classes : Holds(i, size)
    THEN CHOOSE i \in Classes : /\ Holds(i, size)
                               /\ \A j \in Classes : Holds(j, size) => procmemlen[i + 1] <= procmemlen[j + 1]
    ELSE NoFit

\* build_process gets, for every record size, the smallest class that holds
\* it: find_mem_index's linear scan over procmemlen, with its >= test and
\* its stop at the terminating 0, equals the reference.
FindMemIndexIsSmallestFit == find_mem_index(memsize) = SmallestFit(memsize)

=============================================================================
