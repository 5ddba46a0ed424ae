--------------------------------- MODULE Par ---------------------------------
(***************************************************************************)
(* The PAR runners of src/run.c.  The initial process Parent runs one of  *)
(* par, par_pri, placed_par and placed_par_pri (the constant Runner): it  *)
(* initialises the completion barrier to the number of children, prepares *)
(* to wait, makes each child in turn (enqueue() on its own PU, schedule() *)
(* onto another), and relinquishes.  Each child runs its program in       *)
(* run_in_par and then par_barr_sync()s: the atomic decrement that brings *)
(* the count to zero schedule()s the parent; then the child terminates.   *)
(*                                                                         *)
(* make_process fixes a child's priority and PU, which never change; the  *)
(* constants Pri and Pun hold them, and RunnerGivesTables requires them   *)
(* to be the arguments the runner passes.                                 *)
(*                                                                         *)
(* par_barrier.m is not in the repository: par_barr_init and              *)
(* par_barr_sync are as spec.md describes them (decrement; at zero,       *)
(* schedule the parent).  schedule() is a plain schedule0 under disable,  *)
(* with no exchange of the parent's sched_state.                          *)
(***************************************************************************)
EXTENDS Alt, Priority

CONSTANT Parent,  \* the initial process, which calls the PAR runner
         Runner   \* "par", "par_pri", "placed_par" or "placed_par_pri"

\* make_process's priority and PU arguments for the i-th child (1-based)
\* of each runner; the placed runners take the PU from the caller's pun[].
par_child(i) == [pri |-> Pri[Parent], pun |-> Pun[Parent]]

par_pri_child(i) ==
  [pri |-> PriParChildren(Pri[Parent], Len(Children))[i], pun |-> Pun[Parent]]

placed_par_child(i) == [pri |-> Pri[Parent], pun |-> Pun[Children[i]]]

placed_par_pri_child(i) ==
  [pri |-> PriParChildren(Pri[Parent], Len(Children))[i], pun |-> Pun[Children[i]]]

MakeArgs(i) ==
  CASE Runner = "par" -> par_child(i)
    [] Runner = "par_pri" -> par_pri_child(i)
    [] Runner = "placed_par" -> placed_par_child(i)
    [] Runner = "placed_par_pri" -> placed_par_pri_child(i)

\* par_pri and placed_par_pri plotz (end the program) with more than
\* PRI_PROCS children or a child level beyond PRI_LEVELS.
RunnerAllowed ==
  Runner \in {"par_pri", "placed_par_pri"} => ParPriAllowed(Pri[Parent], Len(Children))

\* The runner is one that returns, and the children's priorities and PUs
\* are the ones it makes them with.
RunnerGivesTables ==
  /\ RunnerAllowed
  /\ \A i \in 1..Len(Children) : /\ Pri[Children[i]] = MakeArgs(i).pri
                                /\ Pun[Children[i]] = MakeArgs(i).pun

ASSUME RunnerGivesTables

VARIABLES
  barrier,   \* ParBarrier.children: children yet to reach the barrier
  pmade      \* the runner's loop index i: children made so far

parVars == << barrier, pmade >>

ChildSet == Range(Children)

\* make_process has created p: the parent, or a child the runner has made
Exists(p) == p = Parent \/ \E i \in 1..pmade : Children[i] = p

(***************************************************************************)
(* The runner up to its loop: par_barr_init(&barrier, parent, nc), then  *)
(* PREPARE_TO_WAIT(parent) (after the plotz checks of the PRI runners).   *)
(***************************************************************************)
ParBegin(p) ==
  /\ Active(p) /\ AtOp(p, "par")
  /\ barrier' = Len(Children)
  /\ pmade' = 0
  /\ prepare_to_wait(p)
  /\ Goto(p, "par_make")
  /\ UNCHANGED << current, rdyQ, ipq, ipi, inIPI, tgt, ret, ghostVars >>

(***************************************************************************)
(* One turn of the runner's loop: make_process (WAITING, not alting, with *)
(* MakeArgs), then enqueue() it if its PU is the parent's -- always for   *)
(* par and par_pri; enqueue0 under disable, never a preemption -- or      *)
(* schedule() it onto its own PU's IPQ.  Interrupts are enabled between   *)
(* turns.  After the last child the parent relinquish()es.                *)
(***************************************************************************)
ParMake(p) ==
  /\ Active(p) /\ lpc[p] = "par_make"
  /\ LET c == Children[pmade + 1] IN
     IF MakeArgs(pmade + 1).pun = Pun[p]
       THEN /\ enqueue(Pun[p], c)
            /\ UNCHANGED << current, ipq, ipi >>
       ELSE Schedule0(p, c)
  /\ pmade' = pmade + 1
  /\ Goto(p, IF pmade + 1 = Len(Children) THEN "relinq" ELSE "par_make")
  /\ UNCHANGED << barrier, sched_state, inIPI, tgt, ret, ghostVars >>

\* Mutant: the child that brings the count to one, not zero, wakes the
\* parent (the pre-decrement value tested against 0 after decrementing).
BarrierSyncEarlyMutant(p) ==
  /\ Active(p) /\ p \in ChildSet /\ lpc[p] = "start" /\ ip[p] = Len(Prog[p]) + 1
  /\ barrier' = barrier - 1
  /\ IF barrier - 1 = 1
       THEN /\ tgt' = [tgt EXCEPT ![p] = Parent]
            /\ ret' = [ret EXCEPT ![p] = "term"]
            /\ ndone' = [ndone EXCEPT ![Parent] = @ + 1]
            /\ Goto(p, "sched")
       ELSE /\ Goto(p, "term")
            /\ UNCHANGED << tgt, ret, ndone >>
  /\ UNCHANGED << schedVars, pmade, got >>

(***************************************************************************)
(* run_in_par after the child's code has returned: par_barr_sync, the     *)
(* atomic decrement of the barrier's count; the child that brings it to   *)
(* zero schedule()s the parent (Schedule, then on to terminate).  That    *)
(* is when the parent's PAR is complete.                                  *)
(***************************************************************************)
BarrierSync(p) ==
  /\ Active(p) /\ p \in ChildSet /\ lpc[p] = "start" /\ ip[p] = Len(Prog[p]) + 1
  /\ barrier' = barrier - 1
  /\ IF barrier - 1 = 0
       THEN /\ tgt' = [tgt EXCEPT ![p] = Parent]
            /\ ret' = [ret EXCEPT ![p] = "term"]
            /\ ndone' = [ndone EXCEPT ![Parent] = @ + 1]
            /\ Goto(p, "sched")
       ELSE /\ Goto(p, "term")
            /\ UNCHANGED << tgt, ret, ndone >>
  /\ UNCHANGED << schedVars, pmade, got >>

=============================================================================
