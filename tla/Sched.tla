-------------------------------- MODULE Sched --------------------------------
(***************************************************************************)
(* The scheduler of src/sched.c: per-PU current process and ready queue,  *)
(* the interprocessor queue (IPQ) through which one PU readies a process  *)
(* of another, the three-valued sched_state handshake of relinquish, and  *)
(* the interprocessor interrupt handler that may preempt.                 *)
(*                                                                         *)
(* A process executes a program Prog[p] (a sequence of operations); lpc   *)
(* is the point it has reached inside the current operation and ip the    *)
(* index of that operation.  Only the current process of a PU takes       *)
(* steps.  Each step is one atomic region of the code: a section run with *)
(* interrupts disabled or under a channel mutex, or a single atomic       *)
(* exchange or compare-and-swap.  An interrupt may come between any two   *)
(* steps.  A process that is switched away keeps its lpc and resumes from *)
(* it when it is next made current.                                       *)
(***************************************************************************)
EXTENDS ReadyQueue, Integers, SequencesExt

CONSTANTS
  Procs,      \* the user processes
  PUs,        \* the processing units
  IdleOf,     \* IdleOf[u]: the idle process of PU u (priority PRI_LOW)
  Pun,        \* Pun[p]: the PU a process is fixed to
  Prog,       \* Prog[p]: the operations process p performs, in order
  Children,   \* the user processes in the order the PAR runner made them
  InitPU,     \* the PU of the initial process, which ran the PAR runner
  NoProc      \* NULL

VARIABLES
  current,      \* current[u]: the process executing on PU u
  rdyQ,         \* rdyQues[u]
  ipq,          \* the interprocessor queue of PU u (ipq.m)
  ipi,          \* ipi[u]: an interprocessor interrupt is pending on u
  sched_state,  \* Process.sched_state
  inIPI,        \* inIPI[p]: p was switched away inside the IPI handler
  lpc,          \* where process p is inside its current operation
  ip,           \* index of p's current operation in Prog[p]
  tgt,          \* the process p is readying (wasWaiting, proc)
  ret,          \* where p continues once it has readied tgt[p]
  alt_state,    \* Process.alt_state
  ndone,        \* history: operations of p complete in the CSP sense
  got           \* history: the values p has received, in order

schedVars == << current, rdyQ, ipq, ipi, sched_state, inIPI >>
ctlVars == << lpc, ip, tgt, ret >>
ghostVars == << ndone, got >>

\* enqueue(proc): enqueue0 on PU u with interrupts disabled
enqueue(u, c) == rdyQ' = [rdyQ EXCEPT ![u] = Enqueue0(@, c)]

\* sched_init(): ipq_init() and rdyQues[pun].head = NULL, for every PU
EmptyQueues == [u \in PUs |-> << >>]

Idlers == Range(IdleOf)
AllProcs == Procs \cup Idlers

READY == "READY"
PREPARING_TO_WAIT == "PREPARING_TO_WAIT"
WAITING == "WAITING"

ALT_NONE == "NONE"
ALT_ENABLING == "ENABLING"
ALT_WAITING == "ALT_WAITING"
ALT_READY == "ALT_READY"

Running(p) == current[Pun[p]] = p
\* p executes its own code (not an idle process, not inside the handler)
Active(p) == p \in Procs /\ Running(p) /\ ~inIPI[p]
Op(p) == Prog[p][ip[p]]
AtOp(p, kind) == lpc[p] = "start" /\ ip[p] <= Len(Prog[p]) /\ Op(p).op = kind
InQueue(p) == p \in ToSet(rdyQ[Pun[p]]) \/ p \in ToSet(ipq[Pun[p]])

\* Control flow inside a process: "next" ends the current operation.
Goto(p, l) ==
  IF l = "next"
    THEN lpc' = [lpc EXCEPT ![p] = "start"] /\ ip' = [ip EXCEPT ![p] = @ + 1]
    ELSE lpc' = [lpc EXCEPT ![p] = l] /\ UNCHANGED ip

\* set_current(proc): current[pun] = proc; current_pri[pun] follows proc->pri,
\* which the model reads off the process.
set_current(u, p) == current' = [current EXCEPT ![u] = p]

\* prepare_to_wait(): PROC_PREPARING_TO_WAIT, stored with release order
prepare_to_wait(p) == sched_state' = [sched_state EXCEPT ![p] = PREPARING_TO_WAIT]

(***************************************************************************)
(* take(u) followed by set_current: drain the IPQ into the ready queue,   *)
(* remove its head and make it current.  The idle process keeps the      *)
(* queue non-empty whenever it is not itself current.                    *)
(***************************************************************************)
TakeAndSetCurrent(u) ==
  LET q == DrainInto(rdyQ[u], ipq[u]) IN
  /\ set_current(u, Head(q))
  /\ rdyQ' = [rdyQ EXCEPT ![u] = Tail(q)]
  /\ ipq' = [ipq EXCEPT ![u] = << >>]

(***************************************************************************)
(* schedule0(t) called by the running process p (interrupts disabled):    *)
(* on p's PU, t preempts p only if strictly higher; otherwise t is put on *)
(* the IPQ of its own PU and an interprocessor interrupt is sent there.   *)
(***************************************************************************)
\* Mutant: a preempted process is not put back on the ready queue.
Schedule0NoRequeueMutant(p, t) ==
  LET u == Pun[p] IN
  IF Pun[t] = u
    THEN IF PriLe(t, p)
           THEN /\ rdyQ' = [rdyQ EXCEPT ![u] = Enqueue0(@, t)]
                /\ UNCHANGED << current, ipq, ipi >>
           ELSE /\ set_current(u, t)
                /\ UNCHANGED << rdyQ, ipq, ipi >>
    ELSE /\ ipq' = [ipq EXCEPT ![Pun[t]] = Append(@, t)]
         /\ ipi' = [ipi EXCEPT ![Pun[t]] = TRUE]
         /\ UNCHANGED << current, rdyQ >>

\* Mutant: enqueue0(proc) hoisted above the priority test.
Schedule0EnqueueFirstMutant(p, t) ==
  LET u == Pun[p] IN
  IF Pun[t] = u
    THEN IF PriLe(t, p)
           THEN /\ rdyQ' = [rdyQ EXCEPT ![u] = Enqueue0(@, t)]
                /\ UNCHANGED << current, ipq, ipi >>
           ELSE /\ set_current(u, t)
                /\ rdyQ' = [rdyQ EXCEPT ![u] = Enqueue0(Enqueue0(@, t), p)]
                /\ UNCHANGED << ipq, ipi >>
    ELSE /\ ipq' = [ipq EXCEPT ![Pun[t]] = Append(@, t)]
         /\ ipi' = [ipi EXCEPT ![Pun[t]] = TRUE]
         /\ UNCHANGED << current, rdyQ >>

\* Mutant: the process is put on the other PU's IPQ and no IPI is sent.
Schedule0NoIpiMutant(p, t) ==
  LET u == Pun[p] IN
  IF Pun[t] = u
    THEN IF PriLe(t, p)
           THEN /\ rdyQ' = [rdyQ EXCEPT ![u] = Enqueue0(@, t)]
                /\ UNCHANGED << current, ipq, ipi >>
           ELSE /\ set_current(u, t)
                /\ rdyQ' = [rdyQ EXCEPT ![u] = Enqueue0(@, p)]
                /\ UNCHANGED << ipq, ipi >>
    ELSE /\ ipq' = [ipq EXCEPT ![Pun[t]] = Append(@, t)]
         /\ UNCHANGED << current, rdyQ, ipi >>

Schedule0(p, t) ==
  LET u == Pun[p] IN
  IF Pun[t] = u
    THEN IF PriLe(t, p)
           THEN /\ rdyQ' = [rdyQ EXCEPT ![u] = Enqueue0(@, t)]
                /\ UNCHANGED << current, ipq, ipi >>
           ELSE /\ set_current(u, t)
                /\ rdyQ' = [rdyQ EXCEPT ![u] = Enqueue0(@, p)]
                /\ UNCHANGED << ipq, ipi >>
    ELSE /\ ipq' = [ipq EXCEPT ![Pun[t]] = Append(@, t)]
         /\ ipi' = [ipi EXCEPT ![Pun[t]] = TRUE]
         /\ UNCHANGED << current, rdyQ >>

(***************************************************************************)
(* relinquish(): CAS sched_state PREPARING_TO_WAIT -> WAITING.  On        *)
(* success the process goes on to switch away; on failure a readier has   *)
(* already set it READY and the operation is over.                        *)
(***************************************************************************)
\* Mutant: the compare-and-swap retried until it succeeds, as if a failed
\* CAS meant contention rather than an earlier wake-up.
RelinquishSpinMutant(p) ==
  /\ Active(p) /\ lpc[p] = "relinq"
  /\ IF sched_state[p] = PREPARING_TO_WAIT
       THEN /\ sched_state' = [sched_state EXCEPT ![p] = WAITING]
            /\ Goto(p, "switch")
       ELSE UNCHANGED << lpc, ip, sched_state >>
  /\ UNCHANGED << current, rdyQ, ipq, ipi, inIPI, tgt, ret >>
  /\ UNCHANGED ghostVars

Relinquish(p) ==
  /\ Active(p) /\ lpc[p] = "relinq"
  /\ IF sched_state[p] = PREPARING_TO_WAIT
       THEN /\ sched_state' = [sched_state EXCEPT ![p] = WAITING]
            /\ Goto(p, "switch")
       ELSE /\ Goto(p, "next")
            /\ UNCHANGED sched_state
  /\ UNCHANGED << current, rdyQ, ipq, ipi, inIPI, tgt, ret >>
  /\ UNCHANGED ghostVars

\* relinquish() after a successful CAS: disable(); take; set_current;
\* switch_context.  The process resumes at the end of its operation.
RelinquishSwitch(p) ==
  /\ Active(p) /\ lpc[p] = "switch"
  /\ TakeAndSetCurrent(Pun[p])
  /\ Goto(p, "next")
  /\ UNCHANGED << ipi, sched_state, inIPI, tgt, ret >>
  /\ UNCHANGED ghostVars

(***************************************************************************)
(* take1(u) with yield()'s switch, for the current process p of u: drain  *)
(* the IPQ; take1 returns the head only if some process besides the idle  *)
(* one is ready, and then the head becomes current and p re-enters the   *)
(* ready queue (enqueue0, switch_context).                                *)
(***************************************************************************)
YieldSwitch(p) ==
  LET u == Pun[p]
      q == DrainInto(rdyQ[u], ipq[u]) IN
  /\ IF Len(q) >= 2
       THEN /\ set_current(u, Head(q))
            /\ rdyQ' = [rdyQ EXCEPT ![u] = Enqueue0(Tail(q), p)]
       ELSE /\ rdyQ' = [rdyQ EXCEPT ![u] = q]
            /\ UNCHANGED current
  /\ ipq' = [ipq EXCEPT ![u] = << >>]

\* init_mutex(mutex): claimed = false, i.e. no holder
init_mutex == NoProc

(***************************************************************************)
(* claim_mutex(m) by p, where m is held by holder (NoProc: free).  Once   *)
(* an exchange finds it free p holds it.  While it is held, each failed   *)
(* exchange changes nothing, and TRIALS_BEFORE_YIELD of them end in       *)
(* yield(); the claim starts over when p is current again.  The trials    *)
(* are one step: the holder can release between two of them only from    *)
(* another PU, and the claim then succeeds as it would at the next try.  *)
(***************************************************************************)
ClaimMutex(p, holder) ==
  IF holder = NoProc
    THEN UNCHANGED << current, rdyQ, ipq >>
    ELSE YieldSwitch(p)

\* yield(): disable(), then take1 and the switch; the operation is done.
Yield(p) ==
  /\ Active(p) /\ AtOp(p, "yield")
  /\ YieldSwitch(p)
  /\ Goto(p, "next")
  /\ ndone' = [ndone EXCEPT ![p] = @ + 1]
  /\ UNCHANGED << ipi, sched_state, inIPI, tgt, ret, got >>

(***************************************************************************)
(* The readying step of in() and out(): atomic_exchange of the waiter's   *)
(* sched_state to READY; only if it was WAITING (already parked) does the *)
(* readier go on to schedule() it.                                        *)
(***************************************************************************)
\* Mutant: the waiter is schedule()d whatever the exchange returned.
WakeExchangeMutant(p) ==
  /\ Active(p) /\ lpc[p] = "wake"
  /\ sched_state' = [sched_state EXCEPT ![tgt[p]] = READY]
  /\ Goto(p, "sched")
  /\ UNCHANGED << current, rdyQ, ipq, ipi, inIPI, tgt, ret >>
  /\ UNCHANGED ghostVars

WakeExchange(p) ==
  /\ Active(p) /\ lpc[p] = "wake"
  /\ sched_state' = [sched_state EXCEPT ![tgt[p]] = READY]
  /\ IF sched_state[tgt[p]] = WAITING THEN Goto(p, "sched") ELSE Goto(p, ret[p])
  /\ UNCHANGED << current, rdyQ, ipq, ipi, inIPI, tgt, ret >>
  /\ UNCHANGED ghostVars

\* schedule(t) = disable(); schedule0(t); enable().  If p is preempted it
\* resumes after switch_context, i.e. at ret[p].
Schedule(p) ==
  /\ Active(p) /\ lpc[p] = "sched"
  /\ Schedule0(p, tgt[p])
  /\ Goto(p, ret[p])
  /\ UNCHANGED << sched_state, inIPI, tgt, ret >>
  /\ UNCHANGED ghostVars

\* A process inside an interrupt handler runs with interrupts disabled:
\* one switched away in the IPI handler's loop, or in handle_user_interrupt
\* between transmit's schedule_from_interrupt and its own.
InHandler(p) == inIPI[p] \/ (p \in Procs /\ lpc[p] = "uintr_res")

\* handle_signal(): the signal pending on PU u (pend[u]) is taken only while
\* u's current process runs with interrupts enabled; the handler body then
\* runs between disable() and enable().  Its save of the interrupted
\* context through curr->stackptr is left out.
SignalTaken(pend, u) == pend[u] /\ ~InHandler(current[u])

\* Mutant: the priority test with its operands swapped.
PreemptsSwappedMutant(que, c) == que # << >> /\ PriGt(c, Head(que))

\* schedule_from_interrupt() would switch: the head of que outranks c.
Preempts(que, c) == que # << >> /\ PriGt(Head(que), c)

(***************************************************************************)
(* schedule_from_interrupt() on PU u, whose ready queue the handler has   *)
(* made que, with c current: if the head outranks c, take() (which first  *)
(* drains the IPQ) gives it the PU and c is enqueue0()d.                   *)
(***************************************************************************)
FromInterrupt(u, c, que) ==
  IF Preempts(que, c)
    THEN LET q2 == DrainInto(que, ipq[u]) IN
         /\ set_current(u, Head(q2))
         /\ rdyQ' = [rdyQ EXCEPT ![u] = Enqueue0(Tail(q2), c)]
         /\ ipq' = [ipq EXCEPT ![u] = << >>]
    ELSE /\ rdyQ' = [rdyQ EXCEPT ![u] = que]
         /\ UNCHANGED << current, ipq >>

(***************************************************************************)
(* handle_interprocessor_interrupt on the current process c of PU u: each *)
(* ipq_remove()d process is schedule0()d.  The first one that outranks c  *)
(* preempts it through switch_context inside the handler: c goes on the   *)
(* ready queue, keeps its handler frame (inIPI) and the rest of the IPQ   *)
(* stays where it is.  If none preempts, schedule_from_interrupt() hands  *)
(* the PU to the head of the ready queue if that outranks c.              *)
(***************************************************************************)
RECURSIVE IpqLoop(_, _, _)
IpqLoop(que, q, c) ==
  IF q = << >> THEN [que |-> que, ipq |-> q, pre |-> c]
  ELSE IF PriLe(Head(q), c) THEN IpqLoop(Enqueue0(que, Head(q)), Tail(q), c)
  ELSE [que |-> Enqueue0(que, c), ipq |-> Tail(q), pre |-> Head(q)]

HandlerBody(u) ==
  LET c == current[u]
      r == IpqLoop(rdyQ[u], ipq[u], c) IN
  IF r.pre # c
    THEN /\ set_current(u, r.pre)
         /\ rdyQ' = [rdyQ EXCEPT ![u] = r.que]
         /\ ipq' = [ipq EXCEPT ![u] = r.ipq]
         /\ inIPI' = [inIPI EXCEPT ![c] = TRUE]
    ELSE /\ ipq' = [ipq EXCEPT ![u] = << >>]
         /\ inIPI' = [inIPI EXCEPT ![c] = FALSE]
         /\ IF r.que # << >> /\ PriGt(Head(r.que), c)
              THEN /\ set_current(u, Head(r.que))
                   /\ rdyQ' = [rdyQ EXCEPT ![u] = Enqueue0(Tail(r.que), c)]
              ELSE /\ rdyQ' = [rdyQ EXCEPT ![u] = r.que]
                   /\ UNCHANGED current

\* The pending interprocessor signal is delivered to PU u.
IPIHandler(u) ==
  /\ SignalTaken(ipi, u)
  /\ ipi' = [ipi EXCEPT ![u] = FALSE]
  /\ HandlerBody(u)
  /\ UNCHANGED << sched_state >>
  /\ UNCHANGED ghostVars

\* A process switched away inside the IPI handler is current again and
\* carries on with the handler's loop.
IPIResume(p) ==
  /\ Running(p) /\ inIPI[p]
  /\ HandlerBody(Pun[p])
  /\ UNCHANGED << ipi, sched_state >>
  /\ UNCHANGED ghostVars

=============================================================================
