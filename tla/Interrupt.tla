------------------------------ MODULE Interrupt ------------------------------
(***************************************************************************)
(* The user-level interrupts of src/interrupt.c: receive(i) parks the     *)
(* caller in the single `waiting' slot of interrupt i of its PU, and      *)
(* send_interrupt(i) signals the sender's own PU, whose handler           *)
(* (handle_user_interrupt) transmit()s: it empties the slot, readies the  *)
(* receiver it found and lets it preempt.  An interrupt with nobody in    *)
(* the slot is lost.                                                      *)
(*                                                                         *)
(* The signal is sent by pthread_kill to the calling thread, which runs   *)
(* with signals enabled, so the handler runs before send_interrupt        *)
(* returns: the send and the handler are one step of the sender.  A       *)
(* sender preempted inside the handler resumes in it (uintr_res).         *)
(***************************************************************************)
EXTENDS Sched

CONSTANT UserIntrs   \* the user interrupts INTR_USER0, INTR_USER1

VARIABLE intrWaiting  \* intrWaiting[u][i]: interrupts[u][i].waiting

intrVars == << intrWaiting >>

\* interrupt_init(): interrupts[pun][intr].waiting = NULL for all of them
interrupt_init == intrWaiting = [u \in PUs |-> [i \in UserIntrs |-> NoProc]]

\* receive(i): PREPARE_TO_WAIT; the store into the slot comes next.
Receive(p) ==
  /\ Active(p) /\ AtOp(p, "receive")
  /\ prepare_to_wait(p)
  /\ Goto(p, "recv_store")
  /\ UNCHANGED << current, rdyQ, ipq, ipi, inIPI, tgt, ret, ghostVars, intrVars >>

\* atomic_store(&interrupt->waiting, curr), then relinquish().
ReceiveStore(p) ==
  /\ Active(p) /\ lpc[p] = "recv_store"
  /\ intrWaiting' = [intrWaiting EXCEPT ![Pun[p]][Op(p).intr] = p]
  /\ Goto(p, "relinq")
  /\ UNCHANGED << schedVars, tgt, ret, ghostVars >>

\* Mutant: transmit reads the slot without clearing it.
TransmitKeepMutant(u, i) == UNCHANGED intrVars

\* transmit's atomic_exchange(&interrupt->waiting, NULL)
Transmit(u, i) == intrWaiting' = [intrWaiting EXCEPT ![u][i] = NoProc]

\* Mutant: transmit makes the receiver READY but never enqueue0s it.
TransmitQueueNoEnqueueMutant(u, r) == rdyQ[u]

\* the ready queue after transmit readies r: enqueue0(r) if r was WAITING
TransmitQueue(u, r) ==
  IF sched_state[r] = WAITING THEN Enqueue0(rdyQ[u], r) ELSE rdyQ[u]

(***************************************************************************)
(* send_interrupt(i) by p on PU u, with handle_user_interrupt run in p's  *)
(* context.  transmit takes the receiver r out of the slot; if there is   *)
(* one, it exchanges r's sched_state to READY and, if r was WAITING,      *)
(* enqueue0s it and runs schedule_from_interrupt, which may switch p      *)
(* away: p then resumes in the handler at uintr_res.  Otherwise           *)
(* handle_user_interrupt's own schedule_from_interrupt runs at once, and  *)
(* a switch there leaves p to resume past the send.  With no receiver the *)
(* interrupt is dropped.  A receiver's receive completes with the send.   *)
(***************************************************************************)
SendInterrupt(p) ==
  /\ Active(p) /\ AtOp(p, "send")
  /\ LET u == Pun[p]
         i == Op(p).intr
         r == intrWaiting[u][i] IN
     /\ Transmit(u, i)
     /\ IF r = NoProc
          THEN /\ ndone' = [ndone EXCEPT ![p] = @ + 1]
               /\ Goto(p, "next")
               /\ UNCHANGED << current, rdyQ, ipq, sched_state >>
          ELSE LET que == TransmitQueue(u, r) IN
               /\ ndone' = [ndone EXCEPT ![p] = @ + 1, ![r] = @ + 1]
               /\ sched_state' = [sched_state EXCEPT ![r] = READY]
               /\ FromInterrupt(u, p, que)
               /\ Goto(p, IF sched_state[r] = WAITING /\ Preempts(que, p)
                            THEN "uintr_res" ELSE "next")
  /\ UNCHANGED << ipi, inIPI, tgt, ret, got >>

\* A sender switched away by transmit is current again: the handler goes
\* on with handle_user_interrupt's schedule_from_interrupt and returns.
UserResume(p) ==
  /\ Running(p) /\ lpc[p] = "uintr_res"
  /\ FromInterrupt(Pun[p], p, rdyQ[Pun[p]])
  /\ Goto(p, "next")
  /\ UNCHANGED << ipi, inIPI, sched_state, tgt, ret, ghostVars, intrVars >>

=============================================================================
