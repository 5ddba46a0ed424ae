-------------------------------- MODULE Timer --------------------------------
(***************************************************************************)
(* The timeout service of src/timer.c: the elapsed time, the per-PU       *)
(* timeout queue kept in time order, the single-shot TIMER_TIMEOUT timer   *)
(* of each PU (src/hardware.c), After(), enable_timeout() /               *)
(* disable_timeout() as the ALT engine calls them, and the timeout         *)
(* interrupt handler that readies the processes whose timeouts are due.    *)
(*                                                                         *)
(* Time is counted in ticks of the elapsed-time timer; GetCurrentTime()'s *)
(* two-read loop makes the reading consistent, so it is modelled as now.  *)
(* A descriptor is [time, proc, type, blk]: blk is the memory it lives    *)
(* in, the caller's stack for After() and a TMO_INDEX block of             *)
(* src/memory.c for enable_timeout(), whose free list is tmo_list.        *)
(***************************************************************************)
EXTENDS Interrupt

CONSTANT MaxTime   \* the horizon: the elapsed-time tick stops here

VARIABLES
  now,        \* currentTime
  timeQ,      \* timeQue[u].head: the timeout queue of PU u
  tmr,        \* the expiry time TIMER_TIMEOUT of PU u is armed for
  tpend,      \* TIMER_TIMEOUT of PU u has expired, its signal is pending
  tmo_list,   \* procmemlist[TMO_INDEX]: released descriptor blocks
  tmo_tail    \* how many TMO_INDEX blocks allocate_mem has cut from tail

timerVars == << now, timeQ, tmr, tpend, tmo_list, tmo_tail >>

TMO_AFTER == "AFTER"
TMO_ALTING == "ALTING"

\* it_value zero: the POSIX timer is not armed
DISARMED == -1

\* currentTime starts at 0; timer_init(): timeQue[pun].head = NULL.  The
\* TIMER_TIMEOUT signals start disarmed and not pending.
timer_init ==
  /\ now = 0
  /\ timeQ = [u \in PUs |-> << >>]
  /\ tmr = [u \in PUs |-> DISARMED]
  /\ tpend = [u \in PUs |-> FALSE]

StackBlk(p) == << "stack", p >>
HeapBlk(k) == << "heap", k >>

Desc(t, p, type, blk) == [time |-> t, proc |-> p, type |-> type, blk |-> blk]
NULL_DESC == Desc(-1, NoProc, "NULL", << "null", 0 >>)

\* Mutant: (Tick - t) + c read as Tick + c, one tick ahead.
GetCurrentTimeAheadMutant == now + 1

GetCurrentTime == now

(***************************************************************************)
(* set_timer_single(TIMER_TIMEOUT, diff): a non-positive interval is      *)
(* replaced by 0, and an it_value of 0 disarms the timer.                 *)
(***************************************************************************)
SetTimerSingle(diff) == IF diff > 0 THEN now + diff ELSE DISARMED

\* insertInQueue's walk: past every entry whose time is not later.
RECURSIVE InsertInQueue(_, _)
InsertInQueue(tque, desc) ==
  IF tque = << >> \/ desc.time < Head(tque).time
    THEN << desc >> \o tque
    ELSE << Head(tque) >> \o InsertInQueue(Tail(tque), desc)

\* insertInQueue(timeQue + u, desc): link desc in; a new head re-arms the
\* timer for its time as seen now.
Insert(u, desc) ==
  /\ timeQ' = [timeQ EXCEPT ![u] = InsertInQueue(@, desc)]
  /\ tmr' = IF timeQ[u] = << >> \/ desc.time < Head(timeQ[u]).time
              THEN [tmr EXCEPT ![u] = SetTimerSingle(desc.time - now)]
              ELSE tmr

(***************************************************************************)
(* removeFromQueue(tque, time, proc): skip the entries before `time',     *)
(* then those at `time' of other processes, and unlink the entry reached  *)
(* if it is (time, proc).  It returns the entry reached in either case.   *)
(***************************************************************************)
RemoveFromQueue(tque, time, proc) ==
  LET n == Len(tque)
      Scan(from, Stop(_)) ==
        LET I == { k \in from..n : Stop(tque[k]) } IN IF I = {} THEN n + 1 ELSE Min(I)
      i == Scan(1, LAMBDA d : ~(d.time < time))
      j == Scan(i, LAMBDA d : ~(d.time = time /\ d.proc # proc))
  IN [que |-> IF j <= n /\ tque[j].time = time /\ tque[j].proc = proc
                THEN RemoveAt(tque, j) ELSE tque,
      curr |-> IF j <= n THEN tque[j] ELSE NULL_DESC]

\* allocate_mem(TMO_INDEX): the head of the free list, else a block cut
\* from the tail (taillen is never decreased, so the test never fails).
TmoBlock == IF tmo_list # << >> THEN Head(tmo_list) ELSE HeapBlk(tmo_tail + 1)

AllocateTmo ==
  IF tmo_list # << >>
    THEN tmo_list' = Tail(tmo_list) /\ UNCHANGED tmo_tail
    ELSE tmo_tail' = tmo_tail + 1 /\ UNCHANGED tmo_list

\* enable_timeout(time, p) once GetCurrentTime() < time was seen: the
\* descriptor goes into a fresh block and into p's queue.
EnableTimeout(p, time) ==
  /\ AllocateTmo
  /\ Insert(Pun[p], Desc(time, p, TMO_ALTING, TmoBlock))
  /\ UNCHANGED << now, tpend >>

\* disable_timeout(time, p): unlink p's descriptor, and release_mem
\* whatever removeFromQueue returned.
DisableTimeout(p, time) ==
  LET rm == RemoveFromQueue(timeQ[Pun[p]], time, p) IN
  /\ timeQ' = [timeQ EXCEPT ![Pun[p]] = rm.que]
  /\ tmo_list' = IF rm.curr # NULL_DESC THEN << rm.curr.blk >> \o tmo_list
                                        ELSE tmo_list
  /\ UNCHANGED << now, tmr, tpend, tmo_tail >>

\* Mutant: a timeout counts as ready only after its time has passed.
TimeoutReadyLateMutant(time) == GetCurrentTime > time

\* timeout_ready(time), and the `ready' of enable_/disable_timeout
TimeoutReady(time) == GetCurrentTime >= time

(***************************************************************************)
(* After(when): if `when' is still to come, PREPARE_TO_WAIT; then, in a   *)
(* separate section with interrupts disabled, insertInQueue the stack     *)
(* descriptor, and relinquish().  Time goes on between the two.           *)
(***************************************************************************)
After(p) ==
  /\ Active(p) /\ AtOp(p, "after")
  /\ ndone' = [ndone EXCEPT ![p] = @ + 1]
  /\ IF Op(p).when > GetCurrentTime
       THEN /\ prepare_to_wait(p)
            /\ Goto(p, "after_ins")
       ELSE /\ Goto(p, "next")
            /\ UNCHANGED sched_state
  /\ UNCHANGED << current, rdyQ, ipq, ipi, inIPI, alt_state, tgt, ret, got >>
  /\ UNCHANGED timerVars

AfterInsert(p) ==
  /\ Active(p) /\ lpc[p] = "after_ins"
  /\ Insert(Pun[p], Desc(Op(p).when, p, TMO_AFTER, StackBlk(p)))
  /\ Goto(p, "relinq")
  /\ UNCHANGED << schedVars, alt_state, tgt, ret, ghostVars >>
  /\ UNCHANGED << now, tpend, tmo_list, tmo_tail >>

(***************************************************************************)
(* handle_elapsed_time_interrupt: currentTime += Tick.  A TIMER_TIMEOUT   *)
(* whose expiry time is reached fires: its signal is generated, and stays *)
(* pending until the PU's thread runs with signals enabled.               *)
(***************************************************************************)
ElapsedTick ==
  /\ now < MaxTime
  /\ now' = now + 1
  /\ LET fired == { u \in DOMAIN tmr : tmr[u] # DISARMED /\ tmr[u] <= now + 1 } IN
     /\ tpend' = [u \in DOMAIN tpend |-> tpend[u] \/ u \in fired]
     /\ tmr' = [u \in DOMAIN tmr |-> IF u \in fired THEN DISARMED ELSE tmr[u]]
  /\ UNCHANGED << timeQ, tmo_list, tmo_tail >>

(***************************************************************************)
(* What the timeout handler does for one due descriptor d, on the state   *)
(* st = [ss |-> sched_state, as |-> alt_state, que |-> the ready queue]:  *)
(* freeProcess (exchange to READY, enqueue0 if it was WAITING) for an     *)
(* After, maybeFreeAltingProcess (CAS ENABLING -> READY; failing that,    *)
(* CAS WAITING -> READY and enqueue0) for an ALT.                         *)
(***************************************************************************)
\* Mutant: freeProcess makes the process READY but never enqueues it.
FreeDueNoEnqueueMutant(st, d) ==
  LET p == d.proc IN
  CASE d.type = TMO_AFTER -> [st EXCEPT !.ss[p] = READY]
    [] st.as[p] = ALT_ENABLING -> [st EXCEPT !.as[p] = ALT_READY]
    [] st.as[p] = ALT_WAITING ->
         [st EXCEPT !.as[p] = ALT_READY, !.que = Enqueue0(@, p)]
    [] OTHER -> st

\* Mutant: freeProcess enqueues whatever the exchange returned.
FreeDueAlwaysEnqueueMutant(st, d) ==
  LET p == d.proc IN
  CASE d.type = TMO_AFTER -> [st EXCEPT !.ss[p] = READY, !.que = Enqueue0(@, p)]
    [] st.as[p] = ALT_ENABLING -> [st EXCEPT !.as[p] = ALT_READY]
    [] st.as[p] = ALT_WAITING ->
         [st EXCEPT !.as[p] = ALT_READY, !.que = Enqueue0(@, p)]
    [] OTHER -> st

FreeDue(st, d) ==
  LET p == d.proc IN
  CASE d.type = TMO_AFTER ->
         [st EXCEPT !.ss[p] = READY,
                    !.que = IF st.ss[p] = WAITING THEN Enqueue0(@, p) ELSE @]
    [] st.as[p] = ALT_ENABLING -> [st EXCEPT !.as[p] = ALT_READY]
    [] st.as[p] = ALT_WAITING ->
         [st EXCEPT !.as[p] = ALT_READY, !.que = Enqueue0(@, p)]
    [] OTHER -> st

\* how many descriptors the loop removeHead()s from q: the head, while it
\* is due by GetCurrentTime()
DueCount(q) ==
  LET late == { k \in DOMAIN q : q[k].time > GetCurrentTime } IN
  IF late = {} THEN Len(q) ELSE Min(late) - 1

(***************************************************************************)
(* handle_timeout_interrupt on PU u, delivered while its signal is        *)
(* pending and u's current process c runs with interrupts enabled: pop    *)
(* (and never release) every descriptor due by now, free its process,     *)
(* re-arm the timer for the new head (a later time, so never disarmed),   *)
(* then schedule_from_interrupt(): if the head of the ready queue        *)
(* outranks c, take() (which drains the IPQ first) gives it the PU and c  *)
(* goes back on the ready queue.                                          *)
(***************************************************************************)
TimeoutInterrupt(u) ==
  /\ SignalTaken(tpend, u)
  /\ tpend' = [tpend EXCEPT ![u] = FALSE]
  /\ LET c == current[u]
         q == timeQ[u]
         nd == DueCount(q)
         rest == SubSeq(q, nd + 1, Len(q))
         st == FoldLeft(FreeDue, [ss |-> sched_state, as |-> alt_state,
                                  que |-> rdyQ[u]], SubSeq(q, 1, nd)) IN
     /\ timeQ' = [timeQ EXCEPT ![u] = rest]
     /\ tmr' = [tmr EXCEPT ![u] = IF rest # << >>
                                    THEN SetTimerSingle(Head(rest).time - now)
                                    ELSE DISARMED]
     /\ sched_state' = st.ss
     /\ alt_state' = st.as
     /\ FromInterrupt(u, c, st.que)
  /\ UNCHANGED << ipi, inIPI, now, tmo_list, tmo_tail >>


=============================================================================
