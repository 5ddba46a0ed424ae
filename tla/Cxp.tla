--------------------------------- MODULE Cxp ---------------------------------
(***************************************************************************)
(* The executive as a whole: the initial process running a PAR runner,  *)
(* the children it starts on the PUs, each executing its program of      *)
(* channel, ALT, timer, interrupt and yield operations, the scheduler     *)
(* that multiplexes them and the interrupts that drive it.                *)
(***************************************************************************)
EXTENDS Termination

vars == << schedVars, ctlVars, ghostVars, chanVars, altVars, timerVars, intrVars, parVars,
         termVars >>

Labels == {"start", "relinq", "switch", "wake", "sched", "fpm1", "fpm2",
           "alt_en", "alt_tmo", "alt_wait", "alt_switch", "alt_dis", "alt_fin", "alt_in",
           "after_ins", "recv_store", "uintr_res", "par_make", "term",
           "term_free", "term_fin", "done"}

TmoBlocks == {HeapBlk(k) : k \in 1..(Cardinality(Procs) * MaxTime + 1)}

Ops == UNION { {Prog[p][i] : i \in DOMAIN Prog[p]} : p \in Procs }
Vals == { o.val : o \in { o \in Ops : o.op = "out" } }
Descs == [time : 0..MaxTime, proc : Procs, type : {TMO_AFTER, TMO_ALTING},
          blk : {StackBlk(p) : p \in Procs} \cup TmoBlocks]
MaxGuards == Max({1} \cup { Len(o.guards) : o \in { o \in Ops : o.op = "alt" } })

(***************************************************************************)
(* The state initialize() leaves: the initial process (Parent) current on *)
(* InitPU with its idle process queued, the idle process current on every *)
(* other PU, and nothing else; make_process leaves every process WAITING  *)
(* and not alting.  Parent is about to call the PAR runner.               *)
(***************************************************************************)
Init ==
  /\ memory_init
  /\ interrupt_init
  /\ timer_init
  /\ ipq = EmptyQueues
  /\ termination_init
  /\ current = [u \in PUs |-> IF u = InitPU THEN Parent ELSE IdleOf[u]]
  /\ rdyQ = [EmptyQueues EXCEPT ![InitPU] = << IdleOf[InitPU] >>]
  /\ ipi = [u \in PUs |-> FALSE]
  /\ sched_state = [p \in AllProcs |-> WAITING]
  /\ inIPI = [p \in AllProcs |-> FALSE]
  /\ lpc = [p \in Procs |-> "start"]
  /\ ip = [p \in Procs |-> 1]
  /\ tgt = [p \in Procs |-> NoProc]
  /\ ret = [p \in Procs |-> "next"]
  /\ ndone = [p \in Procs |-> 0]
  /\ got = [p \in Procs |-> << >>]
  /\ init_channel
  /\ msg = [p \in Procs |-> NoVal]
  /\ alt_state = [p \in Procs |-> ALT_NONE]
  /\ altI = [p \in Procs |-> 0]
  /\ altK = [p \in Procs |-> 0]
  /\ sel = [p \in Procs |-> -1]
  /\ fav = [p \in Procs |-> 0]
  /\ earliest = [p \in Procs |-> NO_TIME]
  /\ startReady = [p \in Procs |-> {}]
  /\ barrier = 0
  /\ pmade = 0

SchedStep(p) ==
  /\ \/ Relinquish(p) \/ RelinquishSwitch(p) \/ Yield(p)
     \/ WakeExchange(p) \/ Schedule(p)
  /\ UNCHANGED << chanVars, altVars, timerVars, intrVars, parVars, termVars >>

ChanStep(p) ==
  /\ In(p) \/ Out(p) \/ TryIn(p)
  /\ UNCHANGED << altVars, timerVars, intrVars, parVars, termVars >>

AltStep(p) ==
  /\ \/ AltStart(p) \/ AltEnable(p) \/ AltTimeout(p) \/ AltShouldWait(p)
     \/ AltSwitch(p) \/ AltDisable(p) \/ AltFinish(p) \/ AltIn(p)
     \/ FreeProcessMaybe1(p) \/ FreeProcessMaybe2(p) \/ ChanClaim(p)
  /\ UNCHANGED << intrVars, parVars, termVars >>

TimerStep(p) ==
  /\ After(p) \/ AfterInsert(p)
  /\ UNCHANGED << chanVars, altI, altK, sel, fav, earliest, startReady, intrVars, parVars, termVars >>

IntrStep(p) ==
  /\ Receive(p) \/ ReceiveStore(p) \/ SendInterrupt(p) \/ UserResume(p)
  /\ UNCHANGED << chanVars, altVars, timerVars, parVars, termVars >>

ParStep(p) ==
  /\ ParBegin(p) \/ ParMake(p) \/ BarrierSync(p)
  /\ UNCHANGED << chanVars, altVars, timerVars, intrVars, termVars >>

TermStep(p) ==
  /\ TermClaim(p) \/ TermFree(p) \/ TermFinish(p)
  /\ UNCHANGED << chanVars, altVars, timerVars, intrVars, parVars >>

\* everything the current process p may do next
ProcStep(p) ==
  SchedStep(p) \/ ChanStep(p) \/ AltStep(p) \/ TimerStep(p) \/ IntrStep(p)
    \/ ParStep(p) \/ TermStep(p)

IPIStep(u) ==
  IPIHandler(u) /\ UNCHANGED << ctlVars, chanVars, altVars, timerVars, intrVars, parVars, termVars >>

ResumeStep(p) ==
  IPIResume(p) /\ UNCHANGED << ctlVars, chanVars, altVars, timerVars, intrVars, parVars, termVars >>

TimeoutStep(u) ==
  /\ TimeoutInterrupt(u)
  /\ UNCHANGED << ctlVars, ghostVars, chanVars, altI, altK, sel, fav, earliest, startReady, intrVars, parVars, termVars >>

TickStep ==
  /\ ElapsedTick
  /\ UNCHANGED << schedVars, ctlVars, ghostVars, chanVars, altVars, intrVars, parVars, termVars >>

\* The PAR has returned to the parent: it is past the PAR and running.
Done == Running(Parent) /\ ip[Parent] > Len(Prog[Parent])

\* The parent is past its PAR: main returns and the program exits, whether
\* or not each child has got to terminate() since its barrier sync.
Terminated == Done /\ UNCHANGED vars

Next ==
  \/ \E p \in Procs : ProcStep(p)
  \/ \E u \in PUs : IPIStep(u)
  \/ \E p \in AllProcs : ResumeStep(p)
  \/ \E u \in PUs : TimeoutStep(u)
  \/ TickStep
  \/ Terminated

(***************************************************************************)
(* Each PU is a pthread that keeps executing its current process, and a   *)
(* signal sent with pthread_kill is delivered once the thread runs.  The  *)
(* elapsed-time timer keeps ticking (up to the horizon MaxTime), and an   *)
(* expired TIMER_TIMEOUT's signal is delivered in the same way.           *)
(***************************************************************************)
Fairness ==
  /\ \A p \in Procs : WF_vars(ProcStep(p))
  /\ \A p \in AllProcs : WF_vars(ResumeStep(p))
  /\ \A u \in PUs : WF_vars(IPIStep(u))
  /\ \A u \in PUs : WF_vars(TimeoutStep(u))
  /\ WF_vars(TickStep)

Spec == Init /\ [][Next]_vars /\ Fairness

-----------------------------------------------------------------------------
(* Properties *)

TypeOK ==
  /\ current \in [PUs -> AllProcs]
  /\ rdyQ \in [PUs -> Seq(AllProcs)]
  /\ ipq \in [PUs -> Seq(AllProcs)]
  /\ ipi \in [PUs -> BOOLEAN]
  /\ sched_state \in [AllProcs -> {READY, PREPARING_TO_WAIT, WAITING}]
  /\ inIPI \in [AllProcs -> BOOLEAN]
  /\ lpc \in [Procs -> Labels]
  /\ ip \in [Procs -> Nat]
  /\ tgt \in [Procs -> Procs \cup {NoProc}]
  /\ ret \in [Procs -> {"next", "relinq", "term"}]
  /\ ndone \in [Procs -> Nat]
  /\ got \in [Procs -> Seq(Vals \cup {NullRead})]
  /\ waiting \in [Chans -> Procs \cup {NoProc}]
  /\ buf \in [Chans -> Procs \cup {NoProc}]
  /\ chanMutex \in [Chans -> Procs \cup {NoProc}]
  /\ msg \in [Procs -> Vals \cup {NoVal, NullRead}]
  /\ alt_state \in [Procs -> {ALT_NONE, ALT_ENABLING, ALT_WAITING, ALT_READY}]
  /\ altI \in [Procs -> 0..(MaxGuards - 1)]
  /\ altK \in [Procs -> 0..(MaxGuards - 1)]
  /\ sel \in [Procs -> -1..(MaxGuards - 1)]
  /\ fav \in [Procs -> 0..(MaxGuards - 1)]
  /\ earliest \in [Procs -> {NO_TIME} \cup 0..MaxTime]
  /\ startReady \in [Procs -> SUBSET (0..(MaxGuards - 1))]
  /\ now \in 0..MaxTime
  /\ timeQ \in [PUs -> Seq(Descs)]
  /\ tmr \in [PUs -> {DISARMED} \cup 0..(2 * MaxTime)]
  /\ tpend \in [PUs -> BOOLEAN]
  /\ tmo_list \in Seq(TmoBlocks)
  /\ tmo_tail \in Nat
  /\ intrWaiting \in [PUs -> [UserIntrs -> Procs \cup {NoProc}]]
  /\ barrier \in 0..Len(Children)
  /\ pmade \in 0..Len(Children)
  /\ termMutex \in [PUs -> Procs \cup {NoProc}]
  /\ freed \in SUBSET Procs

(***************************************************************************)
(* The ready queue and IPQ of a PU (enqueue0, ipq_add) are linked through *)
(* Process.next, so a process may be in at most one place in them; and    *)
(* the current process may be queued only in the window of relinquish()   *)
(* or relinquish_unconditional() between becoming WAITING and switching   *)
(* away, where a readier on another PU may already have schedule()d it.  *)
(* The parent of a PAR may be queued a step earlier, before its CAS: the  *)
(* last child's par_barr_sync schedule()s it with no exchange.            *)
(***************************************************************************)
QueuedOnce ==
  \A u \in PUs :
    LET q == rdyQ[u] \o ipq[u] IN
    /\ IsInjective(q)
    /\ current[u] \in Range(q) =>
         /\ current[u] \in Procs
         /\ \/ lpc[current[u]] \in {"switch", "alt_switch"}
            \/ current[u] = Parent /\ lpc[Parent] = "relinq" /\ barrier = 0
         /\ ~inIPI[current[u]]

(***************************************************************************)
(* No process is lost: a live process that is neither current nor queued  *)
(* is parked in a channel's waiting slot (in, out, an ALT's enable), or   *)
(* some process that took it out of a slot is about to ready it           *)
(* (the exchange and schedule of in/out, or freeProcessMaybe), or it has  *)
(* a descriptor in its PU's timeout queue (After, a timer guard), or it   *)
(* waits in the slot of a user interrupt of its PU (receive), or it is    *)
(* the parent of a PAR whose barrier some child has yet to reach.         *)
(***************************************************************************)
Parked(p) == Exists(p) /\ lpc[p] # "done" /\ ~Running(p) /\ ~InQueue(p)

Rescuable(p) ==
  \/ \E c \in Chans : waiting[c] = p
  \/ \E q \in Procs : tgt[q] = p /\ lpc[q] \in {"wake", "sched", "fpm1", "fpm2"}
  \/ \E k \in DOMAIN timeQ[Pun[p]] : timeQ[Pun[p]][k].proc = p
  \/ \E i \in UserIntrs : intrWaiting[Pun[p]][i] = p
  \/ p = Parent /\ barrier > 0

NoLostProcess == \A p \in Procs : Parked(p) => Rescuable(p)

(***************************************************************************)
(* No interprocessor queue is stranded: when a PU's IPQ holds processes,  *)
(* its interprocessor interrupt is pending, or the IPI handler of that PU *)
(* was switched away in its drain loop (schedule0 preempting for a higher *)
(* process) and will go on draining when it resumes.  ipq_add sends the   *)
(* IPI, and the handler takes the signal before it drains the queue.      *)
(***************************************************************************)
IpqSignalled ==
  \A u \in PUs :
    ipq[u] # << >> => ipi[u] \/ \E p \in AllProcs : inIPI[p] /\ Pun[p] = u

(***************************************************************************)
(* priSelect and fairSelect return only once a guard is ready, so the     *)
(* disable loop of the ALT always selects a guard (spec.md: the select    *)
(* returns the index of a ready guard).                                   *)
(***************************************************************************)
AltNeverFails == \A p \in Procs : lpc[p] = "alt_fin" => sel[p] # -1

(***************************************************************************)
(* The selection rule of spec.md section 4.3: among the guards that are   *)
(* ready, priSelect takes the one of lowest index and fairSelect the one  *)
(* closest by forward scan from the favorite, so that a guard that stays  *)
(* ready is not passed over for ever (S3).  A guard ready when the ALT    *)
(* began stays ready while p alone reads its channel; so when priSelect   *)
(* or fairSelect returns, no such guard comes before `selected' in the    *)
(* order that starts at 0 or at the favorite.  The enable loop's start,   *)
(* its early exit, the reverse disable loop with its wrap and the update  *)
(* of favorite by the previous select all take part in it.                *)
(***************************************************************************)
ScanPos(p, i) == IF Op(p).fair THEN (i - fav[p] + NG(p)) % NG(p) ELSE i

SelectsFirstReady ==
  \A p \in Procs :
    lpc[p] = "alt_fin" =>
      \A k \in startReady[p] : sel[p] # -1 /\ ScanPos(p, sel[p]) <= ScanPos(p, k)

(***************************************************************************)
(* The channel operations implement CSP rendezvous: whenever operations   *)
(* complete, they are an output and an input of the same channel by two   *)
(* processes, with the writer's value delivered, or an operation that     *)
(* may complete alone.                                                    *)
(***************************************************************************)
R == INSTANCE Rendezvous WITH aip <- [p \in Procs |-> ndone[p] + 1], got <- got

RefinesRendezvous == R!Spec

(***************************************************************************)
(* An ALT's timeout descriptors live only while the ALT is in progress:   *)
(* every TMO_ALTING descriptor in a timeout queue belongs to a process    *)
(* between its enable and disable loops (priSelect/fairSelect with        *)
(* enable_timeout, the earliest-timeout enable, and disable_timeout).  A  *)
(* descriptor left behind would later ready the process in another ALT.   *)
(***************************************************************************)
InAlt == {"alt_en", "alt_tmo", "alt_wait", "alt_switch", "alt_dis"}

NoStaleTimeout ==
  \A u \in PUs : \A k \in DOMAIN timeQ[u] :
    timeQ[u][k].type = TMO_ALTING => lpc[timeQ[u][k].proc] \in InAlt

(***************************************************************************)
(* A non-empty timeout queue has a timeout interrupt coming: the timer    *)
(* has fired, or it is armed no later than the head's time.  insertInQueue *)
(* arms it for a new head with set_timer_single(time - now), and a        *)
(* non-positive interval disarms the POSIX timer.                         *)
(***************************************************************************)
TimeoutArmed ==
  \A u \in PUs :
    timeQ[u] # << >> =>
      \/ tpend[u]
      \/ tmr[u] # DISARMED /\ tmr[u] <= Head(timeQ[u]).time

(***************************************************************************)
(* Every TMO_INDEX block allocate_mem has cut from the tail is either on  *)
(* the free list or holds a queued descriptor: enable_timeout's blocks    *)
(* are returned by disable_timeout, and none is dropped.                  *)
(***************************************************************************)
Queued(b) == \E u \in PUs : \E k \in DOMAIN timeQ[u] : timeQ[u][k].blk = b

TmoBlocksAccounted ==
  \A k \in 1..tmo_tail : HeapBlk(k) \in Range(tmo_list) \/ Queued(HeapBlk(k))

(***************************************************************************)
(* release_mem(TMO_INDEX, desc) is called once per descriptor, and only   *)
(* on one that is no longer queued: the free list holds each block once,  *)
(* none that a timeout queue still links, and no process's stack frame.   *)
(***************************************************************************)
DescFreedOnce ==
  /\ IsInjective(tmo_list)
  /\ \A i \in DOMAIN tmo_list :
       tmo_list[i] \in TmoBlocks /\ ~Queued(tmo_list[i])

(***************************************************************************)
(* After(t) returns no earlier than t (spec.md, property 5): a process    *)
(* that is running again at the operation after an After(t) finds the     *)
(* time at least t.  After's test, the timeout queue, the timer and the   *)
(* handler's due test all have to agree for this to hold.                 *)
(***************************************************************************)
PrevOp(p) == Prog[p][ip[p] - 1]

AfterNotEarly ==
  \A p \in Procs :
    Running(p) /\ lpc[p] = "start" /\ ip[p] > 1 /\ PrevOp(p).op = "after"
      => now >= PrevOp(p).when

(***************************************************************************)
(* A channel's spin mutex is held only by a process whose next step is    *)
(* that channel's section: every path through in, out, try_in,            *)
(* enable_channel and disable_channel (the early returns of the last two  *)
(* included) ends in release_mutex, and nothing else claims it.  A held   *)
(* mutex with its holder past the section would leave every later user    *)
(* of the channel spinning and yielding for ever.                         *)
(***************************************************************************)
ChanMutexHeldInSection ==
  \A c \in Chans : chanMutex[c] # NoProc => c \in SectionChan(chanMutex[c])

(***************************************************************************)
(* Each PU has one termination stack (termination[pun].stack), which      *)
(* terminate() switches to with set_stack after claim_mutex, and on which *)
(* finish_termination releases the record with interrupts enabled: a     *)
(* process running on it holds its PU's termination mutex, so no two      *)
(* processes of one PU are ever on that stack together.                   *)
(***************************************************************************)
OnTermStack(p) == lpc[p] \in {"term_free", "term_fin"}

TermStackExclusive ==
  \A p \in Procs : OnTermStack(p) => termMutex[Pun[p]] = p

(***************************************************************************)
(* Priority (spec.md, property 6): a ready process that outranks the      *)
(* current one preempts it at the next interrupt and runs before it goes  *)
(* on at a suspension point, so outside an interrupt handler no process   *)
(* at the head of a ready queue outranks its PU's current process.  This  *)
(* is what schedule0, relinquish/take and schedule_from_interrupt in the  *)
(* timeout, IPI and user interrupt handlers maintain together.  The one   *)
(* exception is claim_mutex (src/mutex.c): a head that is claiming the    *)
(* termination mutex the current process holds cannot run, and a head    *)
(* that yielded while claiming a channel mutex (held then by a process    *)
(* of any PU) waits behind whatever take1 gave the PU, since yield        *)
(* compares no priorities.                                                *)
(***************************************************************************)
BlockedOn(h, c) ==
  /\ h \in Procs
  /\ \/ lpc[h] = "term" /\ termMutex[Pun[h]] = c
     \/ \E ch \in SectionChan(h) : chanMutex[ch] # h

PriorityRespected ==
  \A u \in PUs :
    ~InHandler(current[u]) /\ Preempts(rdyQ[u], current[u])
      => BlockedOn(Head(rdyQ[u]), current[u])

(***************************************************************************)
(* release_mem links a freed process record into procmemlist through its *)
(* first word, which is Process.stackptr; a switch away from a process    *)
(* saves its stack pointer there, and enqueue0 and ipq_add write its      *)
(* next field: no process whose record finish_termination has released   *)
(* is ever put on a ready queue or an IPQ again.                          *)
(***************************************************************************)
FreedNotQueued == \A p \in freed : ~InQueue(p)

(***************************************************************************)
(* The PAR returns to the parent only once every child has finished its   *)
(* code and passed the barrier (spec.md S6): the barrier count, the last  *)
(* child's schedule() and the parent's relinquish have to agree.          *)
(***************************************************************************)
ParentAfterChildren ==
  Done =>
    \A c \in ChildSet : ip[c] > Len(Prog[c]) /\ lpc[c] # "start"

\* The PAR returns to its parent: every child runs its code to the end
\* and reaches the barrier, and the last one's schedule() wakes the parent.
AllDone == <>Done

=============================================================================
