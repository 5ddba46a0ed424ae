# TLA+ models of CXP

CXP (`src/`) is a user-space CSP executive. It runs lightweight processes on
a fixed set of processing units (PUs), one pthread per PU. Processes talk
over unbuffered channels and choose among channels, timeouts and SKIP with
ALT. A priority scheduler multiplexes them, and POSIX signals play the part
of interrupts. This directory holds TLA+ models of the executive, the TLC
configurations that check them, and `PROJECT.json`, which maps every
definition to the source lines it models and lists runs, mutants, findings
and hazards.

## The system and how its parts interact

| Part | Source | What it does |
|---|---|---|
| Scheduler | `sched.c`, `sched.h` | Each PU has a `current` process and a ready queue sorted by masked priority, FIFO among equals. `schedule0` readies a process: on its own PU it preempts if strictly higher; on another PU it goes onto that PU's interprocessor queue (IPQ) and an interprocessor interrupt (IPI) is sent. `relinquish` parks the caller with a CAS `PREPARING_TO_WAIT -> WAITING`. `yield`, the IPI handler, `schedule_from_interrupt` and `terminate`/`finish_termination` complete it. |
| IPQ | `ipq.m` (not in the repository) | Processes readied by other PUs, drained by `take`, `take1` and the IPI handler. |
| Channels | `comm.c` | A mutex, one `waiting` slot and one `src`/`dest` pointer (a union). `in` and `out` copy and ready the partner, or park. `out` onto an ALT's marker calls `freeProcessMaybe`. |
| ALT | `alt.c` | `priSelect` and `fairSelect`: enable the guards, park if none is ready (`altShouldWait`), disable them in reverse, and update `favorite`. |
| Timer | `timer.c`, `hardware.c` | A per-PU timeout queue of descriptors, `After`, `enable_timeout`/`disable_timeout`, the timeout handler and the elapsed-time tick. |
| User interrupts | `interrupt.c` | `receive` parks a process in a per-PU slot; `transmit`/`handle_user_interrupt` ready it. |
| PAR runners | `run.c`, `par_barrier.h` | `par`, `par_pri`, `placed_par`, `placed_par_pri`: make the children, queue them, park the parent on a barrier; the last child through the barrier wakes the parent, and each child terminates. |
| Memory, mutex | `memory.c`, `mutex.c` | Size-class free lists cut from a tail; a spin mutex that yields after a few failed exchanges. |
| Hardware shim | `hardware.c` | pthreads, signal masks, POSIX timers, ucontext. |

## Modules

The modules extend one another in the order the code builds on itself:
`ReadyQueue` < `Priority`, and `ReadyQueue` < `Sched` < `Interrupt` <
`Timer` < `Channel` < `Alt` < `Par` < `Termination` < `Cxp`.

| Module | Models |
|---|---|
| `ReadyQueue` | The masked priority comparisons of `sched.h`; `Enqueue0` (recursive insertion); `DrainInto`, the IPQ drain of `take`, `take1` and the IPI handler. |
| `Priority` | `priority`, `pri_level`, `pri_delta` and the priorities `par_pri`/`placed_par_pri` give children (`PriParChildren`); `PriTree`, every priority nested PRI PARs can produce (recursive). |
| `Sched` | State `current`, `rdyQ`, `ipq`, `ipi`, `sched_state`, `inIPI`, and each process's place in its program (`lpc`, `ip`, `tgt`, `ret`). Actions `Relinquish` (the CAS), `RelinquishSwitch`, `Yield`, `WakeExchange`, `Schedule`, `IPIHandler`, `IPIResume`; helpers `set_current`, `prepare_to_wait`, `enqueue`, `TakeAndSetCurrent`, `Schedule0`, `FromInterrupt` (`schedule_from_interrupt`), `SignalTaken` (`handle_signal`), `init_mutex` and `ClaimMutex` (`claim_mutex` of `mutex.c`). |
| `Interrupt` | `intrWaiting`; `Receive`, `ReceiveStore`, `SendInterrupt` (transmit and the handler), `UserResume`. |
| `Timer` | `now`, `timeQ`, `tmr` (the armed expiry), `tpend`, the TMO free list `tmo_list`/`tmo_tail`. `After`, `AfterInsert`, `EnableTimeout`, `DisableTimeout`, `ElapsedTick`, `TimeoutInterrupt`, `SetTimerSingle`, `AllocateTmo`. |
| `Channel` | `waiting`, `buf` (the union, as the process whose buffer it points at), `msg`, `chanMutex` (the holder of each channel's spin mutex). `In`, `Out`, `TryIn`, `EnableChannel`, `DisableChannel`; `ChanSection` is a critical section that ends in `release_mutex`. |
| `Alt` | `alt_state`, loop variables `altI`/`altK`, `sel`, `fav`, `earliest`, and the history `startReady` (the guards ready at `altEnabling`, by `ReadyNow`). `AltStart`, `AltEnable`, `AltTimeout`, `AltShouldWait`, `AltSwitch`, `AltDisable`, `AltFinish`, `AltIn`, `FreeProcessMaybe1`/`2`. `ChanClaim` claims the mutex of the channel the next step needs (`SectionChan`); `GuardSection` is the section of a channel guard. |
| `Par` | `barrier`, `pmade`. `ParBegin`, `ParMake` (one child per step), `BarrierSync`. The constant `Runner` names the runner; `MakeArgs` gives the priority and PU each of `par`, `par_pri`, `placed_par` and `placed_par_pri` hands to `make_process`. An `ASSUME` checks that the configured tables are the ones that runner produces. |
| `Termination` | `termMutex`, `freed`. `TermClaim` (`claim_mutex`), `TermFree` (`release_mem` of the record), `TermFinish` (with `release_mutex`). |
| `Rendezvous` | The abstract specification: every completed operation is an output and an input of one channel completing together with the writer's value, or an operation that may complete alone. |
| `Cxp` | `Init` (`initialize()` composed of `memory_init`, `interrupt_init`, `timer_init`, `sched_init`, `init_channel`), `Next`, fairness, the properties, and the refinement mapping to `Rendezvous` through history variables `ndone` and `got`. |
| `MCCxp` | Model values (parent `m`, processes `r w x y`, PUs `u0 u1`, idle processes `i0 i1`, channels, values), the priority and placement tables the runners produce, and the programs of each run. |
| `Memory` | `procmemlen` and `find_mem_index` of `memory.c` (recursive). |
| `MCReadyQueue` | Checks `Enqueue0` against a stable sort (`DrainInto` applies it to each IPQ entry in order), `PriParChildren` over every nesting, and `find_mem_index` against the smallest fitting class. |

### Granularity

One TLA+ step is one atomic region of the code: `claim_mutex` (`ClaimMutex` in
`Sched`: it takes the mutex, or yields after failed exchanges that change
nothing); a channel critical section up to its `release_mutex`, the step
after the claim (`ChanClaim` in `Alt` claims for `in`, `out`, `try_in`, and
the ALT's `enable_channel`/`disable_channel`); one atomic exchange or CAS; a section run with interrupts
disabled (`take` with `set_current`, `schedule0`, the IPI handler's loop up
to a switch, the timeout handler). Only a PU's `current` process takes
steps, and an interrupt may come between any two of its steps except where
the code disables them. A process switched away keeps `lpc` and resumes from
it; one preempted inside a handler keeps the handler frame (`inIPI`, or the
`uintr_res` label) and finishes it first (`InHandler`).

### Init

`Init` is the state `initialize()` leaves: the parent `m` current on
`InitPU` with the idle process queued, idle processes current elsewhere,
every process `WAITING` and `ALT_NONE`, all queues, slots and free lists
empty, time 0 and the timeout timers disarmed. The parent's program is one
PAR (`ParBegin`, `ParMake` per child, relinquish); children start only when
the parent makes them.

## Properties

- `TypeOK`: the type invariant, checked in `alt_cross_pu`.
- `QueuedOnce`: a process is at most once in its PU's ready queue and IPQ, and the current process is queued only in the relinquish window, or as the parent the last child has woken.
- `NoLostProcess`: a live process that is neither current nor queued can still be readied: it is in a channel or interrupt slot, in the hands of a readier, has a timeout descriptor queued, or is the parent of an unfinished PAR.
- `AltNeverFails`: the disable phase always selects a guard.
- `SelectsFirstReady`: an ALT that finishes selects no guard later in its scan order (from 0 for `priSelect`, from `favorite` for `fairSelect`) than a guard that was ready when it started.
- `IpqSignalled`: a non-empty IPQ has its IPI pending, or an IPI handler frame on that PU, switched away in its drain loop, that will go on draining.
- `RefinesRendezvous`: `Cxp` implements `Rendezvous` (`INSTANCE ... WITH`).
- `AllDone`: the PAR returns to the parent (liveness).
- `ParentAfterChildren`: the parent resumes only after every child passed the barrier.
- `NoStaleTimeout`: every `TMO_ALTING` descriptor belongs to an ALT in progress.
- `AfterNotEarly`: a process past `After(t)` sees the time at least `t`.
- `PriorityRespected`: outside a handler, no ready head outranks its PU's current process. There is one exception (`BlockedOn`): a head that yielded in `claim_mutex`, either on the termination mutex the current process holds, or on a channel mutex, where `yield` hands the PU to `take1`'s head without comparing priorities.
- `TermStackExclusive`: a process on its PU's termination stack holds that PU's termination mutex, so no two terminating processes share the stack.
- `ChanMutexHeldInSection`: a channel's mutex is held only by a process whose next step is that channel's section.
- `TimeoutArmed`, `TmoBlocksAccounted`, `DescFreedOnce`, `FreedNotQueued`: timer and memory invariants, each checked by a violation run below.
- `Enqueue0IsStableInsert`, `PriParSubtreesOrdered`, `FindMemIndexIsSmallestFit`: the pure algorithms against reference definitions. The last says each PRI PAR child's whole subtree of nested PRI PARs ranks above the next child.

## Runs

| Run | Config | Expect | Shows |
|---|---|---|---|
| `ready_queue` | `MCReadyQueue.cfg` | pass | Insertion equals a stable sort; par_pri priorities order whole subtrees at every allowed nesting; `find_mem_index` picks the smallest class that fits, for sizes at and around every class length. |
| `alt_cross_pu` | `MCCxp.cfg` | pass | Equal priorities, two PUs. The reader runs two `fairSelect`s (the second with a tie at `favorite` 1) and a `priSelect`, fed by writers on its own PU at equal priority, plus `yield`, `try_in` and an `in` on `c3` whose writer runs on the other PU. A writer that arrives while an ALT is still enabling is reached by `timer_alt` and `stale_free_process`, not here. Every invariant holds, each ALT selects the first ready guard in scan order, the run refines rendezvous, and the PAR completes. Channel mutexes are claimed in steps of their own and held only by a process at that channel's section. |
| `timer_alt` | `MCCxpTimer.cfg` | pass | An ALT with a channel and a timer guard against an `After` and an output, time up to 3. |
| `user_intr` | `MCCxpIntr.cfg` | pass | Scenario S5 under `placed_par_pri`: a user interrupt on one PU, and a channel from the other. Priorities are respected outside handlers and outside `claim_mutex`'s yield. A reader meets `c1`'s mutex held on the other PU and yields to a lower process. A terminating process is preempted on the termination stack, and the stack stays exclusive. No IPQ is stranded. |
| `freed_record_queued` | `MCCxpPriLocal.cfg` | violation | `FreedNotQueued`: an interrupt after `release_mem` in `finish_termination` enqueues the freed record. |
| `try_in_loses_writer` | `MCCxpTryIn.cfg` | violation | `try_in` takes a parked writer's data and never readies it. |
| `two_writers` | `MCCxpTwoWriters.cfg` | violation | A second writer takes the first for a reader; both outputs complete. |
| `ipi_in_relinquish` | `MCCxpPriPar.cfg` | violation | The IPI handler preempts a process in the relinquish window, after a peer queued it: it is queued twice. |
| `stale_free_process` | `MCCxpAltAgain.cfg` | violation | A late `freeProcessMaybe` makes the reader's next ALT return -1. |
| `timer_disarmed` | `MCCxpTimerArmed.cfg` | violation | `set_timer_single(0)` disarms the timer for a due head. |
| `tmo_leak` | `MCCxpTmoLeak.cfg` | violation | The timeout handler unlinks an ALTING descriptor without releasing it. |
| `disable_frees_live` | `MCCxpTimerShared.cfg` | violation | `disable_timeout` releases another process's queued `After` descriptor. |

Every property of a passing run has a mutant in `PROJECT.json`: a
plausible slip in the code it is about (a dropped wrap, an off-by-one in the
barrier, the comment's level numbering for `pri_delta`, ...) that TLC
catches.

### Bounds

Two PUs cover every cross-PU interaction (IPQ, IPI, a readier in parallel
with a relinquishing process). Two to four children with one to three
operations each reach both outcomes of every CAS and exchange, a writer
before, during and after an ALT's enable phase, and `favorite` wrapping.
Time runs to 3, so each timeout can fall before, during and after the other
process's steps. `MCReadyQueue` enumerates every queue of up to 3 of 5
processes and every IPQ of up to 2, and every PRI PAR nesting of 8 children
over 4 levels. `find_mem_index` is checked at 0 and at each class length
minus one, itself and plus one, which covers both sides of every `>=` test and
the 0 that ends the table.

### Fairness

Weak fairness on each process's steps, on resuming a handler, and on the
IPI and timeout handlers and on the elapsed-time tick (up to the horizon
`MaxTime`): each PU is a pthread that keeps running its
current process (`activate_processor`), and a signal sent with
`pthread_kill` or by a timer is delivered once the thread runs with signals
enabled. No fairness is assumed between processes of one PU. Deadlock
checking is on; once the PAR has returned the system stutters
(`Terminated`), which stands for `main` going on after the PAR.

## Not modelled

- The allocator mutex `mutex_mem`: `allocate_mem` and `release_mem` are one step each. They hold it over a few pointer updates and never block inside. Spinning and yielding on a spin mutex are modelled through the channel and termination mutexes.
- `chan_pending` (it changes no state) and `schedule_from_interrupt_single` (nothing calls it).
- Byte sizes and `taillen` of the allocator: blocks are opaque identities. The missing out-of-memory check (`memory.c:81`) and the TMO class being smaller than a descriptor (`memory.c:33`) are hazards without a property: both are about byte counts and layout, which the model does not keep.
- The livelock of the termination mutex (`sched.c:623`) needs a program of five children, two of them above the holder on one PU; no run of the project uses such a program, so `AllDone` in the passing runs does not reach it.
- Timer liveness (an ALT with a due timeout finishes): the disarm bug of `set_timer_single` (`timer_disarmed`) breaks it, so `timer_alt` checks safety only.
- Signal plumbing that only the kernel decides: which timer id `GetCurrentTime` reads on a PU that never created an elapsed timer (`hardware.c:479`, a hazard). The model has a single clock, `now`.
- The example programs are infinite loops. The runs use small programs of the same operations instead.
- The rest of the signal plumbing, `dbg.c` and the IPQ's own code (`ipq.m` is absent; taken as FIFO).
- Interrupt guards in ALT (the code's switch ignores them).
- Four nested PRI PARs of 8 children reach value 4095 = `PRI_LOW`, tying the idle process (noted as a hazard, `run.c:117`).
