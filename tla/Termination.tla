----------------------------- MODULE Termination -----------------------------
(***************************************************************************)
(* terminate() and finish_termination() of src/sched.c, which run_in_par  *)
(* calls once the child has passed the barrier.  terminate() claims the    *)
(* termination-stack mutex of its PU (claim_mutex of src/mutex.c: a few   *)
(* atomic exchanges, then yield(), and again) and continues on that stack *)
(* in finish_termination(), which release_mem()s the process record and   *)
(* only then disables interrupts, releases the mutex and takes the next   *)
(* ready process.  Interrupts are enabled until that disable(): the       *)
(* context set_stack makes keeps the caller's signal mask.                 *)
(*                                                                         *)
(* release_mem's own claim of the allocator mutex is one atomic step; the *)
(* free list is the set of processes whose record is on it.               *)
(***************************************************************************)
EXTENDS Par

VARIABLES
  termMutex,  \* termination[u].mutex: the process that holds it, or NoProc
  freed       \* processes whose record release_mem put on procmemlist

termVars == << termMutex, freed >>

\* memory_init(): every procmemlist[i] = NULL, nothing cut from tail yet
memory_init ==
  /\ tmo_list = << >>
  /\ tmo_tail = 0
  /\ freed = {}

\* sched_init(): init_mutex(&termination[pun].mutex) for every PU
termination_init == termMutex = [u \in PUs |-> init_mutex]

\* release_mutex(&termination[u].mutex): the atomic store of false
release_mutex(u) == termMutex' = [termMutex EXCEPT ![u] = NoProc]

\* Mutant: the exchange's old value is not tested, so the claim never fails.
TermClaimNoTestMutant(p) ==
  /\ Active(p) /\ lpc[p] = "term"
  /\ Goto(p, "term_free")
  /\ termMutex' = [termMutex EXCEPT ![Pun[p]] = p]
  /\ UNCHANGED << current, rdyQ, ipq, ipi, sched_state, inIPI, freed, tgt, ret, ghostVars >>

\* terminate(): claim_mutex(&termination[pun].mutex), then set_stack to
\* go on in finish_termination() on the termination stack.
TermClaim(p) ==
  /\ Active(p) /\ lpc[p] = "term"
  /\ LET u == Pun[p] IN
     /\ ClaimMutex(p, termMutex[u])
     /\ IF termMutex[u] = NoProc
          THEN Goto(p, "term_free") /\ termMutex' = [termMutex EXCEPT ![u] = p]
          ELSE UNCHANGED << lpc, ip, termMutex >>
  /\ UNCHANGED << ipi, sched_state, inIPI, freed, tgt, ret, ghostVars >>

\* release_mem(index, addr): the block goes to the head of procmemlist.
ReleaseMem(p) == freed' = freed \cup {p}

\* finish_termination(): release_mem(oldproc->index, oldproc), with
\* interrupts still enabled.
TermFree(p) ==
  /\ Active(p) /\ lpc[p] = "term_free"
  /\ ReleaseMem(p)
  /\ Goto(p, "term_fin")
  /\ UNCHANGED << schedVars, termMutex, tgt, ret, ghostVars >>

\* the rest of finish_termination(): disable(); release the mutex; take;
\* set_current; restore_context of the next process.
TermFinish(p) ==
  /\ Active(p) /\ lpc[p] = "term_fin"
  /\ release_mutex(Pun[p])
  /\ TakeAndSetCurrent(Pun[p])
  /\ lpc' = [lpc EXCEPT ![p] = "done"]
  /\ UNCHANGED << ip, ipi, sched_state, inIPI, freed, tgt, ret, ghostVars >>

=============================================================================
