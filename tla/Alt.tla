--------------------------------- MODULE Alt ---------------------------------
(***************************************************************************)
(* The ALT engine of src/alt.c: priSelect / fairSelect over channel and   *)
(* SKIP guards, the alt_state handshake (NONE, ENABLING, WAITING, READY)  *)
(* and freeProcessMaybe, by which a writer readies an ALTing reader.      *)
(*                                                                         *)
(* An ALT operation is [op |-> "alt", guards |-> G, fair |-> b]; after    *)
(* the select the process performs in() on the selected channel, as the   *)
(* switch statements of the examples do.  altI and altK are the loop      *)
(* variables i and k (0-based), sel is `selected', fav the Alternation's  *)
(* favorite (one Alternation per process).                                *)
(***************************************************************************)
EXTENDS Channel

VARIABLES altI, altK, sel, fav, earliest,
  startReady  \* history: the guards of p's ALT that were ready when it began

altVars == << alt_state, altI, altK, sel, fav, earliest, startReady >>

\* altEnabling(proc) and altFinish(proc): stores to proc->alt_state
altEnabling(p) == alt_state' = [alt_state EXCEPT ![p] = ALT_ENABLING]
altFinish(p) == alt_state' = [alt_state EXCEPT ![p] = ALT_NONE]

Guards(p) == Op(p).guards
NG(p) == Len(Guards(p))
\* the guard at 0-based index i
GuardAt(p, i) == Guards(p)[i + 1]

\* enable_channel and disable_channel run their section under the mutex
\* of a channel guard; the other guards touch no channel.
GuardSection(p, g) ==
  IF g.type = "chan" THEN ChanSection(p, g.ch) ELSE UNCHANGED chanMutex

\* The channel whose mutex p's next step needs ({} when none): in, out and
\* try_in at their start, enable_channel and disable_channel on a channel
\* guard, and the in() of the selected channel after an ALT.
SectionChan(p) ==
  IF \E k \in {"in", "out", "try_in"} : AtOp(p, k) THEN {Op(p).ch}
  ELSE IF lpc[p] \in {"alt_en", "alt_dis"} /\ GuardAt(p, altI[p]).type = "chan"
    THEN {GuardAt(p, altI[p]).ch}
  ELSE IF lpc[p] = "alt_in" THEN {GuardAt(p, sel[p]).ch}
  ELSE {}

\* claim_mutex(&chan->mutex) at the head of each channel section, with
\* interrupts enabled.
ChanClaim(p) ==
  /\ Active(p)
  /\ \E c \in SectionChan(p) :
       /\ chanMutex[c] # p
       /\ ClaimMutex(p, chanMutex[c])
       /\ chanMutex' = [chanMutex EXCEPT ![c] = IF @ = NoProc THEN p ELSE @]
  /\ UNCHANGED << ipi, sched_state, inIPI, lpc, ip, waiting, buf, msg, tgt, ret, ghostVars >>
  /\ UNCHANGED << altVars, timerVars >>

\* Mutant: NO_TIME as the largest time, the sentinel the spec describes,
\* so that the earliest timer guard is re-enabled after the loop.
NoTimeAboveAllMutant == MaxTime + 1

\* NO_TIME is MAX_TIME, 0xffffffffffffffff, held in the signed 64-bit
\* Time: -1.  No guard time is below it.
NO_TIME == -1

\* A guard that is ready now: a process other than p is parked on the
\* channel, the time has come, or SKIP.
ReadyNow(p, g) ==
  CASE g.type = "chan" -> EnableChannelReady(g.ch, p)
    [] g.type = "skip" -> TRUE
    [] g.type = "timer" -> TimeoutReady(g.time)
    [] g.type = "intr" -> FALSE

\* The history variable startReady records the guards ready at altEnabling.
RecordStartReady(p) ==
  startReady' = [startReady EXCEPT ![p] =
                   {i \in 0..NG(p) - 1 : ReadyNow(p, GuardAt(p, i))}]

\* Mutant: fairSelect copied from priSelect, the enable loop starting at 0.
AltStartFromZeroMutant(p) ==
  /\ Active(p) /\ AtOp(p, "alt")
  /\ altEnabling(p)
  /\ altI' = [altI EXCEPT ![p] = 0]
  /\ altK' = [altK EXCEPT ![p] = 0]
  /\ sel' = [sel EXCEPT ![p] = -1]
  /\ earliest' = [earliest EXCEPT ![p] = NO_TIME]
  /\ RecordStartReady(p)
  /\ Goto(p, "alt_en")
  /\ UNCHANGED << schedVars, chanVars, tgt, ret, ghostVars, fav, timerVars >>

\* altEnabling(), then the enable loop starts at 0 (priSelect) or at the
\* favorite (fairSelect), with no earliest timeout yet.
AltStart(p) ==
  /\ Active(p) /\ AtOp(p, "alt")
  /\ altEnabling(p)
  /\ altI' = [altI EXCEPT ![p] = IF Op(p).fair THEN fav[p] ELSE 0]
  /\ altK' = [altK EXCEPT ![p] = 0]
  /\ sel' = [sel EXCEPT ![p] = -1]
  /\ earliest' = [earliest EXCEPT ![p] = NO_TIME]
  /\ RecordStartReady(p)
  /\ Goto(p, "alt_en")
  /\ UNCHANGED << schedVars, chanVars, tgt, ret, ghostVars, fav, timerVars >>

\* goto Found_pri / Found_fair with i and k on the ready guard
Found(p) == Goto(p, "alt_dis") /\ UNCHANGED << altI, altK >>

\* the loop's increment, or after the last guard, i and k step back onto
\* it and the process goes on to the earliest timeout and altShouldWait
EnableAdvance(p) ==
  IF altK[p] + 1 < NG(p)
    THEN /\ altK' = [altK EXCEPT ![p] = @ + 1]
         /\ altI' = [altI EXCEPT ![p] = (@ + 1) % NG(p)]
         /\ UNCHANGED << lpc, ip >>
    ELSE Goto(p, "alt_wait") /\ UNCHANGED << altI, altK >>

(***************************************************************************)
(* One pass of the enable loop.  A channel guard is enable_channel()ed, a *)
(* SKIP guard is ready; a timer guard lowers `earliest' if its time is    *)
(* below it and is ready if its time has come, else enable_timeout goes   *)
(* on to insert its descriptor (alt_tmo) in a section of its own.  The    *)
(* switch has no case for GUARD_INTERRUPT: such a guard is passed over.   *)
(***************************************************************************)
\* Mutant: the enable loop does not advance past a guard that is not ready.
AltEnableMutant(p) ==
  /\ Active(p) /\ lpc[p] = "alt_en"
  /\ LET g == GuardAt(p, altI[p]) IN
     /\ GuardSection(p, g)
     /\ CASE g.type = "chan" ->
            /\ EnableChannel(g.ch, p)
            /\ IF EnableChannelReady(g.ch, p) THEN Found(p)
                                              ELSE UNCHANGED << altI, altK, lpc, ip >>
            /\ UNCHANGED earliest
       [] g.type = "skip" -> Found(p) /\ UNCHANGED << waiting, buf, earliest >>
       [] g.type = "timer" ->
            /\ earliest' = [earliest EXCEPT ![p] = IF g.time < @ THEN g.time ELSE @]
            /\ IF TimeoutReady(g.time) THEN Found(p)
                                       ELSE Goto(p, "alt_tmo") /\ UNCHANGED << altI, altK >>
            /\ UNCHANGED << waiting, buf >>
       [] g.type = "intr" -> UNCHANGED << altI, altK, lpc, ip, waiting, buf, earliest >>
  /\ UNCHANGED << schedVars, alt_state, msg, tgt, ret, ghostVars, sel, fav, startReady, timerVars >>

AltEnable(p) ==
  /\ Active(p) /\ lpc[p] = "alt_en"
  /\ LET g == GuardAt(p, altI[p]) IN
     /\ GuardSection(p, g)
     /\ CASE g.type = "chan" ->
            /\ EnableChannel(g.ch, p)
            /\ IF EnableChannelReady(g.ch, p) THEN Found(p) ELSE EnableAdvance(p)
            /\ UNCHANGED earliest
       [] g.type = "skip" -> Found(p) /\ UNCHANGED << waiting, buf, earliest >>
       [] g.type = "timer" ->
            /\ earliest' = [earliest EXCEPT ![p] = IF g.time < @ THEN g.time ELSE @]
            /\ IF TimeoutReady(g.time) THEN Found(p)
                                       ELSE Goto(p, "alt_tmo") /\ UNCHANGED << altI, altK >>
            /\ UNCHANGED << waiting, buf >>
       [] g.type = "intr" -> EnableAdvance(p) /\ UNCHANGED << waiting, buf, earliest >>
  /\ UNCHANGED << schedVars, alt_state, msg, tgt, ret, ghostVars, sel, fav, startReady, timerVars >>

\* enable_timeout's allocation and insertion for the timer guard at i.
AltTimeout(p) ==
  /\ Active(p) /\ lpc[p] = "alt_tmo"
  /\ EnableTimeout(p, GuardAt(p, altI[p]).time)
  /\ EnableAdvance(p)
  /\ UNCHANGED << schedVars, chanVars, alt_state, tgt, ret, ghostVars, sel, fav, startReady,
                 earliest >>

(***************************************************************************)
(* After the loop: if earliest # NO_TIME, enable_timeout(earliest) (ready *)
(* jumps to the disables); then altShouldWait(), CAS ENABLING -> WAITING, *)
(* whose failure means a readier has already set READY.                   *)
(***************************************************************************)
\* if (earliest != NO_TIME) enable_timeout(earliest, proc): true when the
\* earliest time has already come.
EnableEarliest(p, e) ==
  IF e # NO_TIME THEN EnableTimeout(p, e) ELSE UNCHANGED timerVars

\* altShouldWait(proc): CAS ENABLING -> WAITING; TRUE when it succeeded.
altShouldWait(p) ==
  IF alt_state[p] = ALT_ENABLING
    THEN /\ alt_state' = [alt_state EXCEPT ![p] = ALT_WAITING]
         /\ Goto(p, "alt_switch")
    ELSE Goto(p, "alt_dis") /\ UNCHANGED alt_state

AltShouldWait(p) ==
  /\ Active(p) /\ lpc[p] = "alt_wait"
  /\ LET e == earliest[p] IN
     IF e # NO_TIME /\ TimeoutReady(e)
       THEN Goto(p, "alt_dis") /\ UNCHANGED << alt_state, timerVars >>
       ELSE EnableEarliest(p, e) /\ altShouldWait(p)
  /\ UNCHANGED << schedVars, chanVars, tgt, ret, ghostVars, altI, altK, sel, fav, startReady,
                 earliest >>

\* relinquish_unconditional(): always switch away; resume at the disables.
AltSwitch(p) ==
  /\ Active(p) /\ lpc[p] = "alt_switch"
  /\ TakeAndSetCurrent(Pun[p])
  /\ Goto(p, "alt_dis")
  /\ UNCHANGED << ipi, sched_state, inIPI, chanVars, tgt, ret, ghostVars, altVars,
                 timerVars >>

(***************************************************************************)
(* One pass of the disable loop, from the last enabled guard back to the  *)
(* first: a ready guard becomes `selected', so the earliest in enable     *)
(* order wins.  A timer guard is ready if its time has come, and          *)
(* disable_timeout unlinks its descriptor; an interrupt guard, again     *)
(* without a case, is never ready.                                        *)
(***************************************************************************)
GuardReady(p, g) ==
  CASE g.type = "chan" -> DisableChannelReady(g.ch, p)
    [] g.type = "skip" -> TRUE
    [] g.type = "timer" -> TimeoutReady(g.time)
    [] g.type = "intr" -> FALSE

DisableGuard(p, g) ==
  CASE g.type = "chan" -> DisableChannel(g.ch, p) /\ UNCHANGED timerVars
    [] g.type = "skip" -> UNCHANGED << waiting, timerVars >>
    [] g.type = "timer" -> DisableTimeout(p, g.time) /\ UNCHANGED waiting
    [] g.type = "intr" -> UNCHANGED << waiting, timerVars >>

\* Mutant: the disable loop stops one guard early (k > 0 for k >= 0).
AltDisableMutant(p) ==
  /\ Active(p) /\ lpc[p] = "alt_dis"
  /\ LET g == GuardAt(p, altI[p]) IN
     /\ GuardSection(p, g)
     /\ DisableGuard(p, g)
     /\ sel' = [sel EXCEPT ![p] = IF GuardReady(p, g) THEN altI[p] ELSE @]
     /\ IF altK[p] > 1
          THEN /\ altK' = [altK EXCEPT ![p] = @ - 1]
               /\ altI' = [altI EXCEPT ![p] = (@ - 1 + NG(p)) % NG(p)]
               /\ UNCHANGED << lpc, ip >>
          ELSE Goto(p, "alt_fin") /\ UNCHANGED << altI, altK >>
  /\ UNCHANGED << schedVars, buf, msg, tgt, ret, ghostVars, alt_state, fav, startReady, earliest >>

AltDisable(p) ==
  /\ Active(p) /\ lpc[p] = "alt_dis"
  /\ LET g == GuardAt(p, altI[p]) IN
     /\ GuardSection(p, g)
     /\ DisableGuard(p, g)
     /\ sel' = [sel EXCEPT ![p] = IF GuardReady(p, g) THEN altI[p] ELSE @]
     /\ IF altK[p] > 0
          THEN /\ altK' = [altK EXCEPT ![p] = @ - 1]
               /\ altI' = [altI EXCEPT ![p] = (@ - 1 + NG(p)) % NG(p)]
               /\ UNCHANGED << lpc, ip >>
          ELSE Goto(p, "alt_fin") /\ UNCHANGED << altI, altK >>
  /\ UNCHANGED << schedVars, buf, msg, tgt, ret, ghostVars, alt_state, fav, startReady, earliest >>

(***************************************************************************)
(* altFinish(), favorite := selected + 1 (wrapped), return selected; the  *)
(* branch of a channel guard reads it with in().                          *)
(***************************************************************************)
\* Mutant: favorite := selected + 1 without the wrap-around.
AltFinishMutant(p) ==
  /\ Active(p) /\ lpc[p] = "alt_fin"
  /\ altFinish(p)
  /\ fav' = [fav EXCEPT ![p] = sel[p] + 1]
  /\ IF sel[p] >= 0 /\ GuardAt(p, sel[p]).type = "chan"
       THEN Goto(p, "alt_in") /\ UNCHANGED ndone
       ELSE Goto(p, "next") /\ ndone' = [ndone EXCEPT ![p] = @ + 1]
  /\ UNCHANGED << schedVars, chanVars, tgt, ret, got, altI, altK, sel, earliest, startReady >>
  /\ UNCHANGED timerVars

\* alt->favorite = selected + 1, less nrGuards if it reaches nrGuards
NextFavorite(p) == IF sel[p] + 1 >= NG(p) THEN sel[p] + 1 - NG(p) ELSE sel[p] + 1

AltFinish(p) ==
  /\ Active(p) /\ lpc[p] = "alt_fin"
  /\ altFinish(p)
  /\ fav' = [fav EXCEPT ![p] = NextFavorite(p)]
  /\ IF sel[p] >= 0 /\ GuardAt(p, sel[p]).type = "chan"
       THEN Goto(p, "alt_in") /\ UNCHANGED ndone
       ELSE Goto(p, "next") /\ ndone' = [ndone EXCEPT ![p] = @ + 1]
  /\ UNCHANGED << schedVars, chanVars, tgt, ret, got, altI, altK, sel, earliest, startReady >>
  /\ UNCHANGED timerVars

AltIn(p) ==
  /\ Active(p) /\ lpc[p] = "alt_in"
  /\ ChanSection(p, GuardAt(p, sel[p]).ch)
  /\ InBody(p, GuardAt(p, sel[p]).ch)
  /\ UNCHANGED << current, rdyQ, ipq, ipi, inIPI, altVars, timerVars >>

(***************************************************************************)
(* freeProcessMaybe(t), run by a writer that displaced t's marker: CAS    *)
(* ENABLING -> READY (t is still enabling and will see READY); failing    *)
(* that, if t was WAITING, CAS WAITING -> READY and schedule(t).  Either  *)
(* way the writer then relinquishes.                                      *)
(***************************************************************************)
FreeProcessMaybe1(p) ==
  /\ Active(p) /\ lpc[p] = "fpm1"
  /\ LET t == tgt[p] IN
     IF alt_state[t] = ALT_ENABLING
       THEN alt_state' = [alt_state EXCEPT ![t] = ALT_READY] /\ Goto(p, "relinq")
       ELSE /\ Goto(p, IF alt_state[t] = ALT_WAITING THEN "fpm2" ELSE "relinq")
            /\ UNCHANGED alt_state
  /\ UNCHANGED << schedVars, chanVars, tgt, ret, ghostVars, altI, altK, sel, fav, startReady >>
  /\ UNCHANGED << earliest, timerVars >>

FreeProcessMaybe2(p) ==
  /\ Active(p) /\ lpc[p] = "fpm2"
  /\ LET t == tgt[p] IN
     IF alt_state[t] = ALT_WAITING
       THEN /\ alt_state' = [alt_state EXCEPT ![t] = ALT_READY]
            /\ ret' = [ret EXCEPT ![p] = "relinq"]
            /\ Goto(p, "sched")
       ELSE Goto(p, "relinq") /\ UNCHANGED << alt_state, ret >>
  /\ UNCHANGED << schedVars, chanVars, tgt, ghostVars, altI, altK, sel, fav, startReady >>
  /\ UNCHANGED << earliest, timerVars >>

=============================================================================
