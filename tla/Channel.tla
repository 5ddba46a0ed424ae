------------------------------- MODULE Channel -------------------------------
(***************************************************************************)
(* The unbuffered channel of src/comm.c.  A channel is a mutex, a single  *)
(* waiting-process slot and one pointer that is chan->src while a writer   *)
(* waits and chan->dest while a reader waits (the two share a union).     *)
(* The pointer is modelled by the process whose buffer it addresses       *)
(* (buf), NoProc being NULL; msg[p] is the buffer of process p.  Each     *)
(* operation first claims the channel mutex with interrupts enabled (a    *)
(* step of its own, ChanClaim in Alt); its critical section, up to and    *)
(* including release_mutex, is the next step.                             *)
(***************************************************************************)
EXTENDS Timer

CONSTANTS
  Chans,      \* the channels
  NoVal,      \* contents of a buffer nothing was written to
  NullRead    \* what memcpy from a NULL chan->src yields (a crash)

VARIABLES
  waiting,    \* Channel.waiting
  buf,        \* Channel.src / Channel.dest (one union)
  msg,        \* msg[p]: the buffer paramSrc / paramDest of process p
  chanMutex   \* Channel.mutex: the process holding it, or NoProc

chanVars == << waiting, buf, msg, chanMutex >>

\* init_channel(chan) of every channel: init_mutex, no process waiting,
\* src NULL
init_channel ==
  /\ chanMutex = [c \in Chans |-> init_mutex]
  /\ waiting = [c \in Chans |-> NoProc]
  /\ buf = [c \in Chans |-> NoProc]

\* Mutant: the section ends without release_mutex, as an early return
\* that forgets it would.
ChanSectionKeepMutant(p, c) ==
  /\ chanMutex[c] = p
  /\ UNCHANGED chanMutex

\* A critical section of channel c run by p, who holds its mutex and ends
\* the section with release_mutex(&chan->mutex).
ChanSection(p, c) ==
  /\ chanMutex[c] = p
  /\ chanMutex' = [chanMutex EXCEPT ![c] = NoProc]

\* A transfer: the operation of both parties is complete, r has value v.
Transfer(w, r, v) ==
  /\ ndone' = [ndone EXCEPT ![w] = @ + 1, ![r] = @ + 1]
  /\ got' = [got EXCEPT ![r] = Append(@, v)]

(***************************************************************************)
(* in(chan): if a process is waiting, copy from chan->src, clear the slot *)
(* and go on to ready it; else park in the slot with chan->dest set,      *)
(* PREPARE_TO_WAIT and relinquish.                                        *)
(***************************************************************************)
\* Mutant: the copy of in() with memcpy's arguments the wrong way round,
\* so the reader keeps what its own buffer held.
InBodySwapMutant(p, c) ==
  IF waiting[c] # NoProc
    THEN /\ msg' = msg
         /\ waiting' = [waiting EXCEPT ![c] = NoProc]
         /\ buf' = [buf EXCEPT ![c] = NoProc]
         /\ tgt' = [tgt EXCEPT ![p] = waiting[c]]
         /\ ret' = [ret EXCEPT ![p] = "next"]
         /\ Goto(p, "wake")
         /\ Transfer(waiting[c], p, msg[p])
         /\ UNCHANGED sched_state
    ELSE /\ buf' = [buf EXCEPT ![c] = p]
         /\ waiting' = [waiting EXCEPT ![c] = p]
         /\ prepare_to_wait(p)
         /\ Goto(p, "relinq")
         /\ UNCHANGED << msg, tgt, ret, ghostVars >>

\* Mutant: in() takes the writer's data but does not ready it (as try_in).
InBodyNoWakeMutant(p, c) ==
  IF waiting[c] # NoProc
    THEN LET v == IF buf[c] = NoProc THEN NullRead ELSE msg[buf[c]] IN
         /\ msg' = [msg EXCEPT ![p] = v]
         /\ waiting' = [waiting EXCEPT ![c] = NoProc]
         /\ buf' = [buf EXCEPT ![c] = NoProc]
         /\ UNCHANGED << tgt, ret, sched_state >>
         /\ Goto(p, "next")
         /\ Transfer(waiting[c], p, v)
    ELSE /\ buf' = [buf EXCEPT ![c] = p]
         /\ waiting' = [waiting EXCEPT ![c] = p]
         /\ prepare_to_wait(p)
         /\ Goto(p, "relinq")
         /\ UNCHANGED << msg, tgt, ret, ghostVars >>

InBody(p, c) ==
  IF waiting[c] # NoProc
    THEN LET v == IF buf[c] = NoProc THEN NullRead ELSE msg[buf[c]] IN
         /\ msg' = [msg EXCEPT ![p] = v]
         /\ waiting' = [waiting EXCEPT ![c] = NoProc]
         /\ buf' = [buf EXCEPT ![c] = NoProc]
         /\ tgt' = [tgt EXCEPT ![p] = waiting[c]]
         /\ ret' = [ret EXCEPT ![p] = "next"]
         /\ Goto(p, "wake")
         /\ Transfer(waiting[c], p, v)
         /\ UNCHANGED sched_state
    ELSE /\ buf' = [buf EXCEPT ![c] = p]
         /\ waiting' = [waiting EXCEPT ![c] = p]
         /\ prepare_to_wait(p)
         /\ Goto(p, "relinq")
         /\ UNCHANGED << msg, tgt, ret, ghostVars >>

In(p) ==
  /\ Active(p) /\ AtOp(p, "in")
  /\ ChanSection(p, Op(p).ch)
  /\ InBody(p, Op(p).ch)
  /\ UNCHANGED << current, rdyQ, ipq, ipi, inIPI >>

(***************************************************************************)
(* out(chan): a waiting process whose chan->dest is set is a reader: copy *)
(* into it and go on to ready it.  A waiting process with chan->dest NULL *)
(* is an ALT's marker: take its place with chan->src set, then            *)
(* freeProcessMaybe it and relinquish.  With nobody waiting, park.        *)
(***************************************************************************)
Out(p) ==
  /\ Active(p) /\ AtOp(p, "out")
  /\ ChanSection(p, Op(p).ch)
  /\ LET c == Op(p).ch
         v == Op(p).val IN
     IF waiting[c] # NoProc /\ buf[c] # NoProc
       THEN /\ msg' = [msg EXCEPT ![p] = v, ![buf[c]] = v]
            /\ waiting' = [waiting EXCEPT ![c] = NoProc]
            /\ buf' = [buf EXCEPT ![c] = NoProc]
            /\ tgt' = [tgt EXCEPT ![p] = waiting[c]]
            /\ ret' = [ret EXCEPT ![p] = "next"]
            /\ Goto(p, "wake")
            /\ ndone' = [ndone EXCEPT ![p] = @ + 1, ![waiting[c]] = @ + 1]
            /\ got' = [got EXCEPT ![buf[c]] = Append(@, v)]
            /\ UNCHANGED sched_state
       ELSE /\ msg' = [msg EXCEPT ![p] = v]
            /\ waiting' = [waiting EXCEPT ![c] = p]
            /\ buf' = [buf EXCEPT ![c] = p]
            /\ prepare_to_wait(p)
            /\ IF waiting[c] # NoProc
                 THEN /\ tgt' = [tgt EXCEPT ![p] = waiting[c]]
                      /\ Goto(p, "fpm1")
                 ELSE /\ Goto(p, "relinq")
                      /\ UNCHANGED tgt
            /\ UNCHANGED << ret, ghostVars >>
  /\ UNCHANGED << current, rdyQ, ipq, ipi, inIPI >>

(***************************************************************************)
(* try_in(chan): with a process waiting, copy from it and clear the slot  *)
(* and return true; otherwise return false.  The code readies nobody.     *)
(***************************************************************************)
TryIn(p) ==
  /\ Active(p) /\ AtOp(p, "try_in")
  /\ ChanSection(p, Op(p).ch)
  /\ LET c == Op(p).ch IN
     IF waiting[c] # NoProc
       THEN LET v == IF buf[c] = NoProc THEN NullRead ELSE msg[buf[c]] IN
            /\ msg' = [msg EXCEPT ![p] = v]
            /\ waiting' = [waiting EXCEPT ![c] = NoProc]
            /\ buf' = [buf EXCEPT ![c] = NoProc]
            /\ Transfer(waiting[c], p, v)
       ELSE /\ ndone' = [ndone EXCEPT ![p] = @ + 1]
            /\ UNCHANGED << waiting, buf, msg, got >>
  /\ Goto(p, "next")
  /\ UNCHANGED << schedVars, tgt, ret >>

(***************************************************************************)
(* enable_channel / disable_channel as the ALT engine uses them: the      *)
(* result (is a writer ready) and the change they make to the channel.    *)
(***************************************************************************)
EnableChannelReady(c, p) == waiting[c] # NoProc /\ waiting[c] # p

EnableChannel(c, p) ==
  IF waiting[c] = NoProc
    THEN /\ waiting' = [waiting EXCEPT ![c] = p]
         /\ buf' = [buf EXCEPT ![c] = NoProc]
    ELSE UNCHANGED << waiting, buf >>

DisableChannelReady(c, p) == waiting[c] # NoProc /\ waiting[c] # p

DisableChannel(c, p) ==
  IF DisableChannelReady(c, p)
    THEN UNCHANGED waiting
    ELSE waiting' = [waiting EXCEPT ![c] = NoProc]

=============================================================================
