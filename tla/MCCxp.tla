-------------------------------- MODULE MCCxp --------------------------------
(***************************************************************************)
(* Model-checking instances of Cxp: two PUs, an idle process on each, the *)
(* initial process m and the few children of its placed_par() or          *)
(* placed_par_pri(), with small programs.                                 *)
(***************************************************************************)
EXTENDS Cxp, Priority

CONSTANTS m, r, w, x, y, u0, u1, i0, i1, c1, c2, c3, c4, va, vb, vc, U0

\* The guard initialisers of alt.c (init_channel_guard, init_skip_guard,
\* init_timer_guard, init_interrupt_guard): a Guard is its type and its
\* operand.  init_alt's Alternation is the guards of an ALT operation and
\* the process's favorite, 0 in Init; the operation also names the select.
ChanG(c) == [type |-> "chan", ch |-> c]
SkipG == [type |-> "skip"]
AltOp(fair, gs) == [op |-> "alt", fair |-> fair, guards |-> gs]
OutOp(c, v) == [op |-> "out", ch |-> c, val |-> v]
InOp(c) == [op |-> "in", ch |-> c]
YieldOp == [op |-> "yield"]
TryInOp(c) == [op |-> "try_in", ch |-> c]
TimerG(t) == [type |-> "timer", time |-> t]
AfterOp(t) == [op |-> "after", when |-> t]
IntrG(i) == [type |-> "intr", intr |-> i]
ReceiveOp(i) == [op |-> "receive", intr |-> i]
SendOp(i) == [op |-> "send", intr |-> i]
ParOp == [op |-> "par"]

\* The initial process m (PRI_HIGH, on u0) runs the PAR that starts the
\* children of prog.
WithParent(prog) == [p \in {m} \cup DOMAIN prog |-> IF p = m THEN << ParOp >> ELSE prog[p]]

MCPUs == {u0, u1}
MCIdleOf == [u \in MCPUs |-> IF u = u0 THEN i0 ELSE i1]

\* Every child has the parent's priority (placed_par), INIT_PRI = PRI_HIGH;
\* the idle processes have PRI_LOW.
MCPriEqual == [p \in {r, w, x, y, i0, i1} |-> IF p \in {i0, i1} THEN 4095 ELSE 0] @@ (m :> 0)

MCPun == [p \in {r, w, x, y, i0, i1} |-> IF p \in {w, i1} THEN u1 ELSE u0] @@ (m :> u0)

\* r selects twice among c1 and c2 with fairSelect, yielding in between,
\* then once more with priSelect; y writes c1 twice and x c2, both on r's
\* PU, so that both may be parked when r's second ALT begins with
\* favorite 1: a tie the favorite must break for c2.  x also yields and
\* polls c4 (nobody writes to it, so try_in() returns false), then reads
\* c3, written by w from the other PU.
ProgAlt == WithParent([p \in {r, w, x, y} |->
              IF p = r THEN << AltOp(TRUE, << ChanG(c1), ChanG(c2) >>), YieldOp,
                               AltOp(TRUE, << ChanG(c1), ChanG(c2) >>),
                               AltOp(FALSE, << ChanG(c1), ChanG(c2) >>) >>
              ELSE IF p = y THEN << OutOp(c1, va), OutOp(c1, vc) >>
              ELSE IF p = w THEN << OutOp(c3, vc) >>
              ELSE << YieldOp, TryInOp(c4), OutOp(c2, vb), InOp(c3) >>])

MCChildrenAlt == << r, w, x, y >>

MCChildren == << r, w, x >>

\* x polls c1 with try_in() while w writes to it.
ProgTryIn == WithParent([p \in {r, w, x} |->
                IF p = w THEN << OutOp(c1, va) >>
                ELSE IF p = x THEN << YieldOp, TryInOp(c1) >>
                ELSE << YieldOp >>])

\* Two writers, w on u1 and x on u0, share c1; r reads twice.
ProgTwoWriters == WithParent([p \in {r, w, x} |->
                     IF p = r THEN << InOp(c1), InOp(c1) >>
                     ELSE IF p = w THEN << OutOp(c1, va) >>
                     ELSE << OutOp(c1, vb) >>])

(***************************************************************************)
(* placed_par_pri() with parent priority PRI_HIGH: the children get level *)
(* 1 and values 0, 512 (pri_delta(1)) and 1024 in the order r, w, x.      *)
(***************************************************************************)
\* the priorities placed_par_pri gives the children ch of the initial
\* process, with IDLE_PRI for the idle processes
PlacedParPri(ch) ==
  [p \in Range(ch) |-> PriParChildren(PRI_HIGH, Len(ch))[CHOOSE k \in DOMAIN ch : ch[k] = p]]
    @@ [p \in {i0, i1} |-> PRI_LOW] @@ (m :> PRI_HIGH)

MCPriPar == PlacedParPri(MCChildren)

\* r (high) and x (low) on u0 each wait for w, on u1, which writes to both.
ProgPriPar == WithParent([p \in {r, w, x} |->
                 IF p = r THEN << InOp(c1) >>
                 ELSE IF p = w THEN << OutOp(c1, va), OutOp(c2, vb) >>
                 ELSE << InOp(c2) >>])

\* r alternates over c1 and c2, reads c2, then alternates over c1 alone;
\* w writes c1 twice, x (on u0, first to run) writes c2 once.
ProgAltAgain == WithParent([p \in {r, w, x} |->
                   IF p = r THEN << AltOp(FALSE, << ChanG(c1), ChanG(c2) >>),
                                    InOp(c2),
                                    AltOp(FALSE, << ChanG(c1) >>) >>
                   ELSE IF p = w THEN << OutOp(c1, va), OutOp(c1, vc) >>
                   ELSE << OutOp(c2, vb) >>])

MCChildrenXFirst == << x, r, w >>

(***************************************************************************)
(* placed_par_pri(): the children r, x, w, y get level 1 and values 0,   *)
(* 512, 1024 and 1536; r, x and w share the parent's PU u0, y is alone   *)
(* on u1.  Every readying on u0 preempts through schedule0(); y is        *)
(* readied from u0 through the interprocessor interrupt.                  *)
(***************************************************************************)
MCChildrenLocal == << r, x, w, y >>

MCPriLocal == PlacedParPri(MCChildrenLocal)

MCPunLocal == [p \in {r, w, x, y, i0, i1} |-> IF p \in {y, i1} THEN u1 ELSE u0] @@ (m :> u0)

\* r's ALT finds c2 empty and takes its SKIP guard; w yields among the
\* processes of u0 and then readies y on u1.
ProgLocal == WithParent([p \in {r, w, x, y} |->
                CASE p = r -> << InOp(c1), AltOp(FALSE, << ChanG(c2), SkipG >>), InOp(c2) >>
                  [] p = x -> << OutOp(c1, va), OutOp(c2, vb) >>
                  [] p = w -> << YieldOp, OutOp(c3, vc) >>
                  [] p = y -> << InOp(c3) >>])


(***************************************************************************)
(* Timeouts, one timer user per PU (placed_par, equal priorities): r on   *)
(* u0 alternates between c1 and a timeout at 2 and then sleeps until 3,   *)
(* w on u1 sleeps until 1 and then writes c1.  The horizon MaxTime = 3    *)
(* lets each timeout fall before, during and after the other's steps.     *)
(***************************************************************************)
ProgTimer == WithParent([p \in {r, w} |->
                IF p = r THEN << AltOp(FALSE, << ChanG(c1), TimerG(2) >>),
                                 AfterOp(3) >>
                ELSE << AfterOp(1), OutOp(c1, va) >>])

MCChildrenTimer == << r, w >>

\* r on u0 waits in an ALT whose only guard is a timeout at 1, while x on
\* u0 sleeps until 2: two descriptors in u0's queue.
ProgTimerShared == WithParent([p \in {r, x} |->
                      IF p = r THEN << AltOp(FALSE, << TimerG(1) >>) >>
                      ELSE << AfterOp(2) >>])

MCChildrenTimerShared == << r, x >>

(***************************************************************************)
(* The user interrupt (spec.md scenario S5, examples/intr_pri.c) under    *)
(* placed_par_pri: r (highest) and w share u0, x is alone on u1.  r       *)
(* receives USER0 and then reads c1; w sends USER0 twice; x writes c1,    *)
(* readying r from the other PU, after an ALT over USER0 and SKIP that   *)
(* passes over the interrupt guard and takes the SKIP.                   *)
(***************************************************************************)
MCPunIntr == [p \in {r, w, x, i0, i1} |-> IF p \in {x, i1} THEN u1 ELSE u0] @@ (m :> u0)

ProgIntr == WithParent([p \in {r, w, x} |->
               CASE p = r -> << ReceiveOp(U0), InOp(c1) >>
                 [] p = w -> << SendOp(U0), SendOp(U0) >>
                 [] p = x -> << AltOp(FALSE, << IntrG(U0), SkipG >>), OutOp(c1, va) >>])

=============================================================================
