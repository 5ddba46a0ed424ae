------------------------------ MODULE Rendezvous ------------------------------
(***************************************************************************)
(* What the channel and ALT operations of cxp promise, in the sense of    *)
(* CSP (spec.md, "Channels" and "Alternation"): an output on a channel    *)
(* completes together with exactly one input on that channel, by a        *)
(* different process, and the reader receives the writer's value.  An     *)
(* input is in(), a successful try_in() or an ALT with a guard on the     *)
(* channel; an ALT with a SKIP or a timer guard, a yield(), an After(),   *)
(* a PAR and a try_in() that finds no writer complete alone.  A user      *)
(* interrupt sent (send_interrupt) completes together with at most one    *)
(* receive of it, or an ALT with a guard on it, or alone.                 *)
(*                                                                         *)
(* aip[p] is the index in Prog[p] of the operation p has yet to complete, *)
(* got[p] the values p has received.                                      *)
(***************************************************************************)
EXTENDS Naturals, Sequences

CONSTANTS Procs, Prog

VARIABLES aip, got

vars == << aip, got >>

Pending(p) == aip[p] <= Len(Prog[p])
OpAt(p) == Prog[p][aip[p]]

\* p's pending operation can take an input from channel c
InputsOn(p, c) ==
  /\ Pending(p)
  /\ \/ OpAt(p).op \in {"in", "try_in"} /\ OpAt(p).ch = c
     \/ OpAt(p).op = "alt"
        /\ \E i \in DOMAIN OpAt(p).guards :
             OpAt(p).guards[i].type = "chan" /\ OpAt(p).guards[i].ch = c

\* p's pending operation may complete without a partner
CompletesAlone(p) ==
  /\ Pending(p)
  /\ \/ OpAt(p).op \in {"yield", "try_in", "after", "send", "par"}
     \/ OpAt(p).op = "alt"
        /\ \E i \in DOMAIN OpAt(p).guards :
             OpAt(p).guards[i].type \in {"skip", "timer"}

\* p's pending operation can take user interrupt i
ReceivesIntr(p, i) ==
  /\ Pending(p)
  /\ \/ OpAt(p).op = "receive" /\ OpAt(p).intr = i
     \/ OpAt(p).op = "alt"
        /\ \E k \in DOMAIN OpAt(p).guards :
             OpAt(p).guards[k].type = "intr" /\ OpAt(p).guards[k].intr = i

Init ==
  /\ aip = [p \in Procs |-> 1]
  /\ got = [p \in Procs |-> << >>]

Communicate(w, r) ==
  /\ w # r
  /\ Pending(w) /\ OpAt(w).op = "out"
  /\ InputsOn(r, OpAt(w).ch)
  /\ aip' = [aip EXCEPT ![w] = @ + 1, ![r] = @ + 1]
  /\ got' = [got EXCEPT ![r] = Append(@, OpAt(w).val)]

Signal(s, r) ==
  /\ s # r
  /\ Pending(s) /\ OpAt(s).op = "send"
  /\ ReceivesIntr(r, OpAt(s).intr)
  /\ aip' = [aip EXCEPT ![s] = @ + 1, ![r] = @ + 1]
  /\ UNCHANGED got

Alone(p) ==
  /\ CompletesAlone(p)
  /\ aip' = [aip EXCEPT ![p] = @ + 1]
  /\ UNCHANGED got

Next ==
  \/ \E w, r \in Procs : Communicate(w, r)
  \/ \E s, r \in Procs : Signal(s, r)
  \/ \E p \in Procs : Alone(p)

Spec == Init /\ [][Next]_vars

=============================================================================
