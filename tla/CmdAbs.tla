------------------------------- MODULE CmdAbs -------------------------------
(***************************************************************************)
(* What the command engine of ocse promises about each command, without    *)
(* the loop, the list, the credits and the sockets.                        *)
(*                                                                         *)
(* A command that was accepted is settled, after its application was asked *)
(* for it or without that; an application is asked for one command at a    *)
(* time.  A settled command is answered in parts that add up to its        *)
(* length, or with one failure before any part, or it is deferred and then *)
(* resumed.  Then its tag is idle again.                                   *)
(***************************************************************************)
EXTENDS Naturals

CONSTANTS Tags, Ctx, Lengths

VARIABLE cmds  \* what is known about each tag

Phases == {"idle", "accepted", "asked", "settled", "deferred"}
Tag == [phase : Phases, ctx : Ctx \cup {"none"}, n : Nat, left : Nat]
Idle == [phase |-> "idle", ctx |-> "none", n |-> 0, left |-> 0]

Init == cmds = [t \in Tags |-> Idle]

In(t, phase) == cmds[t].phase = phase
Move(t, phase) == cmds' = [cmds EXCEPT ![t].phase = phase]
Retire(t) == cmds' = [cmds EXCEPT ![t] = Idle]

\* A command with nothing to ask for is settled when it is accepted.
Accept(t, c, n) ==
  /\ In(t, "idle")
  /\ \E phase \in {"accepted", "settled"} :
       cmds' = [cmds EXCEPT ![t] = [phase |-> phase, ctx |-> c, n |-> n, left |-> n]]

Ask(t) ==
  /\ In(t, "accepted")
  /\ \A u \in Tags : In(u, "asked") => cmds[u].ctx # cmds[t].ctx
  /\ Move(t, "asked")

Settle(t) == (In(t, "accepted") \/ In(t, "asked")) /\ Move(t, "settled")

\* k flits of the answer.
Part(t, k) ==
  /\ In(t, "settled") /\ k \in 1 .. cmds[t].left
  /\ IF k = cmds[t].left THEN Retire(t) ELSE cmds' = [cmds EXCEPT ![t].left = @ - k]

Fail(t) == In(t, "settled") /\ cmds[t].left = cmds[t].n /\ Retire(t)

Defer(t) == In(t, "settled") /\ cmds[t].left = cmds[t].n /\ Move(t, "deferred")

Resume(t) == In(t, "deferred") /\ Retire(t)

Next ==
  \E t \in Tags :
    \/ \E c \in Ctx, n \in Lengths : Accept(t, c, n)
    \/ Ask(t) \/ Settle(t) \/ Fail(t) \/ Defer(t) \/ Resume(t)
    \/ \E k \in Lengths : Part(t, k)

Spec == Init /\ [][Next]_cmds
=============================================================================
