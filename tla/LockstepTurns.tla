---------------------------- MODULE LockstepTurns ----------------------------
(***************************************************************************)
(* What lockstep mode promises, without transports: the world waits at a    *)
(* decision boundary until the agent has answered this very step, applies   *)
(* the answer, and repeats it without the fabrication edge until the next   *)
(* boundary.                                                                *)
(***************************************************************************)
EXTENDS Integers

CONSTANTS Actions, Pulse(_), TicksPerDecision

VARIABLES step, answers, action, left, applied

turnVars == <<step, answers, action, left, applied>>

TurnsInit ==
    /\ step = 0
    /\ answers = {}
    /\ left = 0
    /\ action \in Actions
    /\ applied = action

\* The agent answers the step the world waits at; it may answer again after a
\* lost connection.
Answer ==
    /\ left = 0
    /\ \E a \in Actions : answers' = answers \cup {a}
    /\ UNCHANGED <<step, action, left, applied>>

Take ==
    /\ left = 0
    /\ action' \in answers
    /\ applied' = action'
    /\ left' = TicksPerDecision - 1
    /\ step' = step + 1
    /\ answers' = {}

Repeat ==
    /\ left > 0
    /\ applied' = Pulse(action)
    /\ left' = left - 1
    /\ step' = step + 1
    /\ UNCHANGED <<answers, action>>

TurnsNext == Answer \/ Take \/ Repeat

TurnsSpec == TurnsInit /\ [][TurnsNext]_turnVars
=============================================================================
