---------------------------- MODULE FreshCommands ----------------------------
(***************************************************************************)
(* What real-time mode promises, without threads and sockets: every step    *)
(* of the simulation applies either nothing or a command that was offered   *)
(* for one of the last steps, and no step waits for an offer.               *)
(***************************************************************************)
EXTENDS Integers

CONSTANTS Offered, Nothing, MaxAge

VARIABLES step, offers, applied

commandVars == <<step, offers, applied>>

CommandsInit ==
    /\ step = 0
    /\ offers = {}
    /\ applied = Nothing

\* Commands are offered while the simulation runs.
Make ==
    /\ offers \subseteq offers'
    /\ offers' \subseteq Offered
    /\ UNCHANGED <<step, applied>>

Fresh == {o \in offers : o.step <= step /\ step - o.step <= MaxAge}

Apply ==
    /\ applied' \in Fresh \cup {Nothing}
    /\ step' = step + 1
    /\ UNCHANGED offers

CommandsNext == Make \/ Apply

CommandsSpec == CommandsInit /\ [][CommandsNext]_commandVars
=============================================================================
