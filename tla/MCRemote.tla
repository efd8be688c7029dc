------------------------------ MODULE MCRemote ------------------------------
EXTENDS RemoteSystem
CONSTANTS own, foreign, rest, go, turn

MCEntities == {own, foreign}
MCCommands == {rest, go, turn}

\* A command for the controlled entity.
MCPlain == {[entity |-> own, command |-> go, decodes |-> TRUE]}

\* Another command for another entity.
MCForeign == MCPlain \cup {[entity |-> foreign, command |-> turn, decodes |-> TRUE]}

\* Two commands, one in a frame that does not decode.
MCRefused == MCPlain \cup {[entity |-> own, command |-> turn, decodes |-> FALSE]}
=============================================================================
