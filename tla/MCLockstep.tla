----------------------------- MODULE MCLockstep -----------------------------
EXTENDS LockstepSystem
CONSTANTS stay, go

MCMoves == {stay, go}

\* One answer that differs from the default in the command and in the fabricate
\* edge: a default, a held and an answered action are told apart, and a stale
\* answer is recognised by the step it was offered for.
MCAnswers == {[move |-> go, fabricate |-> TRUE]}

\* Losses of established connections only.
Established == {"idle", "extension", "decide"}

\* An established connection is lost, and a reconnection is given up before its
\* resume frame is written.
GivenUp == {"decide", "resume"}

Anywhere == {"opening", "resume", "metadata", "idle", "extension", "decide"}
=============================================================================
