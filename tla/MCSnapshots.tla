----------------------------- MODULE MCSnapshots ----------------------------
EXTENDS Snapshots

Crowd(kinds) == [b \in Bodies |-> IF b \in DOMAIN kinds THEN kinds[b] ELSE "none"]

\* Two agents that can clamp each other, or an agent beside terrain.
MCCrowds == {Crowd(<<"agent", "agent">>), Crowd(<<"agent", "inert">>)}
=============================================================================
