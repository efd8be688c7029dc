---------------------------- MODULE MCPopulation ----------------------------
EXTENDS Population

Ground(seeded, preloaded) == [seeded |-> seeded, preloaded |-> preloaded]

MCGrounds == {Ground({0, 1}, {}), Ground({}, {-1, 0, 1})}
=============================================================================
