------------------------- MODULE MCResourceFixture -------------------------
EXTENDS ResourceFixture
CONSTANTS w1, w2

MCWorkers == {w1, w2}
=============================================================================
