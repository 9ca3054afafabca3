---------------------------- MODULE MCHeatStack ----------------------------
EXTENDS HeatStack

CONSTANTS w1, w2
MCWorkers == {w1, w2}
=============================================================================
