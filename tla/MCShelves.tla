----------------------------- MODULE MCShelves -----------------------------
EXTENDS Shelves
CONSTANTS w1, w2, s1, s2, r1, r2, t1, t2

MCWorkers == {w1, w2}
MCShelf == {s1}
MCResource == {r1}
MCTests == {t1, t2}
=============================================================================
