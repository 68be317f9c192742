--------------------------- MODULE MCXxlExecutor ---------------------------
EXTENDS XxlExecutor, TLC

CONSTANTS h1, h2, i, j, k, c1, c2, d1, d2, e1

\* Which handler each job names, and which job each dispatch is of.
Shared == (j :> h2) @@ (k :> h2)
Apart == (i :> h1) @@ (j :> h2)
Alone1 == (i :> h1)

IJ == (c1 :> i) @@ (c2 :> i) @@ (d1 :> j) @@ (d2 :> j)
JK == (d1 :> j) @@ (d2 :> j) @@ (e1 :> k)
II == (c1 :> i) @@ (c2 :> i) @@ (d1 :> i)
=============================================================================
