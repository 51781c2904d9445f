------------------------------- MODULE MCPool -------------------------------
(* A pool of two connections, writers enough to fill it and a reader.      *)
EXTENDS Pool

CONSTANTS c1, c2, w1, w2, w3, h1, r1, r2, a1
=============================================================================
