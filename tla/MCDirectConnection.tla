-------------------------- MODULE MCDirectConnection --------------------------
(* An instance of DirectConnection for TLC.                                *)
EXTENDS DirectConnection

CONSTANTS p1, q1, k1, k2, main
=============================================================================
