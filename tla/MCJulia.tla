------------------------------ MODULE MCJulia ------------------------------
(* A small instance of Julia.                                              *)
EXTENDS Julia
CONSTANTS k1, k2, c1, c2
=============================================================================
