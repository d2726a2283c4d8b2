----------------------------- MODULE MCConnPool -----------------------------
(* ConnPool with two connections' worth of capacity and three callers. *)
EXTENDS ConnPool

CONSTANTS c1, c2, c3, f, g, r
=============================================================================
