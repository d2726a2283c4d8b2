------------------------------- MODULE MCRoom -------------------------------
(* Room with two users, one of which has two connections. *)
EXTENDS Room

CONSTANTS ann, bob, a1, a2, b1, p1, p2, p3

MCUserOf == [c \in Conns |-> IF c = b1 THEN bob ELSE ann]

(* p1 and p3 are sent by bob, p2 by ann. *)
MCSenderOf == [p \in Publishers |-> IF p = p2 THEN ann ELSE bob]
=============================================================================
