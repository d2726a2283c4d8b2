---------------------------- MODULE MCMemoryRelay ----------------------------
(* MemoryRelay with a buffer of two messages and a user who reconnects. *)
EXTENDS MemoryRelay, TLC

CONSTANTS p1, p2, x1, u1, c1, c2

OneUser == [c \in Conns |-> u1]
NoSkip == {}

(* Neither the calls nor the connections differ from one another. *)
Sym == Permutations({p1, p2}) \cup Permutations({c1, c2})
=============================================================================
