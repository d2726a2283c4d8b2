----------------------------- MODULE MCRecovery -----------------------------
(* Recovery with two calls for one user, or two loads of two messages.     *)
EXTENDS Recovery

CONSTANTS u1, c1, c2, l1, l2

OneUser == [c \in Calls |-> u1]
Together == {{c1, c2}, {l1, l2}}
=============================================================================
