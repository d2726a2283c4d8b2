-------------------------- MODULE MCClientSession --------------------------
(* ClientSession with a few clients; x and y are the same user in a run     *)
(* that gives SameUser the value TRUE.                                      *)
EXTENDS ClientSession

CONSTANTS x, y, ux, uy, A, B, app, SameUser

MCUserOf == [h \in Handlers |-> IF h = x \/ SameUser THEN ux ELSE uy]
=============================================================================
