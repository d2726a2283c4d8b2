----------------------------- MODULE BoundedLog -----------------------------
(***************************************************************************)
(* What the history of an in-memory room promises: the last Size messages  *)
(* in the order in which they were stored.                                 *)
(***************************************************************************)
EXTENDS Naturals, Sequences

CONSTANTS Size, Message

VARIABLE log

Init == log = << >>

(* Append, and forget the oldest message of a full log. *)
Store(m) == log' = Append(IF Len(log) < Size THEN log ELSE Tail(log), m)

Next == \E m \in Message : Store(m)

Spec == Init /\ [][Next]_log
=============================================================================
