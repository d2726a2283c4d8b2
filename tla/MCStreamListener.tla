-------------------------- MODULE MCStreamListener --------------------------
(* StreamListener with a few goroutines. *)
EXTENDS StreamListener

CONSTANTS l1, l2, l3
=============================================================================
