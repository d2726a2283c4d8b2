----------------------------- MODULE MCCluster -----------------------------
(* Cluster with two nodes; the messages are published on the first. *)
EXTENDS Cluster

CONSTANTS n1, n2, p1, p2

FirstNode == [p \in Publishers |-> n1]
=============================================================================
