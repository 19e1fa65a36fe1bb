------------------------------ MODULE MCCluster ------------------------------
(* Instances of Cluster for TLC. *)
EXTENDS Cluster, TLC

\* The servers that are neither in Debug nor in Fragile differ in nothing.
Alike == Permutations(Servers \ (Debug \cup Fragile))
=============================================================================
