----------------------------- MODULE MCFailover -----------------------------
(* Instances of Failover for TLC.                                          *)
EXTENDS Failover, TLC

(* Sites and concurrent declarations are interchangeable.                  *)
Symmetry == Permutations(Sites) \cup Permutations(Declarers)

=============================================================================
