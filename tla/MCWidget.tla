------------------------------ MODULE MCWidget ------------------------------
(* Instances of Widget for TLC.                                            *)
EXTENDS Widget

(* No guard tells challenges apart, reads the tier or the token, and no    *)
(* property of the run does: states that differ in nothing else behave     *)
(* alike.                                                                  *)
Shape == <<state, puzzle = None, failover, expiry, pending, handle, timers,
           [i \in FlowIds |-> IF flows[i] = None THEN None
              ELSE [flows[i] EXCEPT !.puzzle = None]],
           worker, world, upset>>

=============================================================================
