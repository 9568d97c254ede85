--------------------------- MODULE MCDecisionLog ---------------------------
(* Instances of DecisionLog for TLC.                                       *)
EXTENDS DecisionLog

(* The challenges are all issued for this site; the other site only calls. *)
CONSTANT Owner
AllOwners == [c \in Challenges |-> Owner]

=============================================================================
