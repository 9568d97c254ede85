-------------------------- MODULE MCTrainingExport --------------------------
(* Instances of TrainingExport for TLC.                                    *)
EXTENDS TrainingExport

(* The challenges are all issued for this site.                            *)
CONSTANT Owner
AllOwners == [c \in Challenges |-> Owner]

(* Challenges are interchangeable for safety.                              *)
Symmetry == Permutations(Challenges)

=============================================================================
