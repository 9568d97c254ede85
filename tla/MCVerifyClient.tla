--------------------------- MODULE MCVerifyClient ---------------------------
(* Instances of VerifyClient for TLC.                                      *)
EXTENDS VerifyClient

=============================================================================
