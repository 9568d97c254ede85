---------------------------- MODULE MCSiteStore ----------------------------
(* Instances of SiteStore for TLC.                                         *)
EXTENDS SiteStore, TLC

=============================================================================
