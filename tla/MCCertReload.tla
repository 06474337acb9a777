---------------------------- MODULE MCCertReload ----------------------------
(* Small instances of CertReload for TLC. *)
EXTENDS CertReload, TLC

CONSTANTS v1, v2, s1, s2
=============================================================================
