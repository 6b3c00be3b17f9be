--------------------------- MODULE MCCertRenewal ----------------------------
(* Small instances of CertRenewal for TLC. *)
EXTENDS CertRenewal

Both == {"apex", "www"}
Apex == {"apex"}
=============================================================================
