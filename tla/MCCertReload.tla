----------------------------- MODULE MCCertReload -----------------------------
(***************************************************************************)
(* The TLC instance of CertReload: every file is replaced at most once.    *)
(***************************************************************************)
EXTENDS CertReload
=============================================================================
