--------------------------- MODULE MCSecurityLog ---------------------------
(* Model-checking instance of SecurityLog: three writers, two contents.    *)
EXTENDS SecurityLog
=============================================================================
