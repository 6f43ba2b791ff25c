--------------------------- MODULE MCGroupReader ---------------------------
(* The instance of GroupReader that TLC checks.                             *)
EXTENDS GroupReader
=============================================================================
