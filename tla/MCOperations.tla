---------------------------- MODULE MCOperations ----------------------------
(* Three signatures, two tabs, four entries on the stream, and            *)
(* each of the five processes.                                               *)
EXTENDS Operations
=============================================================================
