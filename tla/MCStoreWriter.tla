---------------------------- MODULE MCStoreWriter ----------------------------
EXTENDS StoreWriter, TLC

CONSTANTS quote, computed

(* Two tables that close a minute at different times, or one of them. *)
TwoGraces == (quote :> 1) @@ (computed :> 0)
OneGrace == quote :> 0
=============================================================================
