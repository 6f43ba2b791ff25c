--------------------------- MODULE MCStoreMonitor ---------------------------
(* The store's monitor alone.                                               *)
EXTENDS StoreMonitor
=============================================================================
