----------------------------- MODULE MCLiveBus -----------------------------
(* Instances of LiveBus for TLC.                                            *)
EXTENDS LiveBus
=============================================================================
