---------------------------- MODULE MCFeedSession ----------------------------
(* Model-checking instance of FeedSession.  Nothing is bounded: the ages and  *)
(* the backoff saturate, the dials are bounded by the code itself, and what   *)
(* the venue lists only grows.                                                *)
EXTENDS FeedSession
=============================================================================
