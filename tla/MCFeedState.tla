----------------------------- MODULE MCFeedState -----------------------------
(* One client, which may post one request after another, and three           *)
(* transitions: an opening, a command's, and one that may follow it before   *)
(* the request looks.                                                        *)
EXTENDS FeedState

=============================================================================
