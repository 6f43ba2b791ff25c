----------------------------- MODULE RecordedLog -----------------------------
(***************************************************************************)
(* What the split store promises whoever reads its committed files, through  *)
(* every crash, replay, pause and failed flush: a row is the whole of its     *)
(* minute and final.  It holds every entry of its minute that was published   *)
(* for recording and no other, there is no second row, no entry of the        *)
(* minute is published or refused after it, and it never goes.                *)
(*                                                                         *)
(* A store that has been through one of the situations in which it is known   *)
(* to lose entries is excused from then on.                                  *)
(***************************************************************************)

VARIABLES
  published,   (* the entries of the log: [table, minute, id]                *)
  refused,     (* those of them that were not for recording                  *)
  rows,        (* the rows in committed files: [table, minute, entries]      *)
  excused

vars == <<published, refused, rows, excused>>

Init == published = {} /\ refused = {} /\ rows = {} /\ excused = FALSE

SameMinute(x, y) == x.table = y.table /\ x.minute = y.minute
Recorded(e) == \E r \in rows : SameMinute(e, r)
WholeMinute(r) == {e.id : e \in {x \in published \ refused : SameMinute(x, r)}}

Publish ==
  /\ \E e \in published' : published' = published \cup {e} /\ ~Recorded(e)
  /\ UNCHANGED <<refused, rows>>

Refuse ==
  /\ refused \subseteq refused' /\ refused' \subseteq published
  /\ \A e \in refused' \ refused : ~Recorded(e)
  /\ UNCHANGED <<published, rows>>

Commit ==
  /\ rows \subseteq rows'
  /\ \A r \in rows' \ rows : r.entries = WholeMinute(r) /\ ~Recorded(r)
  /\ UNCHANGED <<published, refused>>

Next ==
  \/ excused' = FALSE /\ (Publish \/ Refuse \/ Commit)
  \/ excused' = TRUE

Spec == Init /\ [][Next]_vars
=============================================================================
