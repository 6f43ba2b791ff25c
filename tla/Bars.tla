-------------------------------- MODULE Bars --------------------------------
(***************************************************************************)
(* The way of the data: from the venue's frame to the ladder and the tick       *)
(* (Ladder), from the events of a minute to a sealed row (MinuteBars), and from  *)
(* the sealed row through the buffers to a file and into an answer (BarStore).   *)
(* The second abstracts from what the events say, and the third counts whole      *)
(* minutes and asks only that each gives a bar, which is what the second shows,   *)
(* so a behaviour follows one of them.                                       *)
(***************************************************************************)
EXTENDS Ladder, MinuteBars, BarStore

VARIABLE stretch  \* which part of the way the behaviour follows

wayVars == <<stretch, ladderVars, barVars, storeVars>>

(* The parts that stand still have one initial state. *)
WayInit ==
  /\ stretch \in {"quoting", "folding", "storing"}
  /\ LadderInit /\ BarsInit /\ StoreInit
  /\ stretch # "quoting" => reference = {}
  /\ stretch # "folding" => restored = CHOOSE r \in Restores : TRUE
  /\ stretch # "storing" => composition = "monolith"

WayNext ==
  \/ stretch = "quoting" /\ LadderNext /\ UNCHANGED <<stretch, barVars, storeVars>>
  \/ stretch = "folding" /\ BarsNext /\ UNCHANGED <<stretch, ladderVars, storeVars>>
  \/ stretch = "storing" /\ StoreNext /\ UNCHANGED <<stretch, ladderVars, barVars>>

WaySpec == WayInit /\ [][WayNext]_wayVars
=============================================================================
