----------------------------- MODULE MCScreens -----------------------------
(* A page over a small engine: four links, one to an expiry that is no date, two *)
(* underlyings, three expiries of which the venue may drop one. Four minutes of a store with holes, an expiry   *)
(* about to roll off, and a backfilled index. Two live ladders of one           *)
(* underlying, with a grace that outlasts two samples.                       *)
EXTENDS Screens, TLC

SomeListings == "BTC" :> {{"e1"}, {"e1", "e2"}} @@ "ETH" :> {{"e2"}}
SomeQuoted == {<<"BTC", "e1">>, <<"BTC", "e2">>, <<"ETH", "e2">>}
SomeDays == <<"BTC", "e1">> :> {0, 2} @@ <<"BTC", "e2">> :> {1, 2} @@ <<"ETH", "e2">> :> {1}
Link(e, m) == [underlying |-> "BTC", expiry |-> e, wanted |-> m]
SomeLinks == {Link(NoExpiry, Edge), Link("e1", 0), Link("e3", 1), Link("e4", Edge)}

Bar(o, h, l, c) == [open |-> o, high |-> h, low |-> l, close |-> c]
Near == 3 :> [forward |-> 1, smile |-> (1 :> 2)]
Board == (3 :> [forward |-> 1, smile |-> (0 :> 2 @@ 2 :> 6)])
         @@ (7 :> [forward |-> 1, smile |-> (1 :> 2 @@ 2 :> 4)])
         @@ (9 :> [forward |-> 3, smile |-> (1 :> 2)])
SomeRows == {[bar |-> {Bar(0, 1, 0, 1)}, board |-> {Board}], [bar |-> {Bar(1, 2, 0, 0)}, board |-> {Near}],
             [bar |-> {}, board |-> {Near}], [bar |-> {}, board |-> {}]}
SomeCandles == {Bar(0, 2, 0, 1)}
=============================================================================
