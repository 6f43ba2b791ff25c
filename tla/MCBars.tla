------------------------------- MODULE MCBars -------------------------------
(* Two-sided and one-sided books; references with a quote and a mark, with a     *)
(* quote alone and with levels alone; a checkpoint that has sealed the computed  *)
(* table further than the others.                                            *)
EXTENDS Bars

(* Tops of the book with a missing side, a size that is not a number, or nothing;  *)
(* tickers with every spelling of an absent price and of open interest, and one    *)
(* that cannot be read.                                                      *)
TopsOfBook ==
  {[bid |-> b, bidSize |-> "junk", ask |-> a, askSize |-> "low"] :
     b \in {"zero", "low"}, a \in {"null", "junk", "high"}}
Tickers ==
  {[id |-> "low", bid |-> "low", ask |-> "high", oi |-> "zero", spot |-> "low"],
   [id |-> "low", bid |-> "junk", ask |-> "high", oi |-> "junk", spot |-> "high"],
   [id |-> "null", bid |-> "null", ask |-> "zero", oi |-> "null", spot |-> "junk"],
   [id |-> "junk", bid |-> "low", ask |-> "high", oi |-> "high", spot |-> "high"]}

SomeBooks == {[bid |-> 1, ask |-> 2], [bid |-> 2, ask |-> None]}
SomeReferences ==
  {[bid |-> None, ask |-> 3, mark |-> 2, ltp |-> None, levels |-> FALSE],
   [bid |-> None, ask |-> 1, mark |-> None, ltp |-> None, levels |-> FALSE],
   [bid |-> None, ask |-> None, mark |-> None, ltp |-> None, levels |-> TRUE]}
SomeRestores == {[t \in Tables |-> -1], [t \in Tables |-> IF t = "computed" THEN 0 ELSE -1]}
=============================================================================
