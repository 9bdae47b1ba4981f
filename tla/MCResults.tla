------------------------------ MODULE MCResults ------------------------------
(* Small instances of Chart, for TLC.                                      *)
EXTENDS Chart

CONSTANTS p1, p2

(* Whole seconds apart: what profits are made of.                          *)
Trader ==
  [venue |-> "paper", charted |-> FALSE, pairs |-> {p1}, orders |-> 1 .. 3, sides |-> {"buy", "sell"},
   types |-> {"market"}, prices |-> {144, 288}, quantities |-> {1, 2},
   times |-> {0, 2, 4}, ends |-> {"filled"}]

(* Orders that are executed later, in any order.                           *)
Patient == [Trader EXCEPT !.types = {"limit"}, !.quantities = {1}]
Guarded == [Trader EXCEPT !.types = {"market", "stop"}, !.orders = 1 .. 2]

(* Within a second, with a chart: of one pair, or of two.                  *)
Watched ==
  [Guarded EXCEPT !.charted = TRUE, !.sides = {"buy"}, !.types = {"limit"}, !.prices = {144},
   !.quantities = {1}, !.times = {0, 1, 2}, !.ends = {"filled", "canceled"}]
Compared == [Watched EXCEPT !.pairs = {p1, p2}, !.orders = {1}]

(* An exchange whose orders outlive the process.                           *)
Lasting ==
  [Guarded EXCEPT !.venue = "binance", !.types = {"limit", "stop"}, !.quantities = {1},
   !.times = {0, 2}]

MCSetups == {Trader, Patient, Guarded, Watched, Compared, Lasting}

(* A guard for stop orders, at an exchange that does not tell their stop.  *)
StopSetups == {[Lasting EXCEPT !.prices = {144}]}

=============================================================================
