---------------------------- MODULE TrailingStop ----------------------------
(***************************************************************************)
(* The trailing stop of strategies: azbot/tools/trailing.go.  A strategy   *)
(* starts it with the price and the stop, and asks it at each price        *)
(* whether to sell.                                                        *)
(***************************************************************************)
EXTENDS Integers

CONSTANT MaxStop   \* bound: each fall and rise of the price raises the stop

VARIABLES
  current, stop, active,
  triggered,   \* the last answer of Update
  distance     \* history: how far the stop was below the price at Start

Init ==
  current = 0 /\ stop = 0 /\ active = FALSE /\ triggered = FALSE /\ distance = 0

Start(price, at) ==
  /\ at <= price
  /\ current' = price /\ stop' = at /\ active' = TRUE
  /\ triggered' = FALSE /\ distance' = price - at

Stop == active' = FALSE /\ UNCHANGED <<current, stop, triggered, distance>>

(* A rise of the price raises the stop by as much.                         *)
RaisedStop(price) == stop + (price - current)

Update(price) ==
  /\ IF ~active THEN triggered' = FALSE /\ UNCHANGED <<current, stop>>
     ELSE /\ current' = price
          /\ RaisedStop(price) <= MaxStop
          /\ IF price > current THEN stop' = RaisedStop(price) /\ triggered' = FALSE
                                ELSE triggered' = (price <= stop) /\ UNCHANGED stop
  /\ UNCHANGED <<active, distance>>

-----------------------------------------------------------------------------

(* The stop follows the price: it is never further below the price than it *)
(* was at the start, after any rises and falls.                            *)
NeverFurther == active => current - stop <= distance

=============================================================================
