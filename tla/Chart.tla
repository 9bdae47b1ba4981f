-------------------------------- MODULE Chart --------------------------------
(***************************************************************************)
(* The chart (azbot/plot/chart.go) over the orders of the controller.  It  *)
(* subscribes to the order feed and to the candles, and serves each pair's *)
(* candles with the orders placed under them to any number of requests.    *)
(* OnOrder and OnCandle hold its mutex; a request does not, and is one     *)
(* action all the same.                                                    *)
(***************************************************************************)
EXTENDS Results

VARIABLES
  candles,     \* the complete candles of each pair: their times, and orders kept with them
  orderIDs,    \* ordersIDsByPair, for the pairs that have a set
  orderByID    \* when each order reported was updated

chart == <<candles, orderIDs, orderByID>>

MaxKept == 2   \* bound: the late orders that a candle keeps

vars == <<storage, trades, results, running, outbox, chart>>

ChartInit == candles = [p \in Pair |-> <<>>] /\ orderIDs = Empty /\ orderByID = Empty

(* An order of a pair without a set, before its first complete candle: the *)
(* feed's goroutine panics, and ends the process.                          *)
OnOrder(o) ==
  /\ running /\ o \in outbox /\ outbox' = outbox \ {o}
  /\ IF o.pair \in DOMAIN orderIDs
     THEN /\ orderIDs' = [orderIDs EXCEPT ![o.pair] = @ \cup {o.id}]
          /\ orderByID' = With(orderByID, o.id, o.updated)
          /\ UNCHANGED running
     ELSE running' = FALSE /\ UNCHANGED <<orderIDs, orderByID>>
  /\ UNCHANGED <<storage, trades, results, candles>>

(* A candle that was seen, or is not complete, leaves the chart alone.     *)
OnCandle(pair, time) ==
  /\ running /\ setup.charted
  /\ \A i \in DOMAIN candles[pair] : candles[pair][i].time < time
  /\ candles' = [candles EXCEPT ![pair] = Append(@, [time |-> time, orders |-> <<>>])]
  /\ orderIDs' = IF pair \in DOMAIN orderIDs THEN orderIDs ELSE With(orderIDs, pair, {})
  /\ UNCHANGED <<storage, trades, results, running, outbox, orderByID>>

-----------------------------------------------------------------------------
(* candlesByPair.                                                          *)

(* Mutant: an order of the very time of a candle is under none.            *)
UnderMutant(of, updated, i) ==
  i < Len(of) /\ of[i].time < updated /\ updated < of[i + 1].time

Under(of, updated, i) ==
  \/ i < Len(of) /\ of[i].time < updated /\ updated < of[i + 1].time
  \/ updated = of[i].time

(* The orders after the last candle are appended to what the chart keeps,  *)
(* at the index of the last pair, not of the last candle.                  *)
LateAt(of) == Cardinality({p \in Pair : candles[p] # <<>>})

Late(of, ids) ==
  {id \in ids : /\ \A i \in DOMAIN of : ~Under(of, orderByID[id], i)
                /\ orderByID[id] > of[LateAt(of)].time}

(* Whether the index of the late orders is one of a candle of the pair, or *)
(* is not needed.  If not, or if the pair has no set, the request panics,  *)
(* and the server recovers.                                                *)
Answers(pair) ==
  LET of == candles[pair]
  IN  /\ pair \in DOMAIN orderIDs
      /\ \/ LateAt(of) <= Len(of)
         \/ \A id \in orderIDs[pair] : \E i \in DOMAIN of : Under(of, orderByID[id], i)

(* The orders that a request is answered, under each candle.               *)
candlesByPair(pair) ==
  LET of == candles[pair]
  IN  [i \in DOMAIN of |->
         ToSet(of[i].orders) \cup {id \in orderIDs[pair] : Under(of, orderByID[id], i)}]

(* What a request leaves behind.                                           *)
Request(pair) ==
  LET of == candles[pair]
  IN  /\ running /\ pair \in DOMAIN orderIDs /\ LateAt(of) <= Len(of)
      /\ Len(of[LateAt(of)].orders) < MaxKept
      /\ candles' = [candles EXCEPT ![pair][LateAt(of)].orders =
                                       @ \o SetToSeq(Late(of, orderIDs[pair]))]
      /\ UNCHANGED <<storage, trades, results, running, outbox, orderIDs, orderByID>>

-----------------------------------------------------------------------------

Init == ResultsInit /\ ChartInit

(* The chart is the process's own too.                                     *)
ChartAgain == candles' = [p \in Pair |-> <<>>] /\ orderIDs' = Empty /\ orderByID' = Empty

Next ==
  \/ Trades /\ UNCHANGED chart
  \/ Again /\ ChartAgain
  \/ \E o \in outbox : OnOrder(o)
  \/ \E p \in setup.pairs, time \in 0 .. clock : OnCandle(p, time)
  \/ \E p \in setup.pairs : Request(p)

Spec == Init /\ [][Next]_vars

-----------------------------------------------------------------------------

(* A page served shows every order that the chart knows to be updated      *)
(* between the first and the last candle, under the candle it fell in,     *)
(* however orders, candles and requests followed each other.               *)
ChartShowsOrders ==
  \A pair \in {p \in Pair : Answers(p)}, id \in UNION {orderIDs[p] : p \in DOMAIN orderIDs} :
    LET of == candles[pair]
        time == orderByID[id]
    IN  \A i \in DOMAIN of :
          (/\ id \in orderIDs[pair] /\ of[i].time <= time
           /\ IF i = Len(of) THEN time = of[i].time ELSE time < of[i + 1].time)
          => id \in candlesByPair(pair)[i]

=============================================================================
