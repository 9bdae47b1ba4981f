------------------------------- MODULE Results -------------------------------
(***************************************************************************)
(* What the trades brought: calculateProfit and processTrade of            *)
(* azbot/order/controller.go, over the storage.  Creating an order and     *)
(* polling hold the controller's mutex, and are actions; the exchange      *)
(* executes orders in between.  The times are those of the exchange.       *)
(*                                                                         *)
(* The prices are multiples of every number that an average divides by.    *)
(***************************************************************************)
EXTENDS OrderStore

CONSTANTS
  Pair,
  Setups   \* what a behaviour may do, see SetupAssumption

(* A setup says which exchange is used, whether there is a chart, which    *)
(* orders are given, and at which times (half seconds).                    *)
ASSUME SetupAssumption ==
  \A s \in Setups :
    /\ s.venue \in {"paper", "binance"} /\ s.charted \in BOOLEAN
    /\ s.pairs \subseteq Pair /\ s.orders \subseteq Nat
    /\ s.sides \subseteq {"buy", "sell"} /\ s.types \subseteq {"market", "limit", "stop"}
    /\ s.ends \subseteq {"filled", "canceled"} /\ s.times \subseteq Nat
    /\ s.prices \subseteq Nat /\ s.quantities \subseteq Nat \ {0}

VARIABLES
  setup,
  clock,
  book,      \* the orders at the exchange
  ledger,    \* history: the orders it executed, in their order
  volume,    \* summary.Volume of each pair
  booked,    \* history: the profit computed of each order, and whether it could be right
  running,   \* FALSE when a panic has ended the process
  outbox     \* the orders that were published, and not yet delivered

trades == <<setup, clock, book, ledger>>
results == <<volume, booked>>

NoStop == -1

ResultsInit ==
  /\ StoreInit
  /\ setup \in Setups /\ clock = 0 /\ book = Empty /\ ledger = <<>>
  /\ volume = [p \in Pair |-> 0] /\ booked = Empty
  /\ running = TRUE /\ outbox = {}

-----------------------------------------------------------------------------
(* The profit of an order.                                                 *)

(* The price of a stop order is its stop.  Without one it is a nil pointer.*)
PriceOf(o) == IF o.type = "stop" THEN o.stop ELSE o.price

Abs(n) == IF n < 0 THEN -n ELSE n

Signed(o) == IF o.side = "buy" THEN o.quantity ELSE -o.quantity

(* Mutant: the average of the prices is not weighted.                      *)
AverageMutant(o, average, quantity) == (PriceOf(o) + average) \div 2

Average(o, average, quantity) ==
  (o.quantity * PriceOf(o) + average * Abs(quantity)) \div (o.quantity + Abs(quantity))

Accumulate(sum, o) ==
  LET after == sum.quantity + Signed(o)
  IN  [quantity |-> after,
       long |-> IF o.side = "buy" /\ after >= 0 THEN Average(o, sum.long, sum.quantity)
                ELSE sum.long,
       short |-> IF o.side = "sell" /\ after <= 0 THEN Average(o, sum.short, sum.quantity)
                 ELSE sum.short]

(* "get filled orders before the current order", without it                *)
EarlierIDs(orders, id) ==
  {i \in DOMAIN orders : /\ orders[i].updated <= orders[id].updated
                         /\ orders[i].status = "filled"
                         /\ orders[i].pair = orders[id].pair} \ {id}

(* The position and the average prices after the earlier executions.       *)
Summed(orders, id) ==
  LET earlier == Orders(orders, EarlierIDs(orders, id))
      sum[i \in 0..Len(earlier)] ==
        IF i = 0 THEN [quantity |-> 0, long |-> 0, short |-> 0]
        ELSE Accumulate(sum[i - 1], orders[earlier[i]])
  IN  sum[Len(earlier)]

Closes(o, sum) == sum.quantity * Signed(o) < 0

calculateProfit(orders, id) ==
  LET o == orders[id]
      sum == Summed(orders, id)
  IN  IF ~Closes(o, sum) THEN 0
      ELSE IF o.side = "buy" THEN (sum.short - PriceOf(o)) * o.quantity
      ELSE (PriceOf(o) - sum.long) * o.quantity

(* Whether the computation meets a stop order that has no stop: among the  *)
(* earlier ones, or itself when it closes a position.                      *)
Panics(orders, id) ==
  \/ \E i \in EarlierIDs(orders, id) : PriceOf(orders[i]) = NoStop
  \/ PriceOf(orders[id]) = NoStop /\ Closes(orders[id], Summed(orders, id))

-----------------------------------------------------------------------------
(* The reference: the position of a pair and its cost, after each of the   *)
(* executions.                                                             *)

Trade(held, o) ==
  LET n == Signed(o)
  IN  IF held.quantity * n >= 0
      THEN [held EXCEPT !.quantity = @ + n, !.cost = @ + Abs(n) * PriceOf(o)]
      ELSE LET part == (held.cost \div Abs(held.quantity)) * Abs(n)
           IN  [reversed |-> held.reversed \/ Abs(n) > Abs(held.quantity),
                quantity |-> held.quantity + n, cost |-> held.cost - part]

Held(known, executions, pair) ==
  LET held[i \in 0..Len(executions)] ==
        IF i = 0 THEN [quantity |-> 0, cost |-> 0, reversed |-> FALSE]
        ELSE IF known[executions[i]].pair = pair THEN Trade(held[i - 1], known[executions[i]])
             ELSE held[i - 1]
  IN  held

Place(executions, e) == CHOOSE i \in DOMAIN executions : executions[i] = e

Gain(known, executions, e) ==
  LET o == known[e]
      before == Held(known, executions, o.pair)[Place(executions, e) - 1]
      part == (before.cost \div Abs(before.quantity)) * o.quantity
  IN  IF before.quantity * Signed(o) >= 0 THEN 0
      ELSE IF o.side = "sell" THEN PriceOf(o) * o.quantity - part
           ELSE part - PriceOf(o) * o.quantity

(* An order's profit can be right when its pair's earlier executions are   *)
(* all recorded, none within the same second as another, SQL's keys follow *)
(* them, and no order reversed the position.                               *)
Regular(known, executions, orders, e) ==
  LET pair == {i \in DOMAIN executions : known[executions[i]].pair = known[e].pair}
      upTo == {i \in pair : i <= Place(executions, e)}
      Key(i) == CHOOSE id \in DOMAIN orders : orders[id].exchangeID = executions[i]
  IN  /\ \A i \in upTo : \E id \in DOMAIN orders :
           orders[id].exchangeID = executions[i] /\ orders[id].status = "filled"
      /\ \A i, j \in pair :
           i < j => known[executions[i]].updated \div 2 < known[executions[j]].updated \div 2
      /\ kind = "sql" => \A i, j \in upTo : i < j => Key(i) < Key(j)

-----------------------------------------------------------------------------
(* processTrade of stored orders, one after the other, which is the same   *)
(* in any order, and their publication.  A creation publishes in a         *)
(* goroutine, and a poll publishes an order once: they may be delivered in *)
(* any order.                                                              *)

Process(orders, ids, executions) ==
  LET filled == {id \in ids : orders[id].status = "filled"}
      done == {orders[id].exchangeID : id \in filled}
      Key(e) == CHOOSE i \in filled : orders[i].exchangeID = e
  IN  IF \E i \in filled : Panics(orders, i)
      THEN running' = FALSE /\ UNCHANGED <<results, outbox>>
      ELSE /\ booked' = [e \in DOMAIN booked \cup done |->
                           IF e \in done THEN [profit |-> calculateProfit(orders, Key(e)),
                                               regular |-> Regular(book', executions, orders, e)]
                           ELSE booked[e]]
           /\ volume' = [p \in Pair |-> volume[p] +
                           MapThenSumSet(LAMBDA i : orders[i].price * orders[i].quantity,
                                         {i \in filled : orders[i].pair = p})]
           /\ outbox' = IF ~setup.charted THEN outbox
                        ELSE outbox \cup {[id |-> id, pair |-> orders[id].pair,
                                          updated |-> orders[id].updated] : id \in ids}
           /\ UNCHANGED running

(* What CreateOrder* or Order of the exchange answers.  Binance's Order    *)
(* does not tell an order's stop.                                          *)
Reports(e, asked) ==
  IF setup.venue = "binance" /\ asked THEN [book'[e] EXCEPT !.stop = NoStop] ELSE book'[e]

(* CreateOrderMarket, CreateOrderLimit and the stop order of               *)
(* CreateOrderOCO, which has a limit below its stop.                       *)
Create(e, o) ==
  /\ running /\ e \notin DOMAIN book /\ \A f \in setup.orders : f < e => f \in DOMAIN book
  /\ book' = With(book, e, o)
  /\ ledger' = IF o.status = "filled" THEN Append(ledger, e) ELSE ledger
  /\ CreateOrder(Reports(e, FALSE))
  /\ Process(content', {NewID}, ledger')
  /\ UNCHANGED <<setup, clock>>

NewOrder(e) ==
  \E pair \in setup.pairs, side \in setup.sides, type \in setup.types,
     price \in setup.prices, quantity \in setup.quantities :
    Create(e, [exchangeID |-> e, pair |-> pair, side |-> side, type |-> type, price |-> price,
               quantity |-> quantity, updated |-> clock,
               status |-> IF type = "market" THEN "filled" ELSE "new",
               stop |-> IF type = "stop" THEN price + price \div 2 ELSE NoStop])

(* The exchange executes or cancels an order.                              *)
Settle(e, status) ==
  /\ e \in DOMAIN book /\ book[e].status = "new"
  /\ book' = [book EXCEPT ![e].status = status, ![e].updated = clock]
  /\ ledger' = IF status = "filled" THEN Append(ledger, e) ELSE ledger
  /\ UNCHANGED <<setup, clock, storage, results, running, outbox>>

Tick ==
  /\ \E time \in setup.times : clock < time /\ clock' = time
  /\ UNCHANGED <<setup, book, ledger, storage, results, running, outbox>>

(* updateOrders: all changed orders are stored before the first is         *)
(* processed.                                                              *)
UpdateOrdersOfPoll ==
  LET changed == {id \in DOMAIN content :
                    /\ content[id].status = "new"
                    /\ book[content[id].exchangeID].status # "new"}
  IN  /\ running /\ changed # {}
      /\ UNCHANGED trades
      /\ UpdateOrders([id \in changed |-> Reports(content[id].exchangeID, TRUE)])
      /\ Process(content', changed, ledger)

(* The results are the process's own, as the paper wallet is, and with it  *)
(* its orders: only another exchange's outlive the process.                *)
Again ==
  /\ setup.venue = "binance" /\ Restart
  /\ running' = TRUE /\ outbox' = {}
  /\ volume' = [p \in Pair |-> 0] /\ booked' = Empty
  /\ UNCHANGED trades

Trades ==
  \/ \E e \in setup.orders : NewOrder(e)
  \/ \E e \in setup.orders, status \in setup.ends : Settle(e, status)
  \/ Tick
  \/ UpdateOrdersOfPoll

-----------------------------------------------------------------------------

(* The average cost that each execution meets is a whole number, which div *)
(* computes as the code's numbers do, unless an order reversed a position. *)
WholeAverage(held) ==
  held.reversed \/ held.quantity = 0 \/ held.cost % Abs(held.quantity) = 0

AveragesAreWhole ==
  \A pair \in Pair, i \in 0..(Len(ledger) - 1) : WholeAverage(Held(book, ledger, pair)[i])

(* The profit of each order is what it gained over the average cost of     *)
(* what it closed, for orders that are executed in any order, long and     *)
(* short, by market, limit and stop orders, whenever they are polled.      *)
ProfitIsGain ==
  \A e \in DOMAIN booked :
    (booked[e].regular /\ ~Held(book, ledger, book[e].pair)[Place(ledger, e)].reversed)
      => booked[e].profit = Gain(book, ledger, e)

(* model.Order says of Stop and GroupID: "OCO Orders only".  A stored stop *)
(* order has its stop.                                                     *)
StopIsKept == \A id \in DOMAIN content : content[id].type = "stop" => content[id].stop # NoStop

=============================================================================
