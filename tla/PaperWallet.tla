---------------------------- MODULE PaperWallet ----------------------------
(***************************************************************************)
(* The simulated exchange of backtests and dry runs:                       *)
(* azbot/exchange/paperwallet.go.                                          *)
(*                                                                         *)
(* Every operation takes the wallet's mutex and is one action, except      *)
(* OnCandle: Order() and Account() read without the mutex, so its loop     *)
(* over the orders is visible in between, and each turn of the loop is a   *)
(* step (OnCandleBegin, then one step per order, then OnCandleEnd).  Only  *)
(* one OnCandle runs at a time and nothing else that needs the mutex runs  *)
(* before it ends.                                                         *)
(*                                                                         *)
(* Prices and quantities are integers, in ticks and lots.  What only feeds *)
(* log lines or the final report is left out: avgLongPrice, fistCandle,    *)
(* assetValues, equityValues and the timestamps.  The value equityValues   *)
(* records at each complete candle is the operator Equity.                 *)
(***************************************************************************)
EXTENDS Integers, Sequences, FiniteSetsExt

CONSTANTS
  Coin,          \* the names in the assets map
  BaseCoin,      \* the coin the wallet is valued in
  Pair,          \* the trading pairs
  AssetOf,       \* SplitAssetQuote's first result, a function of the pair
  QuoteOf,       \* SplitAssetQuote's second result
  Candle,        \* the candles the feed may deliver
  Sizes,         \* the quantities clients ask for
  Prices,        \* the limit and stop prices clients ask for
  Ops,           \* the requests clients make: <<method, side>>
  Discipline,    \* how clients use short positions, see Disciplined
  InitialFree,   \* WithPaperAsset
  MaxOrders,     \* bound: orders per behaviour
  MaxCandles     \* bound: candles per behaviour

Side == {"BUY", "SELL"}
Type == {"LIMIT", "LIMIT_MAKER", "MARKET", "STOP_LOSS", "STOP_LOSS_LIMIT"}
Status == {"NEW", "FILLED", "CANCELED"}

CandleRecord == [pair : Pair, low : Nat, high : Nat, close : Nat]

Order == [id : Nat, group : Nat, pair : Pair, side : Side, type : Type,
          status : Status, price : Nat, stop : Nat, qty : Nat]

ASSUME MarketAssumption ==
  /\ AssetOf \in [Pair -> Coin] /\ QuoteOf \in [Pair -> Coin]
  /\ \A p \in Pair : AssetOf[p] # QuoteOf[p]
  /\ BaseCoin \in Coin

ASSUME InputAssumption ==
  /\ Candle \subseteq CandleRecord /\ Candle # {}
  /\ Sizes \subseteq Nat /\ Prices \subseteq Nat
  /\ Discipline \in {"long", "short", "any"}
  /\ MaxOrders \in Nat /\ MaxCandles \in Nat

ASSUME FundsAssumption == InitialFree \in [Coin -> Nat]

VARIABLES
  orders,      \* the wallet's order list, oldest first
  counter,     \* the last identifier handed out by ID()
  free, lock,  \* assets[c].Free and assets[c].Lock
  avgShort,    \* avgShortPrice
  volume,      \* value traded per pair
  lastClose,   \* lastCandle[p].Close, 0 (Go's zero value) before the first
  scan,        \* OnCandle's loop: the order it looks at (0: not running)
  candles,     \* how many candles were delivered (bounds the behaviours)
  executed     \* history: the identifiers of the orders that ever executed

ledger == <<free, lock, avgShort, volume>>
vars == <<orders, counter, ledger, lastClose, scan, candles, executed>>

Idle == [pos |-> 0, candle |-> CHOOSE c \in Candle : TRUE]

TypeOK ==
  /\ orders \in Seq(Order)
  /\ counter \in Nat
  /\ free \in [Coin -> Int] /\ lock \in [Coin -> Int]
  /\ avgShort \in [Pair -> Int] /\ volume \in [Pair -> Nat]
  /\ lastClose \in [Pair -> Nat]
  /\ scan \in [pos : Nat, candle : Candle]
  /\ candles \in Nat
  /\ executed \subseteq Nat

Init ==
  /\ orders = <<>> /\ counter = 0
  /\ free = InitialFree /\ lock = [c \in Coin |-> 0]
  /\ avgShort = [p \in Pair |-> 0] /\ volume = [p \in Pair |-> 0]
  /\ lastClose = [p \in Pair |-> 0]
  /\ scan = Idle /\ candles = 0
  /\ executed = {}

-----------------------------------------------------------------------------
(* validateFunds, updateAveragePrice.                                      *)

MinOf(a, b) == IF a <= b THEN a ELSE b
MaxOf(a, b) == IF a >= b THEN a ELSE b

Asset(p) == free[AssetOf[p]]
Quote(p) == free[QuoteOf[p]]

(* What closing the whole short position of p at this price would pay.     *)
LiquidShortMutant(p, value) ==
  IF Asset(p) < 0 THEN (-Asset(p)) * avgShort[p] - (-Asset(p)) * value ELSE 0

LiquidShort(p, value) ==
  IF Asset(p) < 0 THEN 2 * (-Asset(p)) * avgShort[p] - (-Asset(p)) * value ELSE 0

(* Mutant: the check forgets what is already set aside.                    *)
HasFundsWithLocked(side, p, amount, value) ==
  Quote(p) + lock[QuoteOf[p]] + MaxOf(Asset(p), 0) * value >= amount * value

HasFunds(side, p, amount, value) ==
  IF side = "SELL"
    THEN Quote(p) + MaxOf(Asset(p), 0) * value >= amount * value
    ELSE Quote(p) + LiquidShort(p, value) >= (amount + MinOf(Asset(p), 0)) * value

LockedAsset(side, p, amount) ==
  IF side = "SELL" THEN MinOf(MaxOf(Asset(p), 0), amount)
                   ELSE MinOf(-MinOf(Asset(p), 0), amount)

LockedQuote(side, p, amount, value) ==
  LET rest == (amount - LockedAsset(side, p, amount)) * value
  IN  IF side = "SELL" THEN rest ELSE rest - LiquidShort(p, value)

(* Selling takes the locked asset out of the position, buying returns it.  *)
AssetAfterLock(side, p, amount) ==
  IF side = "SELL" THEN Asset(p) - LockedAsset(side, p, amount)
                   ELSE Asset(p) + LockedAsset(side, p, amount)

(* The part of updateAveragePrice that is read again: the mean price of    *)
(* the short position, held being the free asset when it is called.        *)
AvgShortAfter(side, p, amount, value, held) ==
  IF side = "BUY" THEN avgShort[p]
  ELSE IF held = 0 \/ (held > 0 /\ amount > held) THEN value
  ELSE IF held < 0 THEN (avgShort[p] * (-held) + amount * value) \div (amount - held)
  ELSE avgShort[p]

(* validateFunds with fill = false: set the funds of a pending order aside *)
Reserve(side, p, amount, value) ==
  /\ HasFunds(side, p, amount, value)
  /\ free' = [free EXCEPT ![AssetOf[p]] = AssetAfterLock(side, p, amount),
                          ![QuoteOf[p]] = @ - LockedQuote(side, p, amount, value)]
  /\ lock' = [lock EXCEPT ![AssetOf[p]] = @ + LockedAsset(side, p, amount),
                          ![QuoteOf[p]] = @ + LockedQuote(side, p, amount, value)]
  /\ UNCHANGED <<avgShort, volume>>

(* What an immediate sale still takes from the asset, and pays in quote:   *)
(* it enters a short position or liquidates the long one.                  *)
EntersShortMutant(p, amount, value) == LockedQuote("SELL", p, amount, value) >= 0

EntersShort(p, amount, value) == LockedQuote("SELL", p, amount, value) > 0

FreeAfterTrade(side, p, amount, value) ==
  LET asset == AssetAfterLock(side, p, amount)
      quote == Quote(p) - LockedQuote(side, p, amount, value)
      bought == amount - LockedAsset(side, p, amount)
      short == EntersShort(p, amount, value)
  IN  IF side = "SELL"
        THEN [free EXCEPT ![AssetOf[p]] = IF short THEN asset - amount ELSE asset,
                          ![QuoteOf[p]] = IF short THEN quote ELSE quote + amount * value]
        ELSE [free EXCEPT ![AssetOf[p]] = asset + bought, ![QuoteOf[p]] = quote]

(* validateFunds with fill = true: a market order trades at once.          *)
Trade(side, p, amount, value) ==
  /\ HasFunds(side, p, amount, value)
  /\ free' = FreeAfterTrade(side, p, amount, value)
  /\ avgShort' = [avgShort EXCEPT ![p] =
                    AvgShortAfter(side, p, amount, value, AssetAfterLock(side, p, amount))]
  /\ volume' = [volume EXCEPT ![p] = @ + value * amount]
  /\ UNCHANGED lock

-----------------------------------------------------------------------------
(* The requests of clients: the order controller, strategies, commands.    *)

(* How clients use the wallet.  "long": nobody sells more than is free;    *)
(* "short": a purchase against a short position closes all of it.          *)
Disciplined(side, p, amount) ==
  /\ Discipline = "long" /\ side = "SELL" => amount <= Asset(p)
  /\ Discipline = "short" /\ side = "BUY" /\ Asset(p) < 0 => amount >= -Asset(p)

(* The mutex is free and the request is one the clients of this run make.  *)
MayRequest(method, side, p, amount) ==
  /\ scan.pos = 0
  /\ <<method, side>> \in Ops
  /\ Len(orders) < MaxOrders
  /\ amount # 0                       \* ErrInvalidQuantity
  /\ Disciplined(side, p, amount)

NewOrder(id, group, p, side, type, price, stop, amount) ==
  [id |-> id, group |-> group, pair |-> p, side |-> side, type |-> type,
   status |-> IF type = "MARKET" THEN "FILLED" ELSE "NEW",
   price |-> price, stop |-> stop, qty |-> amount]

(* The three identifiers are drawn in the order the code calls ID().       *)
CreateOrderOCO(side, p, amount, price, stop, stopLimit) ==
  LET group == counter + 1
      limitMaker == NewOrder(counter + 2, group, p, side, "LIMIT_MAKER", price, 0, amount)
      stopOrder == NewOrder(counter + 3, group, p, side, "STOP_LOSS", stopLimit, stop, amount)
  IN  /\ MayRequest("oco", side, p, amount)
      /\ Reserve(side, p, amount, price)
      /\ counter' = counter + 3
      /\ orders' = orders \o <<limitMaker, stopOrder>>
      /\ UNCHANGED <<lastClose, scan, candles, executed>>

CreateOrderLimit(side, p, amount, limit) ==
  /\ MayRequest("limit", side, p, amount)
  /\ Reserve(side, p, amount, limit)
  /\ counter' = counter + 1
  /\ orders' = Append(orders, NewOrder(counter + 1, 0, p, side, "LIMIT", limit, 0, amount))
  /\ UNCHANGED <<lastClose, scan, candles, executed>>

CreateOrderStop(p, amount, limit) ==
  /\ MayRequest("stop", "SELL", p, amount)
  /\ Reserve("SELL", p, amount, limit)
  /\ counter' = counter + 1
  /\ orders' = Append(orders, NewOrder(counter + 1, 0, p, "SELL", "STOP_LOSS_LIMIT",
                                       limit, limit, amount))
  /\ UNCHANGED <<lastClose, scan, candles, executed>>

createOrderMarket(side, p, amount) ==
  /\ Trade(side, p, amount, lastClose[p])
  /\ counter' = counter + 1
  /\ orders' = Append(orders, NewOrder(counter + 1, 0, p, side, "MARKET",
                                       lastClose[p], 0, amount))
  /\ executed' = executed \cup {counter + 1}
  /\ UNCHANGED <<lastClose, scan, candles>>

CreateOrderMarket(side, p, amount) ==
  /\ MayRequest("market", side, p, amount)
  /\ createOrderMarket(side, p, amount)

(* The quantity is rounded down to the lot.  Before the first candle the   *)
(* code divides by a zero price and works on with infinities and NaN,      *)
(* which integers have no value for: the model begins after it.            *)
CreateOrderMarketQuote(side, p, quoteQuantity) ==
  LET amount == quoteQuantity \div lastClose[p]
  IN  /\ lastClose[p] > 0
      /\ MayRequest("marketQuote", side, p, amount)
      /\ createOrderMarket(side, p, amount)

(* Whatever the order's status is, and without touching the funds.         *)
Cancel(id) ==
  /\ scan.pos = 0
  /\ <<"cancel", "BUY">> \in Ops
  /\ \E i \in DOMAIN orders : orders[i].id = id
  /\ orders' = [i \in DOMAIN orders |->
                  IF orders[i].id = id THEN [orders[i] EXCEPT !.status = "CANCELED"]
                                       ELSE orders[i]]
  /\ UNCHANGED <<counter, ledger, lastClose, scan, candles, executed>>

-----------------------------------------------------------------------------
(* OnCandle.                                                               *)

OnCandleBegin(c) ==
  /\ scan.pos = 0 /\ candles < MaxCandles
  /\ scan' = [pos |-> 1, candle |-> c]
  /\ lastClose' = [lastClose EXCEPT ![c.pair] = c.close]
  /\ candles' = candles + 1
  /\ UNCHANGED <<orders, counter, ledger, executed>>

ConsideredMutant(i) == orders[i].pair = scan.candle.pair

Considered(i) == orders[i].pair = scan.candle.pair /\ orders[i].status = "NEW"

(* A purchase executes once the price closed at or under its own, and both *)
(* its type and its stop are ignored.                                      *)
BuyTriggered(o) == o.side = "BUY" /\ o.price >= scan.candle.close

LimitTriggered(o) == o.type \in {"LIMIT", "LIMIT_MAKER"} /\ scan.candle.high >= o.price
StopTriggered(o) == o.type \in {"STOP_LOSS", "STOP_LOSS_LIMIT"} /\ scan.candle.low <= o.stop
SellTriggered(o) == o.side = "SELL" /\ (LimitTriggered(o) \/ StopTriggered(o))

(* What an order trades at when a candle or the market executes it.        *)
ExecutionPrice(o) ==
  IF o.side = "SELL" /\ o.type \in {"STOP_LOSS", "STOP_LOSS_LIMIT"} THEN o.stop ELSE o.price

Sibling(i, j) ==
  /\ orders[i].group # 0 /\ orders[j].group = orders[i].group
  /\ orders[j].id # orders[i].id

(* Mutants: the sibling stays pending; the search finds the order itself.  *)
FirstSiblingMutant(i, j) == FALSE
FirstSiblingSelf(i, j) == orders[i].group # 0 /\ i = j

(* The search for a sibling stops at the first.                            *)
FirstSibling(i, j) == Sibling(i, j) /\ \A k \in 1..(j - 1) : ~Sibling(i, k)

NextOrder == scan' = [scan EXCEPT !.pos = @ + 1]

SkipOrder ==
  /\ scan.pos \in DOMAIN orders
  /\ LET o == orders[scan.pos]
     IN  ~Considered(scan.pos) \/ ~(BuyTriggered(o) \/ SellTriggered(o))
  /\ NextOrder
  /\ UNCHANGED <<orders, counter, ledger, lastClose, candles, executed>>

(* Mutant: the volume is signed.                                           *)
RecordExecutionSigned(o, price) ==
  /\ avgShort' = [avgShort EXCEPT ![o.pair] =
                    AvgShortAfter(o.side, o.pair, o.qty, price, Asset(o.pair))]
  /\ volume' = [volume EXCEPT ![o.pair] =
                  IF o.side = "SELL" THEN @ - price * o.qty ELSE @ + price * o.qty]
  /\ executed' = executed \cup {o.id}

(* What both kinds of execution record: the mean price is updated before   *)
(* the free asset changes.                                                 *)
RecordExecution(o, price) ==
  /\ avgShort' = [avgShort EXCEPT ![o.pair] =
                    AvgShortAfter(o.side, o.pair, o.qty, price, Asset(o.pair))]
  /\ volume' = [volume EXCEPT ![o.pair] = @ + price * o.qty]
  /\ executed' = executed \cup {o.id}

ExecuteBuy ==
  /\ scan.pos \in DOMAIN orders
  /\ LET i == scan.pos
         o == orders[i]
     IN  /\ Considered(i) /\ BuyTriggered(o)
         /\ orders' = [orders EXCEPT ![i].status = "FILLED"]
         /\ RecordExecution(o, o.price)
         /\ free' = [free EXCEPT ![AssetOf[o.pair]] = @ + o.qty]
         /\ lock' = [lock EXCEPT ![QuoteOf[o.pair]] = @ - o.price * o.qty]
  /\ NextOrder
  /\ UNCHANGED <<counter, lastClose, candles>>

StatusAfterSell(i, j) ==
  IF j = i THEN "FILLED" ELSE IF FirstSibling(i, j) THEN "CANCELED" ELSE orders[j].status

ExecuteSell ==
  /\ scan.pos \in DOMAIN orders
  /\ LET i == scan.pos
         o == orders[i]
     IN  /\ Considered(i) /\ SellTriggered(o)
         /\ orders' = [j \in DOMAIN orders |->
                         [orders[j] EXCEPT !.status = StatusAfterSell(i, j)]]
         /\ RecordExecution(o, ExecutionPrice(o))
         /\ lock' = [lock EXCEPT ![AssetOf[o.pair]] = @ - o.qty]
         /\ free' = [free EXCEPT ![QuoteOf[o.pair]] = @ + o.qty * ExecutionPrice(o)]
  /\ NextOrder
  /\ UNCHANGED <<counter, lastClose, candles>>

OnCandleEnd ==
  /\ scan.pos = Len(orders) + 1
  /\ scan' = Idle
  /\ UNCHANGED <<orders, counter, ledger, lastClose, candles, executed>>

OnCandleStep == SkipOrder \/ ExecuteBuy \/ ExecuteSell \/ OnCandleEnd

Request ==
  \E side \in Side, p \in Pair, amount \in Sizes :
    \/ \E price, stop \in Prices : CreateOrderOCO(side, p, amount, price, stop, stop)
    \/ \E limit \in Prices : CreateOrderLimit(side, p, amount, limit)
    \/ CreateOrderMarket(side, p, amount)

RequestStop == \E p \in Pair, amount \in Sizes, limit \in Prices :
                 CreateOrderStop(p, amount, limit)

RequestQuote == \E side \in Side, p \in Pair, quoteQuantity \in Prices :
                  CreateOrderMarketQuote(side, p, quoteQuantity)

RequestCancel == \E id \in 1..counter : Cancel(id)

Deliver == \E c \in Candle : OnCandleBegin(c)

Next == Request \/ RequestStop \/ RequestQuote \/ RequestCancel \/ Deliver \/ OnCandleStep

Spec == Init /\ [][Next]_vars

-----------------------------------------------------------------------------
(* Properties.                                                             *)

(* Nobody spends the same funds twice: whatever orders are pending, no     *)
(* balance of a wallet that is used without short positions goes below     *)
(* zero, and with short positions the quote coins still do not             *)
(* (validateFunds is the only guard, and it is checked at creation only).  *)
NoOverdraft ==
  /\ Discipline = "long" => \A c \in Coin : free[c] >= 0
  /\ Discipline = "short" => \A p \in Pair : Quote(p) >= 0

(* At most one leg of a sell OCO ever executes: the leg a candle triggers  *)
(* cancels the other one in the same turn of OnCandle's loop, also when    *)
(* that candle would trigger both.                                         *)
OCOExclusive ==
  \A i, j \in DOMAIN orders :
    Sibling(i, j) /\ orders[i].side = "SELL"
      => ~(orders[i].id \in executed /\ orders[j].id \in executed)

(* An order that was executed or cancelled is never pending again, and an   *)
(* order that was cancelled before it executed never executes: OnCandle    *)
(* looks at the status again in each turn of its loop.                     *)
NoRevival ==
  [][\A i \in DOMAIN orders :
       orders[i].status # "NEW" =>
         /\ orders'[i].status # "NEW"
         /\ orders[i].id \in executed' => orders[i].id \in executed]_vars

(* The orders that hold funds in the lock balances: neither they nor the   *)
(* other leg of their group executed.  A group's funds are set aside once, *)
(* so it counts once, through its limit leg.  A cancelled order is among   *)
(* them: Cancel releases nothing.                                          *)
Holding == {i \in DOMAIN orders :
              /\ orders[i].type \notin {"MARKET", "STOP_LOSS"}
              /\ orders[i].id \notin executed
              /\ \A j \in DOMAIN orders : Sibling(i, j) => orders[j].id \notin executed}

(* What order o set aside of coin c.                                       *)
HeldIn(c, o) ==
  IF o.side = "SELL" THEN IF AssetOf[o.pair] = c THEN o.qty ELSE 0
                     ELSE IF QuoteOf[o.pair] = c THEN o.price * o.qty ELSE 0

(* Without short positions, what is locked of each coin is exactly what    *)
(* the orders that never executed set aside: executing an order, or one    *)
(* leg of a group of two, releases its reservation once and entirely.      *)
LockIsReservations ==
  Discipline = "long" =>
    \A c \in Coin :
      lock[c] = SumFunctionOnSet([i \in DOMAIN orders |-> HeldIn(c, orders[i])], Holding)

(* What an executed order o added to coin c.                               *)
Moved(c, o) ==
  LET sign == IF o.side = "SELL" THEN 1 ELSE -1
  IN  (IF QuoteOf[o.pair] = c THEN sign * o.qty * ExecutionPrice(o) ELSE 0)
        - (IF AssetOf[o.pair] = c THEN sign * o.qty ELSE 0)

Executions == {i \in DOMAIN orders : orders[i].id \in executed}

(* Without short positions, the free and locked amounts of each coin add   *)
(* up to the initial amount and what the executed orders exchanged, each   *)
(* of them once: no path of creation, execution or cancellation creates    *)
(* or destroys money.                                                      *)
Conserved ==
  Discipline = "long" =>
    \A c \in Coin :
      free[c] + lock[c] = InitialFree[c]
        + SumFunctionOnSet([i \in DOMAIN orders |-> Moved(c, orders[i])], Executions)

(* The value of a coin, as OnCandle adds it up: a position at its last     *)
(* close, a short one at what closing it would pay.                        *)
ValueIn(p, amount) ==
  IF amount < 0 THEN 2 * (-amount) * avgShort[p] - (-amount) * lastClose[p]
                ELSE amount * lastClose[p]

(* What the pairs' positions are worth, and with the base coin the value   *)
(* of the wallet that OnCandle records in equityValues.                    *)
Worth == [p \in Pair |-> ValueIn(p, free[AssetOf[p]] + lock[AssetOf[p]])]

Equity == SumFunctionOnSet(Worth, {p \in Pair : QuoteOf[p] = BaseCoin})
            + free[BaseCoin] + lock[BaseCoin]

(* What rounding the mean price of the short position down may cost.       *)
Rounding(p) == 2 * MaxOf(-free[AssetOf[p]], 0)

MarketOrderOn(p) ==
  LET n == Len(orders')
  IN  n = Len(orders) + 1 /\ orders'[n].type = "MARKET" /\ orders'[n].pair = p

(* Trading at the market price neither creates nor destroys value: a       *)
(* market order leaves the equity as it was, up to the rounding of the     *)
(* mean price, when it opens, extends or reverses a position, long or      *)
(* short, as long as clients close short positions entirely.               *)
MarketIsNeutral ==
  [][\A p \in Pair :
       MarketOrderOn(p) => Equity' - Equity \in (-Rounding(p)')..0]_vars

(* Once a leg of a group executed, no order of the same group is pending.  *)
GroupIsCancelled ==
  \A i, j \in DOMAIN orders :
    Sibling(i, j) /\ orders[i].id \in executed => orders[j].status # "NEW"

=============================================================================
