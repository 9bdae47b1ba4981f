------------------------------- MODULE Binance -------------------------------
(***************************************************************************)
(* The bot's requests to Binance about one pair: azbot/exchange/binance.go *)
(* and binance_future.go, two clients of the same shape of which one,      *)
(* chosen at the start, is used.  A request is checked, rounded and sent;  *)
(* the exchange refuses it or accepts it; and its answer may be lost.      *)
(*                                                                         *)
(* A request is an operator that gives the set of its outcomes, of which   *)
(* the caller's action takes one.  The exchange itself is external: what   *)
(* it promises is read off the fields that the code sends and uses.        *)
(*                                                                         *)
(* Amounts are integers, finer than the exchange's step for quantities;    *)
(* prices are multiples of its tick, and so are rounded down by division.  *)
(***************************************************************************)
EXTENDS Integers, SequencesExt, FiniteSetsExt

CONSTANTS
  Price,         \* the prices of the pair
  MinQuantity, MaxQuantity, StepSize,   \* AssetInfo
  PairOptions,   \* how many pairs were given a leverage and a margin type
  Leverage,      \* the leverage of the pair
  Funds,         \* the amount of quote coins at the start
  MaxOrders      \* bound: the orders at the exchange

ASSUME BinanceAssumption ==
  /\ Price \subseteq Nat \ {0}
  /\ StepSize \in Nat \ {0} /\ MinQuantity \in Nat \ {0} /\ MaxQuantity \in Nat
  /\ MinQuantity % StepSize = 0
  /\ PairOptions \in Nat /\ Leverage \in Nat \ {0} /\ Funds \in Nat /\ MaxOrders \in Nat

VARIABLES
  market,       \* the client in use: "spot" or "futures"
  link,         \* how far its creation is
  option,       \* the pair option it is about
  leveraged,    \* the pair options whose leverage the exchange has set
  margined,     \* those whose margin type is the wanted one
  fee,          \* what a purchase costs, in the purchased coin
  price,        \* the last price
  account,      \* the coins at the exchange
  book,         \* the orders at the exchange
  answered      \* for each order the bot was told of, what it was told last

exchange == <<fee, price, account, book>>
client == <<market, link, option, leveraged, margined>>

Side == {"buy", "sell"}
Status == {"new", "partly", "filled", "canceled", "expired"}
Done == {"filled", "canceled", "expired"}
Coin == {"asset", "quote"}

BinanceInit ==
  /\ market \in {"spot", "futures"}
  /\ link = "ping" /\ option = 1 /\ leveraged = {}
  /\ margined \in IF market = "spot" THEN {{}} ELSE SUBSET (1..PairOptions)
  /\ fee \in IF market = "spot" THEN {0, 1} ELSE {0}
  /\ price \in Price
  /\ account = [coin \in Coin |-> [free |-> IF coin = "quote" THEN Funds ELSE 0, lock |-> 0]]
  /\ book = <<>> /\ answered = <<>>

-----------------------------------------------------------------------------
(* NewBinance and NewBinanceFuture.  What an error leaves done stays done. *)

Ping ==
  /\ link = "ping" /\ link' \in {"info", "failed"}
  /\ UNCHANGED <<option, leveraged, margined>>

ExchangeInfo ==
  /\ link = "info"
  /\ link' \in {"failed", IF market = "spot" \/ PairOptions = 0 THEN "ready" ELSE "leverage"}
  /\ UNCHANGED <<option, leveraged, margined>>

ChangeLeverage ==
  /\ link = "leverage"
  /\ \/ link' = "failed" /\ UNCHANGED leveraged
     \/ link' = "margin" /\ leveraged' = leveraged \cup {option}
  /\ UNCHANGED <<option, margined>>

(* Mutant: every error of the exchange is taken to mean that.              *)
ToleratedMutant == TRUE

(* The error ErrNoNeedChangeMarginType is no failure.                      *)
Tolerated == option \in margined

ChangeMarginType ==
  /\ link = "margin"
  /\ \/ link' = "failed" /\ UNCHANGED <<option, margined>>
     \/ /\ margined' \in {margined \cup {option}} \cup (IF Tolerated THEN {margined} ELSE {})
        /\ IF option = PairOptions THEN link' = "ready" /\ UNCHANGED option
           ELSE link' = "leverage" /\ option' = option + 1
  /\ UNCHANGED leveraged

Connect ==
  /\ Ping \/ ExchangeInfo \/ ChangeLeverage \/ ChangeMarginType
  /\ UNCHANGED <<market, exchange, answered>>

-----------------------------------------------------------------------------
(* Reading the account.                                                    *)

(* Account and Position: on the futures market the asset is the pair's     *)
(* position, below zero when it is short, and the quote coins are those of *)
(* the wallet.  No coin of the pair's asset is held as collateral.         *)
Position ==
  LET Sum(coin) == account[coin].free + account[coin].lock
  IN  [asset |-> Sum("asset"), quote |-> Sum("quote")]

(* What the caller's last reading of the account said, and whether it had  *)
(* to do with what the exchange saw when it was asked to trade.            *)
View == [account |-> account, price |-> price]

-----------------------------------------------------------------------------
(* Requests.                                                               *)

validate(quantity) == quantity >= MinQuantity /\ quantity <= MaxQuantity

(* AmountToLotSize                                                         *)
formatQuantity(quantity) == StepSize * (quantity \div StepSize)

(* The exchange's own check.                                               *)
Filtered(quantity) == ~validate(quantity) \/ quantity % StepSize # 0

Affordable(side, quantity, cost) ==
  IF market = "futures"
  THEN LET held == account["asset"].free + (IF side = "buy" THEN quantity ELSE -quantity)
       IN  held * price <= Leverage * account["quote"].free
           /\ -held * price <= Leverage * account["quote"].free
  ELSE IF side = "buy" THEN cost <= account["quote"].free
       ELSE quantity <= account["asset"].free

(* The account after an execution of funds that are free, or reserved.     *)
(* The gain and loss of futures is left out.                               *)
Settled(side, quantity, cost, from) ==
  IF market = "futures"
  THEN [account EXCEPT !["asset"].free = @ + (IF side = "buy" THEN quantity ELSE -quantity)]
  ELSE IF side = "buy"
       THEN [account EXCEPT !["quote"][from] = @ - cost,
                            !["asset"].free = @ + quantity - (IF quantity > fee THEN fee ELSE 0)]
       ELSE [account EXCEPT !["asset"][from] = @ - quantity, !["quote"].free = @ + cost]

Reserved(side, quantity, limit) ==
  IF market = "futures" THEN account
  ELSE IF side = "buy"
       THEN [account EXCEPT !["quote"] = [free |-> @.free - quantity * limit,
                                          lock |-> @.lock + quantity * limit]]
       ELSE [account EXCEPT !["asset"] = [free |-> @.free - quantity,
                                          lock |-> @.lock + quantity]]

Order(by, side, type, status, quantity, executed, cost, limit, group) ==
  [by |-> by, side |-> side, type |-> type, status |-> status, quantity |-> quantity,
   executed |-> executed, cost |-> cost, limit |-> limit, group |-> group]

Outcome(coins, orders, answer) == [account |-> coins, book |-> orders, answer |-> answer]

Unaccepted(answer) == {Outcome(account, book, answer)}

(* An accepted request, whose answer reaches the bot or does not.          *)
Accepted(coins, orders) ==
  {Outcome(coins, book \o orders, answer) : answer \in {"ok", "lost"}}

(* What becomes of a request: no connection, an error of the exchange, or  *)
(* acceptance.                                                             *)
Sent(quantity, affordable, accepted) ==
  Unaccepted("failed")
    \cup (IF Filtered(quantity) THEN Unaccepted("filtered")
          ELSE IF ~affordable THEN Unaccepted("refused") ELSE accepted)

(* The exchange executes a market order at once, or finds nobody to trade  *)
(* with.                                                                   *)
Market(by, side, quantity) ==
  Accepted(Settled(side, quantity, quantity * price, "free"),
           <<Order(by, side, "market", "filled", quantity, quantity, quantity * price, 0, 0)>>)
    \cup Accepted(account, <<Order(by, side, "market", "expired", quantity, 0, 0, 0, 0)>>)

CreateOrderMarket(by, side, quantity) ==
  LET q == formatQuantity(quantity)
  IN  IF ~validate(quantity) THEN Unaccepted("invalid")
      ELSE Sent(q, Affordable(side, q, q * price), Market(by, side, q))

(* The amount of quote coins is checked, and rounded, as if it were one of *)
(* the asset.  There are none on the futures market.                       *)
CreateOrderMarketQuote(by, side, amount) ==
  LET q == StepSize * ((formatQuantity(amount) \div price) \div StepSize)
  IN  IF market = "futures" THEN Unaccepted("panic")
      ELSE IF ~validate(amount) THEN Unaccepted("invalid")
      ELSE Sent(q, Affordable(side, q, q * price), Market(by, side, q))

Resting(by, side, type, quantity, limit) ==
  Accepted(Reserved(side, quantity, limit),
           <<Order(by, side, type, "new", quantity, 0, 0, limit, 0)>>)

CreateOrderLimit(by, side, quantity, limit) ==
  LET q == formatQuantity(quantity)
  IN  IF ~validate(quantity) THEN Unaccepted("invalid")
      ELSE Sent(q, Affordable(side, q, q * limit), Resting(by, side, "limit", q, limit))

CreateOrderStop(by, quantity, limit) ==
  LET q == formatQuantity(quantity)
  IN  IF ~validate(quantity) THEN Unaccepted("invalid")
      ELSE Sent(q, Affordable("sell", q, 0), Resting(by, "sell", "stop", q, limit))

(* Two orders of one group, of which the exchange executes one, for funds  *)
(* that are reserved once.                                                 *)
CreateOrderOCO(by, side, quantity, limit, stopLimit) ==
  LET q == formatQuantity(quantity)
      Leg(type, at) == Order(by, side, type, "new", q, 0, 0, at, Len(book) + 1)
  IN  IF market = "futures" THEN Unaccepted("panic")
      ELSE IF ~validate(quantity) THEN Unaccepted("invalid")
      ELSE Sent(q, Affordable(side, q, q * limit),
                Accepted(Reserved(side, q, limit),
                         <<Leg("stop", stopLimit), Leg("limit", limit)>>))

-----------------------------------------------------------------------------
(* What the bot is told.                                                   *)

(* Mutant: the price and the quantity of the request.                      *)
newOrderMutant(o) == [status |-> o.status, price |-> o.limit, quantity |-> o.quantity]

(* newOrder and newFutureOrder: the executed quantity at its average       *)
(* price, if there is one.                                                 *)
newOrder(o) ==
  IF o.cost > 0 /\ o.executed > 0
  THEN [status |-> o.status, price |-> o.cost \div o.executed, quantity |-> o.executed]
  ELSE [status |-> o.status, price |-> o.limit, quantity |-> o.quantity]

NaN == -1

(* The answer to a market order is its average price, and not a number if  *)
(* nothing was executed; that to others is the request.                    *)
Created(o) ==
  IF o.type = "market"
  THEN [status |-> o.status, quantity |-> o.executed,
        price |-> IF o.executed = 0 THEN NaN ELSE o.cost \div o.executed]
  ELSE [status |-> o.status, price |-> o.limit, quantity |-> o.quantity]

(* The bot's part of an outcome.                                           *)
Take(outcome) ==
  /\ account' = outcome.account /\ book' = outcome.book
  /\ answered' =
       IF outcome.answer # "ok" THEN answered
       ELSE [i \in DOMAIN answered \cup (DOMAIN outcome.book \ DOMAIN book) |->
               IF i \in DOMAIN book THEN answered[i] ELSE Created(outcome.book[i])]
  /\ UNCHANGED <<fee, price>>

(* Orders and Order                                                        *)
Query(i) ==
  /\ i \in DOMAIN answered /\ answered[i].status \notin Done
  /\ answered' = [answered EXCEPT ![i] = newOrder(book[i])]
  /\ UNCHANGED exchange

-----------------------------------------------------------------------------
(* The exchange.                                                           *)

Open(i) == book[i].status \in {"new", "partly"}

Group(i) == {j \in DOMAIN book : j # i /\ book[i].group # 0 /\ book[j].group = book[i].group}

(* A price within a period.                                                *)
PriceMoves == \E p \in Price \ {price} : price' = p /\ UNCHANGED <<fee, account, book, answered>>

(* An order's execution, whole or in part, which ends the rest of its      *)
(* group.                                                                  *)
Execute(i, quantity) ==
  LET o == book[i]
      done == o.executed + quantity
  IN  /\ Open(i) /\ quantity > 0 /\ done <= o.quantity
      /\ account' = Settled(o.side, quantity, quantity * o.limit, "lock")
      /\ book' = [j \in DOMAIN book |->
                    IF j = i THEN [o EXCEPT !.executed = done, !.cost = @ + quantity * o.limit,
                                            !.status = IF done = o.quantity THEN "filled"
                                                       ELSE "partly"]
                    ELSE IF j \in Group(i) THEN [book[j] EXCEPT !.status = "expired"]
                    ELSE book[j]]
      /\ UNCHANGED <<fee, price, answered>>

(* The end of an order and of its group, by the exchange or by Cancel.     *)
End(i, status) ==
  LET o == book[i]
      coin == IF o.side = "buy" THEN "quote" ELSE "asset"
      rest == (o.quantity - o.executed) * (IF o.side = "buy" THEN o.limit ELSE 1)
      back == IF market = "futures" THEN 0 ELSE rest
  IN  /\ Open(i)
      /\ account' = [account EXCEPT ![coin] = [free |-> @.free + back, lock |-> @.lock - back]]
      /\ book' = [j \in DOMAIN book |-> IF j = i \/ (j \in Group(i) /\ Open(j))
                                        THEN [book[j] EXCEPT !.status = status] ELSE book[j]]

(* The bot is told whether Cancel succeeded, and of the order when it asks.*)
Cancel(i) == i \in DOMAIN answered /\ End(i, "canceled") /\ UNCHANGED <<fee, price, answered>>

Expire(i) == End(i, "expired") /\ UNCHANGED <<fee, price, answered>>

-----------------------------------------------------------------------------
(* Properties.                                                             *)

(* A final order that was executed, in part or as a whole, is reported     *)
(* with what was executed at its cost: an order cancelled after a part was *)
(* executed is not reported with the quantity that was asked for.          *)
FinalIsReported ==
  \A i \in DOMAIN answered :
    (answered[i].status \in Done /\ book[i].executed > 0) =>
      answered[i].quantity = book[i].executed
        /\ answered[i].price * answered[i].quantity = book[i].cost

(* The bot trades on futures only with every pair option in force, however *)
(* many of the calls of its creation failed or were unnecessary.           *)
ReadyIsConfigured ==
  (link = "ready" /\ market = "futures") =>
    leveraged = 1..PairOptions /\ margined = 1..PairOptions

=============================================================================
