------------------------- MODULE PaperWalletProofs -------------------------
(***************************************************************************)
(* What holds of the paper wallet for every market, every set of candles   *)
(* and requests and every bound: its types, the identity of orders and     *)
(* groups, that a sell OCO executes at most one leg, that no order         *)
(* executes after it left NEW, and that a wallet used without short        *)
(* positions is never overdrawn, creates and destroys no money, and locks  *)
(* what the orders that never executed set aside, and that a market order  *)
(* leaves the value of the wallet as it was.                               *)
(***************************************************************************)
EXTENDS PaperWallet, DataTheorems, TLAPS

(* The product of naturals, which the solvers do not type by themselves.   *)
LEMMA NatProduct == ASSUME NEW a \in Nat, NEW b \in Nat PROVE a * b \in Nat
  OBVIOUS

(* The quotient of a mean price is an integer.                             *)
LEMMA IntQuotient == ASSUME NEW a \in Int, NEW b \in Nat, b > 0 PROVE a \div b \in Int
  OBVIOUS

(* Prices and quantities of requests are naturals, pairs have their coins. *)
LEMMA Inputs ==
  /\ \A p \in Pair : AssetOf[p] \in Coin /\ QuoteOf[p] \in Coin /\ AssetOf[p] # QuoteOf[p]
  /\ \A c \in Candle : /\ c.pair \in Pair
                       /\ c.low \in Nat /\ c.high \in Nat /\ c.close \in Nat
  /\ Idle \in [pos : Nat, candle : Candle]
  BY MarketAssumption, InputAssumption DEF CandleRecord, Idle

(* The mean short price stays an integer: it only divides by a quantity    *)
(* that is positive when it divides.                                       *)
LEMMA AvgShortType ==
  ASSUME TypeOK, NEW side \in Side, NEW p \in Pair, NEW amount \in Nat,
         NEW value \in Nat, NEW held \in Int
  PROVE  AvgShortAfter(side, p, amount, value, held) \in Int
  <1>1. avgShort[p] \in Int
    BY DEF TypeOK
  <1>2. CASE held < 0
    <2>1. amount - held \in Nat /\ amount - held > 0
      BY <1>2
    <2>2. avgShort[p] * (-held) + amount * value \in Int
      BY <1>1
    <2>. QED
      BY <1>1, <2>1, <2>2, IntQuotient DEF AvgShortAfter
  <1>3. CASE ~(held < 0)
    BY <1>1, <1>3 DEF AvgShortAfter
  <1>. QED
    BY <1>2, <1>3

(* What validateFunds computes is made of integers.                        *)
LEMMA FundsTypes ==
  ASSUME TypeOK, NEW side \in Side, NEW p \in Pair, NEW amount \in Nat, NEW value \in Nat
  PROVE  /\ Asset(p) \in Int /\ Quote(p) \in Int
         /\ LiquidShort(p, value) \in Int
         /\ LockedAsset(side, p, amount) \in Int
         /\ LockedQuote(side, p, amount, value) \in Int
         /\ AssetAfterLock(side, p, amount) \in Int
  <1>1. Asset(p) \in Int /\ Quote(p) \in Int /\ avgShort[p] \in Int
    BY Inputs DEF TypeOK, Asset, Quote
  <1>2. LiquidShort(p, value) \in Int
    BY <1>1 DEF LiquidShort
  <1>3. LockedAsset(side, p, amount) \in Int
    BY <1>1 DEF LockedAsset, MinOf, MaxOf
  <1>4. LockedQuote(side, p, amount, value) \in Int
    BY <1>2, <1>3 DEF LockedQuote
  <1>. QED
    BY <1>1, <1>2, <1>3, <1>4 DEF AssetAfterLock

(* Changing the balances of two coins keeps their type.                    *)
LEMMA TwoBalances ==
  ASSUME NEW f \in [Coin -> Int], NEW a \in Coin, NEW b \in Coin,
         NEW x \in Int, NEW y \in Int
  PROVE  [f EXCEPT ![a] = x, ![b] = y] \in [Coin -> Int]
  OBVIOUS

(* Changing the balance of one coin keeps the balances' type.              *)
LEMMA OneBalance ==
  ASSUME NEW f \in [Coin -> Int], NEW a \in Coin, NEW x \in Int
  PROVE  [f EXCEPT ![a] = f[a] + x] \in [Coin -> Int] /\ [f EXCEPT ![a] = f[a] - x] \in [Coin -> Int]
  <1>1. f[a] + x \in Int /\ f[a] - x \in Int
    OBVIOUS
  <1>. QED
    BY <1>1

(* Setting funds aside keeps the ledger's types.                           *)
LEMMA ReserveType ==
  ASSUME TypeOK, NEW side \in Side, NEW p \in Pair, NEW amount \in Nat,
         NEW value \in Nat, Reserve(side, p, amount, value)
  PROVE  /\ free' \in [Coin -> Int] /\ lock' \in [Coin -> Int]
         /\ avgShort' \in [Pair -> Int] /\ volume' \in [Pair -> Nat]
  <1>1. /\ AssetAfterLock(side, p, amount) \in Int
        /\ LockedAsset(side, p, amount) \in Int
        /\ LockedQuote(side, p, amount, value) \in Int
    BY FundsTypes
  <1> DEFINE a == AssetOf[p]
             q == QuoteOf[p]
             la == LockedAsset(side, p, amount)
             lq == LockedQuote(side, p, amount, value)
  <1>2. a \in Coin /\ q \in Coin /\ a # q
    BY Inputs
  <1>3. free[q] - lq \in Int /\ lock[a] + la \in Int /\ lock[q] + lq \in Int
    <2>1. free[q] \in Int /\ lock[a] \in Int /\ lock[q] \in Int
      BY <1>2 DEF TypeOK
    <2>2. la \in Int /\ lq \in Int
      BY <1>1
    <2> HIDE DEF a, q, la, lq
    <2>. QED
      BY <2>1, <2>2
  <1>4. /\ free' = [free EXCEPT ![a] = AssetAfterLock(side, p, amount), ![q] = free[q] - lq]
        /\ lock' = [lock EXCEPT ![a] = lock[a] + la, ![q] = lock[q] + lq]
        /\ UNCHANGED <<avgShort, volume>>
    BY <1>2 DEF Reserve
  <1> HIDE DEF a, q, la, lq
  <1>5. free' \in [Coin -> Int] /\ lock' \in [Coin -> Int]
    BY <1>1, <1>2, <1>3, <1>4, TwoBalances DEF TypeOK
  <1>. QED
    BY <1>4, <1>5 DEF TypeOK

(* Trading at once keeps the ledger's types.                               *)
LEMMA TradeType ==
  ASSUME TypeOK, NEW side \in Side, NEW p \in Pair, NEW amount \in Nat,
         NEW value \in Nat, Trade(side, p, amount, value)
  PROVE  /\ free' \in [Coin -> Int] /\ lock' \in [Coin -> Int]
         /\ avgShort' \in [Pair -> Int] /\ volume' \in [Pair -> Nat]
  <1>1. /\ AssetAfterLock(side, p, amount) \in Int
        /\ LockedAsset(side, p, amount) \in Int
        /\ LockedQuote(side, p, amount, value) \in Int
        /\ Quote(p) \in Int
    BY FundsTypes
  <1>2. AvgShortAfter(side, p, amount, value, AssetAfterLock(side, p, amount)) \in Int
    BY <1>1, AvgShortType
  <1>3. amount * value \in Nat /\ value * amount \in Nat
    BY NatProduct
  <1>4. FreeAfterTrade(side, p, amount, value) \in [Coin -> Int]
    <2> DEFINE after == AssetAfterLock(side, p, amount)
               paid == Quote(p) - LockedQuote(side, p, amount, value)
    <2>1. /\ after \in Int /\ paid \in Int /\ after - amount \in Int
          /\ paid + amount * value \in Int
          /\ after + (amount - LockedAsset(side, p, amount)) \in Int
      BY <1>1, <1>3
    <2>2. \A x, y \in Int : [free EXCEPT ![AssetOf[p]] = x, ![QuoteOf[p]] = y] \in [Coin -> Int]
      BY Inputs, TwoBalances DEF TypeOK
    <2> HIDE DEF after, paid
    <2>3. CASE side = "SELL" /\ EntersShort(p, amount, value)
      <3>1. FreeAfterTrade(side, p, amount, value)
              = [free EXCEPT ![AssetOf[p]] = after - amount, ![QuoteOf[p]] = paid]
        BY <2>3 DEF FreeAfterTrade, after, paid
      <3>. QED
        BY <2>1, <2>2, <3>1
    <2>4. CASE side = "SELL" /\ ~EntersShort(p, amount, value)
      <3>1. FreeAfterTrade(side, p, amount, value)
              = [free EXCEPT ![AssetOf[p]] = after, ![QuoteOf[p]] = paid + amount * value]
        BY <2>4 DEF FreeAfterTrade, after, paid
      <3>. QED
        BY <2>1, <2>2, <3>1
    <2>5. CASE side # "SELL"
      <3>1. FreeAfterTrade(side, p, amount, value)
              = [free EXCEPT ![AssetOf[p]] = after + (amount - LockedAsset(side, p, amount)),
                             ![QuoteOf[p]] = paid]
        BY <2>5 DEF FreeAfterTrade, after, paid
      <3>. QED
        BY <2>1, <2>2, <3>1
    <2>. QED
      BY <2>3, <2>4, <2>5
  <1>5. avgShort' \in [Pair -> Int]
    BY <1>2 DEF Trade, TypeOK
  <1>6. volume' \in [Pair -> Nat]
    <2>1. volume[p] + value * amount \in Nat
      <3>1. \A m, n \in Nat : m + n \in Nat
        OBVIOUS
      <3>2. volume[p] \in Nat
        BY DEF TypeOK
      <3>. QED
        BY <1>3, <3>1, <3>2
    <2>. QED
      BY <2>1 DEF Trade, TypeOK
  <1>. QED
    BY <1>4, <1>5, <1>6 DEF Trade, TypeOK

-----------------------------------------------------------------------------
(* Type correctness.                                                       *)

(* Rewriting orders in place gives an order list of the same length.       *)
LEMMA Rewritten ==
  ASSUME NEW s \in Seq(Order), NEW t \in [DOMAIN s -> Order]
  PROVE  t \in Seq(Order) /\ Len(t) = Len(s) /\ DOMAIN t = DOMAIN s
  <1>1. DOMAIN s = 1..Len(s) /\ Len(s) \in Nat
    OBVIOUS
  <1>. QED
    BY <1>1

(* A new order is an order.                                                *)
LEMMA NewOrderType ==
  ASSUME NEW id \in Nat, NEW group \in Nat, NEW p \in Pair, NEW side \in Side,
         NEW type \in Type, NEW price \in Nat, NEW stop \in Nat, NEW amount \in Nat
  PROVE  NewOrder(id, group, p, side, type, price, stop, amount) \in Order
  BY DEF NewOrder, Order, Status

(* An order whose status changes is an order and keeps what it asks for.   *)
LEMMA StatusType ==
  ASSUME NEW o \in Order, NEW status \in Status
  PROVE  /\ [o EXCEPT !.status = status] \in Order
         /\ [o EXCEPT !.status = status].status = status
         /\ \A f \in {"id", "group", "pair", "side", "type", "price", "stop", "qty"} :
              [o EXCEPT !.status = status][f] = o[f]
  BY DEF Order

(* OnCandle's loop moves on to a position.                                 *)
LEMMA ScanType ==
  ASSUME TypeOK, NextOrder
  PROVE  scan' \in [pos : Nat, candle : Candle]
  <1>1. scan \in [pos : Nat, candle : Candle]
    BY DEF TypeOK
  <1>. QED
    BY <1>1 DEF NextOrder

(* A market order keeps the types.                                         *)
LEMMA MarketType ==
  ASSUME TypeOK, NEW side \in Side, NEW p \in Pair, NEW amount \in Nat,
         createOrderMarket(side, p, amount)
  PROVE  TypeOK'
  <1>1. lastClose[p] \in Nat /\ counter \in Nat
    BY DEF TypeOK
  <1>2. /\ free' \in [Coin -> Int] /\ lock' \in [Coin -> Int]
        /\ avgShort' \in [Pair -> Int] /\ volume' \in [Pair -> Nat]
    BY <1>1, TradeType DEF createOrderMarket
  <1>3. orders' \in Seq(Order)
    <2>1. NewOrder(counter + 1, 0, p, side, "MARKET", lastClose[p], 0, amount) \in Order
      BY <1>1, NewOrderType DEF Type
    <2>. QED
      BY <2>1 DEF createOrderMarket, TypeOK
  <1>. QED
    BY <1>1, <1>2, <1>3 DEF createOrderMarket, TypeOK

(* Executing an order keeps the history's and the averages' types.         *)
LEMMA RecordType ==
  ASSUME TypeOK, NEW o \in Order, NEW price \in Nat, RecordExecution(o, price)
  PROVE  /\ avgShort' \in [Pair -> Int] /\ volume' \in [Pair -> Nat]
         /\ executed' \subseteq Nat
  <1>1. o.pair \in Pair /\ o.qty \in Nat /\ o.side \in Side /\ o.id \in Nat
    BY DEF Order
  <1>2. Asset(o.pair) \in Int
    BY <1>1, Inputs DEF Asset, TypeOK
  <1>3. AvgShortAfter(o.side, o.pair, o.qty, price, Asset(o.pair)) \in Int
    BY <1>1, <1>2, AvgShortType
  <1>4. price * o.qty \in Nat
    BY <1>1, NatProduct
  <1>5. volume[o.pair] + price * o.qty \in Nat
    <2>1. \A m, n \in Nat : m + n \in Nat
      OBVIOUS
    <2>2. volume[o.pair] \in Nat
      BY <1>1 DEF TypeOK
    <2>. QED
      BY <1>4, <2>1, <2>2
  <1>. QED
    BY <1>1, <1>3, <1>5 DEF RecordExecution, TypeOK

(* The wallet's variables keep their types, whatever is asked of it.       *)
THEOREM TypeCorrect == Spec => []TypeOK
  <1>1. Init => TypeOK
    BY Inputs, FundsAssumption DEF Init, TypeOK
  <1>2. TypeOK /\ [Next]_vars => TypeOK'
    <2> SUFFICES ASSUME TypeOK, [Next]_vars PROVE TypeOK'
      OBVIOUS
    <2>1. ASSUME NEW side \in Side, NEW p \in Pair, NEW amount \in Sizes,
                 NEW price \in Prices, NEW stop \in Prices, NEW stopLimit \in Prices,
                 CreateOrderOCO(side, p, amount, price, stop, stopLimit)
          PROVE  TypeOK'
      <3>1. amount \in Nat /\ price \in Nat /\ stop \in Nat /\ stopLimit \in Nat /\ counter \in Nat
        BY InputAssumption DEF TypeOK
      <3> DEFINE a == NewOrder(counter + 2, counter + 1, p, side, "LIMIT_MAKER", price, 0, amount)
                 b == NewOrder(counter + 3, counter + 1, p, side, "STOP_LOSS", stopLimit, stop, amount)
      <3>2. a \in Order /\ b \in Order
        BY <3>1, NewOrderType DEF Type
      <3>3. orders' = orders \o <<a, b>>
        BY <2>1 DEF CreateOrderOCO
      <3> HIDE DEF a, b
      <3>4. orders' \in Seq(Order)
        BY <3>2, <3>3 DEF TypeOK
      <3>5. /\ free' \in [Coin -> Int] /\ lock' \in [Coin -> Int]
            /\ avgShort' \in [Pair -> Int] /\ volume' \in [Pair -> Nat]
        BY <2>1, <3>1, ReserveType DEF CreateOrderOCO
      <3>6. counter' \in Nat /\ UNCHANGED <<lastClose, scan, candles, executed>>
        BY <2>1, <3>1 DEF CreateOrderOCO
      <3>. QED
        BY <3>4, <3>5, <3>6 DEF TypeOK
    <2>2. ASSUME NEW side \in Side, NEW p \in Pair, NEW amount \in Sizes,
                 NEW limit \in Prices, CreateOrderLimit(side, p, amount, limit)
          PROVE  TypeOK'
      <3>1. amount \in Nat /\ limit \in Nat /\ counter \in Nat
        BY InputAssumption DEF TypeOK
      <3>2. NewOrder(counter + 1, 0, p, side, "LIMIT", limit, 0, amount) \in Order
        BY <3>1, NewOrderType DEF Type
      <3>3. orders' \in Seq(Order)
        BY <2>2, <3>2 DEF CreateOrderLimit, TypeOK
      <3>4. /\ free' \in [Coin -> Int] /\ lock' \in [Coin -> Int]
            /\ avgShort' \in [Pair -> Int] /\ volume' \in [Pair -> Nat]
        BY <2>2, <3>1, ReserveType DEF CreateOrderLimit
      <3>. QED
        BY <2>2, <3>1, <3>3, <3>4 DEF CreateOrderLimit, TypeOK
    <2>3. ASSUME NEW p \in Pair, NEW amount \in Sizes, NEW limit \in Prices,
                 CreateOrderStop(p, amount, limit)
          PROVE  TypeOK'
      <3>1. amount \in Nat /\ limit \in Nat /\ counter \in Nat /\ "SELL" \in Side
        BY InputAssumption DEF TypeOK, Side
      <3>2. NewOrder(counter + 1, 0, p, "SELL", "STOP_LOSS_LIMIT", limit, limit, amount) \in Order
        BY <3>1, NewOrderType DEF Type
      <3>3. orders' \in Seq(Order)
        BY <2>3, <3>2 DEF CreateOrderStop, TypeOK
      <3>4. /\ free' \in [Coin -> Int] /\ lock' \in [Coin -> Int]
            /\ avgShort' \in [Pair -> Int] /\ volume' \in [Pair -> Nat]
        BY <2>3, <3>1, ReserveType DEF CreateOrderStop
      <3>. QED
        BY <2>3, <3>1, <3>3, <3>4 DEF CreateOrderStop, TypeOK
    <2>4. ASSUME NEW side \in Side, NEW p \in Pair, NEW amount \in Sizes,
                 CreateOrderMarket(side, p, amount)
          PROVE  TypeOK'
      BY <2>4, InputAssumption, MarketType DEF CreateOrderMarket
    <2>5. ASSUME NEW side \in Side, NEW p \in Pair, NEW quoteQuantity \in Prices,
                 CreateOrderMarketQuote(side, p, quoteQuantity)
          PROVE  TypeOK'
      <3>1. lastClose[p] \in Nat /\ lastClose[p] > 0 /\ quoteQuantity \in Nat
        BY <2>5, InputAssumption DEF CreateOrderMarketQuote, TypeOK
      <3>2. quoteQuantity \div lastClose[p] \in Nat
        BY <3>1
      <3>. QED
        BY <2>5, <3>2, MarketType DEF CreateOrderMarketQuote
    <2>6. ASSUME NEW id \in Nat, Cancel(id) PROVE TypeOK'
      <3>1. orders' \in [DOMAIN orders -> Order]
        <4>1. \A i \in DOMAIN orders :
                orders[i] \in Order /\ [orders[i] EXCEPT !.status = "CANCELED"] \in Order
          <5>1. \A i \in DOMAIN orders : orders[i] \in Order
            BY DEF TypeOK
          <5>. QED
            BY <5>1, StatusType DEF Status
        <4> DEFINE cancelled(i) == IF orders[i].id = id THEN [orders[i] EXCEPT !.status = "CANCELED"]
                                                        ELSE orders[i]
        <4>2. orders' = [i \in DOMAIN orders |-> cancelled(i)]
          BY <2>6 DEF Cancel
        <4>3. \A i \in DOMAIN orders : cancelled(i) \in Order
          BY <4>1
        <4> HIDE DEF cancelled
        <4>. QED
          BY <4>2, <4>3
      <3>. QED
        BY <2>6, <3>1, Rewritten DEF Cancel, TypeOK, ledger
    <2>7. ASSUME NEW c \in Candle, OnCandleBegin(c) PROVE TypeOK'
      BY <2>7, Inputs DEF OnCandleBegin, TypeOK, ledger
    <2>8. CASE SkipOrder
      <3>1. scan' \in [pos : Nat, candle : Candle]
        BY <2>8, ScanType DEF SkipOrder
      <3>. QED
        BY <2>8, <3>1 DEF SkipOrder, TypeOK, ledger
    <2>9. CASE ExecuteBuy
      <3> DEFINE o == orders[scan.pos]
      <3>1. o \in Order /\ scan.pos \in DOMAIN orders
        BY <2>9 DEF ExecuteBuy, TypeOK
      <3>2. /\ o.pair \in Pair /\ o.qty \in Nat /\ o.price \in Nat
            /\ AssetOf[o.pair] \in Coin /\ QuoteOf[o.pair] \in Coin
        BY <3>1, Inputs DEF Order
      <3>3. /\ orders' = [orders EXCEPT ![scan.pos].status = "FILLED"]
            /\ RecordExecution(o, o.price)
            /\ free' = [free EXCEPT ![AssetOf[o.pair]] = @ + o.qty]
            /\ lock' = [lock EXCEPT ![QuoteOf[o.pair]] = @ - o.price * o.qty]
            /\ NextOrder
            /\ UNCHANGED <<counter, lastClose, candles>>
        BY <2>9 DEF ExecuteBuy
      <3> HIDE DEF o
      <3>4. orders' \in Seq(Order)
        <4>1. [o EXCEPT !.status = "FILLED"] \in Order
          BY <3>1, StatusType DEF Status
        <4>2. orders' = [orders EXCEPT ![scan.pos] = [o EXCEPT !.status = "FILLED"]]
          BY <3>3 DEF o
        <4>. QED
          BY <3>1, <4>1, <4>2 DEF TypeOK
      <3>5. free' \in [Coin -> Int] /\ lock' \in [Coin -> Int]
        <4>1. o.price * o.qty \in Nat
          BY <3>2, NatProduct
        <4>2. free \in [Coin -> Int] /\ lock \in [Coin -> Int]
          BY DEF TypeOK
        <4>. QED
          BY <3>2, <3>3, <4>1, <4>2, OneBalance
      <3>6. /\ avgShort' \in [Pair -> Int] /\ volume' \in [Pair -> Nat]
            /\ executed' \subseteq Nat
        BY <3>1, <3>2, <3>3, RecordType
      <3>7. scan' \in [pos : Nat, candle : Candle]
        BY <3>3, ScanType
      <3>. QED
        BY <3>3, <3>4, <3>5, <3>6, <3>7 DEF TypeOK
    <2>10. CASE ExecuteSell
      <3> DEFINE o == orders[scan.pos]
                 x == ExecutionPrice(o)
      <3>1. o \in Order /\ scan.pos \in DOMAIN orders
        BY <2>10 DEF ExecuteSell, TypeOK
      <3>2. /\ o.pair \in Pair /\ o.qty \in Nat /\ x \in Nat
            /\ AssetOf[o.pair] \in Coin /\ QuoteOf[o.pair] \in Coin
        BY <3>1, Inputs DEF Order, ExecutionPrice
      <3>3. /\ orders' = [j \in DOMAIN orders |->
                            [orders[j] EXCEPT !.status = StatusAfterSell(scan.pos, j)]]
            /\ RecordExecution(o, x)
            /\ free' = [free EXCEPT ![QuoteOf[o.pair]] = @ + o.qty * x]
            /\ lock' = [lock EXCEPT ![AssetOf[o.pair]] = @ - o.qty]
            /\ NextOrder
            /\ UNCHANGED <<counter, lastClose, candles>>
        BY <2>10 DEF ExecuteSell
      <3> HIDE DEF o, x
      <3>4. orders' \in Seq(Order)
        <4>1. \A j \in DOMAIN orders : orders[j] \in Order
          BY DEF TypeOK
        <4>2. \A j \in DOMAIN orders : StatusAfterSell(scan.pos, j) \in Status
          BY <4>1 DEF StatusAfterSell, Order, Status
        <4>3. \A j \in DOMAIN orders :
                [orders[j] EXCEPT !.status = StatusAfterSell(scan.pos, j)] \in Order
          BY <4>1, <4>2, StatusType
        <4>4. orders' \in [DOMAIN orders -> Order]
          BY <3>3, <4>3
        <4>. QED
          BY <4>4, Rewritten DEF TypeOK
      <3>5. free' \in [Coin -> Int] /\ lock' \in [Coin -> Int]
        <4>1. o.qty * x \in Nat
          BY <3>2, NatProduct
        <4>2. free \in [Coin -> Int] /\ lock \in [Coin -> Int]
          BY DEF TypeOK
        <4>. QED
          BY <3>2, <3>3, <4>1, <4>2, OneBalance
      <3>6. /\ avgShort' \in [Pair -> Int] /\ volume' \in [Pair -> Nat]
            /\ executed' \subseteq Nat
        BY <3>1, <3>2, <3>3, RecordType
      <3>7. scan' \in [pos : Nat, candle : Candle]
        BY <3>3, ScanType
      <3>. QED
        BY <3>3, <3>4, <3>5, <3>6, <3>7 DEF TypeOK
    <2>11. CASE OnCandleEnd
      BY <2>11, Inputs DEF OnCandleEnd, TypeOK, ledger
    <2>12. CASE UNCHANGED vars
      BY <2>12 DEF vars, ledger, TypeOK
    <2>13. \A id \in 1..counter : id \in Nat
      BY DEF TypeOK
    <2>14. CASE Request
      BY <2>1, <2>2, <2>4, <2>14 DEF Request
    <2>15. CASE RequestStop \/ RequestQuote \/ RequestCancel
      BY <2>3, <2>5, <2>6, <2>13, <2>15 DEF RequestStop, RequestQuote, RequestCancel
    <2>. QED
      BY <2>7, <2>8, <2>9, <2>10, <2>11, <2>12, <2>14, <2>15
         DEF Next, Deliver, OnCandleStep
  <1>. QED
    BY <1>1, <1>2, PTL DEF Spec

-----------------------------------------------------------------------------
(* The identity of orders and groups, and the exclusion of OCO legs.       *)

(* Identifiers are handed out once: no two orders share one, and none is   *)
(* larger than the counter.                                                *)
IdentityInv ==
  /\ \A i \in DOMAIN orders : orders[i].id \in 1..counter /\ orders[i].group \in 0..counter
  /\ \A i, j \in DOMAIN orders : orders[i].id = orders[j].id => i = j
  /\ executed \subseteq 1..counter

(* A group has two members, on the same side, so the first sibling that    *)
(* OnCandle finds is the only one.                                         *)
GroupInv ==
  \A i, j \in DOMAIN orders :
    orders[i].group # 0 /\ orders[i].group = orders[j].group =>
      /\ orders[i].side = orders[j].side
      /\ \A k \in DOMAIN orders : orders[k].group = orders[i].group /\ i # j => k \in {i, j}

(* What executed is not pending, nor is the other leg of a sale.           *)
SettledInv ==
  \A i \in DOMAIN orders : orders[i].id \in executed =>
    /\ orders[i].status # "NEW"
    /\ \A j \in DOMAIN orders : Sibling(i, j) /\ orders[i].side = "SELL" =>
         orders[j].status # "NEW" /\ orders[j].id \notin executed

OCOInv == IdentityInv /\ GroupInv /\ SettledInv

(* What a step may do to the order list: append one order, append the two  *)
(* legs of an OCO, take orders out of NEW, or execute the one at p.        *)
AddsOne(o) ==
  /\ o.id = counter + 1 /\ o.group = 0
  /\ orders' = Append(orders, o) /\ counter' = counter + 1
  /\ \/ executed' = executed
     \/ o.status # "NEW" /\ executed' = executed \cup {o.id}

AddsTwo(a, b) ==
  /\ a.group = counter + 1 /\ b.group = counter + 1 /\ a.side = b.side
  /\ a.id = counter + 2 /\ b.id = counter + 3 /\ counter' = counter + 3
  /\ orders' = orders \o <<a, b>> /\ executed' = executed

SameOrders ==
  /\ DOMAIN orders' = DOMAIN orders /\ counter' = counter
  /\ \A i \in DOMAIN orders :
       /\ orders'[i].id = orders[i].id /\ orders'[i].group = orders[i].group
       /\ orders'[i].side = orders[i].side
       /\ orders[i].status # "NEW" => orders'[i].status # "NEW"

Settles == SameOrders /\ executed' = executed

Executes(p) ==
  /\ SameOrders /\ executed' = executed \cup {orders[p].id}
  /\ orders[p].status = "NEW" /\ orders'[p].status # "NEW"
  /\ orders[p].side = "SELL" =>
       \A j \in DOMAIN orders : Sibling(p, j) => orders'[j].status # "NEW"

(* What appending one or two orders changes.                               *)
LEMMA AppendOne ==
  ASSUME NEW s \in Seq(Order), NEW o \in Order
  PROVE  /\ DOMAIN Append(s, o) = DOMAIN s \cup {Len(s) + 1}
         /\ \A i \in DOMAIN s : Append(s, o)[i] = s[i] /\ i # Len(s) + 1
         /\ Append(s, o)[Len(s) + 1] = o
  OBVIOUS

LEMMA AppendTwo ==
  ASSUME NEW s \in Seq(Order), NEW a \in Order, NEW b \in Order
  PROVE  LET n == Len(s)
             t == s \o <<a, b>>
         IN  /\ DOMAIN t = DOMAIN s \cup {n + 1, n + 2}
             /\ \A i \in DOMAIN s : t[i] = s[i] /\ i \notin {n + 1, n + 2}
             /\ t[n + 1] = a /\ t[n + 2] = b /\ n + 1 # n + 2
  OBVIOUS

(* A single new order has a fresh identifier and no group.                 *)
LEMMA OneMore ==
  ASSUME TypeOK, OCOInv, NEW o \in Order, AddsOne(o)
  PROVE  OCOInv'
  <1> USE DEF AddsOne
  <1>0. PICK n \in Nat : n = Len(orders) + 1
    BY DEF TypeOK
  <1>1. /\ DOMAIN orders' = DOMAIN orders \cup {n}
        /\ \A i \in DOMAIN orders : orders'[i] = orders[i] /\ i # n
        /\ orders'[n] = o
    BY <1>0, AppendOne DEF TypeOK
  <1>2. counter \in Nat
    BY DEF TypeOK
  <1>3. \A i \in DOMAIN orders :
          /\ orders[i].id \in 1..counter /\ orders[i].group \in 0..counter
          /\ orders[i].id # o.id
    BY <1>2 DEF OCOInv, IdentityInv
  <1>4. IdentityInv'
    <2>1. executed' \subseteq 1..counter'
      <3>1. executed \subseteq 1..counter
        BY DEF OCOInv, IdentityInv
      <3>2. 1..counter \subseteq 1..counter' /\ o.id \in 1..counter'
        BY <1>2
      <3>. QED
        BY <3>1, <3>2
    <2>2. \A i \in DOMAIN orders' : orders'[i].id \in 1..counter' /\ orders'[i].group \in 0..counter'
      BY <1>1, <1>2, <1>3
    <2>3. \A i, j \in DOMAIN orders' : orders'[i].id = orders'[j].id => i = j
      BY <1>1, <1>3 DEF OCOInv, IdentityInv
    <2>. QED
      BY <2>1, <2>2, <2>3 DEF IdentityInv
  <1>5. GroupInv'
    BY <1>1 DEF OCOInv, GroupInv
  <1>6. SettledInv'
    <2>1. \A i \in DOMAIN orders : orders[i].id \in executed' <=> orders[i].id \in executed
      BY <1>3
    <2>2. \A i, j \in DOMAIN orders : Sibling(i, j)' <=> Sibling(i, j)
      BY <1>1 DEF Sibling
    <2>3. \A i \in DOMAIN orders' : ~Sibling(i, n)' /\ ~Sibling(n, i)'
      BY <1>1 DEF Sibling
    <2>4. o.id \notin executed
      BY <1>2 DEF OCOInv, IdentityInv
    <2>. QED
      BY <1>1, <2>1, <2>2, <2>3, <2>4 DEF OCOInv, SettledInv
  <1>. QED
    BY <1>4, <1>5, <1>6 DEF OCOInv

(* The two legs of a new OCO share a fresh group and have fresh identifiers. *)
LEMMA TwoMore ==
  ASSUME TypeOK, OCOInv, NEW a \in Order, NEW b \in Order, AddsTwo(a, b)
  PROVE  OCOInv'
  <1> USE DEF AddsTwo
  <1>0. PICK m, n \in Nat : m = Len(orders) + 1 /\ n = Len(orders) + 2
    BY DEF TypeOK
  <1>1. /\ DOMAIN orders' = DOMAIN orders \cup {m, n}
        /\ \A i \in DOMAIN orders : orders'[i] = orders[i] /\ i \notin {m, n}
        /\ orders'[m] = a /\ orders'[n] = b /\ m # n
    BY <1>0, AppendTwo DEF TypeOK
  <1>2. counter \in Nat
    BY DEF TypeOK
  <1>3. \A i \in DOMAIN orders :
          /\ orders[i].id \in 1..counter /\ orders[i].group \in 0..counter
          /\ orders[i].group # a.group
          /\ orders[i].id # a.id /\ orders[i].id # b.id
    BY <1>2 DEF OCOInv, IdentityInv
  <1>4. a.id \notin executed /\ b.id \notin executed
    BY <1>2 DEF OCOInv, IdentityInv
  <1>5. IdentityInv'
    <2>1. executed' \subseteq 1..counter'
      BY <1>2 DEF OCOInv, IdentityInv
    <2>2. \A i \in DOMAIN orders' : orders'[i].id \in 1..counter' /\ orders'[i].group \in 0..counter'
      <3>1. /\ 1..counter \subseteq 1..counter' /\ 0..counter \subseteq 0..counter'
            /\ a.id \in 1..counter' /\ b.id \in 1..counter'
            /\ a.group \in 0..counter' /\ b.group \in 0..counter'
        BY <1>2
      <3>. QED
        BY <1>1, <1>3, <3>1
    <2>3. ASSUME NEW i \in DOMAIN orders', NEW j \in DOMAIN orders', orders'[i].id = orders'[j].id
          PROVE  i = j
      <3>1. a.id # b.id
        BY <1>2
      <3>2. CASE i \in DOMAIN orders /\ j \in DOMAIN orders
        BY <1>1, <2>3, <3>2 DEF OCOInv, IdentityInv
      <3>3. CASE i \in {m, n} /\ j \in {m, n}
        BY <1>1, <2>3, <3>1, <3>3
      <3>4. CASE i \in DOMAIN orders /\ j \in {m, n}
        BY <1>1, <1>3, <2>3, <3>4
      <3>5. CASE j \in DOMAIN orders /\ i \in {m, n}
        BY <1>1, <1>3, <2>3, <3>5
      <3>. QED
        BY <1>1, <3>2, <3>3, <3>4, <3>5
    <2>. QED
      BY <2>1, <2>2, <2>3 DEF IdentityInv
  <1>6. GroupInv'
    <2> SUFFICES ASSUME NEW i \in DOMAIN orders', NEW j \in DOMAIN orders',
                        orders'[i].group # 0, orders'[i].group = orders'[j].group
                 PROVE  /\ orders'[i].side = orders'[j].side
                        /\ \A k \in DOMAIN orders' :
                             orders'[k].group = orders'[i].group /\ i # j => k \in {i, j}
      BY DEF GroupInv
    <2>1. CASE i \in DOMAIN orders
      <3>1. orders'[i] = orders[i] /\ orders[i].group # a.group
        BY <1>1, <1>3, <2>1
      <3>2. \A k \in {m, n} : orders'[k].group = a.group
        BY <1>1
      <3>3. \A k \in DOMAIN orders' : orders'[k].group = orders'[i].group =>
              k \in DOMAIN orders /\ orders'[k] = orders[k]
        BY <1>1, <3>1, <3>2
      <3>4. j \in DOMAIN orders /\ orders'[j] = orders[j]
        BY <3>3
      <3>5. /\ orders[i].side = orders[j].side
            /\ \A k \in DOMAIN orders : orders[k].group = orders[i].group /\ i # j => k \in {i, j}
        BY <2>1, <3>1, <3>4 DEF OCOInv, GroupInv
      <3>. QED
        BY <3>1, <3>3, <3>4, <3>5
    <2>2. CASE i \in {m, n}
      <3>1. orders'[i].group = a.group
        BY <1>1, <2>2
      <3>2. \A k \in DOMAIN orders' : orders'[k].group = a.group => k \in {m, n}
        BY <1>1, <1>3
      <3>. QED
        BY <1>1, <2>2, <3>1, <3>2
    <2>. QED
      BY <1>1, <2>1, <2>2
  <1>7. SettledInv'
    <2>1. \A i, j \in DOMAIN orders : Sibling(i, j)' <=> Sibling(i, j)
      BY <1>1 DEF Sibling
    <2>2. \A i \in DOMAIN orders, j \in {m, n} : ~Sibling(i, j)' /\ ~Sibling(j, i)'
      <3>1. \A j \in {m, n} : orders'[j].group = a.group
        BY <1>1
      <3>2. \A i \in DOMAIN orders : orders'[i].group # a.group
        BY <1>1, <1>3
      <3>. QED
        BY <3>1, <3>2 DEF Sibling
    <2>3. \A i \in {m, n} : orders'[i].id \notin executed'
      BY <1>1, <1>4
    <2>4. ASSUME NEW i \in DOMAIN orders, orders[i].id \in executed
          PROVE  /\ orders[i].status # "NEW"
                 /\ \A j \in DOMAIN orders : Sibling(i, j) /\ orders[i].side = "SELL" =>
                      orders[j].status # "NEW" /\ orders[j].id \notin executed
      BY <2>4 DEF OCOInv, SettledInv
    <2>5. ASSUME NEW i \in DOMAIN orders', orders'[i].id \in executed'
          PROVE  /\ orders'[i].status # "NEW"
                 /\ \A j \in DOMAIN orders' : Sibling(i, j)' /\ orders'[i].side = "SELL" =>
                      orders'[j].status # "NEW" /\ orders'[j].id \notin executed'
      <3>1. i \in DOMAIN orders /\ orders'[i] = orders[i] /\ orders[i].id \in executed
        BY <1>1, <2>3, <2>5
      <3>2. \A j \in DOMAIN orders' : Sibling(i, j)' => j \in DOMAIN orders /\ Sibling(i, j)
        BY <1>1, <2>1, <2>2, <3>1
      <3>. QED
        BY <1>1, <2>4, <3>1, <3>2
    <2>. QED
      BY <2>5 DEF SettledInv
  <1>. QED
    BY <1>5, <1>6, <1>7 DEF OCOInv

(* Orders keep their identity when only their statuses change.             *)
LEMMA SameIdentity ==
  ASSUME OCOInv, SameOrders, executed' \subseteq 1..counter
  PROVE  /\ IdentityInv' /\ GroupInv'
         /\ \A i, j \in DOMAIN orders : Sibling(i, j)' <=> Sibling(i, j)
  <1>1. IdentityInv'
    BY DEF OCOInv, IdentityInv, SameOrders
  <1>2. GroupInv'
    BY DEF OCOInv, GroupInv, SameOrders
  <1>3. \A i, j \in DOMAIN orders : Sibling(i, j)' <=> Sibling(i, j)
    BY DEF Sibling, SameOrders
  <1>. QED
    BY <1>1, <1>2, <1>3

(* Cancelling keeps the exclusion.                                         *)
LEMMA SettlesKeeps == ASSUME OCOInv, Settles PROVE OCOInv'
  <1>1. /\ IdentityInv' /\ GroupInv'
        /\ \A i, j \in DOMAIN orders : Sibling(i, j)' <=> Sibling(i, j)
    BY SameIdentity DEF Settles, OCOInv, IdentityInv
  <1>2. SettledInv'
    BY <1>1 DEF OCOInv, SettledInv, Settles, SameOrders
  <1>. QED
    BY <1>1, <1>2 DEF OCOInv

(* Executing a pending order keeps the exclusion: its sibling did not      *)
(* execute, or it would not be pending itself.                             *)
LEMMA ExecutesKeeps == ASSUME OCOInv, NEW p \in DOMAIN orders, Executes(p) PROVE OCOInv'
  <1>1. executed' \subseteq 1..counter
    BY DEF Executes, OCOInv, IdentityInv
  <1>2. /\ IdentityInv' /\ GroupInv'
        /\ \A i, j \in DOMAIN orders : Sibling(i, j)' <=> Sibling(i, j)
    BY <1>1, SameIdentity DEF Executes
  <1>3. ASSUME NEW i \in DOMAIN orders, orders'[i].id \in executed'
        PROVE  /\ orders'[i].status # "NEW"
               /\ \A j \in DOMAIN orders : Sibling(i, j)' /\ orders'[i].side = "SELL" =>
                    orders'[j].status # "NEW" /\ orders'[j].id \notin executed'
    <2>1. \A j \in DOMAIN orders :
            /\ orders'[j].id = orders[j].id /\ orders'[j].side = orders[j].side
            /\ orders'[j].group = orders[j].group
            /\ orders[j].status # "NEW" => orders'[j].status # "NEW"
      BY DEF Executes, SameOrders
    <2>2. \A j \in DOMAIN orders : j # p => orders[j].id # orders[p].id
      BY DEF OCOInv, IdentityInv
    <2>. /\ executed' = executed \cup {orders[p].id}
         /\ orders[p].status = "NEW" /\ orders'[p].status # "NEW"
         /\ orders[p].side = "SELL" =>
              \A j \in DOMAIN orders : Sibling(p, j) => orders'[j].status # "NEW"
      BY DEF Executes
    <2>3. CASE i = p
      <3>1. ASSUME NEW j \in DOMAIN orders, Sibling(p, j), orders[p].side = "SELL"
            PROVE  orders[j].id \notin executed
        <4>1. Sibling(j, p) /\ orders[j].side = "SELL"
          BY <3>1 DEF Sibling, OCOInv, GroupInv
        <4>. QED
          BY <4>1 DEF OCOInv, SettledInv
      <3>2. \A j \in DOMAIN orders : Sibling(p, j) => orders[j].id # orders[p].id
        BY DEF Sibling
      <3>3. ASSUME NEW j \in DOMAIN orders, Sibling(p, j)', orders'[p].side = "SELL"
            PROVE  orders'[j].status # "NEW" /\ orders'[j].id \notin executed'
        <4>1. Sibling(p, j) /\ orders[p].side = "SELL"
          BY <2>1, <3>3 DEF Sibling
        <4>. QED
          BY <2>1, <3>1, <3>2, <4>1
      <3>. QED
        BY <2>3, <3>3
    <2>4. CASE i # p
      <3>1. orders[i].id \in executed
        BY <1>3, <2>1, <2>2, <2>4
      <3>2. ASSUME NEW j \in DOMAIN orders, Sibling(i, j), orders[i].side = "SELL"
            PROVE  orders[j].status # "NEW" /\ orders[j].id \notin executed
        BY <3>1, <3>2 DEF OCOInv, SettledInv
      <3>3. orders[i].status # "NEW"
        BY <3>1 DEF OCOInv, SettledInv
      <3>4. ASSUME NEW j \in DOMAIN orders, Sibling(i, j)', orders'[i].side = "SELL"
            PROVE  orders'[j].status # "NEW" /\ orders'[j].id \notin executed'
        <4>1. orders[j].status # "NEW" /\ orders[j].id \notin executed
          <5>1. Sibling(i, j) /\ orders[i].side = "SELL"
            BY <2>1, <3>4 DEF Sibling
          <5>. QED
            BY <3>2, <5>1
        <4>2. j # p
          BY <4>1
        <4>. QED
          BY <2>1, <2>2, <4>1, <4>2
      <3>. QED
        BY <2>1, <3>3, <3>4
    <2>. QED
      BY <2>3, <2>4
  <1>4. SettledInv'
    BY <1>3 DEF SettledInv, Executes, SameOrders
  <1>. QED
    BY <1>2, <1>4 DEF OCOInv

(* A market order adds one order that has left NEW.                        *)
LEMMA MarketShape ==
  ASSUME TypeOK, NEW side \in Side, NEW p \in Pair, NEW amount \in Nat,
         createOrderMarket(side, p, amount)
  PROVE  \E o \in Order : AddsOne(o)
  <1>1. lastClose[p] \in Nat /\ counter + 1 \in Nat
    BY DEF TypeOK
  <1> DEFINE o == NewOrder(counter + 1, 0, p, side, "MARKET", lastClose[p], 0, amount)
  <1>2. o \in Order
    BY <1>1, NewOrderType DEF Type
  <1>3. o.id = counter + 1 /\ o.group = 0 /\ o.status # "NEW"
    BY DEF NewOrder
  <1>4. /\ orders' = Append(orders, o) /\ counter' = counter + 1
        /\ executed' = executed \cup {counter + 1}
    BY DEF createOrderMarket
  <1> HIDE DEF o
  <1>. QED
    BY <1>2, <1>3, <1>4 DEF AddsOne

(* Executing the order at OnCandle's position: a sale finds its sibling    *)
(* first, because a group has no third member.                             *)
LEMMA SellShape ==
  ASSUME TypeOK, OCOInv, ExecuteSell
  PROVE  scan.pos \in DOMAIN orders /\ Executes(scan.pos)
  <1> DEFINE p == scan.pos
  <1>1. /\ p \in DOMAIN orders /\ orders[p].status = "NEW"
        /\ orders' = [j \in DOMAIN orders |-> [orders[j] EXCEPT !.status = StatusAfterSell(p, j)]]
        /\ executed' = executed \cup {orders[p].id} /\ counter' = counter
    BY DEF ExecuteSell, Considered, RecordExecution
  <1>2. \A j \in DOMAIN orders : orders[j] \in Order
    BY DEF TypeOK
  <1>3. \A j \in DOMAIN orders : StatusAfterSell(p, j) \in Status
    BY <1>2 DEF StatusAfterSell, Order, Status
  <1>4. DOMAIN orders' = DOMAIN orders
    BY <1>1
  <1>5. \A j \in DOMAIN orders :
          /\ orders'[j].id = orders[j].id /\ orders'[j].group = orders[j].group
          /\ orders'[j].side = orders[j].side
          /\ orders'[j].status = StatusAfterSell(p, j)
    BY <1>1, <1>2, <1>3, StatusType DEF Order
  <1>6. ASSUME NEW j \in DOMAIN orders, Sibling(p, j)
        PROVE  orders'[j].status # "NEW"
    <2>1. DOMAIN orders = 1..Len(orders) /\ Len(orders) \in Nat
      BY DEF TypeOK
    <2>2. ASSUME NEW k \in 1..(j - 1) PROVE ~Sibling(p, k)
      <3>1. k \in DOMAIN orders /\ k # j
        BY <2>1
      <3>. QED
        BY <1>1, <1>6, <3>1 DEF Sibling, OCOInv, GroupInv
    <2>3. FirstSibling(p, j)
      BY <1>6, <2>2 DEF FirstSibling
    <2>. QED
      BY <1>5, <2>3 DEF StatusAfterSell
  <1>7. \A j \in DOMAIN orders : orders[j].status # "NEW" => orders'[j].status # "NEW"
    BY <1>5 DEF StatusAfterSell
  <1>8. orders'[p].status # "NEW"
    BY <1>1, <1>5 DEF StatusAfterSell
  <1> HIDE DEF p
  <1>9. Executes(p)
    BY <1>1, <1>4, <1>5, <1>6, <1>7, <1>8 DEF Executes, SameOrders
  <1>. QED
    BY <1>1, <1>9 DEF p

(* A purchase executes the order at OnCandle's position and changes no     *)
(* other.                                                                  *)
LEMMA BuyShape ==
  ASSUME TypeOK, ExecuteBuy
  PROVE  scan.pos \in DOMAIN orders /\ Executes(scan.pos)
  <1> DEFINE p == scan.pos
             o == orders[p]
  <1>1. /\ p \in DOMAIN orders /\ o.status = "NEW" /\ o.side = "BUY"
        /\ orders' = [orders EXCEPT ![p].status = "FILLED"]
        /\ executed' = executed \cup {o.id} /\ counter' = counter
    BY DEF ExecuteBuy, Considered, BuyTriggered, RecordExecution
  <1>2. o \in Order
    BY <1>1 DEF TypeOK
  <1>3. orders' = [orders EXCEPT ![p] = [o EXCEPT !.status = "FILLED"]]
    BY <1>1
  <1>4. LET u == [o EXCEPT !.status = "FILLED"]
        IN  u.id = o.id /\ u.group = o.group /\ u.side = o.side /\ u.status = "FILLED"
    BY <1>2 DEF Order
  <1>5. DOMAIN orders' = DOMAIN orders /\ \A j \in DOMAIN orders : j # p => orders'[j] = orders[j]
    BY <1>3 DEF TypeOK
  <1>6. orders'[p] = [o EXCEPT !.status = "FILLED"]
    BY <1>1, <1>3 DEF TypeOK
  <1>7. SameOrders /\ orders'[p].status # "NEW"
    BY <1>1, <1>4, <1>5, <1>6 DEF SameOrders
  <1>. QED
    BY <1>1, <1>7 DEF Executes

(* Every step of the wallet has one of the four shapes.                    *)
LEMMA StepShapes ==
  ASSUME TypeOK, OCOInv, [Next]_vars
  PROVE  \/ \E o \in Order : AddsOne(o)
         \/ \E a, b \in Order : AddsTwo(a, b)
         \/ Settles
         \/ \E p \in DOMAIN orders : Executes(p)
  <1> DEFINE Shape == \/ \E o \in Order : AddsOne(o)
                      \/ \E a, b \in Order : AddsTwo(a, b)
                      \/ Settles
                      \/ \E p \in DOMAIN orders : Executes(p)
  <1>0. counter \in Nat
    BY DEF TypeOK
  <1>1. ASSUME NEW side \in Side, NEW p \in Pair, NEW amount \in Sizes, NEW price \in Prices,
               NEW stop \in Prices, CreateOrderOCO(side, p, amount, price, stop, stop)
        PROVE  Shape
    <2>1. amount \in Nat /\ price \in Nat /\ stop \in Nat
      BY InputAssumption
    <2> DEFINE a == NewOrder(counter + 2, counter + 1, p, side, "LIMIT_MAKER", price, 0, amount)
               b == NewOrder(counter + 3, counter + 1, p, side, "STOP_LOSS", stop, stop, amount)
    <2>2. a \in Order /\ b \in Order
      BY <1>0, <2>1, NewOrderType DEF Type
    <2>3. /\ a.group = counter + 1 /\ b.group = counter + 1 /\ a.side = b.side
          /\ a.id = counter + 2 /\ b.id = counter + 3
      BY DEF NewOrder
    <2>4. orders' = orders \o <<a, b>> /\ counter' = counter + 3 /\ executed' = executed
      BY <1>1 DEF CreateOrderOCO
    <2> HIDE DEF a, b
    <2>5. AddsTwo(a, b)
      BY <2>3, <2>4 DEF AddsTwo
    <2>. QED
      BY <2>2, <2>5
  <1>2. ASSUME NEW side \in Side, NEW p \in Pair, NEW amount \in Sizes, NEW limit \in Prices,
               CreateOrderLimit(side, p, amount, limit)
        PROVE  Shape
    <2>1. amount \in Nat /\ limit \in Nat
      BY InputAssumption
    <2> DEFINE o == NewOrder(counter + 1, 0, p, side, "LIMIT", limit, 0, amount)
    <2>2. o \in Order /\ o.id = counter + 1 /\ o.group = 0
      <3>1. o \in Order
        BY <1>0, <2>1, NewOrderType DEF Type
      <3>. QED
        BY <3>1 DEF NewOrder
    <2>3. orders' = Append(orders, o) /\ counter' = counter + 1 /\ executed' = executed
      BY <1>2 DEF CreateOrderLimit
    <2> HIDE DEF o
    <2>. QED
      BY <2>2, <2>3 DEF AddsOne
  <1>3. ASSUME NEW p \in Pair, NEW amount \in Sizes, NEW limit \in Prices,
               CreateOrderStop(p, amount, limit)
        PROVE  Shape
    <2>1. amount \in Nat /\ limit \in Nat /\ "SELL" \in Side
      BY InputAssumption DEF Side
    <2> DEFINE o == NewOrder(counter + 1, 0, p, "SELL", "STOP_LOSS_LIMIT", limit, limit, amount)
    <2>2. o \in Order /\ o.id = counter + 1 /\ o.group = 0
      <3>1. o \in Order
        BY <1>0, <2>1, NewOrderType DEF Type
      <3>. QED
        BY <3>1 DEF NewOrder
    <2>3. orders' = Append(orders, o) /\ counter' = counter + 1 /\ executed' = executed
      BY <1>3 DEF CreateOrderStop
    <2> HIDE DEF o
    <2>. QED
      BY <2>2, <2>3 DEF AddsOne
  <1>4. ASSUME NEW side \in Side, NEW p \in Pair, NEW amount \in Sizes,
               CreateOrderMarket(side, p, amount)
        PROVE  Shape
    BY <1>4, InputAssumption, MarketShape DEF CreateOrderMarket
  <1>5. ASSUME NEW side \in Side, NEW p \in Pair, NEW quoteQuantity \in Prices,
               CreateOrderMarketQuote(side, p, quoteQuantity)
        PROVE  Shape
    <2>1. lastClose[p] \in Nat /\ lastClose[p] > 0 /\ quoteQuantity \in Nat
      BY <1>5, InputAssumption DEF CreateOrderMarketQuote, TypeOK
    <2>2. quoteQuantity \div lastClose[p] \in Nat
      BY <2>1
    <2>. QED
      BY <1>5, <2>2, MarketShape DEF CreateOrderMarketQuote
  <1>6. ASSUME NEW id \in 1..counter, Cancel(id) PROVE Shape
    <2>1. \A i \in DOMAIN orders : orders[i] \in Order
      BY DEF TypeOK
    <2> DEFINE cancelled(i) == IF orders[i].id = id THEN [orders[i] EXCEPT !.status = "CANCELED"]
                                                    ELSE orders[i]
    <2>2. /\ orders' = [i \in DOMAIN orders |-> cancelled(i)]
          /\ counter' = counter /\ executed' = executed
      BY <1>6 DEF Cancel
    <2>3. \A i \in DOMAIN orders :
            /\ cancelled(i).id = orders[i].id /\ cancelled(i).group = orders[i].group
            /\ cancelled(i).side = orders[i].side
            /\ orders[i].status # "NEW" => cancelled(i).status # "NEW"
      BY <2>1 DEF Order
    <2> HIDE DEF cancelled
    <2>4. Settles
      BY <2>2, <2>3 DEF Settles, SameOrders
    <2>. QED
      BY <2>4
  <1>7. ASSUME NEW c \in Candle, OnCandleBegin(c) PROVE Settles
    BY <1>7 DEF OnCandleBegin, Settles, SameOrders
  <1>8. CASE SkipOrder \/ OnCandleEnd \/ UNCHANGED vars
    <2>1. Settles
      BY <1>8 DEF SkipOrder, OnCandleEnd, vars, Settles, SameOrders
    <2>. QED
      BY <2>1
  <1>9. CASE ExecuteBuy \/ ExecuteSell
    BY <1>9, BuyShape, SellShape
  <1>10. CASE Request
    BY <1>1, <1>2, <1>4, <1>10 DEF Request
  <1>11. CASE RequestStop \/ RequestQuote \/ RequestCancel
    BY <1>3, <1>5, <1>6, <1>11 DEF RequestStop, RequestQuote, RequestCancel
  <1>12. CASE Deliver
    BY <1>7, <1>12 DEF Deliver
  <1>. QED
    BY <1>8, <1>9, <1>10, <1>11, <1>12 DEF Next, OnCandleStep

(* The inductive invariant behind the two theorems below.                  *)
THEOREM OCOInvariant == Spec => []OCOInv
  <1>1. Init => OCOInv
    BY DEF Init, OCOInv, IdentityInv, GroupInv, SettledInv
  <1>2. TypeOK /\ OCOInv /\ [Next]_vars => OCOInv'
    BY StepShapes, OneMore, TwoMore, SettlesKeeps, ExecutesKeeps
  <1>. QED
    BY <1>1, <1>2, TypeCorrect, PTL DEF Spec

(* Of the two legs of a sell OCO at most one ever executes, for every      *)
(* market, every candle and every mix of other orders and cancellations.   *)
THEOREM SellOCOExclusion == Spec => []OCOExclusive
  <1>1. OCOInv => OCOExclusive
    BY DEF OCOInv, SettledInv, OCOExclusive
  <1>. QED
    BY <1>1, OCOInvariant, PTL

(* An order leaves NEW for good, and nothing executes after it left NEW:   *)
(* a cancelled order can not come back.                                    *)
THEOREM OrdersDoNotRevive == Spec => NoRevival
  <1> DEFINE A == \A i \in DOMAIN orders :
                    orders[i].status # "NEW" =>
                      /\ orders'[i].status # "NEW"
                      /\ orders[i].id \in executed' => orders[i].id \in executed
  <1>1. TypeOK /\ OCOInv /\ [Next]_vars => A
    <2> SUFFICES ASSUME TypeOK, OCOInv, [Next]_vars,
                        NEW i \in DOMAIN orders, orders[i].status # "NEW"
                 PROVE  /\ orders'[i].status # "NEW"
                        /\ orders[i].id \in executed' => orders[i].id \in executed
      OBVIOUS
    <2>0. /\ counter \in Nat /\ orders[i].id \in 1..counter
          /\ \A j \in DOMAIN orders : orders[i].id = orders[j].id => i = j
      BY DEF TypeOK, OCOInv, IdentityInv
    <2>1. ASSUME NEW o \in Order, AddsOne(o)
          PROVE  orders'[i] = orders[i] /\ (orders[i].id \in executed' => orders[i].id \in executed)
      <3>1. orders'[i] = orders[i]
        BY <2>1, AppendOne DEF AddsOne, TypeOK
      <3>2. orders[i].id # o.id
        BY <2>0, <2>1 DEF AddsOne
      <3>. QED
        BY <2>1, <3>1, <3>2 DEF AddsOne
    <2>2. ASSUME NEW a \in Order, NEW b \in Order, AddsTwo(a, b)
          PROVE  orders'[i] = orders[i] /\ executed' = executed
      BY <2>2, AppendTwo DEF AddsTwo, TypeOK
    <2>3. CASE Settles
      BY <2>3 DEF Settles, SameOrders
    <2>4. ASSUME NEW p \in DOMAIN orders, Executes(p)
          PROVE  orders'[i].status # "NEW" /\ (orders[i].id \in executed' => orders[i].id \in executed)
      <3>1. i # p
        BY <2>4 DEF Executes
      <3>. QED
        BY <2>0, <2>4, <3>1 DEF Executes, SameOrders
    <2>. QED
      BY <2>1, <2>2, <2>3, <2>4, StepShapes
  <1>2. TypeOK /\ OCOInv /\ [Next]_vars => [A]_vars
    BY <1>1
  <1>. QED
    BY <1>2, TypeCorrect, OCOInvariant, PTL DEF Spec, NoRevival

-----------------------------------------------------------------------------
(* Solvency.                                                               *)

(* What the requests of a disciplined client satisfy, when no balance the  *)
(* discipline covers is negative.                                          *)
Covered(side, p, amount, value) ==
  /\ HasFunds(side, p, amount, value) /\ Disciplined(side, p, amount)
  /\ Discipline \in {"long", "short"} /\ Quote(p) >= 0
  /\ Discipline = "long" => Asset(p) >= 0

LEMMA Distribute ==
  ASSUME NEW a \in Int, NEW b \in Int, NEW v \in Int
  PROVE  (a - b) * v = a * v - b * v /\ (a + b) * v = a * v + b * v
  OBVIOUS

(* The funds check covers what is then taken from the quote balance.       *)
LEMMA QuoteCovered ==
  ASSUME TypeOK, NEW side \in Side, NEW p \in Pair, NEW amount \in Nat, NEW value \in Nat,
         Covered(side, p, amount, value)
  PROVE  LockedQuote(side, p, amount, value) <= Quote(p)
  <1> DEFINE A == Asset(p)
             Q == Quote(p)
             L == LiquidShort(p, value)
  <1>1. A \in Int /\ Q \in Int /\ L \in Int /\ Q >= 0
    BY FundsTypes DEF Covered
  <1>2. CASE side = "SELL"
    <2>1. Q + MaxOf(A, 0) * value >= amount * value
      BY <1>2 DEF Covered, HasFunds
    <2>2. LockedQuote(side, p, amount, value) = (amount - MinOf(MaxOf(A, 0), amount)) * value
      BY <1>2 DEF LockedQuote, LockedAsset
    <2> HIDE DEF A, Q, L
    <2>3. PICK m \in Int : m = MaxOf(A, 0)
      BY <1>1 DEF MaxOf
    <2>4. CASE m <= amount
      <3>1. MinOf(m, amount) = m
        BY <2>4 DEF MinOf
      <3>2. (amount - m) * value = amount * value - m * value
        BY Distribute
      <3>3. m * value \in Int /\ amount * value \in Int
        OBVIOUS
      <3>. QED
        BY <1>1, <2>1, <2>2, <2>3, <3>1, <3>2, <3>3 DEF Q
    <2>5. CASE ~(m <= amount)
      <3>1. MinOf(m, amount) = amount
        BY <2>5 DEF MinOf
      <3>2. LockedQuote(side, p, amount, value) = 0
        BY <2>2, <2>3, <3>1
      <3>. QED
        BY <1>1, <3>2 DEF Q
    <2>. QED
      BY <2>4, <2>5
  <1>3. CASE side = "BUY"
    <2>1. Q + L >= (amount + MinOf(A, 0)) * value
      BY <1>3 DEF Covered, HasFunds
    <2>2. LockedQuote(side, p, amount, value) = (amount - MinOf(-MinOf(A, 0), amount)) * value - L
      BY <1>3 DEF LockedQuote, LockedAsset
    <2>3. A < 0 => amount >= -A
      BY <1>1, <1>3 DEF Covered, Disciplined
    <2> HIDE DEF A, Q, L
    <2>4. MinOf(-MinOf(A, 0), amount) = -MinOf(A, 0)
      BY <1>1, <2>3 DEF MinOf
    <2>5. PICK m \in Int : m = MinOf(A, 0)
      BY <1>1 DEF MinOf
    <2>6. amount - (-m) = amount + m
      OBVIOUS
    <2>7. LockedQuote(side, p, amount, value) = (amount + m) * value - L
      BY <2>2, <2>4, <2>5, <2>6
    <2>8. (amount + m) * value \in Int
      OBVIOUS
    <2>. QED
      BY <1>1, <2>1, <2>5, <2>7, <2>8 DEF Q
  <1>. QED
    BY <1>2, <1>3 DEF Side

(* Without short positions the asset a sale locks is there, and it takes   *)
(* nothing from the quote balance.                                         *)
LEMMA AssetCovered ==
  ASSUME TypeOK, NEW side \in Side, NEW p \in Pair, NEW amount \in Nat, NEW value \in Nat,
         Covered(side, p, amount, value), Discipline = "long"
  PROVE  /\ AssetAfterLock(side, p, amount) >= 0
         /\ side = "SELL" => LockedQuote(side, p, amount, value) = 0
         /\ side = "BUY" => LockedAsset(side, p, amount) = 0
  <1>1. Asset(p) \in Int /\ Asset(p) >= 0
    BY FundsTypes DEF Covered
  <1>2. CASE side = "SELL"
    <2>1. amount <= Asset(p)
      BY <1>2 DEF Covered, Disciplined
    <2>2. LockedAsset(side, p, amount) = amount
      BY <1>1, <1>2, <2>1 DEF LockedAsset, MinOf, MaxOf
    <2>3. (amount - amount) * value = 0
      OBVIOUS
    <2>. QED
      BY <1>1, <1>2, <2>1, <2>2, <2>3 DEF AssetAfterLock, LockedQuote
  <1>3. CASE side = "BUY"
    <2>1. LockedAsset(side, p, amount) = 0
      <3>1. -MinOf(Asset(p), 0) = 0
        <4>1. PICK m \in Int : m = MinOf(Asset(p), 0) /\ m >= 0 /\ m <= 0
          BY <1>1 DEF MinOf
        <4>2. -m >= 0 /\ -m <= 0
          BY <4>1
        <4>. QED
          BY <4>1, <4>2
      <3>2. MinOf(0, amount) = 0
        BY DEF MinOf
      <3>3. LockedAsset(side, p, amount) = MinOf(-MinOf(Asset(p), 0), amount)
        BY <1>3 DEF LockedAsset
      <3>. QED
        BY <3>1, <3>2, <3>3
    <2>2. AssetAfterLock(side, p, amount) = Asset(p)
      BY <1>1, <1>3, <2>1 DEF AssetAfterLock
    <2>. QED
      BY <1>1, <1>3, <2>1, <2>2
  <1>. QED
    BY <1>2, <1>3 DEF Side

(* No quote coin is also the asset of a pair, as with pairs that all       *)
(* trade against one currency.                                             *)
QuotesAreNoAssets == \A p, q \in Pair : QuoteOf[p] # AssetOf[q]

LEMMA RequestIsCovered ==
  ASSUME TypeOK, NoOverdraft, NEW method, NEW side \in Side, NEW p \in Pair, NEW amount \in Nat,
         NEW value \in Nat, Discipline # "any",
         MayRequest(method, side, p, amount), HasFunds(side, p, amount, value)
  PROVE  Covered(side, p, amount, value)
  BY Inputs, InputAssumption DEF NoOverdraft, MayRequest, Covered, Asset, Quote

(* Setting funds aside overdraws no balance.                               *)
LEMMA ReserveIsSolvent ==
  ASSUME TypeOK, NoOverdraft, Discipline = "short" => QuotesAreNoAssets,
         NEW side \in Side, NEW p \in Pair,
         NEW amount \in Nat, NEW value \in Nat, Covered(side, p, amount, value),
         Reserve(side, p, amount, value)
  PROVE  NoOverdraft'
  <1>1. /\ free \in [Coin -> Int] /\ AssetOf[p] \in Coin /\ QuoteOf[p] \in Coin
        /\ AssetOf[p] # QuoteOf[p] /\ Quote(p) = free[QuoteOf[p]]
    BY Inputs DEF TypeOK, Quote
  <1>2. PICK a, l \in Int : a = AssetAfterLock(side, p, amount)
                          /\ l = LockedQuote(side, p, amount, value)
    BY FundsTypes
  <1>3. free' = [free EXCEPT ![AssetOf[p]] = a, ![QuoteOf[p]] = free[QuoteOf[p]] - l]
    BY <1>1, <1>2 DEF Reserve
  <1>4. free[QuoteOf[p]] - l >= 0
    BY <1>1, <1>2, QuoteCovered
  <1>5. Discipline = "long" => a >= 0
    BY <1>2, AssetCovered
  <1>6. CASE Discipline = "long"
    BY <1>1, <1>3, <1>4, <1>5, <1>6 DEF NoOverdraft
  <1>7. CASE Discipline = "short"
    <2>1. \A q \in Pair : QuoteOf[q] \in Coin /\ QuoteOf[q] # AssetOf[p]
      BY <1>7, Inputs DEF QuotesAreNoAssets
    <2>2. \A q \in Pair : free[QuoteOf[q]] >= 0
      BY <1>7 DEF NoOverdraft, Quote
    <2>3. \A q \in Pair : free'[QuoteOf[q]] >= 0
      BY <1>1, <1>3, <1>4, <2>1, <2>2
    <2>. QED
      BY <1>7, <2>3 DEF NoOverdraft, Quote
  <1>. QED
    BY <1>6, <1>7 DEF Covered

(* Trading at once overdraws no balance.                                   *)
LEMMA TradeIsSolvent ==
  ASSUME TypeOK, NoOverdraft, Discipline = "short" => QuotesAreNoAssets,
         NEW side \in Side, NEW p \in Pair,
         NEW amount \in Nat, NEW value \in Nat, Covered(side, p, amount, value),
         Trade(side, p, amount, value)
  PROVE  NoOverdraft'
  <1>1. /\ free \in [Coin -> Int] /\ AssetOf[p] \in Coin /\ QuoteOf[p] \in Coin
        /\ AssetOf[p] # QuoteOf[p] /\ Quote(p) = free[QuoteOf[p]]
    BY Inputs DEF TypeOK, Quote
  <1>2. /\ LockedQuote(side, p, amount, value) <= Quote(p)
        /\ LockedQuote(side, p, amount, value) \in Int /\ Quote(p) \in Int
        /\ AssetAfterLock(side, p, amount) \in Int /\ LockedAsset(side, p, amount) \in Int
    BY QuoteCovered, FundsTypes
  <1>3. amount * value \in Nat
    BY NatProduct
  <1>4. PICK x, y \in Int :
          /\ free' = [free EXCEPT ![AssetOf[p]] = x, ![QuoteOf[p]] = y]
          /\ y >= 0 /\ (Discipline = "long" => x >= 0)
    <2> DEFINE a == AssetAfterLock(side, p, amount)
               q == Quote(p) - LockedQuote(side, p, amount, value)
    <2>0. q \in Int /\ q >= 0 /\ a \in Int
      BY <1>2
    <2>1. CASE side = "SELL" /\ EntersShort(p, amount, value)
      <3>1. Discipline # "long"
        BY <2>1, AssetCovered DEF EntersShort
      <3>2. free' = [free EXCEPT ![AssetOf[p]] = a - amount, ![QuoteOf[p]] = q]
        BY <2>1 DEF Trade, FreeAfterTrade
      <3>3. a - amount \in Int
        BY <2>0
      <3> HIDE DEF a, q
      <3>. QED
        BY <2>0, <3>1, <3>2, <3>3
    <2>2. CASE side = "SELL" /\ ~EntersShort(p, amount, value)
      <3>1. free' = [free EXCEPT ![AssetOf[p]] = a, ![QuoteOf[p]] = q + amount * value]
        BY <2>2 DEF Trade, FreeAfterTrade
      <3>2. Discipline = "long" => a >= 0
        BY AssetCovered
      <3>3. q + amount * value \in Int /\ q + amount * value >= 0
        BY <1>3, <2>0
      <3> HIDE DEF a, q
      <3>. QED
        BY <2>0, <3>1, <3>2, <3>3
    <2>3. CASE side # "SELL"
      <3>1. free' = [free EXCEPT ![AssetOf[p]] = a + (amount - LockedAsset(side, p, amount)),
                                 ![QuoteOf[p]] = q]
        BY <2>3 DEF Trade, FreeAfterTrade
      <3>2. Discipline = "long" => a >= 0 /\ LockedAsset(side, p, amount) = 0
        BY <2>3, AssetCovered DEF Side
      <3>3. a + (amount - LockedAsset(side, p, amount)) \in Int
        BY <1>2
      <3>4. Discipline = "long" => a + (amount - LockedAsset(side, p, amount)) >= 0
        BY <1>2, <3>2
      <3> HIDE DEF a, q
      <3>. QED
        BY <2>0, <3>1, <3>3, <3>4
    <2>. QED
      BY <2>1, <2>2, <2>3
  <1>5. CASE Discipline = "long"
    BY <1>1, <1>4, <1>5 DEF NoOverdraft
  <1>6. CASE Discipline = "short"
    <2>1. \A q \in Pair : QuoteOf[q] \in Coin /\ QuoteOf[q] # AssetOf[p]
      BY <1>6, Inputs DEF QuotesAreNoAssets
    <2>2. \A q \in Pair : free[QuoteOf[q]] >= 0
      BY <1>6 DEF NoOverdraft, Quote
    <2>3. \A q \in Pair : free'[QuoteOf[q]] >= 0
      BY <1>1, <1>4, <2>1, <2>2
    <2>. QED
      BY <1>6, <2>3 DEF NoOverdraft, Quote
  <1>. QED
    BY <1>5, <1>6 DEF Covered

(* A wallet is never overdrawn: no sequence of requests, executions and    *)
(* cancellations takes a balance of a wallet used without short positions  *)
(* below zero, nor the quote balance of one whose short positions are      *)
(* closed entirely.                                                        *)
THEOREM NeverOverdrawn ==
  ASSUME Discipline # "any", Discipline = "short" => QuotesAreNoAssets
  PROVE  Spec => []NoOverdraft
  <1>1. Init => NoOverdraft
    BY Inputs, FundsAssumption DEF Init, NoOverdraft, Quote
  <1>2. TypeOK /\ NoOverdraft /\ [Next]_vars => NoOverdraft'
    <2> SUFFICES ASSUME TypeOK, NoOverdraft, [Next]_vars PROVE NoOverdraft'
      OBVIOUS
    <2>1. ASSUME NEW side \in Side, NEW p \in Pair, NEW amount \in Nat, NEW price \in Nat,
                 NEW method, MayRequest(method, side, p, amount),
                 Reserve(side, p, amount, price)
          PROVE  NoOverdraft'
      <3>1. Covered(side, p, amount, price)
        BY <2>1, RequestIsCovered DEF Reserve
      <3>. QED
        BY <2>1, <3>1, ReserveIsSolvent
    <2>2. ASSUME NEW side \in Side, NEW p \in Pair, NEW amount \in Nat,
                 NEW method, MayRequest(method, side, p, amount),
                 createOrderMarket(side, p, amount)
          PROVE  NoOverdraft'
      <3>1. lastClose[p] \in Nat /\ Trade(side, p, amount, lastClose[p])
        BY <2>2 DEF createOrderMarket, TypeOK
      <3>2. Covered(side, p, amount, lastClose[p])
        BY <2>2, <3>1, RequestIsCovered DEF Trade
      <3>. QED
        BY <3>1, <3>2, TradeIsSolvent
    <2>3. ASSUME NEW side \in Side, NEW p \in Pair, NEW quoteQuantity \in Prices,
                 CreateOrderMarketQuote(side, p, quoteQuantity)
          PROVE  NoOverdraft'
      <3>1. lastClose[p] \in Nat /\ lastClose[p] > 0 /\ quoteQuantity \in Nat
        BY <2>3, InputAssumption DEF CreateOrderMarketQuote, TypeOK
      <3>2. quoteQuantity \div lastClose[p] \in Nat
        BY <3>1
      <3>. QED
        BY <2>2, <2>3, <3>2 DEF CreateOrderMarketQuote
    <2>4. CASE Request
      <3>1. PICK side \in Side, p \in Pair, amount \in Sizes :
              \/ \E price, stop \in Prices : CreateOrderOCO(side, p, amount, price, stop, stop)
              \/ \E limit \in Prices : CreateOrderLimit(side, p, amount, limit)
              \/ CreateOrderMarket(side, p, amount)
        BY <2>4 DEF Request
      <3>2. amount \in Nat
        BY InputAssumption
      <3>3. ASSUME NEW price \in Prices, NEW stop \in Prices,
                   CreateOrderOCO(side, p, amount, price, stop, stop)
            PROVE  NoOverdraft'
        <4>1. price \in Nat
          BY InputAssumption
        <4>2. MayRequest("oco", side, p, amount) /\ Reserve(side, p, amount, price)
          BY <3>3 DEF CreateOrderOCO
        <4>. QED
          BY <2>1, <3>2, <4>1, <4>2
      <3>4. ASSUME NEW limit \in Prices, CreateOrderLimit(side, p, amount, limit)
            PROVE  NoOverdraft'
        <4>1. limit \in Nat
          BY InputAssumption
        <4>. QED
          BY <2>1, <3>2, <3>4, <4>1 DEF CreateOrderLimit
      <3>5. CASE CreateOrderMarket(side, p, amount)
        BY <2>2, <3>2, <3>5 DEF CreateOrderMarket
      <3>. QED
        BY <3>1, <3>3, <3>4, <3>5
    <2>5. CASE RequestStop
      BY <2>1, <2>5, InputAssumption DEF RequestStop, CreateOrderStop, Side
    <2>6. CASE ExecuteBuy \/ ExecuteSell
      <3>1. PICK c \in Coin, gain \in Nat : free' = [free EXCEPT ![c] = free[c] + gain]
        <4> DEFINE o == orders[scan.pos]
                   x == ExecutionPrice(o)
        <4>1. o \in Order
          <5>1. scan.pos \in DOMAIN orders
            BY <2>6 DEF ExecuteBuy, ExecuteSell
          <5>. QED
            BY <5>1 DEF TypeOK
        <4>2. /\ AssetOf[o.pair] \in Coin /\ QuoteOf[o.pair] \in Coin
              /\ o.qty \in Nat /\ x \in Nat
          BY <4>1, Inputs DEF Order, ExecutionPrice
        <4>3. o.qty * x \in Nat
          BY <4>2, NatProduct
        <4>4. \/ free' = [free EXCEPT ![AssetOf[o.pair]] = free[AssetOf[o.pair]] + o.qty]
              \/ free' = [free EXCEPT ![QuoteOf[o.pair]] = free[QuoteOf[o.pair]] + o.qty * x]
          BY <2>6 DEF ExecuteBuy, ExecuteSell
        <4> HIDE DEF o, x
        <4>. QED
          BY <4>2, <4>3, <4>4
      <3>2. \A d \in Coin : free'[d] >= free[d]
        BY <3>1 DEF TypeOK
      <3>3. free \in [Coin -> Int] /\ free' \in [Coin -> Int]
        BY <3>1 DEF TypeOK
      <3>. QED
        BY <3>2, <3>3, Inputs DEF NoOverdraft, Quote
    <2>7. CASE RequestCancel \/ Deliver \/ SkipOrder \/ OnCandleEnd \/ UNCHANGED vars
      <3>1. free' = free
        BY <2>7 DEF RequestCancel, Cancel, Deliver, OnCandleBegin, SkipOrder, OnCandleEnd, vars, ledger
      <3>. QED
        BY <3>1 DEF NoOverdraft, Quote
    <2>8. CASE RequestQuote
      BY <2>3, <2>8 DEF RequestQuote
    <2>. QED
      BY <2>4, <2>5, <2>6, <2>7, <2>8 DEF Next, OnCandleStep
  <1>. QED
    BY <1>1, <1>2, TypeCorrect, PTL DEF Spec

-----------------------------------------------------------------------------
(* Conservation: what the pending orders hold, and what the executed ones  *)
(* moved, accounts for every balance.                                      *)

(* What a step may do to the orders and the balances.  An order o sets its *)
(* reservation aside when it is created, or trades at once; an execution   *)
(* turns the reservation of the order at p into what it buys.              *)
Pends(o) ==
  /\ o.status = "NEW" /\ executed' = executed
  /\ \A c \in Coin : lock'[c] = lock[c] + HeldIn(c, o) /\ free'[c] = free[c] - HeldIn(c, o)

PendsOne(o) ==
  /\ Pends(o) /\ AddsOne(o)
  /\ o.type \notin {"MARKET", "LIMIT_MAKER", "STOP_LOSS"}

PendsTwo(a, b) ==
  /\ Pends(a) /\ AddsTwo(a, b)
  /\ <<"oco", a.side>> \in Ops
  /\ a.type = "LIMIT_MAKER" /\ b.type = "STOP_LOSS" /\ a.pair = b.pair /\ a.qty = b.qty

Trades(o) ==
  /\ AddsOne(o) /\ o.type = "MARKET" /\ executed' = executed \cup {o.id}
  /\ \A c \in Coin : lock'[c] = lock[c] /\ free'[c] = free[c] + Moved(c, o)

SameContracts ==
  /\ SameOrders
  /\ \A i \in DOMAIN orders :
       /\ orders'[i].pair = orders[i].pair /\ orders'[i].type = orders[i].type
       /\ orders'[i].price = orders[i].price /\ orders'[i].stop = orders[i].stop
       /\ orders'[i].qty = orders[i].qty

Rests == SameContracts /\ executed' = executed /\ free' = free /\ lock' = lock

Fills(p) ==
  /\ SameContracts /\ executed' = executed \cup {orders[p].id} /\ orders[p].status = "NEW"
  /\ \A c \in Coin :
       /\ lock'[c] = lock[c] - HeldIn(c, orders[p])
       /\ free'[c] = free[c] + HeldIn(c, orders[p]) + Moved(c, orders[p])

(* The requests of a client that never sells what is not free find the     *)
(* balances it has.                                                        *)
Solvent == TypeOK /\ NoOverdraft /\ Discipline = "long"

LEMMA MoneyTypes ==
  ASSUME NEW o \in Order, NEW c \in Coin
  PROVE  HeldIn(c, o) \in Nat /\ Moved(c, o) \in Int
  <1>1. /\ o.qty \in Nat /\ o.price \in Nat /\ o.stop \in Nat
    BY DEF Order
  <1>2. PICK x \in Nat : x = ExecutionPrice(o)
    BY <1>1 DEF ExecutionPrice
  <1>3. o.price * o.qty \in Nat
    BY <1>1, NatProduct
  <1>4. PICK s \in {1, -1} : s = IF o.side = "SELL" THEN 1 ELSE -1
    OBVIOUS
  <1>5. s * o.qty \in Int
    BY <1>1
  <1>6. s * o.qty * x \in Int
    BY <1>1, <1>5
  <1>. QED
    BY <1>1, <1>2, <1>3, <1>4, <1>5, <1>6 DEF HeldIn, Moved

(* A sale moves its quantity for what it is paid, a purchase the reverse.  *)
LEMMA MovedBySale ==
  ASSUME NEW o \in Order, NEW c \in Coin, o.side = "SELL", AssetOf[o.pair] # QuoteOf[o.pair]
  PROVE  /\ c = AssetOf[o.pair] => HeldIn(c, o) = o.qty /\ Moved(c, o) = -o.qty
         /\ c = QuoteOf[o.pair] => HeldIn(c, o) = 0 /\ Moved(c, o) = o.qty * ExecutionPrice(o)
         /\ c \notin {AssetOf[o.pair], QuoteOf[o.pair]} => HeldIn(c, o) = 0 /\ Moved(c, o) = 0
  <1>1. o.qty \in Nat /\ o.price \in Nat /\ o.stop \in Nat
    BY DEF Order
  <1>2. PICK x \in Nat : x = ExecutionPrice(o)
    BY <1>1 DEF ExecutionPrice
  <1>3. 1 * o.qty = o.qty /\ o.qty * x \in Int
    BY <1>1
  <1>. QED
    BY <1>1, <1>2, <1>3 DEF HeldIn, Moved

LEMMA MovedByPurchase ==
  ASSUME NEW o \in Order, NEW c \in Coin, o.side = "BUY", AssetOf[o.pair] # QuoteOf[o.pair]
  PROVE  /\ c = AssetOf[o.pair] => HeldIn(c, o) = 0 /\ Moved(c, o) = o.qty
         /\ c = QuoteOf[o.pair] => HeldIn(c, o) = o.price * o.qty /\ Moved(c, o) = -(o.price * o.qty)
         /\ c \notin {AssetOf[o.pair], QuoteOf[o.pair]} => HeldIn(c, o) = 0 /\ Moved(c, o) = 0
  <1>1. o.qty \in Nat /\ o.price \in Nat /\ ExecutionPrice(o) = o.price
    BY DEF Order, ExecutionPrice
  <1>2. (-1) * o.qty = -o.qty /\ (-1) * o.qty * o.price = -(o.price * o.qty)
    BY <1>1
  <1>3. o.price * o.qty \in Int
    BY <1>1
  <1>. QED
    BY <1>1, <1>2, <1>3 DEF HeldIn, Moved

(* Setting funds aside moves exactly the new order's reservation.          *)
LEMMA ReserveMoves ==
  ASSUME Solvent, NEW o \in Order, NEW method, o.status = "NEW", executed' = executed,
         MayRequest(method, o.side, o.pair, o.qty), Reserve(o.side, o.pair, o.qty, o.price)
  PROVE  Pends(o)
  <1> DEFINE p == o.pair
             a == AssetOf[p]
             q == QuoteOf[p]
             la == LockedAsset(o.side, p, o.qty)
             lq == LockedQuote(o.side, p, o.qty, o.price)
  <1>1. /\ p \in Pair /\ o.side \in Side /\ o.qty \in Nat /\ o.price \in Nat
        /\ a \in Coin /\ q \in Coin /\ a # q
        /\ free \in [Coin -> Int] /\ lock \in [Coin -> Int]
    BY Inputs DEF Order, Solvent, TypeOK
  <1>2. Covered(o.side, p, o.qty, o.price)
    BY <1>1, RequestIsCovered DEF Solvent, Reserve
  <1>3. /\ la \in Int /\ lq \in Int /\ Asset(p) \in Int
    BY <1>1, FundsTypes DEF Solvent
  <1>4. /\ free' = [free EXCEPT ![a] = AssetAfterLock(o.side, p, o.qty), ![q] = free[q] - lq]
        /\ lock' = [lock EXCEPT ![a] = lock[a] + la, ![q] = lock[q] + lq]
    BY <1>1 DEF Reserve
  <1>5. CASE o.side = "SELL"
    <2>1. lq = 0 /\ la = o.qty
      <3>1. lq = 0 /\ o.qty <= Asset(p) /\ Asset(p) >= 0
        BY <1>1, <1>2, <1>5, AssetCovered DEF Solvent, Covered, Disciplined
      <3>. QED
        BY <1>1, <1>3, <1>5, <3>1 DEF LockedAsset, MinOf, MaxOf
    <2>2. AssetAfterLock(o.side, p, o.qty) = free[a] - o.qty
      BY <1>5, <2>1 DEF AssetAfterLock, Asset
    <2>3. \A c \in Coin :
            /\ lock'[c] = lock[c] + (IF c = a THEN o.qty ELSE 0)
            /\ free'[c] = free[c] - (IF c = a THEN o.qty ELSE 0)
      BY <1>1, <1>4, <2>1, <2>2
    <2>4. \A c \in Coin : HeldIn(c, o) = IF c = a THEN o.qty ELSE 0
      BY <1>5 DEF HeldIn
    <2>. QED
      BY <2>3, <2>4 DEF Pends
  <1>6. CASE o.side = "BUY"
    <2>1. la = 0
      BY <1>1, <1>2, <1>6, AssetCovered DEF Solvent
    <2>2. lq = o.price * o.qty
      <3>1. lq = (o.qty - la) * o.price - LiquidShort(p, o.price)
        BY <1>6 DEF LockedQuote
      <3>2. LiquidShort(p, o.price) = 0
        BY <1>2, <1>3 DEF LiquidShort, Covered, Solvent
      <3>3. o.qty - 0 = o.qty /\ o.qty * o.price = o.price * o.qty /\ o.qty * o.price \in Int
        BY <1>1
      <3>. QED
        BY <2>1, <3>1, <3>2, <3>3
    <2>3. AssetAfterLock(o.side, p, o.qty) = free[a]
      BY <1>1, <1>6, <2>1 DEF AssetAfterLock, Asset
    <2>4. \A c \in Coin : HeldIn(c, o) = IF c = q THEN lq ELSE 0
      BY <1>6, <2>2 DEF HeldIn
    <2> HIDE DEF a, q, la, lq
    <2>5. \A c \in Coin :
            /\ lock'[c] = lock[c] + (IF c = q THEN lq ELSE 0)
            /\ free'[c] = free[c] - (IF c = q THEN lq ELSE 0)
      BY <1>1, <1>3, <1>4, <2>1, <2>3
    <2>. QED
      BY <2>4, <2>5 DEF Pends
  <1>. QED
    BY <1>1, <1>5, <1>6 DEF Side

(* Trading at once moves exactly what the order exchanges.                 *)
LEMMA TradeMoves ==
  ASSUME Solvent, NEW o \in Order, NEW method, o.type = "MARKET",
         MayRequest(method, o.side, o.pair, o.qty), Trade(o.side, o.pair, o.qty, o.price)
  PROVE  \A c \in Coin : lock'[c] = lock[c] /\ free'[c] = free[c] + Moved(c, o)
  <1> DEFINE p == o.pair
             a == AssetOf[p]
             q == QuoteOf[p]
             la == LockedAsset(o.side, p, o.qty)
             lq == LockedQuote(o.side, p, o.qty, o.price)
             paid == o.price * o.qty
  <1>1. /\ p \in Pair /\ o.side \in Side /\ o.qty \in Nat /\ o.price \in Nat
        /\ a \in Coin /\ q \in Coin /\ a # q
        /\ free \in [Coin -> Int] /\ lock \in [Coin -> Int]
        /\ ExecutionPrice(o) = o.price
    BY Inputs DEF Order, Solvent, TypeOK, ExecutionPrice
  <1>2. Covered(o.side, p, o.qty, o.price)
    BY <1>1, RequestIsCovered DEF Solvent, Trade
  <1>3. la \in Int /\ lq \in Int /\ Asset(p) \in Int /\ Quote(p) = free[q] /\ Asset(p) = free[a]
    BY <1>1, FundsTypes DEF Solvent, Quote, Asset
  <1>4. free' = FreeAfterTrade(o.side, p, o.qty, o.price) /\ lock' = lock
    BY DEF Trade
  <1>5. o.qty * o.price = paid /\ paid \in Int
    BY <1>1
  <1>6. CASE o.side = "SELL"
    <2>1. lq = 0 /\ la = o.qty
      <3>1. lq = 0 /\ o.qty <= Asset(p) /\ Asset(p) >= 0
        BY <1>1, <1>2, <1>6, AssetCovered DEF Solvent, Covered, Disciplined
      <3>. QED
        BY <1>1, <1>3, <1>6, <3>1 DEF LockedAsset, MinOf, MaxOf
    <2>2. free' = [free EXCEPT ![a] = free[a] - o.qty, ![q] = free[q] - 0 + paid]
      <3>1. ~EntersShort(p, o.qty, o.price)
        BY <1>6, <2>1 DEF EntersShort
      <3>2. FreeAfterTrade(o.side, p, o.qty, o.price) =
              [free EXCEPT ![a] = AssetAfterLock(o.side, p, o.qty),
                           ![q] = Quote(p) - lq + o.qty * o.price]
        BY <1>6, <3>1 DEF FreeAfterTrade
      <3>3. AssetAfterLock(o.side, p, o.qty) = free[a] - o.qty
        BY <1>3, <1>6, <2>1 DEF AssetAfterLock
      <3>. QED
        BY <1>3, <1>4, <1>5, <2>1, <3>2, <3>3
    <2>3. \A c \in Coin : /\ c = a => Moved(c, o) = -o.qty
                          /\ c = q => Moved(c, o) = paid
                          /\ c \notin {a, q} => Moved(c, o) = 0
      BY <1>1, <1>5, <1>6, MovedBySale
    <2> HIDE DEF a, q, paid
    <2>. QED
      BY <1>1, <1>4, <1>5, <2>2, <2>3
  <1>7. CASE o.side = "BUY"
    <2>1. la = 0
      BY <1>1, <1>2, <1>7, AssetCovered DEF Solvent
    <2>2. lq = paid
      <3>1. lq = (o.qty - la) * o.price - LiquidShort(p, o.price)
        BY <1>7 DEF LockedQuote
      <3>2. LiquidShort(p, o.price) = 0
        BY <1>2, <1>3 DEF LiquidShort, Covered, Solvent
      <3>3. o.qty - 0 = o.qty
        BY <1>1
      <3>. QED
        BY <1>5, <2>1, <3>1, <3>2, <3>3
    <2>3. free' = [free EXCEPT ![a] = free[a] + la + (o.qty - la), ![q] = free[q] - lq]
      BY <1>3, <1>4, <1>7 DEF FreeAfterTrade, AssetAfterLock
    <2>4. \A c \in Coin : /\ c = a => Moved(c, o) = o.qty
                          /\ c = q => Moved(c, o) = -paid
                          /\ c \notin {a, q} => Moved(c, o) = 0
      BY <1>1, <1>7, MovedByPurchase
    <2> HIDE DEF a, q, la, lq, paid
    <2>. QED
      BY <1>1, <1>4, <1>5, <2>1, <2>2, <2>3, <2>4
  <1>. QED
    BY <1>1, <1>6, <1>7 DEF Side

(* Executing an order turns its reservation into what it exchanges.        *)
LEMMA FillMoves ==
  ASSUME Solvent, OCOInv, ExecuteBuy \/ ExecuteSell
  PROVE  scan.pos \in DOMAIN orders /\ Fills(scan.pos)
  <1> DEFINE p == scan.pos
             o == orders[p]
             a == AssetOf[o.pair]
             q == QuoteOf[o.pair]
             x == ExecutionPrice(o)
  <1>0. /\ p \in DOMAIN orders /\ o.status = "NEW" /\ executed' = executed \cup {o.id}
        /\ \A j \in DOMAIN orders : orders[j] \in Order
    <2>1. p \in DOMAIN orders /\ Considered(p) /\ executed' = executed \cup {o.id}
      BY DEF ExecuteBuy, ExecuteSell, RecordExecution
    <2>2. \A j \in DOMAIN orders : orders[j] \in Order
      BY DEF Solvent, TypeOK
    <2>3. o.status = "NEW"
      BY <2>1 DEF Considered
    <2>. QED
      BY <2>1, <2>2, <2>3
  <1>1. /\ o \in Order /\ a \in Coin /\ q \in Coin /\ a # q
        /\ o.qty \in Nat /\ o.price \in Nat /\ x \in Nat
        /\ free \in [Coin -> Int] /\ lock \in [Coin -> Int]
    BY <1>0, Inputs DEF Order, Solvent, TypeOK, ExecutionPrice
  <1>2. SameOrders
    BY BuyShape, SellShape DEF Executes, Solvent
  <1>3. SameContracts
    <2>1. ASSUME NEW i \in DOMAIN orders
          PROVE  \E s \in Status : orders'[i] = [orders[i] EXCEPT !.status = s]
      <3>1. CASE ExecuteBuy
        <4>1. orders[i] = [orders[i] EXCEPT !.status = orders[i].status]
              /\ orders[i].status \in Status
          BY <1>0 DEF Order
        <4>2. orders' = [orders EXCEPT ![p] = [orders[p] EXCEPT !.status = "FILLED"]]
          BY <3>1 DEF ExecuteBuy
        <4>. QED
          BY <4>1, <4>2 DEF Status
      <3>2. CASE ExecuteSell
        <4>1. orders'[i] = [orders[i] EXCEPT !.status = StatusAfterSell(p, i)]
          BY <3>2 DEF ExecuteSell
        <4>2. StatusAfterSell(p, i) \in Status
          BY <1>0 DEF StatusAfterSell, Order, Status
        <4>. QED
          BY <4>1, <4>2
      <3>. QED
        BY <3>1, <3>2
    <2>2. ASSUME NEW i \in DOMAIN orders
          PROVE  /\ orders'[i].pair = orders[i].pair /\ orders'[i].type = orders[i].type
                 /\ orders'[i].price = orders[i].price /\ orders'[i].stop = orders[i].stop
                 /\ orders'[i].qty = orders[i].qty
      BY <1>0, <2>1 DEF Order
    <2>. QED
      BY <1>2, <2>2 DEF SameContracts
  <1>4. CASE ExecuteBuy
    <2>1. /\ o.side = "BUY"
          /\ free' = [free EXCEPT ![a] = free[a] + o.qty]
          /\ lock' = [lock EXCEPT ![q] = lock[q] - o.price * o.qty]
      BY <1>4 DEF ExecuteBuy, BuyTriggered
    <2>2. \A c \in Coin :
            /\ c = a => HeldIn(c, o) = 0 /\ Moved(c, o) = o.qty
            /\ c = q => HeldIn(c, o) = o.price * o.qty /\ Moved(c, o) = -(o.price * o.qty)
            /\ c \notin {a, q} => HeldIn(c, o) = 0 /\ Moved(c, o) = 0
      BY <1>1, <2>1, MovedByPurchase
    <2>3. PICK paid \in Int : paid = o.price * o.qty
      BY <1>1, NatProduct
    <2> HIDE DEF a, q
    <2>4. \A c \in Coin : /\ lock'[c] = lock[c] - HeldIn(c, o)
                          /\ free'[c] = free[c] + HeldIn(c, o) + Moved(c, o)
      BY <1>1, <2>1, <2>2, <2>3
    <2>. QED
      BY <1>0, <1>3, <2>4 DEF Fills
  <1>5. CASE ExecuteSell
    <2>1. /\ o.side = "SELL"
          /\ free' = [free EXCEPT ![q] = free[q] + o.qty * x]
          /\ lock' = [lock EXCEPT ![a] = lock[a] - o.qty]
      BY <1>5 DEF ExecuteSell, SellTriggered
    <2>2. \A c \in Coin :
            /\ c = a => HeldIn(c, o) = o.qty /\ Moved(c, o) = -o.qty
            /\ c = q => HeldIn(c, o) = 0 /\ Moved(c, o) = o.qty * x
            /\ c \notin {a, q} => HeldIn(c, o) = 0 /\ Moved(c, o) = 0
      BY <1>1, <2>1, MovedBySale
    <2>3. PICK paid \in Int : paid = o.qty * x
      BY <1>1, NatProduct
    <2> HIDE DEF a, q, x
    <2>4. \A c \in Coin : /\ lock'[c] = lock[c] - HeldIn(c, o)
                          /\ free'[c] = free[c] + HeldIn(c, o) + Moved(c, o)
      BY <1>1, <2>1, <2>2, <2>3
    <2>. QED
      BY <1>0, <1>3, <2>4 DEF Fills
  <1>. QED
    BY <1>0, <1>4, <1>5

(* Every step is one of these.                                             *)
LEMMA MoneyShapes ==
  ASSUME Solvent, OCOInv, [Next]_vars
  PROVE  \/ \E o \in Order : PendsOne(o) \/ Trades(o)
         \/ \E a, b \in Order : PendsTwo(a, b)
         \/ Rests
         \/ \E p \in DOMAIN orders : Fills(p)
  <1> DEFINE Shape == \/ \E o \in Order : PendsOne(o) \/ Trades(o)
                      \/ \E a, b \in Order : PendsTwo(a, b)
                      \/ Rests
                      \/ \E p \in DOMAIN orders : Fills(p)
  <1>0. TypeOK /\ counter \in Nat
    BY DEF Solvent, TypeOK
  <1>1. ASSUME NEW side \in Side, NEW p \in Pair, NEW amount \in Sizes, NEW price \in Prices,
               NEW stop \in Prices, CreateOrderOCO(side, p, amount, price, stop, stop)
        PROVE  Shape
    <2>1. amount \in Nat /\ price \in Nat /\ stop \in Nat
      BY InputAssumption
    <2> DEFINE a == NewOrder(counter + 2, counter + 1, p, side, "LIMIT_MAKER", price, 0, amount)
               b == NewOrder(counter + 3, counter + 1, p, side, "STOP_LOSS", stop, stop, amount)
    <2>2. a \in Order /\ b \in Order
      BY <1>0, <2>1, NewOrderType DEF Type
    <2>3. /\ a.group = counter + 1 /\ b.group = counter + 1 /\ a.side = side /\ b.side = side
          /\ a.id = counter + 2 /\ b.id = counter + 3 /\ a.status = "NEW"
          /\ a.pair = p /\ b.pair = p /\ a.qty = amount /\ b.qty = amount /\ a.price = price
          /\ a.type = "LIMIT_MAKER" /\ b.type = "STOP_LOSS"
      BY DEF NewOrder
    <2>4. /\ orders' = orders \o <<a, b>> /\ counter' = counter + 3 /\ executed' = executed
          /\ MayRequest("oco", side, p, amount) /\ Reserve(side, p, amount, price)
      BY <1>1 DEF CreateOrderOCO
    <2> HIDE DEF a, b
    <2>5. Pends(a)
      BY <2>2, <2>3, <2>4, ReserveMoves
    <2>6. PendsTwo(a, b)
      BY <2>3, <2>4, <2>5 DEF PendsTwo, AddsTwo, MayRequest
    <2>. QED
      BY <2>2, <2>6
  <1>2. ASSUME NEW side \in Side, NEW p \in Pair, NEW amount \in Sizes, NEW limit \in Prices,
               CreateOrderLimit(side, p, amount, limit)
        PROVE  Shape
    <2>1. amount \in Nat /\ limit \in Nat
      BY InputAssumption
    <2> DEFINE o == NewOrder(counter + 1, 0, p, side, "LIMIT", limit, 0, amount)
    <2>2. o \in Order
      BY <1>0, <2>1, NewOrderType DEF Type
    <2>3. /\ o.id = counter + 1 /\ o.group = 0 /\ o.side = side /\ o.pair = p /\ o.qty = amount
          /\ o.price = limit /\ o.type = "LIMIT" /\ o.status = "NEW"
      BY DEF NewOrder
    <2>4. /\ orders' = Append(orders, o) /\ counter' = counter + 1 /\ executed' = executed
          /\ MayRequest("limit", side, p, amount) /\ Reserve(side, p, amount, limit)
      BY <1>2 DEF CreateOrderLimit
    <2> HIDE DEF o
    <2>5. Pends(o)
      BY <2>2, <2>3, <2>4, ReserveMoves
    <2>6. PendsOne(o)
      BY <2>3, <2>4, <2>5 DEF PendsOne, AddsOne
    <2>. QED
      BY <2>2, <2>6
  <1>3. ASSUME NEW p \in Pair, NEW amount \in Sizes, NEW limit \in Prices,
               CreateOrderStop(p, amount, limit)
        PROVE  Shape
    <2>1. amount \in Nat /\ limit \in Nat /\ "SELL" \in Side
      BY InputAssumption DEF Side
    <2> DEFINE o == NewOrder(counter + 1, 0, p, "SELL", "STOP_LOSS_LIMIT", limit, limit, amount)
    <2>2. o \in Order
      BY <1>0, <2>1, NewOrderType DEF Type
    <2>3. /\ o.id = counter + 1 /\ o.group = 0 /\ o.side = "SELL" /\ o.pair = p /\ o.qty = amount
          /\ o.price = limit /\ o.type = "STOP_LOSS_LIMIT" /\ o.status = "NEW"
      BY DEF NewOrder
    <2>4. /\ orders' = Append(orders, o) /\ counter' = counter + 1 /\ executed' = executed
          /\ MayRequest("stop", "SELL", p, amount) /\ Reserve("SELL", p, amount, limit)
      BY <1>3 DEF CreateOrderStop
    <2> HIDE DEF o
    <2>5. Pends(o)
      BY <2>2, <2>3, <2>4, ReserveMoves
    <2>6. PendsOne(o)
      BY <2>3, <2>4, <2>5 DEF PendsOne, AddsOne
    <2>. QED
      BY <2>2, <2>6
  <1>4. ASSUME NEW side \in Side, NEW p \in Pair, NEW amount \in Nat, NEW method,
               MayRequest(method, side, p, amount), createOrderMarket(side, p, amount)
        PROVE  Shape
    <2>1. lastClose[p] \in Nat
      BY <1>0 DEF TypeOK
    <2> DEFINE o == NewOrder(counter + 1, 0, p, side, "MARKET", lastClose[p], 0, amount)
    <2>2. o \in Order
      BY <1>0, <2>1, NewOrderType DEF Type
    <2>3. /\ o.id = counter + 1 /\ o.group = 0 /\ o.side = side /\ o.pair = p /\ o.qty = amount
          /\ o.price = lastClose[p] /\ o.type = "MARKET" /\ o.status # "NEW"
      BY DEF NewOrder
    <2>4. /\ orders' = Append(orders, o) /\ counter' = counter + 1
          /\ executed' = executed \cup {counter + 1}
          /\ Trade(side, p, amount, lastClose[p])
      BY <1>4 DEF createOrderMarket
    <2> HIDE DEF o
    <2>5. \A c \in Coin : lock'[c] = lock[c] /\ free'[c] = free[c] + Moved(c, o)
      BY <1>4, <2>2, <2>3, <2>4, TradeMoves
    <2>6. Trades(o)
      BY <2>3, <2>4, <2>5 DEF Trades, AddsOne
    <2>. QED
      BY <2>2, <2>6
  <1>5. ASSUME NEW side \in Side, NEW p \in Pair, NEW quoteQuantity \in Prices,
               CreateOrderMarketQuote(side, p, quoteQuantity)
        PROVE  Shape
    <2>1. lastClose[p] \in Nat /\ lastClose[p] > 0 /\ quoteQuantity \in Nat
      BY <1>0, <1>5, InputAssumption DEF CreateOrderMarketQuote, TypeOK
    <2>2. quoteQuantity \div lastClose[p] \in Nat
      BY <2>1
    <2>. QED
      BY <1>4, <1>5, <2>2 DEF CreateOrderMarketQuote
  <1>6. ASSUME NEW id \in 1..counter, Cancel(id) PROVE Rests
    <2>1. \A i \in DOMAIN orders : orders[i] \in Order
      BY <1>0 DEF TypeOK
    <2> DEFINE cancelled(i) ==
                 IF orders[i].id = id THEN [orders[i] EXCEPT !.status = "CANCELED"] ELSE orders[i]
    <2>2. /\ orders' = [i \in DOMAIN orders |-> cancelled(i)]
          /\ counter' = counter /\ executed' = executed /\ free' = free /\ lock' = lock
      BY <1>6 DEF Cancel, ledger
    <2>3. \A i \in DOMAIN orders :
            /\ cancelled(i).id = orders[i].id /\ cancelled(i).group = orders[i].group
            /\ cancelled(i).side = orders[i].side /\ cancelled(i).pair = orders[i].pair
            /\ cancelled(i).type = orders[i].type /\ cancelled(i).price = orders[i].price
            /\ cancelled(i).stop = orders[i].stop /\ cancelled(i).qty = orders[i].qty
            /\ orders[i].status # "NEW" => cancelled(i).status # "NEW"
      BY <2>1 DEF Order
    <2> HIDE DEF cancelled
    <2>. QED
      BY <2>2, <2>3 DEF Rests, SameContracts, SameOrders
  <1>7. CASE Deliver \/ SkipOrder \/ OnCandleEnd \/ UNCHANGED vars
    <2>1. Rests
      BY <1>7 DEF Deliver, OnCandleBegin, SkipOrder, OnCandleEnd, vars, ledger, Rests,
                  SameContracts, SameOrders
    <2>. QED
      BY <2>1
  <1>8. CASE ExecuteBuy \/ ExecuteSell
    BY <1>8, FillMoves
  <1>9. CASE Request
    <2>1. PICK side \in Side, p \in Pair, amount \in Sizes :
            \/ \E price, stop \in Prices : CreateOrderOCO(side, p, amount, price, stop, stop)
            \/ \E limit \in Prices : CreateOrderLimit(side, p, amount, limit)
            \/ CreateOrderMarket(side, p, amount)
      BY <1>9 DEF Request
    <2>2. amount \in Nat
      BY InputAssumption
    <2>3. CASE \E price, stop \in Prices : CreateOrderOCO(side, p, amount, price, stop, stop)
      BY <1>1, <2>3
    <2>4. CASE \E limit \in Prices : CreateOrderLimit(side, p, amount, limit)
      BY <1>2, <2>4
    <2>5. CASE CreateOrderMarket(side, p, amount)
      <3>1. MayRequest("market", side, p, amount) /\ createOrderMarket(side, p, amount)
        BY <2>5 DEF CreateOrderMarket
      <3>. QED
        BY <1>4, <2>2, <3>1
    <2>. QED
      BY <2>1, <2>3, <2>4, <2>5
  <1>10. CASE RequestStop \/ RequestQuote \/ RequestCancel
    <2>1. CASE RequestCancel
      BY <1>6, <2>1 DEF RequestCancel
    <2>2. CASE RequestStop
      BY <1>3, <2>2 DEF RequestStop
    <2>3. CASE RequestQuote
      BY <1>5, <2>3 DEF RequestQuote
    <2>. QED
      BY <1>10, <2>1, <2>2, <2>3
  <1>. QED
    BY <1>7, <1>8, <1>9, <1>10 DEF Next, OnCandleStep

(* Reservations and exchanges depend on what an order asks for only.       *)
LEMMA SameReservations ==
  ASSUME SameContracts, NEW i \in DOMAIN orders, NEW c
  PROVE  HeldIn(c, orders'[i]) = HeldIn(c, orders[i]) /\ Moved(c, orders'[i]) = Moved(c, orders[i])
  BY DEF SameContracts, SameOrders, HeldIn, Moved, ExecutionPrice

ReservedOf(c) == [i \in DOMAIN orders |-> HeldIn(c, orders[i])]
MovedOf(c) == [i \in DOMAIN orders |-> Moved(c, orders[i])]

LEMMA FiniteBook ==
  ASSUME TypeOK
  PROVE  /\ IsFiniteSet(Holding) /\ IsFiniteSet(Executions)
         /\ \A c \in Coin, i \in DOMAIN orders :
              ReservedOf(c)[i] \in Int /\ MovedOf(c)[i] \in Int
  <1>1. DOMAIN orders = 1..Len(orders) /\ Len(orders) \in Nat
        /\ \A i \in DOMAIN orders : orders[i] \in Order
    BY DEF TypeOK
  <1>2. IsFiniteSet(DOMAIN orders)
    BY <1>1, FS_Interval
  <1>3. Holding \in SUBSET DOMAIN orders /\ Executions \in SUBSET DOMAIN orders
    BY DEF Holding, Executions
  <1>4. IsFiniteSet(Holding) /\ IsFiniteSet(Executions)
    BY <1>2, <1>3, FS_Subset
  <1>5. \A c \in Coin, i \in DOMAIN orders : ReservedOf(c)[i] \in Int /\ MovedOf(c)[i] \in Int
    BY <1>1, MoneyTypes DEF ReservedOf, MovedOf
  <1>. QED
    BY <1>4, <1>5

(* The executed orders after each kind of step.                            *)
LEMMA ExecutionsAfter ==
  ASSUME TypeOK, OCOInv
  PROVE  /\ Rests \/ (\E o \in Order : PendsOne(o)) \/ (\E a, b \in Order : PendsTwo(a, b))
              => Executions' = Executions
         /\ \A o \in Order : Trades(o) =>
              /\ Len(orders) + 1 \notin DOMAIN orders /\ orders'[Len(orders) + 1] = o
              /\ Executions' = Executions \cup {Len(orders) + 1}
         /\ \A p \in DOMAIN orders : Fills(p) => p \notin Executions
                                               /\ Executions' = Executions \cup {p}
  <1>1. /\ counter \in Nat /\ orders \in Seq(Order) /\ Len(orders) \in Nat
        /\ DOMAIN orders = 1..Len(orders)
        /\ \A i \in DOMAIN orders : orders[i].id \in 1..counter
        /\ executed \subseteq 1..counter
    BY DEF TypeOK, OCOInv, IdentityInv
  <1>2. ASSUME Rests PROVE Executions' = Executions
    BY <1>2 DEF Rests, SameContracts, SameOrders, Executions
  <1>3. ASSUME NEW o \in Order, PendsOne(o) PROVE Executions' = Executions
    <2>1. /\ DOMAIN orders' = DOMAIN orders \cup {Len(orders) + 1}
          /\ \A i \in DOMAIN orders : orders'[i] = orders[i]
          /\ orders'[Len(orders) + 1].id = counter + 1 /\ executed' = executed
      BY <1>1, <1>3, AppendOne DEF PendsOne, Pends, AddsOne
    <2>2. counter + 1 \notin executed
      BY <1>1
    <2>. QED
      BY <2>1, <2>2 DEF Executions
  <1>4. ASSUME NEW a \in Order, NEW b \in Order, PendsTwo(a, b) PROVE Executions' = Executions
    <2>1. /\ DOMAIN orders' = DOMAIN orders \cup {Len(orders) + 1, Len(orders) + 2}
          /\ \A i \in DOMAIN orders : orders'[i] = orders[i]
          /\ orders'[Len(orders) + 1].id = counter + 2 /\ orders'[Len(orders) + 2].id = counter + 3
          /\ executed' = executed
      BY <1>1, <1>4, AppendTwo DEF PendsTwo, AddsTwo
    <2>2. counter + 2 \notin executed /\ counter + 3 \notin executed
      BY <1>1
    <2>. QED
      BY <2>1, <2>2 DEF Executions
  <1>5. ASSUME NEW o \in Order, Trades(o)
        PROVE  /\ Len(orders) + 1 \notin DOMAIN orders /\ orders'[Len(orders) + 1] = o
               /\ Executions' = Executions \cup {Len(orders) + 1}
    <2>1. /\ DOMAIN orders' = DOMAIN orders \cup {Len(orders) + 1}
          /\ \A i \in DOMAIN orders : orders'[i] = orders[i] /\ i # Len(orders) + 1
          /\ orders'[Len(orders) + 1] = o
          /\ o.id = counter + 1 /\ executed' = executed \cup {counter + 1}
      BY <1>1, <1>5, AppendOne DEF Trades, AddsOne
    <2>2. \A i \in DOMAIN orders : orders[i].id # counter + 1
      BY <1>1
    <2>. QED
      BY <2>1, <2>2 DEF Executions
  <1>6. ASSUME NEW p \in DOMAIN orders, Fills(p)
        PROVE  p \notin Executions /\ Executions' = Executions \cup {p}
    <2>1. orders[p].id \notin executed
      BY <1>6 DEF Fills, OCOInv, SettledInv
    <2>2. \A i \in DOMAIN orders : orders[i].id = orders[p].id => i = p
      BY DEF OCOInv, IdentityInv
    <2>3. /\ DOMAIN orders' = DOMAIN orders /\ \A i \in DOMAIN orders : orders'[i].id = orders[i].id
          /\ executed' = executed \cup {orders[p].id}
      BY <1>6 DEF Fills, SameContracts, SameOrders
    <2>. QED
      BY <2>1, <2>2, <2>3 DEF Executions
  <1>. QED
    BY <1>2, <1>3, <1>4, <1>5, <1>6

(* Every balance is accounted for.                                         *)
MoneyInv ==
  \A c \in Coin : free[c] + lock[c] = InitialFree[c] + SumFunctionOnSet(MovedOf(c), Executions)

LEMMA MoneyStep == ASSUME Solvent, OCOInv, MoneyInv, [Next]_vars PROVE MoneyInv'
  <1> SUFFICES ASSUME NEW c \in Coin
               PROVE  free'[c] + lock'[c]
                        = InitialFree[c] + SumFunctionOnSet(MovedOf(c)', Executions')
    BY DEF MoneyInv
  <1> DEFINE f == MovedOf(c)
             g == MovedOf(c)'
             total == SumFunctionOnSet(f, Executions)
  <1>1. /\ IsFiniteSet(Executions) /\ \A i \in DOMAIN orders : f[i] \in Int
        /\ Executions \subseteq DOMAIN orders
        /\ free[c] \in Int /\ lock[c] \in Int /\ InitialFree[c] \in Int
        /\ DOMAIN orders = 1..Len(orders) /\ Len(orders) \in Nat /\ orders \in Seq(Order)
    BY FiniteBook, FundsAssumption DEF Executions, Solvent, TypeOK
  <1>2. total \in Int
    BY <1>1, SumType
  <1>3. free[c] + lock[c] = InitialFree[c] + total
    BY DEF MoneyInv
  <1>4. CASE Rests
    <2>1. Executions' = Executions /\ free'[c] = free[c] /\ lock'[c] = lock[c]
      BY <1>4, ExecutionsAfter DEF Rests, Solvent
    <2>2. \A i \in Executions : f[i] = g[i]
      BY <1>1, <1>4, SameReservations DEF Rests, SameContracts, SameOrders, MovedOf
    <2> HIDE DEF f, g
    <2>3. SumFunctionOnSet(g, Executions) = total
      BY <1>1, <2>2, SameSums
    <2>. QED
      BY <1>3, <2>1, <2>3 DEF f, g
  <1>5. CASE (\E o \in Order : PendsOne(o)) \/ \E a, b \in Order : PendsTwo(a, b)
    <2>1. Executions' = Executions
      BY <1>5, ExecutionsAfter DEF Solvent
    <2>2. PICK x \in Nat : lock'[c] = lock[c] + x /\ free'[c] = free[c] - x
      BY <1>5, MoneyTypes DEF PendsOne, PendsTwo, Pends
    <2>3. \A i \in DOMAIN orders : i \in DOMAIN orders' /\ orders'[i] = orders[i]
      <3>1. CASE \E o \in Order : PendsOne(o)
        BY <1>1, <3>1, AppendOne DEF PendsOne, AddsOne
      <3>2. CASE \E a, b \in Order : PendsTwo(a, b)
        BY <1>1, <3>2, AppendTwo DEF PendsTwo, AddsTwo
      <3>. QED
        BY <1>5, <3>1, <3>2
    <2>4. \A i \in Executions : f[i] = g[i]
      BY <1>1, <2>3 DEF MovedOf
    <2> HIDE DEF f, g
    <2>5. SumFunctionOnSet(g, Executions) = total
      BY <1>1, <2>4, SameSums
    <2>6. free'[c] + lock'[c] = free[c] + lock[c]
      BY <1>1, <2>2
    <2>. QED
      BY <1>3, <2>1, <2>5, <2>6 DEF f, g
  <1>6. ASSUME NEW o \in Order, Trades(o)
        PROVE  free'[c] + lock'[c] = InitialFree[c] + SumFunctionOnSet(g, Executions')
    <2> DEFINE n == Len(orders) + 1
    <2>1. n \notin DOMAIN orders /\ orders'[n] = o /\ Executions' = Executions \cup {n}
      BY <1>6, ExecutionsAfter DEF Solvent
    <2>2. \A i \in DOMAIN orders \cup {n} : i \in DOMAIN orders' /\ (i # n => orders'[i] = orders[i])
      BY <1>1, <1>6, AppendOne DEF Trades, AddsOne
    <2>3. /\ \A i \in Executions : f[i] \in Int /\ g[i] = f[i]
          /\ n \notin Executions /\ g[n] = Moved(c, o) /\ g[n] \in Int
      BY <1>1, <2>1, <2>2, MoneyTypes DEF MovedOf
    <2> HIDE DEF f, g, n
    <2>4. SumFunctionOnSet(g, Executions') = g[n] + total
      BY <1>1, <2>1, <2>3, SumOfOneMore
    <2>5. free'[c] = free[c] + g[n] /\ lock'[c] = lock[c]
      BY <1>6, <2>3 DEF Trades
    <2>6. free'[c] + lock'[c] = free[c] + lock[c] + g[n]
      BY <1>1, <2>3, <2>5
    <2>. QED
      BY <1>1, <1>2, <1>3, <2>3, <2>4, <2>6
  <1>7. ASSUME NEW p \in DOMAIN orders, Fills(p)
        PROVE  free'[c] + lock'[c] = InitialFree[c] + SumFunctionOnSet(g, Executions')
    <2>1. p \notin Executions /\ Executions' = Executions \cup {p}
      BY <1>7, ExecutionsAfter DEF Solvent
    <2>2. \A i \in DOMAIN orders : g[i] = f[i] /\ f[i] \in Int
      BY <1>1, <1>7, SameReservations DEF Fills, SameContracts, SameOrders, MovedOf
    <2>3. f[p] = Moved(c, orders[p]) /\ orders[p] \in Order
      BY <1>1 DEF MovedOf
    <2> HIDE DEF f, g
    <2>4. SumFunctionOnSet(g, Executions') = g[p] + total
      BY <1>1, <2>1, <2>2, SumOfOneMore
    <2>5. PICK h \in Int : h = HeldIn(c, orders[p])
      BY <2>3, MoneyTypes
    <2>6. g[p] = Moved(c, orders[p]) /\ g[p] \in Int
      BY <2>2, <2>3
    <2>7. free'[c] = free[c] + h + g[p] /\ lock'[c] = lock[c] - h
      BY <1>7, <2>5, <2>6 DEF Fills
    <2>8. free'[c] + lock'[c] = free[c] + lock[c] + g[p]
      BY <1>1, <2>5, <2>6, <2>7
    <2>. QED
      BY <1>1, <1>2, <1>3, <2>4, <2>6, <2>8
  <1>. QED
    BY <1>4, <1>5, <1>6, <1>7, MoneyShapes DEF f, g

(* Conserved: without short positions, for every market and every sequence *)
(* of requests, cancellations and candles, the free and the locked amount  *)
(* of each coin are the initial one and what the executed orders exchanged *)
(* (validateFunds and OnCandle, paperwallet.go:267-361 and 465-582).       *)
THEOREM NothingCreatedOrDestroyed == Spec => []Conserved
  <1>1. CASE Discipline # "long"
    <2>1. Spec => []TypeOK
      BY TypeCorrect
    <2>2. TypeOK => Conserved
      BY <1>1 DEF Conserved
    <2>. QED
      BY <2>1, <2>2, PTL
  <1>2. CASE Discipline = "long"
    <2>1. Init => MoneyInv
      <3> SUFFICES ASSUME Init, NEW c \in Coin
                   PROVE  free[c] + lock[c]
                            = InitialFree[c] + SumFunctionOnSet(MovedOf(c), Executions)
        BY DEF MoneyInv
      <3>1. Executions = {} /\ free[c] = InitialFree[c] /\ lock[c] = 0 /\ InitialFree[c] \in Int
        BY FundsAssumption DEF Init, Executions
      <3>. QED
        BY <3>1, SumOfNothing
    <2>2. TypeOK /\ NoOverdraft /\ OCOInv /\ MoneyInv /\ [Next]_vars => MoneyInv'
      BY <1>2, MoneyStep DEF Solvent
    <2>3. MoneyInv => Conserved
      BY DEF MoneyInv, Conserved, MovedOf
    <2>4. Spec => []NoOverdraft
      BY <1>2, NeverOverdrawn
    <2>. QED
      BY <2>1, <2>2, <2>3, <2>4, TypeCorrect, OCOInvariant, PTL DEF Spec
  <1>. QED
    BY <1>1, <1>2


-----------------------------------------------------------------------------
(* Reservations: the lock balances are what the orders that never executed *)
(* set aside.                                                              *)

Legs == {"LIMIT_MAKER", "STOP_LOSS"}

(* Only the legs of a sale belong to groups, the two of a group are of     *)
(* different types and ask for the same, and a market order has executed.  *)
ContractInv ==
  \A i \in DOMAIN orders :
    /\ orders[i].type = "MARKET" => orders[i].id \in executed
    /\ orders[i].group = 0 => orders[i].type \notin Legs
    /\ orders[i].group # 0 =>
         /\ orders[i].type \in Legs /\ orders[i].side = "SELL"
         /\ \E j \in DOMAIN orders :
              /\ Sibling(i, j) /\ orders[j].type \in Legs /\ orders[j].type # orders[i].type
              /\ orders[j].pair = orders[i].pair /\ orders[j].qty = orders[i].qty

NoBuyOco == <<"oco", "BUY">> \notin Ops

LEMMA BookFacts ==
  ASSUME TypeOK, OCOInv
  PROVE  /\ counter \in Nat /\ orders \in Seq(Order) /\ Len(orders) \in Nat
         /\ DOMAIN orders = 1..Len(orders)
         /\ \A i \in DOMAIN orders : /\ orders[i].id \in 1..counter
                                     /\ orders[i].group \in 0..counter
                                     /\ orders[i] \in Order
         /\ executed \subseteq 1..counter
  BY DEF TypeOK, OCOInv, IdentityInv

LEMMA ContractKept ==
  ASSUME TypeOK, OCOInv, ContractInv, SameContracts, executed \subseteq executed'
  PROVE  ContractInv'
  <1>1. /\ DOMAIN orders' = DOMAIN orders
        /\ \A i \in DOMAIN orders :
             /\ orders'[i].id = orders[i].id /\ orders'[i].group = orders[i].group
             /\ orders'[i].side = orders[i].side /\ orders'[i].type = orders[i].type
             /\ orders'[i].pair = orders[i].pair /\ orders'[i].qty = orders[i].qty
    BY DEF SameContracts, SameOrders
  <1>. QED
    BY <1>1 DEF ContractInv, Sibling

LEMMA ContractOneMore ==
  ASSUME TypeOK, OCOInv, ContractInv, NEW o \in Order, PendsOne(o) \/ Trades(o)
  PROVE  ContractInv'
  <1> DEFINE n == Len(orders) + 1
  <1>1. /\ DOMAIN orders' = DOMAIN orders \cup {n} /\ orders'[n] = o
        /\ \A i \in DOMAIN orders : orders'[i] = orders[i]
    <2>1. CASE PendsOne(o)
      BY <2>1, BookFacts, AppendOne DEF PendsOne, AddsOne
    <2>2. CASE Trades(o)
      BY <2>2, BookFacts, AppendOne DEF Trades, AddsOne
    <2>. QED
      BY <2>1, <2>2
  <1>2. executed \subseteq executed' /\ o.group = 0 /\ o.type \notin Legs
        /\ (o.type = "MARKET" => o.id \in executed')
    BY DEF PendsOne, Pends, Trades, AddsOne, Legs
  <1> HIDE DEF n
  <1>3. ASSUME NEW i \in DOMAIN orders
        PROVE  /\ orders'[i].type = "MARKET" => orders'[i].id \in executed'
               /\ orders'[i].group = 0 => orders'[i].type \notin Legs
               /\ orders'[i].group # 0 =>
                    /\ orders'[i].type \in Legs /\ orders'[i].side = "SELL"
                    /\ \E j \in DOMAIN orders' :
                         /\ Sibling(i, j)' /\ orders'[j].type \in Legs
                         /\ orders'[j].type # orders'[i].type
                         /\ orders'[j].pair = orders'[i].pair /\ orders'[j].qty = orders'[i].qty
    BY <1>1, <1>2 DEF ContractInv, Sibling
  <1>. QED
    BY <1>1, <1>2, <1>3 DEF ContractInv

LEMMA ContractTwoMore ==
  ASSUME TypeOK, OCOInv, ContractInv, NoBuyOco,
         NEW a \in Order, NEW b \in Order, PendsTwo(a, b)
  PROVE  ContractInv'
  <1>0. PICK n, m : n = Len(orders) + 1 /\ m = Len(orders) + 2
    OBVIOUS
  <1>1. /\ DOMAIN orders' = DOMAIN orders \cup {n, m} /\ orders'[n] = a /\ orders'[m] = b
        /\ \A i \in DOMAIN orders : orders'[i] = orders[i]
    BY <1>0, BookFacts, AppendTwo DEF PendsTwo, AddsTwo
  <1>2. /\ executed = executed' /\ a.type = "LIMIT_MAKER" /\ b.type = "STOP_LOSS"
        /\ a.group = b.group /\ a.group # 0 /\ a.id # b.id
        /\ a.pair = b.pair /\ a.qty = b.qty
    BY BookFacts DEF PendsTwo, Pends, AddsTwo
  <1>3. a.side = "SELL" /\ b.side = "SELL"
    BY DEF PendsTwo, AddsTwo, NoBuyOco, Order, Side
  <1>4. ASSUME NEW i \in DOMAIN orders
        PROVE  /\ orders'[i].type = "MARKET" => orders'[i].id \in executed'
               /\ orders'[i].group = 0 => orders'[i].type \notin Legs
               /\ orders'[i].group # 0 =>
                    /\ orders'[i].type \in Legs /\ orders'[i].side = "SELL"
                    /\ \E j \in DOMAIN orders' :
                         /\ Sibling(i, j)' /\ orders'[j].type \in Legs
                         /\ orders'[j].type # orders'[i].type
                         /\ orders'[j].pair = orders'[i].pair /\ orders'[j].qty = orders'[i].qty
    BY <1>1, <1>2 DEF ContractInv, Sibling
  <1>5. Sibling(n, m)' /\ Sibling(m, n)'
    BY <1>1, <1>2 DEF Sibling
  <1>. QED
    BY <1>1, <1>2, <1>3, <1>4, <1>5 DEF ContractInv, Legs

(* The holding orders after each kind of step.                             *)
LEMMA HoldingAfterRest == ASSUME Rests PROVE Holding' = Holding
  BY DEF Rests, SameContracts, SameOrders, Holding, Sibling

LEMMA HoldingAfterOne ==
  ASSUME TypeOK, OCOInv, NEW o \in Order, PendsOne(o)
  PROVE  /\ Len(orders) + 1 \notin DOMAIN orders /\ orders'[Len(orders) + 1] = o
         /\ Holding' = Holding \cup {Len(orders) + 1}
  <1> DEFINE n == Len(orders) + 1
  <1>1. /\ DOMAIN orders' = DOMAIN orders \cup {n} /\ orders'[n] = o /\ n \notin DOMAIN orders
        /\ \A i \in DOMAIN orders : orders'[i] = orders[i]
    BY BookFacts, AppendOne DEF PendsOne, AddsOne
  <1>2. executed' = executed /\ o.group = 0 /\ o.id \notin executed
        /\ o.type \notin {"MARKET", "STOP_LOSS"}
    BY BookFacts DEF PendsOne, Pends, AddsOne
  <1> HIDE DEF n
  <1>3. \A i \in DOMAIN orders : i \in Holding' <=> i \in Holding
    BY <1>1, <1>2 DEF Holding, Sibling
  <1>4. n \in Holding'
    BY <1>1, <1>2 DEF Holding, Sibling
  <1>5. Holding' \subseteq DOMAIN orders' /\ Holding \subseteq DOMAIN orders
    BY DEF Holding
  <1>6. Holding' = Holding \cup {n}
    BY <1>1, <1>3, <1>4, <1>5
  <1>. QED
    BY <1>1, <1>6 DEF n

LEMMA HoldingAfterTrade ==
  ASSUME TypeOK, OCOInv, NEW o \in Order, Trades(o)
  PROVE  Holding' = Holding
  <1> DEFINE n == Len(orders) + 1
  <1>1. /\ DOMAIN orders' = DOMAIN orders \cup {n} /\ orders'[n] = o /\ n \notin DOMAIN orders
        /\ \A i \in DOMAIN orders : orders'[i] = orders[i]
    BY BookFacts, AppendOne DEF Trades, AddsOne
  <1>2. /\ executed' = executed \cup {o.id} /\ o.group = 0 /\ o.type = "MARKET"
        /\ \A i \in DOMAIN orders : orders[i].id # o.id
    BY BookFacts DEF Trades, AddsOne
  <1> HIDE DEF n
  <1>3. \A i \in DOMAIN orders : i \in Holding' <=> i \in Holding
    BY <1>1, <1>2 DEF Holding, Sibling
  <1>4. n \notin Holding'
    BY <1>1, <1>2 DEF Holding
  <1>5. Holding' \subseteq DOMAIN orders' /\ Holding \subseteq DOMAIN orders
    BY DEF Holding
  <1>. QED
    BY <1>1, <1>3, <1>4, <1>5

LEMMA HoldingAfterTwo ==
  ASSUME TypeOK, OCOInv, NEW a \in Order, NEW b \in Order, PendsTwo(a, b)
  PROVE  /\ Len(orders) + 1 \notin DOMAIN orders /\ orders'[Len(orders) + 1] = a
         /\ Holding' = Holding \cup {Len(orders) + 1}
  <1>0. PICK n, m : n = Len(orders) + 1 /\ m = Len(orders) + 2
    OBVIOUS
  <1>1. /\ DOMAIN orders' = DOMAIN orders \cup {n, m} /\ orders'[n] = a /\ orders'[m] = b
        /\ \A i \in DOMAIN orders : orders'[i] = orders[i]
        /\ n \notin DOMAIN orders /\ m \notin DOMAIN orders
    BY <1>0, BookFacts, AppendTwo DEF PendsTwo, AddsTwo
  <1>2. /\ executed' = executed /\ a.type = "LIMIT_MAKER" /\ b.type = "STOP_LOSS"
        /\ a.id \notin executed /\ b.id \notin executed
        /\ \A i \in DOMAIN orders : orders[i].group # a.group /\ orders[i].group # b.group
    BY BookFacts DEF PendsTwo, Pends, AddsTwo
  <1>3. \A i \in DOMAIN orders : i \in Holding' <=> i \in Holding
    BY <1>1, <1>2 DEF Holding, Sibling
  <1>4. n \in Holding'
    <2>1. \A j \in DOMAIN orders' : Sibling(n, j)' => orders'[j].id \notin executed'
      BY <1>1, <1>2 DEF Sibling
    <2>. QED
      BY <1>1, <1>2, <2>1 DEF Holding
  <1>5. m \notin Holding'
    BY <1>1, <1>2 DEF Holding
  <1>6. Holding' \subseteq DOMAIN orders' /\ Holding \subseteq DOMAIN orders
    BY DEF Holding
  <1>7. Holding' = Holding \cup {n}
    BY <1>1, <1>3, <1>4, <1>5, <1>6
  <1>. QED
    BY <1>0, <1>1, <1>7

(* An execution ends the reservation of the order, which for a leg is      *)
(* counted at the limit leg of its group.                                  *)
LEMMA HoldingAfterFill ==
  ASSUME TypeOK, OCOInv, ContractInv, NEW p \in DOMAIN orders, Fills(p)
  PROVE  \E m \in Holding : /\ Holding' = Holding \ {m}
                            /\ \A c : HeldIn(c, orders[m]) = HeldIn(c, orders[p])
  <1>1. /\ DOMAIN orders' = DOMAIN orders
        /\ \A i \in DOMAIN orders :
             /\ orders'[i].id = orders[i].id /\ orders'[i].group = orders[i].group
             /\ orders'[i].type = orders[i].type
        /\ executed' = executed \cup {orders[p].id} /\ orders[p].id \notin executed
    BY DEF Fills, SameContracts, SameOrders, OCOInv, SettledInv
  <1>2. \A i, j \in DOMAIN orders : orders[i].id = orders[j].id => i = j
    BY DEF OCOInv, IdentityInv
  <1>3. orders[p].type # "MARKET"
    BY <1>1 DEF ContractInv
  <1>4. CASE orders[p].group = 0
    <2>1. p \in Holding
      BY <1>1, <1>3, <1>4 DEF Holding, Sibling, ContractInv, Legs
    <2>2. Holding' = Holding \ {p}
      BY <1>1, <1>2, <1>4 DEF Holding, Sibling
    <2>. QED
      BY <2>1, <2>2
  <1>5. CASE orders[p].group # 0
    <2>1. PICK q \in DOMAIN orders :
            /\ Sibling(p, q) /\ orders[q].type \in Legs /\ orders[q].type # orders[p].type
            /\ orders[q].pair = orders[p].pair /\ orders[q].qty = orders[p].qty
      BY <1>5 DEF ContractInv
    <2>2. /\ orders[p].type \in Legs /\ orders[p].side = "SELL" /\ orders[q].side = "SELL"
          /\ p # q /\ orders[q].group = orders[p].group
          /\ \A k \in DOMAIN orders : orders[k].group = orders[p].group => k \in {p, q}
      BY <1>5, <2>1 DEF ContractInv, Sibling, OCOInv, GroupInv
    <2>3. orders[q].id \notin executed
      BY <1>1, <2>1, <2>2 DEF OCOInv, SettledInv, Sibling, Fills
    <2>4. PICK m \in {p, q} : orders[m].type = "LIMIT_MAKER"
      BY <2>1, <2>2 DEF Legs
    <2>5. PICK k \in {p, q} : k # m /\ orders[k].type = "STOP_LOSS"
      BY <2>1, <2>2, <2>4 DEF Legs
    <2>6. m \in Holding
      BY <1>1, <2>2, <2>3, <2>4 DEF Holding, Sibling
    <2>7. p \notin Holding' /\ q \notin Holding'
      <3>1. orders[p].id \in executed' /\ Sibling(q, p)'
        BY <1>1, <1>5, <2>1 DEF Sibling
      <3>. QED
        BY <1>1, <3>1 DEF Holding
    <2>8. k \notin Holding
      BY <2>5 DEF Holding
    <2>9. \A i \in DOMAIN orders : i \notin {p, q} => (i \in Holding' <=> i \in Holding)
      BY <1>1, <1>2, <2>2 DEF Holding, Sibling
    <2>10. Holding' \subseteq DOMAIN orders /\ Holding \subseteq DOMAIN orders
      BY <1>1 DEF Holding
    <2>11. Holding' = Holding \ {m}
      BY <2>4, <2>5, <2>7, <2>8, <2>9, <2>10
    <2>12. \A c : HeldIn(c, orders[m]) = HeldIn(c, orders[p])
      BY <2>1, <2>2, <2>4 DEF HeldIn
    <2>. QED
      BY <2>6, <2>11, <2>12
  <1>. QED
    BY <1>4, <1>5

LockInv == \A c \in Coin : lock[c] = SumFunctionOnSet(ReservedOf(c), Holding)

LEMMA LockStep ==
  ASSUME Solvent, OCOInv, ContractInv, LockInv, [Next]_vars
  PROVE  LockInv'
  <1> SUFFICES ASSUME NEW c \in Coin
               PROVE  lock'[c] = SumFunctionOnSet(ReservedOf(c)', Holding')
    BY DEF LockInv
  <1> DEFINE f == ReservedOf(c)
             g == ReservedOf(c)'
             total == SumFunctionOnSet(f, Holding)
  <1>1. /\ IsFiniteSet(Holding) /\ \A i \in DOMAIN orders : f[i] \in Int
        /\ Holding \subseteq DOMAIN orders /\ TypeOK
        /\ lock[c] \in Int
    BY FiniteBook DEF Holding, Solvent, TypeOK
  <1>2. lock[c] = total
    BY DEF LockInv
  <1>3. CASE Rests
    <2>1. Holding' = Holding /\ lock'[c] = lock[c]
      BY <1>3, HoldingAfterRest DEF Rests
    <2>2. \A i \in Holding : f[i] = g[i]
      BY <1>1, <1>3, SameReservations DEF Rests, SameContracts, SameOrders, ReservedOf
    <2> HIDE DEF f, g
    <2>3. SumFunctionOnSet(g, Holding) = total
      BY <1>1, <2>2, SameSums
    <2>. QED
      BY <1>2, <2>1, <2>3 DEF f, g
  <1>4. ASSUME NEW o \in Order, Trades(o)
        PROVE  lock'[c] = SumFunctionOnSet(g, Holding')
    <2>1. Holding' = Holding /\ lock'[c] = lock[c]
      BY <1>1, <1>4, HoldingAfterTrade DEF Trades
    <2>2. \A i \in DOMAIN orders : i \in DOMAIN orders' /\ orders'[i] = orders[i]
      BY <1>1, <1>4, BookFacts, AppendOne DEF Trades, AddsOne
    <2>3. \A i \in Holding : f[i] = g[i]
      BY <1>1, <2>2 DEF ReservedOf
    <2> HIDE DEF f, g
    <2>4. SumFunctionOnSet(g, Holding) = total
      BY <1>1, <2>3, SameSums
    <2>. QED
      BY <1>2, <2>1, <2>4 DEF f, g
  <1>5. ASSUME NEW n, NEW o \in Order, n \notin DOMAIN orders, n \in DOMAIN orders',
               orders'[n] = o, Holding' = Holding \cup {n}, Pends(o),
               \A i \in DOMAIN orders : i \in DOMAIN orders' /\ orders'[i] = orders[i]
        PROVE  lock'[c] = SumFunctionOnSet(g, Holding')
    <2>1. /\ \A i \in Holding : f[i] \in Int /\ g[i] = f[i]
          /\ n \notin Holding /\ g[n] = HeldIn(c, o) /\ g[n] \in Int
      BY <1>1, <1>5, MoneyTypes DEF ReservedOf
    <2>2. lock'[c] = lock[c] + g[n]
      BY <1>5, <2>1 DEF Pends
    <2> HIDE DEF f, g
    <2>3. SumFunctionOnSet(g, Holding') = g[n] + total
      BY <1>1, <1>5, <2>1, SumOfOneMore
    <2>. QED
      BY <1>1, <1>2, <2>1, <2>2, <2>3
  <1>6. ASSUME NEW o \in Order, PendsOne(o)
        PROVE  lock'[c] = SumFunctionOnSet(g, Holding')
    <2>1. /\ Len(orders) + 1 \in DOMAIN orders'
          /\ \A i \in DOMAIN orders : i \in DOMAIN orders' /\ orders'[i] = orders[i]
      BY <1>1, <1>6, BookFacts, AppendOne DEF PendsOne, AddsOne
    <2> HIDE DEF g
    <2>. QED
      BY <1>1, <1>5, <1>6, <2>1, HoldingAfterOne DEF PendsOne
  <1>7. ASSUME NEW a \in Order, NEW b \in Order, PendsTwo(a, b)
        PROVE  lock'[c] = SumFunctionOnSet(g, Holding')
    <2>1. /\ Len(orders) + 1 \in DOMAIN orders'
          /\ \A i \in DOMAIN orders : i \in DOMAIN orders' /\ orders'[i] = orders[i]
      BY <1>1, <1>7, BookFacts, AppendTwo DEF PendsTwo, AddsTwo
    <2> HIDE DEF g
    <2>. QED
      BY <1>1, <1>5, <1>7, <2>1, HoldingAfterTwo DEF PendsTwo
  <1>8. ASSUME NEW p \in DOMAIN orders, Fills(p)
        PROVE  lock'[c] = SumFunctionOnSet(g, Holding')
    <2>1. PICK m \in Holding : Holding' = Holding \ {m}
                               /\ HeldIn(c, orders[m]) = HeldIn(c, orders[p])
      BY <1>1, <1>8, HoldingAfterFill
    <2>2. \A i \in DOMAIN orders : g[i] = f[i] /\ f[i] \in Int
      BY <1>1, <1>8, SameReservations DEF Fills, SameContracts, SameOrders, ReservedOf
    <2>3. f[m] = HeldIn(c, orders[p]) /\ f[m] \in Int
      BY <1>1, <2>1 DEF ReservedOf
    <2> HIDE DEF f, g
    <2>4. SumFunctionOnSet(g, Holding') = total - f[m]
      <3>1. IsFiniteSet(Holding) /\ \A i \in Holding : f[i] \in Int /\ g[i] = f[i]
        BY <1>1, <2>2
      <3>2. SumFunctionOnSet(g, Holding \ {m}) = SumFunctionOnSet(f, Holding) - f[m]
        BY ONLY <3>1, SumOfOneLess, m \in Holding
      <3> QED
        BY <2>1, <3>2
    <2>5. lock'[c] = lock[c] - f[m]
      BY <1>8, <2>3 DEF Fills
    <2>. QED
      BY <1>2, <2>4, <2>5
  <1>. QED
    BY <1>3, <1>4, <1>6, <1>7, <1>8, MoneyShapes DEF f, g

LEMMA ContractStep ==
  ASSUME Solvent, OCOInv, ContractInv, NoBuyOco, [Next]_vars
  PROVE  ContractInv'
  <1>1. TypeOK
    BY DEF Solvent
  <1>2. CASE Rests \/ \E p \in DOMAIN orders : Fills(p)
    <2>1. SameContracts /\ executed \subseteq executed'
      BY <1>2 DEF Rests, Fills
    <2>. QED
      BY <1>1, <2>1, ContractKept
  <1>3. CASE \E o \in Order : PendsOne(o) \/ Trades(o)
    BY <1>1, <1>3, ContractOneMore
  <1>4. CASE \E a, b \in Order : PendsTwo(a, b)
    BY <1>1, <1>4, ContractTwoMore
  <1>. QED
    BY <1>2, <1>3, <1>4, MoneyShapes

(* LockIsReservations: without short positions and without OCO purchases,  *)
(* both legs of which may execute, the lock balances are, in every market  *)
(* and after any requests, cancellations and candles, the reservations of  *)
(* the orders that never executed, a group's counted once.  Executing      *)
(* releases a reservation once and entirely (paperwallet.go:465-582).      *)
THEOREM LocksAreReservations ==
  ASSUME NoBuyOco
  PROVE  Spec => []LockIsReservations
  <1>1. CASE Discipline # "long"
    <2>1. Spec => []TypeOK
      BY TypeCorrect
    <2>2. TypeOK => LockIsReservations
      BY <1>1 DEF LockIsReservations
    <2>. QED
      BY <2>1, <2>2, PTL
  <1>2. CASE Discipline = "long"
    <2>1. Init => LockInv /\ ContractInv
      <3>1. ASSUME Init, NEW c \in Coin
            PROVE  lock[c] = SumFunctionOnSet(ReservedOf(c), Holding)
        <4>1. Holding = {} /\ lock[c] = 0
          BY <3>1 DEF Init, Holding
        <4>. QED
          BY <4>1, SumOfNothing
      <3>2. Init => ContractInv
        BY DEF Init, ContractInv
      <3>. QED
        BY <3>1, <3>2 DEF LockInv
    <2>2. TypeOK /\ NoOverdraft /\ OCOInv /\ LockInv /\ ContractInv /\ [Next]_vars
            => LockInv' /\ ContractInv'
      BY <1>2, LockStep, ContractStep DEF Solvent
    <2>3. LockInv => LockIsReservations
      BY DEF LockInv, LockIsReservations, ReservedOf
    <2>4. Spec => []NoOverdraft
      BY <1>2, NeverOverdrawn
    <2>. QED
      BY <2>1, <2>2, <2>3, <2>4, TypeCorrect, OCOInvariant, PTL DEF Spec
  <1>. QED
    BY <1>1, <1>2

-----------------------------------------------------------------------------
(* Neutrality: a market order changes what the wallet holds, not its value.*)

(* All pairs trade against the coin the wallet is valued in, and no two of *)
(* them trade the same asset.                                              *)
OneCurrency ==
  /\ IsFiniteSet(Pair)
  /\ \A p \in Pair : QuoteOf[p] = BaseCoin
  /\ \A p, q \in Pair : AssetOf[p] = AssetOf[q] => p = q

(* Clients with short positions only send market orders, and what the      *)
(* market quotes is worth something.                                       *)
ShortOnMarket ==
  /\ Discipline = "short"
  /\ Ops \subseteq {"market", "marketQuote", "cancel"} \X Side
  /\ \A c \in Candle : c.close > 0

LongOrShort == (Discipline = "long" /\ NoBuyOco) \/ ShortOnMarket

(* Rounding a mean down loses less than one unit for each of its parts.    *)
LEMMA MeanLoses ==
  ASSUME NEW x \in Int, NEW d \in Nat, d > 0
  PROVE  /\ x \div d \in Int /\ d * (x \div d) \in Int
         /\ d * (x \div d) <= x /\ x < d * (x \div d) + d
  <1>1. d \in Nat \ {0}
    OBVIOUS
  <1>2. x \div d \in Int /\ x % d \in 0..(d - 1) /\ x = d * (x \div d) + (x % d)
    BY <1>1, Division
  <1>3. PICK q, r \in Int : q = x \div d /\ r = x % d
    BY <1>2
  <1>4. d * q \in Int
    BY <1>3
  <1>. QED
    BY <1>2, <1>3, <1>4

(* The worth of a position, long or short.                                 *)
LEMMA WorthType ==
  ASSUME TypeOK, NEW p \in Pair, NEW a \in Int
  PROVE  ValueIn(p, a) \in Int
  <1>1. avgShort[p] \in Int /\ lastClose[p] \in Int
    BY DEF TypeOK
  <1>. QED
    BY <1>1 DEF ValueIn

(* The value of the wallet changes by what the traded pair's position and  *)
(* the base coin change by.                                                *)
LEMMA EquityMoves ==
  ASSUME TypeOK, TypeOK', OneCurrency, NEW p \in Pair,
         UNCHANGED <<lock, lastClose>>,
         \A c \in Coin : c \notin {AssetOf[p], BaseCoin} => free'[c] = free[c],
         \A q \in Pair : q # p => avgShort'[q] = avgShort[q]
  PROVE  Equity' - Equity = (Worth'[p] - Worth[p]) + (free'[BaseCoin] - free[BaseCoin])
  <1>1. /\ BaseCoin \in Coin
        /\ \A q \in Pair : AssetOf[q] \in Coin /\ AssetOf[q] # BaseCoin
    BY MarketAssumption, Inputs DEF OneCurrency
  <1>2. {q \in Pair : QuoteOf[q] = BaseCoin} = Pair /\ IsFiniteSet(Pair)
    BY DEF OneCurrency
  <1>3. \A q \in Pair : Worth[q] \in Int
    <2>1. free \in [Coin -> Int] /\ lock \in [Coin -> Int]
      BY DEF TypeOK
    <2>2. \A q \in Pair : free[AssetOf[q]] + lock[AssetOf[q]] \in Int
      BY <1>1, <2>1
    <2>. QED
      BY <2>2, WorthType DEF Worth
  <1>4. Worth'[p] \in Int
    <2>1. free'[AssetOf[p]] + lock'[AssetOf[p]] \in Int
      <3>1. free' \in [Coin -> Int] /\ lock' \in [Coin -> Int]
        BY DEF TypeOK
      <3>. QED
        BY <1>1, <3>1
    <2>2. avgShort'[p] \in Int /\ lastClose'[p] \in Int
      BY DEF TypeOK
    <2>. QED
      BY <2>1, <2>2 DEF Worth, ValueIn
  <1>5. \A q \in Pair \ {p} : Worth'[q] = Worth[q]
    <2> SUFFICES ASSUME NEW q \in Pair, q # p PROVE Worth'[q] = Worth[q]
      OBVIOUS
    <2>1. AssetOf[q] \in Coin /\ AssetOf[q] \notin {AssetOf[p], BaseCoin}
      BY <1>1 DEF OneCurrency
    <2>2. free'[AssetOf[q]] = free[AssetOf[q]] /\ avgShort'[q] = avgShort[q]
      BY <2>1
    <2>. QED
      BY <2>2 DEF Worth, ValueIn
  <1> DEFINE others == SumFunctionOnSet(Worth, Pair \ {p})
  <1>6. others \in Int
    <2>1. IsFiniteSet(Pair \ {p})
      BY <1>2, FS_RemoveElement
    <2>. QED
      BY <1>3, <2>1, SumType
  <1>7. SumFunctionOnSet(Worth, Pair) = Worth[p] + others
    BY <1>2, <1>3, SumOfMember
  <1>8. SumFunctionOnSet(Worth', Pair) = Worth'[p] + others
    <2>1. \A q \in Pair : Worth'[q] \in Int
      BY <1>3, <1>4, <1>5
    <2>2. SumFunctionOnSet(Worth', Pair) = Worth'[p] + SumFunctionOnSet(Worth', Pair \ {p})
      BY <1>2, <2>1, SumOfMember
    <2>3. SumFunctionOnSet(Worth', Pair \ {p}) = others
      BY <1>2, <1>5, FS_RemoveElement, SameSums
    <2>. QED
      BY <2>2, <2>3
  <1>9. free[BaseCoin] \in Int /\ free'[BaseCoin] \in Int /\ lock[BaseCoin] \in Int
    BY <1>1 DEF TypeOK
  <1>10. Equity = Worth[p] + others + free[BaseCoin] + lock[BaseCoin]
    BY <1>2, <1>7 DEF Equity
  <1>11. Equity' = Worth'[p] + others + free'[BaseCoin] + lock[BaseCoin]
    BY <1>2, <1>8 DEF Equity
  <1> HIDE DEF others
  <1>. QED
    BY <1>3, <1>4, <1>6, <1>9, <1>10, <1>11

(* What a market order needs to be neutral: a position whose locked part   *)
(* has the sign of the free one, closed entirely if it is short, and a     *)
(* price if it is or becomes short.                                        *)
Neutral(side, p, amount) ==
  /\ lock[AssetOf[p]] \in Nat
  /\ lock[AssetOf[p]] = 0 \/ (Asset(p) >= 0 /\ (side = "SELL" => amount <= Asset(p)))
  /\ side = "BUY" /\ Asset(p) < 0 => amount >= -Asset(p)
  /\ Asset(p) < 0 => lastClose[p] > 0

(* How a market purchase moves the balances.                               *)
LEMMA PurchaseMoves ==
  ASSUME TypeOK, NEW p \in Pair, NEW n \in Nat, Neutral("BUY", p, n),
         Trade("BUY", p, n, lastClose[p])
  PROVE  /\ UNCHANGED <<lock, avgShort>>
         /\ \A c \in Coin : c \notin {AssetOf[p], QuoteOf[p]} => free'[c] = free[c]
         /\ free'[AssetOf[p]] = Asset(p) + n
         /\ Asset(p) >= 0 => free'[QuoteOf[p]] = Quote(p) - n * lastClose[p]
         /\ Asset(p) < 0 => free'[QuoteOf[p]]
                              = Quote(p) - ((n + Asset(p)) * lastClose[p] - ValueIn(p, Asset(p)))
  <1>1. /\ free \in [Coin -> Int] /\ AssetOf[p] \in Coin /\ QuoteOf[p] \in Coin
        /\ AssetOf[p] # QuoteOf[p] /\ Asset(p) \in Int /\ lastClose[p] \in Nat
        /\ Quote(p) \in Int /\ avgShort \in [Pair -> Int]
    BY Inputs, FundsTypes DEF TypeOK, Asset, Quote
  <1> DEFINE a == AssetAfterLock("BUY", p, n)
             l == LockedAsset("BUY", p, n)
             q == LockedQuote("BUY", p, n, lastClose[p])
  <1>2. free' = [free EXCEPT ![AssetOf[p]] = a + (n - l), ![QuoteOf[p]] = Quote(p) - q]
    BY DEF Trade, FreeAfterTrade
  <1>3. UNCHANGED <<lock, avgShort>>
    BY <1>1 DEF Trade, AvgShortAfter
  <1>4. CASE Asset(p) >= 0
    <2>1. l = 0 /\ a = Asset(p) + 0 /\ q = (n - 0) * lastClose[p] - 0
      <3>1. MinOf(Asset(p), 0) = 0 /\ LiquidShort(p, lastClose[p]) = 0
        BY <1>1, <1>4 DEF MinOf, LiquidShort
      <3>2. l = MinOf(-0, n)
        BY <3>1 DEF LockedAsset
      <3>3. l = 0
        BY <3>2 DEF MinOf
      <3>. QED
        BY <3>1, <3>3 DEF AssetAfterLock, LockedQuote
    <2> HIDE DEF a, l, q
    <2>2. a + (n - l) = Asset(p) + n /\ q = n * lastClose[p]
      BY <1>1, <2>1
    <2>. QED
      BY <1>1, <1>2, <1>3, <1>4, <2>2
  <1>5. CASE Asset(p) < 0
    <2>1. /\ l = -Asset(p) /\ a = Asset(p) + l
          /\ q = (n - l) * lastClose[p] - ValueIn(p, Asset(p))
      <3>1. LiquidShort(p, lastClose[p]) = ValueIn(p, Asset(p))
        BY <1>5 DEF LiquidShort, ValueIn
      <3>2. n >= -Asset(p)
        BY <1>5 DEF Neutral
      <3>3. l = -Asset(p)
        BY <1>1, <1>5, <3>2 DEF LockedAsset, MinOf
      <3>. QED
        BY <3>1, <3>3 DEF AssetAfterLock, LockedQuote
    <2> HIDE DEF a, l, q
    <2>2. a + (n - l) = Asset(p) + n /\ n - l = n + Asset(p)
      BY <1>1, <2>1
    <2>. QED
      BY <1>1, <1>2, <1>3, <1>5, <2>1, <2>2
  <1>. QED
    BY <1>1, <1>4, <1>5

(* How a market sale moves them: out of a long position, from it into a    *)
(* short one, or deeper into a short one.                                  *)
LEMMA SaleMoves ==
  ASSUME TypeOK, NEW p \in Pair, NEW n \in Nat, n # 0, Neutral("SELL", p, n),
         Trade("SELL", p, n, lastClose[p])
  PROVE  /\ UNCHANGED lock
         /\ \A o \in Pair : o # p => avgShort'[o] = avgShort[o]
         /\ \A c \in Coin : c \notin {AssetOf[p], QuoteOf[p]} => free'[c] = free[c]
         /\ n <= Asset(p) => /\ free'[AssetOf[p]] = Asset(p) - n
                             /\ free'[QuoteOf[p]] = Quote(p) + n * lastClose[p]
         /\ Asset(p) \in 0..(n - 1) /\ lastClose[p] = 0 =>
              free'[AssetOf[p]] = 0 /\ free'[QuoteOf[p]] = Quote(p)
         /\ Asset(p) \in 0..(n - 1) /\ lastClose[p] > 0 =>
              /\ free'[AssetOf[p]] = -n /\ avgShort'[p] = lastClose[p]
              /\ free'[QuoteOf[p]] = Quote(p) - (n - Asset(p)) * lastClose[p]
         /\ Asset(p) < 0 =>
              /\ free'[AssetOf[p]] = Asset(p) - n
              /\ avgShort'[p] = (avgShort[p] * (-Asset(p)) + n * lastClose[p]) \div (n - Asset(p))
              /\ free'[QuoteOf[p]] = Quote(p) - n * lastClose[p]
  <1>1. /\ free \in [Coin -> Int] /\ AssetOf[p] \in Coin /\ QuoteOf[p] \in Coin
        /\ AssetOf[p] # QuoteOf[p] /\ Asset(p) \in Int /\ lastClose[p] \in Nat
        /\ Quote(p) \in Int /\ avgShort \in [Pair -> Int] /\ p \in Pair
    BY Inputs, FundsTypes DEF TypeOK, Asset, Quote
  <1> DEFINE a == AssetAfterLock("SELL", p, n)
             l == LockedAsset("SELL", p, n)
             q == LockedQuote("SELL", p, n, lastClose[p])
             short == EntersShort(p, n, lastClose[p])
  <1>2. /\ short => free' = [free EXCEPT ![AssetOf[p]] = a - n, ![QuoteOf[p]] = Quote(p) - q]
        /\ ~short => free' = [free EXCEPT ![AssetOf[p]] = a,
                                          ![QuoteOf[p]] = (Quote(p) - q) + n * lastClose[p]]
    BY DEF Trade, FreeAfterTrade
  <1>3. /\ UNCHANGED lock
        /\ avgShort' = [avgShort EXCEPT ![p] = AvgShortAfter("SELL", p, n, lastClose[p], a)]
    BY DEF Trade
  <1>4. short <=> q > 0
    BY DEF EntersShort
  <1>5. l = MinOf(MaxOf(Asset(p), 0), n) /\ a = Asset(p) - l /\ q = (n - l) * lastClose[p]
    BY DEF LockedAsset, AssetAfterLock, LockedQuote
  <1>6. n * lastClose[p] \in Nat
    BY <1>1, NatProduct
  <1> HIDE DEF a, l, q, short
  <1>7. \A o \in Pair : o # p => avgShort'[o] = avgShort[o]
    BY <1>1, <1>3
  <1>8. \A c \in Coin : c \notin {AssetOf[p], QuoteOf[p]} => free'[c] = free[c]
    BY <1>1, <1>2
  <1>9. CASE n <= Asset(p)
    <2>1. l = n /\ a = Asset(p) - n /\ q = 0
      <3>1. l = n
        BY <1>1, <1>5, <1>9 DEF MinOf, MaxOf
      <3>2. n - l = 0
        BY <3>1
      <3>. QED
        BY <1>1, <1>5, <3>1, <3>2
    <2>2. ~short /\ (Quote(p) - q) + n * lastClose[p] = Quote(p) + n * lastClose[p]
      BY <1>1, <1>4, <2>1
    <2>3. /\ free'[AssetOf[p]] = Asset(p) - n
          /\ free'[QuoteOf[p]] = Quote(p) + n * lastClose[p]
      BY <1>1, <1>2, <2>1, <2>2
    <2>. QED
      BY <1>1, <1>3, <1>7, <1>8, <1>9, <2>3
  <1>10. CASE Asset(p) \in 0..(n - 1)
    <2>1. l = Asset(p) /\ a = 0 /\ q = (n - Asset(p)) * lastClose[p]
      BY <1>1, <1>5, <1>10 DEF MinOf, MaxOf
    <2>2. CASE lastClose[p] = 0
      <3>1. q = 0 /\ n * lastClose[p] = 0
        BY <1>1, <2>1, <2>2
      <3>2. ~short /\ (Quote(p) - q) + n * lastClose[p] = Quote(p)
        BY <1>1, <1>4, <3>1
      <3>3. free'[AssetOf[p]] = 0 /\ free'[QuoteOf[p]] = Quote(p)
        BY <1>1, <1>2, <2>1, <3>2
      <3>. QED
        BY <1>1, <1>3, <1>7, <1>8, <1>10, <2>2, <3>3
    <2>3. CASE lastClose[p] > 0
      <3>1. n - Asset(p) >= 1 /\ lastClose[p] \in Nat \ {0} /\ n - Asset(p) \in Int
        BY <1>1, <1>10, <2>3
      <3>2. q >= 1 * lastClose[p] /\ q \in Int
        BY <2>1, <3>1, Products, 1 \in Int
      <3>3. short
        BY <1>1, <1>4, <2>3, <3>2
      <3>4. a - n = -n
        BY <2>1
      <3>5. /\ free'[AssetOf[p]] = -n
            /\ free'[QuoteOf[p]] = Quote(p) - (n - Asset(p)) * lastClose[p]
        BY <1>1, <1>2, <2>1, <3>3, <3>4
      <3>6. avgShort'[p] = lastClose[p]
        BY <1>1, <1>3, <2>1 DEF AvgShortAfter
      <3>. QED
        BY <1>1, <1>3, <1>7, <1>8, <1>10, <2>3, <3>5, <3>6
    <2>. QED
      BY <1>1, <2>2, <2>3
  <1>11. CASE Asset(p) < 0
    <2>1. l = 0 /\ a = Asset(p) /\ q = n * lastClose[p]
      <3>1. l = 0
        BY <1>1, <1>5, <1>11 DEF MinOf, MaxOf
      <3>2. n - l = n /\ Asset(p) - l = Asset(p)
        BY <1>1, <3>1
      <3>. QED
        BY <1>5, <3>1, <3>2
    <2>2. short
      <3>1. lastClose[p] \in Nat \ {0} /\ n >= 1
        BY <1>1, <1>11 DEF Neutral
      <3>2. n * lastClose[p] >= 1 * lastClose[p]
        BY <3>1, Products, 1 \in Int, n \in Int
      <3>. QED
        BY <1>1, <1>4, <2>1, <3>1, <3>2
    <2>3. /\ free'[AssetOf[p]] = Asset(p) - n
          /\ free'[QuoteOf[p]] = Quote(p) - n * lastClose[p]
      BY <1>1, <1>2, <2>1, <2>2
    <2>4. AvgShortAfter("SELL", p, n, lastClose[p], a)
            = (avgShort[p] * (-Asset(p)) + n * lastClose[p]) \div (n - Asset(p))
      BY <1>1, <1>11, <2>1 DEF AvgShortAfter
    <2>. QED
      BY <1>1, <1>3, <1>7, <1>8, <1>11, <2>3, <2>4
  <1>. QED
    BY <1>1, <1>9, <1>10, <1>11

(* A purchase at the market price costs what it adds to the position, and  *)
(* closing a short position is paid what the position was worth.           *)
LEMMA PurchaseIsNeutral ==
  ASSUME TypeOK, TypeOK', OneCurrency, NEW p \in Pair, NEW n \in Nat,
         Neutral("BUY", p, n), Trade("BUY", p, n, lastClose[p]), UNCHANGED lastClose
  PROVE  Equity' - Equity = 0
  <1> DEFINE k == lock[AssetOf[p]]
             v == lastClose[p]
  <1>1. /\ Asset(p) \in Int /\ Quote(p) \in Int /\ v \in Nat /\ k \in Nat
        /\ QuoteOf[p] = BaseCoin /\ Asset(p) = free[AssetOf[p]] /\ Quote(p) = free[BaseCoin]
        /\ Asset(p) < 0 => k = 0 /\ n + Asset(p) >= 0
    <2>1. Asset(p) \in Int /\ Quote(p) \in Int /\ v \in Nat
      BY Inputs DEF TypeOK, Asset, Quote
    <2>2. k \in Nat /\ (k = 0 \/ Asset(p) >= 0) /\ (Asset(p) < 0 => n >= -Asset(p))
      BY DEF Neutral
    <2>3. QuoteOf[p] = BaseCoin /\ Asset(p) = free[AssetOf[p]] /\ Quote(p) = free[BaseCoin]
      BY DEF OneCurrency, Asset, Quote
    <2> HIDE DEF k, v
    <2>. QED
      BY <2>1, <2>2, <2>3
  <1>2. /\ UNCHANGED <<lock, avgShort>>
        /\ \A c \in Coin : c \notin {AssetOf[p], BaseCoin} => free'[c] = free[c]
        /\ free'[AssetOf[p]] = Asset(p) + n
        /\ Asset(p) >= 0 => free'[BaseCoin] = Quote(p) - n * v
        /\ Asset(p) < 0 => free'[BaseCoin] = Quote(p) - ((n + Asset(p)) * v - ValueIn(p, Asset(p)))
    BY <1>1, PurchaseMoves
  <1>3. Equity' - Equity = (Worth'[p] - Worth[p]) + (free'[BaseCoin] - free[BaseCoin])
    BY <1>2, EquityMoves
  <1>5. Worth[p] = ValueIn(p, Asset(p) + k)
    BY <1>1 DEF Worth
  <1>6. Worth'[p] = (Asset(p) + n + k) * v
    <2>1. Worth'[p] = (ValueIn(p, free[AssetOf[p]] + lock[AssetOf[p]]))'
      BY DEF Worth
    <2>2. free'[AssetOf[p]] + lock'[AssetOf[p]] = Asset(p) + n + k /\ Asset(p) + n + k >= 0
      BY <1>1, <1>2
    <2>. QED
      BY <1>1, <2>1, <2>2 DEF ValueIn
  <1>7. CASE Asset(p) >= 0
    <2>1. Worth[p] = (Asset(p) + k) * v
      BY <1>1, <1>5, <1>7 DEF ValueIn
    <2>2. (Asset(p) + n + k) * v = (Asset(p) + k) * v + n * v /\ n * v \in Int
      BY <1>1
    <2>3. (Asset(p) + k) * v \in Int
      BY <1>1
    <2> HIDE DEF k, v
    <2>. QED
      BY <1>1, <1>2, <1>3, <1>6, <1>7, <2>1, <2>2, <2>3
  <1>8. CASE Asset(p) < 0
    <2>1. Worth[p] = ValueIn(p, Asset(p)) /\ Worth'[p] = (n + Asset(p)) * v
      <3>1. Asset(p) + k = Asset(p) /\ Asset(p) + n + k = n + Asset(p)
        BY <1>1, <1>8
      <3>. QED
        BY <1>5, <1>6, <3>1
    <2>2. ValueIn(p, Asset(p)) \in Int /\ (n + Asset(p)) * v \in Int
      BY <1>1, WorthType
    <2> HIDE DEF k, v
    <2>. QED
      BY <1>1, <1>2, <1>3, <1>8, <2>1, <2>2
  <1>. QED
    BY <1>1, <1>7, <1>8

(* A sale at the market price is paid what it takes from the position; one *)
(* that extends a short position loses what rounding its mean price loses. *)
LEMMA SaleIsNeutral ==
  ASSUME TypeOK, TypeOK', OneCurrency, NEW p \in Pair, NEW n \in Nat, n # 0,
         Neutral("SELL", p, n), Trade("SELL", p, n, lastClose[p]), UNCHANGED lastClose
  PROVE  Equity' - Equity \in (-Rounding(p)')..0
  <1> DEFINE k == lock[AssetOf[p]]
             v == lastClose[p]
             a == Asset(p)
             q == Quote(p)
             m == avgShort[p]
  <1>1. /\ a \in Int /\ q \in Int /\ v \in Nat /\ k \in Nat /\ m \in Int
        /\ QuoteOf[p] = BaseCoin /\ a = free[AssetOf[p]] /\ q = free[BaseCoin]
        /\ k # 0 => n <= a
        /\ a < 0 => v > 0
    <2>1. a \in Int /\ q \in Int /\ v \in Nat /\ m \in Int
      BY Inputs DEF TypeOK, Asset, Quote
    <2>2. k \in Nat /\ (k # 0 => n <= a) /\ (a < 0 => v > 0)
      BY DEF Neutral
    <2>3. QuoteOf[p] = BaseCoin /\ a = free[AssetOf[p]] /\ q = free[BaseCoin]
      BY DEF OneCurrency, Asset, Quote
    <2>. QED
      BY <2>1, <2>2, <2>3
  <1>2. /\ UNCHANGED lock
        /\ \A o \in Pair : o # p => avgShort'[o] = avgShort[o]
        /\ \A c \in Coin : c \notin {AssetOf[p], BaseCoin} => free'[c] = free[c]
    BY <1>1, SaleMoves
  <1>3. Equity' - Equity = (Worth'[p] - Worth[p]) + (free'[BaseCoin] - q)
    BY <1>1, <1>2, EquityMoves
  <1>4. Worth[p] = ValueIn(p, a + k) /\ Worth[p] \in Int
    <2>1. a + k \in Int
      BY <1>1
    <2>. QED
      BY <1>1, <2>1, WorthType DEF Worth
  <1>5. /\ free'[AssetOf[p]] + k >= 0 => Worth'[p] = (free'[AssetOf[p]] + k) * v
        /\ free'[AssetOf[p]] + k < 0 =>
             Worth'[p] = 2 * (-(free'[AssetOf[p]] + k)) * avgShort'[p] - (-(free'[AssetOf[p]] + k)) * v
    <2>1. Worth'[p] = (ValueIn(p, free[AssetOf[p]] + lock[AssetOf[p]]))'
      BY DEF Worth
    <2>2. free'[AssetOf[p]] \in Int
      BY Inputs DEF TypeOK
    <2>3. PICK x \in Int : x = free'[AssetOf[p]] + k
      BY <1>1, <2>2
    <2>4. Worth'[p] = IF x < 0 THEN 2 * (-x) * avgShort'[p] - (-x) * v ELSE x * v
      BY <1>2, <2>1, <2>3 DEF ValueIn
    <2>. QED
      BY <2>3, <2>4
  <1>6. Rounding(p)' = 2 * MaxOf(-free'[AssetOf[p]], 0) /\ free'[AssetOf[p]] \in Int
    BY Inputs DEF Rounding, TypeOK
  <1> DEFINE change == Equity' - Equity
  <1>7. ASSUME change = 0 PROVE change \in (-Rounding(p)')..0
    BY <1>6, <1>7 DEF MaxOf
  <1>8. CASE n <= a
    <2>1. free'[AssetOf[p]] = a - n /\ free'[BaseCoin] = q + n * v
      BY <1>1, <1>8, SaleMoves
    <2>2. Worth[p] = (a + k) * v
      BY <1>1, <1>4, <1>8 DEF ValueIn
    <2>3. Worth'[p] = ((a - n) + k) * v
      BY <1>1, <1>5, <1>8, <2>1
    <2>4. /\ (a + k) * v = ((a - n) + k) * v + n * v
          /\ n * v \in Int /\ ((a - n) + k) * v \in Int
      BY <1>1
    <2> HIDE DEF a, k, q, v, change
    <2>5. (Worth'[p] - Worth[p]) + (free'[BaseCoin] - q) = 0
      BY <1>1, <2>1, <2>2, <2>3, <2>4
    <2>. QED
      BY <1>3, <1>7, <2>5 DEF change
  <1>9. CASE a \in 0..(n - 1) /\ v = 0
    <2>1. free'[AssetOf[p]] = 0 /\ free'[BaseCoin] = q /\ k = 0
      BY <1>1, <1>9, SaleMoves
    <2>2. Worth[p] = (a + 0) * 0 /\ Worth'[p] = (0 + 0) * 0
      BY <1>1, <1>4, <1>5, <1>9, <2>1 DEF ValueIn
    <2> HIDE DEF a, k, q, v, change
    <2>3. (Worth'[p] - Worth[p]) + (free'[BaseCoin] - q) = 0
      BY <1>1, <2>1, <2>2
    <2>. QED
      BY <1>3, <1>7, <2>3 DEF change
  <1>10. CASE a \in 0..(n - 1) /\ v > 0
    <2>1. /\ free'[AssetOf[p]] = -n /\ avgShort'[p] = v
          /\ free'[BaseCoin] = q - (n - a) * v /\ k = 0
      BY <1>1, <1>10, SaleMoves
    <2>2. Worth[p] = a * v
      <3>1. a + k = a /\ ~(a < 0)
        BY <1>1, <1>10, <2>1
      <3>. QED
        BY <1>4, <3>1 DEF ValueIn
    <2>3. Worth'[p] = 2 * n * v - n * v
      <3>1. free'[AssetOf[p]] + k < 0 /\ -(free'[AssetOf[p]] + k) = n
        BY <2>1
      <3>. QED
        BY <1>5, <2>1, <3>1
    <2>4. (n - a) * v = n * v - a * v /\ 2 * n * v = n * v + n * v /\ n * v \in Int /\ a * v \in Int
      BY <1>1
    <2> HIDE DEF a, k, q, v, change
    <2>5. (Worth'[p] - Worth[p]) + (free'[BaseCoin] - q) = 0
      BY <1>1, <2>1, <2>2, <2>3, <2>4
    <2>. QED
      BY <1>3, <1>7, <2>5 DEF change
  <1>11. CASE a < 0
    <2>1. /\ free'[AssetOf[p]] = a - n /\ avgShort'[p] = (m * (-a) + n * v) \div (n - a)
          /\ free'[BaseCoin] = q - n * v /\ k = 0
      BY <1>1, <1>11, SaleMoves
    <2>2. Worth[p] = 2 * (-a) * m - (-a) * v
      <3>1. a + k = a
        BY <1>1, <2>1
      <3>. QED
        BY <1>4, <1>11, <3>1 DEF ValueIn
    <2>3. PICK s \in Int : s = avgShort'[p]
      BY DEF TypeOK
    <2>4. Worth'[p] = 2 * (n - a) * s - (n - a) * v
      <3>1. free'[AssetOf[p]] + k < 0 /\ -(free'[AssetOf[p]] + k) = n - a
        BY <1>1, <1>11, <2>1
      <3>. QED
        BY <1>5, <2>3, <3>1
    <2>5. n - a \in Nat /\ n - a > 0
      BY <1>1, <1>11
    <2>6. PICK am, nv, av \in Int : am = m * (-a) /\ nv = n * v /\ av = (-a) * v
      BY <1>1
    <2>7. /\ (n - a) * s \in Int /\ (n - a) * s <= am + nv /\ am + nv < (n - a) * s + (n - a)
      <3>1. am + nv \in Int /\ s = (am + nv) \div (n - a)
        BY <2>1, <2>3, <2>6
      <3>. QED
        BY <2>5, <3>1, MeanLoses
    <2>8. PICK t \in Int : t = (n - a) * s
      BY <2>7
    <2>9. /\ 2 * (-a) * m = 2 * am /\ 2 * (n - a) * s = 2 * t
          /\ (n - a) * v = nv + av
      BY <1>1, <2>6, <2>8
    <2>10. Rounding(p)' = 2 * (n - a)
      BY <1>1, <1>6, <1>11, <2>1 DEF MaxOf
    <2> HIDE DEF a, k, q, v, m, change
    <2>11. (Worth'[p] - Worth[p]) + (free'[BaseCoin] - q) = 2 * t - 2 * (am + nv)
      <3>1. Worth'[p] = 2 * t - (nv + av) /\ Worth[p] = 2 * am - av
        BY <2>2, <2>4, <2>6, <2>9
      <3>2. free'[BaseCoin] = q - nv
        BY <2>1, <2>6
      <3>. QED
        BY <1>1, <3>1, <3>2
    <2>12. change = 2 * t - 2 * (am + nv)
      BY <1>3, <2>11 DEF change
    <2>. QED
      BY <1>1, <2>5, <2>7, <2>8, <2>10, <2>12 DEF change
  <1>. QED
    BY <1>1, <1>8, <1>9, <1>10, <1>11

(* The step that adds a market order is the request for one.               *)
LEMMA MarketStep ==
  ASSUME TypeOK, TypeOK', [Next]_vars, NEW p \in Pair, MarketOrderOn(p)
  PROVE  \E side \in Side, n \in Nat, method \in {"market", "marketQuote"} :
           MayRequest(method, side, p, n) /\ createOrderMarket(side, p, n)
  <1> DEFINE last == orders'[Len(orders')]
  <1>1. /\ orders \in Seq(Order) /\ Len(orders) \in Nat
        /\ Len(orders') = Len(orders) + 1 /\ last.type = "MARKET" /\ last.pair = p
    BY DEF TypeOK, MarketOrderOn
  <1>2. ASSUME NEW o, orders' = Append(orders, o) PROVE last = o
    BY <1>1, <1>2
  <1>3. ASSUME NEW side \in Side, NEW o \in Pair, NEW n \in Nat,
               NEW method \in {"market", "marketQuote"}, MayRequest(method, side, o, n),
               createOrderMarket(side, o, n)
        PROVE  \E m \in {"market", "marketQuote"} :
                 MayRequest(m, side, p, n) /\ createOrderMarket(side, p, n)
    <2>1. last = NewOrder(counter + 1, 0, o, side, "MARKET", lastClose[o], 0, n)
      BY <1>2, <1>3 DEF createOrderMarket
    <2>2. o = p
      BY <1>1, <2>1 DEF NewOrder
    <2>. QED
      BY <1>3, <2>2
  <1>4. CASE Request
    <2>1. PICK side \in Side, o \in Pair, n \in Sizes :
            \/ \E price, stop \in Prices : CreateOrderOCO(side, o, n, price, stop, stop)
            \/ \E limit \in Prices : CreateOrderLimit(side, o, n, limit)
            \/ CreateOrderMarket(side, o, n)
      BY <1>4 DEF Request
    <2>2. ASSUME NEW price \in Prices, NEW stop \in Prices,
                 CreateOrderOCO(side, o, n, price, stop, stop)
          PROVE  FALSE
      <3>1. PICK a, b : orders' = orders \o <<a, b>>
        BY <2>2 DEF CreateOrderOCO
      <3>2. Len(orders') = Len(orders) + 2
        BY <1>1, <3>1
      <3>. QED
        BY <1>1, <3>2
    <2>3. ASSUME NEW limit \in Prices, CreateOrderLimit(side, o, n, limit) PROVE FALSE
      <3>1. last = NewOrder(counter + 1, 0, o, side, "LIMIT", limit, 0, n)
        BY <1>2, <2>3 DEF CreateOrderLimit
      <3>. QED
        BY <1>1, <3>1 DEF NewOrder
    <2>4. CASE CreateOrderMarket(side, o, n)
      BY <1>3, <2>4, InputAssumption DEF CreateOrderMarket
    <2>. QED
      BY <2>1, <2>2, <2>3, <2>4
  <1>5. CASE RequestStop
    <2>1. PICK o \in Pair, n \in Sizes, limit \in Prices : CreateOrderStop(o, n, limit)
      BY <1>5 DEF RequestStop
    <2>2. last = NewOrder(counter + 1, 0, o, "SELL", "STOP_LOSS_LIMIT", limit, limit, n)
      BY <1>2, <2>1 DEF CreateOrderStop
    <2>. QED
      BY <1>1, <2>2 DEF NewOrder
  <1>6. CASE RequestQuote
    <2>1. PICK side \in Side, o \in Pair, quoteQuantity \in Prices :
            CreateOrderMarketQuote(side, o, quoteQuantity)
      BY <1>6 DEF RequestQuote
    <2>2. lastClose[o] \in Nat /\ lastClose[o] > 0 /\ quoteQuantity \in Nat
      BY <2>1, InputAssumption DEF CreateOrderMarketQuote, TypeOK
    <2>3. quoteQuantity \div lastClose[o] \in Nat
      BY <2>2
    <2>. QED
      BY <1>3, <2>1, <2>3 DEF CreateOrderMarketQuote
  <1>7. CASE RequestCancel \/ Deliver \/ OnCandleStep \/ UNCHANGED vars
    <2>1. CASE orders' = orders
      BY <1>1, <2>1
    <2>2. RequestCancel \/ ExecuteBuy \/ ExecuteSell => DOMAIN orders' = DOMAIN orders
      BY <1>1 DEF RequestCancel, Cancel, ExecuteBuy, ExecuteSell
    <2>3. Deliver \/ SkipOrder \/ OnCandleEnd \/ UNCHANGED vars => orders' = orders
      BY DEF Deliver, OnCandleBegin, SkipOrder, OnCandleEnd, vars
    <2>4. orders' \in Seq(Order)
      BY DEF TypeOK
    <2>5. CASE DOMAIN orders' = DOMAIN orders
      <3>1. Len(orders') = Len(orders)
        BY <1>1, <2>4, <2>5
      <3>. QED
        BY <1>1, <3>1
    <2>. QED
      BY <1>7, <2>1, <2>2, <2>3, <2>5 DEF OnCandleStep
  <1>. QED
    BY <1>4, <1>5, <1>6, <1>7 DEF Next

(* A client with short positions never locks anything, and sold short at a *)
(* price.                                                                  *)
ShortInv ==
  /\ \A c \in Coin : lock[c] = 0
  /\ \A i \in DOMAIN orders : orders[i].status # "NEW"
  /\ \A p \in Pair : Asset(p) < 0 => lastClose[p] > 0

(* A market order of such a client.                                        *)
LEMMA ShortTrade ==
  ASSUME TypeOK, OneCurrency, ShortInv, Discipline = "short",
         NEW method, NEW side \in Side, NEW p \in Pair, NEW n \in Nat,
         MayRequest(method, side, p, n), createOrderMarket(side, p, n)
  PROVE  Neutral(side, p, n) /\ ShortInv'
  <1>1. AssetOf[p] \in Coin /\ Asset(p) \in Int /\ lastClose[p] \in Nat /\ n # 0
    BY Inputs, FundsTypes DEF TypeOK, MayRequest
  <1>2. Neutral(side, p, n)
    BY <1>1 DEF Neutral, ShortInv, MayRequest, Disciplined
  <1>3. Trade(side, p, n, lastClose[p]) /\ UNCHANGED lastClose
    BY DEF createOrderMarket
  <1>4. /\ UNCHANGED lock
        /\ \A c \in Coin : c \notin {AssetOf[p], QuoteOf[p]} => free'[c] = free[c]
        /\ free'[AssetOf[p]] < 0 => lastClose[p] > 0
    <2>1. CASE side = "BUY"
      <3>1. free'[AssetOf[p]] = Asset(p) + n
        BY <1>2, <1>3, <2>1, PurchaseMoves
      <3>2. free'[AssetOf[p]] < 0 => Asset(p) < 0
        BY <1>1, <3>1
      <3>. QED
        BY <1>2, <1>3, <2>1, <3>2, PurchaseMoves DEF ShortInv
    <2>2. CASE side = "SELL"
      <3>1. \/ n <= Asset(p) /\ free'[AssetOf[p]] = Asset(p) - n
            \/ free'[AssetOf[p]] = 0
            \/ lastClose[p] > 0
        <4>1. n <= Asset(p) \/ Asset(p) \in 0..(n - 1) \/ Asset(p) < 0
          BY <1>1
        <4>2. lastClose[p] = 0 \/ lastClose[p] > 0
          BY <1>1
        <4>. QED
          BY <1>1, <1>2, <1>3, <2>2, <4>1, <4>2, SaleMoves DEF ShortInv
      <3>2. free'[AssetOf[p]] < 0 => lastClose[p] > 0
        BY <1>1, <3>1
      <3>. QED
        BY <1>1, <1>2, <1>3, <2>2, <3>2, SaleMoves
    <2>. QED
      BY <2>1, <2>2 DEF Side
  <1>5. \A i \in DOMAIN orders' : orders'[i].status # "NEW"
    <2>1. PICK o : orders' = Append(orders, o) /\ o.status = "FILLED"
      BY DEF createOrderMarket, NewOrder
    <2>2. \A i \in DOMAIN orders' : orders'[i] = o \/ (i \in DOMAIN orders /\ orders'[i] = orders[i])
      BY <2>1 DEF TypeOK
    <2>. QED
      BY <2>1, <2>2 DEF ShortInv
  <1>6. ASSUME NEW o \in Pair, free'[AssetOf[o]] < 0 PROVE lastClose[o] > 0
    <2>1. CASE o = p
      BY <1>4, <1>6, <2>1
    <2>2. CASE o # p
      <3>1. /\ AssetOf[o] \in Coin /\ AssetOf[o] # AssetOf[p] /\ AssetOf[o] # QuoteOf[p]
        BY <2>2, Inputs DEF OneCurrency
      <3>2. free'[AssetOf[o]] = free[AssetOf[o]]
        BY <1>4, <3>1
      <3>. QED
        BY <1>6, <3>2 DEF ShortInv, Asset
    <2>. QED
      BY <2>1, <2>2
  <1>. QED
    BY <1>2, <1>3, <1>4, <1>5, <1>6 DEF ShortInv, Asset

(* Every step keeps it so.                                                 *)
LEMMA ShortStep ==
  ASSUME TypeOK, OneCurrency, ShortOnMarket, ShortInv, [Next]_vars
  PROVE  ShortInv'
  <1>1. \A side : <<"oco", side>> \notin Ops /\ <<"limit", side>> \notin Ops
                  /\ <<"stop", side>> \notin Ops
    BY DEF ShortOnMarket
  <1>2. CASE Request
    <2>1. PICK side \in Side, p \in Pair, n \in Sizes : CreateOrderMarket(side, p, n)
      <3>1. \A side, p, n, price, stop : ~CreateOrderOCO(side, p, n, price, stop, stop)
        BY <1>1 DEF CreateOrderOCO, MayRequest
      <3>2. \A side, p, n, limit : ~CreateOrderLimit(side, p, n, limit)
        BY <1>1 DEF CreateOrderLimit, MayRequest
      <3>. QED
        BY <1>2, <3>1, <3>2 DEF Request
    <2>. QED
      BY <2>1, ShortTrade, InputAssumption DEF CreateOrderMarket, ShortOnMarket
  <1>3. CASE RequestStop
    BY <1>1, <1>3 DEF RequestStop, CreateOrderStop, MayRequest
  <1>4. CASE RequestQuote
    <2>1. PICK side \in Side, p \in Pair, quoteQuantity \in Prices :
            CreateOrderMarketQuote(side, p, quoteQuantity)
      BY <1>4 DEF RequestQuote
    <2>2. lastClose[p] \in Nat /\ lastClose[p] > 0 /\ quoteQuantity \in Nat
      BY <2>1, InputAssumption DEF CreateOrderMarketQuote, TypeOK
    <2>3. quoteQuantity \div lastClose[p] \in Nat
      BY <2>2
    <2>. QED
      BY <2>1, <2>3, ShortTrade DEF CreateOrderMarketQuote, ShortOnMarket
  <1>5. CASE RequestCancel
    <2>1. PICK id \in 1..counter : Cancel(id)
      BY <1>5 DEF RequestCancel
    <2>2. \A i \in DOMAIN orders' : orders'[i].status # "NEW"
      <3>1. /\ DOMAIN orders' = DOMAIN orders
            /\ \A i \in DOMAIN orders :
                 orders'[i] = orders[i] \/ orders'[i] = [orders[i] EXCEPT !.status = "CANCELED"]
        BY <2>1 DEF Cancel
      <3>2. \A i \in DOMAIN orders :
              orders[i] \in Order /\ [orders[i] EXCEPT !.status = "CANCELED"].status = "CANCELED"
        BY StatusType DEF TypeOK, Status
      <3>. QED
        BY <3>1, <3>2 DEF ShortInv
    <2>. QED
      BY <2>1, <2>2 DEF Cancel, ledger, ShortInv, Asset
  <1>6. CASE Deliver
    <2>1. PICK c \in Candle : OnCandleBegin(c)
      BY <1>6 DEF Deliver
    <2>2. c.close > 0 /\ c.pair \in Pair
      BY Inputs DEF ShortOnMarket
    <2>3. /\ lastClose' = [lastClose EXCEPT ![c.pair] = c.close] /\ lastClose \in [Pair -> Nat]
          /\ UNCHANGED <<orders, free, lock>>
      BY <2>1 DEF OnCandleBegin, ledger, TypeOK
    <2>. QED
      BY <2>2, <2>3 DEF ShortInv, Asset
  <1>7. CASE SkipOrder \/ OnCandleEnd \/ UNCHANGED vars
    BY <1>7 DEF SkipOrder, OnCandleEnd, vars, ledger, ShortInv, Asset
  <1>8. ~ExecuteBuy /\ ~ExecuteSell
    BY DEF ExecuteBuy, ExecuteSell, Considered, ShortInv
  <1>. QED
    BY <1>2, <1>3, <1>4, <1>5, <1>6, <1>7, <1>8 DEF Next, OnCandleStep

(* What is locked is never negative without short positions.               *)
LEMMA LocksAreNatural ==
  ASSUME TypeOK, LockIsReservations, Discipline = "long", NEW c \in Coin
  PROVE  lock[c] \in Nat
  <1> DEFINE f == [i \in DOMAIN orders |-> HeldIn(c, orders[i])]
  <1>1. \A i \in DOMAIN orders : f[i] \in Nat
    <2> SUFFICES ASSUME NEW o \in Order PROVE HeldIn(c, o) \in Nat
      BY DEF TypeOK
    <2>1. o.price * o.qty \in Nat /\ o.qty \in Nat
      BY NatProduct DEF Order
    <2>. QED
      BY <2>1 DEF HeldIn
  <1>2. Holding \subseteq DOMAIN orders /\ IsFiniteSet(Holding)
    BY FiniteBook DEF Holding
  <1>3. lock[c] = SumFunctionOnSet(f, Holding)
    BY DEF LockIsReservations
  <1> HIDE DEF f
  <1>. QED
    BY <1>1, <1>2, <1>3, SumOfNaturals

(* MarketIsNeutral: for every set of pairs that trade against one coin, a  *)
(* market order leaves the value of the wallet as it was, up to what       *)
(* rounding the mean price of a short position loses: opening, extending,  *)
(* reversing and closing positions neither creates nor destroys value      *)
(* (paperwallet.go:222-365).  Short positions must be closed entirely, and *)
(* their clients send market orders only.                                  *)
THEOREM MarketOrdersAreNeutral ==
  ASSUME OneCurrency, LongOrShort
  PROVE  Spec => MarketIsNeutral
  <1> DEFINE A == \A p \in Pair : MarketOrderOn(p) => Equity' - Equity \in (-Rounding(p)')..0
             Ready == /\ TypeOK /\ NoOverdraft
                      /\ Discipline = "long" => LockIsReservations
                      /\ Discipline = "short" => ShortInv
  <1>1. Ready /\ TypeOK' /\ [Next]_vars => A
    <2> SUFFICES ASSUME Ready, TypeOK', [Next]_vars, NEW p \in Pair, MarketOrderOn(p)
                 PROVE  Equity' - Equity \in (-Rounding(p)')..0
      OBVIOUS
    <2>1. PICK side \in Side, n \in Nat, method \in {"market", "marketQuote"} :
            MayRequest(method, side, p, n) /\ createOrderMarket(side, p, n)
      BY MarketStep
    <2>2. n # 0 /\ Trade(side, p, n, lastClose[p]) /\ UNCHANGED lastClose
      BY <2>1 DEF MayRequest, createOrderMarket
    <2>3. Neutral(side, p, n)
      <3>1. CASE Discipline = "short"
        BY <2>1, <3>1, ShortTrade
      <3>2. CASE Discipline = "long"
        <4>1. lock[AssetOf[p]] \in Nat /\ Asset(p) \in Int /\ Asset(p) >= 0
          BY <3>2, Inputs, LocksAreNatural DEF NoOverdraft, Asset, TypeOK
        <4>2. side = "SELL" => n <= Asset(p)
          BY <2>1, <3>2 DEF MayRequest, Disciplined
        <4>. QED
          BY <4>1, <4>2 DEF Neutral
      <3>. QED
        BY <3>1, <3>2 DEF LongOrShort, ShortOnMarket
    <2>4. CASE side = "BUY"
      <3>1. Equity' - Equity = 0
        BY <2>2, <2>3, <2>4, PurchaseIsNeutral
      <3>2. Rounding(p)' \in Nat
        <4>1. Rounding(p)' = 2 * MaxOf(-free'[AssetOf[p]], 0) /\ free'[AssetOf[p]] \in Int
          BY Inputs DEF Rounding, TypeOK
        <4>. QED
          BY <4>1 DEF MaxOf
      <3>. QED
        BY <3>1, <3>2
    <2>5. CASE side = "SELL"
      BY <2>2, <2>3, <2>5, SaleIsNeutral
    <2>. QED
      BY <2>4, <2>5 DEF Side
  <1>2. Init /\ Discipline = "short" => ShortInv
    BY Inputs, FundsAssumption DEF Init, ShortInv, Asset
  <1>3. TypeOK /\ (Discipline = "short" => ShortInv) /\ [Next]_vars
          => (Discipline = "short" => ShortInv)'
    BY ShortStep DEF LongOrShort
  <1>4. Spec => [](Discipline = "short" => ShortInv)
    BY <1>2, <1>3, TypeCorrect, PTL DEF Spec
  <1>5. Spec => [](Discipline = "long" => LockIsReservations)
    <2>1. CASE NoBuyOco
      BY <2>1, LocksAreReservations, PTL
    <2>2. CASE ~NoBuyOco
      <3>1. TypeOK => (Discipline = "long" => LockIsReservations)
        BY <2>2 DEF LongOrShort, ShortOnMarket
      <3>. QED
        BY <3>1, TypeCorrect, PTL
    <2>. QED
      BY <2>1, <2>2
  <1>6. Spec => []NoOverdraft
    <2>1. Discipline # "any" /\ QuotesAreNoAssets
      BY Inputs DEF LongOrShort, ShortOnMarket, OneCurrency, QuotesAreNoAssets
    <2>. QED
      BY <2>1, NeverOverdrawn
  <1>7. Ready /\ TypeOK' /\ [Next]_vars => [A]_vars
    BY <1>1
  <1>. QED
    BY <1>4, <1>5, <1>6, <1>7, TypeCorrect, PTL DEF Spec, MarketIsNeutral
=============================================================================
