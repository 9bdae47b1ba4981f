----------------------------- MODULE Strategies -----------------------------
(***************************************************************************)
(* The strategies of examples/strategies, which trade on Binance: at the   *)
(* end of each candle OnCandle reads the position, decides, and creates    *)
(* its orders through the order controller, which creates one at a time.   *)
(* With them the helpers in azbot/tools, the scheduler and the trailing    *)
(* stop.                                                                   *)
(*                                                                         *)
(* Between the candle, the reading and the orders the price moves, and     *)
(* others trade.  A crossing of indicators is a signal of the candle.      *)
(***************************************************************************)
EXTENDS Binance

CONSTANTS
  Strategy,      \* the strategies that may be run, one at a time
  MinTrade,      \* the least amount of quote coins to trade
  OCOAmount,     \* what OCOSell spends each time
  Conditions,    \* the conditions of a scheduler, in their order
  ScheduledSize, \* the size of their orders
  Target,        \* the shares, in fourths, that the policy predicts
  MaxCandles,    \* bound: the candles
  MaxStop        \* bound: the trailing stop's rises

ASSUME StrategyAssumption ==
  /\ MinTrade \in Nat /\ OCOAmount \in Nat /\ ScheduledSize \in Nat
  /\ Target \subseteq -4..4 /\ MaxCandles \in Nat /\ MaxStop \in Nat
  /\ {"bot", "user"} \cap ToSet(Conditions) = {}

VARIABLES
  strategy,
  bot,          \* what OnCandle does next
  candle,       \* the candle it was called with
  candles,      \* how many candles there were
  read,         \* the position it read
  view,         \* history: the account and the price then, if it read it
  bought,       \* history: whether OCOSell's purchase was executed
  due,          \* the scheduler's condition that is considered next
  pending,      \* its conditions that are yet to be fulfilled
  learner,      \* the share, in fourths, that RLStrategy takes its position for
  refusal,      \* history: the last order that the exchange refused
  current, stop, active, triggered, distance   \* the trailing stop

trailing == <<current, stop, active, triggered, distance>>
progress == <<candle, candles, read, view>>
outer == <<strategy, client>>

TrailingStop == INSTANCE TrailingStop

None == [by |-> "none", answer |-> "none", quoted |-> FALSE, fresh |-> FALSE, own |-> FALSE]

NoCandle == [close |-> 1, low |-> 1, signals |-> {}]

NoPosition == [asset |-> 0, quote |-> 0]

StrategiesInit ==
  /\ BinanceInit
  /\ strategy \in Strategy
  /\ bot = "idle" /\ candles = 0
  /\ candle = NoCandle /\ read = NoPosition /\ view = <<>> /\ bought = FALSE
  /\ due = 1 /\ pending = ToSet(Conditions)
  /\ learner = 0
  /\ refusal = None
  /\ TrailingStop!Init

-----------------------------------------------------------------------------
(* The candle and the position.                                            *)

(* Crossover and Crossunder exclude each other; a candle may be Turtle's   *)
(* highest and lowest at once.                                             *)
Signals ==
  IF strategy \in {"scheduled", "rl"} THEN {{}}
  ELSE {{}, {"up"}, {"down"}} \cup (IF strategy = "turtle" THEN {{"up", "down"}} ELSE {})

(* How low the candle was matters to Trailing alone.                       *)
Lows == IF strategy = "trailing" THEN {price, price \div 2} ELSE {price}

OnCandle ==
  /\ link = "ready" /\ bot = "idle" /\ candles < MaxCandles
  /\ \E low \in Lows, signals \in Signals :
       candle' = [close |-> price, low |-> low, signals |-> signals]
  /\ candles' = candles + 1
  /\ bot' = IF strategy = "scheduled" THEN "update" ELSE "position"
  /\ due' = 1 /\ bought' = FALSE /\ refusal' = None
  /\ UNCHANGED <<outer, exchange, answered, read, view, pending, learner, trailing>>

(* Trailing sells when its stop is reached within a candle.                *)
OnPartialCandle ==
  /\ link = "ready" /\ bot = "idle" /\ strategy = "trailing" /\ candles < MaxCandles
  /\ candles' = candles + 1
  /\ TrailingStop!Update(price)
  /\ bot' = IF triggered' THEN "stopped" ELSE "idle"
  /\ UNCHANGED <<outer, exchange, answered, candle, read, view, bought, due, pending, learner,
                 refusal>>

(* What OnCandle read is forgotten when it returns.                        *)
Returns == candle' = NoCandle /\ read' = NoPosition /\ view' = <<>> /\ UNCHANGED candles

(* All but RLStrategy, to whom it is a position of nothing, return when    *)
(* the position cannot be read.                                            *)
ReadPosition ==
  /\ bot \in {"position", "stopped"}
  /\ \/ /\ read' = Position
        /\ bot' = IF bot = "stopped" THEN "sell" ELSE "decide"
        /\ UNCHANGED <<candle, candles>>
     \/ /\ read' = NoPosition /\ UNCHANGED <<candle, candles>>
        /\ strategy = "rl" /\ bot' = "decide"
     \/ strategy # "rl" /\ bot' = "idle" /\ Returns
  /\ view' = IF bot' = "idle" THEN <<>> ELSE <<View>>
  /\ UNCHANGED <<outer, exchange, answered, bought, due, pending, learner, refusal, trailing>>

-----------------------------------------------------------------------------
(* What the strategies ask for: the outcomes of their request, and none if *)
(* they make none.                                                         *)

(* Mutant: the amount is not divided by the price.                         *)
WeightedMutant == (3 * read.quote) \div 10

(* Three tenths of the quote coins.                                        *)
Weighted == (3 * read.quote) \div (10 * candle.close)

CrossEMA ==
  IF read.quote >= MinTrade /\ "up" \in candle.signals
  THEN CreateOrderMarket("bot", "buy", Weighted)
  ELSE IF read.asset > 0 /\ "down" \in candle.signals
  THEN CreateOrderMarket("bot", "sell", read.asset) ELSE {}

Turtle ==
  IF read.asset = 0 /\ "up" \in candle.signals
  THEN CreateOrderMarketQuote("bot", "buy", read.quote \div 2)
  ELSE IF read.asset > 0 /\ "down" \in candle.signals
  THEN CreateOrderMarket("bot", "sell", read.asset) ELSE {}

OCOSells == read.quote > OCOAmount /\ "up" \in candle.signals

OCOSize == OCOAmount \div candle.close

OCOSellBuys == IF OCOSells THEN CreateOrderMarket("bot", "buy", OCOSize) ELSE {}

OCOSell ==
  CreateOrderOCO("bot", "sell", OCOSize, (110 * candle.close) \div 100,
                 (95 * candle.close) \div 100)

Trailing ==
  IF read.quote > MinTrade /\ read.asset * candle.close < MinTrade /\ "up" \in candle.signals
  THEN CreateOrderMarketQuote("bot", "buy", read.quote) ELSE {}

(* A strategy of one's own, for the requests that no example makes.        *)
Own ==
  IF "up" \in candle.signals THEN CreateOrderLimit("bot", "buy", Weighted, candle.close)
  ELSE IF read.asset > 0 /\ "down" \in candle.signals
  THEN CreateOrderStop("bot", read.asset, candle.close) ELSE {}

(* A share of the equity, as it was read.                                  *)
Shift(target) ==
  LET equity == read.asset * candle.close + read.quote
      by == target - learner
      amount == (Max({by, -by}) * equity) \div (4 * candle.close)
  IN  IF by > 0 THEN CreateOrderMarket("bot", "buy", amount)
      ELSE IF by < 0 THEN CreateOrderMarket("bot", "sell", amount) ELSE {}

-----------------------------------------------------------------------------
(* A request's outcome, and what is noted of it: whether nothing had       *)
(* happened since the reading, and whether it asked for no more than the   *)
(* reading allows, which RLStrategy does not know.                         *)

Note(by, answer, quoted, fresh, own) ==
  refusal' = IF answer \in {"refused", "filtered"}
             THEN [by |-> by, answer |-> answer, quoted |-> quoted, fresh |-> fresh, own |-> own]
             ELSE None

Nothing == UNCHANGED <<exchange, answered, refusal>>

(* A panic ends the process.                                               *)
Then(outcome, next) == bot' = IF outcome.answer = "panic" THEN "crashed" ELSE next

Fresh == view = <<View>> /\ price = candle.close

Decide(name, outcomes, quoted) ==
  /\ bot = "decide" /\ strategy = name
  /\ \/ outcomes = {} /\ Nothing /\ bot' = "idle"
     \/ \E outcome \in outcomes :
          /\ Len(book) < MaxOrders
          /\ Take(outcome) /\ Then(outcome, "idle")
          /\ Note("bot", outcome.answer, quoted, Fresh, name # "rl")
  /\ Returns
  /\ UNCHANGED <<outer, bought, due, pending>>

CrossEMADecides == Decide("emacross", CrossEMA, FALSE) /\ UNCHANGED <<learner, trailing>>

TurtleDecides ==
  Decide("turtle", Turtle, read.asset = 0) /\ UNCHANGED <<learner, trailing>>

OwnDecides == Decide("own", Own, FALSE) /\ UNCHANGED <<learner, trailing>>

(* OCOSell buys, and then offers for sale whatever became of the purchase. *)
OCOSellDecides ==
  /\ bot = "decide" /\ strategy = "ocosell"
  /\ \/ OCOSellBuys = {} /\ Nothing /\ bot' = "idle" /\ Returns /\ UNCHANGED bought
     \/ \E outcome \in OCOSellBuys :
          /\ Len(book) < MaxOrders
          /\ Take(outcome) /\ Then(outcome, "oco")
          /\ Note("bot", outcome.answer, FALSE, Fresh, TRUE)
          /\ view' = <<[account |-> account', price |-> price]>>
          /\ UNCHANGED <<candle, candles, read>>
          /\ bought' = \E i \in DOMAIN outcome.book \ DOMAIN book : outcome.book[i].executed > 0
  /\ UNCHANGED <<outer, due, pending, learner, trailing>>

OCOSellOffers ==
  /\ bot = "oco"
  /\ \E outcome \in OCOSell :
       /\ Take(outcome) /\ Then(outcome, "idle")
       /\ Note("bot", outcome.answer, FALSE, view[1].account = account, bought /\ fee = 0)
  /\ Returns /\ bought' = FALSE
  /\ UNCHANGED <<outer, due, pending, learner, trailing>>

(* The stop is set when the purchase is known to have been accepted.       *)
TrailingDecides ==
  /\ Decide("trailing", Trailing, TRUE) /\ UNCHANGED learner
  /\ IF answered' # answered THEN TrailingStop!Start(candle.close, candle.low)
     ELSE UNCHANGED trailing

(* Mutant: the stop is given up whatever the answer.                       *)
StopsMutant(answer) == TRUE

Stops(answer) == answer = "ok"

TrailingSells ==
  /\ bot = "sell"
  /\ \/ read.asset <= 0 /\ Nothing /\ bot' = "idle" /\ UNCHANGED trailing
     \/ /\ read.asset > 0 /\ Len(book) < MaxOrders
        /\ \E outcome \in CreateOrderMarket("bot", "sell", read.asset) :
             /\ Take(outcome) /\ Then(outcome, "idle")
             /\ Note("bot", outcome.answer, FALSE, view = <<View>>, TRUE)
             /\ IF Stops(outcome.answer) THEN TrailingStop!Stop ELSE UNCHANGED trailing
  /\ Returns
  /\ UNCHANGED <<outer, bought, due, pending, learner>>

-----------------------------------------------------------------------------
(* Scheduler.Update: each condition in turn, those that hold with their    *)
(* order.                                                                  *)

(* Mutant: an order that failed is not tried again, one that succeeded is. *)
StaysMutant(answer) == answer = "ok"

(* The condition stays when the order's creation gave an error.            *)
Stays(answer) == answer # "ok"

ScheduleSkips ==
  /\ bot = "update" /\ due <= Len(Conditions)
  /\ due' = due + 1
  /\ UNCHANGED <<outer, exchange, answered, progress, bot, bought, pending, learner, refusal,
                 trailing>>

ScheduleOrders ==
  /\ bot = "update" /\ due <= Len(Conditions) /\ Conditions[due] \in pending
  /\ Len(book) < MaxOrders
  /\ \E outcome \in CreateOrderMarket(Conditions[due], "buy", ScheduledSize) :
       /\ Take(outcome) /\ Then(outcome, "update")
       /\ Note("bot", outcome.answer, FALSE, TRUE, FALSE)
       /\ pending' = IF Stays(outcome.answer) THEN pending ELSE pending \ {Conditions[due]}
  /\ due' = due + 1
  /\ UNCHANGED <<outer, progress, bought, learner, trailing>>

ScheduleEnds ==
  /\ bot = "update" /\ due > Len(Conditions) /\ bot' = "idle" /\ due' = 1 /\ Returns
  /\ UNCHANGED <<outer, exchange, answered, bought, pending, learner, refusal,
                 trailing>>

-----------------------------------------------------------------------------
(* RLStrategy.  Of its candles those before the warm-up ended are not      *)
(* given to it, so that its data suffice.                                  *)

(* The policy's prediction may be any target: it is a random sample.  The  *)
(* strategy takes the position for the predicted one, whatever the answer. *)
(* The returns, the Sharpe ratio and the policy's memory are left out: no  *)
(* order depends on more than the prediction.                              *)
RLDecides ==
  /\ strategy = "rl"
  /\ \E target \in Target :
       Decide("rl", Shift(target), FALSE) /\ learner' = target
  /\ UNCHANGED trailing

-----------------------------------------------------------------------------

BotStep ==
  \/ OnCandle \/ OnPartialCandle \/ ReadPosition
  \/ CrossEMADecides \/ TurtleDecides \/ OwnDecides \/ RLDecides
  \/ OCOSellDecides \/ OCOSellOffers \/ TrailingDecides \/ TrailingSells
  \/ ScheduleSkips \/ ScheduleOrders \/ ScheduleEnds

strategies == <<strategy, bot, progress, bought, due, pending, learner, refusal, trailing>>

=============================================================================
