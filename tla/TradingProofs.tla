--------------------------- MODULE TradingProofs ---------------------------
(***************************************************************************)
(* What holds whichever strategy runs, whatever fails and whatever a user  *)
(* commands: of the creation of a client, for any number of pair options,  *)
(* of the scheduler, for any conditions, of the trailing stop, for any     *)
(* prices, of the reports of the orders, and of why orders are refused.    *)
(***************************************************************************)
EXTENDS Trading, FiniteSetTheorems, SequenceTheorems, TLAPS

(* The options before the current one are in force; so is the leverage of  *)
(* the current one once its margin type is asked for.                      *)
Configured ==
  market = "futures" =>
    /\ option \in Nat \ {0}
    /\ link \in {"ping", "info", "leverage", "margin", "failed", "ready"}
    /\ link \in {"ping", "info"} => option = 1
    /\ link \in {"leverage", "margin"} => option <= PairOptions
    /\ link # "failed" => 1..(option - 1) \subseteq leveraged \cap margined
    /\ link = "margin" => option \in leveraged
    /\ leveraged \subseteq 1..PairOptions /\ margined \subseteq 1..PairOptions
    /\ link = "ready" => leveraged = 1..PairOptions /\ margined = 1..PairOptions

LEMMA ConfiguredInit == Init => Configured
  BY BinanceAssumption DEF Init, StrategiesInit, BinanceInit, Configured

(* Only the creation touches the client.                                   *)
LEMMA ClientSteps == [Next]_vars => UNCHANGED client \/ (Connect /\ UNCHANGED market)
  <1>1. ASSUME BotStep PROVE UNCHANGED client
    BY <1>1 DEF BotStep, OnCandle, OnPartialCandle, ReadPosition, CrossEMADecides,
       TurtleDecides, OwnDecides, RLDecides, OCOSellDecides, OCOSellOffers, TrailingDecides,
       TrailingSells, ScheduleSkips, ScheduleOrders, ScheduleEnds, Decide, outer, client
  <1>2. ASSUME UserStep PROVE UNCHANGED client
    BY <1>2 DEF UserStep, CommandArrives, UserReads, UserOrders, StartHandle, StopHandle,
       outer, client
  <1> QED
    BY <1>1, <1>2 DEF Next, vars, outer, client, Connect

LEMMA ConfiguredStep == Configured /\ [Next]_vars => Configured'
  <1> SUFFICES ASSUME Configured, [Next]_vars PROVE Configured'
    OBVIOUS
  <1>1. CASE UNCHANGED client
    BY <1>1 DEF Configured, client
  <1>2. CASE Connect /\ UNCHANGED market
    <2> USE <1>2, BinanceAssumption
    <2>1. CASE Ping
      BY <2>1 DEF Ping, Configured
    <2>2. CASE ExchangeInfo
      <3>1. CASE link' = "failed"
        BY <2>2, <3>1 DEF ExchangeInfo, Configured
      <3>2. CASE link' = "leverage"
        BY <2>2, <3>2 DEF ExchangeInfo, Configured
      <3>3. CASE link' = "ready" /\ market = "futures"
        <4>1. PairOptions = 0 /\ 1..PairOptions = {}
          BY <2>2, <3>3 DEF ExchangeInfo
        <4> QED
          BY <2>2, <3>3, <4>1 DEF ExchangeInfo, Configured
      <3> QED
        BY <2>2, <3>1, <3>2, <3>3 DEF ExchangeInfo, Configured
    <2>3. CASE ChangeLeverage
      BY <2>3 DEF ChangeLeverage, Configured
    <2>4. CASE ChangeMarginType
      <3> SUFFICES ASSUME market = "futures" PROVE Configured'
        BY DEF Configured
      <3>1. CASE link' = "failed"
        BY <2>4, <3>1 DEF ChangeMarginType, Configured
      <3>2. CASE link' # "failed"
        <4>1. option \in 1..PairOptions /\ 1..option \subseteq leveraged
          BY <2>4 DEF ChangeMarginType, Configured
        <4>2. margined' \subseteq 1..PairOptions /\ 1..option \subseteq margined'
          BY <2>4, <3>2, <4>1 DEF ChangeMarginType, Tolerated, Configured
        <4>3. CASE option = PairOptions
          BY <2>4, <3>2, <4>1, <4>2, <4>3 DEF ChangeMarginType, Configured
        <4>4. CASE option # PairOptions
          BY <2>4, <3>2, <4>1, <4>2, <4>4 DEF ChangeMarginType, Configured
        <4> QED
          BY <4>3, <4>4
      <3> QED
        BY <3>1, <3>2
    <2> QED
      BY <2>1, <2>2, <2>3, <2>4 DEF Connect
  <1> QED
    BY <1>1, <1>2, ClientSteps

(* A client of the futures market that is ready has every pair option in   *)
(* force, however many there are and whatever their creation met.          *)
THEOREM ReadyFuturesAreConfigured == Spec => []ReadyIsConfigured
  <1>1. Configured => ReadyIsConfigured
    BY DEF Configured, ReadyIsConfigured
  <1> QED
    BY <1>1, ConfiguredInit, ConfiguredStep, PTL DEF Spec

-----------------------------------------------------------------------------
(* The orders.                                                             *)

IsSeq(s) == \E n \in Nat : s = [i \in 1..n |-> s[i]]

(* A request leaves the orders at the exchange, and adds orders of its own,*)
(* all of one side.                                                        *)
Appends(orders, by, side) ==
  /\ IsSeq(orders) /\ DOMAIN book \subseteq DOMAIN orders
  /\ \A i \in DOMAIN book : orders[i] = book[i]
  /\ \A i \in DOMAIN orders \ DOMAIN book :
       /\ {"by", "side"} \subseteq DOMAIN orders[i]
       /\ orders[i].by = by /\ orders[i].side = side

(* When it is answered, it has added one order.                            *)
AppendsOne(outcome) ==
  /\ DOMAIN outcome.book \ DOMAIN book \subseteq {Len(book) + 1}
  /\ outcome.answer = "ok" => Len(book) + 1 \in DOMAIN outcome.book \ DOMAIN book

LEMMA Concatenation ==
  ASSUME NEW s, IsSeq(s), NEW t, IsSeq(t)
  PROVE  /\ IsSeq(s \o t) /\ DOMAIN s \subseteq DOMAIN (s \o t)
         /\ \A i \in DOMAIN s : (s \o t)[i] = s[i]
         /\ \A i \in DOMAIN (s \o t) \ DOMAIN s :
              i - Len(s) \in DOMAIN t /\ (s \o t)[i] = t[i - Len(s)]
  <1> DEFINE T == {s[i] : i \in DOMAIN s} \cup {t[i] : i \in DOMAIN t}
  <1>1. PICK m \in Nat : s = [i \in 1..m |-> s[i]]
    BY DEF IsSeq
  <1>2. PICK n \in Nat : t = [i \in 1..n |-> t[i]]
    BY DEF IsSeq
  <1>3. s \in Seq(T) /\ t \in Seq(T)
    <2>1. s \in [1..m -> T]
      BY <1>1
    <2>2. t \in [1..n -> T]
      BY <1>2
    <2> QED
      BY <2>1, <2>2, SeqDef
  <1> HIDE DEF T
  <1>4. /\ s \o t \in Seq(T) /\ Len(s \o t) = Len(s) + Len(t)
        /\ \A i \in 1..(Len(s) + Len(t)) :
             (s \o t)[i] = IF i <= Len(s) THEN s[i] ELSE t[i - Len(s)]
    BY <1>3, ConcatProperties
  <1>5. /\ Len(s) \in Nat /\ DOMAIN s = 1..Len(s) /\ Len(t) \in Nat /\ DOMAIN t = 1..Len(t)
        /\ DOMAIN (s \o t) = 1..(Len(s) + Len(t))
    BY <1>3, <1>4, LenProperties
  <1>6. IsSeq(s \o t)
    <2> DEFINE u == s \o t
    <2>1. u \in UNION {[1..k -> T] : k \in Nat}
      BY <1>4, SeqDef, Zenon
    <2> HIDE DEF u
    <2>2. PICK k \in Nat : u \in [1..k -> T]
      BY <2>1
    <2>3. IsSeq(u)
      BY <2>2 DEF IsSeq
    <2> QED
      BY <2>3 DEF u
  <1> QED
    BY <1>4, <1>5, <1>6

LEMMA AcceptedAppends ==
  ASSUME IsSeq(book), NEW coins, NEW orders, IsSeq(orders), NEW by, NEW side,
         \A i \in DOMAIN orders :
           /\ {"by", "side"} \subseteq DOMAIN orders[i]
           /\ orders[i].by = by /\ orders[i].side = side,
         NEW outcome \in Accepted(coins, orders)
  PROVE  Appends(outcome.book, by, side)
  <1>1. outcome.book = book \o orders
    BY DEF Accepted, Outcome
  <1>2. /\ IsSeq(book \o orders) /\ DOMAIN book \subseteq DOMAIN (book \o orders)
        /\ \A i \in DOMAIN book : (book \o orders)[i] = book[i]
        /\ \A i \in DOMAIN (book \o orders) \ DOMAIN book :
             i - Len(book) \in DOMAIN orders /\ (book \o orders)[i] = orders[i - Len(book)]
    BY Concatenation
  <1> QED
    BY <1>1, <1>2 DEF Appends

LEMMA UnacceptedAppends ==
  ASSUME IsSeq(book), NEW answer, answer # "ok", NEW by, NEW side,
         NEW outcome \in Unaccepted(answer)
  PROVE  Appends(outcome.book, by, side) /\ AppendsOne(outcome)
  <1>1. outcome.book = book /\ outcome.answer = answer
    BY DEF Unaccepted, Outcome
  <1> QED
    BY <1>1 DEF Appends, AppendsOne

LEMMA OneOrder ==
  ASSUME IsSeq(book), NEW coins, NEW by, NEW side, NEW type, NEW status, NEW quantity,
         NEW executed, NEW cost, NEW limit, NEW group,
         NEW outcome \in Accepted(coins, <<Order(by, side, type, status, quantity, executed,
                                                 cost, limit, group)>>)
  PROVE  Appends(outcome.book, by, side) /\ AppendsOne(outcome)
  <1> DEFINE orders == <<Order(by, side, type, status, quantity, executed, cost, limit, group)>>
  <1>1. IsSeq(orders) /\ DOMAIN orders = {1} /\ Len(orders) = 1
    <2>1. orders = [i \in 1..1 |-> orders[i]] /\ 1..1 = {1}
      OBVIOUS
    <2> QED
      BY <2>1 DEF IsSeq
  <1>2. \A i \in DOMAIN orders : /\ {"by", "side"} \subseteq DOMAIN orders[i]
                                 /\ orders[i].by = by /\ orders[i].side = side
    BY DEF Order
  <1>3. outcome.book = book \o orders
    BY DEF Accepted, Outcome
  <1> HIDE DEF orders
  <1>4. Appends(outcome.book, by, side)
    BY <1>1, <1>2, AcceptedAppends DEF orders
  <1>5. \A i \in DOMAIN (book \o orders) \ DOMAIN book : i - Len(book) \in DOMAIN orders
    BY <1>1, Concatenation
  <1>6. Len(book) \in Nat /\ DOMAIN book = 1..Len(book)
        /\ DOMAIN (book \o orders) = 1..(Len(book) + 1)
    BY <1>1, Concatenation DEF IsSeq
  <1>7. AppendsOne(outcome)
    BY <1>1, <1>3, <1>5, <1>6 DEF AppendsOne
  <1> QED
    BY <1>4, <1>7

(* Each request adds orders of whoever makes it, a market order one.       *)
LEMMA MarketAppends ==
  ASSUME IsSeq(book), NEW by, NEW side, NEW quantity,
         NEW outcome \in CreateOrderMarket(by, side, quantity)
                           \cup CreateOrderMarketQuote(by, side, quantity)
  PROVE  Appends(outcome.book, by, side) /\ AppendsOne(outcome)
  <1>1. CASE outcome \in CreateOrderMarket(by, side, quantity)
    BY <1>1, OneOrder, UnacceptedAppends DEF CreateOrderMarket, Sent, Market
  <1>2. CASE outcome \in CreateOrderMarketQuote(by, side, quantity)
    BY <1>2, OneOrder, UnacceptedAppends DEF CreateOrderMarketQuote, Sent, Market
  <1> QED
    BY <1>1, <1>2

LEMMA LimitAppends ==
  ASSUME IsSeq(book), NEW by, NEW side, NEW quantity, NEW limit,
         NEW outcome \in CreateOrderLimit(by, side, quantity, limit)
  PROVE  Appends(outcome.book, by, side)
  BY OneOrder, UnacceptedAppends DEF CreateOrderLimit, Sent, Resting

LEMMA StopAppends ==
  ASSUME IsSeq(book), NEW by, NEW quantity, NEW limit,
         NEW outcome \in CreateOrderStop(by, quantity, limit)
  PROVE  Appends(outcome.book, by, "sell")
  BY OneOrder, UnacceptedAppends DEF CreateOrderStop, Sent, Resting

LEMMA OCOAppends ==
  ASSUME IsSeq(book), NEW by, NEW side, NEW quantity, NEW limit, NEW stopLimit,
         NEW outcome \in CreateOrderOCO(by, side, quantity, limit, stopLimit)
  PROVE  Appends(outcome.book, by, side)
  <1> DEFINE q == formatQuantity(quantity)
             orders == <<Order(by, side, "stop", "new", q, 0, 0, stopLimit, Len(book) + 1),
                         Order(by, side, "limit", "new", q, 0, 0, limit, Len(book) + 1)>>
  <1>1. IsSeq(orders)
    <2>1. orders = [i \in 1..2 |-> orders[i]]
      OBVIOUS
    <2> QED
      BY <2>1 DEF IsSeq
  <1>2. \A i \in DOMAIN orders : /\ {"by", "side"} \subseteq DOMAIN orders[i]
                                 /\ orders[i].by = by /\ orders[i].side = side
    BY DEF Order
  <1>3. \/ \E answer : answer # "ok" /\ outcome \in Unaccepted(answer)
        \/ \E coins : outcome \in Accepted(coins, orders)
    BY DEF CreateOrderOCO, Sent
  <1> HIDE DEF orders
  <1> QED
    BY <1>1, <1>2, <1>3, UnacceptedAppends, AcceptedAppends

-----------------------------------------------------------------------------
(* The scheduler.                                                          *)

(* The bot was told of no order of a condition that is pending, and of one *)
(* order of a condition at most.                                           *)
Scheduling ==
  /\ IsSeq(book) /\ DOMAIN answered \subseteq DOMAIN book
  /\ \A i \in DOMAIN book : {"by", "side"} \subseteq DOMAIN book[i]
  /\ pending \subseteq ToSet(Conditions)
  /\ \A i \in DOMAIN answered : book[i].by \notin pending
  /\ \A i, j \in DOMAIN answered :
       book[i].by \in ToSet(Conditions) /\ book[i].by = book[j].by => i = j

LEMMA SchedulingInit == Init => Scheduling
  <1> SUFFICES ASSUME Init PROVE Scheduling
    OBVIOUS
  <1>1. book = <<>> /\ answered = <<>> /\ pending = ToSet(Conditions)
    BY DEF Init, StrategiesInit, BinanceInit
  <1>2. IsSeq(book) /\ DOMAIN book = {}
    <2>1. book = [i \in 1..0 |-> book[i]]
      BY <1>1
    <2> QED
      BY <1>1, <2>1 DEF IsSeq
  <1> QED
    BY <1>1, <1>2 DEF Scheduling

(* What a request leaves: the orders there were, and the new ones, of all  *)
(* of which or none of which the bot is told.                              *)
LEMMA Taken ==
  ASSUME Scheduling, NEW by, NEW side, NEW outcome, Appends(outcome.book, by, side), Take(outcome)
  PROVE  /\ book' = outcome.book /\ IsSeq(book') /\ DOMAIN book \subseteq DOMAIN book'
         /\ \A i \in DOMAIN book' : {"by", "side"} \subseteq DOMAIN book'[i]
         /\ \A i \in DOMAIN book : book'[i] = book[i]
         /\ \A i \in DOMAIN book' \ DOMAIN book : book'[i].by = by /\ book'[i].side = side
         /\ DOMAIN answered' = IF outcome.answer = "ok"
              THEN DOMAIN answered \cup (DOMAIN book' \ DOMAIN book) ELSE DOMAIN answered
  BY DEF Take, Appends, Scheduling

LEMMA OtherRequests ==
  ASSUME Scheduling, NEW by \in {"bot", "user"}, NEW side, NEW outcome,
         Appends(outcome.book, by, side), Take(outcome), UNCHANGED pending
  PROVE  Scheduling'
  <1>1. by \notin ToSet(Conditions)
    BY StrategyAssumption
  <1>2. /\ book' = outcome.book /\ IsSeq(book') /\ DOMAIN book \subseteq DOMAIN book'
        /\ \A i \in DOMAIN book' : {"by", "side"} \subseteq DOMAIN book'[i]
        /\ \A i \in DOMAIN book : book'[i] = book[i]
        /\ \A i \in DOMAIN book' \ DOMAIN book : book'[i].by = by /\ book'[i].side = side
        /\ DOMAIN answered' = IF outcome.answer = "ok"
             THEN DOMAIN answered \cup (DOMAIN book' \ DOMAIN book) ELSE DOMAIN answered
    BY Taken
  <1>3. /\ DOMAIN answered' \subseteq DOMAIN book' /\ pending' \subseteq ToSet(Conditions)
        /\ \A i \in DOMAIN answered' :
             (i \in DOMAIN answered /\ book'[i].by = book[i].by) \/ book'[i].by = by
    BY <1>2 DEF Scheduling
  <1>4. \A i \in DOMAIN answered' : book'[i].by \notin pending'
    BY <1>1, <1>3 DEF Scheduling
  <1>5. \A i, j \in DOMAIN answered' :
          book'[i].by \in ToSet(Conditions) /\ book'[i].by = book'[j].by => i = j
    BY <1>1, <1>3 DEF Scheduling
  <1> QED
    BY <1>2, <1>3, <1>4, <1>5 DEF Scheduling

LEMMA SameOrders ==
  ASSUME Scheduling, UNCHANGED <<book, answered, pending>>
  PROVE  Scheduling'
  BY DEF Scheduling

LEMMA SchedulingOrders == ASSUME Scheduling, ScheduleOrders PROVE Scheduling'
  <1> DEFINE k == Conditions[due]
  <1>1. PICK outcome \in CreateOrderMarket(k, "buy", ScheduledSize) :
          /\ Take(outcome) /\ k \in pending
          /\ pending' = IF outcome.answer # "ok" THEN pending ELSE pending \ {k}
    BY DEF ScheduleOrders, Stays
  <1>2. Appends(outcome.book, k, "buy")
        /\ DOMAIN outcome.book \ DOMAIN book \subseteq {Len(book) + 1}
    BY <1>1, MarketAppends DEF Scheduling, AppendsOne
  <1>3. /\ book' = outcome.book /\ IsSeq(book') /\ DOMAIN book \subseteq DOMAIN book'
        /\ \A i \in DOMAIN book' : {"by", "side"} \subseteq DOMAIN book'[i]
        /\ \A i \in DOMAIN book : book'[i] = book[i]
        /\ \A i \in DOMAIN book' \ DOMAIN book : book'[i].by = k
        /\ DOMAIN answered' = IF outcome.answer = "ok"
             THEN DOMAIN answered \cup (DOMAIN book' \ DOMAIN book) ELSE DOMAIN answered
    BY <1>1, <1>2, Taken
  <1> HIDE DEF k
  <1>4. CASE outcome.answer # "ok"
    BY <1>1, <1>3, <1>4 DEF Scheduling
  <1>5. CASE outcome.answer = "ok"
    <2>1. /\ DOMAIN answered' \subseteq DOMAIN book' /\ pending' = pending \ {k}
          /\ pending' \subseteq ToSet(Conditions)
      BY <1>1, <1>3, <1>5 DEF Scheduling
    <2>2. \A i \in DOMAIN answered' :
            \/ i \in DOMAIN answered /\ book'[i].by = book[i].by /\ book'[i].by # k
            \/ i = Len(book) + 1 /\ book'[i].by = k
      BY <1>1, <1>2, <1>3, <1>5 DEF Scheduling
    <2>3. \A i \in DOMAIN answered' : book'[i].by \notin pending'
      BY <2>1, <2>2 DEF Scheduling
    <2>4. \A i, j \in DOMAIN answered' :
            book'[i].by \in ToSet(Conditions) /\ book'[i].by = book'[j].by => i = j
      BY <2>2 DEF Scheduling
    <2> QED
      BY <1>3, <2>1, <2>3, <2>4 DEF Scheduling
  <1> QED
    BY <1>4, <1>5

LEMMA SchedulingBot == ASSUME Scheduling, BotStep PROVE Scheduling'
  <1> USE DEF Nothing, exchange
  <1>1. CASE OnCandle \/ OnPartialCandle \/ ReadPosition \/ ScheduleSkips \/ ScheduleEnds
    BY <1>1, SameOrders DEF OnCandle, OnPartialCandle, ReadPosition, ScheduleSkips, ScheduleEnds
  <1>2. CASE ScheduleOrders
    BY <1>2, SchedulingOrders
  <1>3. ASSUME NEW name, NEW outcomes, NEW quoted, Decide(name, outcomes, quoted),
               \A outcome \in outcomes : \E side : Appends(outcome.book, "bot", side)
        PROVE  Scheduling'
    BY <1>3, SameOrders, OtherRequests DEF Decide
  <1>4. IsSeq(book)
    BY DEF Scheduling
  <1>5. CASE CrossEMADecides
    BY <1>3, <1>4, <1>5, MarketAppends DEF CrossEMADecides, CrossEMA
  <1>6. CASE TurtleDecides
    BY <1>3, <1>4, <1>6, MarketAppends DEF TurtleDecides, Turtle
  <1>7. CASE OwnDecides
    <2>1. \A outcome \in Own : \E side : Appends(outcome.book, "bot", side)
      BY <1>4, LimitAppends, StopAppends DEF Own
    <2> QED
      BY <1>3, <1>7, <2>1 DEF OwnDecides
  <1>8. CASE RLDecides
    <2>1. PICK target \in Target : Decide("rl", Shift(target), FALSE)
      BY <1>8 DEF RLDecides
    <2>2. \A outcome \in Shift(target) : \E side : Appends(outcome.book, "bot", side)
      BY <1>4, MarketAppends DEF Shift
    <2> QED
      BY <1>3, <2>1, <2>2
  <1>9. CASE TrailingDecides
    BY <1>3, <1>4, <1>9, MarketAppends DEF TrailingDecides, Trailing
  <1>10. CASE OCOSellDecides
    BY <1>4, <1>10, SameOrders, MarketAppends, OtherRequests DEF OCOSellDecides, OCOSellBuys
  <1>11. CASE OCOSellOffers
    BY <1>4, <1>11, OCOAppends, OtherRequests DEF OCOSellOffers, OCOSell
  <1>12. CASE TrailingSells
    BY <1>4, <1>12, SameOrders, MarketAppends, OtherRequests DEF TrailingSells
  <1> QED
    BY <1>1, <1>2, <1>5, <1>6, <1>7, <1>8, <1>9, <1>10, <1>11, <1>12 DEF BotStep

LEMMA SchedulingUser == ASSUME Scheduling, UserStep PROVE Scheduling'
  <1>1. CASE CommandArrives \/ UserReads \/ StartHandle \/ StopHandle
    BY <1>1, SameOrders DEF CommandArrives, UserReads, StartHandle, StopHandle, exchange,
       strategies
  <1>2. CASE UserOrders
    <2>1. IsSeq(book)
      BY DEF Scheduling
    <2>2. \A outcome \in Wish : \E side : Appends(outcome.book, "user", side)
      BY <2>1, MarketAppends, UnacceptedAppends DEF Wish
    <2> QED
      BY <1>2, <2>2, OtherRequests DEF UserOrders
  <1> QED
    BY <1>1, <1>2 DEF UserStep

LEMMA SchedulingStep == Scheduling /\ [Next]_vars => Scheduling'
  <1> SUFFICES ASSUME Scheduling, [Next]_vars PROVE Scheduling'
    OBVIOUS
  <1>1. CASE UNCHANGED vars \/ (Connect /\ Rest)
    BY <1>1, SameOrders DEF vars, exchange, strategies, Connect, Rest
  <1>2. CASE BotStep \/ UserStep
    BY <1>2, SchedulingBot, SchedulingUser
  <1>3. CASE Poll /\ Rest
    <2>1. DOMAIN answered' = DOMAIN answered /\ UNCHANGED <<book, pending>>
      BY <1>3 DEF Poll, Query, Rest, exchange, strategies
    <2> QED
      BY <2>1 DEF Scheduling
  <1>4. CASE ExchangeStep /\ Rest
    <2>1. UNCHANGED <<answered, pending>>
      BY <1>4 DEF ExchangeStep, PriceMoves, Execute, Cancel, Expire, Rest, strategies
    <2>2. CASE UNCHANGED book
      BY <2>1, <2>2, SameOrders
    <2>3. ASSUME DOMAIN book' = DOMAIN book, IsSeq(book'),
                 \A i \in DOMAIN book : {"by", "side"} \subseteq DOMAIN book'[i]
                                   /\ book'[i].by = book[i].by
          PROVE  Scheduling'
      BY <2>1, <2>3 DEF Scheduling
    <2>4. ASSUME NEW i \in DOMAIN book, NEW quantity, Execute(i, quantity) PROVE Scheduling'
      <3>1. DOMAIN book' = DOMAIN book /\ IsSeq(book')
        BY <2>4 DEF Execute, Scheduling, IsSeq
      <3>2. \A j \in DOMAIN book : {"by", "side"} \subseteq DOMAIN book'[j]
                                  /\ book'[j].by = book[j].by
        BY <2>4 DEF Execute, Scheduling
      <3> QED
        BY ONLY <2>3, <3>1, <3>2
    <2>5. ASSUME NEW i \in DOMAIN book, NEW status, End(i, status) PROVE Scheduling'
      BY <2>3, <2>5 DEF End, Scheduling, IsSeq
    <2> QED
      BY <1>4, <2>2, <2>4, <2>5 DEF ExchangeStep, PriceMoves, Cancel, Expire
  <1> QED
    BY <1>1, <1>2, <1>3, <1>4 DEF Next

(* A condition has one order that the bot was told of, at most: the others *)
(* are those whose answer was lost, whatever else is traded.               *)
THEOREM ConditionsOrderOnce == Spec => []ScheduledOnce
  <1>1. Scheduling => ScheduledOnce
    <2> SUFFICES ASSUME Scheduling, NEW k \in ToSet(Conditions)
                 PROVE  Cardinality(Accepts(k)) <= 1 + Cardinality(Accepts(k) \ DOMAIN answered)
      BY DEF ScheduledOnce
    <2> DEFINE A == Accepts(k)
               D == DOMAIN answered
    <2>1. IsFiniteSet(A)
      <3>1. PICK n \in Nat : DOMAIN book = 1..n
        BY DEF Scheduling, IsSeq
      <3> QED
        BY <3>1, FS_Interval, FS_Subset DEF Accepts
    <2>2. \A i, j \in A \cap D : i = j
      BY DEF Scheduling, Accepts
    <2> HIDE DEF A, D
    <2>3. Cardinality(A \cap D) <= 1
      <3>1. CASE A \cap D = {}
        BY <3>1, FS_EmptySet
      <3>2. CASE A \cap D # {}
        <4>1. PICK i : A \cap D = {i}
          BY <2>2, <3>2
        <4> QED
          BY <4>1, FS_Singleton
      <3> QED
        BY <3>1, <3>2
    <2>4. /\ IsFiniteSet(A \ D) /\ Cardinality(A \ D) = Cardinality(A) - Cardinality(A \cap D)
      BY <2>1, FS_Difference
    <2>5. Cardinality(A) \in Nat /\ Cardinality(A \cap D) \in Nat
      BY <2>1, FS_CardinalityType, FS_Intersection
    <2> QED
      BY <2>3, <2>4, <2>5 DEF A, D
  <1> QED
    BY <1>1, SchedulingInit, SchedulingStep, PTL DEF Spec

-----------------------------------------------------------------------------
(* The trailing stop.                                                      *)

(* The prices, and what the stop computes of them.                         *)
Priced == price \in Int /\ candle.close \in Int /\ candle.low \in Int

Ranged ==
  /\ active \in BOOLEAN /\ current \in Int /\ stop \in Int /\ distance \in Int
  /\ TrailingStop!NeverFurther

(* The stop is active if the last order that the bot knows of is a         *)
(* purchase.                                                               *)
Follows ==
  \/ Known = {} /\ ~active
  \/ \E m \in Known : (\A i \in Known : i <= m) /\ (active <=> book[m].side = "buy")

(* The strategy's orders are made by its own actions.                      *)
Following == strategy = "trailing" => bot \notin {"oco", "update"} /\ Follows

LEMMA FollowingInit == Init => Priced /\ Ranged /\ Following
  <1> SUFFICES ASSUME Init PROVE Priced /\ Ranged /\ Following
    OBVIOUS
  <1>1. /\ answered = <<>> /\ price \in Price /\ candle = NoCandle /\ bot = "idle"
        /\ TrailingStop!Init
    BY DEF Init, StrategiesInit, BinanceInit
  <1>2. DOMAIN answered = {}
    BY <1>1
  <1>3. Known = {}
    BY <1>2 DEF Known
  <1>4. Priced
    BY <1>1, BinanceAssumption DEF NoCandle, Priced
  <1>5. active = FALSE /\ current = 0 /\ stop = 0 /\ distance = 0
    BY <1>1 DEF TrailingStop!Init
  <1>6. TrailingStop!NeverFurther /\ active \in BOOLEAN
    BY <1>5, Zenon DEF TrailingStop!NeverFurther
  <1>7. current \in Int /\ stop \in Int /\ distance \in Int
    BY <1>5
  <1> QED
    BY <1>1, <1>3, <1>4, <1>5, <1>6, <1>7, Zenon DEF Ranged, Following, Follows

LEMMA PricedStep == Priced /\ [Next]_vars => Priced'
  <1> SUFFICES ASSUME Priced, [Next]_vars PROVE Priced'
    OBVIOUS
  <1>1. UNCHANGED price \/ price' \in Price
    <2>1. ASSUME BotStep PROVE UNCHANGED price
      BY <2>1 DEF BotStep, OnCandle, OnPartialCandle, ReadPosition, CrossEMADecides,
         TurtleDecides, OwnDecides, RLDecides, OCOSellDecides, OCOSellOffers, TrailingDecides,
         TrailingSells, ScheduleSkips, ScheduleOrders, ScheduleEnds, Decide, Nothing, Take,
         exchange
    <2>2. ASSUME UserStep PROVE UNCHANGED price
      BY <2>2 DEF UserStep, CommandArrives, UserReads, UserOrders, StartHandle, StopHandle,
         Take, exchange
    <2>3. ASSUME ExchangeStep PROVE UNCHANGED price \/ price' \in Price
      BY <2>3 DEF ExchangeStep, PriceMoves, Execute, Cancel, Expire
    <2> QED
      BY <2>1, <2>2, <2>3 DEF Next, vars, Connect, Poll, Query, exchange
  <1>2. \/ UNCHANGED candle \/ candle' = NoCandle
        \/ \E low \in Lows, signals \in Signals :
             candle' = [close |-> price, low |-> low, signals |-> signals]
    <2>1. ASSUME BotStep
          PROVE  \/ UNCHANGED candle \/ candle' = NoCandle
                 \/ \E low \in Lows, signals \in Signals :
                      candle' = [close |-> price, low |-> low, signals |-> signals]
      BY <2>1 DEF BotStep, OnCandle, OnPartialCandle, ReadPosition, CrossEMADecides,
         TurtleDecides, OwnDecides, RLDecides, OCOSellDecides, OCOSellOffers, TrailingDecides,
         TrailingSells, ScheduleSkips, ScheduleOrders, ScheduleEnds, Decide, Returns, progress
    <2>2. ASSUME UserStep PROVE UNCHANGED candle
      BY <2>2 DEF UserStep, CommandArrives, UserReads, UserOrders, StartHandle, StopHandle,
         strategies, progress
    <2> QED
      BY <2>1, <2>2 DEF Next, vars, Rest, strategies, progress
  <1>3. Lows \subseteq Int
    <2>1. price \div 2 \in Int
      BY DEF Priced
    <2> QED
      BY <2>1 DEF Lows, Priced
  <1> QED
    <2>1. price' \in Int
      <3>1. Price \subseteq Int
        BY BinanceAssumption
      <3> QED
        BY <1>1, <3>1 DEF Priced
    <2>2. candle'.close \in Int /\ candle'.low \in Int
      <3>1. CASE UNCHANGED candle \/ candle' = NoCandle
        BY <3>1 DEF Priced, NoCandle
      <3>2. ASSUME NEW low \in Lows, NEW signals,
                   candle' = [close |-> price, low |-> low, signals |-> signals]
            PROVE  candle'.close \in Int /\ candle'.low \in Int
        BY <1>3, <3>2 DEF Priced
      <3> QED
        BY <1>2, <3>1, <3>2
    <2> QED
      BY <2>1, <2>2 DEF Priced

(* What the steps do with the stop.                                        *)
LEMMA StopSteps ==
  [Next]_vars => \/ UNCHANGED trailing \/ TrailingStop!Start(candle.close, candle.low)
                 \/ TrailingStop!Update(price) \/ TrailingStop!Stop
  <1>1. ASSUME BotStep
        PROVE  \/ UNCHANGED trailing \/ TrailingStop!Start(candle.close, candle.low)
               \/ TrailingStop!Update(price) \/ TrailingStop!Stop
    BY <1>1 DEF BotStep, OnCandle, OnPartialCandle, ReadPosition, CrossEMADecides,
       TurtleDecides, OwnDecides, RLDecides, OCOSellDecides, OCOSellOffers, TrailingDecides,
       TrailingSells, ScheduleSkips, ScheduleOrders, ScheduleEnds
  <1>2. ASSUME UserStep PROVE UNCHANGED trailing
    BY <1>2 DEF UserStep, CommandArrives, UserReads, UserOrders, StartHandle, StopHandle,
       strategies
  <1> QED
    BY <1>1, <1>2 DEF Next, vars, Rest, strategies

LEMMA RangedStep == Priced /\ Ranged /\ [Next]_vars => Ranged'
  <1> SUFFICES ASSUME Priced, Ranged, [Next]_vars PROVE Ranged'
    OBVIOUS
  <1> USE DEF Ranged, TrailingStop!NeverFurther
  <1>1. CASE UNCHANGED trailing
    BY <1>1 DEF trailing
  <1>2. CASE TrailingStop!Start(candle.close, candle.low)
    BY <1>2 DEF Priced, TrailingStop!Start
  <1>3. CASE TrailingStop!Update(price)
    BY <1>3 DEF Priced, TrailingStop!Update, TrailingStop!RaisedStop
  <1>4. CASE TrailingStop!Stop
    BY <1>4 DEF TrailingStop!Stop
  <1> QED
    BY <1>1, <1>2, <1>3, <1>4, StopSteps

(* Orders by others than the strategy change nothing it knows of.          *)
LEMMA SameKnown ==
  ASSUME Scheduling, NEW by, NEW side, NEW outcome, Appends(outcome.book, by, side),
         Take(outcome), by # "bot" \/ outcome.answer # "ok"
  PROVE  Known' = Known /\ \A i \in Known : book'[i].side = book[i].side
  <1>1. /\ DOMAIN book \subseteq DOMAIN book'
        /\ \A i \in DOMAIN book : book'[i] = book[i]
        /\ \A i \in DOMAIN book' \ DOMAIN book : book'[i].by = by /\ book'[i].side = side
        /\ DOMAIN answered' = IF outcome.answer = "ok"
             THEN DOMAIN answered \cup (DOMAIN book' \ DOMAIN book) ELSE DOMAIN answered
    BY Taken
  <1>3. DOMAIN answered \subseteq DOMAIN book
    BY DEF Scheduling
  <1>2. Known' = {i \in DOMAIN answered' : book'[i].by = "bot"}
    BY DEF Known
  <1> QED
    BY <1>1, <1>2, <1>3 DEF Known

(* An answered order of its own becomes the last that it knows of.         *)
LEMMA OneMoreKnown ==
  ASSUME Scheduling, NEW side, NEW outcome, Appends(outcome.book, "bot", side),
         AppendsOne(outcome), Take(outcome), outcome.answer = "ok"
  PROVE  /\ answered' # answered
         /\ \E m \in Known' : (\A i \in Known' : i <= m) /\ book'[m].side = side
  <1> DEFINE m == Len(book) + 1
  <1>1. /\ book' = outcome.book /\ DOMAIN book \subseteq DOMAIN book'
        /\ \A i \in DOMAIN book' \ DOMAIN book : book'[i].by = "bot" /\ book'[i].side = side
        /\ DOMAIN answered' = DOMAIN answered \cup (DOMAIN book' \ DOMAIN book)
    BY DEF Take, Appends
  <1>2. DOMAIN book = 1..Len(book) /\ Len(book) \in Nat /\ DOMAIN answered \subseteq DOMAIN book
    BY DEF Scheduling, IsSeq
  <1>3. DOMAIN book' \ DOMAIN book = {m}
    BY <1>1 DEF AppendsOne
  <1>4. Known' = {i \in DOMAIN answered' : book'[i].by = "bot"}
    BY DEF Known
  <1>5. m \in Known' /\ \A i \in Known' : i \in 1..m
    BY <1>1, <1>2, <1>3, <1>4
  <1>6. m \in DOMAIN answered' /\ m \notin DOMAIN answered
    BY <1>1, <1>2, <1>3
  <1> QED
    BY <1>1, <1>2, <1>3, <1>5, <1>6

LEMMA SameFollowing ==
  ASSUME Following, UNCHANGED <<strategy, active>>, bot' = bot \/ bot' \notin {"oco", "update"},
         Known' = Known, \A i \in Known : book'[i].side = book[i].side
  PROVE  Following'
  BY DEF Following, Follows

LEMMA SameOrdersFollowing ==
  ASSUME Following, UNCHANGED <<strategy, active, book, answered>>,
         bot' = bot \/ bot' \notin {"oco", "update"}
  PROVE  Following'
  <1>1. Known' = Known
    BY DEF Known
  <1> QED
    BY <1>1, SameFollowing

(* A request of the strategy itself, with which it sets the stop or gives  *)
(* it up.                                                                  *)
LEMMA OwnRequest ==
  ASSUME Scheduling, Following, NEW side, NEW outcome, Appends(outcome.book, "bot", side),
         AppendsOne(outcome), Take(outcome), UNCHANGED strategy, Then(outcome, "idle"),
         IF outcome.answer = "ok" THEN active' \in BOOLEAN /\ (active' <=> side = "buy")
                                  ELSE UNCHANGED active
  PROVE  Following'
  <1>1. bot' \notin {"oco", "update"}
    BY DEF Then
  <1>2. CASE outcome.answer # "ok"
    BY <1>1, <1>2, SameKnown, SameFollowing
  <1>3. CASE outcome.answer = "ok"
    <2>1. \E m \in Known' : (\A i \in Known' : i <= m) /\ book'[m].side = side
      BY <1>3, OneMoreKnown
    <2> QED
      BY <1>1, <1>3, <2>1 DEF Following, Follows
  <1> QED
    BY <1>2, <1>3

LEMMA FollowingTrailing ==
  ASSUME Scheduling, Following, strategy = "trailing", TrailingDecides \/ TrailingSells
  PROVE  Following'
  <1> USE DEF outer, trailing, exchange
  <1>1. IsSeq(book)
    BY DEF Scheduling
  <1>2. CASE TrailingDecides
    <2>1. CASE Trailing = {} /\ Nothing /\ bot' = "idle"
      BY <1>2, <2>1, SameOrdersFollowing DEF TrailingDecides, Decide, Nothing
    <2>2. ASSUME NEW outcome \in Trailing, Take(outcome), Then(outcome, "idle")
          PROVE  Following'
      <3>1. Appends(outcome.book, "bot", "buy") /\ AppendsOne(outcome)
        BY <1>1, MarketAppends DEF Trailing
      <3>2. CASE outcome.answer # "ok"
        <4>1. answered' = answered
          BY <2>2, <3>2 DEF Take
        <4> QED
          BY <1>2, <2>2, <3>1, <3>2, <4>1, OwnRequest DEF TrailingDecides, Decide
      <3>3. CASE outcome.answer = "ok"
        <4>1. answered' # answered
          BY <2>2, <3>1, <3>3, OneMoreKnown
        <4>2. active' = TRUE
          BY <1>2, <4>1 DEF TrailingDecides, TrailingStop!Start
        <4> QED
          BY <1>2, <2>2, <3>1, <3>3, <4>2, OwnRequest DEF TrailingDecides, Decide
      <3> QED
        BY <3>2, <3>3
    <2> QED
      BY <1>2, <2>1, <2>2 DEF TrailingDecides, Decide
  <1>3. CASE TrailingSells
    <2>1. CASE Nothing /\ bot' = "idle" /\ UNCHANGED trailing
      BY <1>3, <2>1, SameOrdersFollowing DEF TrailingSells, Nothing
    <2>2. ASSUME NEW outcome \in CreateOrderMarket("bot", "sell", read.asset),
                 Take(outcome), Then(outcome, "idle"),
                 IF Stops(outcome.answer) THEN TrailingStop!Stop ELSE UNCHANGED trailing
          PROVE  Following'
      <3>1. Appends(outcome.book, "bot", "sell") /\ AppendsOne(outcome)
        BY <1>1, MarketAppends
      <3>2. outcome.answer = "ok" => active' = FALSE
        BY <2>2 DEF Stops, TrailingStop!Stop
      <3>3. outcome.answer # "ok" => UNCHANGED active
        BY <2>2 DEF Stops
      <3>4. UNCHANGED strategy
        BY <1>3 DEF TrailingSells
      <3> QED
        BY <2>2, <3>1, <3>2, <3>3, <3>4, OwnRequest
    <2> QED
      BY <1>3, <2>1, <2>2 DEF TrailingSells
  <1> QED
    BY <1>2, <1>3

LEMMA FollowingStep == Scheduling /\ Following /\ [Next]_vars => Following'
  <1> SUFFICES ASSUME Scheduling, Following, [Next]_vars, strategy' = "trailing" PROVE Following'
    BY DEF Following
  <1> USE DEF outer, trailing, exchange, strategies
  <1>1. strategy = "trailing" /\ UNCHANGED strategy
    <2>1. ASSUME BotStep PROVE UNCHANGED strategy
      BY <2>1 DEF BotStep, OnCandle, OnPartialCandle, ReadPosition, CrossEMADecides,
         TurtleDecides, OwnDecides, RLDecides, OCOSellDecides, OCOSellOffers, TrailingDecides,
         TrailingSells, ScheduleSkips, ScheduleOrders, ScheduleEnds, Decide
    <2>2. ASSUME UserStep PROVE UNCHANGED strategy
      BY <2>2 DEF UserStep, CommandArrives, UserReads, UserOrders, StartHandle, StopHandle
    <2> QED
      BY <2>1, <2>2 DEF Next, vars, Rest
  <1>2. bot \notin {"oco", "update"}
    BY <1>1 DEF Following
  <1>3. CASE UNCHANGED vars \/ (Connect /\ Rest)
    BY <1>3, SameOrdersFollowing DEF vars, Connect, Rest
  <1>4. CASE BotStep
    <2>1. CASE OnCandle \/ OnPartialCandle \/ ReadPosition
      <3>1. UNCHANGED <<strategy, active, book, answered>> /\ bot' \notin {"oco", "update"}
        BY <1>1, <2>1 DEF OnCandle, OnPartialCandle, ReadPosition, TrailingStop!Update
      <3> QED
        BY <3>1, SameOrdersFollowing
    <2>2. CASE TrailingDecides \/ TrailingSells
      BY <1>1, <2>2, FollowingTrailing
    <2> QED
      BY <1>1, <1>2, <1>4, <2>1, <2>2 DEF BotStep, CrossEMADecides, TurtleDecides, OwnDecides,
         RLDecides, OCOSellDecides, OCOSellOffers, ScheduleSkips, ScheduleOrders, ScheduleEnds,
         Decide
  <1>5. CASE UserStep
    <2>1. CASE CommandArrives \/ UserReads \/ StartHandle \/ StopHandle
      BY <2>1, SameOrdersFollowing DEF CommandArrives, UserReads, StartHandle, StopHandle
    <2>2. CASE UserOrders
      <3>1. PICK outcome \in Wish : Take(outcome)
        BY <2>2 DEF UserOrders
      <3>2. PICK side : Appends(outcome.book, "user", side)
        <4>1. IsSeq(book)
          BY DEF Scheduling
        <4> QED
          BY <4>1, MarketAppends, UnacceptedAppends DEF Wish
      <3>3. Known' = Known /\ \A i \in Known : book'[i].side = book[i].side
        BY <3>1, <3>2, SameKnown
      <3> QED
        BY <2>2, <3>3, SameFollowing DEF UserOrders
    <2> QED
      BY <1>5, <2>1, <2>2 DEF UserStep
  <1>6. CASE Poll /\ Rest
    <2>1. DOMAIN answered' = DOMAIN answered /\ UNCHANGED <<book, strategy, active, bot>>
      BY <1>6 DEF Poll, Query, Rest
    <2>2. Known' = Known
      BY <2>1 DEF Known
    <2> QED
      BY <2>1, <2>2, SameFollowing
  <1>7. CASE ExchangeStep /\ Rest
    <2>1. UNCHANGED <<answered, strategy, active, bot>>
      BY <1>7 DEF ExchangeStep, PriceMoves, Execute, Cancel, Expire, Rest
    <2>2. ASSUME DOMAIN book' = DOMAIN book,
                 \A i \in DOMAIN book : book'[i].by = book[i].by /\ book'[i].side = book[i].side
          PROVE  Following'
      <3>1. Known' = Known /\ Known \subseteq DOMAIN book
        BY <2>1, <2>2 DEF Known, Scheduling
      <3> QED
        BY <2>1, <2>2, <3>1, SameFollowing
    <2>3. CASE UNCHANGED book
      BY <2>2, <2>3
    <2>4. ASSUME NEW i \in DOMAIN book, NEW quantity, Execute(i, quantity) PROVE Following'
      BY <2>2, <2>4 DEF Execute, Scheduling
    <2>5. ASSUME NEW i \in DOMAIN book, NEW status, End(i, status) PROVE Following'
      BY <2>2, <2>5 DEF End, Scheduling
    <2> QED
      BY <1>7, <2>3, <2>4, <2>5 DEF ExchangeStep, PriceMoves, Cancel, Expire
  <1> QED
    BY <1>3, <1>4, <1>5, <1>6, <1>7 DEF Next

(* The trailing stop is active exactly when the strategy's last order that *)
(* it knows of is a purchase, and never further below the price than it    *)
(* was set, whatever fails and whatever the price does.                    *)
THEOREM StopFollowsOrders == Spec => []StopFollows
  <1>1. Scheduling /\ Ranged /\ Following => StopFollows
    <2> SUFFICES ASSUME Scheduling, Ranged, Following PROVE StopFollows
      OBVIOUS
    <2>1. TrailingStop!NeverFurther
      BY DEF Ranged
    <2>2. ASSUME strategy = "trailing"
          PROVE  active <=> Known # {} /\ book[Max(Known)].side = "buy"
      <3>1. CASE Known = {} /\ ~active
        BY <3>1
      <3>2. ASSUME NEW m \in Known, \A i \in Known : i <= m, active <=> book[m].side = "buy"
            PROVE  active <=> Known # {} /\ book[Max(Known)].side = "buy"
        <4>1. Known \subseteq Nat
          BY DEF Known, Scheduling, IsSeq
        <4>2. m \in Known /\ \A i \in Known : m >= i
          BY <3>2, <4>1
        <4>3. \A x \in Known : (\A i \in Known : x >= i) => x = m
          BY <4>1, <4>2
        <4>4. Max(Known) = m
          BY <4>2, <4>3 DEF Max
        <4> QED
          BY <3>2, <4>4
      <3> QED
        BY <2>2, <3>1, <3>2 DEF Following, Follows
    <2> QED
      BY <2>1, <2>2 DEF StopFollows, StopMatchesOrders
  <1> QED
    BY <1>1, SchedulingInit, SchedulingStep, FollowingInit, PricedStep, RangedStep, FollowingStep,
       PTL DEF Spec

-----------------------------------------------------------------------------
(* What the bot is told of its orders.                                     *)

Balances == [Coin -> [free : Int, lock : Int]]
Holdings == [asset : Int, quote : Int]

Typed ==
  /\ account \in Balances /\ fee \in {0, 1} /\ price \in Price
  /\ read \in Holdings /\ holds \in Holdings /\ learner \in -4..4
  /\ candle.close \in Nat \ {0} /\ command.amount \in Nat
  /\ bot \in {"position", "decide", "oco"} => candle.close \in Price
  /\ bot = "stopped" => strategy = "trailing"

Fields == {"by", "side", "type", "status", "quantity", "executed", "cost", "limit", "group"}

(* An order's cost is its executed quantity at one price, that of its      *)
(* limit while it is open.                                                 *)
Sound(o) ==
  /\ Fields \subseteq DOMAIN o
  /\ o.status \in Status
  /\ o.quantity \in Nat /\ o.executed \in 0..o.quantity /\ o.limit \in Nat
  /\ \E v \in Nat \ {0} : o.cost = o.executed * v
  /\ o.status \notin Done => o.limit > 0 /\ o.cost = o.executed * o.limit

(* What was last told of an order that was over then is what it remains.   *)
Reported ==
  /\ \A i \in DOMAIN book : Sound(book[i])
  /\ \A i \in DOMAIN answered : answered[i].status \in Done =>
       /\ book[i].status \in Done
       /\ book[i].executed > 0 =>
            /\ answered[i].quantity = book[i].executed
            /\ answered[i].price * answered[i].quantity = book[i].cost

LEMMA MeanPrice ==
  ASSUME NEW n \in Nat, n > 0, NEW v \in Nat
  PROVE  (n * v) \div n = v /\ n * v \in Nat /\ v * n = n * v /\ (v > 0 => n * v > 0)
  OBVIOUS

(* The account after a trade and a reservation.                            *)
LEMMA SettledType ==
  ASSUME account \in Balances, fee \in {0, 1}, NEW side, NEW quantity \in Int, NEW cost \in Int,
         NEW from \in {"free", "lock"}
  PROVE  Settled(side, quantity, cost, from) \in Balances
  <1>1. \A coin \in {"asset", "quote"} : account[coin] \in [free : Int, lock : Int]
    BY DEF Balances, Coin
  <1>2. CASE from = "free"
    BY <1>1, <1>2 DEF Settled, Balances, Coin
  <1>3. CASE from = "lock"
    BY <1>1, <1>3 DEF Settled, Balances, Coin
  <1>. QED
    BY <1>2, <1>3

LEMMA ReservedType ==
  ASSUME account \in Balances, NEW side, NEW quantity \in Int, NEW limit \in Int
  PROVE  Reserved(side, quantity, limit) \in Balances
  <1>1. \A coin \in {"asset", "quote"} : account[coin] \in [free : Int, lock : Int]
    BY DEF Balances, Coin
  <1>2. quantity * limit \in Int
    OBVIOUS
  <1>. QED
    BY <1>1, <1>2 DEF Reserved, Balances, Coin

(* The orders that a request adds: all but market orders are open.         *)
SoundFirst(o) == Sound(o) /\ (o.type # "market" => o.status \notin Done)

SoundNew(outcome) ==
  /\ outcome.account \in Balances
  /\ \A i \in DOMAIN outcome.book \ DOMAIN book : SoundFirst(outcome.book[i])

LEMMA AcceptedSound ==
  ASSUME IsSeq(book), NEW coins \in Balances, NEW orders, IsSeq(orders),
         \A i \in DOMAIN orders : SoundFirst(orders[i]),
         NEW outcome \in Accepted(coins, orders)
  PROVE  SoundNew(outcome)
  <1>1. outcome.book = book \o orders /\ outcome.account = coins
    BY DEF Accepted, Outcome
  <1>2. \A i \in DOMAIN (book \o orders) \ DOMAIN book :
          i - Len(book) \in DOMAIN orders /\ (book \o orders)[i] = orders[i - Len(book)]
    BY Concatenation
  <1>. QED
    BY <1>1, <1>2 DEF SoundNew

LEMMA UnacceptedSound ==
  ASSUME account \in Balances, NEW answer, NEW outcome \in Unaccepted(answer)
  PROVE  SoundNew(outcome)
  BY DEF Unaccepted, Outcome, SoundNew

LEMMA OneIsSeq == ASSUME NEW o PROVE IsSeq(<<o>>) /\ \A i \in DOMAIN <<o>> : <<o>>[i] = o
  <1>1. <<o>> = [i \in 1..1 |-> <<o>>[i]]
    OBVIOUS
  <1>. QED
    BY <1>1 DEF IsSeq

LEMMA TwoIsSeq ==
  ASSUME NEW o, NEW p
  PROVE  IsSeq(<<o, p>>) /\ \A i \in DOMAIN <<o, p>> : <<o, p>>[i] \in {o, p}
  <1>1. <<o, p>> = [i \in 1..2 |-> <<o, p>>[i]]
    OBVIOUS
  <1>. QED
    BY <1>1 DEF IsSeq

LEMMA RestingOrder ==
  ASSUME NEW by, NEW side, NEW type, NEW quantity \in Nat, NEW limit \in Nat \ {0}, NEW group
  PROVE  SoundFirst(Order(by, side, type, "new", quantity, 0, 0, limit, group))
  <1>1. 0 = 0 * limit /\ 0 = 0 * 1 /\ "new" \in Status /\ 1 \in Nat \ {0}
    BY DEF Status
  <1>. QED
    BY <1>1 DEF SoundFirst, Sound, Order, Fields, Done

LEMMA MarketOrder ==
  ASSUME NEW by, NEW side, NEW quantity \in Nat, NEW value \in Nat \ {0}
  PROVE  /\ SoundFirst(Order(by, side, "market", "filled", quantity, quantity,
                             quantity * value, 0, 0))
         /\ SoundFirst(Order(by, side, "market", "expired", quantity, 0, 0, 0, 0))
  <1>1. 0 = 0 * 1 /\ {"filled", "expired"} \subseteq Status \cap Done /\ 1 \in Nat \ {0}
    BY DEF Status, Done
  <1>. QED
    BY <1>1 DEF SoundFirst, Sound, Order, Fields

(* Rounding and what the exchange lets through.                            *)
LEMMA RoundedType ==
  ASSUME NEW quantity \in Int
  PROVE  /\ formatQuantity(quantity) \in Int
         /\ ~Filtered(formatQuantity(quantity)) => formatQuantity(quantity) \in Nat
  <1>1. quantity \div StepSize \in Int /\ StepSize \in Int /\ MinQuantity \in Nat
    BY BinanceAssumption
  <1>2. PICK q \in Int : q = formatQuantity(quantity)
    BY <1>1 DEF formatQuantity
  <1>. QED
    BY <1>1, <1>2 DEF Filtered, validate

LEMMA TradedSound ==
  ASSUME IsSeq(book), account \in Balances, fee \in {0, 1}, price \in Nat \ {0},
         NEW by, NEW side, NEW q \in Nat, NEW outcome \in Market(by, side, q)
  PROVE  SoundNew(outcome)
  <1>1. q * price \in Int
    OBVIOUS
  <1>2. Settled(side, q, q * price, "free") \in Balances
    BY <1>1, SettledType
  <1> DEFINE o == Order(by, side, "market", "filled", q, q, q * price, 0, 0)
             n == Order(by, side, "market", "expired", q, 0, 0, 0, 0)
  <1>3. SoundFirst(o) /\ SoundFirst(n)
    BY MarketOrder
  <1>4. \/ outcome \in Accepted(Settled(side, q, q * price, "free"), <<o>>)
        \/ outcome \in Accepted(account, <<n>>)
    BY DEF Market
  <1> HIDE DEF o, n
  <1>. QED
    BY <1>2, <1>3, <1>4, OneIsSeq, AcceptedSound

LEMMA MarketSound ==
  ASSUME IsSeq(book), account \in Balances, fee \in {0, 1}, price \in Nat \ {0},
         NEW by, NEW side, NEW quantity \in Int,
         NEW outcome \in CreateOrderMarket(by, side, quantity)
  PROVE  SoundNew(outcome)
  <1> DEFINE q == formatQuantity(quantity)
  <1>1. CASE \E answer : outcome \in Unaccepted(answer)
    BY <1>1, UnacceptedSound
  <1>2. CASE ~Filtered(q) /\ outcome \in Market(by, side, q)
    BY <1>2, RoundedType, TradedSound
  <1>. QED
    BY <1>1, <1>2 DEF CreateOrderMarket, Sent

LEMMA QuoteSound ==
  ASSUME IsSeq(book), account \in Balances, fee \in {0, 1}, price \in Nat \ {0},
         NEW by, NEW side, NEW amount \in Int,
         NEW outcome \in CreateOrderMarketQuote(by, side, amount)
  PROVE  SoundNew(outcome)
  <1> DEFINE m == formatQuantity(amount) \div price
             q == StepSize * (m \div StepSize)
  <1>1. m \in Int
    BY RoundedType
  <1>2. q = formatQuantity(m)
    BY DEF formatQuantity
  <1> HIDE DEF m
  <1>3. ~Filtered(q) => q \in Nat
    BY <1>1, <1>2, RoundedType
  <1>4. CASE \E answer : outcome \in Unaccepted(answer)
    BY <1>4, UnacceptedSound
  <1>5. CASE ~Filtered(q) /\ outcome \in Market(by, side, q)
    BY <1>3, <1>5, TradedSound
  <1>. QED
    BY <1>4, <1>5 DEF CreateOrderMarketQuote, Sent, m

LEMMA RestingSound ==
  ASSUME IsSeq(book), account \in Balances, NEW by, NEW side, NEW type, NEW q \in Nat,
         NEW limit \in Nat \ {0}, NEW outcome \in Resting(by, side, type, q, limit)
  PROVE  SoundNew(outcome)
  <1> DEFINE o == Order(by, side, type, "new", q, 0, 0, limit, 0)
  <1>1. SoundFirst(o) /\ Reserved(side, q, limit) \in Balances
    BY RestingOrder, ReservedType
  <1>2. outcome \in Accepted(Reserved(side, q, limit), <<o>>)
    BY DEF Resting
  <1> HIDE DEF o
  <1>. QED
    BY <1>1, <1>2, OneIsSeq, AcceptedSound

LEMMA LimitSound ==
  ASSUME IsSeq(book), account \in Balances, NEW by, NEW side, NEW quantity \in Int,
         NEW limit \in Nat \ {0}, NEW outcome \in CreateOrderLimit(by, side, quantity, limit)
  PROVE  SoundNew(outcome)
  <1> DEFINE q == formatQuantity(quantity)
  <1>1. CASE \E answer : outcome \in Unaccepted(answer)
    BY <1>1, UnacceptedSound
  <1>2. CASE ~Filtered(q) /\ outcome \in Resting(by, side, "limit", q, limit)
    BY <1>2, RoundedType, RestingSound
  <1>. QED
    BY <1>1, <1>2 DEF CreateOrderLimit, Sent

LEMMA StopSound ==
  ASSUME IsSeq(book), account \in Balances, NEW by, NEW quantity \in Int,
         NEW limit \in Nat \ {0}, NEW outcome \in CreateOrderStop(by, quantity, limit)
  PROVE  SoundNew(outcome)
  <1> DEFINE q == formatQuantity(quantity)
  <1>1. CASE \E answer : outcome \in Unaccepted(answer)
    BY <1>1, UnacceptedSound
  <1>2. CASE ~Filtered(q) /\ outcome \in Resting(by, "sell", "stop", q, limit)
    BY <1>2, RoundedType, RestingSound
  <1>. QED
    BY <1>1, <1>2 DEF CreateOrderStop, Sent

LEMMA OCOSound ==
  ASSUME IsSeq(book), account \in Balances, NEW by, NEW side, NEW quantity \in Int,
         NEW limit \in Nat \ {0}, NEW stopLimit \in Nat \ {0},
         NEW outcome \in CreateOrderOCO(by, side, quantity, limit, stopLimit)
  PROVE  SoundNew(outcome)
  <1> DEFINE q == formatQuantity(quantity)
             o == Order(by, side, "stop", "new", q, 0, 0, stopLimit, Len(book) + 1)
             p == Order(by, side, "limit", "new", q, 0, 0, limit, Len(book) + 1)
  <1>1. CASE \E answer : outcome \in Unaccepted(answer)
    BY <1>1, UnacceptedSound
  <1>2. CASE ~Filtered(q) /\ outcome \in Accepted(Reserved(side, q, limit), <<o, p>>)
    <2>1. q \in Nat
      BY <1>2, RoundedType
    <2> HIDE DEF q
    <2>2. SoundFirst(o) /\ SoundFirst(p) /\ Reserved(side, q, limit) \in Balances
      BY <2>1, RestingOrder, ReservedType
    <2> HIDE DEF o, p
    <2>. QED
      BY <1>2, <2>2, TwoIsSeq, AcceptedSound
  <1>. QED
    BY <1>1, <1>2 DEF CreateOrderOCO, Sent

(* What the bot is told of a request's orders, and what it is told later.  *)
LEMMA Told ==
  ASSUME Scheduling, Reported, NEW by, NEW side, NEW outcome, Appends(outcome.book, by, side),
         SoundNew(outcome), Take(outcome)
  PROVE  Reported' /\ account' \in Balances /\ UNCHANGED <<fee, price>>
  <1>1. /\ book' = outcome.book /\ account' = outcome.account /\ UNCHANGED <<fee, price>>
        /\ DOMAIN book \subseteq DOMAIN book' /\ DOMAIN answered \subseteq DOMAIN book
        /\ \A i \in DOMAIN book : book'[i] = book[i]
    BY DEF Take, Appends, Scheduling
  <1>2. \A i \in DOMAIN book' : Sound(book'[i])
    BY <1>1 DEF SoundNew, SoundFirst, Reported
  <1>3. ASSUME NEW i \in DOMAIN answered', answered'[i].status \in Done
        PROVE  /\ book'[i].status \in Done
               /\ book'[i].executed > 0 =>
                    /\ answered'[i].quantity = book'[i].executed
                    /\ answered'[i].price * answered'[i].quantity = book'[i].cost
    <2>1. CASE i \in DOMAIN book
      <3>1. i \in DOMAIN answered /\ answered'[i] = answered[i]
        BY <1>3, <2>1 DEF Take
      <3>. QED
        BY <1>1, <1>3, <2>1, <3>1 DEF Reported
    <2>2. CASE i \notin DOMAIN book
      <3> DEFINE o == outcome.book[i]
      <3>1. i \in DOMAIN outcome.book \ DOMAIN book /\ answered'[i] = Created(o)
        BY <1>1, <1>3, <2>2 DEF Take
      <3>2. SoundFirst(o) /\ book'[i] = o
        BY <1>1, <3>1 DEF SoundNew
      <3> HIDE DEF o
      <3>3. o.type = "market" /\ o.status \in Done
        BY <1>3, <3>1, <3>2 DEF Created, SoundFirst
      <3>4. PICK v \in Nat \ {0} : o.cost = o.executed * v
        BY <3>2 DEF SoundFirst, Sound
      <3>5. ASSUME o.executed > 0
            PROVE  /\ answered'[i].quantity = o.executed
                   /\ answered'[i].price * answered'[i].quantity = o.cost
        <4>1. o.executed \in Nat /\ o.executed # 0
          BY <3>2, <3>5 DEF SoundFirst, Sound
        <4>2. o.cost \div o.executed = v /\ v * o.executed = o.cost
          BY <3>4, <3>5, <4>1, MeanPrice
        <4>. QED
          BY <3>1, <3>3, <4>1, <4>2 DEF Created
      <3>. QED
        BY <3>2, <3>3, <3>5
    <2>. QED
      BY <2>1, <2>2
  <1>. QED
    BY <1>1, <1>2, <1>3 DEF Reported, SoundNew

LEMMA Queried ==
  ASSUME Scheduling, Reported, NEW i, Query(i)
  PROVE  Reported'
  <1>1. /\ i \in DOMAIN answered /\ i \in DOMAIN book /\ book' = book
        /\ answered' = [answered EXCEPT ![i] = newOrder(book[i])]
    BY DEF Query, Scheduling, exchange
  <1> DEFINE o == book[i]
  <1>2. Sound(o)
    BY <1>1 DEF Reported
  <1>3. newOrder(o).status = o.status
    BY DEF newOrder
  <1>4. ASSUME o.status \in Done, o.executed > 0
        PROVE  /\ newOrder(o).quantity = o.executed
               /\ newOrder(o).price * newOrder(o).quantity = o.cost
    <2>1. PICK v \in Nat \ {0} : o.cost = o.executed * v
      BY <1>2 DEF Sound
    <2>2. o.executed \in Nat
      BY <1>2 DEF Sound
    <2> HIDE DEF o
    <2>3. o.cost \div o.executed = v /\ v * o.executed = o.cost /\ o.cost > 0
      BY <1>4, <2>1, <2>2, MeanPrice
    <2>. QED
      BY <1>4, <2>3 DEF newOrder
  <1>5. \A j \in DOMAIN answered' : j # i => answered'[j] = answered[j]
    BY <1>1
  <1>6. DOMAIN answered' = DOMAIN answered /\ answered'[i] = newOrder(o)
    BY <1>1
  <1> HIDE DEF o
  <1>. QED
    BY <1>1, <1>3, <1>4, <1>5, <1>6 DEF Reported, o

(* The exchange executes what is open, and ends it.                        *)
LEMMA Executed ==
  ASSUME Scheduling, Reported, account \in Balances, fee \in {0, 1},
         NEW i \in DOMAIN book, NEW quantity \in Nat, Execute(i, quantity)
  PROVE  Reported' /\ account' \in Balances
  <1> DEFINE o == book[i]
             done == o.executed + quantity
             filled == IF done = o.quantity THEN "filled" ELSE "partly"
             p == [o EXCEPT !.executed = done, !.cost = @ + quantity * o.limit,
                            !.status = filled]
  <1>1. /\ Sound(o) /\ o.status \notin Done /\ answered' = answered /\ quantity > 0
        /\ DOMAIN answered \subseteq DOMAIN book
    BY DEF Reported, Execute, Open, Done, Scheduling
  <1>2. /\ o.executed \in Nat /\ o.limit \in Nat \ {0} /\ o.cost = o.executed * o.limit
        /\ o.quantity \in Nat /\ Fields \subseteq DOMAIN o /\ done <= o.quantity
    BY <1>1 DEF Sound, Execute
  <1>3. account' \in Balances
    <2>1. quantity * o.limit \in Int
      BY <1>2
    <2>2. account' = Settled(o.side, quantity, quantity * o.limit, "lock")
      BY DEF Execute
    <2> HIDE DEF o
    <2>. QED
      BY <2>1, <2>2, SettledType
  <1>4. p.executed = done /\ p.cost = o.cost + quantity * o.limit /\ p.status = filled
        /\ p.quantity = o.quantity /\ p.limit = o.limit /\ DOMAIN p = DOMAIN o
    BY <1>2 DEF Fields
  <1>5. /\ DOMAIN book' = DOMAIN book /\ book'[i] = p
        /\ \A j \in DOMAIN book : j # i =>
             book'[j] = book[j] \/ book'[j] = [book[j] EXCEPT !.status = "expired"]
    BY DEF Execute
  <1> HIDE DEF p, o
  <1>6. Sound(p)
    <2>1. PICK v \in Nat \ {0} : v = o.limit
      BY <1>2
    <2>2. PICK m \in Nat : m = o.executed
      BY <1>2
    <2>3. m * v + quantity * v = (m + quantity) * v
      OBVIOUS
    <2>4. p.cost = done * v /\ done \in 0..o.quantity /\ p.limit = v /\ v > 0
      BY <1>2, <1>4, <2>1, <2>2, <2>3
    <2>5. filled \in Status
      BY DEF Status
    <2>. QED
      BY <1>2, <1>4, <2>4, <2>5 DEF Sound
  <1>7. ASSUME NEW j \in DOMAIN book, j # i
        PROVE  /\ Sound(book'[j]) /\ (book[j].status \in Done => book'[j].status \in Done)
               /\ book'[j].executed = book[j].executed /\ book'[j].cost = book[j].cost
    <2>1. Sound(book[j])
      BY DEF Reported
    <2>2. CASE book'[j] = book[j]
      BY <2>1, <2>2
    <2>3. CASE book'[j] = [book[j] EXCEPT !.status = "expired"]
      BY <2>1, <2>3 DEF Sound, Fields, Status, Done
    <2>. QED
      BY <1>5, <1>7, <2>2, <2>3
  <1>8. \A j \in DOMAIN answered : answered[j].status \in Done => j # i
    BY <1>1 DEF Reported, o
  <1>. QED
    BY <1>1, <1>3, <1>5, <1>6, <1>7, <1>8 DEF Reported

LEMMA Ended ==
  ASSUME Scheduling, Reported, account \in Balances, UNCHANGED answered,
         NEW i \in DOMAIN book, NEW status \in Done \cap Status, End(i, status)
  PROVE  Reported' /\ account' \in Balances
  <1>1. DOMAIN answered \subseteq DOMAIN book
    BY DEF Scheduling
  <1>2. account' \in Balances
    <2> DEFINE o == book[i]
               coin == IF o.side = "buy" THEN "quote" ELSE "asset"
               unit == IF o.side = "buy" THEN o.limit ELSE 1
               rest == (o.quantity - o.executed) * unit
               back == IF market = "futures" THEN 0 ELSE rest
    <2>1. o.quantity - o.executed \in Int /\ unit \in Int
      BY DEF Reported, Sound
    <2>2. rest \in Int
      BY <2>1
    <2>3. account' = [account EXCEPT ![coin] = [free |-> @.free + back, lock |-> @.lock - back]]
      BY DEF End
    <2>4. coin \in Coin /\ back \in Int
      BY <2>2 DEF Coin
    <2> HIDE DEF coin, back
    <2>. QED
      BY <2>3, <2>4 DEF Balances
  <1>3. /\ DOMAIN book' = DOMAIN book
        /\ \A j \in DOMAIN book :
             book'[j] = book[j] \/ book'[j] = [book[j] EXCEPT !.status = status]
    BY DEF End
  <1>4. ASSUME NEW j \in DOMAIN book
        PROVE  /\ Sound(book'[j]) /\ (book[j].status \in Done => book'[j].status \in Done)
               /\ book'[j].executed = book[j].executed /\ book'[j].cost = book[j].cost
    <2>1. Sound(book[j])
      BY DEF Reported
    <2>2. CASE book'[j] = book[j]
      BY <2>1, <2>2
    <2>3. CASE book'[j] = [book[j] EXCEPT !.status = status]
      BY <2>1, <2>3 DEF Sound, Fields
    <2>. QED
      BY <1>3, <2>2, <2>3
  <1>. QED
    BY <1>1, <1>2, <1>3, <1>4 DEF Reported

LEMMA ExchangeReports ==
  ASSUME Scheduling, Reported, Typed, ExchangeStep
  PROVE  Reported' /\ account' \in Balances /\ price' \in Price /\ UNCHANGED fee
  <1>1. account \in Balances /\ fee \in {0, 1} /\ price \in Price
    BY DEF Typed
  <1>2. CASE PriceMoves
    BY <1>1, <1>2 DEF PriceMoves, Reported
  <1>3. ASSUME NEW i \in DOMAIN book, Execute(i, StepSize) \/ Execute(i, book[i].quantity)
        PROVE  Reported' /\ account' \in Balances /\ price' \in Price /\ UNCHANGED fee
    <2>1. UNCHANGED <<fee, price>>
      BY <1>3 DEF Execute
    <2>2. StepSize \in Nat /\ book[i].quantity \in Nat
      BY BinanceAssumption DEF Reported, Sound
    <2>. QED
      BY <1>1, <1>3, <2>1, <2>2, Executed
  <1>4. ASSUME NEW i \in DOMAIN book, Cancel(i) \/ Expire(i)
        PROVE  Reported' /\ account' \in Balances /\ price' \in Price /\ UNCHANGED fee
    <2>1. UNCHANGED <<fee, price, answered>>
      BY <1>4 DEF Cancel, Expire
    <2>2. PICK status \in {"canceled", "expired"} : End(i, status)
      BY <1>4 DEF Cancel, Expire
    <2>3. status \in Done \cap Status
      BY DEF Done, Status
    <2>. QED
      BY <1>1, <2>1, <2>2, <2>3, Ended
  <1>. QED
    BY <1>2, <1>3, <1>4 DEF ExchangeStep

(* What a strategy asks for is sound, and so is what a user asks for.      *)
LEMMA TypedFacts ==
  ASSUME Typed
  PROVE  /\ account \in Balances /\ fee \in {0, 1} /\ price \in Nat \ {0}
         /\ read.asset \in Int /\ read.quote \in Int /\ holds.asset \in Int /\ holds.quote \in Int
         /\ candle.close \in Nat \ {0}
         /\ Weighted \in Int /\ OCOSize \in Int /\ ScheduledSize \in Int
  <1>1. /\ account \in Balances /\ fee \in {0, 1} /\ price \in Nat \ {0}
        /\ read.asset \in Int /\ read.quote \in Int /\ holds.asset \in Int /\ holds.quote \in Int
        /\ candle.close \in Nat \ {0}
    BY BinanceAssumption DEF Typed, Holdings
  <1>2. 3 * read.quote \in Int /\ 10 * candle.close \in Nat \ {0}
    BY <1>1
  <1>3. Weighted \in Int
    BY <1>2 DEF Weighted
  <1>4. OCOSize \in Int /\ ScheduledSize \in Int
    BY <1>1, StrategyAssumption DEF OCOSize
  <1>. QED
    BY <1>1, <1>3, <1>4

LEMMA ShiftAmount ==
  ASSUME Typed, NEW target \in Target, NEW outcome \in Shift(target)
  PROVE  \E side \in Side, quantity \in Int : outcome \in CreateOrderMarket("bot", side, quantity)
  <1> DEFINE equity == read.asset * candle.close + read.quote
             by == target - learner
             amount == (Max({by, -by}) * equity) \div (4 * candle.close)
  <1>1. by \in Int
    BY StrategyAssumption DEF Typed
  <1>2. equity \in Int
    <2>1. read.asset * candle.close \in Int
      BY TypedFacts
    <2>. QED
      BY <2>1, TypedFacts
  <1>3. Max({by, -by}) \in Int
    <2> HIDE DEF by
    <2>1. \E x \in {by, -by} : \A y \in {by, -by} : x >= y
      BY <1>1
    <2>. QED
      BY <1>1, <2>1 DEF Max
  <1>4. amount \in Int
    <2>1. PICK m \in Int : m = Max({by, -by})
      BY <1>3
    <2> HIDE DEF equity
    <2>2. m * equity \in Int /\ 4 * candle.close \in Nat \ {0}
      BY <1>2, TypedFacts
    <2>. QED
      BY <2>1, <2>2
  <1>5. \E side \in {"buy", "sell"} : outcome \in CreateOrderMarket("bot", side, amount)
    BY DEF Shift
  <1> HIDE DEF amount
  <1>. QED
    BY <1>4, <1>5 DEF Side

LEMMA ShiftSound ==
  ASSUME IsSeq(book), Typed, NEW target \in Target, NEW outcome \in Shift(target)
  PROVE  SoundNew(outcome)
  BY ShiftAmount, TypedFacts, MarketSound

LEMMA StrategiesSound ==
  ASSUME IsSeq(book), Typed
  PROVE  /\ \A outcome \in CrossEMA \cup Turtle \cup OCOSellBuys \cup Trailing \cup Own :
              SoundNew(outcome)
         /\ bot = "oco" /\ Price \subseteq Nat \ {0, 1} =>
              \A outcome \in OCOSell : SoundNew(outcome)
  <1>1. ASSUME NEW outcome \in CrossEMA \cup OCOSellBuys PROVE SoundNew(outcome)
    BY <1>1, TypedFacts, MarketSound DEF CrossEMA, OCOSellBuys
  <1>2. ASSUME NEW outcome \in Turtle \cup Trailing PROVE SoundNew(outcome)
    <2>1. read.quote \div 2 \in Int
      BY TypedFacts
    <2>. QED
      BY <1>2, <2>1, TypedFacts, MarketSound, QuoteSound DEF Turtle, Trailing
  <1>3. ASSUME NEW outcome \in Own PROVE SoundNew(outcome)
    BY <1>3, TypedFacts, LimitSound, StopSound DEF Own
  <1>4. ASSUME bot = "oco", Price \subseteq Nat \ {0, 1}, NEW outcome \in OCOSell
        PROVE  SoundNew(outcome)
    <2>1. candle.close \in Nat /\ candle.close >= 2
      BY <1>4 DEF Typed
    <2>2. (110 * candle.close) \div 100 \in Nat \ {0} /\ (95 * candle.close) \div 100 \in Nat \ {0}
      BY <2>1
    <2>. QED
      BY <1>4, <2>2, TypedFacts, OCOSound DEF OCOSell
  <1>. QED
    BY <1>1, <1>2, <1>3, <1>4

LEMMA AmountType == ASSUME Typed PROVE Amount \in Int
  <1>1. command.amount \in Int
    BY DEF Typed
  <1>2. PICK h \in Int : h = IF command.side = "buy" THEN holds.quote ELSE holds.asset
    BY TypedFacts
  <1>3. command.amount * h \in Int
    BY <1>1
  <1>4. Amount = IF ~command.percent THEN command.amount ELSE (command.amount * h) \div 100
    BY <1>2 DEF Amount
  <1>. QED
    BY <1>1, <1>3, <1>4

LEMMA WishSound ==
  ASSUME IsSeq(book), Typed, NEW outcome \in Wish
  PROVE  SoundNew(outcome)
  BY AmountType, TypedFacts, MarketSound, QuoteSound, UnacceptedSound DEF Wish

(* Everything but the coins and the orders keeps its type.                 *)
LEMMA ReadingStep ==
  ASSUME Typed, [Next]_vars
  PROVE  /\ read' \in Holdings /\ holds' \in Holdings /\ learner' \in -4..4
         /\ candle'.close \in Nat \ {0} /\ command'.amount \in Nat
         /\ bot' \in {"position", "decide", "oco"} => candle'.close \in Price
         /\ bot' = "stopped" => strategy' = "trailing"
  <1>1. Position \in Holdings /\ NoPosition \in Holdings
    <2>1. /\ account["asset"].free \in Int /\ account["asset"].lock \in Int
          /\ account["quote"].free \in Int /\ account["quote"].lock \in Int
      BY DEF Typed, Balances, Coin
    <2>. QED
      BY <2>1 DEF Position, NoPosition, Holdings
  <1>2. CASE BotStep /\ UNCHANGED <<telegram, running>>
    <2> USE DEF outer, strategies, telegram, progress
    <2>1. read' \in {read, Position, NoPosition}
      BY <1>2 DEF BotStep, OnCandle, OnPartialCandle, ReadPosition, CrossEMADecides,
         TurtleDecides, OwnDecides, RLDecides, OCOSellDecides, OCOSellOffers, TrailingDecides,
         TrailingSells, ScheduleSkips, ScheduleOrders, ScheduleEnds, Decide, Returns
    <2>2. learner' = learner \/ learner' \in Target
      BY <1>2 DEF BotStep, OnCandle, OnPartialCandle, ReadPosition, CrossEMADecides,
         TurtleDecides, OwnDecides, RLDecides, OCOSellDecides, OCOSellOffers, TrailingDecides,
         TrailingSells, ScheduleSkips, ScheduleOrders, ScheduleEnds
    <2>3. /\ candle'.close \in Nat \ {0}
          /\ bot' \in {"position", "decide", "oco"} => candle'.close \in Price
      <3>1. CASE OnCandle
        <4>1. candle'.close = price
          BY <3>1 DEF OnCandle
        <4>. QED
          BY <4>1, BinanceAssumption DEF Typed
      <3>2. CASE /\ UNCHANGED candle
                 /\ bot' \in {"position", "decide", "oco"} => bot \in {"position", "decide", "oco"}
        BY <3>2 DEF Typed
      <3>3. CASE candle' = NoCandle /\ bot' \notin {"position", "decide", "oco"}
        BY <3>3 DEF NoCandle
      <3>4. \/ OnCandle
            \/ /\ UNCHANGED candle
               /\ bot' \in {"position", "decide", "oco"} => bot \in {"position", "decide", "oco"}
            \/ candle' = NoCandle /\ bot' \notin {"position", "decide", "oco"}
        <4>1. ASSUME NEW name, NEW outcomes, NEW quoted, Decide(name, outcomes, quoted)
              PROVE  candle' = NoCandle /\ bot' \notin {"position", "decide", "oco"}
          BY <4>1 DEF Decide, Returns, Then
        <4>2. CASE \/ CrossEMADecides \/ TurtleDecides \/ OwnDecides \/ RLDecides
                   \/ TrailingDecides
          BY <4>1, <4>2 DEF CrossEMADecides, TurtleDecides, OwnDecides, RLDecides,
             TrailingDecides
        <4>3. CASE OnPartialCandle \/ ReadPosition
          <5>1. CASE OnPartialCandle
            BY <5>1 DEF OnPartialCandle
          <5>2. CASE ReadPosition
            BY <5>2 DEF ReadPosition, Returns, Typed
          <5>. QED
            BY <4>3, <5>1, <5>2
        <4>4. CASE OCOSellDecides \/ OCOSellOffers \/ TrailingSells
          BY <4>4 DEF OCOSellDecides, OCOSellOffers, TrailingSells, Returns, Then
        <4>5. CASE ScheduleSkips \/ ScheduleOrders \/ ScheduleEnds
          BY <4>5 DEF ScheduleSkips, ScheduleOrders, ScheduleEnds, Returns, Then
        <4>. QED
          BY <1>2, <4>2, <4>3, <4>4, <4>5 DEF BotStep
      <3>. QED
        BY <3>1, <3>2, <3>3, <3>4
    <2>4. holds' \in Holdings /\ command'.amount \in Nat
      BY <1>2 DEF Typed
    <2>5. bot' = "stopped" => strategy' = "trailing"
      BY <1>2 DEF BotStep, OnCandle, OnPartialCandle, ReadPosition, CrossEMADecides,
         TurtleDecides, OwnDecides, RLDecides, OCOSellDecides, OCOSellOffers, TrailingDecides,
         TrailingSells, ScheduleSkips, ScheduleOrders, ScheduleEnds, Decide, Then, Typed
    <2>. QED
      BY <1>1, <2>1, <2>2, <2>3, <2>4, <2>5, StrategyAssumption DEF Typed
  <1>3. CASE UserStep
    <2> USE DEF outer, strategies, telegram, progress
    <2>1. UNCHANGED <<read, learner, candle, bot, strategy>>
      BY <1>3 DEF UserStep, CommandArrives, UserReads, UserOrders, StartHandle, StopHandle
    <2>2. holds' \in {holds, Position, NoPosition}
      BY <1>3 DEF UserStep, CommandArrives, UserReads, UserOrders, StartHandle, StopHandle,
         Replies
    <2>3. command'.amount \in Nat
      <3>1. CASE CommandArrives
        BY <3>1, TradingAssumption DEF CommandArrives
      <3>2. CASE UNCHANGED command
        BY <3>2 DEF Typed
      <3>3. CASE command' = NoCommand
        BY <3>3 DEF NoCommand
      <3>. QED
        BY <1>3, <3>1, <3>2, <3>3
           DEF UserStep, UserReads, UserOrders, StartHandle, StopHandle, Replies
    <2>. QED
      BY <1>1, <2>1, <2>2, <2>3 DEF Typed
  <1>4. CASE UNCHANGED <<strategies, telegram>>
    BY <1>4 DEF strategies, progress, telegram, Typed
  <1>. QED
    BY <1>2, <1>3, <1>4 DEF Next, vars, Rest, strategies, outer

(* A step of the bot or the user takes an outcome that adds sound orders,  *)
(* or leaves the exchange and what is known of it.                         *)
LEMMA BotRequests ==
  ASSUME Scheduling, Typed, Price \subseteq Nat \ {0, 1}, BotStep
  PROVE  \/ UNCHANGED <<exchange, answered>>
         \/ \E outcome, by, side :
              Take(outcome) /\ SoundNew(outcome) /\ Appends(outcome.book, by, side)
  <1> DEFINE Request == \E outcome, by, side :
               Take(outcome) /\ SoundNew(outcome) /\ Appends(outcome.book, by, side)
  <1>1. IsSeq(book)
    BY DEF Scheduling
  <1>2. ASSUME NEW outcome \in CrossEMA \cup Turtle \cup OCOSellBuys \cup Trailing \cup Own
        PROVE  SoundNew(outcome) /\ \E by, side : Appends(outcome.book, by, side)
    <2>1. SoundNew(outcome)
      BY <1>1, StrategiesSound
    <2>2. ASSUME NEW side, NEW quantity,
                 outcome \in CreateOrderMarket("bot", side, quantity)
                               \cup CreateOrderMarketQuote("bot", side, quantity)
          PROVE  \E by, to : Appends(outcome.book, by, to)
      BY <1>1, <2>2, MarketAppends
    <2>3. ASSUME NEW side, NEW quantity, NEW limit,
                 outcome \in CreateOrderLimit("bot", side, quantity, limit)
                               \cup CreateOrderStop("bot", quantity, limit)
          PROVE  \E by, to : Appends(outcome.book, by, to)
      BY <1>1, <2>3, LimitAppends, StopAppends
    <2>4. \E by, to : Appends(outcome.book, by, to)
      BY <1>2, <2>2, <2>3 DEF CrossEMA, OCOSellBuys, Turtle, Trailing, Own
    <2>. QED
      BY <2>1, <2>4
  <1>3. ASSUME NEW target \in Target, NEW outcome \in Shift(target)
        PROVE  SoundNew(outcome) /\ \E by, side : Appends(outcome.book, by, side)
    BY <1>1, ShiftSound, MarketAppends DEF Shift
  <1>4. ASSUME NEW by, NEW side, NEW quantity \in Int,
               NEW outcome \in CreateOrderMarket(by, side, quantity)
        PROVE  SoundNew(outcome) /\ Appends(outcome.book, by, side)
    BY <1>1, MarketSound, MarketAppends, TypedFacts
  <1> HIDE DEF Request
  <1>5. CASE \/ OnCandle \/ OnPartialCandle \/ ReadPosition \/ ScheduleSkips \/ ScheduleEnds
    BY <1>5 DEF OnCandle, OnPartialCandle, ReadPosition, ScheduleSkips, ScheduleEnds
  <1>6. CASE CrossEMADecides \/ TurtleDecides \/ OwnDecides \/ TrailingDecides
    <2>1. PICK outcomes \in {CrossEMA, Turtle, Own, Trailing} :
            \E name, quoted : Decide(name, outcomes, quoted)
      BY <1>6 DEF CrossEMADecides, TurtleDecides, OwnDecides, TrailingDecides
    <2>2. \A outcome \in outcomes :
            SoundNew(outcome) /\ \E by, side : Appends(outcome.book, by, side)
      BY <1>2, <2>1
    <2>. QED
      BY <2>1, <2>2 DEF Decide, Nothing, Request
  <1>7. CASE RLDecides
    <2>1. PICK target \in Target : Decide("rl", Shift(target), FALSE)
      BY <1>7 DEF RLDecides
    <2>. QED
      BY <1>3, <2>1 DEF Decide, Nothing, Request
  <1>8. CASE OCOSellDecides
    BY <1>2, <1>8 DEF OCOSellDecides, Nothing, Request
  <1>9. CASE OCOSellOffers
    <2>1. PICK outcome \in OCOSell : Take(outcome) /\ bot = "oco"
      BY <1>9 DEF OCOSellOffers
    <2>2. SoundNew(outcome)
      BY <1>1, <2>1, StrategiesSound
    <2>3. Appends(outcome.book, "bot", "sell")
      BY <1>1, <2>1, OCOAppends DEF OCOSell
    <2>. QED
      BY <2>1, <2>2, <2>3 DEF Request
  <1>10. CASE TrailingSells
    <2>1. read.asset \in Int
      BY TypedFacts
    <2>. QED
      BY <1>4, <1>10, <2>1 DEF TrailingSells, Nothing, Request
  <1>11. CASE ScheduleOrders
    <2>1. PICK outcome \in CreateOrderMarket(Conditions[due], "buy", ScheduledSize) :
            Take(outcome)
      BY <1>11 DEF ScheduleOrders
    <2>2. ScheduledSize \in Int
      BY StrategyAssumption
    <2>. QED
      BY <1>4, <2>1, <2>2 DEF Request
  <1>. QED
    BY <1>5, <1>6, <1>7, <1>8, <1>9, <1>10, <1>11 DEF BotStep, Request

LEMMA UserRequests ==
  ASSUME Scheduling, Typed, UserStep
  PROVE  \/ UNCHANGED <<exchange, answered>>
         \/ \E outcome, by, side :
              Take(outcome) /\ SoundNew(outcome) /\ Appends(outcome.book, by, side)
  <1>1. CASE CommandArrives \/ UserReads \/ StartHandle \/ StopHandle
    BY <1>1 DEF CommandArrives, UserReads, StartHandle, StopHandle
  <1>2. CASE UserOrders
    <2>1. PICK outcome \in Wish : Take(outcome)
      BY <1>2 DEF UserOrders
    <2>2. IsSeq(book)
      BY DEF Scheduling
    <2>3. SoundNew(outcome)
      BY <2>2, WishSound
    <2>4. \E side : Appends(outcome.book, "user", side)
      BY <2>2, MarketAppends, UnacceptedAppends DEF Wish
    <2>. QED
      BY <2>1, <2>3, <2>4
  <1>. QED
    BY <1>1, <1>2 DEF UserStep

LEMMA ReportedInit == Init => Typed /\ Reported
  <1> SUFFICES ASSUME Init PROVE Typed /\ Reported
    OBVIOUS
  <1> USE DEF Init, StrategiesInit, BinanceInit
  <1>1. account \in Balances
    BY BinanceAssumption DEF Balances, Coin
  <1>2. fee \in {0, 1} /\ price \in Price
    OBVIOUS
  <1>3. read \in Holdings /\ holds \in Holdings /\ learner \in -4..4
    BY DEF NoPosition, Holdings
  <1>4. candle.close \in Nat \ {0} /\ command.amount \in Nat /\ bot = "idle"
    BY DEF NoCandle, NoCommand
  <1>5. DOMAIN book = {} /\ DOMAIN answered = {}
    OBVIOUS
  <1>. QED
    BY <1>1, <1>2, <1>3, <1>4, <1>5 DEF Typed, Reported

LEMMA ReportedStep ==
  ASSUME Price \subseteq Nat \ {0, 1}, Scheduling, Typed, Reported, [Next]_vars
  PROVE  Typed' /\ Reported'
  <1>1. account \in Balances /\ fee \in {0, 1} /\ price \in Price
    BY DEF Typed
  <1>2. Reported' /\ account' \in Balances /\ fee' \in {0, 1} /\ price' \in Price
    <2>1. CASE UNCHANGED <<exchange, answered>>
      <3>1. UNCHANGED <<fee, price, account, book, answered>>
        BY <2>1 DEF exchange
      <3>. QED
        BY <1>1, <3>1 DEF Reported
    <2>2. ASSUME NEW outcome, NEW by, NEW side, Take(outcome), SoundNew(outcome),
                 Appends(outcome.book, by, side)
          PROVE  Reported' /\ account' \in Balances /\ fee' \in {0, 1} /\ price' \in Price
      BY <1>1, <2>2, Told
    <2>3. CASE BotStep \/ UserStep
      BY <2>1, <2>2, <2>3, BotRequests, UserRequests
    <2>4. CASE Poll
      <3>1. PICK i : Query(i)
        BY <2>4 DEF Poll
      <3>2. UNCHANGED <<fee, price, account>>
        BY <3>1 DEF Query, exchange
      <3>. QED
        BY <1>1, <3>1, <3>2, Queried
    <2>5. CASE ExchangeStep
      BY <1>1, <2>5, ExchangeReports
    <2>6. CASE Connect \/ UNCHANGED vars
      BY <2>1, <2>6 DEF Connect, vars
    <2>. QED
      BY <2>3, <2>4, <2>5, <2>6 DEF Next
  <1>. QED
    BY <1>2, ReadingStep DEF Typed

(* Every order that is over is reported with what was executed of it at    *)
(* its cost, whoever gave it and whatever became of the answers            *)
(* (newOrder, binance.go:401-423 and binance_future.go:348-375).  The      *)
(* prices are above one tick, for at one OCOSell's stop would be at none.  *)
THEOREM FinalOrdersAreReported ==
  ASSUME Price \subseteq Nat \ {0, 1}
  PROVE  Spec => []FinalIsReported
  <1>1. Reported => FinalIsReported
    BY DEF Reported, FinalIsReported
  <1>2. Init => Scheduling /\ Typed /\ Reported
    BY SchedulingInit, ReportedInit
  <1>3. Scheduling /\ Typed /\ Reported /\ [Next]_vars => (Scheduling /\ Typed /\ Reported)'
    BY SchedulingStep, ReportedStep
  <1>. QED
    BY <1>1, <1>2, <1>3, PTL DEF Spec

-----------------------------------------------------------------------------
(* Why the exchange refuses what was computed from the account.            *)

Reason ==
  \/ \E coin \in Coin : account[coin].lock > 0
  \/ market = "futures" /\ account["asset"].free # 0

Held(coins) ==
  [asset |-> coins["asset"].free + coins["asset"].lock,
   quote |-> coins["quote"].free + coins["quote"].lock]

(* What was read is what the account was then; a purchase of OCOSell that  *)
(* was executed without a fee is there to be sold.                         *)
Remembered ==
  /\ market = "spot" => account["asset"].free >= 0
  /\ bot = "sell" => strategy = "trailing"
  /\ bot \in {"decide", "sell"} /\ strategy # "rl" /\ view # <<>> =>
       read = Held(view[1].account)
  /\ bot = "oco" /\ bought /\ fee = 0 /\ market = "spot" =>
       view[1].account["asset"].free >= formatQuantity(OCOSize)
  /\ command.side \in Side /\ (user # "order" => saw = <<>>)
  /\ saw # <<>> /\ command.listed => holds = Held(saw[1].account)

(* Products and quotients.                                                 *)
LEMMA QuotientBelow ==
  ASSUME NEW a \in Int, NEW p \in Nat, p > 0
  PROVE  (a \div p) * p <= a /\ a < (a \div p) * p + p
  OBVIOUS

LEMMA ProductBelow ==
  ASSUME NEW a \in Int, NEW b \in Int, a <= b, NEW p \in Nat
  PROVE  a * p <= b * p
  OBVIOUS

LEMMA RoundedDown ==
  ASSUME NEW x \in Int
  PROVE  /\ formatQuantity(x) \in Int /\ formatQuantity(x) <= x
         /\ validate(x) => ~Filtered(formatQuantity(x)) /\ formatQuantity(x) \in Nat \ {0}
  <1>1. PICK s \in Nat : s > 0 /\ s = StepSize
    BY BinanceAssumption
  <1>2. PICK k \in Int : k = x \div s
    BY <1>1
  <1>3. PICK y \in Int : y = s * k
    OBVIOUS
  <1>4. y <= x /\ x < y + s
    BY <1>1, <1>2, <1>3, QuotientBelow
  <1>5. formatQuantity(x) = y
    BY <1>1, <1>2, <1>3 DEF formatQuantity
  <1>6. y % s = 0
    BY <1>1, <1>3
  <1>7. ASSUME validate(x) PROVE y >= MinQuantity
    <2>1. PICK j \in Int : j = MinQuantity \div s
      BY <1>1, BinanceAssumption
    <2>2. s * j = MinQuantity
      BY <1>1, <2>1, BinanceAssumption
    <2>3. s * j <= x
      BY <1>7, <2>2 DEF validate
    <2>4. j <= k
      <3>1. s * j < s * k + s
        BY <1>3, <1>4, <2>2, <2>3, BinanceAssumption
      <3>2. s * (k + 1) = s * k + s
        BY <1>1
      <3>3. CASE j >= k + 1
        <4>1. (k + 1) * s <= j * s
          BY <3>3, ProductBelow
        <4>. QED
          BY <1>1, <3>1, <3>2, <4>1
      <3>. QED
        BY <3>3
    <2>5. j * s <= k * s
      BY <2>4, ProductBelow
    <2>. QED
      BY <1>1, <1>3, <2>2, <2>5
  <1>8. MinQuantity \in Nat \ {0} /\ MaxQuantity \in Nat
    BY BinanceAssumption
  <1>. QED
    BY <1>1, <1>4, <1>5, <1>6, <1>7, <1>8 DEF Filtered, validate

(* An amount of quote coins buys no more than it pays for.                 *)
LEMMA QuoteRounded ==
  ASSUME NEW a \in Int, NEW p \in Nat, p > 0,
         NEW q, q = formatQuantity(formatQuantity(a) \div p)
  PROVE  q \in Int /\ q * p <= a
  <1>1. PICK f \in Int : f = formatQuantity(a) /\ f <= a
    BY RoundedDown
  <1>2. PICK m \in Int : m = f \div p
    OBVIOUS
  <1>3. m * p <= f
    BY <1>2, QuotientBelow
  <1>4. q \in Int /\ q <= m
    BY <1>1, <1>2, RoundedDown
  <1>5. q * p <= m * p
    BY <1>4, ProductBelow
  <1>. QED
    BY <1>1, <1>3, <1>4, <1>5

(* When there is no such reason, what was read suffices.                   *)
LEMMA BuyCovered ==
  ASSUME Typed, market \in {"spot", "futures"}, ~Reason, NEW q \in Nat, NEW cost \in Int,
         q * price <= Position.quote, cost = q * price
  PROVE  Affordable("buy", q, cost)
  <1>1. /\ account["asset"].free \in Int /\ account["quote"].free \in Int
        /\ account["quote"].lock \in Int /\ account["quote"].lock <= 0
    BY DEF Typed, Balances, Coin, Reason
  <1>2. PICK c \in Nat : c = q * price
    BY TypedFacts
  <1>3. c <= account["quote"].free
    BY <1>1, <1>2 DEF Position
  <1>4. CASE market = "spot"
    BY <1>2, <1>3, <1>4 DEF Affordable
  <1>5. CASE market = "futures"
    <2>1. account["asset"].free = 0
      BY <1>5 DEF Reason
    <2>2. account["quote"].free <= Leverage * account["quote"].free
      <3>1. PICK f \in Nat : f = account["quote"].free
        BY <1>1, <1>2, <1>3
      <3>2. PICK l \in Nat : l = Leverage /\ l >= 1
        BY BinanceAssumption
      <3>3. 1 * f <= l * f
        BY <3>2, ProductBelow
      <3>. QED
        BY <3>1, <3>2, <3>3
    <2>3. PICK g \in Int : g = Leverage * account["quote"].free
      BY <1>1, BinanceAssumption
    <2>4. -q * price = -c /\ 0 + q = q
      BY <1>2, TypedFacts
    <2>. QED
      BY <1>1, <1>2, <1>3, <1>5, <2>1, <2>2, <2>3, <2>4 DEF Affordable
  <1>. QED
    BY <1>4, <1>5

LEMMA SellCovered ==
  ASSUME Typed, ~Reason, NEW q \in Nat \ {0}, NEW cost, q <= Position.asset,
         market \in {"spot", "futures"}
  PROVE  Affordable("sell", q, cost)
  <1>1. /\ account["asset"].free \in Int /\ account["asset"].lock \in Int
        /\ account["asset"].lock <= 0
    BY DEF Typed, Balances, Coin, Reason
  <1>2. market = "spot"
    BY <1>1 DEF Position, Reason
  <1>. QED
    BY <1>1, <1>2 DEF Affordable, Position

(* Requests within what was read are refused for a reason, and rounded     *)
(* quantities are within the exchange's limits.                            *)
LEMMA MarketRefused ==
  ASSUME Typed, market \in {"spot", "futures"}, NEW by, NEW side \in Side, NEW quantity \in Int,
         NEW outcome \in CreateOrderMarket(by, side, quantity)
  PROVE  /\ outcome.answer # "filtered"
         /\ /\ outcome.answer = "refused"
            /\ side = "buy" => quantity * price <= Position.quote
            /\ side = "sell" => quantity <= Position.asset
            => Reason
  <1> DEFINE q == formatQuantity(quantity)
  <1>1. CASE outcome.answer \notin {"filtered", "refused"}
    BY <1>1
  <1>2. ASSUME outcome.answer \in {"filtered", "refused"}
        PROVE  validate(quantity) /\ (outcome.answer = "filtered" => Filtered(q))
               /\ (outcome.answer = "refused" => ~Affordable(side, q, q * price))
    BY <1>2 DEF CreateOrderMarket, Sent, Unaccepted, Market, Accepted, Outcome
  <1>3. q \in Int /\ q <= quantity /\ (validate(quantity) => ~Filtered(q) /\ q \in Nat \ {0})
    BY RoundedDown
  <1> HIDE DEF q
  <1>4. ASSUME outcome.answer = "refused", ~Reason,
               side = "buy" => quantity * price <= Position.quote,
               side = "sell" => quantity <= Position.asset
        PROVE  FALSE
    <2>1. CASE side = "buy"
      <3>1. q * price <= quantity * price /\ q * price \in Int /\ quantity * price \in Int
        BY <1>3, ProductBelow, TypedFacts
      <3>2. Position.quote \in Int
        BY DEF Typed, Balances, Coin, Position
      <3>3. q * price <= Position.quote
        BY <1>4, <2>1, <3>1, <3>2
      <3>. QED
        BY <1>2, <1>3, <1>4, <2>1, <3>1, <3>3, BuyCovered
    <2>2. CASE side = "sell"
      <3>1. Position.asset \in Int
        BY DEF Typed, Balances, Coin, Position
      <3>2. q <= Position.asset
        BY <1>3, <1>4, <2>2, <3>1
      <3>. QED
        BY <1>2, <1>3, <1>4, <2>2, <3>2, SellCovered
    <2>. QED
      BY <2>1, <2>2 DEF Side
  <1>. QED
    BY <1>1, <1>2, <1>3, <1>4

LEMMA QuoteRefused ==
  ASSUME Typed, market \in {"spot", "futures"}, NEW by, NEW amount \in Int,
         amount <= Position.quote,
         NEW outcome \in CreateOrderMarketQuote(by, "buy", amount), outcome.answer = "refused"
  PROVE  Reason
  <1> DEFINE q == StepSize * ((formatQuantity(amount) \div price) \div StepSize)
  <1>1. ~Filtered(q) /\ ~Affordable("buy", q, q * price)
    BY DEF CreateOrderMarketQuote, Sent, Unaccepted, Market, Accepted, Outcome
  <1>2. q = formatQuantity(formatQuantity(amount) \div price)
    BY DEF formatQuantity
  <1> HIDE DEF q
  <1>3. q \in Int /\ q * price <= amount /\ price \in Nat \ {0}
    BY <1>2, QuoteRounded, TypedFacts
  <1>4. q \in Nat
    BY <1>1, <1>3, BinanceAssumption DEF Filtered, validate
  <1>5. Position.quote \in Int
    BY DEF Typed, Balances, Coin, Position
  <1>6. q * price \in Int /\ q * price <= Position.quote
    BY <1>3, <1>5
  <1>. QED
    BY <1>1, <1>4, <1>6, BuyCovered

LEMMA LimitRefused ==
  ASSUME Typed, market \in {"spot", "futures"}, NEW by, NEW quantity \in Int, NEW limit,
         NEW outcome \in CreateOrderLimit(by, "buy", quantity, limit)
  PROVE  /\ outcome.answer # "filtered"
         /\ /\ outcome.answer = "refused" /\ limit = price
            /\ quantity * price <= Position.quote
            => Reason
  <1> DEFINE q == formatQuantity(quantity)
  <1>1. CASE outcome.answer \notin {"filtered", "refused"}
    BY <1>1
  <1>2. ASSUME outcome.answer \in {"filtered", "refused"}
        PROVE  validate(quantity) /\ (outcome.answer = "filtered" => Filtered(q))
               /\ (outcome.answer = "refused" => ~Affordable("buy", q, q * limit))
    BY <1>2 DEF CreateOrderLimit, Sent, Unaccepted, Resting, Accepted, Outcome
  <1>3. q \in Int /\ q <= quantity /\ (validate(quantity) => ~Filtered(q) /\ q \in Nat \ {0})
    BY RoundedDown
  <1> HIDE DEF q
  <1>4. ASSUME outcome.answer = "refused", ~Reason, limit = price,
               quantity * price <= Position.quote
        PROVE  FALSE
    <2>1. q * price <= quantity * price /\ q * price \in Int /\ quantity * price \in Int
      BY <1>3, ProductBelow, TypedFacts
    <2>2. Position.quote \in Int
      BY DEF Typed, Balances, Coin, Position
    <2>3. q * price <= Position.quote
      BY <1>4, <2>1, <2>2
    <2>. QED
      BY <1>2, <1>3, <1>4, <2>1, <2>3, BuyCovered
  <1>. QED
    BY <1>1, <1>2, <1>3, <1>4

LEMMA StopRefused ==
  ASSUME Typed, market \in {"spot", "futures"}, NEW by, NEW quantity \in Int, NEW limit,
         NEW outcome \in CreateOrderStop(by, quantity, limit)
  PROVE  /\ outcome.answer # "filtered"
         /\ outcome.answer = "refused" /\ quantity <= Position.asset => Reason
  <1> DEFINE q == formatQuantity(quantity)
  <1>1. CASE outcome.answer \notin {"filtered", "refused"}
    BY <1>1
  <1>2. ASSUME outcome.answer \in {"filtered", "refused"}
        PROVE  validate(quantity) /\ (outcome.answer = "filtered" => Filtered(q))
               /\ (outcome.answer = "refused" => ~Affordable("sell", q, 0))
    BY <1>2 DEF CreateOrderStop, Sent, Unaccepted, Resting, Accepted, Outcome
  <1>3. q \in Int /\ q <= quantity /\ (validate(quantity) => ~Filtered(q) /\ q \in Nat \ {0})
    BY RoundedDown
  <1>4. Position.asset \in Int
    BY DEF Typed, Balances, Coin, Position
  <1> HIDE DEF q
  <1>5. quantity <= Position.asset => q <= Position.asset
    BY <1>3, <1>4
  <1>. QED
    BY <1>1, <1>2, <1>3, <1>5, SellCovered

LEMMA OCORefused ==
  ASSUME Typed, market \in {"spot", "futures"}, NEW by, NEW quantity \in Int, NEW limit,
         NEW stopLimit, NEW outcome \in CreateOrderOCO(by, "sell", quantity, limit, stopLimit)
  PROVE  /\ outcome.answer # "filtered"
         /\ outcome.answer = "refused" =>
              market = "spot" /\ ~(account["asset"].free >= formatQuantity(quantity))
  <1> DEFINE q == formatQuantity(quantity)
  <1>1. CASE outcome.answer \notin {"filtered", "refused"}
    BY <1>1
  <1>2. ASSUME outcome.answer \in {"filtered", "refused"}
        PROVE  validate(quantity) /\ (outcome.answer = "filtered" => Filtered(q))
               /\ market # "futures"
               /\ (outcome.answer = "refused" => ~Affordable("sell", q, q * limit))
    BY <1>2 DEF CreateOrderOCO, Sent, Unaccepted, Accepted, Outcome
  <1>3. q \in Int /\ (validate(quantity) => ~Filtered(q))
    BY RoundedDown
  <1>4. account["asset"].free \in Int
    BY DEF Typed, Balances, Coin
  <1> HIDE DEF q
  <1>5. account["asset"].free >= q => q <= account["asset"].free
    BY <1>3, <1>4
  <1>. QED
    BY <1>1, <1>2, <1>3, <1>5 DEF Affordable, q

-----------------------------------------------------------------------------

LEMMA Noted ==
  ASSUME NEW by, NEW answer, NEW quoted \in BOOLEAN, NEW fresh \in BOOLEAN, NEW own \in BOOLEAN,
         Note(by, answer, quoted, fresh, own),
         answer = "filtered" => quoted, answer = "refused" /\ fresh /\ own => Reason
  PROVE  Explained(refusal')
  <1>1. CASE answer \notin {"refused", "filtered"}
    BY <1>1 DEF Note, None, Explained
  <1>2. CASE answer \in {"refused", "filtered"}
    <2>1. /\ refusal'.answer = answer /\ refusal'.quoted = quoted /\ refusal'.fresh = fresh
          /\ refusal'.own = own
      BY <1>2 DEF Note
    <2>. QED
      BY <2>1, Zenon DEF Explained, Reason
  <1>. QED
    BY <1>1, <1>2

(* What the strategies read still holds when nothing happened since.       *)
LEMMA ReadNow ==
  ASSUME Remembered, view = <<View>>, bot \in {"decide", "sell"}, strategy # "rl"
  PROVE  read = Position
  <1>1. view # <<>> /\ view[1] = View
    OBVIOUS
  <1>. QED
    BY <1>1 DEF Remembered, Held, Position, View

LEMMA DecideExplained ==
  ASSUME NEW name, NEW outcomes, NEW quoted \in BOOLEAN, Decide(name, outcomes, quoted),
         \A outcome \in outcomes :
           /\ outcome.answer = "filtered" => quoted
           /\ outcome.answer = "refused" /\ Fresh /\ name # "rl" => Reason
  PROVE  Explained(refusal') \/ UNCHANGED refusal
  <1>1. CASE Nothing
    BY <1>1 DEF Nothing
  <1>2. ASSUME NEW outcome \in outcomes,
               Note("bot", outcome.answer, quoted, Fresh, name # "rl")
        PROVE  Explained(refusal')
    <2>1. Fresh \in BOOLEAN /\ (name # "rl") \in BOOLEAN
      BY DEF Fresh
    <2>. QED
      BY <1>2, <2>1, Noted
  <1>. QED
    BY <1>1, <1>2 DEF Decide

LEMMA WeightedBelow ==
  ASSUME Typed, validate(Weighted) \/ read.quote >= 0
  PROVE  Weighted * candle.close <= read.quote
  <1>1. PICK p \in Nat : p = candle.close /\ p > 0
    BY TypedFacts
  <1>2. PICK r \in Int : r = read.quote
    BY TypedFacts
  <1>3. PICK w \in Int : w = Weighted /\ w = (3 * r) \div (10 * p)
    BY <1>1, <1>2 DEF Weighted
  <1>4. w * (10 * p) <= 3 * r
    BY <1>1, <1>3, QuotientBelow
  <1>5. PICK v \in Int : v = w * p /\ w * (10 * p) = 10 * v
    BY <1>1
  <1>6. 10 * v <= 3 * r
    BY <1>4, <1>5
  <1>7. r >= 0
    <2>1. CASE validate(Weighted)
      <3>1. w >= 0
        BY <1>3, <2>1, BinanceAssumption DEF validate
      <3>2. v >= 0
        BY <1>1, <1>5, <3>1
      <3>. QED
        BY <1>6, <3>2
    <2>. QED
      BY <1>2, <2>1
  <1>. QED
    BY <1>1, <1>2, <1>3, <1>5, <1>6, <1>7

(* Each strategy's requests.                                               *)
LEMMA CrossEMAExplained ==
  ASSUME Typed, market \in {"spot", "futures"}, Remembered, CrossEMADecides
  PROVE  Explained(refusal') \/ UNCHANGED refusal
  <1>1. strategy = "emacross" /\ bot = "decide" /\ Decide("emacross", CrossEMA, FALSE)
    BY DEF CrossEMADecides, Decide
  <1>2. ASSUME NEW outcome \in CrossEMA
        PROVE  /\ outcome.answer # "filtered"
               /\ outcome.answer = "refused" /\ Fresh => Reason
    <2>1. CASE read.quote >= MinTrade /\ outcome \in CreateOrderMarket("bot", "buy", Weighted)
      <3>1. Weighted \in Int /\ "buy" \in Side
        BY TypedFacts DEF Side
      <3>2. read.quote >= 0
        BY <2>1, TypedFacts, StrategyAssumption
      <3>3. Weighted * candle.close <= read.quote
        BY <3>2, WeightedBelow
      <3>4. Fresh => Weighted * price <= Position.quote
        BY <1>1, <3>3, ReadNow DEF Fresh
      <3>. QED
        BY <2>1, <3>1, <3>4, MarketRefused
    <2>2. CASE outcome \in CreateOrderMarket("bot", "sell", read.asset)
      <3>1. read.asset \in Int /\ "sell" \in Side
        BY TypedFacts DEF Side
      <3>2. Fresh => read.asset <= Position.asset
        BY <1>1, <3>1, ReadNow DEF Fresh
      <3>. QED
        BY <2>2, <3>1, <3>2, MarketRefused
    <2>. QED
      BY <1>2, <2>1, <2>2 DEF CrossEMA
  <1>. QED
    BY <1>1, <1>2, DecideExplained

LEMMA TurtleExplained ==
  ASSUME Typed, market \in {"spot", "futures"}, Remembered, TurtleDecides
  PROVE  Explained(refusal') \/ UNCHANGED refusal
  <1>1. strategy = "turtle" /\ bot = "decide" /\ Decide("turtle", Turtle, read.asset = 0)
    BY DEF TurtleDecides, Decide
  <1>2. ASSUME NEW outcome \in Turtle
        PROVE  /\ outcome.answer = "filtered" => read.asset = 0
               /\ outcome.answer = "refused" /\ Fresh => Reason
    <2>1. CASE /\ read.asset = 0
               /\ outcome \in CreateOrderMarketQuote("bot", "buy", read.quote \div 2)
      <3>1. PICK r \in Int : r = read.quote
        BY TypedFacts
      <3>2. r \div 2 \in Int
        BY <3>1
      <3>3. outcome.answer = "refused" => r \div 2 >= 0
        BY <2>1, <3>1, <3>2, BinanceAssumption
           DEF CreateOrderMarketQuote, Unaccepted, Outcome, validate
      <3>4. Fresh /\ outcome.answer = "refused" => r \div 2 <= Position.quote
        BY <1>1, <3>1, <3>3, ReadNow DEF Fresh
      <3>. QED
        BY <2>1, <3>1, <3>2, <3>4, QuoteRefused
    <2>2. CASE outcome \in CreateOrderMarket("bot", "sell", read.asset)
      <3>1. read.asset \in Int /\ "sell" \in Side
        BY TypedFacts DEF Side
      <3>2. Fresh => read.asset <= Position.asset
        BY <1>1, <3>1, ReadNow DEF Fresh
      <3>. QED
        BY <2>2, <3>1, <3>2, MarketRefused
    <2>. QED
      BY <1>2, <2>1, <2>2 DEF Turtle
  <1>3. (read.asset = 0) \in BOOLEAN
    OBVIOUS
  <1>4. \A outcome \in Turtle :
          /\ outcome.answer = "filtered" => read.asset = 0
          /\ outcome.answer = "refused" /\ Fresh /\ "turtle" # "rl" => Reason
    BY <1>2
  <1>. QED
    BY <1>1, <1>3, <1>4, DecideExplained

LEMMA OwnExplained ==
  ASSUME Typed, market \in {"spot", "futures"}, Remembered, OwnDecides
  PROVE  Explained(refusal') \/ UNCHANGED refusal
  <1>1. strategy = "own" /\ bot = "decide" /\ Decide("own", Own, FALSE)
    BY DEF OwnDecides, Decide
  <1>2. ASSUME NEW outcome \in Own
        PROVE  /\ outcome.answer # "filtered"
               /\ outcome.answer = "refused" /\ Fresh => Reason
    <2>1. CASE outcome \in CreateOrderLimit("bot", "buy", Weighted, candle.close)
      <3>1. Weighted \in Int
        BY TypedFacts
      <3>2. outcome.answer = "refused" => validate(Weighted)
        BY <2>1 DEF CreateOrderLimit, Unaccepted, Outcome
      <3>3. outcome.answer = "refused" /\ Fresh =>
              candle.close = price /\ Weighted * price <= Position.quote
        BY <1>1, <3>2, WeightedBelow, ReadNow DEF Fresh
      <3>. QED
        BY <2>1, <3>1, <3>3, LimitRefused
    <2>2. CASE /\ read.asset > 0
               /\ outcome \in CreateOrderStop("bot", read.asset, candle.close)
      <3>1. read.asset \in Int
        BY TypedFacts
      <3>2. Fresh => read.asset <= Position.asset
        BY <1>1, <3>1, ReadNow DEF Fresh
      <3>. QED
        BY <2>2, <3>1, <3>2, StopRefused
    <2>. QED
      BY <1>2, <2>1, <2>2 DEF Own
  <1>. QED
    BY <1>1, <1>2, DecideExplained

LEMMA TrailingExplained ==
  ASSUME Typed, market \in {"spot", "futures"}, Remembered, TrailingDecides
  PROVE  Explained(refusal') \/ UNCHANGED refusal
  <1>1. strategy = "trailing" /\ bot = "decide" /\ Decide("trailing", Trailing, TRUE)
    BY DEF TrailingDecides, Decide
  <1>2. ASSUME NEW outcome \in Trailing
        PROVE  outcome.answer = "refused" /\ Fresh => Reason
    <2>1. outcome \in CreateOrderMarketQuote("bot", "buy", read.quote)
      BY <1>2 DEF Trailing
    <2>2. read.quote \in Int
      BY TypedFacts
    <2>3. Fresh => read.quote <= Position.quote
      BY <1>1, <2>2, ReadNow DEF Fresh
    <2>. QED
      BY <2>1, <2>2, <2>3, QuoteRefused
  <1>. QED
    BY <1>1, <1>2, DecideExplained

LEMMA SellsExplained ==
  ASSUME Typed, market \in {"spot", "futures"}, Remembered, TrailingSells
  PROVE  Explained(refusal') \/ UNCHANGED refusal
  <1>1. bot = "sell" /\ strategy # "rl"
    BY DEF TrailingSells, Remembered
  <1>2. CASE Nothing
    BY <1>2 DEF Nothing
  <1>3. ASSUME NEW outcome \in CreateOrderMarket("bot", "sell", read.asset),
               Note("bot", outcome.answer, FALSE, view = <<View>>, TRUE)
        PROVE  Explained(refusal')
    <2>1. read.asset \in Int /\ "sell" \in Side
      BY TypedFacts DEF Side
    <2>2. view = <<View>> => read.asset <= Position.asset
      BY <1>1, <2>1, ReadNow
    <2>3. outcome.answer # "filtered" /\ (outcome.answer = "refused" /\ view = <<View>> => Reason)
      BY <2>1, <2>2, MarketRefused
    <2>4. (view = <<View>>) \in BOOLEAN /\ TRUE \in BOOLEAN /\ FALSE \in BOOLEAN
      OBVIOUS
    <2>. QED
      BY <1>3, <2>3, <2>4, Noted
  <1>. QED
    BY <1>2, <1>3 DEF TrailingSells

LEMMA OCOSellExplained ==
  ASSUME Typed, market \in {"spot", "futures"}, Remembered, OCOSellDecides \/ OCOSellOffers
  PROVE  Explained(refusal') \/ UNCHANGED refusal
  <1>1. OCOSize \in Int /\ {"buy", "sell"} = Side /\ TRUE \in BOOLEAN /\ FALSE \in BOOLEAN
    BY TypedFacts DEF Side
  <1>2. CASE OCOSellDecides
    <2>1. CASE Nothing
      BY <2>1 DEF Nothing
    <2>2. ASSUME NEW outcome \in OCOSellBuys, Note("bot", outcome.answer, FALSE, Fresh, TRUE)
          PROVE  Explained(refusal')
      <3>1. outcome \in CreateOrderMarket("bot", "buy", OCOSize) /\ read.quote > OCOAmount
        BY <2>2 DEF OCOSellBuys, OCOSells
      <3>2. OCOSize * candle.close <= OCOAmount
        BY TypedFacts, StrategyAssumption, QuotientBelow DEF OCOSize
      <3>3. OCOSize * candle.close <= read.quote
        <4>1. OCOSize * candle.close \in Int /\ OCOAmount \in Int /\ read.quote \in Int
          BY TypedFacts, StrategyAssumption
        <4>. QED
          BY <3>1, <3>2, <4>1
      <3>4. Fresh => OCOSize * price <= Position.quote
        BY <1>2, <3>3, ReadNow DEF Fresh, OCOSellDecides
      <3>5. outcome.answer # "filtered" /\ (outcome.answer = "refused" /\ Fresh => Reason)
        BY <1>1, <3>1, <3>4, MarketRefused
      <3>6. Fresh \in BOOLEAN
        BY DEF Fresh
      <3>. QED
        BY <1>1, <2>2, <3>5, <3>6, Noted
    <2>. QED
      BY <1>2, <2>1, <2>2 DEF OCOSellDecides
  <1>3. CASE OCOSellOffers
    <2> DEFINE same == view[1].account = account
               sellable == bought /\ fee = 0
    <2>1. PICK outcome \in OCOSell :
            Note("bot", outcome.answer, FALSE, same, sellable) /\ bot = "oco"
      BY <1>3 DEF OCOSellOffers
    <2>2. outcome.answer # "filtered"
      BY <1>1, <2>1, OCORefused DEF OCOSell
    <2>3. ~(outcome.answer = "refused" /\ same /\ sellable)
      <3>1. outcome.answer = "refused" =>
              market = "spot" /\ ~(account["asset"].free >= formatQuantity(OCOSize))
        BY <1>1, <2>1, OCORefused DEF OCOSell
      <3>. QED
        BY <2>1, <3>1 DEF Remembered
    <2>4. same \in BOOLEAN /\ sellable \in BOOLEAN
      OBVIOUS
    <2> HIDE DEF same, sellable
    <2>. QED
      BY <1>1, <2>1, <2>2, <2>3, <2>4, Noted
  <1>. QED
    BY <1>2, <1>3

LEMMA OthersExplained ==
  ASSUME Typed, market \in {"spot", "futures"}, RLDecides \/ ScheduleOrders
  PROVE  Explained(refusal') \/ UNCHANGED refusal
  <1>1. {"buy", "sell"} = Side /\ TRUE \in BOOLEAN /\ FALSE \in BOOLEAN /\ ScheduledSize \in Int
    BY TypedFacts DEF Side
  <1>2. CASE ScheduleOrders
    <2>1. PICK by, outcome \in CreateOrderMarket(Conditions[due], "buy", ScheduledSize) :
            Note("bot", outcome.answer, FALSE, TRUE, FALSE)
      BY <1>2 DEF ScheduleOrders
    <2>2. outcome.answer # "filtered"
      BY <1>1, <2>1, MarketRefused
    <2>. QED
      BY <1>1, <2>1, <2>2, Noted
  <1>3. CASE RLDecides
    <2>1. PICK target \in Target : Decide("rl", Shift(target), FALSE)
      BY <1>3 DEF RLDecides
    <2>2. ASSUME NEW outcome \in Shift(target) PROVE outcome.answer # "filtered"
      <3>1. PICK side \in Side, quantity \in Int :
              outcome \in CreateOrderMarket("bot", side, quantity)
        BY ShiftAmount, <1>1 DEF Shift
      <3>. QED
        BY <3>1, MarketRefused
    <2>. QED
      BY <1>1, <2>1, <2>2, DecideExplained
  <1>. QED
    BY <1>2, <1>3

LEMMA ShareBelow ==
  ASSUME NEW a \in Nat, a <= 100, NEW h \in Int, validate((a * h) \div 100)
  PROVE  (a * h) \div 100 <= h
  <1>1. PICK p \in Int : p = a * h
    OBVIOUS
  <1>2. p \div 100 >= 1
    BY <1>1, BinanceAssumption DEF validate
  <1>3. CASE h >= 0
    <2>1. a * h <= 100 * h
      BY <1>3, ProductBelow
    <2>. QED
      BY <1>1, <2>1
  <1>4. CASE h < 0
    <2>1. h * a <= 0 * a
      BY <1>4, ProductBelow
    <2>. QED
      BY <1>1, <1>2, <2>1
  <1>. QED
    BY <1>3, <1>4

LEMMA UserExplained ==
  ASSUME Typed, market \in {"spot", "futures"}, Remembered, UserOrders
  PROVE  Explained(refusal') \/ UNCHANGED refusal
  <1> DEFINE fresh == saw = <<View>>
             own == command.percent /\ command.amount <= 100
  <1>1. PICK outcome \in Wish : Note("user", outcome.answer, Quoted, fresh, own)
    BY DEF UserOrders
  <1>2. Quoted \in BOOLEAN /\ fresh \in BOOLEAN
    BY DEF Quoted
  <1>3. PICK mine \in BOOLEAN : mine = own
    <2>1. own \in BOOLEAN
      OBVIOUS
    <2>. QED
      BY <2>1
  <1>4. command.percent /\ command.amount <= 100 <=> mine
    BY <1>3
  <1>5. command.amount \in Nat /\ Amount \in Int /\ {"buy", "sell"} = Side
    BY AmountType DEF Typed, Side
  <1>6. fresh /\ command.listed => holds = Position
    <2>1. fresh => saw # <<>> /\ saw[1] = View
      OBVIOUS
    <2>. QED
      BY <2>1 DEF Remembered, Held, Position, View
  <1> HIDE DEF fresh, own
  <1>7. ASSUME outcome.answer = "filtered" PROVE Quoted
    BY <1>5, <1>7, MarketRefused DEF Wish, Unaccepted, Outcome, Remembered
  <1>8. ASSUME outcome.answer = "refused", fresh, mine PROVE Reason
    <2>1. command.listed /\ holds = Position
      BY <1>6, <1>8 DEF Wish, Unaccepted, Outcome
    <2>2. CASE Quoted
      <3>1. /\ command.side = "buy"
            /\ outcome \in CreateOrderMarketQuote("user", "buy", Amount)
        BY <1>4, <1>8, <2>1, <2>2 DEF Wish, Quoted
      <3>2. validate(Amount)
        BY <1>8, <3>1 DEF CreateOrderMarketQuote, Unaccepted, Outcome
      <3>3. Amount = (command.amount * holds.quote) \div 100
        BY <1>4, <1>8, <3>1 DEF Amount
      <3>4. Amount <= Position.quote
        BY <1>4, <1>5, <1>8, <2>1, <3>2, <3>3, TypedFacts, ShareBelow
      <3>. QED
        BY <1>5, <1>8, <3>1, <3>4, QuoteRefused
    <2>3. CASE ~Quoted
      <3>1. command.side = "sell" /\ outcome \in CreateOrderMarket("user", "sell", Amount)
        BY <1>5, <2>1, <2>3 DEF Wish, Quoted, Remembered
      <3>2. validate(Amount)
        BY <1>8, <3>1 DEF CreateOrderMarket, Unaccepted, Outcome
      <3>3. Amount = (command.amount * holds.asset) \div 100
        BY <1>4, <1>8, <3>1 DEF Amount
      <3>4. Amount <= Position.asset
        BY <1>4, <1>5, <1>8, <2>1, <3>2, <3>3, TypedFacts, ShareBelow
      <3>. QED
        BY <1>5, <1>8, <3>1, <3>4, MarketRefused
    <2>. QED
      BY <2>2, <2>3
  <1>. QED
    BY <1>1, <1>2, <1>3, <1>7, <1>8, Noted

(* A step explains the refusal that it notes.                              *)
LEMMA RefusalExplained ==
  ASSUME Typed, market \in {"spot", "futures"}, Remembered, [Next]_vars
  PROVE  Explained(refusal') \/ UNCHANGED refusal
  <1>1. Explained(None)
    BY DEF Explained, None
  <1>2. CASE BotStep
    <2>1. CASE \/ OnCandle \/ OnPartialCandle \/ ReadPosition \/ ScheduleSkips \/ ScheduleEnds
      BY <1>1, <2>1 DEF OnCandle, OnPartialCandle, ReadPosition, ScheduleSkips, ScheduleEnds
    <2>. QED
      BY <1>2, <2>1, CrossEMAExplained, TurtleExplained, OwnExplained, TrailingExplained,
         SellsExplained, OCOSellExplained, OthersExplained DEF BotStep
  <1>3. CASE UserStep
    <2>1. CASE CommandArrives \/ UserReads \/ StartHandle \/ StopHandle
      BY <1>1, <2>1 DEF CommandArrives, UserReads, StartHandle, StopHandle, strategies
    <2>. QED
      BY <1>3, <2>1, UserExplained DEF UserStep
  <1>. QED
    BY <1>2, <1>3 DEF Next, vars, Rest, strategies

-----------------------------------------------------------------------------
(* Remembered is kept.  On the spot market no asset is sold or reserved    *)
(* that is not there.                                                      *)

LEMMA SettledOwned ==
  ASSUME Typed, market = "spot", account["asset"].free >= 0, NEW side, NEW q \in Nat, NEW cost,
         NEW from \in {"free", "lock"}, side = "buy" \/ from = "lock" \/ q <= account["asset"].free
  PROVE  Settled(side, q, cost, from)["asset"].free >= 0
  <1>1. account["asset"] \in [free : Int, lock : Int] /\ account \in Balances /\ fee \in {0, 1}
    BY DEF Typed, Balances, Coin
  <1>2. CASE side = "buy"
    BY <1>1, <1>2 DEF Settled, Balances, Coin
  <1>3. CASE side # "buy"
    BY <1>1, <1>3 DEF Settled, Balances, Coin
  <1>. QED
    BY <1>2, <1>3

LEMMA ReservedOwned ==
  ASSUME Typed, market = "spot", account["asset"].free >= 0, NEW side, NEW q \in Nat, NEW limit,
         side = "buy" \/ q <= account["asset"].free
  PROVE  Reserved(side, q, limit)["asset"].free >= 0
  <1>1. account["asset"] \in [free : Int, lock : Int] /\ account \in Balances
    BY DEF Typed, Balances, Coin
  <1>. QED
    BY <1>1 DEF Reserved, Balances, Coin

Owned(outcome) == outcome.account["asset"].free >= 0

LEMMA MarketOwned ==
  ASSUME Typed, market = "spot", account["asset"].free >= 0, NEW by, NEW side, NEW q \in Int,
         ~Filtered(q), Affordable(side, q, q * price), NEW outcome \in Market(by, side, q)
  PROVE  Owned(outcome)
  <1>1. q \in Nat /\ (side = "buy" \/ q <= account["asset"].free)
    BY BinanceAssumption DEF Filtered, validate, Affordable
  <1>2. outcome.account \in {account, Settled(side, q, q * price, "free")}
    BY DEF Market, Accepted, Outcome
  <1>3. Settled(side, q, q * price, "free")["asset"].free >= 0
    BY <1>1, SettledOwned
  <1>. QED
    BY <1>2, <1>3 DEF Owned

LEMMA UnacceptedOwned ==
  ASSUME account["asset"].free >= 0, NEW answer, NEW outcome \in Unaccepted(answer)
  PROVE  Owned(outcome)
  BY DEF Unaccepted, Outcome, Owned

LEMMA RequestOwned ==
  ASSUME Typed, market = "spot", account["asset"].free >= 0, NEW by, NEW side,
         NEW quantity \in Int, NEW limit, NEW stopLimit,
         NEW outcome \in CreateOrderMarket(by, side, quantity)
                           \cup CreateOrderMarketQuote(by, side, quantity)
                           \cup CreateOrderLimit(by, side, quantity, limit)
                           \cup CreateOrderStop(by, quantity, limit)
                           \cup CreateOrderOCO(by, side, quantity, limit, stopLimit)
  PROVE  Owned(outcome)
  <1> DEFINE q == formatQuantity(quantity)
             m == formatQuantity(q \div price)
  <1>1. q \in Int /\ m \in Int
    <2>1. q \in Int /\ price \in Nat \ {0}
      BY RoundedDown, TypedFacts
    <2>2. q \div price \in Int
      BY <2>1
    <2>. QED
      BY <2>1, <2>2, RoundedDown
  <1>2. ASSUME NEW to, NEW n \in Int, ~Filtered(n), NEW cost, Affordable(to, n, cost), NEW at,
               NEW orders, outcome \in Accepted(Reserved(to, n, at), orders)
        PROVE  Owned(outcome)
    <2>1. n \in Nat /\ (to = "buy" \/ n <= account["asset"].free)
      BY <1>2, BinanceAssumption DEF Filtered, validate, Affordable
    <2>2. outcome.account = Reserved(to, n, at)
      BY <1>2 DEF Accepted, Outcome
    <2>. QED
      BY <2>1, <2>2, ReservedOwned DEF Owned
  <1>3. CASE \E answer : outcome \in Unaccepted(answer)
    BY <1>3, UnacceptedOwned
  <1>4. CASE \E n \in {q, m} : /\ ~Filtered(n) /\ Affordable(side, n, n * price)
                               /\ outcome \in Market(by, side, n)
    BY <1>1, <1>4, MarketOwned
  <1>5. CASE \E to, cost, at, orders :
               /\ ~Filtered(q) /\ Affordable(to, q, cost)
               /\ outcome \in Accepted(Reserved(to, q, at), orders)
    BY <1>1, <1>2, <1>5
  <1>6. m = StepSize * ((q \div price) \div StepSize)
    BY DEF formatQuantity
  <1> HIDE DEF q, m
  <1>7. CASE outcome \in CreateOrderMarket(by, side, quantity)
    BY <1>3, <1>4, <1>7 DEF CreateOrderMarket, Sent, q
  <1>8. CASE outcome \in CreateOrderMarketQuote(by, side, quantity)
    BY <1>3, <1>4, <1>6, <1>8 DEF CreateOrderMarketQuote, Sent, q
  <1>9. CASE outcome \in CreateOrderLimit(by, side, quantity, limit)
    BY <1>3, <1>5, <1>9 DEF CreateOrderLimit, Sent, Resting, q
  <1>10. CASE outcome \in CreateOrderStop(by, quantity, limit)
    BY <1>3, <1>5, <1>10 DEF CreateOrderStop, Sent, Resting, q
  <1>11. CASE outcome \in CreateOrderOCO(by, side, quantity, limit, stopLimit)
    BY <1>3, <1>5, <1>11 DEF CreateOrderOCO, Sent, q
  <1>. QED
    BY <1>7, <1>8, <1>9, <1>10, <1>11

LEMMA OwnedStep ==
  ASSUME Reported, Typed, market = "spot", account["asset"].free >= 0, [Next]_vars
  PROVE  account'["asset"].free >= 0
  <1> DEFINE Request == \E quantity \in Int : \E outcome, by, side, limit, stopLimit :
        /\ outcome \in CreateOrderMarket(by, side, quantity)
                         \cup CreateOrderMarketQuote(by, side, quantity)
                         \cup CreateOrderLimit(by, side, quantity, limit)
                         \cup CreateOrderStop(by, quantity, limit)
                         \cup CreateOrderOCO(by, side, quantity, limit, stopLimit)
        /\ Take(outcome)
  <1>1. CASE Request
    <2>1. \E outcome : Owned(outcome) /\ Take(outcome)
      BY <1>1, RequestOwned
    <2>. QED
      BY <2>1 DEF Owned, Take
  <1>2. CASE UNCHANGED account
    BY <1>2
  <1>3. CASE \E outcome, answer : outcome \in Unaccepted(answer) /\ Take(outcome)
    BY <1>3 DEF Unaccepted, Outcome, Take
  <1>4. CASE ExchangeStep
    <2>1. CASE PriceMoves
      BY <2>1 DEF PriceMoves
    <2>2. ASSUME NEW i \in DOMAIN book, Execute(i, StepSize) \/ Execute(i, book[i].quantity)
          PROVE  account'["asset"].free >= 0
      <3>1. PICK n \in Nat : \E cost : account' = Settled(book[i].side, n, cost, "lock")
        BY <2>2, BinanceAssumption DEF Execute, Reported, Sound
      <3>. QED
        BY <3>1, SettledOwned
    <2>3. ASSUME NEW i \in DOMAIN book, Cancel(i) \/ Expire(i)
          PROVE  account'["asset"].free >= 0
      <3>1. PICK status : End(i, status)
        BY <2>3 DEF Cancel, Expire
      <3>2. account \in Balances /\ account["asset"].free \in Int
        BY DEF Typed, Balances, Coin
      <3>3. CASE book[i].side = "buy"
        BY <3>1, <3>2, <3>3 DEF End, Balances, Coin
      <3>4. CASE book[i].side # "buy"
        <4>1. book[i].quantity - book[i].executed \in Nat
          BY DEF Reported, Sound
        <4>2. account'["asset"].free
                = account["asset"].free + (book[i].quantity - book[i].executed)
          BY <3>1, <3>2, <3>4, <4>1 DEF End, Balances, Coin
        <4>. QED
          BY <3>2, <4>1, <4>2
      <3>. QED
        BY <3>3, <3>4
    <2>. QED
      BY <1>4, <2>1, <2>2, <2>3 DEF ExchangeStep
  <1>5. CASE BotStep
    <2>1. CASE UNCHANGED exchange
      BY <1>2, <2>1 DEF exchange
    <2>2. CASE \/ OnCandle \/ OnPartialCandle \/ ReadPosition \/ ScheduleSkips \/ ScheduleEnds
      BY <2>1, <2>2 DEF OnCandle, OnPartialCandle, ReadPosition, ScheduleSkips, ScheduleEnds
    <2>3. read.asset \in Int /\ Weighted \in Int /\ OCOSize \in Int /\ ScheduledSize \in Int
          /\ read.quote \in Int /\ read.quote \div 2 \in Int
      BY TypedFacts
    <2>4. ASSUME NEW outcome \in CrossEMA \cup Turtle \cup OCOSellBuys \cup OCOSell \cup Trailing
                                    \cup Own,
                 Take(outcome)
          PROVE  Request
      <3> DEFINE Q == {read.asset, read.quote, read.quote \div 2, Weighted, OCOSize}
      <3>1. Q \subseteq Int
        BY <2>3
      <3>2. ASSUME NEW quantity \in Q, NEW by, NEW side, NEW limit, NEW stopLimit,
                   outcome \in CreateOrderMarket(by, side, quantity)
                                 \cup CreateOrderMarketQuote(by, side, quantity)
                                 \cup CreateOrderLimit(by, side, quantity, limit)
                                 \cup CreateOrderStop(by, quantity, limit)
                                 \cup CreateOrderOCO(by, side, quantity, limit, stopLimit)
            PROVE  Request
        BY <2>4, <3>1, <3>2
      <3> HIDE DEF Request
      <3>3. CASE outcome \in CrossEMA \cup OCOSellBuys
        BY <3>2, <3>3 DEF CrossEMA, OCOSellBuys
      <3>4. CASE outcome \in Turtle \cup Trailing
        BY <3>2, <3>4 DEF Turtle, Trailing
      <3>5. CASE outcome \in Own \cup OCOSell
        BY <3>2, <3>5 DEF Own, OCOSell
      <3>. QED
        BY <2>4, <3>3, <3>4, <3>5
    <2>5. CASE CrossEMADecides \/ TurtleDecides \/ OwnDecides \/ TrailingDecides
      <3>1. UNCHANGED exchange \/ \E outcome \in CrossEMA \cup Turtle \cup Trailing \cup Own :
                                    Take(outcome)
        BY <2>5 DEF CrossEMADecides, TurtleDecides, OwnDecides, TrailingDecides, Decide, Nothing
      <3> HIDE DEF Request
      <3>. QED
        BY <1>1, <2>1, <2>4, <3>1
    <2>6. CASE OCOSellDecides \/ OCOSellOffers
      <3>1. UNCHANGED exchange \/ \E outcome \in OCOSellBuys \cup OCOSell : Take(outcome)
        BY <2>6 DEF OCOSellDecides, OCOSellOffers, Nothing
      <3> HIDE DEF Request
      <3>. QED
        BY <1>1, <2>1, <2>4, <3>1
    <2>7. CASE TrailingSells \/ ScheduleOrders
      <3>1. \/ UNCHANGED exchange
            \/ \E quantity \in {read.asset, ScheduledSize} : \E by, side :
                 \E outcome \in CreateOrderMarket(by, side, quantity) : Take(outcome)
        BY <2>7 DEF TrailingSells, ScheduleOrders, Nothing
      <3>. QED
        BY <1>1, <2>1, <2>3, <3>1
    <2>8. CASE RLDecides
      <3>1. \/ UNCHANGED exchange
            \/ \E target \in Target : \E outcome \in Shift(target) : Take(outcome)
        BY <2>8 DEF RLDecides, Decide, Nothing
      <3>. QED
        BY <1>1, <2>1, <3>1, ShiftAmount
    <2>. QED
      BY <1>5, <2>2, <2>5, <2>6, <2>7, <2>8 DEF BotStep
  <1>6. CASE UserStep
    <2>1. CASE CommandArrives \/ UserReads \/ StartHandle \/ StopHandle
      BY <1>2, <2>1 DEF CommandArrives, UserReads, StartHandle, StopHandle, exchange
    <2>2. CASE UserOrders
      <3>1. PICK outcome \in Wish : Take(outcome)
        BY <2>2 DEF UserOrders
      <3>2. Amount \in Int
        BY AmountType
      <3>. QED
        BY <1>1, <1>3, <3>1, <3>2 DEF Wish
    <2>. QED
      BY <1>6, <2>1, <2>2 DEF UserStep
  <1>. QED
    BY <1>2, <1>4, <1>5, <1>6 DEF Next, vars, Connect, Poll, Query, exchange

(* What OCOSell bought is there, if no fee was taken.                      *)
LEMMA BoughtOwned ==
  ASSUME Typed, IsSeq(book), market = "spot", account["asset"].free >= 0, fee = 0,
         NEW outcome \in CreateOrderMarket("bot", "buy", OCOSize),
         NEW i \in DOMAIN outcome.book \ DOMAIN book, outcome.book[i].executed > 0
  PROVE  outcome.account["asset"].free >= formatQuantity(OCOSize)
  <1> DEFINE q == formatQuantity(OCOSize)
             o == Order("bot", "buy", "market", "filled", q, q, q * price, 0, 0)
             n == Order("bot", "buy", "market", "expired", q, 0, 0, 0, 0)
  <1>1. q \in Int
    BY RoundedDown, TypedFacts
  <1>2. CASE \E answer : outcome \in Unaccepted(answer)
    BY <1>2 DEF Unaccepted, Outcome
  <1>3. CASE outcome \in Accepted(account, <<n>>)
    <2>1. outcome.book = book \o <<n>>
      BY <1>3 DEF Accepted, Outcome
    <2>2. n.executed = 0
      BY DEF Order
    <2> HIDE DEF n
    <2>3. (book \o <<n>>)[i] = n
      <3>1. IsSeq(book) /\ IsSeq(<<n>>) /\ i \in DOMAIN (book \o <<n>>) \ DOMAIN book
        BY <2>1, OneIsSeq
      <3>2. i - Len(book) \in DOMAIN <<n>> /\ (book \o <<n>>)[i] = <<n>>[i - Len(book)]
        BY ONLY <3>1, Concatenation
      <3>. QED
        BY <3>2, OneIsSeq
    <2>. QED
      BY <2>1, <2>2, <2>3
  <1>4. CASE outcome \in Accepted(Settled("buy", q, q * price, "free"), <<o>>)
    <2>1. outcome.account = Settled("buy", q, q * price, "free")
      BY <1>4 DEF Accepted, Outcome
    <2>2. account["asset"] \in [free : Int, lock : Int] /\ account \in Balances
      BY DEF Typed, Balances, Coin
    <2> HIDE DEF q
    <2>3. outcome.account["asset"].free = account["asset"].free + q
      BY <1>1, <2>1, <2>2 DEF Settled, Balances, Coin
    <2>. QED
      BY <1>1, <2>2, <2>3 DEF q
  <1>. QED
    BY <1>2, <1>3, <1>4 DEF CreateOrderMarket, Sent, Market

LEMMA RememberedInit == Init => Remembered
  <1> SUFFICES ASSUME Init PROVE Remembered
    OBVIOUS
  <1>1. account["asset"].free = 0 /\ bot = "idle" /\ user = "idle" /\ saw = <<>>
        /\ command.side = "buy"
    BY DEF Init, StrategiesInit, BinanceInit, Coin, NoCommand
  <1>. QED
    BY <1>1 DEF Remembered, Side

LEMMA RememberedStep ==
  ASSUME Scheduling, Reported, Typed, Remembered, market \in {"spot", "futures"}, [Next]_vars
  PROVE  Remembered'
  <1> USE DEF outer, strategies, telegram, progress, client
  <1>1. UNCHANGED market
    BY ClientSteps
  <1>2. market' = "spot" => account'["asset"].free >= 0
    BY <1>1, OwnedStep DEF Remembered
  <1>3. CASE UNCHANGED <<strategies, telegram, fee>>
    BY <1>1, <1>2, <1>3 DEF Remembered, OCOSize
  <1>4. CASE BotStep /\ UNCHANGED <<telegram, running>>
    <2>1. UNCHANGED <<fee, telegram>>
      BY <1>4 DEF BotStep, OnCandle, OnPartialCandle, ReadPosition, CrossEMADecides,
         TurtleDecides, OwnDecides, RLDecides, OCOSellDecides, OCOSellOffers, TrailingDecides,
         TrailingSells, ScheduleSkips, ScheduleOrders, ScheduleEnds, Decide, Nothing, Take,
         exchange
    <2>2. /\ command'.side \in Side /\ (user' # "order" => saw' = <<>>)
          /\ saw' # <<>> /\ command'.listed => holds' = Held(saw'[1].account)
      BY <2>1 DEF Remembered
    <2>3. CASE ReadPosition
      <3>1. bot' = "sell" => strategy' = "trailing"
        BY <2>3 DEF ReadPosition, Typed
      <3>2. bot' \in {"decide", "sell"} /\ strategy' # "rl" /\ view' # <<>> =>
              read' = Held(view'[1].account)
        <4>1. ASSUME bot' \in {"decide", "sell"}, strategy' # "rl"
              PROVE  read' = Position /\ view' = <<View>>
          BY <2>3, <4>1 DEF ReadPosition
        <4>. QED
          BY <4>1 DEF Position, Held, View
      <3>3. bot' # "oco"
        BY <2>3 DEF ReadPosition
      <3>. QED
        BY <1>2, <2>2, <3>1, <3>2, <3>3 DEF Remembered
    <2>4. CASE OCOSellDecides /\ bot' = "oco"
      <3>1. /\ UNCHANGED candle /\ bot' = "oco"
            /\ \E outcome \in OCOSellBuys :
                 /\ Take(outcome) /\ view' = <<[account |-> account', price |-> price]>>
                 /\ bought' = \E i \in DOMAIN outcome.book \ DOMAIN book :
                               outcome.book[i].executed > 0
        BY <2>4 DEF OCOSellDecides
      <3>2. PICK outcome \in OCOSellBuys :
              /\ Take(outcome) /\ view' = <<[account |-> account', price |-> price]>>
              /\ bought' = \E i \in DOMAIN outcome.book \ DOMAIN book :
                            outcome.book[i].executed > 0
        BY <3>1
      <3>3. /\ outcome \in CreateOrderMarket("bot", "buy", OCOSize)
            /\ account' = outcome.account /\ view'[1].account = account'
            /\ OCOSize' = OCOSize
        BY <3>1, <3>2 DEF OCOSellBuys, Take, OCOSize
      <3>4. formatQuantity(OCOSize)' = formatQuantity(OCOSize)
        BY <3>3 DEF formatQuantity
      <3>5. bought' /\ fee' = 0 /\ market' = "spot" =>
              view'[1].account["asset"].free >= formatQuantity(OCOSize)'
        BY <1>1, <2>1, <3>2, <3>3, <3>4, BoughtOwned DEF Remembered, Scheduling
      <3>. QED
        BY <1>2, <2>2, <3>1, <3>5 DEF Remembered
    <2>5. CASE bot' \notin {"decide", "sell", "oco"}
      BY <1>2, <2>2, <2>5 DEF Remembered
    <2>6. \/ ReadPosition \/ (OCOSellDecides /\ bot' = "oco")
          \/ bot' \notin {"decide", "sell", "oco"}
      <3>1. ASSUME NEW name, NEW outcomes, NEW quoted, Decide(name, outcomes, quoted)
            PROVE  bot' \notin {"decide", "sell", "oco"}
        BY <3>1 DEF Decide, Then
      <3>2. CASE \/ CrossEMADecides \/ TurtleDecides \/ OwnDecides \/ RLDecides
                 \/ TrailingDecides
        BY <3>1, <3>2 DEF CrossEMADecides, TurtleDecides, OwnDecides, RLDecides, TrailingDecides
      <3>. QED
        BY <1>4, <3>2 DEF BotStep, OnCandle, OnPartialCandle, OCOSellDecides, OCOSellOffers,
           TrailingSells, ScheduleSkips, ScheduleOrders, ScheduleEnds, Then
    <2>. QED
      BY <2>3, <2>4, <2>5, <2>6
  <1>5. CASE UserStep
    <2>1. UNCHANGED <<strategy, bot, candle, read, view, bought, fee>>
      BY <1>5 DEF UserStep, CommandArrives, UserReads, UserOrders, StartHandle, StopHandle,
         Take, exchange
    <2>2. ASSUME /\ command'.side \in Side /\ (user' # "order" => saw' = <<>>)
                 /\ saw' # <<>> /\ command'.listed => holds' = Held(saw'[1].account)
          PROVE  Remembered'
      BY <1>1, <1>2, <2>1, <2>2 DEF Remembered, OCOSize, formatQuantity
    <2>3. CASE CommandArrives
      <3>1. saw' = <<>> /\ command'.side \in Side
        BY <2>3 DEF CommandArrives, Remembered
      <3>. QED
        BY <2>2, <3>1
    <2>4. CASE UserReads /\ ~Replies
      <3>1. /\ UNCHANGED command /\ saw' = <<View>> /\ user' = "order"
            /\ command.listed => holds' = Position
        BY <2>4 DEF UserReads
      <3>. QED
        BY <2>2, <3>1 DEF Remembered, Held, Position, View
    <2>5. CASE Replies
      BY <2>2, <2>5 DEF Replies, NoCommand, Side
    <2>6. CASE StartHandle \/ StopHandle
      BY <2>2, <2>6 DEF StartHandle, StopHandle, Remembered
    <2>. QED
      BY <1>5, <2>3, <2>4, <2>5, <2>6 DEF UserStep, UserOrders
  <1>. QED
    <2>1. ASSUME ExchangeStep \/ Poll \/ Connect PROVE UNCHANGED fee
      BY <2>1 DEF ExchangeStep, PriceMoves, Execute, Cancel, Expire, Poll, Query, Connect, exchange
    <2>. QED
      BY <1>3, <1>4, <1>5, <2>1 DEF Next, vars, Rest, exchange

(* Whatever the filters, the funds, the prices and the strategy, an order  *)
(* computed from the account is refused only for one of the reasons that   *)
(* RefusalsExplained lists, and a quantity that was checked and rounded is *)
(* never outside the exchange's limits (validate and formatQuantity,       *)
(* binance.go:127-142 and binance_future.go:216-221).                      *)
THEOREM RefusalsHaveReasons ==
  ASSUME Price \subseteq Nat \ {0, 1}
  PROVE  Spec => RefusalsExplained
  <1> DEFINE IInv == /\ Scheduling /\ Typed /\ Reported /\ Remembered
                     /\ market \in {"spot", "futures"}
  <1>1. Init => IInv
    BY SchedulingInit, ReportedInit, RememberedInit DEF Init, StrategiesInit, BinanceInit
  <1>2. IInv /\ [Next]_vars => IInv'
    BY SchedulingStep, ReportedStep, RememberedStep, ClientSteps DEF client
  <1>3. IInv /\ [Next]_vars => [Explained(refusal') \/ UNCHANGED refusal]_vars
    BY RefusalExplained
  <1> HIDE DEF IInv
  <1>. QED
    BY <1>1, <1>2, <1>3, PTL DEF Spec, RefusalsExplained

=============================================================================
