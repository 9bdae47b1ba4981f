--------------------------- MODULE CandlePipeline ---------------------------
(***************************************************************************)
(* The way of a candle from the exchange to the strategy: the data feed    *)
(* (azbot/exchange/exchange.go), the bot's priority queue with its PopLock *)
(* (azbot/model/priorityqueue.go), the processing loops (azbot/azbot.go)   *)
(* and the strategy controller (azbot/strategy/controller.go).             *)
(*                                                                         *)
(* Live, each feed's goroutine pushes candles, each Push starts a          *)
(* goroutine per PopLock callback, which pops the least candle and offers  *)
(* it on a channel, and Run receives.  In a backtest Run waits for all     *)
(* feeds to end and pops until the queue is empty.                         *)
(*                                                                         *)
(* A candle is its place in the order of candles and whether it is         *)
(* complete; n tells two updates of one period apart.  Prices and          *)
(* metadata are left out, and so is what strategies do with a candle.      *)
(***************************************************************************)
EXTENDS Naturals, SequencesExt, FiniteSetsExt

CONSTANTS
  Pair,
  Rank,     \* the order of the pairs' names
  Markets   \* what a bot may be set up for, see MarketAssumption

Candle == [pair : Pair, n : Nat, time : Nat, updated : Nat, complete : BOOLEAN]

ASSUME PairAssumption == Rank \in [Pair -> Nat] /\ IsFiniteSet(Pair)

(* What preload fetches, pair after pair, what each pair's feed delivers   *)
(* afterwards, in this order, and what the bot and its strategy are.       *)
ASSUME MarketAssumption ==
  \A m \in Markets :
    /\ m.warm \in Seq(Candle) /\ m.feed \in [Pair -> Seq(Candle)]
    /\ \A p \in Pair : \A i \in DOMAIN m.feed[p] : m.feed[p][i].pair = p
    /\ m.warmupPeriod \in Nat /\ m.highFrequency \in BOOLEAN /\ m.backtest \in BOOLEAN

(* A feed delivers no candle twice, none that was preloaded, and completes *)
(* a period once.                                                          *)
ASSUME OnceAssumption ==
  \A m \in Markets : \A p \in Pair : \A i \in DOMAIN m.feed[p] :
    /\ m.feed[p][i] \notin ToSet(m.warm)
    /\ \A j \in DOMAIN m.feed[p] : i # j =>
         /\ m.feed[p][i] # m.feed[p][j]
         /\ m.feed[p][i].complete /\ m.feed[p][j].complete =>
              m.feed[p][i].time # m.feed[p][j].time

VARIABLES
  market,      \* the setup
  queue,       \* priorityQueueCandle
  fed,         \* how many candles each feed delivered
  registered,  \* whether PopLock's callback is registered
  early,       \* history: how many candles were pushed before it was
  notifying,   \* how many notify goroutines have yet to pop
  offered,     \* the candles popped by goroutines that wait to send them
  run,         \* where Run is
  warm,        \* the candles preload has yet to process
  rows,        \* the data frame of each pair: the candle each row came from
  ran,         \* history: the times for which Strategy.OnCandle ran
  lastPrice,   \* orderController.lastPrice: the time of the candle it is from
  done         \* history: the candles processed, in this order

bot == <<queue, fed, registered, early, notifying, offered, run, warm, rows, ran, lastPrice, done>>

vars == <<market, bot>>

Feed == market.feed
Backtest == market.backtest
WarmupPeriod == market.warmupPeriod
HighFrequency == market.highFrequency

(* Candle.Less                                                             *)
Earlier(c, d) ==
  \/ c.time < d.time
  \/ c.time = d.time /\ c.updated < d.updated
  \/ c.time = d.time /\ c.updated = d.updated /\ Rank[c.pair] < Rank[d.pair]

TotalOf(m) == FoldLeft(LAMBDA sum, p : sum + Len(m.feed[p]), 0, SetToSeq(Pair))

Total == TotalOf(market)

FeedCandles == UNION {ToSet(m.feed[p]) : m \in Markets, p \in Pair}

MaxTotal == Max({TotalOf(m) : m \in Markets})

Q == INSTANCE PriorityQueue WITH
  Item <- FeedCandles, Less <- Earlier, MaxInitial <- 0, MaxLength <- MaxTotal, data <- queue

(* Run preloads unless it runs a backtest.                                 *)
Init ==
  /\ market \in Markets
  /\ queue = Q!FromSlice(<<>>) /\ fed = [p \in Pair |-> 0]
  /\ registered = FALSE /\ early = 0 /\ notifying = 0 /\ offered = {}
  /\ run = "preload"
  /\ warm = IF Backtest THEN <<>> ELSE market.warm
  /\ rows = [p \in Pair |-> <<>>] /\ ran = [p \in Pair |-> <<>>]
  /\ lastPrice = [p \in Pair |-> 0] /\ done = <<>>

-----------------------------------------------------------------------------
(* The strategy controller.                                                *)

(* updateDataFrame: a candle of the last row's time takes its place.       *)
UpdateDataFrame(frame, c) ==
  IF frame # <<>> /\ Last(frame).time = c.time THEN Append(Front(frame), c)
                                                ELSE Append(frame, c)

OnPartialCandle(frame, c) ==
  IF ~c.complete /\ Len(frame) >= WarmupPeriod /\ HighFrequency
    THEN UpdateDataFrame(frame, c) ELSE frame

(* Mutant: the guard is missing.                                           *)
LateMutant(frame, c) == FALSE

(* The guard of Controller.OnCandle.                                       *)
Late(frame, c) == frame # <<>> /\ c.time < Last(frame).time

(* A strategy is started when its pair was preloaded.                      *)
Runs(frame, c) ==
  c.complete /\ ~Late(frame, c) /\ run # "preload"
    /\ Len(UpdateDataFrame(frame, c)) >= WarmupPeriod

(* What processCandle and backtestCandles do with a candle.                *)
StrategyGets(c) ==
  LET p == c.pair
      frame == OnPartialCandle(rows[p], c)
  IN  /\ rows' = [rows EXCEPT ![p] =
                    IF c.complete /\ ~Late(frame, c) THEN UpdateDataFrame(frame, c) ELSE frame]
      /\ ran' = IF Runs(frame, c) THEN [ran EXCEPT ![p] = Append(@, c.time)] ELSE ran
      /\ done' = Append(done, c)

(* ... and, live, the order controller learns the last price.              *)
processCandle(c) ==
  /\ StrategyGets(c)
  /\ lastPrice' = IF c.complete THEN [lastPrice EXCEPT ![c.pair] = c.time] ELSE lastPrice

-----------------------------------------------------------------------------
(* The data feed and the queue.                                            *)

(* Mutant: a push onto a queue that is not empty wakes nobody.             *)
NotifiesMutant == registered /\ queue = <<>>

(* Whether Push finds a callback to start.                                 *)
Notifies == registered

(* One turn of a feed's goroutine: the subscriber is AzBot.onCandle.       *)
FeedCandle(p) ==
  /\ run # "preload"
  /\ fed[p] < Len(Feed[p])
  /\ Q!Push(Feed[p][fed[p] + 1])
  /\ fed' = [fed EXCEPT ![p] = @ + 1]
  /\ notifying' = notifying + (IF Notifies THEN 1 ELSE 0)
  /\ early' = early + (IF registered THEN 0 ELSE 1)
  /\ UNCHANGED <<registered, offered, run, warm, rows, ran, lastPrice, done>>

(* The goroutine of a PopLock callback pops, and waits for a receiver.     *)
NotifyPops(c) ==
  /\ notifying > 0
  /\ Q!Pop(c)
  /\ notifying' = notifying - 1
  /\ offered' = offered \cup {c}
  /\ UNCHANGED <<fed, registered, early, run, warm, rows, ran, lastPrice, done>>

-----------------------------------------------------------------------------
(* AzBot.Run                                                               *)

Preload ==
  /\ run = "preload" /\ warm # <<>>
  /\ processCandle(Head(warm))
  /\ warm' = Tail(warm)
  /\ UNCHANGED <<queue, fed, registered, early, notifying, offered, run>>

(* dataFeed.Start launches the feeds; in a backtest it waits for their end.*)
StartFeeds ==
  /\ run = "preload" /\ warm = <<>>
  /\ run' = IF Backtest THEN "load" ELSE "pop"
  /\ UNCHANGED <<queue, fed, registered, early, notifying, offered, warm, rows, ran,
                 lastPrice, done>>

PopLock ==
  /\ run = "pop"
  /\ registered' = TRUE
  /\ run' = "receive"
  /\ UNCHANGED <<queue, fed, early, notifying, offered, warm, rows, ran, lastPrice, done>>

(* processCandles receives from any of the waiting goroutines.             *)
Receive(c) ==
  /\ run = "receive" /\ c \in offered
  /\ offered' = offered \ {c}
  /\ processCandle(c)
  /\ UNCHANGED <<queue, fed, registered, early, notifying, run, warm>>

(* Mutant: the first feed that ends ends the wait.                         *)
LoadedMutant == \E p \in Pair : fed[p] = Len(Feed[p])

(* The wait group: every feed's channel was closed.                        *)
Loaded == \A p \in Pair : fed[p] = Len(Feed[p])

BacktestBegins ==
  /\ run = "load" /\ Loaded
  /\ run' = "backtest"
  /\ UNCHANGED <<queue, fed, registered, early, notifying, offered, warm, rows, ran,
                 lastPrice, done>>

BacktestCandle(c) ==
  /\ run = "backtest" /\ Q!Pop(c)
  /\ StrategyGets(c)
  /\ UNCHANGED <<fed, registered, early, notifying, offered, run, warm, lastPrice>>

BacktestEnds ==
  /\ run = "backtest" /\ queue = <<>>
  /\ run' = "returned"
  /\ UNCHANGED <<queue, fed, registered, early, notifying, offered, warm, rows, ran,
                 lastPrice, done>>

Main == Preload \/ StartFeeds \/ PopLock \/ BacktestBegins \/ BacktestEnds
          \/ (\E c \in offered : Receive(c))
          \/ (queue # <<>> /\ BacktestCandle(Head(queue)))

Notify == queue # <<>> /\ NotifyPops(Head(queue))

Next == UNCHANGED market /\ (Main \/ Notify \/ \E p \in Pair : FeedCandle(p))

Spec == Init /\ [][Next]_vars

(* Feeds deliver what they have, the goroutines run, and a goroutine that  *)
(* waits to send is not passed over forever.                               *)
Fairness ==
  /\ WF_bot(Main) /\ WF_bot(Notify)
  /\ \A p \in Pair : WF_bot(FeedCandle(p))
  /\ \A c \in FeedCandles : SF_bot(Receive(c))

FairSpec == Spec /\ Fairness

-----------------------------------------------------------------------------
(* Properties.                                                             *)

Delivered == UNION {{Feed[p][i] : i \in 1..fed[p]} : p \in Pair}

Occurrences(s, c) == Cardinality({i \in DOMAIN s : s[i] = c})

(* The queue is a heap, and what a loop or a goroutine pops is a least     *)
(* candle of it.                                                           *)
Abstract == INSTANCE LeastFirst WITH
  Item <- FeedCandles, Less <- Earlier, content <- ToBag(queue)

PopsTheLeast == Abstract!Spec

(* Each candle a feed delivered is in the queue, on offer or processed,    *)
(* and in one of these places once: the goroutines that pop and send       *)
(* neither lose nor duplicate a candle.                                    *)
NothingLostOrTwice ==
  \A c \in Delivered :
    Occurrences(queue, c) + Occurrences(done, c) + (IF c \in offered THEN 1 ELSE 0) = 1

(* Live, the queue holds one candle for each goroutine that has yet to     *)
(* pop, so none of them gets nil (which processCandles could not convert   *)
(* to a candle), and besides them as many as were pushed before PopLock:   *)
(* the bot stays that far behind the market.                               *)
Backlog == ~Backtest => Len(queue) = notifying + early

(* A backtest processes the candles of all pairs in chronological order,   *)
(* although the feeds deliver them in any interleaving.                    *)
Chronological ==
  Backtest => \A i, j \in DOMAIN done : i < j => ~Earlier(done[j], done[i])

StrictlyAscending(s) == \A i \in 2..Len(s) : s[i - 1] < s[i]

(* A data frame's rows, and the candles its strategy trades on, are in the *)
(* order of time: always in a backtest, and live, where the goroutines     *)
(* deliver out of order, for strategies that ignore partial candles.       *)
Ascending ==
  Backtest \/ ~HighFrequency =>
    \A p \in Pair :
      /\ StrictlyAscending(ran[p])
      /\ StrictlyAscending([i \in DOMAIN rows[p] |-> rows[p][i].time])

(* Strategies see time go forward: a backtest's candles of all pairs, and  *)
(* the rows of a data frame.                                               *)
InOrder == Chronological /\ Ascending

(* A backtest ends, and then every candle of every feed was processed.     *)
BacktestReturns ==
  Backtest ~> run = "returned" /\ Len(done) = Total

(* Live, a candle that was delivered is processed in the end, unless some  *)
(* candle was pushed before PopLock registered its callback.               *)
ProcessedUnlessEarly ==
  \A c \in FeedCandles : c \in Delivered ~> early > 0 \/ c \in ToSet(done)

=============================================================================
