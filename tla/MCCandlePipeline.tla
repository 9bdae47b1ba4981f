-------------------------- MODULE MCCandlePipeline --------------------------
(* Small instances of the candle pipeline for TLC.                         *)
EXTENDS CandlePipeline

CONSTANTS A, B

TwoPairs == {A, B}
RankAB == [p \in TwoPairs |-> IF p = A THEN 1 ELSE 2]

C(p, n, time, updated, complete) ==
  [pair |-> p, n |-> n, time |-> time, updated |-> updated, complete |-> complete]

(* A resampled CSV feed: partial candles of one period share its time and  *)
(* differ in their update time.  The second pair has a period less.        *)
CsvFeed == [p \in TwoPairs |->
  IF p = A THEN <<C(A, 1, 1, 1, FALSE), C(A, 2, 1, 2, TRUE),
                  C(A, 3, 3, 3, FALSE), C(A, 4, 3, 4, TRUE)>>
           ELSE <<C(B, 1, 1, 1, FALSE), C(B, 2, 1, 2, TRUE), C(B, 3, 3, 3, TRUE)>>]

(* A websocket feed: all updates of one period have its time.              *)
SocketFeed == [p \in TwoPairs |->
  IF p = A THEN <<C(A, 2, 2, 2, FALSE), C(A, 3, 2, 2, TRUE), C(A, 4, 3, 3, TRUE)>>
           ELSE <<C(B, 2, 2, 2, TRUE), C(B, 3, 3, 3, TRUE)>>]

OneEach == <<C(A, 1, 1, 1, TRUE), C(B, 1, 1, 1, TRUE)>>

ThreeMarkets ==
  {[warm |-> <<>>, feed |-> CsvFeed, warmupPeriod |-> 1, highFrequency |-> TRUE,
    backtest |-> TRUE],
   [warm |-> OneEach, feed |-> SocketFeed, warmupPeriod |-> 1, highFrequency |-> FALSE,
    backtest |-> FALSE],
   [warm |-> OneEach, feed |-> SocketFeed, warmupPeriod |-> 2, highFrequency |-> TRUE,
    backtest |-> FALSE]}

=============================================================================
