--------------------------- MODULE MCPaperWallet ---------------------------
(* Small instances of the paper wallet for TLC.  The runs differ in what   *)
(* the clients ask for (Ops, Discipline) and in the bounds.                *)
EXTENDS PaperWallet

CONSTANTS BTC, ETH, USDT, BTCUSDT, ETHUSDT

C(p, low, high, close) == [pair |-> p, low |-> low, high |-> high, close |-> close]

OnePair == {BTCUSDT}
OnePairCoins == {BTC, USDT}
OnePairAsset == [p \in OnePair |-> BTC]
OnePairQuote == [p \in OnePair |-> USDT]

TwoPairs == {BTCUSDT, ETHUSDT}
TwoPairsCoins == {BTC, ETH, USDT}
TwoPairsAsset == [p \in TwoPairs |-> IF p = BTCUSDT THEN BTC ELSE ETH]
TwoPairsQuote == [p \in TwoPairs |-> USDT]

(* A fall of one pair, a candle of it so wide that it triggers both legs   *)
(* of an OCO, and a candle of the other pair, which shares the quote coin. *)
LongCandles == {C(BTCUSDT, 1, 1, 1), C(BTCUSDT, 1, 3, 2), C(ETHUSDT, 1, 1, 1)}
LongPrices == {1, 3}
LongSizes == {1, 2}
LongOps == ({"limit", "market"} \X Side)
             \cup {<<"oco", "SELL">>, <<"stop", "SELL">>, <<"cancel", "BUY">>}
LongFree == [c \in TwoPairsCoins |-> IF c = USDT THEN 4 ELSE IF c = BTC THEN 2 ELSE 0]

(* Prices in coarse ticks: rounding a mean price is small beside a trade.  *)
ShortCandles == {C(BTCUSDT, x, x, x) : x \in {60, 120}}
ShortPrices == {60, 180}
ShortSizes == {0, 1, 2, 3}
ShortOps == ({"market", "marketQuote"} \X Side)
ShortFree == [c \in OnePairCoins |-> IF c = BTC THEN 1 ELSE 240]

BuyOcoCandles == {C(BTCUSDT, 1, 1, 1), C(BTCUSDT, 1, 3, 2)}
BuyOcoOps == {<<"oco", "BUY">>}
BuyOcoFree == [c \in OnePairCoins |-> IF c = BTC THEN 0 ELSE 4]
=============================================================================
