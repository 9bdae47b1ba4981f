SPECIFICATION Spec
CHECK_DEADLOCK FALSE
CONSTANTS
  BTC = BTC
  ETH = ETH
  USDT = USDT
  BTCUSDT = BTCUSDT
  ETHUSDT = ETHUSDT
  Coin <- OnePairCoins
  BaseCoin = USDT
  Pair <- OnePair
  AssetOf <- OnePairAsset
  QuoteOf <- OnePairQuote
  Candle <- BuyOcoCandles
  Sizes <- LongSizes
  Prices <- LongPrices
  Ops <- BuyOcoOps
  Discipline = "any"
  InitialFree <- BuyOcoFree
  MaxOrders = 1
  MaxCandles = 2
INVARIANTS
  GroupIsCancelled
