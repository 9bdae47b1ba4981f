SPECIFICATION Spec
CHECK_DEADLOCK FALSE
CONSTANTS
  BTC = BTC
  ETH = ETH
  USDT = USDT
  BTCUSDT = BTCUSDT
  ETHUSDT = ETHUSDT
  Coin <- OnePairCoins
  BaseCoin = USDT
  Pair <- OnePair
  AssetOf <- OnePairAsset
  QuoteOf <- OnePairQuote
  Candle <- ShortCandles
  Sizes <- ShortSizes
  Prices <- ShortPrices
  Ops <- ShortOps
  Discipline = "short"
  InitialFree <- ShortFree
  MaxOrders = 4
  MaxCandles = 3
PROPERTIES
  MarketIsNeutral
