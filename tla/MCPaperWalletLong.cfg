SPECIFICATION Spec
CHECK_DEADLOCK FALSE
CONSTANTS
  BTC = BTC
  ETH = ETH
  USDT = USDT
  BTCUSDT = BTCUSDT
  ETHUSDT = ETHUSDT
  Coin <- TwoPairsCoins
  BaseCoin = USDT
  Pair <- TwoPairs
  AssetOf <- TwoPairsAsset
  QuoteOf <- TwoPairsQuote
  Candle <- LongCandles
  Sizes <- LongSizes
  Prices <- LongPrices
  Ops <- LongOps
  Discipline = "long"
  InitialFree <- LongFree
  MaxOrders = 2
  MaxCandles = 3
INVARIANTS
  TypeOK
  NoOverdraft
  OCOExclusive
  LockIsReservations
  Conserved
PROPERTIES
  NoRevival
