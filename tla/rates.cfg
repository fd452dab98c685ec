SPECIFICATION FairSpec
CONSTANTS
    btc = btc  tbtc = tbtc  usd = usd  nft = nft
    b = b  u = u  day = day
    r1 = r1  r2 = r2
    None = None
    Assets = {btc, tbtc, usd, nft}
    HistoryAssets = {btc, nft}
    AssetLists <- MCLists
    Tickers = {b, u}
    TickerOf <- MCTickerOf
    Usd = u
    Periods = {day}
    Requests = {r1, r2}
    Ttl = 1
    Interval = 1
    MaxAge = 1
    MaxTime = 2
INVARIANTS TypeOK StalenessBounded RatesAreRight
PROPERTY RequestsAreAnswered
