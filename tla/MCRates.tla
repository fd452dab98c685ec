------------------------------ MODULE MCRates ------------------------------
(***************************************************************************)
(* RatesCache for TLC: two assets that share a ticker, a fiat currency,    *)
(* and an asset without a ticker.                                          *)
(***************************************************************************)
EXTENDS RatesCache, TLC

CONSTANTS btc, tbtc, usd, nft, b, u, day

MCLists == {{btc, tbtc, usd, nft}}
MCTickerOf == btc :> b @@ tbtc :> b @@ usd :> u @@ nft :> None
=============================================================================
