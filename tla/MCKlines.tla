------------------------------ MODULE MCKlines ------------------------------
(* A small instance of the data feed on Binance for TLC.                   *)
EXTENDS Klines

CONSTANTS bot, chart
=============================================================================
