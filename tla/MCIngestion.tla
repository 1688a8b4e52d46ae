----------------------------- MODULE MCIngestion -----------------------------
(* Instances of Ingestion for TLC. *)
EXTENDS Ingestion

CONSTANTS btc, eth, w1

RepeatedCoin == <<btc, btc>>     \* HYPERDASH_WATCH_COINS=BTC,btc

\* A short, flat, and a long that only counts while its wallet is tracked.
Shifting == {-5, 0, 2}
=============================================================================
