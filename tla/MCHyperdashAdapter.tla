------------------------- MODULE MCHyperdashAdapter -------------------------
(* Instances of HyperdashAdapter for TLC. *)
EXTENDS HyperdashAdapter, TLC

CONSTANTS btc, eth, w1, w2

TwoCoins     == <<btc, eth>>
RepeatedCoin == <<btc, btc>>     \* HYPERDASH_WATCH_COINS=BTC,btc

WalletSymmetry == Permutations(Wallets)

\* Around MinPositionUsd = 3: 5 against 2 is 71%, inside the hysteresis band; 6
\* against 2 is exactly 75%; 2 is below the minimum, kept while its wallet is tracked.
BandExposures  == {-5, -2, 0, 5, 6}
\* For questions of which request fails: one long, one short, flat.
PlainExposures == {-5, 0, 5}
LongOrFlat     == {0, 5}
=============================================================================
