----------------------------- MODULE MCDashboard -----------------------------
(* Instances of Dashboard for TLC. *)
EXTENDS Dashboard, TLC

CONSTANTS btc, w1, w2

OneCoin == <<btc>>

\* Both sides at the minimum of 3 and more, long below it, flat.
EverySide == {-5, 0, 2, 5}

WalletSymmetry == Permutations(Wallets)
=============================================================================
