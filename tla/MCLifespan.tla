----------------------------- MODULE MCLifespan -----------------------------
(* Instances of Lifespan for TLC. *)
EXTENDS Lifespan

CONSTANTS hyperdash, btc, eth, sol
=============================================================================
