---------------------------- MODULE PositionSkew ----------------------------
(***************************************************************************)
(* LONG/SHORT dominance of one coin (ingestion/position_skew.py): the      *)
(* shares of the two sides, and the zone they lead to, with hysteresis     *)
(* between 70% and 75%.                                                    *)
(*                                                                         *)
(* Amounts are whole dollars.  A share is the fraction side/whole and is   *)
(* compared with a threshold by cross-multiplication.  The code divides    *)
(* doubles; the two agree except for a share that differs from a           *)
(* threshold by less than the rounding of one division.                    *)
(***************************************************************************)
EXTENDS Integers

SkewZone == {"neutral", "long_dominant", "short_dominant"}

DOMINANT_THRESHOLD == 75   \* percent
EXIT_THRESHOLD     == 70   \* percent

\* Both shares, over a common denominator; 0% each when nothing is held.
compute_skew(long_usd, short_usd) ==
  IF long_usd + short_usd <= 0
  THEN [long |-> 0, short |-> 0, whole |-> 1]
  ELSE [long |-> long_usd, short |-> short_usd, whole |-> long_usd + short_usd]

Dominates(side, whole) == 100 * side > DOMINANT_THRESHOLD * whole
Faded(side, whole)     == 100 * side < EXIT_THRESHOLD * whole

\* Mutant: a copied line left on the wrong side.
OwnLongOnly(zone, skew) == skew.long

\* The side a dominant zone is about.
Own(zone, skew) == IF zone = "long_dominant" THEN skew.long ELSE skew.short

next_zone(current, skew) ==
  IF current = "neutral"
  THEN IF Dominates(skew.long, skew.whole) THEN "long_dominant"
       ELSE IF Dominates(skew.short, skew.whole) THEN "short_dominant"
       ELSE "neutral"
  ELSE IF Faded(Own(current, skew), skew.whole) THEN "neutral" ELSE current

\* Mutant: the exit is reported under the new zone instead of the one left.
AlertHeadNewZone(old, new) ==
  [zone |-> new, direction |-> IF new = "neutral" THEN "exit" ELSE "enter"]

\* What a change of zone announces: an exit names the zone that was left.
AlertHead(old, new) ==
  IF new = "neutral" THEN [zone |-> old, direction |-> "exit"]
                     ELSE [zone |-> new, direction |-> "enter"]

\* The state of a coin about which nothing was announced yet.
Quiet == [zone |-> "neutral", direction |-> "exit"]

AlertHeads == [zone : SkewZone, direction : {"enter", "exit"}]
=============================================================================
