-------------------------- MODULE DominanceAlerts --------------------------
(***************************************************************************)
(* What the alerts of a coin promise their reader: dominance of one side   *)
(* is announced once, then its end, and only then can another dominance be *)
(* announced.  There is no second "enter" in a row, no "exit" of a zone    *)
(* that was not announced, and no change of side without an "exit".        *)
(***************************************************************************)
EXTENDS PositionSkew

CONSTANT Coins

VARIABLES
  last,     \* last[c]: the latest alert about coin c
  parity    \* parity[c]: flips with every alert about c, so that a repeated one shows

Announce(c, head) ==
  /\ last' = [last EXCEPT ![c] = head]
  /\ parity' = [parity EXCEPT ![c] = 1 - @]

Enter(c, zone) ==
  /\ last[c].direction = "exit"
  /\ Announce(c, [zone |-> zone, direction |-> "enter"])

Exit(c) ==
  /\ last[c].direction = "enter"
  /\ Announce(c, [zone |-> last[c].zone, direction |-> "exit"])

Init == last = [c \in Coins |-> Quiet] /\ parity = [c \in Coins |-> 0]

Next == \E c \in Coins : Exit(c) \/ \E zone \in SkewZone \ {"neutral"} : Enter(c, zone)

Spec == Init /\ [][Next]_<<last, parity>>
=============================================================================
