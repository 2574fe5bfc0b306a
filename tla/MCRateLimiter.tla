--------------------------- MODULE MCRateLimiter ---------------------------
(* One address, seen by two processes whose clocks differ by one.            *)
EXTENDS RateLimiter, TLC

CONSTANTS ip, p, q

MCAsks == {[key |-> ip, process |-> p, cost |-> 1],
           [key |-> ip, process |-> q, cost |-> 2]}
MCLimit == ip :> 2
MCWindow == ip :> 4
MCAhead == p :> 0 @@ q :> 1
MCSymmetry == Permutations(Checks)
=============================================================================
