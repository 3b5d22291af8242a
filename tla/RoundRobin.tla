----------------------------- MODULE RoundRobin -----------------------------
(***************************************************************************)
(* What a pipeline promises about its input ports: the enabled ports are   *)
(* served in cyclic order of their number, one burst per turn, and ports   *)
(* may be enabled and disabled at any time between two turns.              *)
(***************************************************************************)
EXTENDS Integers

CONSTANTS NPorts,      \* number of port positions (bits of the port mask)
          Nobody       \* nobody's turn: no port is enabled

VARIABLES enabled,     \* the set of enabled ports
          turn         \* the port to be served next, or Nobody

Ports == 0 .. NPorts - 1

(***************************************************************************)
(* The number of steps from port p forward to port q, between 1 and NPorts *)
(* (a port is a full turn away from itself).                               *)
(***************************************************************************)
Distance(p, q) == IF q > p THEN q - p ELSE q - p + NPorts

(***************************************************************************)
(* q is the first port of S met when walking forward from p.               *)
(***************************************************************************)
IsSuccessor(S, p, q) ==
    /\ q \in S
    /\ \A r \in S : Distance(p, q) <= Distance(p, r)

Init == enabled = {} /\ turn = Nobody

Enable(p) ==
    /\ enabled' = enabled \cup {p}
    /\ turn' = IF enabled = {} THEN p ELSE turn

Disable(p) ==
    /\ enabled' = enabled \ {p}
    /\ \/ enabled \ {p} = {} /\ turn' = Nobody
       \/ turn # p /\ turn' = turn
       \/ turn = p /\ \E q \in Ports : IsSuccessor(enabled \ {p}, p, q) /\ turn' = q

Serve ==
    /\ turn # Nobody
    /\ \E q \in Ports : IsSuccessor(enabled, turn, q) /\ turn' = q
    /\ UNCHANGED enabled

Next == (\E p \in Ports : Enable(p) \/ Disable(p)) \/ Serve

Spec == Init /\ [][Next]_<<enabled, turn>>
=============================================================================
