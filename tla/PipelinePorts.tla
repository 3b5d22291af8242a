---------------------------- MODULE PipelinePorts ----------------------------
(***************************************************************************)
(* The input ports of an rte_pipeline: the bit mask of the enabled ports,  *)
(* the circular chain that links them (rte_port_in.next) and the port that *)
(* rte_pipeline_run serves next (port_in_next).  Enabling and disabling    *)
(* splice the chain at the neighbours that rte_mask_get_prev and           *)
(* rte_mask_get_next compute by rotating the mask.                         *)
(*                                                                         *)
(* A uint64_t mask is the set of its one bits, with Width bits for 64.     *)
(***************************************************************************)
EXTENDS Integers

CONSTANTS Width,        \* bits of enabled_port_in_mask
          NumPortsIn,   \* num_ports_in: ports that were created
          NULL          \* the null pointer

ASSUME WidthAssumption == Width \in Nat \ {0}
ASSUME NumPortsInAssumption == NumPortsIn \in 1 .. Width
ASSUME NullAssumption == NULL \notin Int

VARIABLES enabled_port_in_mask,
          next,         \* rte_port_in.next of every port
          port_in_next

vars == <<enabled_port_in_mask, next, port_in_next>>

Bits == 0 .. Width - 1
Ports == 0 .. NumPortsIn - 1

LowestBit(m)  == CHOOSE b \in m : \A c \in m : b <= c
HighestBit(m) == CHOOSE b \in m : \A c \in m : b >= c

ShiftLeft(m, n)  == {b \in Bits : b - n \in m}
ShiftRight(m, n) == {b \in Bits : b + n \in m}

(***************************************************************************)
(* x & 0x3F for a difference or a sum of two bit positions.                *)
(***************************************************************************)
Wrap(x) == IF x < 0 THEN x + Width ELSE IF x >= Width THEN x - Width ELSE x

rte_mask_get_next(mask, pos) ==
    LET mask_rot == ShiftLeft(mask, Width - 1 - pos)
                      \cup ShiftRight(mask, Wrap(pos + 1))
    IN  Wrap(LowestBit(mask_rot) - (Width - 1 - pos))

rte_mask_get_prev(mask, pos) ==
    LET mask_rot == ShiftRight(mask, pos) \cup ShiftLeft(mask, Wrap(Width - pos))
    IN  Wrap(HighestBit(mask_rot) + pos)

-----------------------------------------------------------------------------
Init ==
    /\ enabled_port_in_mask = {}
    /\ next = [p \in Ports |-> NULL]
    /\ port_in_next = NULL

\* Faulty variant: the predecessor is not linked to the new port.
enable_without_relink(port) ==
    /\ port \notin enabled_port_in_mask
    /\ enabled_port_in_mask' = enabled_port_in_mask \cup {port}
    /\ LET mask == enabled_port_in_mask \cup {port}
       IN  /\ next' = [next EXCEPT ![port] = rte_mask_get_next(mask, port)]
           /\ port_in_next' = IF mask = {port} THEN port ELSE port_in_next

\* Faulty variant: the new port always jumps the queue.
enable_takes_turn(port) ==
    /\ port \notin enabled_port_in_mask
    /\ enabled_port_in_mask' = enabled_port_in_mask \cup {port}
    /\ LET mask == enabled_port_in_mask \cup {port}
       IN  /\ next' = [next EXCEPT ![rte_mask_get_prev(mask, port)] = port,
                                   ![port] = rte_mask_get_next(mask, port)]
           /\ port_in_next' = port

(***************************************************************************)
(* A port that is already enabled is left alone.  In a chain of one, prev  *)
(* and next are the port itself, and the second assignment wins.           *)
(***************************************************************************)
rte_pipeline_port_in_enable(port) ==
    /\ port \notin enabled_port_in_mask
    /\ enabled_port_in_mask' = enabled_port_in_mask \cup {port}
    /\ LET mask == enabled_port_in_mask \cup {port}
       IN  /\ next' = [next EXCEPT ![rte_mask_get_prev(mask, port)] = port,
                                   ![port] = rte_mask_get_next(mask, port)]
           /\ port_in_next' = IF mask = {port} THEN port ELSE port_in_next

\* Faulty variant: the turn stays with the port that was just disabled.
disable_keeps_turn(port) ==
    /\ port \in enabled_port_in_mask
    /\ enabled_port_in_mask' = enabled_port_in_mask \ {port}
    /\ LET mask == enabled_port_in_mask \ {port}
       IN  \/ mask = {} /\ port_in_next' = NULL /\ UNCHANGED next
          \/ /\ mask # {}
             /\ next' = [next EXCEPT ![rte_mask_get_prev(mask, port)] =
                                          rte_mask_get_next(mask, port)]
             /\ UNCHANGED port_in_next

(***************************************************************************)
(* The disabled port keeps its own stale next pointer.                     *)
(***************************************************************************)
rte_pipeline_port_in_disable(port) ==
    /\ port \in enabled_port_in_mask
    /\ enabled_port_in_mask' = enabled_port_in_mask \ {port}
    /\ LET mask == enabled_port_in_mask \ {port}
           port_next == rte_mask_get_next(mask, port)
       IN  \/ /\ mask = {}
              /\ port_in_next' = NULL
              /\ UNCHANGED next
           \/ /\ mask # {}
              /\ next' = [next EXCEPT ![rte_mask_get_prev(mask, port)] = port_next]
              /\ port_in_next' = IF port = port_in_next THEN port_next
                                                        ELSE port_in_next

(***************************************************************************)
(* One call of rte_pipeline_run, with or without packets: whatever happens *)
(* to the burst, the turn passes to the next port of the chain.  With no   *)
(* port enabled the call returns at once.                                  *)
(***************************************************************************)
rte_pipeline_run ==
    /\ port_in_next # NULL
    /\ port_in_next' = next[port_in_next]
    /\ UNCHANGED <<enabled_port_in_mask, next>>

Next ==
    \/ \E port \in Ports : rte_pipeline_port_in_enable(port)
    \/ \E port \in Ports : rte_pipeline_port_in_disable(port)
    \/ rte_pipeline_run

(***************************************************************************)
(* The pipeline's thread calls rte_pipeline_run in an endless loop.        *)
(***************************************************************************)
Spec == Init /\ [][Next]_vars /\ WF_vars(rte_pipeline_run)

-----------------------------------------------------------------------------
TypeOK ==
    /\ enabled_port_in_mask \in SUBSET Ports
    /\ next \in [Ports -> Ports \cup {NULL}]
    /\ port_in_next \in Ports \cup {NULL}

RR == INSTANCE RoundRobin WITH NPorts <- Width, Nobody <- NULL,
                               enabled <- enabled_port_in_mask,
                               turn <- port_in_next

(***************************************************************************)
(* The chain of next pointers visits exactly the enabled ports, in cyclic  *)
(* order, whatever the sequence of enables and disables that built it.     *)
(***************************************************************************)
ChainLinksEnabledPorts ==
    \A p \in enabled_port_in_mask :
        next[p] \in Ports /\ RR!IsSuccessor(enabled_port_in_mask, p, next[p])

(***************************************************************************)
(* rte_pipeline_run never receives from a disabled port, and stops         *)
(* receiving only when every port is disabled.                             *)
(***************************************************************************)
TurnIsEnabled ==
    IF enabled_port_in_mask = {} THEN port_in_next = NULL
                                 ELSE port_in_next \in enabled_port_in_mask

(***************************************************************************)
(* The spliced chain implements round robin over the set of enabled ports. *)
(***************************************************************************)
ImplementsRoundRobin == RR!Spec

(***************************************************************************)
(* No starvation: a port that stays enabled gets its turn again and again, *)
(* even while other ports are enabled and disabled around it.              *)
(***************************************************************************)
EveryEnabledPortIsServed ==
    \A p \in Ports : []<>(port_in_next = p \/ p \notin enabled_port_in_mask)

=============================================================================
