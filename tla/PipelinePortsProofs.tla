------------------------ MODULE PipelinePortsProofs ------------------------
(***************************************************************************)
(* For every width of the mask and every number of ports: the chain of     *)
(* next pointers always links exactly the enabled ports in cyclic order,   *)
(* and therefore rte_pipeline_run serves them round robin.                 *)
(***************************************************************************)
EXTENDS PipelinePorts, TLAPS, WellFoundedInduction

(***************************************************************************)
(* A nonempty set of natural numbers has a least element.                  *)
(***************************************************************************)
LEMMA LeastNatural ==
    ASSUME NEW m \in SUBSET Nat, m # {}
    PROVE  \E b \in m : \A c \in m : b <= c
<1>1. PICK x \in m : \A y \in m : ~(<<y, x>> \in OpToRel(<, Nat))
  BY NatLessThanWellFounded, WFMin
<1>2. \A y \in m : ~(y < x)
  BY <1>1 DEF OpToRel
<1> QED  BY <1>2

(***************************************************************************)
(* __builtin_ctzll of a nonzero mask is its lowest one bit, and            *)
(* 63 - __builtin_clzll its highest.                                       *)
(***************************************************************************)
LEMMA LowestBitSpec ==
    ASSUME NEW m \in SUBSET Bits, m # {}
    PROVE  LowestBit(m) \in m /\ \A c \in m : LowestBit(m) <= c
<1>1. \E b \in m : \A c \in m : b <= c
  BY LeastNatural, WidthAssumption DEF Bits
<1> QED  BY <1>1 DEF LowestBit

LEMMA HighestBitSpec ==
    ASSUME NEW m \in SUBSET Bits, m # {}
    PROVE  HighestBit(m) \in m /\ \A c \in m : HighestBit(m) >= c
<1> DEFINE mirror == {Width - 1 - b : b \in m}
<1>1. mirror \in SUBSET Nat /\ mirror # {}
  <2>1. \A b \in m : Width - 1 - b \in Nat
    BY WidthAssumption DEF Bits
  <2> QED  BY <2>1
<1>2. PICK x \in mirror : \A y \in mirror : x <= y
  BY <1>1, LeastNatural
<1>3. PICK b \in m : x = Width - 1 - b
  BY <1>2
<1>4. \A c \in m : b >= c
  BY <1>2, <1>3, WidthAssumption DEF Bits
<1> QED  BY <1>4 DEF HighestBit

-----------------------------------------------------------------------------
(***************************************************************************)
(* Rotating the mask puts bit b at position Distance(pos, b) - 1, so the   *)
(* lowest rotated bit is the successor of pos.                             *)
(***************************************************************************)
LEMMA GetNextIsSuccessor ==
    ASSUME NEW mask \in SUBSET Bits, mask # {}, NEW pos \in Bits
    PROVE  RR!IsSuccessor(mask, pos, rte_mask_get_next(mask, pos))
<1> DEFINE rot == ShiftLeft(mask, Width - 1 - pos) \cup ShiftRight(mask, Wrap(pos + 1))
           l == LowestBit(rot)
           q == Wrap(l - (Width - 1 - pos))
<1>1. \A b \in mask : RR!Distance(pos, b) - 1 \in rot
  BY WidthAssumption DEF Bits, ShiftLeft, ShiftRight, Wrap, RR!Distance
<1>2. \A i \in rot : Wrap(i - (Width - 1 - pos)) \in mask
                  /\ RR!Distance(pos, Wrap(i - (Width - 1 - pos))) = i + 1
  BY WidthAssumption DEF Bits, ShiftLeft, ShiftRight, Wrap, RR!Distance
<1>3. rot \in SUBSET Bits /\ rot # {}
  BY <1>1 DEF ShiftLeft, ShiftRight
<1>4. l \in rot /\ \A c \in rot : l <= c
  BY <1>3, LowestBitSpec
<1>5. q \in mask /\ RR!Distance(pos, q) = l + 1
  BY <1>2, <1>4
<1>6. ASSUME NEW r \in mask  PROVE RR!Distance(pos, q) <= RR!Distance(pos, r)
  BY <1>1, <1>4, <1>5, <1>6, WidthAssumption, <1>3 DEF Bits, RR!Distance
<1>7. rte_mask_get_next(mask, pos) = q
  BY DEF rte_mask_get_next
<1> HIDE DEF rot, l, q
<1> QED  BY <1>5, <1>6, <1>7 DEF RR!IsSuccessor

(***************************************************************************)
(* For rte_mask_get_prev bit b goes to position Width - Distance(b, pos),  *)
(* so the highest rotated bit is the port from which pos is reached first. *)
(***************************************************************************)
LEMMA GetPrevIsPredecessor ==
    ASSUME NEW mask \in SUBSET Bits, mask # {}, NEW pos \in Bits
    PROVE  /\ rte_mask_get_prev(mask, pos) \in mask
           /\ \A r \in mask : RR!Distance(rte_mask_get_prev(mask, pos), pos)
                                <= RR!Distance(r, pos)
<1> DEFINE rot == ShiftRight(mask, pos) \cup ShiftLeft(mask, Wrap(Width - pos))
           h == HighestBit(rot)
           q == Wrap(h + pos)
<1>1. \A b \in mask : Width - RR!Distance(b, pos) \in rot
  BY WidthAssumption DEF Bits, ShiftLeft, ShiftRight, Wrap, RR!Distance
<1>2. \A i \in rot : Wrap(i + pos) \in mask
                  /\ RR!Distance(Wrap(i + pos), pos) = Width - i
  BY WidthAssumption DEF Bits, ShiftLeft, ShiftRight, Wrap, RR!Distance
<1>3. rot \in SUBSET Bits /\ rot # {}
  BY <1>1 DEF ShiftLeft, ShiftRight
<1>4. h \in rot /\ \A c \in rot : h >= c
  BY <1>3, HighestBitSpec
<1>5. q \in mask /\ RR!Distance(q, pos) = Width - h
  BY <1>2, <1>4
<1>6. ASSUME NEW r \in mask  PROVE RR!Distance(q, pos) <= RR!Distance(r, pos)
  BY <1>1, <1>4, <1>5, <1>6, WidthAssumption, <1>3 DEF Bits, RR!Distance
<1>7. rte_mask_get_prev(mask, pos) = q
  BY DEF rte_mask_get_prev
<1> HIDE DEF rot, h, q
<1> QED  BY <1>5, <1>6, <1>7

-----------------------------------------------------------------------------
(***************************************************************************)
(* The inductive invariant.                                                *)
(***************************************************************************)
Inv == TypeOK /\ ChainLinksEnabledPorts /\ TurnIsEnabled

(***************************************************************************)
(* Splicing a new port x between its neighbours keeps the chain cyclic:    *)
(* a port p other than the predecessor q cannot have x strictly between    *)
(* itself and its successor, since q would lie there too.                  *)
(***************************************************************************)
LEMMA EnableKeepsChain ==
    ASSUME Inv, NEW x \in Ports, rte_pipeline_port_in_enable(x)
    PROVE  Inv'
<1> DEFINE M == enabled_port_in_mask
           mask == M \cup {x}
           q == rte_mask_get_prev(mask, x)
           n == rte_mask_get_next(mask, x)
<1> USE WidthAssumption, NumPortsInAssumption
<1>1. /\ x \notin M /\ enabled_port_in_mask' = mask
      /\ next' = [next EXCEPT ![q] = x, ![x] = n]
      /\ port_in_next' = IF mask = {x} THEN x ELSE port_in_next
  BY DEF rte_pipeline_port_in_enable
<1>2. mask \in SUBSET Ports /\ mask \in SUBSET Bits /\ x \in Bits /\ mask # {}
  BY DEF Inv, TypeOK, Ports, Bits
<1>3. RR!IsSuccessor(mask, x, n)
  BY <1>2, GetNextIsSuccessor
<1>4. q \in mask /\ \A r \in mask : RR!Distance(q, x) <= RR!Distance(r, x)
  BY <1>2, GetPrevIsPredecessor
<1> HIDE DEF q, n
<1>5. n \in mask
  BY <1>3 DEF RR!IsSuccessor
<1>6. TypeOK'
  BY <1>1, <1>2, <1>4, <1>5 DEF Inv, TypeOK
<1>7. next'[x] = n /\ (q # x => next'[q] = x)
      /\ \A p \in M : p # q => next'[p] = next[p]
  BY <1>1, <1>2, <1>4 DEF Inv, TypeOK
<1>8. ASSUME NEW p \in mask
      PROVE  next'[p] \in Ports /\ RR!IsSuccessor(mask, p, next'[p])
  <2>1. CASE p = x
    BY <2>1, <1>2, <1>3, <1>5, <1>7
  <2>2. CASE p = q /\ p # x
    <3>1. ASSUME NEW r \in mask  PROVE RR!Distance(q, x) <= RR!Distance(q, r)
      BY <1>2, <1>4, <3>1, <2>2 DEF RR!Distance, Bits
    <3> QED  BY <2>2, <3>1, <1>2, <1>7 DEF RR!IsSuccessor
  <2>3. CASE p # q /\ p # x
    <3>1. p \in M /\ next'[p] = next[p]
      BY <2>3, <1>7
    <3>2. next[p] \in M /\ \A r \in M : RR!Distance(p, next[p]) <= RR!Distance(p, r)
      BY <3>1 DEF Inv, ChainLinksEnabledPorts, RR!IsSuccessor
    <3>3. q \in M
      BY <1>2, <1>4, <2>3, <3>1 DEF RR!Distance, Bits
    <3>4. RR!Distance(p, next[p]) <= RR!Distance(p, x)
      <4>1. RR!Distance(q, x) <= RR!Distance(p, x)
        BY <1>4
      <4>2. RR!Distance(p, next[p]) <= RR!Distance(p, q)
        BY <3>2, <3>3
      <4>3. p \in Bits /\ q \in Bits /\ next[p] \in Bits
        BY <1>2, <3>1, <3>2, <3>3
      <4> QED  BY <1>2, <2>3, <4>1, <4>2, <4>3 DEF RR!Distance, Bits
    <3> QED  BY <1>2, <3>1, <3>2, <3>4 DEF RR!IsSuccessor
  <2> QED  BY <2>1, <2>2, <2>3
<1>9. ChainLinksEnabledPorts'
  BY <1>1, <1>8 DEF ChainLinksEnabledPorts, RR!IsSuccessor, RR!Distance
<1>10. TurnIsEnabled'
  <2>1. CASE M = {}
    BY <2>1, <1>1 DEF TurnIsEnabled
  <2>2. CASE M # {}
    <3>1. mask # {x} /\ port_in_next \in M
      BY <2>2, <1>1 DEF Inv, TurnIsEnabled
    <3> QED  BY <3>1, <1>1 DEF TurnIsEnabled
  <2> QED  BY <2>1, <2>2
<1> QED  BY <1>6, <1>9, <1>10 DEF Inv

(***************************************************************************)
(* Bypassing a port x: only its predecessor q pointed at it, and q gets    *)
(* the successor of x.                                                     *)
(***************************************************************************)
LEMMA DisableKeepsChain ==
    ASSUME Inv, NEW x \in Ports, rte_pipeline_port_in_disable(x)
    PROVE  Inv'
<1> DEFINE M == enabled_port_in_mask
           mask == M \ {x}
           q == rte_mask_get_prev(mask, x)
           n == rte_mask_get_next(mask, x)
<1> USE WidthAssumption, NumPortsInAssumption
<1>1. x \in M /\ enabled_port_in_mask' = mask
  BY DEF rte_pipeline_port_in_disable
<1>2. mask \in SUBSET Ports /\ mask \in SUBSET Bits /\ x \in Bits
  BY DEF Inv, TypeOK, Ports, Bits
<1>3. CASE mask = {}
  BY <1>1, <1>3 DEF rte_pipeline_port_in_disable, Inv, TypeOK,
                    ChainLinksEnabledPorts, TurnIsEnabled
<1>4. CASE mask # {}
  <2>1. /\ next' = [next EXCEPT ![q] = n]
        /\ port_in_next' = IF x = port_in_next THEN n ELSE port_in_next
    BY <1>4 DEF rte_pipeline_port_in_disable
  <2>2. RR!IsSuccessor(mask, x, n)
    BY <1>2, <1>4, GetNextIsSuccessor
  <2>3. q \in mask /\ \A r \in mask : RR!Distance(q, x) <= RR!Distance(r, x)
    BY <1>2, <1>4, GetPrevIsPredecessor
  <2> HIDE DEF q, n
  <2>4. n \in mask /\ \A r \in mask : RR!Distance(x, n) <= RR!Distance(x, r)
    BY <2>2 DEF RR!IsSuccessor
  <2>5. TypeOK'
    BY <1>1, <1>2, <2>1, <2>3, <2>4 DEF Inv, TypeOK
  <2>6. next'[q] = n /\ \A p \in mask : p # q => next'[p] = next[p]
    BY <1>2, <2>1, <2>3 DEF Inv, TypeOK
  <2>7. ASSUME NEW p \in mask
        PROVE  next'[p] \in Ports /\ RR!IsSuccessor(mask, p, next'[p])
    <3>1. CASE p = q
      <4>1. ASSUME NEW r \in mask  PROVE RR!Distance(q, n) <= RR!Distance(q, r)
        BY <1>2, <2>3, <2>4, <4>1 DEF RR!Distance, Bits
      <4> QED  BY <3>1, <4>1, <1>2, <2>4, <2>6 DEF RR!IsSuccessor
    <3>2. CASE p # q
      <4>1. next'[p] = next[p]
        BY <2>6, <3>2
      <4>2. next[p] \in M /\ \A r \in M : RR!Distance(p, next[p]) <= RR!Distance(p, r)
        BY DEF Inv, ChainLinksEnabledPorts, RR!IsSuccessor
      <4>3. next[p] # x
        BY <1>2, <2>3, <3>2, <4>2 DEF RR!Distance, Bits
      <4> QED  BY <1>2, <4>1, <4>2, <4>3 DEF RR!IsSuccessor
    <3> QED  BY <3>1, <3>2
  <2>8. ChainLinksEnabledPorts'
    BY <1>1, <2>7 DEF ChainLinksEnabledPorts, RR!IsSuccessor, RR!Distance
  <2>9. TurnIsEnabled'
    BY <1>1, <1>4, <2>1, <2>4 DEF Inv, TurnIsEnabled
  <2> QED  BY <2>5, <2>8, <2>9 DEF Inv
<1> QED  BY <1>3, <1>4

LEMMA RunKeepsChain ==
    ASSUME Inv, rte_pipeline_run
    PROVE  Inv'
<1>1. port_in_next \in enabled_port_in_mask
  BY DEF Inv, TurnIsEnabled, rte_pipeline_run
<1>2. next[port_in_next] \in enabled_port_in_mask
  BY <1>1 DEF Inv, ChainLinksEnabledPorts, RR!IsSuccessor
<1> QED  BY <1>1, <1>2 DEF Inv, TypeOK, ChainLinksEnabledPorts, TurnIsEnabled,
                rte_pipeline_run, RR!IsSuccessor, RR!Distance

(***************************************************************************)
(* Every state of every pipeline satisfies the invariant.                  *)
(***************************************************************************)
THEOREM ChainInvariant == Spec => []Inv
<1>1. Init => Inv
  BY DEF Init, Inv, TypeOK, ChainLinksEnabledPorts, TurnIsEnabled
<1>2. Inv /\ [Next]_vars => Inv'
  <2> SUFFICES ASSUME Inv, [Next]_vars  PROVE Inv'
    OBVIOUS
  <2>1. CASE UNCHANGED vars
    BY <2>1 DEF vars, Inv, TypeOK, ChainLinksEnabledPorts, TurnIsEnabled,
                RR!IsSuccessor, RR!Distance
  <2> QED  BY <2>1, EnableKeepsChain, DisableKeepsChain, RunKeepsChain DEF Next
<1> QED  BY <1>1, <1>2, PTL DEF Spec

(***************************************************************************)
(* rte_pipeline_run never receives from a disabled port.                   *)
(***************************************************************************)
THEOREM TurnIsAlwaysEnabled == Spec => []TurnIsEnabled
<1>1. Inv => TurnIsEnabled
  BY DEF Inv
<1> QED  BY <1>1, ChainInvariant, PTL

(***************************************************************************)
(* The chain visits exactly the enabled ports, in cyclic order.            *)
(***************************************************************************)
THEOREM ChainAlwaysLinksEnabledPorts == Spec => []ChainLinksEnabledPorts
<1>1. Inv => ChainLinksEnabledPorts
  BY DEF Inv
<1> QED  BY <1>1, ChainInvariant, PTL

(***************************************************************************)
(* The chain implements round robin over the enabled ports: every step of  *)
(* the pipeline is a step of RoundRobin or leaves its variables alone.     *)
(***************************************************************************)
THEOREM RefinesRoundRobin == Spec => ImplementsRoundRobin
<1>1. Init => RR!Init
  BY DEF Init, RR!Init
<1>2. ASSUME Inv, [Next]_vars
      PROVE  [RR!Next]_<<enabled_port_in_mask, port_in_next>>
  <2> USE WidthAssumption, NumPortsInAssumption
  <2>1. \A p \in Ports : p \in RR!Ports
    BY DEF Ports, RR!Ports
  <2>2. ASSUME NEW x \in Ports, rte_pipeline_port_in_enable(x)
        PROVE  RR!Enable(x)
    <3>1. x \notin enabled_port_in_mask
      BY <2>2 DEF rte_pipeline_port_in_enable
    <3>2. (enabled_port_in_mask \cup {x} = {x}) <=> (enabled_port_in_mask = {})
      BY <3>1
    <3> QED  BY <2>2, <3>2 DEF rte_pipeline_port_in_enable, RR!Enable
  <2>3. ASSUME NEW x \in Ports, rte_pipeline_port_in_disable(x)
        PROVE  RR!Disable(x)
    <3> DEFINE mask == enabled_port_in_mask \ {x}
               n == rte_mask_get_next(mask, x)
    <3>1. CASE mask = {}
      BY <2>3, <3>1 DEF rte_pipeline_port_in_disable, RR!Disable
    <3>2. CASE mask # {}
      <4>1. /\ enabled_port_in_mask' = mask
            /\ port_in_next' = IF x = port_in_next THEN n ELSE port_in_next
        BY <2>3, <3>2 DEF rte_pipeline_port_in_disable
      <4>2. RR!IsSuccessor(mask, x, n)
        BY <1>2, <3>2, GetNextIsSuccessor DEF Inv, TypeOK, Ports, Bits
      <4>3. n \in RR!Ports
        BY <1>2, <4>2, <2>1 DEF RR!IsSuccessor, Inv, TypeOK
      <4> QED  BY <4>1, <4>2, <4>3 DEF RR!Disable
    <3> QED  BY <3>1, <3>2
  <2>4. CASE rte_pipeline_run
    <3>1. port_in_next \in enabled_port_in_mask /\ port_in_next # NULL
      BY <1>2, <2>4 DEF Inv, TurnIsEnabled, rte_pipeline_run
    <3>2. RR!IsSuccessor(enabled_port_in_mask, port_in_next, next[port_in_next])
          /\ next[port_in_next] \in RR!Ports
      BY <1>2, <3>1, <2>1 DEF Inv, ChainLinksEnabledPorts
    <3>3. RR!Serve
      BY <2>4, <3>1, <3>2 DEF rte_pipeline_run, RR!Serve
    <3> QED  BY <3>3 DEF RR!Next
  <2>5. CASE UNCHANGED vars
    BY <2>5 DEF vars
  <2> QED  BY <1>2, <2>1, <2>2, <2>3, <2>4, <2>5 DEF Next, RR!Next
<1> QED  BY <1>1, <1>2, ChainInvariant, PTL DEF Spec, ImplementsRoundRobin, RR!Spec
=============================================================================
