--------------------------- MODULE MCFirewallCtl ---------------------------
(***************************************************************************)
(* FirewallCtl on one-bit addresses (three prefixes), two ports and a      *)
(* table of two rules.                                                     *)
(***************************************************************************)
EXTENDS FirewallCtl, TLC

Symmetric == Permutations(Ports)
=============================================================================
