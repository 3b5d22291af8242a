----------------------------- MODULE MCAclTable -----------------------------
(***************************************************************************)
(* AclTable on three keys, two entries and two usable slots.  Of the four  *)
(* priorities, -1 passes the table's own check and fails the library's,    *)
(* 0 and 1 are good, and 2 is rejected at once.                            *)
(***************************************************************************)
EXTENDS AclTable, TLC

MCPriorities == -1 .. 2

Symmetric == Permutations(Keys) \cup Permutations(Entries)
=============================================================================
