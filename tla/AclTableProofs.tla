--------------------------- MODULE AclTableProofs ---------------------------
(***************************************************************************)
(* The rule list, the action table and the compiled context of AclTable    *)
(* stay together, for every number of slots, keys, priorities and batch    *)
(* length; a call that fails changes no rule, and a call that succeeds     *)
(* does what it was asked for and nothing else.                            *)
(***************************************************************************)
EXTENDS AclTable, TLAPS, WellFoundedInduction

List == [Slots -> Rule \cup {NULL}]

\* What the error paths of a bulk operation rely on.
BulkInv ==
    ~Idle => /\ UniqueKeys(op.list)
             /\ \A j \in DOMAIN op.pos : j >= op.i => op.pos[j] = 0

\* The part of the invariant that single calls and commits maintain.
ContextInv == OnlyLiveContextExists /\ ContextMatchesList

\* Without a table there is no context and no call in progress.
NoTable == ~table => ctx = NULL /\ Idle

Inv == TypeOK /\ KeysAreUnique /\ ContextInv /\ BulkIsUndoable /\ BulkInv /\ NoTable

-----------------------------------------------------------------------------
(***************************************************************************)
(* The first free slot of a list that has one is a free slot of the list.  *)
(***************************************************************************)
LEMMA LowestIsIn ==
    ASSUME NEW S \in SUBSET Slots, S # {}
    PROVE  Lowest(S) \in S
<1>1. S \in SUBSET Nat
  BY NRulesAssumption DEF Slots
<1>2. \E n \in S : \A m \in S : <<m, n>> \notin OpToRel(<, Nat)
  BY <1>1, NatLessThanWellFounded, WFMin
<1>3. PICK n \in S : \A m \in S : ~(m < n)
  BY <1>1, <1>2 DEF OpToRel
<1>4. \A m \in S : n <= m
  BY <1>1, <1>3
<1> QED
  BY <1>4 DEF Lowest

(***************************************************************************)
(* A key of a list without duplicates has at most one slot, which is the   *)
(* one the deletions put back.                                             *)
(***************************************************************************)
LEMMA HighestOfKey ==
    ASSUME NEW list \in List, UniqueKeys(list), NEW k \in Keys, SlotsOf(list, k) # {}
    PROVE  /\ SlotsOf(list, k) = {Highest(SlotsOf(list, k))}
           /\ Highest(SlotsOf(list, k)) \in Slots
<1>1. PICK i \in Slots : i \in SlotsOf(list, k)
  BY DEF SlotsOf
<1>2. SlotsOf(list, k) = {i}
  BY <1>1 DEF SlotsOf, UniqueKeys
<1>3. i >= i
  BY NRulesAssumption DEF Slots
<1>4. Highest({i}) = i
  BY <1>3 DEF Highest
<1> QED
  BY <1>2, <1>4

(***************************************************************************)
(* A free slot may take a rule whose key has no slot.                      *)
(***************************************************************************)
LEMMA AddKeepsKeysUnique ==
    ASSUME NEW list \in List, UniqueKeys(list), NEW rule \in Rule,
           SlotsOf(list, rule.key) = {}, NEW f \in FreeSlots(list)
    PROVE  /\ [list EXCEPT ![f] = rule] \in List
           /\ UniqueKeys([list EXCEPT ![f] = rule])
<1>1. f \in Slots
  BY DEF FreeSlots
<1>2. [list EXCEPT ![f] = rule] \in List
  BY <1>1 DEF List
<1>3. \A i \in Slots : list[i] # NULL => list[i].key # rule.key
  BY DEF SlotsOf
<1> QED
  BY <1>1, <1>2, <1>3 DEF UniqueKeys, List

(***************************************************************************)
(* Rules may be removed from a list without duplicates.                    *)
(***************************************************************************)
LEMMA RemoveKeepsKeysUnique ==
    ASSUME NEW list \in List, UniqueKeys(list), NEW S
    PROVE  /\ [i \in Slots |-> IF i \in S THEN NULL ELSE list[i]] \in List
           /\ UniqueKeys([i \in Slots |-> IF i \in S THEN NULL ELSE list[i]])
BY DEF List, UniqueKeys

(***************************************************************************)
(* Compiling under a name without a context: a failure leaves the library  *)
(* as it is, and a success adds a context with exactly the rules of the    *)
(* list (none for an empty list).                                          *)
(***************************************************************************)
LEMMA BuildOutcome ==
    ASSUME NEW list, NEW name \in Names, acl_list \in [Names -> SUBSET AclRule],
           acl_list[name] = {}, NEW b \in rte_table_acl_build(list, name)
    PROVE  /\ b.lib = acl_list \/ b.ok
           /\ b.ok => IF CompiledRules(list) = {}
                        THEN b.ctx = NULL /\ b.lib = acl_list
                        ELSE b.ctx = name
                             /\ b.lib = [acl_list EXCEPT ![name] = CompiledRules(list)]
           /\ b.ok \in BOOLEAN
<1> DEFINE rules == CompiledRules(list)
           failed == [ok |-> FALSE, lib |-> acl_list, ctx |-> NULL]
           built == IF rules = {} THEN [ok |-> TRUE, lib |-> acl_list, ctx |-> NULL]
                    ELSE [ok |-> TRUE, ctx |-> name,
                          lib |-> [acl_list EXCEPT ![name] = rules]]
<1>1. rte_acl_free(acl_list, name) = acl_list
  BY DEF rte_acl_free
<1>2. rte_acl_create(name) \cup rules = rules
  BY DEF rte_acl_create
<1>3. b \in {failed} \cup (IF \A r \in rules : acl_check_rule(r.priority)
                             THEN {built} ELSE {})
  BY <1>1, <1>2, Zenon DEF rte_table_acl_build
<1> HIDE DEF rules
<1>4. CASE b = failed
  BY <1>4
<1>5. CASE b = built
  BY <1>5 DEF rules
<1> QED
  BY <1>3, <1>4, <1>5

(***************************************************************************)
(* The compiled form of a list is a set of rules of the library.           *)
(***************************************************************************)
LEMMA CompiledType ==
    ASSUME NEW list \in List
    PROVE  CompiledRules(list) \in SUBSET AclRule
BY PriorityAssumption, NullAssumption
   DEF CompiledRules, AclRule, AclPriority, List, Rule

(***************************************************************************)
(* Commit after a successful compilation: the new context is live, it      *)
(* holds the rules of the new list, and it is the only one.                *)
(***************************************************************************)
LEMMA CommitOutcome ==
    ASSUME TypeOK, OnlyLiveContextExists, NEW list \in List,
           NEW b \in rte_table_acl_build(list, 1 - name_id), b.ok, Commit(list, b)
    PROVE  /\ acl_rule_list' = list
           /\ acl_list' \in [Names -> SUBSET AclRule]
           /\ ctx' \in Names \cup {NULL}
           /\ name_id' \in Names
           /\ OnlyLiveContextExists'
           /\ LiveRules' = CompiledRules(list)
<1> DEFINE name == 1 - name_id
           rules == CompiledRules(list)
<1>1. /\ name \in Names /\ name # name_id /\ name_id \in Names
      /\ acl_list \in [Names -> SUBSET AclRule] /\ ctx \in Names \cup {NULL}
      /\ NULL \notin Names
  BY NullAssumption DEF TypeOK, Names
<1>2. acl_list[name] = {} /\ ctx # name
  BY <1>1 DEF OnlyLiveContextExists
<1>3. IF rules = {} THEN b.ctx = NULL /\ b.lib = acl_list
                    ELSE b.ctx = name /\ b.lib = [acl_list EXCEPT ![name] = rules]
  BY <1>1, <1>2, BuildOutcome
<1>4. rules \in SUBSET AclRule
  BY CompiledType
<1>5. acl_list' = IF ctx # NULL THEN [b.lib EXCEPT ![ctx] = {}] ELSE b.lib
  BY DEF Commit, rte_acl_free
<1>6. ctx' = b.ctx /\ name_id' = name /\ acl_rule_list' = list
  BY DEF Commit
<1>7. Names = {name, name_id}
  BY <1>1 DEF Names
<1>8. acl_list' \in [Names -> SUBSET AclRule] /\ acl_list'[name] = rules
      /\ acl_list'[name_id] = {}
  <2>1. CASE ctx = NULL
    BY <1>1, <1>2, <1>3, <1>4, <1>5, <2>1 DEF OnlyLiveContextExists
  <2>2. CASE ctx = name_id
    BY <1>1, <1>2, <1>3, <1>4, <1>5, <2>2
  <2> QED
    BY <1>1, <1>2, <1>7, <2>1, <2>2
<1>9. OnlyLiveContextExists'
  BY <1>1, <1>3, <1>6, <1>7, <1>8 DEF OnlyLiveContextExists
<1>10. LiveRules' = rules
  BY <1>1, <1>3, <1>6, <1>8 DEF LiveRules
<1> QED
  BY <1>1, <1>3, <1>6, <1>8, <1>9, <1>10

(***************************************************************************)
(* Roll-back after a failed compilation: nothing but the list changes.     *)
(***************************************************************************)
LEMMA RollBackOutcome ==
    ASSUME TypeOK, OnlyLiveContextExists, NEW list, NEW compiled,
           NEW b \in rte_table_acl_build(compiled, 1 - name_id), ~b.ok, RollBack(list, b)
    PROVE  /\ acl_rule_list' = list
           /\ UNCHANGED <<acl_list, ctx, name_id>>
<1> DEFINE name == 1 - name_id
<1>1. name \in Names /\ name # name_id /\ acl_list \in [Names -> SUBSET AclRule]
  BY DEF TypeOK, Names
<1>2. b \in rte_table_acl_build(compiled, name)
  OBVIOUS
<1>3. acl_list[name] = {}
  BY <1>1 DEF OnlyLiveContextExists
<1>4. ~b.ok => b.lib = acl_list
  BY <1>1, <1>2, <1>3, BuildOutcome
<1> QED
  BY <1>4 DEF RollBack

-----------------------------------------------------------------------------
(***************************************************************************)
(* The invariant holds initially.                                          *)
(***************************************************************************)
LEMMA InitInv == Init => Inv
<1> SUFFICES ASSUME Init PROVE Inv
  OBVIOUS
<1>1. op = NoOp /\ Idle /\ op.call = "none"
  BY DEF Init, NoOp, Idle
<1>2. TypeOK
  BY <1>1 DEF Init, TypeOK, Names
<1>3. KeysAreUnique
  BY DEF Init, KeysAreUnique, UniqueKeys
<1>4. CompiledRules(acl_rule_list) = {}
  BY DEF Init, CompiledRules
<1>5. ContextInv
  BY <1>1, <1>4, NullAssumption
     DEF Init, ContextInv, OnlyLiveContextExists, ContextMatchesList, LiveRules, ListBefore, Names
<1> QED
  BY <1>1, <1>2, <1>3, <1>5 DEF Inv, BulkIsUndoable, BulkInv, NoTable, Init

(***************************************************************************)
(* A call that ends with the list it was made on and leaves the library    *)
(* alone keeps the invariant: the early returns and the roll-backs.        *)
(***************************************************************************)
LEMMA UnchangedOutcome ==
    ASSUME Inv, op' = NoOp, acl_rule_list' = ListBefore, UNCHANGED <<table, acl_list, ctx, name_id>>,
           memory' \in [Slots -> Entries \cup {NULL}]
    PROVE  Inv'
<1>1. Idle' /\ op'.call = "none"
  BY DEF NoOp, Idle
<1>2. ListBefore \in List /\ UniqueKeys(ListBefore)
  BY DEF Inv, TypeOK, BulkTypeOK, ListBefore, KeysAreUnique, BulkInv, List, NoOp, Idle
<1>3. TypeOK'
  BY <1>2 DEF Inv, TypeOK, List
<1>4. KeysAreUnique'
  BY <1>2 DEF KeysAreUnique
<1>5. LiveRules' = LiveRules /\ ListBefore' = ListBefore
  BY <1>1 DEF LiveRules, ListBefore
<1>6. ContextInv'
  BY <1>5 DEF Inv, ContextInv, ContextMatchesList, OnlyLiveContextExists, CompiledRules
<1> QED
  BY <1>1, <1>3, <1>4, <1>6 DEF Inv, BulkIsUndoable, BulkInv, NoTable

(***************************************************************************)
(* A call that ends by committing a list without duplicate keys keeps the  *)
(* invariant.                                                              *)
(***************************************************************************)
LEMMA CommittedOutcome ==
    ASSUME Inv, op' = NoOp, NEW list \in List, UniqueKeys(list),
           NEW b \in rte_table_acl_build(list, 1 - name_id), b.ok, Commit(list, b),
           table, UNCHANGED table, memory' \in [Slots -> Entries \cup {NULL}]
    PROVE  Inv'
<1>1. Idle' /\ op'.call = "none"
  BY DEF NoOp, Idle
<1>2. TypeOK /\ OnlyLiveContextExists
  BY DEF Inv, ContextInv
<1>3. /\ acl_rule_list' = list
      /\ acl_list' \in [Names -> SUBSET AclRule]
      /\ ctx' \in Names \cup {NULL}
      /\ name_id' \in Names
      /\ OnlyLiveContextExists'
      /\ LiveRules' = CompiledRules(list)
  BY <1>2, CommitOutcome
<1>4. TypeOK'
  BY <1>3 DEF Inv, TypeOK, List
<1>5. ContextMatchesList'
  BY <1>1, <1>3 DEF ContextMatchesList, ListBefore
<1> QED
  BY <1>1, <1>3, <1>4, <1>5
     DEF Inv, BulkIsUndoable, BulkInv, KeysAreUnique, ContextInv, NoTable

(***************************************************************************)
(* A table that does not exist, or is new, satisfies the invariant when    *)
(* the library holds no context.                                           *)
(***************************************************************************)
LEMMA ClearedOutcome ==
    ASSUME Clear, table' \in BOOLEAN, acl_list' \in [Names -> SUBSET AclRule],
           \A n \in Names : acl_list'[n] = {}
    PROVE  Inv'
<1>1. Idle' /\ op'.call = "none" /\ op' = NoOp
  BY DEF Clear, NoOp, Idle
<1>2. TypeOK'
  BY <1>1 DEF Clear, TypeOK, Names
<1>3. KeysAreUnique'
  BY DEF Clear, KeysAreUnique, UniqueKeys
<1>4. CompiledRules(acl_rule_list') = {}
  BY DEF Clear, CompiledRules
<1>5. ctx' = NULL /\ LiveRules' = {} /\ ListBefore' = acl_rule_list'
  BY <1>1 DEF Clear, LiveRules, ListBefore
<1>6. ContextInv'
  BY <1>4, <1>5, NullAssumption DEF ContextInv, OnlyLiveContextExists, ContextMatchesList, Names
<1> QED
  BY <1>1, <1>2, <1>3, <1>5, <1>6 DEF Inv, BulkIsUndoable, BulkInv, NoTable

-----------------------------------------------------------------------------
(***************************************************************************)
(* Single calls.                                                           *)
(***************************************************************************)
LEMMA CreateKeepsInv == Inv /\ rte_table_acl_create => Inv'
<1> SUFFICES ASSUME Inv, rte_table_acl_create PROVE Inv'
  OBVIOUS
<1>1. Idle' /\ op'.call = "none" /\ op' = NoOp
  BY DEF rte_table_acl_create, Clear, NoOp, Idle
<1>2. \A n \in Names : acl_list'[n] = {}
  BY NullAssumption DEF rte_table_acl_create, Inv, NoTable, ContextInv, OnlyLiveContextExists, Names
<1> QED
  BY <1>1, <1>2, ClearedOutcome DEF rte_table_acl_create, Inv, TypeOK

LEMMA FreeKeepsInv == Inv /\ rte_table_acl_free => Inv'
<1> SUFFICES ASSUME Inv, rte_table_acl_free PROVE Inv'
  OBVIOUS
<1> USE DEF Inv, ContextInv
<1>1. acl_list' \in [Names -> SUBSET AclRule] /\ \A n \in Names : acl_list'[n] = {}
  <2>1. acl_list \in [Names -> SUBSET AclRule] /\ ctx \in Names \cup {NULL} /\ NULL \notin Names
    BY NullAssumption DEF TypeOK, Names
  <2>2. \A n \in Names : ctx # n => acl_list[n] = {}
    BY DEF OnlyLiveContextExists
  <2>3. acl_list' = IF ctx # NULL THEN [acl_list EXCEPT ![ctx] = {}] ELSE acl_list
    BY DEF rte_table_acl_free, rte_acl_free
  <2> HIDE DEF Inv, ContextInv
  <2> QED
    BY <2>1, <2>2, <2>3
<1>2. Clear /\ table' \in BOOLEAN
  BY DEF rte_table_acl_free
<1> QED
  BY <1>1, <1>2, ClearedOutcome

LEMMA AddKeepsInv ==
    ASSUME Inv, NEW k \in Keys, NEW p \in Priorities, NEW e \in Entries,
           rte_table_acl_entry_add(k, p, e)
    PROVE  Inv'
<1> DEFINE same == SlotsOf(acl_rule_list, k)
           free == Lowest(FreeSlots(acl_rule_list))
           list == [acl_rule_list EXCEPT ![free] = [key |-> k, priority |-> p]]
<1>1. table /\ Idle /\ UNCHANGED <<table, op>> /\ op' = NoOp /\ ListBefore = acl_rule_list
  BY DEF rte_table_acl_entry_add, Inv, TypeOK, BulkTypeOK, Idle, ListBefore
<1>2. acl_rule_list \in List /\ UniqueKeys(acl_rule_list)
      /\ memory \in [Slots -> Entries \cup {NULL}]
  BY DEF Inv, TypeOK, List, KeysAreUnique
<1>3. CASE UNCHANGED <<acl_rule_list, memory, acl_list, ctx, name_id>>
  BY <1>1, <1>2, <1>3, UnchangedOutcome
<1>4. CASE /\ memory' = [memory EXCEPT ![Lowest(same)] = e]
           /\ UNCHANGED <<acl_rule_list, acl_list, ctx, name_id>>
  BY <1>1, <1>2, <1>4, UnchangedOutcome
<1>5. CASE /\ same = {} /\ FreeSlots(acl_rule_list) # {}
           /\ \E b \in rte_table_acl_build(list, 1 - name_id) :
                \/ b.ok /\ Commit(list, b) /\ memory' = [memory EXCEPT ![free] = e]
                \/ ~b.ok /\ RollBack(acl_rule_list, b) /\ UNCHANGED memory
  <2>1. PICK b \in rte_table_acl_build(list, 1 - name_id) :
                \/ b.ok /\ Commit(list, b) /\ memory' = [memory EXCEPT ![free] = e]
                \/ ~b.ok /\ RollBack(acl_rule_list, b) /\ UNCHANGED memory
    BY <1>5
  <2>2. free \in FreeSlots(acl_rule_list)
    BY <1>5, LowestIsIn DEF FreeSlots
  <2>3. [key |-> k, priority |-> p] \in Rule
    BY PriorityAssumption DEF Rule
  <2>4. list \in List /\ UniqueKeys(list)
    BY <1>2, <1>5, <2>2, <2>3, AddKeepsKeysUnique
  <2>5. memory' \in [Slots -> Entries \cup {NULL}]
    BY <1>2, <2>1
  <2> HIDE DEF list
  <2>6. CASE b.ok /\ Commit(list, b)
    BY <1>1, <2>4, <2>5, <2>6, CommittedOutcome
  <2>7. CASE ~b.ok /\ RollBack(acl_rule_list, b)
    <3>1. acl_rule_list' = acl_rule_list /\ UNCHANGED <<acl_list, ctx, name_id>>
      BY <2>7, RollBackOutcome DEF Inv, ContextInv
    <3> QED
      BY <1>1, <2>5, <3>1, UnchangedOutcome
  <2> QED
    BY <2>1, <2>6, <2>7
<1> QED
  BY <1>3, <1>4, <1>5 DEF rte_table_acl_entry_add

LEMMA DeleteKeepsInv ==
    ASSUME Inv, NEW k \in Keys, rte_table_acl_entry_delete(k)
    PROVE  Inv'
<1> DEFINE same == SlotsOf(acl_rule_list, k)
           list == [i \in Slots |-> IF i \in same THEN NULL ELSE acl_rule_list[i]]
           back == [list EXCEPT ![Highest(same)] = acl_rule_list[Highest(same)]]
<1>1. table /\ Idle /\ UNCHANGED <<table, memory, op>> /\ op' = NoOp /\ ListBefore = acl_rule_list
  BY DEF rte_table_acl_entry_delete, Inv, TypeOK, BulkTypeOK, Idle, ListBefore
<1>2. acl_rule_list \in List /\ UniqueKeys(acl_rule_list)
      /\ memory' \in [Slots -> Entries \cup {NULL}]
  BY <1>1 DEF Inv, TypeOK, List, KeysAreUnique
<1>3. CASE UNCHANGED <<acl_rule_list, acl_list, ctx, name_id>>
  BY <1>1, <1>2, <1>3, UnchangedOutcome
<1>4. CASE /\ same # {}
           /\ \E b \in rte_table_acl_build(list, 1 - name_id) :
                (b.ok /\ Commit(list, b)) \/ (~b.ok /\ RollBack(back, b))
  <2>1. PICK b \in rte_table_acl_build(list, 1 - name_id) :
                (b.ok /\ Commit(list, b)) \/ (~b.ok /\ RollBack(back, b))
    BY <1>4
  <2>2. list \in List /\ UniqueKeys(list)
    BY <1>2, RemoveKeepsKeysUnique
  <2>3. same = {Highest(same)}
    BY <1>2, <1>4, HighestOfKey
  <2>4. back = acl_rule_list
    BY <1>2, <2>3 DEF List, SlotsOf
  <2> HIDE DEF list
  <2>5. CASE b.ok /\ Commit(list, b)
    BY <1>1, <1>2, <2>2, <2>5, CommittedOutcome
  <2>6. CASE ~b.ok /\ RollBack(back, b)
    <3>1. acl_rule_list' = acl_rule_list /\ UNCHANGED <<acl_list, ctx, name_id>>
      BY <2>4, <2>6, RollBackOutcome DEF Inv, ContextInv
    <3> QED
      BY <1>1, <1>2, <3>1, UnchangedOutcome
  <2> QED
    BY <2>1, <2>5, <2>6
<1>5. \/ UNCHANGED <<acl_rule_list, acl_list, ctx, name_id>>
      \/ /\ same # {}
         /\ \E b \in rte_table_acl_build(list, 1 - name_id) :
              (b.ok /\ Commit(list, b)) \/ (~b.ok /\ RollBack(back, b))
  BY Zenon DEF rte_table_acl_entry_delete
<1> QED
  BY <1>3, <1>4, <1>5

-----------------------------------------------------------------------------
(***************************************************************************)
(* Bulk calls.                                                             *)
(***************************************************************************)

\* A step within a bulk call.
LEMMA BulkStepOutcome ==
    ASSUME Inv, table, UNCHANGED <<table, acl_list, ctx, name_id>>,
           memory' \in [Slots -> Entries \cup {NULL}],
           acl_rule_list' \in List, UniqueKeys(acl_rule_list'),
           BulkTypeOK', op'.list = ListBefore,
           \A j \in DOMAIN op'.pos : j >= op'.i => op'.pos[j] = 0,
           BulkIsUndoable'
    PROVE  Inv'
<1>1. ~Idle' /\ ListBefore' = ListBefore
  BY DEF BulkTypeOK, Idle, ListBefore
<1>2. UniqueKeys(ListBefore)
  BY DEF Inv, ListBefore, KeysAreUnique, BulkInv
<1>3. TypeOK'
  BY DEF Inv, TypeOK, List
<1>4. ContextInv'
  BY <1>1 DEF Inv, ContextInv, ContextMatchesList, OnlyLiveContextExists, LiveRules, CompiledRules
<1> QED
  BY <1>1, <1>2, <1>3, <1>4 DEF Inv, KeysAreUnique, BulkInv, NoTable

LEMMA StartKeepsInv ==
    ASSUME Inv, table, Idle, NEW call, NEW params, Start(call, params),
           UNCHANGED <<table, acl_rule_list, memory, acl_list, ctx, name_id>>,
           \/ call = "add_bulk" /\ params \in Batches(AddParams)
           \/ call = "delete_bulk" /\ params \in Batches([key : Keys])
    PROVE  Inv'
<1>1. acl_rule_list \in List /\ memory \in [Slots -> Entries \cup {NULL}]
      /\ UniqueKeys(acl_rule_list) /\ ListBefore = acl_rule_list
  BY DEF Inv, TypeOK, List, KeysAreUnique, ListBefore
<1>2. Len(params) \in Nat /\ DOMAIN params = 1 .. Len(params)
  BY BatchAssumption DEF Batches
<1>3. op' = [call |-> call, params |-> params, i |-> 1,
             pos |-> [j \in DOMAIN params |-> 0],
             found |-> [j \in DOMAIN params |-> FALSE],
             list |-> acl_rule_list, mem |-> memory]
  BY DEF Start
<1>4. BulkTypeOK' /\ op'.list = acl_rule_list
      /\ \A j \in DOMAIN op'.pos : j >= op'.i => op'.pos[j] = 0
  BY <1>1, <1>2, <1>3 DEF BulkTypeOK, List
<1>5. Touched' \subseteq {0} /\ 0 \notin Slots
  BY <1>3 DEF Touched, Slots
<1>6. BulkIsUndoable'
  BY <1>1, <1>3, <1>5 DEF BulkIsUndoable, Undone, Restored, List
<1> QED
  BY <1>1, <1>4, <1>6, BulkStepOutcome

LEMMA AddBulkKeepsInv ==
    ASSUME Inv, NEW params \in Batches(AddParams), rte_table_acl_entry_add_bulk(params)
    PROVE  Inv'
<1>1. table /\ Idle /\ UNCHANGED <<table, acl_rule_list, memory, acl_list, ctx, name_id>>
  BY DEF rte_table_acl_entry_add_bulk
<1>2. CASE UNCHANGED op
  <2>1. op' = NoOp /\ ListBefore = acl_rule_list /\ memory \in [Slots -> Entries \cup {NULL}]
    BY <1>1, <1>2 DEF Inv, TypeOK, BulkTypeOK, Idle, ListBefore
  <2> QED
    BY <1>1, <2>1, UnchangedOutcome
<1>3. CASE Start("add_bulk", params)
  BY <1>1, <1>3, StartKeepsInv
<1> QED
  BY <1>2, <1>3 DEF rte_table_acl_entry_add_bulk

LEMMA DeleteBulkKeepsInv ==
    ASSUME Inv, NEW params \in Batches([key : Keys]), rte_table_acl_entry_delete_bulk(params)
    PROVE  Inv'
<1>1. table /\ Idle /\ UNCHANGED <<table, acl_rule_list, memory, acl_list, ctx, name_id>>
  BY DEF rte_table_acl_entry_delete_bulk
<1>2. CASE UNCHANGED op
  <2>1. op' = NoOp /\ ListBefore = acl_rule_list /\ memory \in [Slots -> Entries \cup {NULL}]
    BY <1>1, <1>2 DEF Inv, TypeOK, BulkTypeOK, Idle, ListBefore
  <2> QED
    BY <1>1, <2>1, UnchangedOutcome
<1>3. CASE Start("delete_bulk", params)
  BY <1>1, <1>3, StartKeepsInv
<1> QED
  BY <1>2, <1>3 DEF rte_table_acl_entry_delete_bulk

\* What a bulk call in progress looks like.
LEMMA BulkFacts ==
    ASSUME Inv, ~Idle
    PROVE  /\ table /\ BulkTypeOK /\ ListBefore = op.list
           /\ acl_rule_list \in List /\ UniqueKeys(acl_rule_list)
           /\ memory \in [Slots -> Entries \cup {NULL}]
           /\ op.list \in List
           /\ Len(op.params) \in Nat /\ DOMAIN op.params = 1 .. Len(op.params)
           /\ DOMAIN op.pos = DOMAIN op.params
           /\ \A j \in DOMAIN op.pos : j >= op.i => op.pos[j] = 0
           /\ 0 \notin Slots
<1>1. op # NoOp
  BY DEF NoOp, Idle
<1>2. BulkTypeOK
  BY <1>1 DEF Inv, TypeOK
<1>3. Len(op.params) \in Nat /\ DOMAIN op.params = 1 .. Len(op.params)
  BY <1>2, BatchAssumption DEF BulkTypeOK, Batches
<1>4. DOMAIN op.pos = DOMAIN op.params /\ op.list \in List
  BY <1>2 DEF BulkTypeOK, List
<1> QED
  BY <1>2, <1>3, <1>4
     DEF Inv, TypeOK, NoTable, ListBefore, KeysAreUnique, List, BulkInv, Slots

LEMMA AddBulkKeyKeepsInv == Inv /\ AddBulkKey => Inv'
<1> SUFFICES ASSUME Inv, AddBulkKey PROVE Inv'
  OBVIOUS
<1> DEFINE p == op.params[op.i]
           same == SlotsOf(acl_rule_list, p.key)
           free == Lowest(FreeSlots(acl_rule_list))
           list == [acl_rule_list EXCEPT ![free] = [key |-> p.key, priority |-> p.priority]]
<1>1. op.call = "add_bulk" /\ op.i <= Len(op.params) /\ ~Idle
      /\ UNCHANGED <<table, acl_list, ctx, name_id>>
  BY DEF AddBulkKey, Idle
<1>2. /\ table /\ BulkTypeOK /\ ListBefore = op.list
      /\ acl_rule_list \in List /\ UniqueKeys(acl_rule_list)
      /\ memory \in [Slots -> Entries \cup {NULL}]
      /\ op.list \in List
      /\ Len(op.params) \in Nat /\ DOMAIN op.params = 1 .. Len(op.params)
      /\ DOMAIN op.pos = DOMAIN op.params
      /\ \A j \in DOMAIN op.pos : j >= op.i => op.pos[j] = 0
      /\ 0 \notin Slots
  BY <1>1, BulkFacts
<1>3. op.i \in DOMAIN op.params /\ op.i \in Nat /\ op.params \in Batches(AddParams)
  BY <1>1, <1>2 DEF BulkTypeOK
<1>4. p.key \in Keys /\ p.priority \in Int /\ p.entry \in Entries
  BY <1>3, PriorityAssumption DEF Batches, AddParams
<1>5. Undone = op.list
  BY <1>1 DEF Inv, BulkIsUndoable
<1>6. op = [call |-> op.call, params |-> op.params, i |-> op.i, pos |-> op.pos,
            found |-> op.found, list |-> op.list, mem |-> op.mem]
  BY <1>2 DEF BulkTypeOK
<1> HIDE DEF p
<1>7. CASE /\ memory' = [memory EXCEPT ![Lowest(same)] = p.entry]
           /\ op' = [op EXCEPT !.found[op.i] = TRUE, !.i = @ + 1]
           /\ UNCHANGED acl_rule_list
  <2>1. op' = [call |-> op.call, params |-> op.params, i |-> op.i + 1, pos |-> op.pos,
               found |-> [op.found EXCEPT ![op.i] = TRUE], list |-> op.list, mem |-> op.mem]
    BY <1>6, <1>7
  <2>2. BulkTypeOK' /\ op'.list = op.list /\ op'.pos = op.pos /\ op'.i = op.i + 1
        /\ op'.call = "add_bulk"
    <3>1. op.i + 1 \in 1 .. Len(op.params) + 1
      BY <1>1, <1>2, <1>3
    <3>2. [op.found EXCEPT ![op.i] = TRUE] \in [DOMAIN op.params -> BOOLEAN]
      BY <1>2, <1>3 DEF BulkTypeOK
    <3> QED
      BY <1>1, <1>2, <1>3, <2>1, <3>1, <3>2 DEF BulkTypeOK
  <2>3. BulkIsUndoable'
    BY <1>5, <1>7, <2>2 DEF BulkIsUndoable, Undone, Touched
  <2>4. memory' \in [Slots -> Entries \cup {NULL}]
    BY <1>2, <1>4, <1>7
  <2>5. \A j \in DOMAIN op'.pos : j >= op'.i => op'.pos[j] = 0
    BY <1>2, <1>3, <2>2
  <2> QED
    BY <1>1, <1>2, <1>7, <2>2, <2>3, <2>4, <2>5, BulkStepOutcome
<1>8. CASE acl_rule_list' = Undone /\ op' = NoOp /\ UNCHANGED memory
  BY <1>1, <1>2, <1>5, <1>8, UnchangedOutcome
<1>9. CASE /\ same = {} /\ FreeSlots(acl_rule_list) # {}
           /\ acl_rule_list' = list
           /\ op' = [op EXCEPT !.pos[op.i] = free, !.i = @ + 1]
           /\ UNCHANGED memory
  <2>1. op' = [call |-> op.call, params |-> op.params, i |-> op.i + 1,
               pos |-> [op.pos EXCEPT ![op.i] = free],
               found |-> op.found, list |-> op.list, mem |-> op.mem]
    BY <1>6, <1>9
  <2>2. free \in FreeSlots(acl_rule_list)
    BY <1>9, LowestIsIn DEF FreeSlots
  <2>3. free \in Slots /\ acl_rule_list[free] = NULL
    BY <2>2 DEF FreeSlots
  <2>4. list \in List /\ UniqueKeys(list)
    <3>1. [key |-> p.key, priority |-> p.priority] \in Rule
      BY <1>4 DEF Rule
    <3> QED
      BY <1>2, <1>9, <2>2, <3>1, AddKeepsKeysUnique
  <2>5. BulkTypeOK' /\ op'.list = op.list /\ op'.pos = [op.pos EXCEPT ![op.i] = free]
        /\ op'.i = op.i + 1 /\ op'.call = "add_bulk"
    <3>1. op.i + 1 \in 1 .. Len(op.params) + 1
      BY <1>1, <1>2, <1>3
    <3>2. [op.pos EXCEPT ![op.i] = free] \in [DOMAIN op.params -> Slots \cup {0}]
      BY <1>2, <1>3, <2>3 DEF BulkTypeOK
    <3> QED
      BY <1>1, <1>2, <1>3, <2>1, <3>1, <3>2 DEF BulkTypeOK
  <2>6. \A j \in DOMAIN op'.pos : j >= op'.i => op'.pos[j] = 0
    BY <1>2, <1>3, <2>5
  <2>7. \A i \in Slots : i \in Touched' <=> (i = free \/ i \in Touched)
    BY <1>2, <1>3, <2>3, <2>5 DEF Touched
  <2>8. Undone' = op.list
    <3>1. ASSUME NEW i \in Slots PROVE Undone'[i] = op.list[i]
      <4>1. Undone[i] = op.list[i]
        BY <1>5
      <4>2. Undone[i] = IF i \in Touched THEN NULL ELSE acl_rule_list[i]
        BY DEF Undone
      <4>3. Undone'[i] = IF i = free \/ i \in Touched THEN NULL ELSE acl_rule_list'[i]
        BY <2>7 DEF Undone
      <4>4. i # free => acl_rule_list'[i] = acl_rule_list[i]
        BY <1>2, <1>9, <2>3 DEF List
      <4> QED
        BY <2>3, <4>1, <4>2, <4>3, <4>4
    <3> QED
      BY <1>2, <3>1 DEF Undone, List
  <2>9. BulkIsUndoable'
    BY <2>5, <2>8 DEF BulkIsUndoable
  <2> HIDE DEF list
  <2> QED
    BY <1>1, <1>2, <1>9, <2>4, <2>5, <2>6, <2>9, BulkStepOutcome
<1> QED
  BY <1>7, <1>8, <1>9 DEF AddBulkKey, Finish, p

LEMMA AddBulkBuildKeepsInv == Inv /\ AddBulkBuild => Inv'
<1> SUFFICES ASSUME Inv, AddBulkBuild PROVE Inv'
  OBVIOUS
<1>1. op.call = "add_bulk" /\ op.i > Len(op.params) /\ ~Idle /\ UNCHANGED table /\ op' = NoOp
  BY DEF AddBulkBuild, Idle, Finish
<1>2. /\ table /\ BulkTypeOK /\ ListBefore = op.list
      /\ acl_rule_list \in List /\ UniqueKeys(acl_rule_list)
      /\ memory \in [Slots -> Entries \cup {NULL}]
      /\ op.list \in List /\ 0 \notin Slots
      /\ DOMAIN op.pos = DOMAIN op.params
  BY <1>1, BulkFacts
<1>3. Undone = op.list
  BY <1>1 DEF Inv, BulkIsUndoable
<1>4. CASE Touched = {0} /\ UNCHANGED <<acl_rule_list, memory, acl_list, ctx, name_id>>
  <2>1. Undone = acl_rule_list
    BY <1>2, <1>4 DEF Undone, List
  <2> QED
    BY <1>1, <1>2, <1>3, <1>4, <2>1, UnchangedOutcome
<1>5. ASSUME NEW b \in rte_table_acl_build(acl_rule_list, 1 - name_id),
             b.ok, Commit(acl_rule_list, b),
             memory' = [i \in Slots |->
               IF i \in Touched
                 THEN op.params[CHOOSE j \in DOMAIN op.pos : op.pos[j] = i].entry
                 ELSE memory[i]]
      PROVE  Inv'
  <2>1. ASSUME NEW i \in Slots, i \in Touched
        PROVE  op.params[CHOOSE j \in DOMAIN op.pos : op.pos[j] = i].entry \in Entries
    <3>1. (CHOOSE j \in DOMAIN op.pos : op.pos[j] = i) \in DOMAIN op.pos
      BY <2>1 DEF Touched
    <3>2. op.params \in Batches(AddParams)
      BY <1>1, <1>2 DEF BulkTypeOK
    <3>3. \A j \in DOMAIN op.params : op.params[j] \in AddParams
      BY <3>2 DEF Batches
    <3> QED
      BY <1>2, <3>1, <3>3 DEF AddParams
  <2>2. memory' \in [Slots -> Entries \cup {NULL}]
    BY <1>2, <1>5, <2>1
  <2> QED
    BY <1>1, <1>2, <1>5, <2>2, CommittedOutcome
<1>6. ASSUME NEW b \in rte_table_acl_build(acl_rule_list, 1 - name_id),
             ~b.ok, RollBack(Undone, b), UNCHANGED memory
      PROVE  Inv'
  <2>1. acl_rule_list' = op.list /\ UNCHANGED <<acl_list, ctx, name_id>>
    BY <1>3, <1>6, RollBackOutcome DEF Inv, ContextInv
  <2> QED
    BY <1>1, <1>2, <1>6, <2>1, UnchangedOutcome
<1> QED
  BY <1>4, <1>5, <1>6 DEF AddBulkBuild

LEMMA DeleteBulkKeyKeepsInv == Inv /\ DeleteBulkKey => Inv'
<1> SUFFICES ASSUME Inv, DeleteBulkKey PROVE Inv'
  OBVIOUS
<1> DEFINE k == op.params[op.i].key
           same == SlotsOf(acl_rule_list, k)
           list == [i \in Slots |-> IF i \in same THEN NULL ELSE acl_rule_list[i]]
           pos == IF same = {} THEN 0 ELSE Highest(same)
<1>1. op.call = "delete_bulk" /\ op.i <= Len(op.params) /\ ~Idle
      /\ UNCHANGED <<table, memory, acl_list, ctx, name_id>>
  BY DEF DeleteBulkKey, Idle
<1>2. /\ table /\ BulkTypeOK /\ ListBefore = op.list
      /\ acl_rule_list \in List /\ UniqueKeys(acl_rule_list)
      /\ memory \in [Slots -> Entries \cup {NULL}]
      /\ op.list \in List
      /\ Len(op.params) \in Nat /\ DOMAIN op.params = 1 .. Len(op.params)
      /\ DOMAIN op.pos = DOMAIN op.params
      /\ \A j \in DOMAIN op.pos : j >= op.i => op.pos[j] = 0
      /\ 0 \notin Slots
  BY <1>1, BulkFacts
<1>3. op.i \in DOMAIN op.params /\ op.i \in Nat /\ op.params \in Batches([key : Keys])
  BY <1>1, <1>2 DEF BulkTypeOK
<1>4. k \in Keys
  BY <1>3 DEF Batches
<1>5. Restored = op.list
  BY <1>1 DEF Inv, BulkIsUndoable
<1>6. op = [call |-> op.call, params |-> op.params, i |-> op.i, pos |-> op.pos,
            found |-> op.found, list |-> op.list, mem |-> op.mem]
  BY <1>2 DEF BulkTypeOK
<1>7. acl_rule_list' = list /\ op' = [op EXCEPT !.pos[op.i] = pos, !.i = @ + 1]
  BY DEF DeleteBulkKey
<1> HIDE DEF k
<1>8. \/ same = {} /\ pos = 0
      \/ same = {pos} /\ pos \in Slots
  BY <1>2, <1>4, HighestOfKey
<1> HIDE DEF pos, same
<1>9. op' = [call |-> op.call, params |-> op.params, i |-> op.i + 1,
             pos |-> [op.pos EXCEPT ![op.i] = pos],
             found |-> op.found, list |-> op.list, mem |-> op.mem]
  BY <1>6, <1>7
<1>10. BulkTypeOK' /\ op'.list = op.list /\ op'.pos = [op.pos EXCEPT ![op.i] = pos]
       /\ op'.i = op.i + 1 /\ op'.call = "delete_bulk"
  <2>1. op.i + 1 \in 1 .. Len(op.params) + 1
    BY <1>1, <1>2, <1>3
  <2>2. [op.pos EXCEPT ![op.i] = pos] \in [DOMAIN op.params -> Slots \cup {0}]
    BY <1>2, <1>3, <1>8 DEF BulkTypeOK
  <2> QED
    BY <1>1, <1>2, <1>3, <1>9, <2>1, <2>2 DEF BulkTypeOK
<1>11. \A j \in DOMAIN op'.pos : j >= op'.i => op'.pos[j] = 0
  BY <1>2, <1>3, <1>10
<1>12. \A i \in Slots : i \in Touched' <=> (i = pos \/ i \in Touched)
  BY <1>2, <1>3, <1>10 DEF Touched
<1>13. Restored' = op.list
  <2>1. ASSUME NEW i \in Slots PROVE Restored'[i] = op.list[i]
    <3>1. Restored[i] = op.list[i]
      BY <1>5
    <3>2. Restored[i] = IF i \in Touched THEN op.list[i] ELSE acl_rule_list[i]
      BY DEF Restored
    <3>3. Restored'[i] = IF i = pos \/ i \in Touched THEN op.list[i] ELSE acl_rule_list'[i]
      BY <1>10, <1>12 DEF Restored
    <3>4. i # pos => acl_rule_list'[i] = acl_rule_list[i]
      BY <1>2, <1>7, <1>8 DEF List
    <3> QED
      BY <3>1, <3>2, <3>3, <3>4
  <2> QED
    BY <1>2, <2>1 DEF Restored, List
<1>14. BulkIsUndoable'
  BY <1>10, <1>13 DEF BulkIsUndoable
<1>15. list \in List /\ UniqueKeys(list)
  BY <1>2, RemoveKeepsKeysUnique
<1> HIDE DEF list
<1> QED
  BY <1>1, <1>2, <1>7, <1>10, <1>11, <1>14, <1>15, BulkStepOutcome

LEMMA DeleteBulkBuildKeepsInv == Inv /\ DeleteBulkBuild => Inv'
<1> SUFFICES ASSUME Inv, DeleteBulkBuild PROVE Inv'
  OBVIOUS
<1>1. op.call = "delete_bulk" /\ ~Idle /\ UNCHANGED <<table, memory>> /\ op' = NoOp
  BY DEF DeleteBulkBuild, Idle, Finish
<1>2. /\ table /\ BulkTypeOK /\ ListBefore = op.list
      /\ acl_rule_list \in List /\ UniqueKeys(acl_rule_list)
      /\ memory \in [Slots -> Entries \cup {NULL}]
      /\ op.list \in List /\ 0 \notin Slots
  BY <1>1, BulkFacts
<1>3. Restored = op.list
  BY <1>1 DEF Inv, BulkIsUndoable
<1>4. CASE Touched = {0} /\ UNCHANGED <<acl_rule_list, acl_list, ctx, name_id>>
  <2>1. Restored = acl_rule_list
    BY <1>2, <1>4 DEF Restored, List
  <2> QED
    BY <1>1, <1>2, <1>3, <1>4, <2>1, UnchangedOutcome
<1>5. ASSUME NEW b \in rte_table_acl_build(acl_rule_list, 1 - name_id),
             b.ok, Commit(acl_rule_list, b)
      PROVE  Inv'
  BY <1>1, <1>2, <1>5, CommittedOutcome
<1>6. ASSUME NEW b \in rte_table_acl_build(acl_rule_list, 1 - name_id),
             ~b.ok, RollBack(Restored, b)
      PROVE  Inv'
  <2>1. acl_rule_list' = op.list /\ UNCHANGED <<acl_list, ctx, name_id>>
    BY <1>3, <1>6, RollBackOutcome DEF Inv, ContextInv
  <2> QED
    BY <1>1, <1>2, <2>1, UnchangedOutcome
<1> QED
  BY <1>4, <1>5, <1>6 DEF DeleteBulkBuild

-----------------------------------------------------------------------------
(***************************************************************************)
(* Every step keeps the invariant.                                         *)
(***************************************************************************)
LEMMA NextKeepsInv == Inv /\ [Next]_vars => Inv'
<1> SUFFICES ASSUME Inv, [Next]_vars PROVE Inv'
  OBVIOUS
<1>1. CASE UNCHANGED vars
  BY <1>1 DEF vars, Inv, TypeOK, BulkTypeOK, KeysAreUnique, ContextInv, OnlyLiveContextExists,
              ContextMatchesList, LiveRules, ListBefore, CompiledRules, BulkIsUndoable, Undone,
              Restored, Touched, BulkInv, NoTable, Idle
<1>2. CASE rte_table_acl_create
  BY <1>2, CreateKeepsInv
<1>3. CASE rte_table_acl_free
  BY <1>3, FreeKeepsInv
<1>4. CASE \E k \in Keys, p \in Priorities, e \in Entries : rte_table_acl_entry_add(k, p, e)
  BY <1>4, AddKeepsInv
<1>5. CASE \E k \in Keys : rte_table_acl_entry_delete(k)
  BY <1>5, DeleteKeepsInv
<1>6. CASE \E params \in Batches(AddParams) : rte_table_acl_entry_add_bulk(params)
  BY <1>6, AddBulkKeepsInv
<1>7. CASE \E params \in Batches([key : Keys]) : rte_table_acl_entry_delete_bulk(params)
  BY <1>7, DeleteBulkKeepsInv
<1>8. CASE AddBulkKey \/ AddBulkBuild
  BY <1>8, AddBulkKeyKeepsInv, AddBulkBuildKeepsInv
<1>9. CASE DeleteBulkKey \/ DeleteBulkBuild
  BY <1>9, DeleteBulkKeyKeepsInv, DeleteBulkBuildKeepsInv
<1> QED
  BY <1>1, <1>2, <1>3, <1>4, <1>5, <1>6, <1>7, <1>8, <1>9 DEF Next

(***************************************************************************)
(* The inductive invariant holds in every reachable state, and with it the *)
(* types and the correctness of every error path.                          *)
(***************************************************************************)
THEOREM AlwaysInv == Spec => []Inv
BY InitInv, NextKeepsInv, PTL DEF Spec

(***************************************************************************)
(* No key ever has two rules, whatever batches are added.                  *)
(***************************************************************************)
THEOREM AlwaysKeysAreUnique == Spec => []KeysAreUnique
<1>1. Inv => KeysAreUnique
  BY DEF Inv
<1> QED
  BY AlwaysInv, <1>1, PTL

(***************************************************************************)
(* The compiled context holds the rules of the list, always.               *)
(***************************************************************************)
THEOREM AlwaysContextMatchesList == Spec => []ContextMatchesList
<1>1. Inv => ContextMatchesList
  BY DEF Inv, ContextInv
<1> QED
  BY AlwaysInv, <1>1, PTL

(***************************************************************************)
(* At every key of a batch, repeated keys included, the error path of the  *)
(* bulk operations would give back the rule list it started from.          *)
(***************************************************************************)
THEOREM AlwaysBulkIsUndoable == Spec => []BulkIsUndoable
<1>1. Inv => BulkIsUndoable
  BY DEF Inv
<1> QED
  BY AlwaysInv, <1>1, PTL

(***************************************************************************)
(* The library never holds a context other than the live one.              *)
(***************************************************************************)
THEOREM AlwaysOnlyLiveContextExists == Spec => []OnlyLiveContextExists
<1>1. Inv => OnlyLiveContextExists
  BY DEF Inv, ContextInv
<1> QED
  BY AlwaysInv, <1>1, PTL

(***************************************************************************)
(* A lookup between calls returns a matching rule of the smallest          *)
(* priority number, and misses only when no rule matches.                  *)
(***************************************************************************)
THEOREM AlwaysLookupHonoursPriority == Spec => []LookupHonoursPriority
<1>1. ASSUME Inv, Idle, NEW pkt \in SUBSET Keys
      PROVE  LET matching == {i \in Slots : acl_rule_list[i] # NULL
                                             /\ acl_rule_list[i].key \in pkt}
             IN  rte_table_acl_lookup(pkt) =
                   {i \in matching : \A j \in matching :
                      acl_rule_list[i].priority <= acl_rule_list[j].priority}
  <2> DEFINE used == {i \in Slots : acl_rule_list[i] # NULL}
             rule(i) == [pos |-> i, key |-> acl_rule_list[i].key,
                         priority |-> AclPriority(acl_rule_list[i].priority)]
  <2>1. LiveRules = {rule(i) : i \in used}
    BY <1>1 DEF Inv, ContextInv, ContextMatchesList, ListBefore, CompiledRules
  <2>2. \A i \in used : acl_rule_list[i].priority \in Int
    BY <1>1 DEF Inv, TypeOK, Rule
  <2>3. \A i, j \in used : rule(j).priority <= rule(i).priority
                          <=> acl_rule_list[i].priority <= acl_rule_list[j].priority
    BY <2>2, PriorityAssumption DEF AclPriority
  <2>4. \A i \in used : rule(i).pos = i /\ rule(i).key = acl_rule_list[i].key
    OBVIOUS
  <2> HIDE DEF rule
  <2>5. rte_table_acl_lookup(pkt) =
          {i \in used : /\ rule(i).key \in pkt
                        /\ \A j \in used : rule(j).key \in pkt
                                => rule(j).priority <= rule(i).priority}
    BY <2>1, <2>4 DEF rte_table_acl_lookup
  <2> QED
    BY <2>3, <2>4, <2>5
<1>2. Inv => LookupHonoursPriority
  BY <1>1 DEF LookupHonoursPriority
<1> QED
  BY AlwaysInv, <1>2, PTL
-----------------------------------------------------------------------------
(***************************************************************************)
(* What a bulk call in progress whose keys are distinct has done so far.   *)
(***************************************************************************)
KeyAdded(j) ==
    IF op.found[j]
      THEN /\ op.pos[j] = 0
           /\ \E i \in SlotsOf(op.list, op.params[j].key) : memory[i] = op.params[j].entry
      ELSE /\ SlotsOf(op.list, op.params[j].key) = {}
           /\ op.pos[j] \in SlotsOf(acl_rule_list, op.params[j].key)

AddedSoFar ==
    /\ \A j \in DOMAIN op.params : IF j < op.i THEN KeyAdded(j) ELSE ~op.found[j]
    /\ \A i \in Slots : \/ memory[i] = op.mem[i]
                        \/ op.list[i] # NULL /\ op.list[i].key \in KeySet(op.params)

KeyDeleted(j) ==
    /\ SlotsOf(acl_rule_list, op.params[j].key) = {}
    /\ SlotsOf(op.list, op.params[j].key) = {op.pos[j]} \ {0}

DeletedSoFar ==
    /\ memory = op.mem
    /\ \A i \in Slots : acl_rule_list[i] \in {op.list[i], NULL}
    /\ \A j \in DOMAIN op.params : ~op.found[j] /\ (j < op.i => KeyDeleted(j))

Progress ==
    ~Idle => /\ ret = NoCall
             /\ Distinct(op.params) => IF op.call = "add_bulk" THEN AddedSoFar ELSE DeletedSoFar

\* A call that has ended or not begun has nothing in progress.
LEMMA IdleMakesProgress == Idle' => Progress'
BY DEF Progress

(***************************************************************************)
(* The slot whose entry is replaced is the one slot of the key.            *)
(***************************************************************************)
LEMMA LowestOfKey ==
    ASSUME NEW list \in List, UniqueKeys(list), NEW k, SlotsOf(list, k) # {}
    PROVE  SlotsOf(list, k) = {Lowest(SlotsOf(list, k))} /\ Lowest(SlotsOf(list, k)) \in Slots
<1>1. PICK i \in Slots : i \in SlotsOf(list, k)
  BY DEF SlotsOf
<1>2. SlotsOf(list, k) = {i}
  BY <1>1 DEF SlotsOf, UniqueKeys
<1>3. i <= i
  BY NRulesAssumption DEF Slots
<1>4. Lowest({i}) = i
  BY <1>3 DEF Lowest
<1> QED
  BY <1>2, <1>4

(***************************************************************************)
(* A slot this bulk add has filled was free before and holds one of its    *)
(* keys; the others are as they were.                                      *)
(***************************************************************************)
LEMMA AddTouched ==
    ASSUME Inv, op.call = "add_bulk", AddedSoFar, NEW i \in Slots
    PROVE  /\ i \notin Touched => acl_rule_list[i] = op.list[i]
           /\ i \in Touched => /\ op.list[i] = NULL
                               /\ \E j \in DOMAIN op.params : /\ j < op.i /\ op.pos[j] = i
                                                              /\ i \in SlotsOf(acl_rule_list, op.params[j].key)
<1>1. ~Idle /\ Undone = op.list
  BY DEF Idle, Inv, BulkIsUndoable
<1>2. op.list[i] = IF i \in Touched THEN NULL ELSE acl_rule_list[i]
  BY <1>1 DEF Undone
<1>3. /\ 0 \notin Slots /\ DOMAIN op.pos = DOMAIN op.params /\ DOMAIN op.params = 1 .. Len(op.params)
      /\ Len(op.params) \in Nat /\ BulkTypeOK
      /\ \A j \in DOMAIN op.pos : j >= op.i => op.pos[j] = 0
  BY <1>1, BulkFacts
<1>4. ASSUME i \in Touched
      PROVE  \E j \in DOMAIN op.params : j < op.i /\ op.pos[j] = i /\ i \in SlotsOf(acl_rule_list, op.params[j].key)
  <2>1. PICK j \in DOMAIN op.params : op.pos[j] = i
    BY <1>3, <1>4 DEF Touched
  <2>2. op.i \in Nat /\ j \in Nat
    BY <1>3 DEF BulkTypeOK
  <2>3. j < op.i
    BY <1>3, <2>1, <2>2
  <2>4. KeyAdded(j)
    BY <2>3 DEF AddedSoFar
  <2>5. i \in SlotsOf(acl_rule_list, op.params[j].key)
    BY <1>3, <2>1, <2>4 DEF KeyAdded
  <2> QED
    BY <2>1, <2>3, <2>5
<1> QED
  BY <1>2, <1>4

LEMMA AddBulkKeyMakesProgress == Inv /\ Progress /\ AddBulkKey => Progress'
<1> SUFFICES ASSUME Inv, Progress, AddBulkKey, ~Idle' PROVE Progress'
  BY IdleMakesProgress
<1> DEFINE p == op.params[op.i]
           same == SlotsOf(acl_rule_list, p.key)
           free == Lowest(FreeSlots(acl_rule_list))
           list == [acl_rule_list EXCEPT ![free] = [key |-> p.key, priority |-> p.priority]]
<1>1. op.call = "add_bulk" /\ op.i <= Len(op.params) /\ ~Idle
  BY DEF AddBulkKey, Idle
<1>2. /\ BulkTypeOK /\ acl_rule_list \in List /\ UniqueKeys(acl_rule_list)
      /\ memory \in [Slots -> Entries \cup {NULL}]
      /\ op.list \in List
      /\ Len(op.params) \in Nat /\ DOMAIN op.params = 1 .. Len(op.params)
      /\ DOMAIN op.pos = DOMAIN op.params
      /\ \A j \in DOMAIN op.pos : j >= op.i => op.pos[j] = 0
      /\ 0 \notin Slots
  BY <1>1, BulkFacts
<1>3. /\ op.i \in DOMAIN op.params /\ op.i \in Nat /\ DOMAIN op.found = DOMAIN op.params
      /\ op = [call |-> op.call, params |-> op.params, i |-> op.i, pos |-> op.pos,
               found |-> op.found, list |-> op.list, mem |-> op.mem]
  BY <1>1, <1>2 DEF BulkTypeOK
<1>4. ret = NoCall /\ (Distinct(op.params) => AddedSoFar)
  BY <1>1 DEF Progress
<1>5. ASSUME Distinct(op.params) PROVE same = SlotsOf(op.list, p.key)
  <2>1. ASSUME NEW i \in Slots PROVE i \in same <=> i \in SlotsOf(op.list, p.key)
    <3>1. CASE i \notin Touched
      <4>1. acl_rule_list[i] = op.list[i]
        BY <1>1, <1>4, <1>5, <3>1, AddTouched
      <4> QED
        BY <4>1 DEF SlotsOf
    <3>2. CASE i \in Touched
      <4>1. op.list[i] = NULL
        BY <1>1, <1>4, <1>5, <3>2, AddTouched
      <4>2. PICK j \in DOMAIN op.params : j < op.i /\ i \in SlotsOf(acl_rule_list, op.params[j].key)
        BY <1>1, <1>4, <1>5, <3>2, AddTouched
      <4>3. op.params[j].key # p.key
        BY <1>2, <1>3, <1>5, <4>2 DEF Distinct
      <4> QED
        BY <4>1, <4>2, <4>3 DEF SlotsOf
    <3> QED
      BY <3>1, <3>2
  <2> QED
    BY <2>1 DEF SlotsOf
<1> HIDE DEF p
<1>6. CASE /\ same # {}
           /\ memory' = [memory EXCEPT ![Lowest(same)] = p.entry]
           /\ op' = [op EXCEPT !.found[op.i] = TRUE, !.i = @ + 1]
           /\ UNCHANGED <<acl_rule_list, ret>>
  <2> DEFINE s == Lowest(same)
  <2>1. /\ op'.call = op.call /\ op'.params = op.params /\ op'.i = op.i + 1 /\ op'.pos = op.pos
        /\ op'.found = [op.found EXCEPT ![op.i] = TRUE] /\ op'.list = op.list /\ op'.mem = op.mem
    BY <1>3, <1>6
  <2>2. same = {s} /\ s \in Slots
    BY <1>2, <1>6, LowestOfKey
  <2>3. memory' = [memory EXCEPT ![s] = p.entry]
    BY <1>6
  <2> HIDE DEF s
  <2>4. SUFFICES ASSUME Distinct(op.params) PROVE AddedSoFar'
    BY <1>1, <1>4, <1>6, <2>1 DEF Progress
  <2>5. AddedSoFar /\ same = SlotsOf(op.list, p.key)
    BY <1>4, <1>5, <2>4
  <2>6. ASSUME NEW j \in DOMAIN op.params PROVE IF j < op.i + 1 THEN KeyAdded(j)' ELSE ~op'.found[j]
    <3>1. j \in Nat
      BY <1>2
    <3>2. CASE j = op.i
      <4>1. op'.found[j] /\ op'.pos[j] = 0
        BY <1>2, <1>3, <2>1, <3>2
      <4>2. s \in SlotsOf(op'.list, op'.params[j].key) /\ memory'[s] = op'.params[j].entry
        BY <1>2, <2>1, <2>2, <2>3, <2>5, <3>2 DEF p
      <4>3. KeyAdded(j)'
        BY <4>1, <4>2 DEF KeyAdded
      <4> QED
        BY <1>3, <3>2, <4>3
    <3>3. CASE j < op.i
      <4>0. j # op.i
        BY <1>3, <3>1, <3>3
      <4>1. KeyAdded(j) /\ op'.found[j] = op.found[j]
        BY <1>3, <2>1, <2>5, <3>3, <4>0 DEF AddedSoFar
      <4>2. op.params[j].key # p.key
        BY <1>3, <2>4, <3>1, <3>3 DEF Distinct, p
      <4>3. \A i \in SlotsOf(op.list, op.params[j].key) : i # s /\ i \in Slots
        BY <2>2, <2>5, <4>2 DEF SlotsOf
      <4>4. \A i \in SlotsOf(op.list, op.params[j].key) : memory'[i] = memory[i]
        BY <1>2, <2>2, <2>3, <4>3
      <4>5. acl_rule_list' = acl_rule_list
        BY <1>6
      <4>6. KeyAdded(j)'
        BY <2>1, <4>1, <4>4, <4>5 DEF KeyAdded
      <4> QED
        BY <1>3, <3>1, <3>3, <4>6
    <3>4. CASE j > op.i
      <4>1. ~(j < op.i + 1) /\ ~(j < op.i) /\ j # op.i
        BY <1>3, <3>1, <3>4
      <4>2. ~op.found[j]
        BY <2>5, <4>1 DEF AddedSoFar
      <4>3. op'.found[j] = op.found[j]
        BY <1>3, <2>1, <4>1
      <4> QED
        BY <4>1, <4>2, <4>3
    <3> QED
      BY <1>3, <3>1, <3>2, <3>3, <3>4
  <2>7. ASSUME NEW i \in Slots
        PROVE  memory'[i] = op.mem[i] \/ (op.list[i] # NULL /\ op.list[i].key \in KeySet(op.params))
    <3>1. CASE i = s
      <4>1. op.list[i] # NULL /\ op.list[i].key = p.key
        BY <2>2, <2>5, <3>1 DEF SlotsOf
      <4> QED
        BY <1>3, <4>1 DEF KeySet, p
    <3>2. CASE i # s
      BY <1>2, <2>2, <2>3, <2>5, <3>2 DEF AddedSoFar
    <3> QED
      BY <3>1, <3>2
  <2> QED
    BY <2>1, <2>6, <2>7 DEF AddedSoFar, KeySet
<1>7. CASE /\ same = {} /\ FreeSlots(acl_rule_list) # {}
           /\ acl_rule_list' = list
           /\ op' = [op EXCEPT !.pos[op.i] = free, !.i = @ + 1]
           /\ UNCHANGED <<memory, ret>>
  <2>1. /\ op'.call = op.call /\ op'.params = op.params /\ op'.i = op.i + 1
        /\ op'.pos = [op.pos EXCEPT ![op.i] = free]
        /\ op'.found = op.found /\ op'.list = op.list /\ op'.mem = op.mem
    BY <1>3, <1>7
  <2>2. free \in Slots /\ acl_rule_list[free] = NULL
    BY <1>7, LowestIsIn DEF FreeSlots
  <2> HIDE DEF free
  <2>3. list[free] # NULL /\ list[free].key = p.key /\ \A i \in Slots \ {free} : list[i] = acl_rule_list[i]
    <3>1. list[free] = [key |-> p.key, priority |-> p.priority] /\ \A i \in Slots \ {free} : list[i] = acl_rule_list[i]
      BY <1>2, <2>2 DEF List
    <3>2. p.key \in Keys /\ p.priority \in Int
      BY <1>1, <1>2, <1>3, PriorityAssumption DEF Batches, AddParams, BulkTypeOK, p
    <3>3. [key |-> p.key, priority |-> p.priority] # NULL
      BY <3>2, NullAssumption
    <3> QED
      BY <3>1, <3>3
  <2>4. SUFFICES ASSUME Distinct(op.params) PROVE AddedSoFar'
    BY <1>1, <1>4, <1>7, <2>1 DEF Progress
  <2>5. AddedSoFar /\ SlotsOf(op.list, p.key) = {} /\ acl_rule_list' = list /\ memory' = memory
    BY <1>4, <1>5, <1>7, <2>4
  <2> HIDE DEF list
  <2>6. ASSUME NEW j \in DOMAIN op.params PROVE IF j < op.i + 1 THEN KeyAdded(j)' ELSE ~op'.found[j]
    <3>1. j \in Nat
      BY <1>2
    <3>2. CASE j = op.i
      <4>1. ~op'.found[j] /\ op'.pos[j] = free
        BY <1>2, <1>3, <2>1, <2>5, <3>2 DEF AddedSoFar
      <4>2. free \in SlotsOf(acl_rule_list', op'.params[j].key) /\ SlotsOf(op'.list, op'.params[j].key) = {}
        BY <2>1, <2>2, <2>3, <2>5, <3>2 DEF SlotsOf, p
      <4>3. KeyAdded(j)'
        BY <4>1, <4>2 DEF KeyAdded
      <4> QED
        BY <1>3, <3>2, <4>3
    <3>3. CASE j < op.i
      <4>1. KeyAdded(j) /\ op'.pos[j] = op.pos[j]
        BY <1>2, <1>3, <2>1, <2>5, <3>1, <3>3 DEF AddedSoFar
      <4>2. ASSUME op.pos[j] \in SlotsOf(acl_rule_list, op.params[j].key)
            PROVE  op.pos[j] \in SlotsOf(acl_rule_list', op.params[j].key)
        <5>1. op.pos[j] \in Slots \ {free}
          BY <2>2, <4>2 DEF SlotsOf
        <5> QED
          BY <2>3, <2>5, <4>2, <5>1 DEF SlotsOf
      <4>3. KeyAdded(j)'
        BY <2>1, <2>5, <4>1, <4>2 DEF KeyAdded
      <4> QED
        BY <1>3, <3>1, <3>3, <4>3
    <3>4. CASE j > op.i
      <4>1. ~(j < op.i + 1) /\ ~(j < op.i)
        BY <1>3, <3>1, <3>4
      <4> QED
        BY <2>1, <2>5, <4>1 DEF AddedSoFar
    <3> QED
      BY <1>3, <3>1, <3>2, <3>3, <3>4
  <2>7. \A i \in Slots : memory'[i] = op.mem[i] \/ (op.list[i] # NULL /\ op.list[i].key \in KeySet(op.params))
    BY <2>5 DEF AddedSoFar
  <2> QED
    BY <2>1, <2>6, <2>7 DEF AddedSoFar, KeySet
<1>8. CASE op' = NoOp
  BY <1>8 DEF Idle, NoOp
<1> QED
  BY <1>6, <1>7, <1>8 DEF AddBulkKey, Finish, p

(***************************************************************************)
(* A bulk delete clears the slots its keys had when it was called, and no  *)
(* others.                                                                 *)
(***************************************************************************)
LEMMA DeleteTouched ==
    ASSUME Inv, op.call = "delete_bulk", DeletedSoFar, NEW i \in Slots, acl_rule_list[i] # op.list[i]
    PROVE  \E j \in DOMAIN op.params : /\ j < op.i /\ op.list[i] # NULL
                                       /\ op.list[i].key = op.params[j].key
<1>1. ~Idle /\ Restored = op.list
  BY DEF Idle, Inv, BulkIsUndoable
<1>2. i \in Touched
  BY <1>1 DEF Restored
<1>3. /\ 0 \notin Slots /\ DOMAIN op.pos = DOMAIN op.params /\ DOMAIN op.params = 1 .. Len(op.params)
      /\ Len(op.params) \in Nat /\ BulkTypeOK
      /\ \A j \in DOMAIN op.pos : j >= op.i => op.pos[j] = 0
  BY <1>1, BulkFacts
<1>4. PICK j \in DOMAIN op.params : op.pos[j] = i
  BY <1>2, <1>3 DEF Touched
<1>5. op.i \in Nat /\ j \in Nat
  BY <1>3 DEF BulkTypeOK
<1>6. j < op.i
  BY <1>3, <1>4, <1>5
<1>7. SlotsOf(op.list, op.params[j].key) = {op.pos[j]} \ {0}
  BY <1>6 DEF DeletedSoFar, KeyDeleted
<1>8. i \in SlotsOf(op.list, op.params[j].key)
  BY <1>3, <1>4, <1>7
<1> QED
  BY <1>6, <1>8 DEF SlotsOf

LEMMA DeleteBulkKeyMakesProgress == Inv /\ Progress /\ DeleteBulkKey => Progress'
<1> SUFFICES ASSUME Inv, Progress, DeleteBulkKey PROVE Progress'
  OBVIOUS
<1> DEFINE k == op.params[op.i].key
           same == SlotsOf(acl_rule_list, k)
           list == [i \in Slots |-> IF i \in same THEN NULL ELSE acl_rule_list[i]]
           pos == IF same = {} THEN 0 ELSE Highest(same)
<1>1. op.call = "delete_bulk" /\ op.i <= Len(op.params) /\ ~Idle
  BY DEF DeleteBulkKey, Idle
<1>2. /\ BulkTypeOK /\ acl_rule_list \in List /\ UniqueKeys(acl_rule_list)
      /\ op.list \in List
      /\ Len(op.params) \in Nat /\ DOMAIN op.params = 1 .. Len(op.params)
      /\ DOMAIN op.pos = DOMAIN op.params
      /\ 0 \notin Slots
  BY <1>1, BulkFacts
<1>3. /\ op.i \in DOMAIN op.params /\ op.i \in Nat /\ op.params \in Batches([key : Keys])
      /\ op = [call |-> op.call, params |-> op.params, i |-> op.i, pos |-> op.pos,
               found |-> op.found, list |-> op.list, mem |-> op.mem]
  BY <1>1, <1>2 DEF BulkTypeOK
<1>4. ret = NoCall /\ (Distinct(op.params) => DeletedSoFar)
  BY <1>1 DEF Progress
<1>5. acl_rule_list' = list /\ op' = [op EXCEPT !.pos[op.i] = pos, !.i = @ + 1] /\ ret' = ret /\ memory' = memory
  BY DEF DeleteBulkKey
<1>6. k \in Keys
  BY <1>3 DEF Batches
<1> HIDE DEF k
<1>7. \/ same = {} /\ pos = 0
      \/ same = {pos} /\ pos \in Slots
  BY <1>2, <1>6, HighestOfKey
<1> HIDE DEF pos
<1>8. /\ op'.call = op.call /\ op'.params = op.params /\ op'.i = op.i + 1
      /\ op'.pos = [op.pos EXCEPT ![op.i] = pos]
      /\ op'.found = op.found /\ op'.list = op.list /\ op'.mem = op.mem
  BY <1>3, <1>5
<1>9. SUFFICES ASSUME Distinct(op.params) PROVE DeletedSoFar'
  <2>1. ~(op'.call = "add_bulk") /\ ret' = NoCall /\ op'.params = op.params
    BY <1>1, <1>4, <1>5, <1>8
  <2> QED
    BY <1>9, <2>1 DEF Progress
<1>10. DeletedSoFar
  BY <1>4, <1>9
<1>11. \A j \in DOMAIN op.params : j < op.i => op.params[j].key # k
  BY <1>2, <1>3, <1>9 DEF Distinct, k
<1>12. same = SlotsOf(op.list, k)
  <2>1. ASSUME NEW i \in Slots PROVE i \in same <=> i \in SlotsOf(op.list, k)
    <3>1. CASE acl_rule_list[i] = op.list[i]
      BY <3>1 DEF SlotsOf
    <3>2. CASE acl_rule_list[i] # op.list[i]
      <4>1. PICK j \in DOMAIN op.params : j < op.i /\ op.list[i].key = op.params[j].key
        BY <1>1, <1>10, <3>2, DeleteTouched
      <4>2. op.list[i].key # k
        BY <1>11, <4>1
      <4>3. acl_rule_list[i] = NULL
        BY <1>10, <3>2 DEF DeletedSoFar
      <4> QED
        BY <4>2, <4>3 DEF SlotsOf
    <3> QED
      BY <3>1, <3>2
  <2> QED
    BY <2>1 DEF SlotsOf
<1>13. ASSUME NEW j \in DOMAIN op.params, j < op.i + 1 PROVE KeyDeleted(j)'
  <2>1. j \in Nat
    BY <1>2
  <2>2. CASE j = op.i
    <3>1. SlotsOf(list, k) = {}
      BY DEF SlotsOf
    <3>2. SlotsOf(op.list, k) = {pos} \ {0}
      BY <1>2, <1>7, <1>12
    <3>3. op'.pos[j] = pos
      BY <1>2, <1>3, <1>8, <2>2
    <3> QED
      BY <1>5, <1>8, <2>2, <3>1, <3>2, <3>3 DEF KeyDeleted, k
  <2>3. CASE j # op.i
    <3>1. j < op.i
      BY <1>3, <1>13, <2>1, <2>3
    <3>2. KeyDeleted(j) /\ op'.pos[j] = op.pos[j]
      BY <1>2, <1>3, <1>8, <1>10, <2>3, <3>1 DEF DeletedSoFar
    <3>3. SlotsOf(list, op.params[j].key) = {}
      BY <3>2 DEF KeyDeleted, SlotsOf
    <3> QED
      BY <1>5, <1>8, <3>2, <3>3 DEF KeyDeleted
  <2> QED
    BY <2>2, <2>3
<1>14. \A i \in Slots : acl_rule_list'[i] \in {op.list[i], NULL}
  BY <1>5, <1>10 DEF DeletedSoFar
<1>15. memory' = op.mem /\ \A j \in DOMAIN op.params : ~op.found[j]
  BY <1>5, <1>10 DEF DeletedSoFar
<1> QED
  BY <1>8, <1>13, <1>14, <1>15 DEF DeletedSoFar

LEMMA StartMakesProgress ==
    ASSUME Inv, NEW call, NEW params, Start(call, params), UNCHANGED <<acl_rule_list, memory>>,
           \/ call = "add_bulk" /\ params \in Batches(AddParams)
           \/ call = "delete_bulk" /\ params \in Batches([key : Keys])
    PROVE  Progress'
<1>1. DOMAIN params = 1 .. Len(params) /\ Len(params) \in Nat
  BY BatchAssumption DEF Batches
<1>2. /\ op'.call = call /\ op'.params = params /\ op'.i = 1 /\ op'.found = [j \in DOMAIN params |-> FALSE]
      /\ op'.list = acl_rule_list /\ op'.mem = memory /\ ret' = NoCall
  BY DEF Start
<1>3. \A j \in DOMAIN params : ~(j < 1) /\ ~op'.found[j]
  BY <1>1, <1>2
<1>4. AddedSoFar' /\ DeletedSoFar'
  BY <1>2, <1>3 DEF AddedSoFar, DeletedSoFar
<1> QED
  BY <1>2, <1>4 DEF Progress

LEMMA NextMakesProgress == Inv /\ Progress /\ [Next]_vars => Progress'
<1> SUFFICES ASSUME Inv, Progress, [Next]_vars PROVE Progress'
  OBVIOUS
<1>1. CASE UNCHANGED vars
  BY <1>1 DEF vars, Progress, Idle, AddedSoFar, KeyAdded, DeletedSoFar, KeyDeleted
<1>2. CASE rte_table_acl_create \/ rte_table_acl_free
  BY <1>2, IdleMakesProgress DEF rte_table_acl_create, rte_table_acl_free, Clear, Idle, NoOp
<1>3. CASE \E k \in Keys, p \in Priorities, e \in Entries : rte_table_acl_entry_add(k, p, e)
  BY <1>3, IdleMakesProgress DEF rte_table_acl_entry_add, Idle
<1>4. CASE \E k \in Keys : rte_table_acl_entry_delete(k)
  BY <1>4, IdleMakesProgress DEF rte_table_acl_entry_delete, Idle
<1>5. ASSUME NEW params \in Batches(AddParams), rte_table_acl_entry_add_bulk(params) PROVE Progress'
  <2>1. CASE UNCHANGED op
    BY <1>5, <2>1, IdleMakesProgress DEF rte_table_acl_entry_add_bulk, Idle
  <2>2. CASE Start("add_bulk", params)
    BY <1>5, <2>2, StartMakesProgress DEF rte_table_acl_entry_add_bulk
  <2> QED
    BY <1>5, <2>1, <2>2 DEF rte_table_acl_entry_add_bulk
<1>6. ASSUME NEW params \in Batches([key : Keys]), rte_table_acl_entry_delete_bulk(params) PROVE Progress'
  <2>1. CASE UNCHANGED op
    BY <1>6, <2>1, IdleMakesProgress DEF rte_table_acl_entry_delete_bulk, Idle
  <2>2. CASE Start("delete_bulk", params)
    BY <1>6, <2>2, StartMakesProgress DEF rte_table_acl_entry_delete_bulk
  <2> QED
    BY <1>6, <2>1, <2>2 DEF rte_table_acl_entry_delete_bulk
<1>7. CASE AddBulkKey
  BY <1>7, AddBulkKeyMakesProgress
<1>8. CASE DeleteBulkKey
  BY <1>8, DeleteBulkKeyMakesProgress
<1>9. CASE AddBulkBuild \/ DeleteBulkBuild
  <2>1. op' = NoOp
    BY <1>9 DEF AddBulkBuild, DeleteBulkBuild, Finish
  <2> QED
    BY <2>1, IdleMakesProgress DEF Idle, NoOp
<1> QED
  BY <1>1, <1>2, <1>3, <1>4, <1>5, <1>6, <1>7, <1>8, <1>9 DEF Next

(***************************************************************************)
(* In every reachable state a bulk call in progress has done what its      *)
(* first keys ask for, and nothing else.                                   *)
(***************************************************************************)
THEOREM AlwaysProgress == Spec => []Progress
<1>1. Init => Progress
  BY DEF Init, Progress, Idle, NoOp
<1> QED
  BY <1>1, AlwaysInv, NextMakesProgress, PTL DEF Spec

-----------------------------------------------------------------------------
\* A call that reports an error.
LEMMA FailureKeepsRules ==
    ASSUME Inv, Progress, Next, ret'.call # "none", ~ret'.ok
    PROVE  acl_rule_list' = ListBefore
<1>1. CASE rte_table_acl_create \/ rte_table_acl_free
  BY <1>1 DEF rte_table_acl_create, rte_table_acl_free, Clear, NoCall
<1>2. ASSUME NEW k \in Keys, NEW p \in Priorities, NEW e \in Entries, rte_table_acl_entry_add(k, p, e)
      PROVE  acl_rule_list' = ListBefore
  <2> DEFINE list == [acl_rule_list EXCEPT ![Lowest(FreeSlots(acl_rule_list))] = [key |-> k, priority |-> p]]
  <2>1. Idle /\ ListBefore = acl_rule_list
    BY <1>2 DEF rte_table_acl_entry_add, ListBefore
  <2>2. \/ UNCHANGED acl_rule_list
        \/ ret'.ok
        \/ \E b \in rte_table_acl_build(list, 1 - name_id) : RollBack(acl_rule_list, b)
    <3>1. \A ok, found : Return("add", <<[key |-> k, priority |-> p, entry |-> e]>>, ok, <<found>>) => ret'.ok = ok
      BY DEF Return
    <3> QED
      BY <1>2, <3>1 DEF rte_table_acl_entry_add
  <2> QED
    BY <2>1, <2>2 DEF RollBack
<1>3. ASSUME NEW k \in Keys, rte_table_acl_entry_delete(k)
      PROVE  acl_rule_list' = ListBefore
  <2> DEFINE same == SlotsOf(acl_rule_list, k)
             list == [i \in Slots |-> IF i \in same THEN NULL ELSE acl_rule_list[i]]
             back == [list EXCEPT ![Highest(same)] = acl_rule_list[Highest(same)]]
  <2>1. Idle /\ ListBefore = acl_rule_list
    BY <1>3 DEF rte_table_acl_entry_delete, ListBefore
  <2>2. \/ UNCHANGED acl_rule_list
        \/ ret'.ok
        \/ same # {} /\ acl_rule_list' = back
    <3>1. \A ok, found : Return("delete", <<[key |-> k]>>, ok, <<found>>) => ret'.ok = ok
      BY DEF Return
    <3>2. \A l, b : RollBack(l, b) => acl_rule_list' = l
      BY DEF RollBack
    <3> HIDE DEF back
    <3>3. \/ UNCHANGED acl_rule_list
          \/ ret'.ok
          \/ same # {} /\ \E b : RollBack(back, b)
      BY <1>3, <3>1 DEF rte_table_acl_entry_delete, back
    <3> QED
      BY <3>2, <3>3
  <2>3. acl_rule_list \in List /\ UniqueKeys(acl_rule_list)
    BY DEF Inv, TypeOK, List, KeysAreUnique
  <2>4. CASE same # {} /\ acl_rule_list' = back
    <3>1. same = {Highest(same)}
      BY <2>3, <2>4, HighestOfKey
    <3> QED
      BY <2>1, <2>3, <2>4, <3>1 DEF List, SlotsOf
  <2> QED
    BY <2>1, <2>2, <2>4
<1>4. CASE \/ \E params \in Batches(AddParams) : rte_table_acl_entry_add_bulk(params)
           \/ \E params \in Batches([key : Keys]) : rte_table_acl_entry_delete_bulk(params)
  BY <1>4 DEF rte_table_acl_entry_add_bulk, rte_table_acl_entry_delete_bulk, ListBefore
<1>5. CASE AddBulkKey \/ AddBulkBuild
  <2>1. op.call = "add_bulk" /\ ~Idle
    BY <1>5 DEF AddBulkKey, AddBulkBuild, Idle
  <2>2. ret = NoCall /\ Undone = op.list /\ ListBefore = op.list
    BY <2>1 DEF Progress, Inv, BulkIsUndoable, ListBefore
  <2>3. ret' = ret \/ ret'.ok \/ acl_rule_list' = Undone
    BY <1>5 DEF AddBulkKey, AddBulkBuild, Finish, Return, RollBack
  <2> QED
    BY <2>2, <2>3 DEF NoCall
<1>6. CASE DeleteBulkKey \/ DeleteBulkBuild
  <2>1. op.call = "delete_bulk" /\ ~Idle
    BY <1>6 DEF DeleteBulkKey, DeleteBulkBuild, Idle
  <2>2. ret = NoCall /\ Restored = op.list /\ ListBefore = op.list
    BY <2>1 DEF Progress, Inv, BulkIsUndoable, ListBefore
  <2>3. ret' = ret \/ ret'.ok \/ acl_rule_list' = Restored
    BY <1>6 DEF DeleteBulkKey, DeleteBulkBuild, Finish, Return, RollBack
  <2> QED
    BY <2>2, <2>3 DEF NoCall
<1> QED
  BY <1>1, <1>2, <1>3, <1>4, <1>5, <1>6 DEF Next

(***************************************************************************)
(* A call that reports an error leaves the rules as it found them: full    *)
(* tables and failed compilations are undone, in the middle of a batch     *)
(* too.                                                                    *)
(***************************************************************************)
THEOREM FailedCallsKeepRules == Spec => FailedCallKeepsRules
<1>1. Inv /\ Progress /\ [Next]_vars
        => [ret'.call # "none" /\ ~ret'.ok => acl_rule_list' = ListBefore]_vars
  BY FailureKeepsRules
<1> QED
  BY <1>1, AlwaysInv, AlwaysProgress, PTL DEF Spec, FailedCallKeepsRules

-----------------------------------------------------------------------------
(***************************************************************************)
(* Calls that succeed.                                                     *)
(***************************************************************************)
LEMMA AddHasItsEffect ==
    ASSUME Inv, NEW k \in Keys, NEW p \in Priorities, NEW e \in Entries,
           rte_table_acl_entry_add(k, p, e), ret'.ok
    PROVE  HasItsEffect(ret', acl_rule_list', memory')
<1> DEFINE same == SlotsOf(acl_rule_list, k)
           free == Lowest(FreeSlots(acl_rule_list))
           list == [acl_rule_list EXCEPT ![free] = [key |-> k, priority |-> p]]
           param == [key |-> k, priority |-> p, entry |-> e]
<1>1. Idle /\ ListBefore = acl_rule_list /\ MemoryBefore = memory
  BY DEF rte_table_acl_entry_add, ListBefore, MemoryBefore
<1>2. acl_rule_list \in List /\ UniqueKeys(acl_rule_list) /\ memory \in [Slots -> Entries \cup {NULL}]
  BY DEF Inv, TypeOK, List, KeysAreUnique
<1>3. \/ /\ same # {} /\ memory' = [memory EXCEPT ![Lowest(same)] = e]
         /\ ret' = [call |-> "add", params |-> <<param>>, ok |-> TRUE, found |-> <<TRUE>>]
         /\ acl_rule_list' = acl_rule_list
      \/ /\ same = {} /\ FreeSlots(acl_rule_list) # {} /\ acl_rule_list' = list
         /\ memory' = [memory EXCEPT ![free] = e]
         /\ ret' = [call |-> "add", params |-> <<param>>, ok |-> TRUE, found |-> <<FALSE>>]
  <2>1. \A ok, found : Return("add", <<param>>, ok, <<found>>)
          => ret' = [call |-> "add", params |-> <<param>>, ok |-> ok, found |-> <<found>>] /\ ret'.ok = ok
    BY DEF Return
  <2> QED
    BY <2>1 DEF rte_table_acl_entry_add, Commit
<1> SUFFICES ASSUME NEW found \in BOOLEAN, NEW at \in Slots,
                    ret' = [call |-> "add", params |-> <<param>>, ok |-> TRUE, found |-> <<found>>],
                    found = (same # {}),
                    memory' = [memory EXCEPT ![at] = e],
                    at \in SlotsOf(acl_rule_list', k),
                    \A i \in Slots : i # at => acl_rule_list'[i] = acl_rule_list[i]
             PROVE  HasItsEffect(ret', acl_rule_list', memory')
  <2>1. CASE same # {}
    BY <1>2, <1>3, <2>1, LowestOfKey
  <2>2. CASE same = {}
    <3>1. free \in Slots /\ acl_rule_list[free] = NULL
      BY <1>3, <2>2, LowestIsIn DEF FreeSlots
    <3>2. [key |-> k, priority |-> p] \in Rule /\ [key |-> k, priority |-> p] # NULL
      BY PriorityAssumption, NullAssumption DEF Rule
    <3> HIDE DEF free
    <3>3. free \in SlotsOf(list, k) /\ \A i \in Slots : i # free => list[i] = acl_rule_list[i]
      BY <1>2, <3>1, <3>2 DEF SlotsOf, List
    <3> HIDE DEF list
    <3> QED
      BY <1>3, <2>2, <3>1, <3>3
  <2> QED
    BY <2>1, <2>2
<1>4. /\ ret'.call = "add" /\ ret'.params = <<param>> /\ ret'.found = <<found>>
      /\ DOMAIN ret'.params = {1} /\ ret'.params[1].key = k /\ ret'.params[1].entry = e /\ ret'.found[1] = found
  OBVIOUS
<1>5. k \in KeySet(ret'.params)
  BY <1>4 DEF KeySet
<1>6. memory'[at] = e /\ \A i \in Slots : i # at => memory'[i] = memory[i]
  BY <1>2
<1>7. acl_rule_list'[at] # NULL /\ acl_rule_list'[at].key = k
  BY DEF SlotsOf
<1> QED
  BY <1>1, <1>4, <1>5, <1>6, <1>7 DEF HasItsEffect

LEMMA DeleteHasItsEffect ==
    ASSUME Inv, NEW k \in Keys, rte_table_acl_entry_delete(k), ret'.ok
    PROVE  HasItsEffect(ret', acl_rule_list', memory')
<1> DEFINE same == SlotsOf(acl_rule_list, k)
           list == [i \in Slots |-> IF i \in same THEN NULL ELSE acl_rule_list[i]]
<1>1. Idle /\ ListBefore = acl_rule_list /\ MemoryBefore = memory /\ memory' = memory
  BY DEF rte_table_acl_entry_delete, ListBefore, MemoryBefore
<1>2. acl_rule_list \in List
  BY DEF Inv, TypeOK, List
<1>3. \/ /\ same = {} /\ acl_rule_list' = acl_rule_list
         /\ ret' = [call |-> "delete", params |-> <<[key |-> k]>>, ok |-> TRUE, found |-> <<FALSE>>]
      \/ /\ same # {} /\ acl_rule_list' = list
         /\ ret' = [call |-> "delete", params |-> <<[key |-> k]>>, ok |-> TRUE, found |-> <<TRUE>>]
  <2>1. \A ok, found : Return("delete", <<[key |-> k]>>, ok, <<found>>)
          => ret' = [call |-> "delete", params |-> <<[key |-> k]>>, ok |-> ok, found |-> <<found>>] /\ ret'.ok = ok
    BY DEF Return
  <2> QED
    BY <2>1 DEF rte_table_acl_entry_delete, Commit
<1>4. /\ ret'.call = "delete" /\ DOMAIN ret'.params = {1} /\ ret'.params[1].key = k
      /\ ret'.found[1] = (same # {})
  <2> DEFINE param == [key |-> k]
  <2>1. PICK found \in BOOLEAN :
          /\ ret' = [call |-> "delete", params |-> <<param>>, ok |-> TRUE, found |-> <<found>>]
          /\ found = (same # {})
    BY <1>3
  <2>2. param.key = k
    OBVIOUS
  <2> HIDE DEF param, same
  <2>3. ret'.call = "delete" /\ ret'.params = <<param>> /\ ret'.found = <<found>>
    BY <2>1
  <2>4. DOMAIN ret'.params = {1} /\ ret'.params[1] = param /\ ret'.found[1] = found
    BY <2>3
  <2> QED
    BY <2>1, <2>2, <2>3, <2>4
<1>5. k \in KeySet(ret'.params)
  BY <1>4 DEF KeySet
<1>6. SlotsOf(acl_rule_list', k) = {}
  <2>1. SlotsOf(list, k) = {}
    BY DEF SlotsOf
  <2> QED
    BY <1>3, <2>1
<1>7. \A i \in Slots : acl_rule_list'[i] = acl_rule_list[i] \/ i \in same
  BY <1>3
<1>8. \A i \in same : acl_rule_list[i] # NULL /\ acl_rule_list[i].key = k
  BY DEF SlotsOf
<1> QED
  BY <1>1, <1>4, <1>5, <1>6, <1>7, <1>8 DEF HasItsEffect

LEMMA AddBulkHasItsEffect ==
    ASSUME Inv, Progress, AddBulkBuild, ret'.ok, Distinct(ret'.params)
    PROVE  HasItsEffect(ret', acl_rule_list', memory')
<1> DEFINE new == [i \in Slots |->
                     IF i \in Touched
                       THEN op.params[CHOOSE j \in DOMAIN op.pos : op.pos[j] = i].entry
                       ELSE memory[i]]
<1>1. op.call = "add_bulk" /\ op.i > Len(op.params) /\ ~Idle
  BY DEF AddBulkBuild, Idle
<1>2. /\ ListBefore = op.list /\ MemoryBefore = op.mem /\ op.list \in List
      /\ Len(op.params) \in Nat /\ DOMAIN op.params = 1 .. Len(op.params) /\ BulkTypeOK
      /\ DOMAIN op.pos = DOMAIN op.params /\ 0 \notin Slots
  BY <1>1, BulkFacts DEF MemoryBefore
<1>3. /\ ret' = [call |-> "add_bulk", params |-> op.params, ok |-> TRUE, found |-> op.found]
      /\ acl_rule_list' = acl_rule_list
      /\ (Touched = {0} /\ memory' = memory) \/ memory' = new
  <2>1. \A ok, found : Finish(ok, found)
          => ret' = [call |-> "add_bulk", params |-> op.params, ok |-> ok, found |-> found] /\ ret'.ok = ok
    BY <1>1 DEF Finish, Return
  <2>2. \/ Touched = {0} /\ Finish(TRUE, op.found) /\ acl_rule_list' = acl_rule_list /\ memory' = memory
        \/ Finish(TRUE, op.found) /\ acl_rule_list' = acl_rule_list /\ memory' = new
        \/ Finish(FALSE, op.found)
    BY DEF AddBulkBuild, Commit
  <2> HIDE DEF new
  <2> QED
    BY <2>1, <2>2
<1>4. ret'.call = "add_bulk" /\ ret'.params = op.params /\ ret'.found = op.found
  BY <1>3
<1>5. AddedSoFar /\ Distinct(op.params)
  BY <1>1, <1>4 DEF Progress
<1>6. \A j \in DOMAIN op.params : KeyAdded(j)
  <2>1. \A j \in DOMAIN op.params : j < op.i
    BY <1>1, <1>2 DEF BulkTypeOK
  <2> QED
    BY <1>5, <2>1 DEF AddedSoFar
<1>7. ASSUME NEW i \in Slots, i \notin Touched
      PROVE  memory'[i] = memory[i] /\ acl_rule_list'[i] = op.list[i]
  BY <1>1, <1>3, <1>5, <1>7, AddTouched
<1>8. ASSUME NEW j \in DOMAIN op.params, op.pos[j] \in Slots
      PROVE  memory'[op.pos[j]] = op.params[j].entry
  <2> DEFINE i == op.pos[j]
             l == CHOOSE m \in DOMAIN op.pos : op.pos[m] = i
  <2>1. i \in Touched /\ memory' = new
    BY <1>2, <1>3, <1>8 DEF Touched
  <2>2. l \in DOMAIN op.params /\ op.pos[l] = i
    BY <1>2
  <2>3. memory'[i] = op.params[l].entry
    BY <1>8, <2>1
  <2> HIDE DEF l
  <2>4. KeyAdded(j) /\ KeyAdded(l)
    BY <1>6, <2>2
  <2>5. i \in SlotsOf(acl_rule_list, op.params[j].key) /\ i \in SlotsOf(acl_rule_list, op.params[l].key)
    BY <1>2, <1>8, <2>2, <2>4 DEF KeyAdded
  <2>6. l = j
    BY <1>5, <2>2, <2>5 DEF SlotsOf, Distinct
  <2> QED
    BY <2>3, <2>6
<1>9. ASSUME NEW j \in DOMAIN op.params
      PROVE  /\ op.found[j] = (SlotsOf(op.list, op.params[j].key) # {})
             /\ \E i \in SlotsOf(acl_rule_list', op.params[j].key) : memory'[i] = op.params[j].entry
  <2>1. op.found[j] \in BOOLEAN /\ KeyAdded(j)
    BY <1>2, <1>6 DEF BulkTypeOK
  <2>2. CASE op.found[j]
    <3>1. PICK i \in SlotsOf(op.list, op.params[j].key) : memory[i] = op.params[j].entry
      BY <2>1, <2>2 DEF KeyAdded
    <3>2. i \in Slots /\ op.list[i] # NULL /\ op.list[i].key = op.params[j].key
      BY <3>1 DEF SlotsOf
    <3>3. i \notin Touched
      BY <1>1, <1>5, <3>2, AddTouched
    <3>4. memory'[i] = op.params[j].entry /\ i \in SlotsOf(acl_rule_list', op.params[j].key)
      BY <1>7, <3>1, <3>2, <3>3 DEF SlotsOf
    <3> QED
      BY <2>1, <2>2, <3>1, <3>4
  <2>3. CASE ~op.found[j]
    <3>1. SlotsOf(op.list, op.params[j].key) = {} /\ op.pos[j] \in SlotsOf(acl_rule_list', op.params[j].key)
      BY <1>3, <2>1, <2>3 DEF KeyAdded
    <3>2. op.pos[j] \in Slots
      BY <3>1 DEF SlotsOf
    <3> QED
      BY <1>8, <2>1, <2>3, <3>1, <3>2
  <2> QED
    BY <2>1, <2>2, <2>3
<1>10. ASSUME NEW i \in Slots
       PROVE  \/ acl_rule_list'[i] = op.list[i] /\ memory'[i] = op.mem[i]
              \/ acl_rule_list'[i] # NULL /\ acl_rule_list'[i].key \in KeySet(op.params)
              \/ op.list[i] # NULL /\ op.list[i].key \in KeySet(op.params)
  <2>1. CASE i \notin Touched
    BY <1>5, <1>7, <2>1 DEF AddedSoFar
  <2>2. CASE i \in Touched
    <3>1. PICK j \in DOMAIN op.params : i \in SlotsOf(acl_rule_list, op.params[j].key)
      BY <1>1, <1>5, <2>2, AddTouched
    <3> QED
      BY <1>3, <3>1 DEF SlotsOf, KeySet
  <2> QED
    BY <2>1, <2>2
<1> QED
  BY <1>2, <1>4, <1>9, <1>10 DEF HasItsEffect

LEMMA DeleteBulkHasItsEffect ==
    ASSUME Inv, Progress, DeleteBulkBuild, ret'.ok, Distinct(ret'.params)
    PROVE  HasItsEffect(ret', acl_rule_list', memory')
<1> DEFINE there == [j \in DOMAIN op.pos |-> op.pos[j] # 0]
<1>1. op.call = "delete_bulk" /\ op.i > Len(op.params) /\ ~Idle
  BY DEF DeleteBulkBuild, Idle
<1>2. /\ ListBefore = op.list /\ MemoryBefore = op.mem /\ op.list \in List
      /\ Len(op.params) \in Nat /\ DOMAIN op.params = 1 .. Len(op.params) /\ BulkTypeOK
      /\ DOMAIN op.pos = DOMAIN op.params /\ 0 \notin Slots
  BY <1>1, BulkFacts DEF MemoryBefore
<1>3. PICK found : /\ ret' = [call |-> "delete_bulk", params |-> op.params, ok |-> TRUE, found |-> found]
                   /\ (Touched = {0} /\ found = op.found) \/ found = there
  BY <1>1 DEF DeleteBulkBuild, Finish, Return
<1>4. ret'.call = "delete_bulk" /\ ret'.params = op.params /\ ret'.found = found
      /\ acl_rule_list' = acl_rule_list /\ memory' = memory
  <2>1. ret'.call = "delete_bulk" /\ ret'.params = op.params /\ ret'.found = found /\ ret'.ok
    BY <1>3
  <2> QED
    BY <2>1 DEF DeleteBulkBuild, Finish, Return, Commit
<1>5. DeletedSoFar /\ Distinct(op.params)
  BY <1>1, <1>4 DEF Progress
<1>6. \A j \in DOMAIN op.params : KeyDeleted(j)
  <2>1. \A j \in DOMAIN op.params : j < op.i
    BY <1>1, <1>2 DEF BulkTypeOK
  <2> QED
    BY <1>5, <2>1 DEF DeletedSoFar
<1>7. ASSUME NEW j \in DOMAIN op.params PROVE found[j] = (SlotsOf(op.list, op.params[j].key) # {})
  <2>1. SlotsOf(op.list, op.params[j].key) # {} <=> op.pos[j] # 0
    BY <1>6 DEF KeyDeleted
  <2>2. found[j] = (op.pos[j] # 0)
    <3>1. CASE found = there
      BY <1>2, <3>1
    <3>2. CASE Touched = {0} /\ found = op.found
      <4>1. op.pos[j] = 0 /\ ~op.found[j] /\ op.found[j] \in BOOLEAN
        BY <1>2, <1>5, <3>2 DEF DeletedSoFar, Touched, BulkTypeOK
      <4> QED
        BY <3>2, <4>1
    <3> QED
      BY <1>3, <3>1, <3>2
  <2> QED
    BY <2>1, <2>2
<1>8. \A j \in DOMAIN op.params : SlotsOf(acl_rule_list', op.params[j].key) = {}
  BY <1>4, <1>6 DEF KeyDeleted
<1>9. ASSUME NEW i \in Slots
      PROVE  \/ acl_rule_list'[i] = op.list[i] /\ memory'[i] = op.mem[i]
             \/ op.list[i] # NULL /\ op.list[i].key \in KeySet(op.params)
  <2>1. CASE acl_rule_list[i] = op.list[i]
    BY <1>4, <1>5, <2>1 DEF DeletedSoFar
  <2>2. CASE acl_rule_list[i] # op.list[i]
    BY <1>1, <1>5, <2>2, DeleteTouched DEF KeySet
  <2> QED
    BY <2>1, <2>2
<1> QED
  BY <1>2, <1>4, <1>7, <1>8, <1>9 DEF HasItsEffect

(***************************************************************************)
(* A call on distinct keys that reports success has its effect and no      *)
(* other, for every number of slots and keys and every length of batch.    *)
(***************************************************************************)
THEOREM SuccessfulCallsHaveTheirEffect == Spec => SuccessfulCallHasItsEffect
<1>1. ASSUME Inv, Progress, Next, ret'.call # "none", ret'.ok, Distinct(ret'.params)
      PROVE  HasItsEffect(ret', acl_rule_list', memory')
  <2>1. CASE rte_table_acl_create \/ rte_table_acl_free
    BY <1>1, <2>1 DEF rte_table_acl_create, rte_table_acl_free, Clear, NoCall
  <2>2. CASE \E k \in Keys, p \in Priorities, e \in Entries : rte_table_acl_entry_add(k, p, e)
    BY <1>1, <2>2, AddHasItsEffect
  <2>3. CASE \E k \in Keys : rte_table_acl_entry_delete(k)
    BY <1>1, <2>3, DeleteHasItsEffect
  <2>4. CASE \/ \E params \in Batches(AddParams) : rte_table_acl_entry_add_bulk(params)
             \/ \E params \in Batches([key : Keys]) : rte_table_acl_entry_delete_bulk(params)
    BY <1>1, <2>4 DEF rte_table_acl_entry_add_bulk, rte_table_acl_entry_delete_bulk, Return, Start, NoCall
  <2>5. CASE AddBulkKey \/ DeleteBulkKey
    <3>1. ~Idle /\ ret = NoCall
      BY <1>1, <2>5 DEF AddBulkKey, DeleteBulkKey, Idle, Progress
    <3>2. ret' = ret \/ ~ret'.ok
      BY <2>5 DEF AddBulkKey, DeleteBulkKey, Finish, Return
    <3> QED
      BY <1>1, <3>1, <3>2 DEF NoCall
  <2>6. CASE AddBulkBuild
    BY <1>1, <2>6, AddBulkHasItsEffect
  <2>7. CASE DeleteBulkBuild
    BY <1>1, <2>7, DeleteBulkHasItsEffect
  <2> QED
    BY <1>1, <2>1, <2>2, <2>3, <2>4, <2>5, <2>6, <2>7 DEF Next
<1>2. Inv /\ Progress /\ [Next]_vars
        => [ret'.call # "none" /\ ret'.ok /\ Distinct(ret'.params)
              => HasItsEffect(ret', acl_rule_list', memory')]_vars
  BY <1>1
<1> QED
  BY <1>2, AlwaysInv, AlwaysProgress, PTL DEF Spec, SuccessfulCallHasItsEffect
=============================================================================
