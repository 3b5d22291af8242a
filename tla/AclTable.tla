------------------------------ MODULE AclTable ------------------------------
(***************************************************************************)
(* The ACL lookup table of the firewall (rte_table_acl): a list of rules   *)
(* in numbered slots, an action table with one entry per slot, and the     *)
(* low-level ACL context compiled from the list.  Every change of the rule *)
(* set compiles a second context under the other of two names and then     *)
(* frees the live one; a failed compilation rolls the list back.           *)
(*                                                                         *)
(* A bulk operation takes one step per key and one for the compilation, as *)
(* the loops of the code do; single operations take one step.  Keys stand  *)
(* for the five field values compared by memcmp.                           *)
(***************************************************************************)
EXTENDS Integers, Sequences

CONSTANTS Keys, Entries,
          NRules,          \* rte_table_acl_params.n_rules
          MaxPriority,     \* RTE_ACL_MAX_PRIORITY
          Priorities,      \* the priorities callers pass: any int32_t
          MaxBatch,        \* bound on n_keys of a bulk operation
          NULL

ASSUME NRulesAssumption == NRules \in Nat \ {0}
ASSUME PriorityAssumption == MaxPriority \in Nat /\ Priorities \subseteq Int
ASSUME BatchAssumption == MaxBatch \in Nat
ASSUME NullAssumption ==
    NULL \notin Entries /\ NULL \notin [key : Keys, priority : Int] /\ NULL \notin {0, 1}

VARIABLES table,           \* whether the table exists
          acl_rule_list,   \* slot -> rule, or NULL when the slot is free
          memory,          \* slot -> entry of the action table
          acl_list,        \* the library's contexts: name -> rules, {} when there is none
          ctx,             \* name of the live context, or NULL
          name_id,         \* the name used last
          op,              \* the bulk operation in progress
          ret              \* the last call that returned, and what it returned

vars == <<table, acl_rule_list, memory, acl_list, ctx, name_id, op, ret>>

Names == {0, 1}

(***************************************************************************)
(* Slot 0 is never used: userdata 0 means "no match" to the lookup.        *)
(***************************************************************************)
Slots == 1 .. NRules - 1
Rule == [key : Keys, priority : Int]
AclRule == [pos : Slots, key : Keys, priority : Int]

AddParams == [key : Keys, priority : Priorities, entry : Entries]

Lowest(S) == CHOOSE i \in S : \A j \in S : i <= j
Highest(S) == CHOOSE i \in S : \A j \in S : i >= j

FreeSlots(list) == {i \in Slots : list[i] = NULL}
SlotsOf(list, k) == {i \in Slots : list[i] # NULL /\ list[i].key = k}

-----------------------------------------------------------------------------
(***************************************************************************)
(* The low-level ACL library.  Outside of a compilation every context has  *)
(* at least one rule, so {} stands for a name that has no context.         *)
(***************************************************************************)
\* Faulty variant: the priority is passed on as it is.
AclPriority_not_reversed(priority) == priority

\* Priority 0 is the highest to callers and the lowest to the library.
AclPriority(priority) == MaxPriority - priority

acl_check_rule(priority) == priority >= 0 /\ priority <= MaxPriority

\* A context of that name that exists already is returned as it is.
rte_acl_create(name) == acl_list[name]

rte_acl_free(lib, name) == [lib EXCEPT ![name] = {}]

CompiledRules(list) ==
    {[pos |-> i, key |-> list[i].key, priority |-> AclPriority(list[i].priority)] :
        i \in {j \in Slots : list[j] # NULL}}

(***************************************************************************)
(* The possible outcomes of compiling a rule list under a name.  A rule    *)
(* with a priority outside the library's range makes it fail; so can the   *)
(* memory allocations of rte_acl_create and rte_acl_build.  Compiling no   *)
(* rule at all succeeds with the NULL context.                             *)
(***************************************************************************)
rte_table_acl_build(list, name) ==
    LET rules == CompiledRules(list)
        none == rte_acl_free(acl_list, name)
        failed == [ok |-> FALSE, lib |-> none, ctx |-> NULL]
        built == IF rules = {} THEN [ok |-> TRUE, lib |-> none, ctx |-> NULL]
                 ELSE [ok |-> TRUE, ctx |-> name,
                       lib |-> [acl_list EXCEPT ![name] = rte_acl_create(name) \cup rules]]
    IN  {failed} \cup (IF \A r \in rules : acl_check_rule(r.priority) THEN {built} ELSE {})

-----------------------------------------------------------------------------
NoOp == [call |-> "none"]
Idle == op.call = "none"

(***************************************************************************)
(* ret records a finished call: its parameters, its status and key_found.  *)
(***************************************************************************)
NoCall == [call |-> "none"]

Return(call, params, ok, found) ==
    ret' = [call |-> call, params |-> params, ok |-> ok, found |-> found]

Init ==
    /\ table = FALSE
    /\ acl_rule_list = [i \in Slots |-> NULL]
    /\ memory = [i \in Slots |-> NULL]
    /\ acl_list = [n \in Names |-> {}]
    /\ ctx = NULL
    /\ name_id = 1
    /\ op = NoOp
    /\ ret = NoCall

\* The zeroed memory of a new table; freed memory is read by nobody.
Clear ==
    /\ acl_rule_list' = [i \in Slots |-> NULL]
    /\ memory' = [i \in Slots |-> NULL]
    /\ ctx' = NULL
    /\ name_id' = 1
    /\ op' = NoOp
    /\ ret' = NoCall

rte_table_acl_create ==
    /\ ~table
    /\ table' = TRUE
    /\ Clear
    /\ UNCHANGED acl_list

rte_table_acl_free ==
    /\ table /\ Idle
    /\ table' = FALSE
    /\ acl_list' = IF ctx # NULL THEN rte_acl_free(acl_list, ctx) ELSE acl_list
    /\ Clear

\* Faulty variant: the live context is not released.
Commit_without_free(list, b) ==
    /\ acl_rule_list' = list
    /\ acl_list' = b.lib
    /\ ctx' = b.ctx
    /\ name_id' = 1 - name_id

\* Faulty variant: the rule is compiled but not kept.
Commit_loses_list(list, b) ==
    /\ acl_list' = IF ctx # NULL THEN rte_acl_free(b.lib, ctx) ELSE b.lib
    /\ ctx' = b.ctx
    /\ name_id' = 1 - name_id
    /\ UNCHANGED acl_rule_list

(***************************************************************************)
(* The new context replaces the live one, which is freed.                  *)
(***************************************************************************)
Commit(list, b) ==
    /\ acl_rule_list' = list
    /\ acl_list' = IF ctx # NULL THEN rte_acl_free(b.lib, ctx) ELSE b.lib
    /\ ctx' = b.ctx
    /\ name_id' = 1 - name_id

\* Faulty variant: only the name is rolled back.
RollBack_forgets_rules(list, b) ==
    /\ acl_list' = b.lib
    /\ UNCHANGED <<acl_rule_list, ctx, name_id>>

(***************************************************************************)
(* After a failed compilation: the list and the name go back.              *)
(***************************************************************************)
RollBack(list, b) ==
    /\ acl_rule_list' = list
    /\ acl_list' = b.lib
    /\ UNCHANGED <<ctx, name_id>>

\* Faulty variant: the free slot is taken although the key has a slot.
entry_add_without_search(k, priority, entry) ==
    LET returns(ok, found) ==
          Return("add", <<[key |-> k, priority |-> priority, entry |-> entry]>>,
                 ok, <<found>>)
        free == Lowest(FreeSlots(acl_rule_list))
        list == [acl_rule_list EXCEPT ![free] = [key |-> k, priority |-> priority]]
    IN  /\ table /\ Idle
        /\ UNCHANGED <<table, op>>
        /\ FreeSlots(acl_rule_list) # {}
        /\ \E b \in rte_table_acl_build(list, 1 - name_id) :
               \/ b.ok /\ Commit(list, b) /\ memory' = [memory EXCEPT ![free] = entry]
                       /\ returns(TRUE, FALSE)
               \/ ~b.ok /\ RollBack(acl_rule_list, b) /\ UNCHANGED memory
                        /\ returns(FALSE, FALSE)

(***************************************************************************)
(* Add one rule.  When the key is in the table only its entry is replaced. *)
(***************************************************************************)
rte_table_acl_entry_add(k, priority, entry) ==
    LET returns(ok, found) ==
          Return("add", <<[key |-> k, priority |-> priority, entry |-> entry]>>,
                 ok, <<found>>)
        same == SlotsOf(acl_rule_list, k)
        free == Lowest(FreeSlots(acl_rule_list))
        list == [acl_rule_list EXCEPT ![free] = [key |-> k, priority |-> priority]]
    IN  /\ table /\ Idle
        /\ UNCHANGED <<table, op>>
        /\ \/ /\ \/ priority > MaxPriority
                 \/ same = {} /\ FreeSlots(acl_rule_list) = {}
              /\ returns(FALSE, FALSE)
              /\ UNCHANGED <<acl_rule_list, memory, acl_list, ctx, name_id>>
           \/ /\ priority <= MaxPriority /\ same # {}
              /\ memory' = [memory EXCEPT ![Lowest(same)] = entry]
              /\ returns(TRUE, TRUE)
              /\ UNCHANGED <<acl_rule_list, acl_list, ctx, name_id>>
           \/ /\ priority <= MaxPriority /\ same = {} /\ FreeSlots(acl_rule_list) # {}
              /\ \E b \in rte_table_acl_build(list, 1 - name_id) :
                   \/ /\ b.ok
                      /\ Commit(list, b)
                      /\ memory' = [memory EXCEPT ![free] = entry]
                      /\ returns(TRUE, FALSE)
                   \/ /\ ~b.ok
                      /\ RollBack(acl_rule_list, b)
                      /\ UNCHANGED memory
                      /\ returns(FALSE, FALSE)

(***************************************************************************)
(* Delete one rule.  Every slot with the key is cleared; a failure puts    *)
(* back the last one.                                                      *)
(***************************************************************************)
rte_table_acl_entry_delete(k) ==
    LET returns(ok, found) ==
          Return("delete", <<[key |-> k]>>, ok, <<found>>)
        same == SlotsOf(acl_rule_list, k)
        list == [i \in Slots |-> IF i \in same THEN NULL ELSE acl_rule_list[i]]
    IN  /\ table /\ Idle
        /\ UNCHANGED <<table, memory, op>>
        /\ \/ /\ same = {}
              /\ returns(TRUE, FALSE)
              /\ UNCHANGED <<acl_rule_list, acl_list, ctx, name_id>>
           \/ /\ same # {}
              /\ \E b \in rte_table_acl_build(list, 1 - name_id) :
                   \/ b.ok /\ Commit(list, b) /\ returns(TRUE, TRUE)
                   \/ /\ ~b.ok
                      /\ RollBack([list EXCEPT ![Highest(same)] =
                                      acl_rule_list[Highest(same)]], b)
                      /\ returns(FALSE, FALSE)

-----------------------------------------------------------------------------
(***************************************************************************)
(* Bulk operations.  op.pos is rule_pos (0: no slot taken or cleared for   *)
(* this key), op.list and op.mem are the table the operation started from. *)
(***************************************************************************)
Start(call, params) ==
    /\ op' = [call |-> call, params |-> params, i |-> 1,
              pos |-> [j \in DOMAIN params |-> 0],
              found |-> [j \in DOMAIN params |-> FALSE],
              list |-> acl_rule_list, mem |-> memory]
    /\ ret' = NoCall

Finish(ok, found) ==
    /\ op' = NoOp
    /\ Return(op.call, op.params, ok, found)

Touched == {op.pos[j] : j \in DOMAIN op.pos}

\* acl_rule_list[rule_pos[i]] = NULL for every slot this operation filled
Undone == [i \in Slots |-> IF i \in Touched THEN NULL ELSE acl_rule_list[i]]

\* acl_rule_list[rule_pos[i]] = deleted_rules[i]
Restored == [i \in Slots |-> IF i \in Touched THEN op.list[i] ELSE acl_rule_list[i]]

(***************************************************************************)
(* The parameter checks of both bulk calls: no keys, or a priority that is *)
(* too high, is an error before anything is touched.                       *)
(***************************************************************************)
rte_table_acl_entry_add_bulk(params) ==
    /\ table /\ Idle
    /\ \/ /\ params = <<>> \/ \E j \in DOMAIN params : params[j].priority > MaxPriority
          /\ Return("add_bulk", params, FALSE, <<>>)
          /\ UNCHANGED op
       \/ /\ params # <<>>
          /\ \A j \in DOMAIN params : params[j].priority <= MaxPriority
          /\ Start("add_bulk", params)
    /\ UNCHANGED <<table, acl_rule_list, memory, acl_list, ctx, name_id>>

rte_table_acl_entry_delete_bulk(params) ==
    /\ table /\ Idle
    /\ \/ /\ params = <<>>
          /\ Return("delete_bulk", params, FALSE, <<>>)
          /\ UNCHANGED op
       \/ /\ params # <<>>
          /\ Start("delete_bulk", params)
    /\ UNCHANGED <<table, acl_rule_list, memory, acl_list, ctx, name_id>>

(***************************************************************************)
(* One key of a bulk add.  A key that is present has its entry replaced at *)
(* once; with no free slot left the slots filled so far are emptied again. *)
(***************************************************************************)
AddBulkKey ==
    /\ op.call = "add_bulk" /\ op.i <= Len(op.params)
    /\ LET p == op.params[op.i]
           same == SlotsOf(acl_rule_list, p.key)
           free == Lowest(FreeSlots(acl_rule_list))
       IN  \/ /\ same # {}
              /\ memory' = [memory EXCEPT ![Lowest(same)] = p.entry]
              /\ op' = [op EXCEPT !.found[op.i] = TRUE, !.i = @ + 1]
              /\ UNCHANGED <<acl_rule_list, ret>>
           \/ /\ same = {} /\ FreeSlots(acl_rule_list) = {}
              /\ acl_rule_list' = Undone
              /\ Finish(FALSE, op.found)
              /\ UNCHANGED memory
           \/ /\ same = {} /\ FreeSlots(acl_rule_list) # {}
              /\ acl_rule_list' = [acl_rule_list EXCEPT ![free] =
                                     [key |-> p.key, priority |-> p.priority]]
              /\ op' = [op EXCEPT !.pos[op.i] = free, !.i = @ + 1]
              /\ UNCHANGED <<memory, ret>>
    /\ UNCHANGED <<table, acl_list, ctx, name_id>>

(***************************************************************************)
(* The end of a bulk add: nothing to compile when no slot was filled; the  *)
(* entries of new rules are written after the new context is live.         *)
(***************************************************************************)
AddBulkBuild ==
    /\ op.call = "add_bulk" /\ op.i > Len(op.params)
    /\ UNCHANGED table
    /\ \/ /\ Touched = {0}
          /\ Finish(TRUE, op.found)
          /\ UNCHANGED <<acl_rule_list, memory, acl_list, ctx, name_id>>
       \/ /\ Touched # {0}
          /\ \E b \in rte_table_acl_build(acl_rule_list, 1 - name_id) :
               \/ /\ b.ok
                  /\ Commit(acl_rule_list, b)
                  /\ memory' = [i \in Slots |->
                       IF i \in Touched
                         THEN op.params[CHOOSE j \in DOMAIN op.pos : op.pos[j] = i].entry
                         ELSE memory[i]]
                  /\ Finish(TRUE, op.found)
               \/ /\ ~b.ok
                  /\ RollBack(Undone, b)
                  /\ Finish(FALSE, op.found)
                  /\ UNCHANGED memory

\* Faulty variant: the position of a key that is not found again is lost.
DeleteBulkKey_overwrites_position ==
    /\ op.call = "delete_bulk" /\ op.i <= Len(op.params)
    /\ LET same == SlotsOf(acl_rule_list, op.params[op.i].key)
       IN  /\ acl_rule_list' = [i \in Slots |-> IF i \in same THEN NULL
                                                            ELSE acl_rule_list[i]]
           /\ op' = [op EXCEPT !.pos = [j \in DOMAIN @ |->
                                          IF same = {} THEN 0
                                          ELSE IF j = op.i THEN Highest(same) ELSE @[j]],
                               !.i = @ + 1]
    /\ UNCHANGED <<table, memory, acl_list, ctx, name_id, ret>>

DeleteBulkKey ==
    /\ op.call = "delete_bulk" /\ op.i <= Len(op.params)
    /\ LET same == SlotsOf(acl_rule_list, op.params[op.i].key)
       IN  /\ acl_rule_list' = [i \in Slots |-> IF i \in same THEN NULL
                                                            ELSE acl_rule_list[i]]
           /\ op' = [op EXCEPT !.pos[op.i] = IF same = {} THEN 0 ELSE Highest(same),
                               !.i = @ + 1]
    /\ UNCHANGED <<table, memory, acl_list, ctx, name_id, ret>>

DeleteBulkBuild ==
    /\ op.call = "delete_bulk" /\ op.i > Len(op.params)
    /\ UNCHANGED <<table, memory>>
    /\ \/ /\ Touched = {0}
          /\ Finish(TRUE, op.found)
          /\ UNCHANGED <<acl_rule_list, acl_list, ctx, name_id>>
       \/ /\ Touched # {0}
          /\ \E b \in rte_table_acl_build(acl_rule_list, 1 - name_id) :
               \/ /\ b.ok
                  /\ Commit(acl_rule_list, b)
                  /\ Finish(TRUE, [j \in DOMAIN op.pos |-> op.pos[j] # 0])
               \/ /\ ~b.ok
                  /\ RollBack(Restored, b)
                  /\ Finish(FALSE, op.found)

Batches(S) == UNION {[1 .. n -> S] : n \in 0 .. MaxBatch}

Next ==
    \/ rte_table_acl_create \/ rte_table_acl_free
    \/ \E k \in Keys, p \in Priorities, e \in Entries : rte_table_acl_entry_add(k, p, e)
    \/ \E k \in Keys : rte_table_acl_entry_delete(k)
    \/ \E params \in Batches(AddParams) : rte_table_acl_entry_add_bulk(params)
    \/ \E params \in Batches([key : Keys]) : rte_table_acl_entry_delete_bulk(params)
    \/ AddBulkKey \/ AddBulkBuild \/ DeleteBulkKey \/ DeleteBulkBuild

Spec == Init /\ [][Next]_vars

-----------------------------------------------------------------------------
(***************************************************************************)
(* The lookup of a packet that matches the keys of the set pkt: the slots  *)
(* the library may report (rules of equal priority tie), {} for a miss.    *)
(***************************************************************************)
LiveRules == IF ctx = NULL THEN {} ELSE acl_list[ctx]

rte_table_acl_lookup(pkt) ==
    {r.pos : r \in {s \in LiveRules :
                      /\ s.key \in pkt
                      /\ \A t \in LiveRules : t.key \in pkt => t.priority <= s.priority}}

-----------------------------------------------------------------------------
BulkTypeOK ==
    /\ \/ op.call = "add_bulk" /\ op.params \in Batches(AddParams)
       \/ op.call = "delete_bulk" /\ op.params \in Batches([key : Keys])
    /\ op.i \in 1 .. Len(op.params) + 1
    /\ op.pos \in [DOMAIN op.params -> Slots \cup {0}]
    /\ op.found \in [DOMAIN op.params -> BOOLEAN]
    /\ op.list \in [Slots -> Rule \cup {NULL}]
    /\ op.mem \in [Slots -> Entries \cup {NULL}]
    /\ op = [call |-> op.call, params |-> op.params, i |-> op.i, pos |-> op.pos,
             found |-> op.found, list |-> op.list, mem |-> op.mem]

TypeOK ==
    /\ table \in BOOLEAN
    /\ acl_rule_list \in [Slots -> Rule \cup {NULL}]
    /\ memory \in [Slots -> Entries \cup {NULL}]
    /\ acl_list \in [Names -> SUBSET AclRule]
    /\ ctx \in Names \cup {NULL}
    /\ name_id \in Names
    /\ op = NoOp \/ BulkTypeOK

(***************************************************************************)
(* A key never occupies two slots, even within a bulk operation: memcmp    *)
(* over the list finds the one rule there is.                              *)
(***************************************************************************)
UniqueKeys(list) ==
    \A i, j \in Slots :
        list[i] # NULL /\ list[j] # NULL /\ list[i].key = list[j].key => i = j

KeysAreUnique == UniqueKeys(acl_rule_list)

\* The table as it was when the call in progress was made.
ListBefore == IF Idle THEN acl_rule_list ELSE op.list
MemoryBefore == IF Idle THEN memory ELSE op.mem

(***************************************************************************)
(* The live context always holds exactly the rules of the list as it was   *)
(* before the operation in progress: commits and roll-backs never leave    *)
(* the list and the compiled table apart.                                  *)
(***************************************************************************)
ContextMatchesList ==
    LiveRules = CompiledRules(ListBefore)

(***************************************************************************)
(* Of the two names only that of the live context is in use, and it is the *)
(* name used last: a rebuild never finds (and adds its rules to) an        *)
(* existing context, and no context is leaked.                             *)
(***************************************************************************)
OnlyLiveContextExists ==
    \A n \in Names : (acl_list[n] # {} <=> ctx = n) /\ (ctx = n => name_id = n)

(***************************************************************************)
(* At every point of a bulk operation what its error path would do gives   *)
(* back the list it started from: rule_pos names exactly the slots that    *)
(* were changed, also when keys repeat within the batch.                   *)
(***************************************************************************)
BulkIsUndoable ==
    /\ op.call = "add_bulk" => Undone = op.list
    /\ op.call = "delete_bulk" => Restored = op.list

(***************************************************************************)
(* A call that reports an error leaves the rule set as it found it.        *)
(***************************************************************************)
FailedCallKeepsRules ==
    [][ret'.call # "none" /\ ~ret'.ok => acl_rule_list' = ListBefore]_vars

(***************************************************************************)
(* What "Roll back changes" in rte_table_acl_entry_add_bulk says: a bulk   *)
(* add that fails to compile leaves the entries of the installed rules     *)
(* alone.                                                                  *)
(***************************************************************************)
FailedBulkAddKeepsEntries ==
    [][ret'.call = "add_bulk" /\ ~ret'.ok /\ ~Idle /\ op.i > Len(op.params) =>
         \A i \in Slots : ListBefore[i] # NULL => memory'[i] = MemoryBefore[i]]_vars

KeySet(params) == {params[j].key : j \in DOMAIN params}
Distinct(params) == \A i, j \in DOMAIN params : params[i].key = params[j].key => i = j

(***************************************************************************)
(* A successful call whose keys are distinct has its effect and no other:  *)
(* added keys carry their entries and deleted keys are gone, key_found     *)
(* tells which were there before, and every other key keeps its slot, its  *)
(* rule and its entry.                                                     *)
(***************************************************************************)
HasItsEffect(r, list, mem) ==
    /\ \A j \in DOMAIN r.params :
         /\ r.found[j] = (SlotsOf(ListBefore, r.params[j].key) # {})
         /\ IF r.call \in {"add", "add_bulk"}
              THEN \E i \in SlotsOf(list, r.params[j].key) : mem[i] = r.params[j].entry
              ELSE SlotsOf(list, r.params[j].key) = {}
    /\ \A i \in Slots :
         \/ list[i] = ListBefore[i] /\ mem[i] = MemoryBefore[i]
         \/ list[i] # NULL /\ list[i].key \in KeySet(r.params)
         \/ ListBefore[i] # NULL /\ ListBefore[i].key \in KeySet(r.params)

SuccessfulCallHasItsEffect ==
    [][ret'.call # "none" /\ ret'.ok /\ Distinct(ret'.params)
         => HasItsEffect(ret', acl_rule_list', memory')]_vars

(***************************************************************************)
(* A packet gets the entry of a matching rule whose priority number, as it *)
(* was given when the rule was added, is the smallest; it misses only when *)
(* no installed rule matches.                                              *)
(***************************************************************************)
LookupHonoursPriority ==
    Idle =>
      \A pkt \in SUBSET Keys :
        LET matching == {i \in Slots : acl_rule_list[i] # NULL /\ acl_rule_list[i].key \in pkt}
        IN  rte_table_acl_lookup(pkt) =
              {i \in matching : \A j \in matching :
                 acl_rule_list[i].priority <= acl_rule_list[j].priority}
=============================================================================
