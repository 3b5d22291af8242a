---------------------------- MODULE FirewallCtl ----------------------------
(***************************************************************************)
(* The control plane of the firewall: the commands of the front end, which *)
(* keeps its own list of the rules it has installed, over the control      *)
(* channel, to the message handlers of the back end in the enclave, which  *)
(* change the ACL table and the default entry of the pipeline.             *)
(*                                                                         *)
(* A reply is written over its request in the same buffer and carries no   *)
(* trace of which request it answers.  A bulk request only points to       *)
(* arrays of the front end, which frees them when its command returns.     *)
(* The ACL table is the one of AclTable seen from outside: a bounded set   *)
(* of rules whose compilation may fail.                                    *)
(*                                                                         *)
(* A key stands for its source prefix and its protocol: the checks and the *)
(* masking are the same for the destination, and a bad port range is       *)
(* refused like a bad depth.  Nothing is done to the protocol.             *)
(***************************************************************************)
EXTENDS Integers, Sequences, FiniteSets

CONSTANTS AddrBits,      \* width of an address (32 in the code)
          Protos,        \* protocols: the bytes proto and proto_mask, never masked
          Ports,         \* output ports of the pipeline
          BadPort,       \* a port number >= n_ports_out
          Capacity,      \* rules the table can hold
          Ops,           \* the commands issued
          MaxBatch,      \* bound on the keys of a bulk command
          RingSlots, MaxCommands,
          NONE

ASSUME FirewallAssumption ==
    /\ AddrBits \in Nat /\ Capacity \in Nat /\ MaxBatch \in Nat
    /\ RingSlots \in Nat \ {0} /\ MaxCommands \in Nat
    /\ BadPort \notin Ports /\ NONE \notin Ports \cup {BadPort}

VARIABLES fe, issued, timeouts, answered,      \* as in ControlChannel
          msgq_in, be, msgq_out,
          cmd,             \* the request of the command in progress
          rules,           \* the front end's rule list: key -> ports of the nodes with that key
          default_rule,    \* the front end's default rule: a port, or NONE
          table,           \* the ACL table: key -> port of its entry, or NONE
          default_entry,   \* port of the table's default entry, NONE to drop
          arrays,          \* keys_found and entries_ptr of the bulk command in progress
          bulk_failed,     \* whether a bulk command has reported an error
          undefined        \* what undefined behaviour has happened: nothing goes on after it

chan == <<fe, issued, timeouts, answered, msgq_in, be, msgq_out>>
feState == <<rules, default_rule>>
beState == <<table, default_entry>>
vars == <<chan, cmd, feState, beState, arrays, bulk_failed, undefined>>

-----------------------------------------------------------------------------
(***************************************************************************)
(* Keys.                                                                   *)
(***************************************************************************)
RawKey == [src_ip : 0 .. 2^AddrBits - 1, src_ip_mask : 0 .. AddrBits + 1, proto : Protos]

\* src_ip &= src_ip_netmask; the protocol is left as it is, bits outside proto_mask included
normalize(key) ==
    [key EXCEPT !.src_ip = @ - (@ % 2^(AddrBits - key.src_ip_mask))]

key_check(key) == key.src_ip_mask <= AddrBits

Keys == {normalize(k) : k \in {r \in RawKey : key_check(r)}}

-----------------------------------------------------------------------------
(***************************************************************************)
(* The handlers of the back end: the possible effects of a request on the  *)
(* table and its answers.  found and foreign are what it writes to the     *)
(* arrays of a bulk request: keys_found, and whether entries_ptr[i] now    *)
(* points into the table.                                                  *)
(***************************************************************************)
Installed(t) == {k \in Keys : t[k] # NONE}

\* Faulty variant: one rule too many.
Full_off_by_one(t) == Cardinality(Installed(t)) > Capacity

Full(t) == Cardinality(Installed(t)) >= Capacity

Effect(ok, t, found, foreign) ==
    [ok |-> ok, table |-> t, found |-> found, foreign |-> foreign]

Nothing(args) == [i \in DOMAIN args |-> FALSE]

\* A priority that is too high or a compilation that fails: key_found is not
\* written and keeps the subtype of an add, 0.  Priorities are not modelled here.
Refused(args) == Effect(FALSE, table, Nothing(args), Nothing(args))

\* The same for a batch, or no memory for the copies of its keys: keys_found is
\* as the front end allocated it, uninitialised.
RefusedBatch(args) ==
    {Effect(FALSE, table, found, Nothing(args)) : found \in [DOMAIN args -> BOOLEAN]}

add_handler(args) ==
    LET k == args[1].key
        new == [table EXCEPT ![k] = args[1].port]
        added == Effect(TRUE, new, <<table[k] # NONE>>, <<TRUE>>)
    IN  IF table[k] = NONE /\ Full(table) THEN {Refused(args)}
                                         ELSE {Refused(args), added}

\* A delete that fails does not write key_found, which keeps the subtype, 1.
del_handler(args) ==
    LET k == args[1].key
    IN  IF table[k] = NONE THEN {Effect(TRUE, table, <<FALSE>>, <<FALSE>>)}
        ELSE {Effect(FALSE, table, <<TRUE>>, <<FALSE>>),
              Effect(TRUE, [table EXCEPT ![k] = NONE], <<TRUE>>, <<FALSE>>)}

\* Whether key i of a batch is found: in the table or earlier in the batch.
InBatch(args, i) == \E j \in 1 .. i - 1 : args[j].key = args[i].key

\* Faulty variant: only what was there before the batch is found.
BatchFound_in_table_only(args) == [i \in DOMAIN args |-> table[args[i].key] # NONE]

BatchFound(args) ==
    [i \in DOMAIN args |-> table[args[i].key] # NONE \/ InBatch(args, i)]

\* The entries of the rules that were there, after the first n keys of a batch.
Overwritten(args, n) ==
    [k \in Keys |->
       LET at == {i \in 1 .. n : args[i].key = k}
       IN  IF table[k] = NONE \/ at = {} THEN table[k]
           ELSE args[CHOOSE i \in at : \A j \in at : j <= i].port]

\* The entry of a new rule is written when the table is committed, from its first key.
Added(args) ==
    [k \in Keys |->
       LET at == {i \in DOMAIN args : args[i].key = k}
       IN  IF table[k] # NONE \/ at = {} THEN Overwritten(args, Len(args))[k]
           ELSE args[CHOOSE i \in at : \A j \in at : i <= j].port]

\* The keys processed before the table is full, all of them if it never is.
Processed(args) ==
    LET new(n) == {i \in 1 .. n : ~BatchFound(args)[i]}
        fits(n) == Cardinality(Installed(table)) + Cardinality(new(n)) <= Capacity
    IN  CHOOSE n \in 0 .. Len(args) :
          fits(n) /\ (n = Len(args) \/ ~fits(n + 1))

add_bulk_handler(args) ==
    LET found == BatchFound(args)
        n == Processed(args)
        failed(m) == Effect(FALSE, Overwritten(args, m),
                            [i \in DOMAIN args |-> i <= m /\ found[i]],
                            [i \in DOMAIN args |-> i <= m /\ found[i]])
        added == Effect(TRUE, Added(args), found, [i \in DOMAIN args |-> TRUE])
    IN  RefusedBatch(args) \cup
        (IF n < Len(args) THEN {failed(n)}
         ELSE IF \A i \in DOMAIN args : found[i] THEN {added}
         ELSE {failed(n), added})

del_bulk_handler(args) ==
    LET found == [i \in DOMAIN args |-> table[args[i].key] # NONE /\ ~InBatch(args, i)]
        removed == [k \in Keys |-> IF \E i \in DOMAIN args : args[i].key = k
                                     THEN NONE ELSE table[k]]
    IN  RefusedBatch(args) \cup {Effect(TRUE, removed, found, Nothing(args))}

\* The table drops what it does not find until it has a default entry.
DefaultEntryAfter(m) ==
    CASE m.op = "add_default" -> m.args[1].port
      [] m.op = "del_default" -> NONE
      [] OTHER -> default_entry

Handler(m) ==
    CASE m.op = "add" -> add_handler(m.args)
      [] m.op = "del" -> del_handler(m.args)
      [] m.op = "add_bulk" -> add_bulk_handler(m.args)
      [] m.op = "del_bulk" -> del_bulk_handler(m.args)
      [] OTHER -> {Effect(TRUE, table, Nothing(m.args), Nothing(m.args))}

(***************************************************************************)
(* The reply in the request's buffer: the status, the second word, which   *)
(* an add or delete sets to key_found and which otherwise still holds the  *)
(* subtype (any value above 1 is 2 here) or was never written, and whether *)
(* the pointer after it is not NULL: entry_ptr, the keys of a bulk         *)
(* request, bytes of the key, or uninitialised.                            *)
(***************************************************************************)
Replies(m, e) ==
    {[id |-> m.id, ok |-> e.ok, word |-> w, ptr |-> p] :
       w \in CASE m.op \in {"add", "del"} -> {IF e.found[1] THEN 1 ELSE 0}
               [] m.op = "ping" -> 0 .. 2
               [] OTHER -> {2},
       p \in IF m.op \in {"add", "add_bulk", "del_bulk", "add_default"}
               THEN {TRUE} ELSE BOOLEAN}

-----------------------------------------------------------------------------
NoMsg == [id |-> 0]
NoArrays == [found |-> <<>>, foreign |-> <<>>, written |-> FALSE]

Init ==
    /\ fe = "idle" /\ issued = 0 /\ timeouts = 0 /\ answered = 0
    /\ msgq_in = <<>> /\ be = NoMsg /\ msgq_out = <<>>
    /\ cmd = NoMsg
    /\ rules = [k \in Keys |-> <<>>] /\ default_rule = NONE
    /\ table = [k \in Keys |-> NONE] /\ default_entry = NONE
    /\ arrays = NoArrays
    /\ bulk_failed = FALSE
    /\ undefined = {}

(***************************************************************************)
(* The front end: a command checks its arguments and, when they are good,  *)
(* writes a request.  The ones that do not get so far change nothing.      *)
(***************************************************************************)
Issue(op, args) ==
    /\ undefined = {}
    /\ fe = "idle" /\ issued < MaxCommands
    /\ op \in Ops
    /\ fe' = "send"
    /\ issued' = issued + 1
    /\ cmd' = [id |-> issued', op |-> op, args |-> args]
    /\ arrays' = [found |-> Nothing(args), foreign |-> Nothing(args), written |-> FALSE]
    /\ UNCHANGED <<timeouts, answered, msgq_in, be, msgq_out, feState, beState,
                   bulk_failed, undefined>>

\* app_pipeline_firewall_rule_find: the first node with this key, if there is one
Known(k) == rules[k] # <<>>

app_pipeline_firewall_add_rule(raw, port) ==
    /\ port \in Ports /\ key_check(raw)
    /\ Issue("add", <<[key |-> normalize(raw), port |-> port]>>)

\* A rule the front end does not know is not there.
app_pipeline_firewall_delete_rule(raw) ==
    /\ key_check(raw) /\ Known(normalize(raw))
    /\ Issue("del", <<[key |-> normalize(raw)]>>)

app_pipeline_firewall_add_bulk(batch) ==
    /\ \A i \in DOMAIN batch : batch[i].port \in Ports /\ key_check(batch[i].key)
    /\ Issue("add_bulk", [i \in DOMAIN batch |->
                            [key |-> normalize(batch[i].key), port |-> batch[i].port]])

app_pipeline_firewall_delete_bulk(batch) ==
    /\ \A i \in DOMAIN batch : key_check(batch[i])
    /\ Issue("del_bulk", [i \in DOMAIN batch |-> [key |-> normalize(batch[i])]])

app_pipeline_firewall_add_default_rule(port) ==
    /\ port \in Ports
    /\ Issue("add_default", <<[port |-> port]>>)

app_pipeline_firewall_delete_default_rule == Issue("del_default", <<>>)

app_pipeline_ping == Issue("ping", <<>>)

Send ==
    /\ undefined = {}
    /\ fe = "send" /\ Len(msgq_in) < RingSlots
    /\ msgq_in' = Append(msgq_in, cmd)
    /\ fe' = "recv"
    /\ UNCHANGED <<issued, timeouts, answered, be, msgq_out, cmd, feState, beState,
                   arrays, bulk_failed, undefined>>

-----------------------------------------------------------------------------
(***************************************************************************)
(* The front end takes a reply: whether it accepts it, and what it does.   *)
(***************************************************************************)
Bulk == cmd.op \in {"add_bulk", "del_bulk"}

AddAccepted(r) ==
    /\ r.ok /\ r.ptr
    /\ ~(Known(cmd.args[1].key) /\ r.word = 0)
    /\ ~(~Known(cmd.args[1].key) /\ r.word = 1)

\* Faulty variant: the status is not looked at.
DelAccepted_without_status(r) == r.word # 0

DelAccepted(r) == r.ok /\ r.word # 0

\* keys_found against the rule list, for what the command finds in the array
AddBulkAccepted(r, found) ==
    r.ok /\ \A i \in DOMAIN cmd.args : found[i] = Known(cmd.args[i].key)

\* Faulty variant: keys_found is not looked at.
DelBulkAccepted_without_found(r, found) == r.ok

DelBulkAccepted(r, found) == r.ok /\ \A i \in DOMAIN cmd.args : found[i]

Accepted(r, found) ==
    CASE cmd.op = "add" -> AddAccepted(r)
      [] cmd.op = "del" -> DelAccepted(r)
      [] cmd.op = "add_bulk" -> AddBulkAccepted(r, found)
      [] cmd.op = "del_bulk" -> DelBulkAccepted(r, found)
      [] cmd.op = "add_default" -> r.ok /\ r.ptr
      [] OTHER -> r.ok

\* Where key k is in the command, and the last and the n-th of these places.
Places(k) == {i \in DOMAIN cmd.args : cmd.args[i].key = k}
LastPlace(k) == CHOOSE i \in Places(k) : \A j \in Places(k) : j <= i
NthPlace(k, n) == CHOOSE i \in Places(k) : Cardinality({j \in Places(k) : j <= i}) = n

\* Every node was looked up, or allocated, before the request: a batch that repeats
\* a key the list does not have brings one node for each place.
NewNodes(k) == [n \in 1 .. Cardinality(Places(k)) |-> cmd.args[NthPlace(k, n)].port]

\* Faulty variant: earlier keys of a batch win.
RulesAfter_first_wins ==
    [k \in Keys |->
       IF cmd.op \notin {"add", "del", "add_bulk", "del_bulk"} \/ Places(k) = {} THEN rules[k]
       ELSE IF cmd.op \in {"del", "del_bulk"} THEN SubSeq(rules[k], 2, Len(rules[k]))
       ELSE IF Known(k) THEN [rules[k] EXCEPT ![1] = cmd.args[NthPlace(k, 1)].port]
       ELSE NewNodes(k)]

\* The rule list after the command.  The first node of a key is unlinked or, by the
\* last place of the key in a batch, overwritten; new nodes go to the tail.
RulesAfter ==
    [k \in Keys |->
       IF cmd.op \notin {"add", "del", "add_bulk", "del_bulk"} \/ Places(k) = {} THEN rules[k]
       ELSE IF cmd.op \in {"del", "del_bulk"} THEN SubSeq(rules[k], 2, Len(rules[k]))
       ELSE IF Known(k) THEN [rules[k] EXCEPT ![1] = cmd.args[LastPlace(k)].port]
       ELSE NewNodes(k)]

DefaultAfter ==
    CASE cmd.op = "add_default" -> cmd.args[1].port
      [] cmd.op = "del_default" -> NONE
      [] OTHER -> default_rule

(***************************************************************************)
(* What goes wrong in memory: the error path of a bulk add frees every     *)
(* entries_ptr[i], also those the table has made to point into itself; the *)
(* last loop of a bulk delete unlinks and frees a rule it may not have     *)
(* found, and one that a key named twice has already freed.                *)
(***************************************************************************)
MemoryErrors(accepted) ==
    (IF cmd.op = "add_bulk" /\ ~accepted /\ \E i \in DOMAIN cmd.args : arrays.foreign[i]
       THEN {"foreign free"} ELSE {}) \cup
    (IF cmd.op = "del_bulk" /\ accepted /\ \E i \in DOMAIN cmd.args : ~Known(cmd.args[i].key)
       THEN {"null rule"} ELSE {}) \cup
    (IF cmd.op = "del_bulk" /\ accepted
          /\ \E i \in DOMAIN cmd.args : Known(cmd.args[i].key) /\ InBatch(cmd.args, i)
       THEN {"freed rule"} ELSE {})

\* keys_found is not initialised before the back end has written it
KeysFound == IF arrays.written \/ ~Bulk THEN {arrays.found} ELSE [DOMAIN cmd.args -> BOOLEAN]

Receive ==
    /\ undefined = {}
    /\ fe = "recv" /\ msgq_out # <<>>
    /\ LET r == Head(msgq_out)
       IN  \E found \in KeysFound :
             LET ok == Accepted(r, found)
             IN  /\ rules' = IF ok THEN RulesAfter ELSE rules
                 /\ default_rule' = IF ok THEN DefaultAfter ELSE default_rule
                 /\ bulk_failed' = (bulk_failed \/ (Bulk /\ ~ok))
                 /\ undefined' = MemoryErrors(ok)
                 /\ answered' = r.id
    /\ msgq_out' = Tail(msgq_out)
    /\ fe' = "idle"
    /\ cmd' = NoMsg
    /\ arrays' = NoArrays
    /\ UNCHANGED <<issued, timeouts, msgq_in, be, beState>>

\* Faulty variant: what is in the reply ring is thrown away.
Timeout_drains ==
    /\ undefined = {}
    /\ fe = "recv"
    /\ fe' = "idle"
    /\ timeouts' = timeouts + 1
    /\ undefined' = MemoryErrors(FALSE)
    /\ bulk_failed' = (bulk_failed \/ Bulk)
    /\ cmd' = NoMsg
    /\ arrays' = NoArrays
    /\ msgq_out' = <<>>
    /\ UNCHANGED <<issued, answered, msgq_in, be, feState, beState>>

\* The command returns -1 and frees what it allocated.
Timeout ==
    /\ undefined = {}
    /\ fe = "recv"
    /\ fe' = "idle"
    /\ timeouts' = timeouts + 1
    /\ undefined' = MemoryErrors(FALSE)
    /\ bulk_failed' = (bulk_failed \/ Bulk)
    /\ cmd' = NoMsg
    /\ arrays' = NoArrays
    /\ UNCHANGED <<issued, answered, msgq_in, be, msgq_out, feState, beState>>

-----------------------------------------------------------------------------
(***************************************************************************)
(* The back end.  A bulk request whose command has returned points to      *)
(* freed memory.                                                           *)
(***************************************************************************)
Live(m) == fe # "idle" /\ cmd.id = m.id

Handle ==
    /\ undefined = {}
    /\ be = NoMsg /\ msgq_in # <<>>
    /\ LET m == Head(msgq_in)
           bulk == m.op \in {"add_bulk", "del_bulk"}
       IN  IF bulk /\ ~Live(m)
             THEN /\ undefined' = {"use after free"}
                  /\ be' = [id |-> m.id]
                  /\ UNCHANGED <<beState, arrays>>
             ELSE \E e \in Handler(m) :
                    /\ table' = e.table
                    /\ default_entry' = DefaultEntryAfter(m)
                    /\ be' \in Replies(m, e)
                    /\ arrays' = IF bulk THEN [found |-> e.found, foreign |-> e.foreign,
                                               written |-> TRUE]
                                 ELSE arrays
                    /\ UNCHANGED undefined
    /\ msgq_in' = Tail(msgq_in)
    /\ UNCHANGED <<fe, issued, timeouts, answered, msgq_out, cmd, feState, bulk_failed>>

Reply ==
    /\ undefined = {}
    /\ be # NoMsg /\ Len(msgq_out) < RingSlots
    /\ msgq_out' = Append(msgq_out, be)
    /\ be' = NoMsg
    /\ UNCHANGED <<fe, issued, timeouts, answered, msgq_in, cmd, feState, beState,
                   arrays, bulk_failed, undefined>>

AddBatches == UNION {[1 .. n -> [key : RawKey, port : Ports \cup {BadPort}]] : n \in 1 .. MaxBatch}
DelBatches == UNION {[1 .. n -> RawKey] : n \in 1 .. MaxBatch}

Next ==
    \/ \E k \in RawKey, p \in Ports \cup {BadPort} : app_pipeline_firewall_add_rule(k, p)
    \/ \E k \in RawKey : app_pipeline_firewall_delete_rule(k)
    \/ \E b \in AddBatches : app_pipeline_firewall_add_bulk(b)
    \/ \E b \in DelBatches : app_pipeline_firewall_delete_bulk(b)
    \/ \E p \in Ports \cup {BadPort} : app_pipeline_firewall_add_default_rule(p)
    \/ app_pipeline_firewall_delete_default_rule
    \/ app_pipeline_ping
    \/ Send \/ Receive \/ Timeout
    \/ Handle \/ Reply

Spec == Init /\ [][Next]_vars

-----------------------------------------------------------------------------
TypeOK ==
    /\ rules \in [Keys -> Seq(Ports)] /\ default_rule \in Ports \cup {NONE}
    /\ table \in [Keys -> Ports \cup {NONE}] /\ default_entry \in Ports \cup {NONE}
    /\ Cardinality(Installed(table)) <= Capacity

(***************************************************************************)
(* The messages follow the protocol of ControlChannel.                     *)
(***************************************************************************)
Ids(q) == [i \in DOMAIN q |-> q[i].id]

Channel == INSTANCE ControlChannel
             WITH msgq_in <- Ids(msgq_in), be <- be.id, msgq_out <- Ids(msgq_out)

ImplementsChannel == Channel!Init /\ [][Channel!Next]_(Channel!vars)

(***************************************************************************)
(* As long as no command has timed out and no bulk command has failed, the *)
(* front end's list and default rule are those of the back end whenever no *)
(* command is in progress: whatever the table accepts or refuses.          *)
(***************************************************************************)
Listing(t) == [k \in Keys |-> IF t[k] = NONE THEN <<>> ELSE <<t[k]>>]

MirrorMatchesTable ==
    fe = "idle" /\ timeouts = 0 /\ ~bulk_failed
      => rules = Listing(table) /\ default_rule = default_entry

(***************************************************************************)
(* Without a timeout no rule is in the list twice: a bulk add allocates a  *)
(* node for every key it does not find in the list and inserts them all,   *)
(* so it depends on the table to tell, through keys_found, that a key is   *)
(* repeated.  A second node would outlive the deletion of its rule.        *)
(***************************************************************************)
ListedOnce == timeouts = 0 => \A k \in Keys : Len(rules[k]) <= 1

(***************************************************************************)
(* No rule is in force that the front end does not know of and so could    *)
(* neither list nor delete, even after bulk commands have failed: without  *)
(* a timeout, a command that reports an error has added nothing new.  The  *)
(* exception is a bulk add that repeats a new key: it does add the rule    *)
(* and reports an error, but its error path frees memory of the table, and *)
(* the behaviour ends there (undefined).                                   *)
(***************************************************************************)
NoUnknownRules ==
    fe = "idle" /\ timeouts = 0 /\ undefined = {}
      => \A k \in Installed(table) : Known(k)

(***************************************************************************)
(* Only timeouts let the back end touch memory of a command that has       *)
(* returned, and let the front end unlink a rule it does not have or one   *)
(* it has just freed.                                                      *)
(***************************************************************************)
ByTimeoutsOnly == {"use after free", "null rule", "freed rule"}

MemoryErrorsNeedTimeouts == undefined \cap ByTimeoutsOnly # {} => timeouts > 0

(***************************************************************************)
(* What rte_free requires, even when no command times out: it is only      *)
(* given what rte_malloc has returned.                                     *)
(***************************************************************************)
OnlyAllocatedIsFreed == timeouts = 0 => "foreign free" \notin undefined
=============================================================================
