----------------------------- MODULE PacketPath -----------------------------
(***************************************************************************)
(* One call of rte_pipeline_run after another: a burst is received, goes   *)
(* through a chain of tables, and each of its packets is sent to an output *)
(* port, dropped, or kept by a user action.  Which packets are where is    *)
(* told by masks, here sets of positions in the burst.                     *)
(*                                                                         *)
(* There are two kinds of pipeline.  The firewall, built with full copies: *)
(* one table, whose rules name ports; the input action copies each packet  *)
(* into a small pool, the output actions free the copies.  And any other   *)
(* user of the library: several tables, and user actions of ports and      *)
(* tables that drop or hijack packets as they like.                        *)
(*                                                                         *)
(* A run is taken in the steps of its code.  Only the pipeline's own       *)
(* thread touches this state.                                              *)
(***************************************************************************)
EXTENDS Integers, Sequences, FiniteSets

CONSTANTS Kinds,       \* of pipelines: a subset of {"firewall", "library"}
          BurstMax,    \* RTE_PORT_IN_BURST_SIZE_MAX
          Mbufs,       \* the mbufs of enclave_mempool, as many as fit a burst
          NumTables,   \* tables of a library pipeline, each linked to the next
          NumPortsIn, NumPortsOut,
          NULL

ASSUME PathAssumption ==
    /\ Kinds \subseteq {"firewall", "library"}
    /\ BurstMax \in Nat \ {0} /\ NumTables \in Nat \ {0}
    /\ NumPortsIn \in Nat \ {0} /\ NumPortsOut \in Nat \ {0}
    /\ IsFiniteSet(Mbufs) /\ Cardinality(Mbufs) = BurstMax /\ NULL \notin Mbufs

Positions == 0 .. BurstMax - 1
PortsIn == 0 .. NumPortsIn - 1
PortsOut == 0 .. NumPortsOut - 1

Drop == [action |-> "drop", port |-> NULL]
Port(o) == [action |-> "port", port |-> o]
PortMeta == [action |-> "port_meta", port |-> NULL]
ToTable == [action |-> "table", port |-> NULL]

Actions == {"drop", "port", "port_meta", "table"}
Entries == {Drop, PortMeta, ToTable} \cup {Port(o) : o \in PortsOut}

VARIABLES kind,
          default_entry,  \* of each table
          pc,             \* where rte_pipeline_run is
          received,       \* the positions of the burst
          pkts_mask, action_mask0, entries, table_id,
          lookup_hit_mask,   \* local to an iteration of the loop over the tables
          pool,           \* the free mbufs of enclave_mempool
          saved_mbufs,
          sent, dropped, hijacked,   \* what became of the burst: sent[o] on output port o
          verdict,        \* the entry a table answered last for a packet
          drops,          \* packets dropped since the start, by a firewall
          double_free     \* a copy was freed that was free

path == <<received, pkts_mask, action_mask0, entries, table_id, lookup_hit_mask, verdict>>
fates == <<sent, dropped, hijacked>>
copies == <<pool, saved_mbufs, double_free>>
vars == <<kind, default_entry, pc, path, copies, fates, drops>>

Tables == 1 .. (IF kind = "firewall" THEN 1 ELSE NumTables)

\* What a rule or a default entry of table t may say.
EntriesOf(t) ==
    IF kind = "firewall" THEN {Port(o) : o \in PortsOut}
    ELSE IF t = NumTables THEN Entries \ {ToTable} ELSE Entries

NoMasks == [a \in Actions |-> {}]

Init ==
    /\ kind \in Kinds
    /\ default_entry = [t \in Tables |-> Drop]
    /\ pc = "rx"
    /\ received = {} /\ pkts_mask = {} /\ action_mask0 = NoMasks
    /\ entries = [b \in Positions |-> NULL] /\ verdict = entries
    /\ table_id = 1 /\ lookup_hit_mask = {}
    /\ pool = Mbufs
    /\ saved_mbufs = [b \in Positions |-> NULL]
    /\ sent = [o \in PortsOut |-> {}] /\ dropped = {} /\ hijacked = {}
    /\ drops = 0 /\ double_free = FALSE

-----------------------------------------------------------------------------
(***************************************************************************)
(* User actions.  Of the packets in mask, rte_pipeline_ah_packet_drop      *)
(* takes D and rte_pipeline_ah_packet_hijack H; the firewall's take none.  *)
(***************************************************************************)
UserAction(mask, D, H) ==
    /\ D \subseteq mask /\ H \subseteq mask \ D
    /\ kind = "firewall" => D = {} /\ H = {}

\* Freeing what saved_mbufs holds at these positions.
FreeCopies(mask) ==
    LET held == {b \in mask : saved_mbufs[b] # NULL}
        freed == {saved_mbufs[b] : b \in held}
    IN  /\ pool' = pool \cup freed
        /\ double_free' = (\/ double_free \/ freed \cap pool # {}
                           \/ Cardinality(freed) < Cardinality(held))
        /\ UNCHANGED saved_mbufs

\* Faulty variant: the action is set for the first output port only.
free_full_copy_first_port_only(dest) ==
    IF kind = "firewall" THEN FreeCopies({b \in DOMAIN dest : dest[b] = 0})
    ELSE UNCHANGED copies

\* Faulty variant: every call frees the copies of the whole burst.
free_full_copy_whole_burst(dest) ==
    IF kind = "firewall" /\ DOMAIN dest # {} THEN FreeCopies(received) ELSE UNCHANGED copies

\* The user action of the firewall's first two output ports; dest[b] is where packet b goes.
output_port_free_full_copy(dest) ==
    IF kind = "firewall" THEN FreeCopies({b \in DOMAIN dest : dest[b] \in {0, 1}})
    ELSE UNCHANGED copies

\* Each packet gets the user action of its output port and is sent unless that took it.
ActOnAndSend(dest, D, H) ==
    /\ UserAction(DOMAIN dest, D, H)
    /\ output_port_free_full_copy(dest)
    /\ sent' = [o \in PortsOut |-> sent[o] \cup {b \in DOMAIN dest \ (D \cup H) : dest[b] = o}]

\* action_mask0 after the packets of mask were given to action a, and D dropped.
WithMask(masks, a, mask, D) ==
    [c \in Actions |-> masks[c] \cup (IF c = a THEN mask ELSE {}) \cup (IF c = "drop" THEN D ELSE {})]

-----------------------------------------------------------------------------
(***************************************************************************)
(* Reception of n packets from input port in.  The firewall copies what    *)
(* comes from input port 0; a copy that cannot be made is a panic.  Every  *)
(* packet is a single segment: a copy takes one mbuf for each segment.     *)
(***************************************************************************)
Copying(in) == kind = "firewall" /\ in = 0

input_port_make_full_copy(n) ==
    \E copy \in [0 .. n - 1 -> pool] :
      /\ \A b, c \in 0 .. n - 1 : b # c => copy[b] # copy[c]
      /\ saved_mbufs' = [b \in Positions |-> IF b < n THEN copy[b] ELSE saved_mbufs[b]]
      /\ pool' = pool \ {copy[b] : b \in 0 .. n - 1}
      /\ UNCHANGED double_free

Receive(in, n, D, H) ==
    /\ pc = "rx"
    /\ received' = 0 .. n - 1
    /\ UserAction(received', D, H)
    /\ IF Copying(in) THEN input_port_make_full_copy(n) ELSE UNCHANGED copies
    /\ pkts_mask' = received' \ (D \cup H)
    /\ action_mask0' = WithMask(NoMasks, "drop", D, {})
    /\ sent' = [o \in PortsOut |-> {}] /\ dropped' = {} /\ hijacked' = H
    /\ table_id' = 1
    /\ pc' = IF pkts_mask' = {} THEN "port" ELSE "lookup"
    /\ verdict' = [b \in Positions |-> NULL]
    /\ UNCHANGED <<kind, default_entry, entries, lookup_hit_mask, drops>>

rte_panic(in, n) ==
    /\ pc = "rx" /\ Copying(in) /\ n > Cardinality(pool)
    /\ pc' = "panic"
    /\ UNCHANGED <<kind, default_entry, path, copies, fates, drops>>

-----------------------------------------------------------------------------
(***************************************************************************)
(* The loop over the tables.                                               *)
(***************************************************************************)
\* Faulty variant: a lookup writes the entries of packets it was not asked for.
Lookup_writes_all_entries(found) ==
    /\ pc = "lookup"
    /\ entries' = [b \in Positions |->
                     IF b \in DOMAIN found THEN found[b] ELSE default_entry[table_id]]
    /\ verdict' = [b \in Positions |-> IF b \in pkts_mask THEN entries'[b] ELSE verdict[b]]
    /\ lookup_hit_mask' = DOMAIN found
    /\ pc' = "miss"
    /\ UNCHANGED <<kind, default_entry, received, pkts_mask, action_mask0, table_id, copies, fates, drops>>

\* found: the packets that match a rule, with the entry of the rule
Lookup(found) ==
    /\ pc = "lookup"
    /\ entries' = [b \in Positions |-> IF b \in DOMAIN found THEN found[b] ELSE entries[b]]
    /\ verdict' = [b \in Positions |-> IF b \in DOMAIN found THEN found[b]
                                       ELSE IF b \in pkts_mask THEN default_entry[table_id]
                                       ELSE verdict[b]]
    /\ lookup_hit_mask' = DOMAIN found
    /\ pc' = "miss"
    /\ UNCHANGED <<kind, default_entry, received, pkts_mask, action_mask0, table_id, copies, fates, drops>>

lookup_miss_mask == pkts_mask \ lookup_hit_mask

\* Faulty variant: packets sent by the default entry stay in the mask of its action.
MissPort_keeps_mask(D, H, Dout, Hout) ==
    LET left == lookup_miss_mask \ (D \cup H)
        o == default_entry[table_id].port
    IN  /\ default_entry[table_id].action = "port" /\ left # {}
        /\ ActOnAndSend([b \in left |-> o], Dout, Hout)
        /\ pkts_mask' = left \ (Dout \cup Hout)
        /\ action_mask0' = WithMask(action_mask0, "port", left, D \cup Dout)
        /\ hijacked' = hijacked \cup H \cup Hout

\* The default entry sends to a port: the packets go there at once.
MissPort(D, H, Dout, Hout) ==
    LET left == lookup_miss_mask \ (D \cup H)
        o == default_entry[table_id].port
    IN  /\ default_entry[table_id].action = "port" /\ left # {}
        /\ ActOnAndSend([b \in left |-> o], Dout, Hout)
        /\ pkts_mask' = left \ (Dout \cup Hout)
        /\ action_mask0' = WithMask(action_mask0, "drop", {}, D \cup Dout)
        /\ hijacked' = hijacked \cup H \cup Hout

\* Any other action is noted in action_mask0.
MissOther(D, H) ==
    LET left == lookup_miss_mask \ (D \cup H)
    IN  /\ default_entry[table_id].action # "port" \/ left = {}
        /\ pkts_mask' = left
        /\ action_mask0' = WithMask(action_mask0, default_entry[table_id].action, left, D)
        /\ hijacked' = hijacked \cup H
        /\ UNCHANGED <<sent, copies>>

Miss ==
    /\ pc = "miss"
    /\ \E D \in SUBSET lookup_miss_mask, H \in SUBSET lookup_miss_mask :
         /\ UserAction(lookup_miss_mask, D, H)
         /\ \/ MissOther(D, H)
            \/ \E Dout \in SUBSET lookup_miss_mask, Hout \in SUBSET lookup_miss_mask :
                 MissPort(D, H, Dout, Hout)
    /\ pc' = "hit"
    /\ UNCHANGED <<kind, default_entry, received, entries, table_id, lookup_hit_mask, verdict, dropped, drops>>

rte_pipeline_compute_masks(mask) == [a \in Actions |-> {b \in mask : entries[b].action = a}]

Hit(D, H) ==
    /\ pc = "hit"
    /\ UserAction(lookup_hit_mask, D, H)
    /\ LET action_mask1 == rte_pipeline_compute_masks(lookup_hit_mask \ (D \cup H))
           masks == [a \in Actions |-> action_mask0[a] \cup action_mask1[a]
                                         \cup (IF a = "drop" THEN D ELSE {})]
       IN  /\ pkts_mask' = masks["table"]
           /\ action_mask0' = [masks EXCEPT !["table"] = {}]
    /\ table_id' = IF table_id + 1 \in Tables THEN table_id + 1 ELSE 1
    /\ hijacked' = hijacked \cup H
    /\ lookup_hit_mask' = {}
    /\ pc' = IF pkts_mask' = {} THEN "port" ELSE "lookup"
    /\ UNCHANGED <<kind, default_entry, received, entries, verdict, copies, sent, dropped, drops>>

-----------------------------------------------------------------------------
(***************************************************************************)
(* The reserved actions, when the packets have left the tables.            *)
(***************************************************************************)
ActionHandler(dest, D, H) ==
    /\ ActOnAndSend(dest, D, H)
    /\ pkts_mask' = DOMAIN dest \ (D \cup H)
    /\ action_mask0' = WithMask(action_mask0, "drop", {}, D)
    /\ hijacked' = hijacked \cup H
    /\ UNCHANGED <<kind, default_entry, received, entries, table_id, lookup_hit_mask, verdict, dropped, drops>>

rte_pipeline_action_handler_port(D, H) ==
    /\ pc = "port" /\ pc' = "meta"
    /\ ActionHandler([b \in action_mask0["port"] |-> entries[b].port], D, H)

\* dest: the ports in the packets' metadata
rte_pipeline_action_handler_port_meta(dest, D, H) ==
    /\ pc = "meta" /\ pc' = "drop"
    /\ ActionHandler(dest, D, H)

rte_pipeline_action_handler_drop ==
    /\ pc = "drop" /\ pc' = "rx"
    /\ dropped' = dropped \cup action_mask0["drop"]
    /\ drops' = IF kind = "firewall" THEN drops + Cardinality(action_mask0["drop"]) ELSE drops
    /\ UNCHANGED <<kind, default_entry, path, copies, sent, hijacked>>

\* Between two runs: a control message sets or clears a default entry.
SetDefault(t, e) ==
    /\ pc = "rx"
    /\ default_entry' = [default_entry EXCEPT ![t] = e]
    /\ UNCHANGED <<kind, pc, path, copies, fates, drops>>

Next ==
    \/ \E in \in PortsIn, n \in 1 .. BurstMax :
         rte_panic(in, n) \/ \E D \in SUBSET Positions, H \in SUBSET Positions : Receive(in, n, D, H)
    \/ \E hit \in SUBSET pkts_mask : \E found \in [hit -> EntriesOf(table_id)] : Lookup(found)
    \/ Miss
    \/ \E D \in SUBSET lookup_hit_mask, H \in SUBSET lookup_hit_mask : Hit(D, H)
    \/ \E D \in SUBSET action_mask0["port"], H \in SUBSET action_mask0["port"] : rte_pipeline_action_handler_port(D, H)
    \/ \E D \in SUBSET action_mask0["port_meta"], H \in SUBSET action_mask0["port_meta"],
         dest \in [action_mask0["port_meta"] -> PortsOut] :
         rte_pipeline_action_handler_port_meta(dest, D, H)
    \/ rte_pipeline_action_handler_drop
    \/ \E t \in Tables : \E e \in EntriesOf(t) \cup {Drop} : SetDefault(t, e)

Spec == Init /\ [][Next]_vars

-----------------------------------------------------------------------------
TypeOK ==
    /\ kind \in Kinds
    /\ default_entry \in [Tables -> Entries] /\ table_id \in Tables
    /\ pc \in {"rx", "lookup", "miss", "hit", "port", "meta", "drop", "panic"}
    /\ received \subseteq Positions /\ pkts_mask \subseteq Positions
    /\ lookup_hit_mask \subseteq Positions /\ action_mask0 \in [Actions -> SUBSET Positions]
    /\ entries \in [Positions -> Entries \cup {NULL}] /\ verdict \in [Positions -> Entries \cup {NULL}]
    /\ pool \subseteq Mbufs /\ saved_mbufs \in [Positions -> Mbufs \cup {NULL}]
    /\ sent \in [PortsOut -> SUBSET Positions]
    /\ dropped \subseteq Positions /\ hijacked \subseteq Positions
    /\ drops \in Nat /\ double_free \in BOOLEAN

\* Where the packets of the burst are: still in the tables, waiting for a reserved action, or gone.
Holder ==
    [h \in {"tables", "sent", "dropped", "hijacked"} \cup Actions |->
       CASE h = "tables"    -> (CASE pc \in {"lookup", "miss"} -> pkts_mask
                                  [] pc = "hit" -> lookup_hit_mask
                                  [] OTHER -> {})
         [] h = "table"     -> IF pc \in {"miss", "hit"} THEN action_mask0["table"] ELSE {}
         [] h = "port"      -> IF pc \in {"lookup", "miss", "hit", "port"} THEN action_mask0["port"] ELSE {}
         [] h = "port_meta" -> IF pc \in {"lookup", "miss", "hit", "port", "meta"}
                               THEN action_mask0["port_meta"] ELSE {}
         [] h = "drop"      -> IF pc = "rx" THEN {} ELSE action_mask0["drop"]
         [] h = "sent"      -> UNION {sent[o] : o \in PortsOut}
         [] h = "dropped"   -> dropped
         [] h = "hijacked"  -> hijacked]

(***************************************************************************)
(* Every packet of a burst is in exactly one place at every step of        *)
(* rte_pipeline_run, whatever the tables answer and the user actions take. *)
(* So when the run is over it was sent to one port, once, or freed once,   *)
(* or is left to the user action that hijacked it: no mbuf is leaked, sent *)
(* twice, or sent and freed.                                               *)
(***************************************************************************)
EveryPacketInOnePlace ==
    pc # "panic" =>
      /\ \A b \in received : \E h \in DOMAIN Holder : b \in Holder[h]
      /\ \A g, h \in DOMAIN Holder : g # h => Holder[g] \cap Holder[h] = {}
      /\ \A o, q \in PortsOut : o # q => sent[o] \cap sent[q] = {}

(***************************************************************************)
(* A packet goes to the port that the last table it was looked up in chose *)
(* for it, although the entries of the burst are kept until after the      *)
(* lookups of other packets in later tables and, stale, into the next      *)
(* burst.  A firewall drops only what no rule matched.                     *)
(***************************************************************************)
PacketsFollowTheirVerdict ==
    /\ \A o \in PortsOut : \A b \in sent[o] : verdict[b] \in {Port(o), PortMeta}
    /\ kind = "firewall" => \A b \in dropped : verdict[b] = Drop

(***************************************************************************)
(* With one input port the firewall never frees a copy that is not in use, *)
(* although saved_mbufs is indexed by position, is never cleared, and its  *)
(* copies are freed by two different handlers of the same run.             *)
(***************************************************************************)
CopiesAreFreedOnce == ~double_free

(***************************************************************************)
(* Between runs the pool has lost exactly one copy for each packet that    *)
(* the firewall has dropped: output actions free copies, the drop action   *)
(* does not.                                                               *)
(***************************************************************************)
DropsLeakTheirCopies ==
    kind = "firewall" /\ pc = "rx" => Cardinality(Mbufs \ pool) = drops

(***************************************************************************)
(* What the check in input_port_make_full_copy takes for granted: the pool *)
(* always has a copy for each packet of a burst.                           *)
(***************************************************************************)
PoolIsNeverExhausted == pc # "panic"
=============================================================================
