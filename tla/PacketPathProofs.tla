-------------------------- MODULE PacketPathProofs --------------------------
(***************************************************************************)
(* For every burst size, number of tables and number of ports: every       *)
(* packet is in one place and follows the verdict of its last table, and   *)
(* the firewall frees its copies once, all but those of dropped packets.   *)
(*                                                                         *)
(* The places alone are not inductive.  What makes them right is that the  *)
(* entry of a packet that waits for the port action is still the one its   *)
(* last table gave it, and that hits and misses of a table split the       *)
(* packets it was asked for.                                               *)
(***************************************************************************)
EXTENDS PacketPath, TLAPS, FiniteSetTheorems

\* Holder, place by place.
AtTables == IF pc \in {"lookup", "miss"} THEN pkts_mask
            ELSE IF pc = "hit" THEN lookup_hit_mask ELSE {}
AtTable  == IF pc \in {"miss", "hit"} THEN action_mask0["table"] ELSE {}
AtPort   == IF pc \in {"lookup", "miss", "hit", "port"} THEN action_mask0["port"] ELSE {}
AtMeta   == IF pc \in {"lookup", "miss", "hit", "port", "meta"} THEN action_mask0["port_meta"] ELSE {}
AtDrop   == IF pc \in {"rx", "panic"} THEN {} ELSE action_mask0["drop"]
AllSent  == UNION {sent[o] : o \in PortsOut}

\* The packets of burst B are in these places, none in two.
Split(B, T, A, P, M, D, S, X, H) ==
    /\ B \subseteq T \cup A \cup P \cup M \cup D \cup S \cup X \cup H
    /\ \A b \in T : b \notin A /\ b \notin P /\ b \notin M /\ b \notin D
                    /\ b \notin S /\ b \notin X /\ b \notin H
    /\ \A b \in A : b \notin P /\ b \notin M /\ b \notin D /\ b \notin S /\ b \notin X /\ b \notin H
    /\ \A b \in P : b \notin M /\ b \notin D /\ b \notin S /\ b \notin X /\ b \notin H
    /\ \A b \in M : b \notin D /\ b \notin S /\ b \notin X /\ b \notin H
    /\ \A b \in D : b \notin S /\ b \notin X /\ b \notin H
    /\ \A b \in S : b \notin X /\ b \notin H
    /\ \A b \in X : b \notin H

Places ==
    pc # "panic" =>
      Split(received, AtTables, AtTable, AtPort, AtMeta, AtDrop, AllSent, dropped, hijacked)

SentOnce == \A o, q \in PortsOut : \A b \in sent[o] : b \in sent[q] => o = q

\* What a table was asked and what it answered.
TableAnswers ==
    /\ pc \in {"lookup", "miss"} => action_mask0["table"] = {}
    /\ pc = "miss" => /\ lookup_hit_mask \subseteq pkts_mask
                      /\ \A b \in lookup_miss_mask : verdict[b] = default_entry[table_id]
    /\ pc \in {"miss", "hit"} =>
         \A b \in lookup_hit_mask : entries[b] \in EntriesOf(table_id) /\ verdict[b] = entries[b]

\* What is known of the packets that wait for a reserved action.
MasksAgree ==
    /\ \A b \in AtPort : entries[b] = verdict[b] /\ \E o \in PortsOut : verdict[b] = Port(o)
    /\ \A b \in AtMeta : verdict[b] = PortMeta
    /\ kind = "firewall" => /\ \A b \in AtDrop : verdict[b] = Drop
                            /\ AtMeta = {} /\ AtTable = {} /\ hijacked = {}
    /\ kind = "firewall" /\ pc \notin {"rx", "panic"} => dropped = {}

DefaultsOK == \A t \in Tables : default_entry[t] \in EntriesOf(t) \cup {Drop}

PathInv == TypeOK /\ DefaultsOK /\ Places /\ SentOnce /\ TableAnswers /\ MasksAgree
             /\ PacketsFollowTheirVerdict

-----------------------------------------------------------------------------
LEMMA EntryFacts ==
    /\ \A e \in Entries : e.action \in Actions
    /\ \A e \in Entries : e.action = "port" => e.port \in PortsOut /\ e = Port(e.port)
    /\ \A e \in Entries : e.action = "port_meta" => e = PortMeta
    /\ \A e \in Entries : e.action = "drop" => e = Drop
    /\ \A o \in PortsOut : Port(o).action = "port" /\ Port(o).port = o /\ Port(o) \in Entries
    /\ Drop \in Entries /\ Drop.action = "drop"
<1> USE DEF Port, Drop, PortMeta, ToTable
<1>1. ASSUME NEW e \in Entries
      PROVE  e = Drop \/ e = PortMeta \/ e = ToTable \/ \E o \in PortsOut : e = Port(o)
  BY DEF Entries
<1>2. \A o \in PortsOut : Port(o).action = "port" /\ Port(o).port = o /\ Port(o) \in Entries
  BY DEF Entries
<1>3. Drop \in Entries /\ Drop.action = "drop" /\ PortMeta.action = "port_meta" /\ ToTable.action = "table"
  BY DEF Entries
<1> QED
  BY <1>1, <1>2, <1>3, Zenon DEF Actions

LEMMA EntriesOfFacts ==
    ASSUME NEW t
    PROVE  /\ EntriesOf(t) \subseteq Entries
           /\ kind = "firewall" => \A e \in EntriesOf(t) : e.action = "port"
BY EntryFacts DEF EntriesOf, Entries

LEMMA TablesFacts ==
    ASSUME kind \in Kinds
    PROVE  /\ 1 \in Tables /\ Tables \subseteq Nat
           /\ kind = "firewall" => Tables = {1}
BY PathAssumption DEF Tables

LEMMA PositionsFinite == IsFiniteSet(Positions)
<1>1. 0 \in Int /\ BurstMax - 1 \in Int
  BY PathAssumption
<1> QED
  BY <1>1, FS_Interval DEF Positions

LEMMA InitPath == Init => PathInv
<1> SUFFICES ASSUME Init PROVE PathInv
  OBVIOUS
<1>1. TypeOK
  BY EntryFacts, TablesFacts DEF Init, TypeOK, NoMasks
<1>2. DefaultsOK
  BY DEF Init, DefaultsOK
<1>3. Places
  BY DEF Init, Places, Split, AtTables, AtTable, AtPort, AtMeta, AtDrop, AllSent
<1>4. SentOnce /\ PacketsFollowTheirVerdict
  BY DEF Init, SentOnce, PacketsFollowTheirVerdict
<1>5. TableAnswers
  BY DEF Init, TableAnswers
<1>6. MasksAgree
  BY DEF Init, MasksAgree, AtPort, AtMeta, AtDrop, AtTable
<1> QED
  BY <1>1, <1>2, <1>3, <1>4, <1>5, <1>6 DEF PathInv

-----------------------------------------------------------------------------
LEMMA ActionNames == "drop" \in Actions /\ "port" \in Actions /\ "port_meta" \in Actions /\ "table" \in Actions
BY DEF Actions

LEMMA CopiesTypes ==
    ASSUME TypeOK, NEW dest, DOMAIN dest \subseteq Positions, output_port_free_full_copy(dest)
    PROVE  pool' \subseteq Mbufs /\ saved_mbufs' \in [Positions -> Mbufs \cup {NULL}]
             /\ double_free' \in BOOLEAN
<1>1. ASSUME NEW m \in SUBSET Positions, FreeCopies(m)
      PROVE  pool' \subseteq Mbufs /\ saved_mbufs' = saved_mbufs /\ double_free' \in BOOLEAN
  <2>1. \A b \in m : saved_mbufs[b] # NULL => saved_mbufs[b] \in Mbufs
    BY DEF TypeOK
  <2> QED
    BY <1>1, <2>1 DEF TypeOK, FreeCopies
<1>2. {b \in DOMAIN dest : dest[b] \in {0, 1}} \in SUBSET Positions
  OBVIOUS
<1> QED
  BY <1>1, <1>2 DEF TypeOK, output_port_free_full_copy, copies

(***************************************************************************)
(* Reception.                                                              *)
(***************************************************************************)
LEMMA ReceiveKeepsPath ==
    ASSUME PathInv, NEW in \in PortsIn, NEW n \in 1 .. BurstMax, NEW D, NEW H, Receive(in, n, D, H)
    PROVE  PathInv'
<1> USE DEF PathInv
<1>0. received' = 0 .. n - 1 /\ received' \in SUBSET Positions
  BY PathAssumption DEF Receive, Positions
<1>1. D \in SUBSET received' /\ H \in SUBSET (received' \ D) /\ (kind = "firewall" => D = {} /\ H = {})
  BY DEF Receive, UserAction
<1>2. /\ action_mask0' \in [Actions -> SUBSET Positions]
      /\ action_mask0'["drop"] = D
      /\ action_mask0'["port"] = {} /\ action_mask0'["port_meta"] = {} /\ action_mask0'["table"] = {}
  <2>1. action_mask0' = WithMask(NoMasks, "drop", D, {})
    BY DEF Receive
  <2>2. NoMasks \in [Actions -> SUBSET Positions] /\ \A a \in Actions : NoMasks[a] = {}
    BY DEF NoMasks
  <2>3. D \in SUBSET Positions /\ {} \in SUBSET Positions
    BY <1>0, <1>1
  <2>4. /\ WithMask(NoMasks, "drop", D, {}) \in [Actions -> SUBSET Positions]
        /\ \A c \in Actions \ {"drop", "drop"} : WithMask(NoMasks, "drop", D, {})[c] = NoMasks[c]
        /\ WithMask(NoMasks, "drop", D, {})["drop"] = NoMasks["drop"] \cup D \cup {}
    BY <2>2, <2>3, ActionNames DEF WithMask
  <2> QED
    BY <2>1, <2>2, <2>4, ActionNames
<1>3. /\ pkts_mask' = received' \ (D \cup H) /\ hijacked' = H /\ dropped' = {}
      /\ sent' = [o \in PortsOut |-> {}] /\ pc' = IF pkts_mask' = {} THEN "port" ELSE "lookup"
      /\ verdict' = [b \in Positions |-> NULL] /\ table_id' = 1
      /\ UNCHANGED <<kind, default_entry, entries, lookup_hit_mask, drops>>
  BY DEF Receive
<1>4. pool' \subseteq Mbufs /\ saved_mbufs' \in [Positions -> Mbufs \cup {NULL}] /\ double_free' \in BOOLEAN
  <2>1. CASE UNCHANGED copies
    BY <2>1 DEF copies, TypeOK
  <2>2. CASE input_port_make_full_copy(n)
    <3>1. PICK copy \in [0 .. n - 1 -> pool] :
            /\ saved_mbufs' = [b \in Positions |-> IF b < n THEN copy[b] ELSE saved_mbufs[b]]
            /\ pool' = pool \ {copy[b] : b \in 0 .. n - 1}
            /\ UNCHANGED double_free
      BY <2>2 DEF input_port_make_full_copy
    <3>2. \A b \in Positions : b < n => copy[b] \in pool
      BY PathAssumption DEF Positions
    <3> QED
      BY <3>1, <3>2 DEF TypeOK
  <2> QED
    BY <2>1, <2>2 DEF Receive
<1>5. TypeOK'
  BY <1>0, <1>1, <1>2, <1>3, <1>4, TablesFacts DEF TypeOK, Tables
<1>6. DefaultsOK'
  BY <1>3 DEF DefaultsOK, Tables, EntriesOf
<1>7. Places'
  <2>1. AtTables' = pkts_mask' /\ AtTable' = {} /\ AtPort' = {} /\ AtMeta' = {} /\ AtDrop' = D
    BY <1>2, <1>3 DEF AtTables, AtTable, AtPort, AtMeta, AtDrop
  <2>2. AllSent' = {}
    BY <1>3 DEF AllSent
  <2> QED
    BY <2>1, <2>2, <1>1, <1>3 DEF Places, Split
<1>8. SentOnce' /\ PacketsFollowTheirVerdict'
  BY <1>3 DEF SentOnce, PacketsFollowTheirVerdict
<1>9. TableAnswers'
  BY <1>2, <1>3 DEF TableAnswers
<1>10. MasksAgree'
  BY <1>1, <1>2, <1>3 DEF MasksAgree, AtPort, AtMeta, AtDrop, AtTable
<1> QED
  BY <1>5, <1>6, <1>7, <1>8, <1>9, <1>10

(***************************************************************************)
(* A lookup.                                                               *)
(***************************************************************************)
LEMMA LookupKeepsPath ==
    ASSUME PathInv, NEW hit \in SUBSET pkts_mask, NEW found \in [hit -> EntriesOf(table_id)], Lookup(found)
    PROVE  PathInv'
<1> USE DEF PathInv
<1>1. /\ pc = "lookup" /\ pc' = "miss" /\ lookup_hit_mask' = hit
      /\ entries' = [b \in Positions |-> IF b \in hit THEN found[b] ELSE entries[b]]
      /\ verdict' = [b \in Positions |-> IF b \in hit THEN found[b]
                                       ELSE IF b \in pkts_mask THEN default_entry[table_id]
                                       ELSE verdict[b]]
      /\ UNCHANGED <<kind, default_entry, received, pkts_mask, action_mask0, table_id, copies, fates, drops>>
  BY DEF Lookup
<1>2. UNCHANGED <<pool, saved_mbufs, double_free, sent, dropped, hijacked>>
  BY <1>1 DEF copies, fates
<1>3. \A b \in hit : found[b] \in EntriesOf(table_id) /\ found[b] \in Entries /\ b \in Positions
  BY EntriesOfFacts DEF TypeOK
<1>4. default_entry[table_id] \in Entries /\ pkts_mask \subseteq Positions
  BY DEF TypeOK
<1>5. TypeOK'
  <2>1. entries' \in [Positions -> Entries \cup {NULL}]
    BY <1>1, <1>3 DEF TypeOK
  <2>2. verdict' \in [Positions -> Entries \cup {NULL}]
    BY <1>1, <1>3, <1>4 DEF TypeOK
  <2>3. lookup_hit_mask' \subseteq Positions
    BY <1>1, <1>4
  <2> QED
    BY <1>1, <1>2, <2>1, <2>2, <2>3 DEF TypeOK, Tables
<1>6. DefaultsOK'
  BY <1>1 DEF DefaultsOK, Tables, EntriesOf
<1>7. /\ AtTables = pkts_mask /\ AtTable = {}
      /\ AtTables' = pkts_mask /\ AtTable' = {} /\ AtPort' = AtPort /\ AtMeta' = AtMeta
      /\ AtDrop' = AtDrop /\ AllSent' = AllSent
  BY <1>1, <1>2 DEF AtTables, AtTable, AtPort, AtMeta, AtDrop, AllSent, TableAnswers
<1>8. Places'
  BY <1>1, <1>2, <1>7 DEF Places
<1>9. SentOnce'
  BY <1>2 DEF SentOnce
<1>10. ASSUME NEW b \in Positions, b \notin pkts_mask
       PROVE  verdict'[b] = verdict[b] /\ entries'[b] = entries[b]
  BY <1>1, <1>10
<1>11. \A b \in pkts_mask : b \notin AtPort /\ b \notin AtMeta /\ b \notin AtDrop /\ b \notin AllSent /\ b \notin dropped
  BY <1>1, <1>7 DEF Places, Split
<1>12. PacketsFollowTheirVerdict'
  <2>1. \A o \in PortsOut : sent[o] \subseteq AllSent /\ sent[o] \subseteq Positions
    BY DEF AllSent, TypeOK
  <2> QED
    BY <2>1, <1>1, <1>2, <1>10, <1>11 DEF PacketsFollowTheirVerdict, TypeOK
<1>13. TableAnswers'
  <2>1. \A b \in hit : entries'[b] = found[b] /\ verdict'[b] = found[b]
    BY <1>1, <1>3
  <2>2. \A b \in pkts_mask \ hit : verdict'[b] = default_entry[table_id]
    BY <1>1, <1>4
  <2>3. lookup_miss_mask' = pkts_mask \ hit
    BY <1>1 DEF lookup_miss_mask
  <2>4. EntriesOf(table_id)' = EntriesOf(table_id)
    BY <1>1 DEF EntriesOf
  <2> QED
    BY <1>1, <1>3, <2>1, <2>2, <2>3, <2>4 DEF TableAnswers
<1>14. MasksAgree'
  <2>1. AtPort \subseteq Positions /\ AtMeta \subseteq Positions /\ AtDrop \subseteq Positions
    BY ActionNames DEF AtPort, AtMeta, AtDrop, TypeOK
  <2>2. \A b \in AtPort : entries'[b] = verdict'[b] /\ \E o \in PortsOut : verdict'[b] = Port(o)
    BY <2>1, <1>10, <1>11 DEF MasksAgree
  <2>3. \A b \in AtMeta : verdict'[b] = PortMeta
    BY <2>1, <1>10, <1>11 DEF MasksAgree
  <2>4. kind = "firewall" => \A b \in AtDrop : verdict'[b] = Drop
    BY <2>1, <1>10, <1>11 DEF MasksAgree
  <2> QED
    BY <1>1, <1>2, <1>7, <2>2, <2>3, <2>4 DEF MasksAgree
<1> QED
  BY <1>5, <1>6, <1>8, <1>9, <1>12, <1>13, <1>14

-----------------------------------------------------------------------------
(***************************************************************************)
(* Sending: packets that were not sent before go to one port each.         *)
(***************************************************************************)
LEMMA SendFacts ==
    ASSUME TypeOK, SentOnce, NEW dest, NEW D, NEW H, ActOnAndSend(dest, D, H),
           DOMAIN dest \subseteq Positions, \A b \in DOMAIN dest : dest[b] \in PortsOut,
           \A b \in DOMAIN dest : b \notin AllSent
    PROVE  /\ D \in SUBSET DOMAIN dest /\ H \in SUBSET (DOMAIN dest \ D)
           /\ kind = "firewall" => D = {} /\ H = {}
           /\ AllSent' = AllSent \cup (DOMAIN dest \ (D \cup H))
           /\ sent' \in [PortsOut -> SUBSET Positions]
           /\ \A o \in PortsOut : \A b \in sent'[o] : b \in sent[o] \/ (b \in DOMAIN dest /\ dest[b] = o)
           /\ SentOnce'
           /\ pool' \subseteq Mbufs /\ saved_mbufs' \in [Positions -> Mbufs \cup {NULL}]
           /\ double_free' \in BOOLEAN
<1>1. /\ D \in SUBSET DOMAIN dest /\ H \in SUBSET (DOMAIN dest \ D)
      /\ kind = "firewall" => D = {} /\ H = {}
  BY DEF ActOnAndSend, UserAction
<1>2. sent' = [o \in PortsOut |-> sent[o] \cup {b \in DOMAIN dest \ (D \cup H) : dest[b] = o}]
  BY DEF ActOnAndSend
<1>3. \A o \in PortsOut : sent'[o] = sent[o] \cup {b \in DOMAIN dest \ (D \cup H) : dest[b] = o}
  BY <1>2
<1>4. sent' \in [PortsOut -> SUBSET Positions]
  <2>1. \A o \in PortsOut : sent'[o] \in SUBSET Positions
    BY <1>3 DEF TypeOK
  <2> QED
    BY <1>2, <2>1
<1>5. AllSent' = AllSent \cup (DOMAIN dest \ (D \cup H))
  BY <1>3 DEF AllSent
<1>6. SentOnce'
  <2> SUFFICES ASSUME NEW o \in PortsOut, NEW q \in PortsOut, NEW b \in sent'[o], b \in sent'[q]
               PROVE  o = q
    BY DEF SentOnce
  <2>1. b \in sent[o] => b \in AllSent
    BY DEF AllSent
  <2>2. b \in sent[q] => b \in AllSent
    BY DEF AllSent
  <2> QED
    BY <1>3, <2>1, <2>2 DEF SentOnce
<1>7. \A o \in PortsOut : \A b \in sent'[o] : b \in sent[o] \/ (b \in DOMAIN dest /\ dest[b] = o)
  BY <1>3
<1>8. pool' \subseteq Mbufs /\ saved_mbufs' \in [Positions -> Mbufs \cup {NULL}] /\ double_free' \in BOOLEAN
  BY CopiesTypes DEF ActOnAndSend
<1> QED
  BY <1>1, <1>4, <1>5, <1>6, <1>7, <1>8

(***************************************************************************)
(* The packets that a table does not know.                                 *)
(***************************************************************************)
LEMMA MissKeepsPath ==
    ASSUME PathInv, Miss
    PROVE  PathInv'
<1> USE DEF PathInv
<1> DEFINE e == default_entry[table_id]
<1>1. PICK D, H :
        /\ UserAction(lookup_miss_mask, D, H)
        /\ \/ MissOther(D, H)
           \/ \E Dout, Hout : MissPort(D, H, Dout, Hout)
  BY DEF Miss
<1> DEFINE left == lookup_miss_mask \ (D \cup H)
<1>2. /\ D \in SUBSET lookup_miss_mask /\ H \in SUBSET (lookup_miss_mask \ D)
      /\ kind = "firewall" => D = {} /\ H = {}
  BY <1>1 DEF UserAction
<1>3. /\ pc = "miss" /\ pc' = "hit"
      /\ UNCHANGED <<kind, default_entry, received, entries, table_id, lookup_hit_mask, verdict, dropped, drops>>
  BY DEF Miss
<1>4. e \in Entries /\ e \in EntriesOf(table_id) \cup {Drop} /\ pkts_mask \in SUBSET Positions /\ lookup_hit_mask \in SUBSET pkts_mask
  BY <1>3 DEF TypeOK, DefaultsOK, TableAnswers
<1>5. lookup_miss_mask \in SUBSET Positions /\ left \in SUBSET lookup_miss_mask
  BY <1>4 DEF lookup_miss_mask
<1>6. \A b \in lookup_miss_mask : verdict[b] = e
  BY <1>3 DEF TableAnswers
<1>7. AtTables = pkts_mask /\ AtTable = {} /\ AtPort = action_mask0["port"] /\ AtMeta = action_mask0["port_meta"]
        /\ AtDrop = action_mask0["drop"] /\ action_mask0["table"] = {}
  BY <1>3 DEF AtTables, AtTable, AtPort, AtMeta, AtDrop, TableAnswers
<1>8. AtTables' = lookup_hit_mask /\ AtTable' = action_mask0'["table"] /\ AtPort' = action_mask0'["port"]
        /\ AtMeta' = action_mask0'["port_meta"] /\ AtDrop' = action_mask0'["drop"]
  BY <1>3 DEF AtTables, AtTable, AtPort, AtMeta, AtDrop
<1>9. Split(received, pkts_mask, {}, action_mask0["port"], action_mask0["port_meta"],
            action_mask0["drop"], AllSent, dropped, hijacked)
  BY <1>3, <1>7 DEF Places
<1>10. DefaultsOK'
  BY <1>3 DEF DefaultsOK, Tables, EntriesOf
<1>11. TableAnswers'
  <2>1. EntriesOf(table_id)' = EntriesOf(table_id)
    BY <1>3 DEF EntriesOf
  <2> QED
    BY <1>3, <2>1 DEF TableAnswers
<1>12. e.action \in Actions /\ (e.action = "port" => e = Port(e.port) /\ e.port \in PortsOut)
        /\ (e.action = "port_meta" => e = PortMeta) /\ (e.action = "drop" => e = Drop)
        /\ (kind = "firewall" => e.action = "port" \/ e = Drop)
  BY <1>4, EntryFacts, EntriesOfFacts
<1> HIDE DEF e
<1>13. ASSUME MissOther(D, H) PROVE PathInv'
  <2>1. /\ e.action # "port" \/ left = {}
        /\ pkts_mask' = left
        /\ action_mask0' = WithMask(action_mask0, e.action, left, D)
        /\ hijacked' = hijacked \cup H
        /\ UNCHANGED <<sent, copies>>
    BY <1>13 DEF MissOther, e
  <2>2. /\ action_mask0' \in [Actions -> SUBSET Positions]
        /\ action_mask0'["port"] = action_mask0["port"]
        /\ action_mask0'["port_meta"] = action_mask0["port_meta"] \cup (IF e.action = "port_meta" THEN left ELSE {})
        /\ action_mask0'["table"] = action_mask0["table"] \cup (IF e.action = "table" THEN left ELSE {})
        /\ action_mask0'["drop"] = action_mask0["drop"] \cup (IF e.action = "drop" THEN left ELSE {}) \cup D
    BY <2>1, <1>2, <1>5, <1>12, ActionNames DEF WithMask, TypeOK
  <2>3. AllSent' = AllSent
    BY <2>1 DEF AllSent
  <2> HIDE DEF left
  <2>4. TypeOK'
    BY <2>1, <2>2, <1>2, <1>3, <1>5 DEF TypeOK, copies, Tables
  <2>5. Places'
    <3> DEFINE T == action_mask0'["table"]  M == action_mask0'["port_meta"]  X == action_mask0'["drop"]
    <3>1. \A b \in left : b \in pkts_mask /\ b \notin lookup_hit_mask /\ b \notin D /\ b \notin H
      BY DEF left, lookup_miss_mask
    <3>2. \A b \in pkts_mask : b \in lookup_hit_mask \/ b \in left \/ b \in D \/ b \in H
      BY DEF left, lookup_miss_mask
    <3>3. \A b \in D \cup H : b \in pkts_mask /\ b \notin lookup_hit_mask
      BY <1>2 DEF lookup_miss_mask
    <3>4. Split(received, lookup_hit_mask, T, action_mask0["port"], M, X, AllSent, dropped, hijacked \cup H)
      <4>1. CASE e.action = "port"
        BY <4>1, <2>1, <2>2, <3>1, <3>2, <3>3, <1>2, <1>4, <1>7, <1>9 DEF Split
      <4>2. CASE e.action = "port_meta"
        BY <4>2, <2>2, <3>1, <3>2, <3>3, <1>2, <1>4, <1>7, <1>9 DEF Split
      <4>3. CASE e.action = "table"
        BY <4>3, <2>2, <3>1, <3>2, <3>3, <1>2, <1>4, <1>7, <1>9 DEF Split
      <4>4. CASE e.action = "drop"
        BY <4>4, <2>2, <3>1, <3>2, <3>3, <1>2, <1>4, <1>7, <1>9 DEF Split
      <4> QED
        BY <4>1, <4>2, <4>3, <4>4, <1>12 DEF Actions
    <3> QED
      BY <3>4, <1>3, <1>8, <2>1, <2>2, <2>3 DEF Places
  <2>6. SentOnce' /\ PacketsFollowTheirVerdict'
    BY <2>1, <1>3 DEF SentOnce, PacketsFollowTheirVerdict
  <2>7. MasksAgree'
    <3>1. \A b \in AtPort' : entries'[b] = verdict'[b] /\ \E o \in PortsOut : verdict'[b] = Port(o)
      BY <1>3, <1>7, <1>8, <2>2 DEF MasksAgree
    <3>2. \A b \in AtMeta' : verdict'[b] = PortMeta
      BY <1>3, <1>5, <1>6, <1>7, <1>8, <1>12, <2>2 DEF MasksAgree
    <3>3. kind = "firewall" => \A b \in AtDrop' : verdict'[b] = Drop
      BY <1>2, <1>3, <1>5, <1>6, <1>7, <1>8, <1>12, <2>2 DEF MasksAgree
    <3>4. kind = "firewall" => AtMeta' = {} /\ AtTable' = {} /\ hijacked' = {}
      BY <1>2, <1>3, <1>7, <1>8, <1>12, <2>1, <2>2, EntryFacts DEF MasksAgree
    <3> QED
      BY <1>3, <3>1, <3>2, <3>3, <3>4 DEF MasksAgree
  <2> QED
    BY <2>4, <2>5, <2>6, <2>7, <1>10, <1>11
<1>14. ASSUME NEW Dout, NEW Hout, MissPort(D, H, Dout, Hout) PROVE PathInv'
  <2> DEFINE dest == [b \in left |-> e.port]
  <2>1. /\ e.action = "port" /\ ActOnAndSend(dest, Dout, Hout)
        /\ pkts_mask' = left \ (Dout \cup Hout)
        /\ action_mask0' = WithMask(action_mask0, "drop", {}, D \cup Dout)
        /\ hijacked' = hijacked \cup H \cup Hout
    BY <1>14 DEF MissPort, e
  <2>2. DOMAIN dest = left /\ \A b \in left : dest[b] = e.port
    OBVIOUS
  <2>3. \A b \in left : b \in pkts_mask /\ b \notin lookup_hit_mask /\ b \notin D /\ b \notin H
    BY DEF lookup_miss_mask
  <2>4. \A b \in pkts_mask : b \in lookup_hit_mask \/ b \in left \/ b \in D \/ b \in H
    BY DEF lookup_miss_mask
  <2>5. \A b \in D \cup H : b \in pkts_mask /\ b \notin lookup_hit_mask
    BY <1>2 DEF lookup_miss_mask
  <2>6. left \in SUBSET Positions
    BY <1>5
  <2> HIDE DEF left, dest
  <2>7. \A b \in left : b \notin AllSent
    BY <2>3, <1>9 DEF Split
  <2>8. /\ Dout \in SUBSET left /\ Hout \in SUBSET (left \ Dout)
        /\ kind = "firewall" => Dout = {} /\ Hout = {}
        /\ AllSent' = AllSent \cup (left \ (Dout \cup Hout))
        /\ sent' \in [PortsOut -> SUBSET Positions]
        /\ \A o \in PortsOut : \A b \in sent'[o] : b \in sent[o] \/ (b \in left /\ dest[b] = o)
        /\ SentOnce'
        /\ pool' \subseteq Mbufs /\ saved_mbufs' \in [Positions -> Mbufs \cup {NULL}]
        /\ double_free' \in BOOLEAN
    <3>1. \A b \in DOMAIN dest : dest[b] \in PortsOut /\ b \notin AllSent
      BY <2>1, <2>2, <2>7, <1>12
    <3>2. DOMAIN dest \subseteq Positions
      BY <2>2, <2>6
    <3> QED
      BY <3>1, <3>2, <2>1, <2>2, SendFacts
  <2>9. /\ action_mask0' \in [Actions -> SUBSET Positions]
        /\ action_mask0'["port"] = action_mask0["port"]
        /\ action_mask0'["port_meta"] = action_mask0["port_meta"]
        /\ action_mask0'["table"] = action_mask0["table"]
        /\ action_mask0'["drop"] = action_mask0["drop"] \cup D \cup Dout
    BY <2>1, <2>6, <2>8, <1>2, <1>5, ActionNames DEF WithMask, TypeOK
  <2>10. TypeOK'
    BY <2>1, <2>6, <2>8, <2>9, <1>2, <1>3, <1>5 DEF TypeOK, Tables
  <2>11. Places'
    <3>1. Split(received, lookup_hit_mask, {}, action_mask0["port"], action_mask0["port_meta"],
                action_mask0["drop"] \cup D \cup Dout, AllSent \cup (left \ (Dout \cup Hout)), dropped,
                hijacked \cup H \cup Hout)
      BY <2>3, <2>4, <2>5, <2>8, <1>2, <1>4, <1>9 DEF Split
    <3> QED
      BY <3>1, <1>3, <1>7, <1>8, <2>1, <2>8, <2>9 DEF Places
  <2>12. PacketsFollowTheirVerdict'
    <3>1. ASSUME NEW o \in PortsOut, NEW b \in sent'[o] PROVE verdict[b] \in {Port(o), PortMeta}
      <4>1. CASE b \in sent[o]
        BY <4>1 DEF PacketsFollowTheirVerdict
      <4>2. CASE b \in left /\ dest[b] = o
        BY <4>2, <2>1, <2>2, <1>5, <1>6, <1>12 DEF left
      <4> QED
        BY <4>1, <4>2, <2>8
    <3> QED
      BY <3>1, <1>3 DEF PacketsFollowTheirVerdict
  <2>13. MasksAgree'
    BY <1>2, <1>3, <1>7, <1>8, <2>1, <2>8, <2>9 DEF MasksAgree
  <2> QED
    BY <2>8, <2>10, <2>11, <2>12, <2>13, <1>10, <1>11
<1> QED
  BY <1>1, <1>13, <1>14

(***************************************************************************)
(* The packets that a table knows.                                         *)
(***************************************************************************)
LEMMA HitKeepsPath ==
    ASSUME PathInv, NEW D, NEW H, Hit(D, H)
    PROVE  PathInv'
<1> USE DEF PathInv
<1> DEFINE left == lookup_hit_mask \ (D \cup H)
           to(a) == {b \in left : entries[b].action = a}
<1>1. /\ D \in SUBSET lookup_hit_mask /\ H \in SUBSET (lookup_hit_mask \ D)
      /\ kind = "firewall" => D = {} /\ H = {}
  BY DEF Hit, UserAction
<1>2. /\ pc = "hit" /\ pc' = IF pkts_mask' = {} THEN "port" ELSE "lookup"
      /\ table_id' = IF table_id + 1 \in Tables THEN table_id + 1 ELSE 1
      /\ hijacked' = hijacked \cup H /\ lookup_hit_mask' = {}
      /\ UNCHANGED <<kind, default_entry, received, entries, verdict, copies, sent, dropped, drops>>
  BY DEF Hit
<1>3. lookup_hit_mask \in SUBSET Positions
  BY DEF TypeOK
<1>4. \A b \in lookup_hit_mask : entries[b] \in EntriesOf(table_id) /\ entries[b] \in Entries /\ verdict[b] = entries[b]
  BY <1>2, EntriesOfFacts DEF TableAnswers
<1>5. /\ action_mask0' \in [Actions -> SUBSET Positions]
      /\ action_mask0'["port"] = action_mask0["port"] \cup to("port")
      /\ action_mask0'["port_meta"] = action_mask0["port_meta"] \cup to("port_meta")
      /\ action_mask0'["table"] = {}
      /\ action_mask0'["drop"] = action_mask0["drop"] \cup to("drop") \cup D
      /\ pkts_mask' = action_mask0["table"] \cup to("table")
  <2> DEFINE masks == [a \in Actions |-> action_mask0[a] \cup rte_pipeline_compute_masks(left)[a]
                                            \cup (IF a = "drop" THEN D ELSE {})]
  <2>1. pkts_mask' = masks["table"] /\ action_mask0' = [masks EXCEPT !["table"] = {}]
    BY DEF Hit
  <2>2. \A a \in Actions : rte_pipeline_compute_masks(left)[a] = to(a) /\ to(a) \in SUBSET Positions
    BY <1>3 DEF rte_pipeline_compute_masks
  <2>3. \A a \in Actions : masks[a] = action_mask0[a] \cup to(a) \cup (IF a = "drop" THEN D ELSE {})
    BY <2>2
  <2>4. masks \in [Actions -> SUBSET Positions]
    BY <2>2, <1>1, <1>3 DEF TypeOK
  <2> HIDE DEF masks, to
  <2> QED
    BY <2>1, <2>3, <2>4, ActionNames
<1>6. /\ AtTables = lookup_hit_mask /\ AtTable = action_mask0["table"] /\ AtPort = action_mask0["port"]
      /\ AtMeta = action_mask0["port_meta"] /\ AtDrop = action_mask0["drop"]
  BY <1>2 DEF AtTables, AtTable, AtPort, AtMeta, AtDrop
<1>7. /\ AtTables' = pkts_mask' /\ AtTable' = {} /\ AtPort' = action_mask0'["port"]
      /\ AtMeta' = action_mask0'["port_meta"] /\ AtDrop' = action_mask0'["drop"]
  BY <1>2 DEF AtTables, AtTable, AtPort, AtMeta, AtDrop
<1>8. AllSent' = AllSent
  BY <1>2 DEF AllSent
<1>9. Split(received, lookup_hit_mask, action_mask0["table"], action_mask0["port"], action_mask0["port_meta"],
            action_mask0["drop"], AllSent, dropped, hijacked)
  BY <1>2, <1>6 DEF Places
<1>10. /\ \A b \in left : b \in to("drop") \/ b \in to("port") \/ b \in to("port_meta") \/ b \in to("table")
       /\ \A a \in Actions : to(a) \subseteq left
       /\ \A a, c \in Actions : a # c => \A b \in to(a) : b \notin to(c)
  BY <1>4, EntryFacts DEF Actions
<1>11. \A b \in left : b \in lookup_hit_mask /\ b \notin D /\ b \notin H
  OBVIOUS
<1>12. \A b \in lookup_hit_mask : b \in left \/ b \in D \/ b \in H
  OBVIOUS
<1>13. /\ \A b \in to("port") : entries[b].action = "port"
       /\ \A b \in to("port_meta") : entries[b].action = "port_meta"
       /\ \A b \in to("drop") : entries[b].action = "drop"
  OBVIOUS
<1>14. kind = "firewall" => to("port_meta") = {} /\ to("table") = {} /\ to("drop") = {}
  BY <1>4, EntriesOfFacts
<1> HIDE DEF left, to
<1>15. TypeOK'
  <2>1. pkts_mask' \subseteq Positions
    BY <1>3, <1>5, <1>10, <1>11, ActionNames DEF TypeOK
  <2>2. table_id' \in Tables
    BY <1>2, TablesFacts DEF TypeOK
  <2> QED
    BY <1>1, <1>2, <1>3, <1>5, <2>1, <2>2 DEF TypeOK, copies, Tables
<1>16. DefaultsOK'
  BY <1>2 DEF DefaultsOK, Tables, EntriesOf
<1>17. Places'
  <2>1. Split(received, action_mask0["table"] \cup to("table"), {}, action_mask0["port"] \cup to("port"),
              action_mask0["port_meta"] \cup to("port_meta"), action_mask0["drop"] \cup to("drop") \cup D,
              AllSent, dropped, hijacked \cup H)
    <3>1. \A b \in to("table") : b \in left /\ b \notin to("port") /\ b \notin to("port_meta") /\ b \notin to("drop")
      BY <1>10, ActionNames
    <3>2. \A b \in to("port") : b \in left /\ b \notin to("port_meta") /\ b \notin to("drop")
      BY <1>10, ActionNames
    <3>3. \A b \in to("port_meta") : b \in left /\ b \notin to("drop")
      BY <1>10, ActionNames
    <3>4. \A b \in to("drop") : b \in left
      BY <1>10, ActionNames
    <3> QED
      BY <3>1, <3>2, <3>3, <3>4, <1>1, <1>9, <1>10, <1>11, <1>12 DEF Split
  <2> QED
    BY <2>1, <1>2, <1>5, <1>7, <1>8 DEF Places
<1>18. SentOnce' /\ PacketsFollowTheirVerdict'
  BY <1>2 DEF SentOnce, PacketsFollowTheirVerdict
<1>19. TableAnswers'
  BY <1>2, <1>5 DEF TableAnswers
<1>20. MasksAgree'
  <2>1. \A b \in AtPort' : entries'[b] = verdict'[b] /\ \E o \in PortsOut : verdict'[b] = Port(o)
    <3>1. \A b \in to("port") : entries[b] = verdict[b] /\ verdict[b] = Port(verdict[b].port) /\ verdict[b].port \in PortsOut
      BY <1>4, <1>10, <1>11, <1>13, EntryFacts, ActionNames
    <3> QED
      BY <3>1, <1>2, <1>5, <1>6, <1>7 DEF MasksAgree
  <2>2. \A b \in AtMeta' : verdict'[b] = PortMeta
    <3>1. \A b \in to("port_meta") : verdict[b] = PortMeta
      BY <1>4, <1>10, <1>11, <1>13, EntryFacts, ActionNames
    <3> QED
      BY <3>1, <1>2, <1>5, <1>6, <1>7 DEF MasksAgree
  <2>3. kind = "firewall" => /\ \A b \in AtDrop' : verdict'[b] = Drop
                             /\ AtMeta' = {} /\ AtTable' = {} /\ hijacked' = {}
    BY <1>1, <1>2, <1>5, <1>6, <1>7, <1>14 DEF MasksAgree
  <2> QED
    BY <1>2, <2>1, <2>2, <2>3 DEF MasksAgree
<1> QED
  BY <1>15, <1>16, <1>17, <1>18, <1>19, <1>20

-----------------------------------------------------------------------------
(***************************************************************************)
(* The reserved actions.                                                   *)
(***************************************************************************)
LEMMA HandlerKeepsPath ==
    ASSUME PathInv, NEW a \in {"port", "port_meta"}, NEW dest, NEW D, NEW H,
           DOMAIN dest = action_mask0[a],
           \A b \in DOMAIN dest : dest[b] \in PortsOut /\ verdict[b] \in {Port(dest[b]), PortMeta},
           pc = (IF a = "port" THEN "port" ELSE "meta"),
           pc' = (IF a = "port" THEN "meta" ELSE "drop"),
           ActionHandler(dest, D, H)
    PROVE  PathInv'
<1> USE DEF PathInv
<1> DEFINE m == action_mask0[a]
<1>1. /\ ActOnAndSend(dest, D, H) /\ pkts_mask' = m \ (D \cup H)
      /\ action_mask0' = WithMask(action_mask0, "drop", {}, D)
      /\ hijacked' = hijacked \cup H
      /\ UNCHANGED <<kind, default_entry, received, entries, table_id, lookup_hit_mask, verdict, dropped, drops>>
  BY DEF ActionHandler
<1>2. m \in SUBSET Positions
  BY ActionNames DEF TypeOK
<1>3. /\ AtTables = {} /\ AtTable = {} /\ AtDrop = action_mask0["drop"]
      /\ AtMeta = action_mask0["port_meta"] /\ AtPort = IF a = "port" THEN m ELSE {}
  BY DEF AtTables, AtTable, AtPort, AtMeta, AtDrop
<1>4. /\ AtTables' = {} /\ AtTable' = {} /\ AtDrop' = action_mask0'["drop"] /\ AtPort' = {}
      /\ AtMeta' = IF a = "port" THEN action_mask0'["port_meta"] ELSE {}
  BY DEF AtTables, AtTable, AtPort, AtMeta, AtDrop
<1>5. Split(received, {}, {}, AtPort, AtMeta, AtDrop, AllSent, dropped, hijacked)
  BY <1>3 DEF Places
<1>6. \A b \in m : b \notin AllSent
  BY <1>3, <1>5 DEF Split
<1> HIDE DEF m
<1>7. /\ D \in SUBSET m /\ H \in SUBSET (m \ D)
      /\ kind = "firewall" => D = {} /\ H = {}
      /\ AllSent' = AllSent \cup (m \ (D \cup H))
      /\ sent' \in [PortsOut -> SUBSET Positions]
      /\ \A o \in PortsOut : \A b \in sent'[o] : b \in sent[o] \/ (b \in m /\ dest[b] = o)
      /\ SentOnce'
      /\ pool' \subseteq Mbufs /\ saved_mbufs' \in [Positions -> Mbufs \cup {NULL}]
      /\ double_free' \in BOOLEAN
  <2>1. DOMAIN dest = m
    BY DEF m
  <2> QED
    BY <2>1, <1>1, <1>2, <1>6, SendFacts
<1>8. /\ action_mask0' \in [Actions -> SUBSET Positions]
      /\ action_mask0'["port_meta"] = action_mask0["port_meta"]
      /\ action_mask0'["drop"] = action_mask0["drop"] \cup D
  BY <1>1, <1>2, <1>7, ActionNames DEF WithMask, TypeOK
<1>9. TypeOK'
  BY <1>1, <1>2, <1>7, <1>8 DEF TypeOK, Tables
<1>10. DefaultsOK'
  BY <1>1 DEF DefaultsOK, Tables, EntriesOf
<1>11. Places'
  <2>1. Split(received, {}, {}, {}, IF a = "port" THEN action_mask0["port_meta"] ELSE {}, action_mask0["drop"] \cup D,
              AllSent \cup (m \ (D \cup H)), dropped, hijacked \cup H)
    <3>1. CASE a = "port"
      BY <3>1, <1>3, <1>5, <1>7 DEF Split
    <3>2. CASE a = "port_meta"
      <4>1. AtPort = {} /\ AtMeta = m
        BY <3>2, <1>3 DEF m
      <4> QED
        BY <3>2, <4>1, <1>3, <1>5, <1>7 DEF Split
    <3> QED
      BY <3>1, <3>2
  <2> QED
    BY <2>1, <1>1, <1>4, <1>7, <1>8 DEF Places
<1>12. PacketsFollowTheirVerdict'
  <2>1. ASSUME NEW o \in PortsOut, NEW b \in sent'[o] PROVE verdict[b] \in {Port(o), PortMeta}
    BY <1>7 DEF PacketsFollowTheirVerdict, m
  <2> QED
    BY <2>1, <1>1 DEF PacketsFollowTheirVerdict
<1>13. TableAnswers'
  BY DEF TableAnswers
<1>14. MasksAgree'
  BY <1>1, <1>3, <1>4, <1>7, <1>8 DEF MasksAgree
<1> QED
  BY <1>7, <1>9, <1>10, <1>11, <1>12, <1>13, <1>14

LEMMA PortHandlerKeepsPath ==
    ASSUME PathInv, NEW D, NEW H, rte_pipeline_action_handler_port(D, H)
    PROVE  PathInv'
<1> DEFINE dest == [b \in action_mask0["port"] |-> entries[b].port]
<1>1. pc = "port" /\ pc' = "meta" /\ ActionHandler(dest, D, H)
  BY DEF rte_pipeline_action_handler_port
<1>2. ASSUME NEW b \in action_mask0["port"]
      PROVE  dest[b] \in PortsOut /\ verdict[b] \in {Port(dest[b]), PortMeta}
  <2>1. entries[b] = verdict[b] /\ \E o \in PortsOut : verdict[b] = Port(o)
    BY <1>1 DEF PathInv, MasksAgree, AtPort
  <2> QED
    BY <2>1, EntryFacts
<1>3. DOMAIN dest = action_mask0["port"]
  OBVIOUS
<1> HIDE DEF dest
<1> QED
  BY <1>1, <1>2, <1>3, HandlerKeepsPath

LEMMA MetaHandlerKeepsPath ==
    ASSUME PathInv, NEW dest \in [action_mask0["port_meta"] -> PortsOut], NEW D, NEW H,
           rte_pipeline_action_handler_port_meta(dest, D, H)
    PROVE  PathInv'
<1>1. pc = "meta" /\ pc' = "drop" /\ ActionHandler(dest, D, H)
  BY DEF rte_pipeline_action_handler_port_meta
<1>2. \A b \in action_mask0["port_meta"] : dest[b] \in PortsOut /\ verdict[b] = PortMeta
  BY <1>1 DEF PathInv, MasksAgree, AtMeta
<1> QED
  BY <1>1, <1>2, HandlerKeepsPath

LEMMA DropHandlerKeepsPath ==
    ASSUME PathInv, rte_pipeline_action_handler_drop
    PROVE  PathInv'
<1> USE DEF PathInv
<1>1. /\ pc = "drop" /\ pc' = "rx" /\ dropped' = dropped \cup action_mask0["drop"]
      /\ drops' = IF kind = "firewall" THEN drops + Cardinality(action_mask0["drop"]) ELSE drops
      /\ UNCHANGED <<kind, default_entry, received, pkts_mask, action_mask0, entries, table_id,
                     lookup_hit_mask, verdict, pool, saved_mbufs, double_free, sent, hijacked>>
  BY DEF rte_pipeline_action_handler_drop, path, copies
<1>2. action_mask0["drop"] \in SUBSET Positions
  BY ActionNames DEF TypeOK
<1>3. drops' \in Nat
  <2>1. IsFiniteSet(action_mask0["drop"])
    BY <1>2, PositionsFinite, FS_Subset
  <2>2. Cardinality(action_mask0["drop"]) \in Nat
    BY <2>1, FS_CardinalityType
  <2> QED
    BY <1>1, <2>2 DEF TypeOK
<1>4. TypeOK'
  BY <1>1, <1>2, <1>3 DEF TypeOK, Tables
<1>5. DefaultsOK'
  BY <1>1 DEF DefaultsOK, Tables, EntriesOf
<1>6. Places'
  <2>1. AtTables = {} /\ AtTable = {} /\ AtPort = {} /\ AtMeta = {} /\ AtDrop = action_mask0["drop"]
    BY <1>1 DEF AtTables, AtTable, AtPort, AtMeta, AtDrop
  <2>2. AtTables' = {} /\ AtTable' = {} /\ AtPort' = {} /\ AtMeta' = {} /\ AtDrop' = {} /\ AllSent' = AllSent
    BY <1>1 DEF AtTables, AtTable, AtPort, AtMeta, AtDrop, AllSent
  <2> QED
    BY <2>1, <2>2, <1>1 DEF Places, Split
<1>7. SentOnce' /\ TableAnswers'
  BY <1>1 DEF SentOnce, TableAnswers
<1>8. PacketsFollowTheirVerdict'
  BY <1>1 DEF PacketsFollowTheirVerdict, MasksAgree, AtDrop
<1>9. MasksAgree'
  BY <1>1 DEF MasksAgree, AtPort, AtMeta, AtDrop, AtTable
<1> QED
  BY <1>4, <1>5, <1>6, <1>7, <1>8, <1>9

\* Steps that leave the burst alone.
LEMMA OtherStepsKeepPath ==
    ASSUME PathInv,
           \/ UNCHANGED vars
           \/ \E in \in PortsIn, n \in 1 .. BurstMax : rte_panic(in, n)
           \/ \E t \in Tables : \E e \in EntriesOf(t) \cup {Drop} : SetDefault(t, e)
    PROVE  PathInv'
<1> USE DEF PathInv
<1>1. /\ UNCHANGED <<kind, received, pkts_mask, action_mask0, entries, table_id, lookup_hit_mask, verdict,
                      pool, saved_mbufs, double_free, sent, dropped, hijacked, drops>>
      /\ pc' = pc \/ (pc = "rx" /\ pc' = "panic")
      /\ default_entry' = default_entry \/ (pc = "rx" /\ pc' = "rx")
  BY DEF vars, rte_panic, SetDefault, path, copies, fates
<1>2. DefaultsOK' /\ default_entry' \in [Tables' -> Entries]
  <2>1. Tables' = Tables /\ \A t : EntriesOf(t)' = EntriesOf(t)
    BY <1>1 DEF Tables, EntriesOf
  <2>2. CASE default_entry' = default_entry
    BY <2>1, <2>2 DEF DefaultsOK, TypeOK
  <2>3. CASE \E t \in Tables : \E e \in EntriesOf(t) \cup {Drop} : default_entry' = [default_entry EXCEPT ![t] = e]
    BY <2>1, <2>3, EntriesOfFacts, EntryFacts DEF DefaultsOK, TypeOK
  <2> QED
    BY <2>2, <2>3 DEF vars, rte_panic, SetDefault
<1>3. TypeOK'
  BY <1>1, <1>2 DEF TypeOK, Tables
<1>4. Places'
  <2>1. AllSent' = AllSent
    BY <1>1 DEF AllSent
  <2>2. CASE pc' = pc
    BY <1>1, <2>1, <2>2 DEF Places, AtTables, AtTable, AtPort, AtMeta, AtDrop
  <2>3. CASE pc' = "panic"
    BY <2>3 DEF Places
  <2> QED
    BY <2>2, <2>3, <1>1
<1>5. SentOnce' /\ PacketsFollowTheirVerdict'
  BY <1>1 DEF SentOnce, PacketsFollowTheirVerdict
<1>6. TableAnswers'
  BY <1>1 DEF TableAnswers, lookup_miss_mask, EntriesOf
<1>7. MasksAgree'
  <2>1. CASE pc' = pc
    BY <2>1, <1>1 DEF MasksAgree, AtPort, AtMeta, AtDrop, AtTable
  <2>2. CASE pc = "rx" /\ pc' = "panic"
    <3>1. AtPort' = {} /\ AtMeta' = {} /\ AtDrop' = {} /\ AtTable' = {}
      BY <2>2 DEF AtPort, AtMeta, AtDrop, AtTable
    <3> QED
      BY <2>2, <3>1, <1>1 DEF MasksAgree
  <2> QED
    BY <2>1, <2>2, <1>1
<1> QED
  BY <1>2, <1>3, <1>4, <1>5, <1>6, <1>7

LEMMA NextKeepsPath ==
    ASSUME PathInv, [Next]_vars
    PROVE  PathInv'
<1>1. ASSUME NEW in \in PortsIn, NEW n \in 1 .. BurstMax, NEW D, NEW H, Receive(in, n, D, H)
      PROVE  PathInv'
  BY <1>1, ReceiveKeepsPath
<1>2. ASSUME NEW hit \in SUBSET pkts_mask, NEW found \in [hit -> EntriesOf(table_id)], Lookup(found)
      PROVE  PathInv'
  BY <1>2, LookupKeepsPath
<1>3. CASE Miss
  BY <1>3, MissKeepsPath
<1>4. ASSUME NEW D, NEW H, Hit(D, H) PROVE PathInv'
  BY <1>4, HitKeepsPath
<1>5. ASSUME NEW D, NEW H, rte_pipeline_action_handler_port(D, H) PROVE PathInv'
  BY <1>5, PortHandlerKeepsPath
<1>6. ASSUME NEW dest \in [action_mask0["port_meta"] -> PortsOut], NEW D, NEW H,
             rte_pipeline_action_handler_port_meta(dest, D, H)
      PROVE  PathInv'
  BY <1>6, MetaHandlerKeepsPath
<1>7. CASE rte_pipeline_action_handler_drop
  BY <1>7, DropHandlerKeepsPath
<1>8. CASE \/ UNCHANGED vars
           \/ \E in \in PortsIn, n \in 1 .. BurstMax : rte_panic(in, n)
           \/ \E t \in Tables : \E e \in EntriesOf(t) \cup {Drop} : SetDefault(t, e)
  BY <1>8, OtherStepsKeepPath
<1> QED
  BY <1>1, <1>2, <1>3, <1>4, <1>5, <1>6, <1>7, <1>8 DEF Next

LEMMA AlwaysPathInv == Spec => []PathInv
BY InitPath, NextKeepsPath, PTL DEF Spec

LEMMA PlacesAreHolders ==
    ASSUME PathInv
    PROVE  EveryPacketInOnePlace
<1> SUFFICES ASSUME pc # "panic" PROVE EveryPacketInOnePlace
  BY DEF EveryPacketInOnePlace
<1> DEFINE Names == {"tables", "sent", "dropped", "hijacked", "drop", "port", "port_meta", "table"}
<1>1. Split(received, AtTables, AtTable, AtPort, AtMeta, AtDrop, AllSent, dropped, hijacked) /\ SentOnce
  BY DEF PathInv, Places
<1>2. DOMAIN Holder = Names
  BY DEF Holder, Actions
<1>3. /\ Holder["table"] = AtTable /\ Holder["port"] = AtPort /\ Holder["port_meta"] = AtMeta
      /\ Holder["drop"] = AtDrop /\ Holder["sent"] = AllSent /\ Holder["dropped"] = dropped
      /\ Holder["hijacked"] = hijacked
  BY DEF Holder, Actions, AtTable, AtPort, AtMeta, AtDrop, AllSent
<1>4. Holder["tables"] = AtTables
  BY DEF Holder, AtTables
<1>5. \A b \in received : \E h \in DOMAIN Holder : b \in Holder[h]
  BY <1>1, <1>2, <1>3, <1>4 DEF Split
<1>6. ASSUME NEW g \in Names, NEW h \in Names, g # h PROVE Holder[g] \cap Holder[h] = {}
  BY <1>1, <1>3, <1>4, <1>6 DEF Split
<1>7. \A o, q \in PortsOut : o # q => sent[o] \cap sent[q] = {}
  BY <1>1 DEF SentOnce
<1> QED
  BY <1>2, <1>5, <1>6, <1>7 DEF EveryPacketInOnePlace

-----------------------------------------------------------------------------
(***************************************************************************)
(* Every packet of a burst is in one place at every step of                *)
(* rte_pipeline_run, for any number of tables, ports and packets, and for  *)
(* any user actions.                                                       *)
(***************************************************************************)
THEOREM AlwaysEveryPacketInOnePlace == Spec => []EveryPacketInOnePlace
BY AlwaysPathInv, PlacesAreHolders, PTL

(***************************************************************************)
(* A packet goes to the port its last table chose, and a firewall drops    *)
(* only what no rule matched, for any chain of tables.                     *)
(***************************************************************************)
THEOREM AlwaysPacketsFollowTheirVerdict == Spec => []PacketsFollowTheirVerdict
<1>1. PathInv => PacketsFollowTheirVerdict
  BY DEF PathInv
<1> QED
  BY <1>1, AlwaysPathInv, PTL

-----------------------------------------------------------------------------
(***************************************************************************)
(* The copies of the firewall.  A packet that has not been sent or dropped *)
(* is live.  With one input port, which copies what it receives, each live *)
(* packet has a copy of its own outside the pool.                          *)
(***************************************************************************)
Live == AtTables \cup AtTable \cup AtPort \cup AtMeta \cup AtDrop

LiveCopies(L, free) ==
    /\ \A b \in L : saved_mbufs[b] \in Mbufs /\ saved_mbufs[b] \notin free
    /\ \A b, c \in L : saved_mbufs[b] = saved_mbufs[c] => b = c

CopyInv ==
    /\ ~double_free
    /\ kind = "firewall" => LiveCopies(Live, pool)

\* And when each output port frees copies, no other copies are out.
CountInv ==
    kind = "firewall" => Cardinality(Mbufs \ pool) = drops + Cardinality(Live)

LEMMA LiveType ==
    ASSUME TypeOK
    PROVE  Live \in SUBSET Positions
BY ActionNames DEF TypeOK, Live, AtTables, AtTable, AtPort, AtMeta, AtDrop

LEMMA SubsetsFinite ==
    /\ \A S \in SUBSET Positions : IsFiniteSet(S) /\ Cardinality(S) \in Nat
    /\ \A S \in SUBSET Mbufs : IsFiniteSet(S) /\ Cardinality(S) \in Nat
<1>1. \A S \in SUBSET Positions : IsFiniteSet(S)
  BY PositionsFinite, FS_Subset
<1>2. \A S \in SUBSET Mbufs : IsFiniteSet(S)
  BY PathAssumption, FS_Subset
<1> QED
  BY <1>1, <1>2, FS_CardinalityType

LEMMA InjectiveImage ==
    ASSUME NEW S, IsFiniteSet(S), NEW f, \A b, c \in S : f[b] = f[c] => b = c
    PROVE  Cardinality({f[b] : b \in S}) = Cardinality(S)
<1> DEFINE T == {f[b] : b \in S}
           g == [b \in S |-> f[b]]
<1>1. g \in [S -> T] /\ (\A t \in T : \E b \in S : g[b] = t) /\ (\A b, c \in S : g[b] = g[c] => b = c)
  OBVIOUS
<1>2. g \in Bijection(S, T)
  BY <1>1 DEF Bijection, Injection, Surjection, IsInjective
<1> QED
  BY <1>2, FS_Bijection DEF ExistsBijection

LEMMA FreeFacts ==
    ASSUME TypeOK, CopyInv, kind = "firewall", NEW mask \in SUBSET Live, FreeCopies(mask)
    PROVE  /\ ~double_free' /\ saved_mbufs' = saved_mbufs /\ pool' \in SUBSET Mbufs
           /\ LiveCopies(Live \ mask, pool')
           /\ Cardinality(Mbufs \ pool') = Cardinality(Mbufs \ pool) - Cardinality(mask)
<1> DEFINE freed == {saved_mbufs[b] : b \in mask}
<1>1. LiveCopies(Live, pool) /\ ~double_free
  BY DEF CopyInv
<1>2. {b \in mask : saved_mbufs[b] # NULL} = mask
  BY <1>1, PathAssumption DEF LiveCopies
<1>3. /\ pool' = pool \cup freed
      /\ double_free' = (\/ double_free \/ freed \cap pool # {}
                           \/ Cardinality(freed) < Cardinality(mask))
      /\ saved_mbufs' = saved_mbufs
  BY <1>2, Zenon DEF FreeCopies
<1>4. mask \in SUBSET Positions
  BY LiveType
<1>5. Cardinality(freed) = Cardinality(mask)
  <2>1. \A b, c \in mask : saved_mbufs[b] = saved_mbufs[c] => b = c
    BY <1>1 DEF LiveCopies
  <2>2. IsFiniteSet(mask)
    BY <1>4, SubsetsFinite
  <2> QED
    BY <2>1, <2>2, InjectiveImage
<1>6. \A b \in mask : saved_mbufs[b] \in Mbufs /\ saved_mbufs[b] \notin pool
  BY <1>1 DEF LiveCopies
<1>7. freed \in SUBSET (Mbufs \ pool)
  BY <1>6
<1>8. \A b \in Live \ mask : saved_mbufs[b] \notin freed
  BY <1>1 DEF LiveCopies
<1> HIDE DEF freed
<1>9. ~double_free'
  <2>1. freed \cap pool = {}
    BY <1>7
  <2>2. ~(Cardinality(freed) < Cardinality(mask))
    BY <1>4, <1>5, SubsetsFinite
  <2> QED
    BY <1>1, <1>3, <2>1, <2>2
<1>10. LiveCopies(Live \ mask, pool')
  BY <1>1, <1>3, <1>8 DEF LiveCopies
<1>11. Cardinality(Mbufs \ pool') = Cardinality(Mbufs \ pool) - Cardinality(mask)
  <2> DEFINE out == Mbufs \ pool
  <2>1. Mbufs \ pool' = out \ freed /\ out \cap freed = freed
    BY <1>3, <1>7
  <2>2. IsFiniteSet(out)
    BY SubsetsFinite
  <2>3. Cardinality(out \ freed) = Cardinality(out) - Cardinality(out \cap freed)
    BY <2>2, FS_Difference
  <2> QED
    BY <2>1, <2>3, <1>5, Zenon
<1>12. pool' \in SUBSET Mbufs
  BY <1>3, <1>7 DEF TypeOK
<1> QED
  BY <1>3, <1>9, <1>10, <1>11, <1>12

LEMMA SendKeepsCopies ==
    ASSUME TypeOK, CopyInv, kind = "firewall", kind' = kind, NEW dest, DOMAIN dest \subseteq Live,
           \A b \in DOMAIN dest : dest[b] \in PortsOut,
           output_port_free_full_copy(dest), Live' = Live \ DOMAIN dest, drops' = drops
    PROVE  CopyInv' /\ (NumPortsOut <= 2 /\ CountInv => CountInv')
<1> DEFINE mask == {b \in DOMAIN dest : dest[b] \in {0, 1}}
<1>1. mask \in SUBSET Live /\ mask \in SUBSET DOMAIN dest /\ FreeCopies(mask)
  BY DEF output_port_free_full_copy
<1>2. NumPortsOut <= 2 => mask = DOMAIN dest
  <2>1. NumPortsOut <= 2 => \A o \in PortsOut : o \in {0, 1}
    BY PathAssumption DEF PortsOut
  <2> QED
    BY <2>1
<1> HIDE DEF mask
<1>3. /\ ~double_free' /\ saved_mbufs' = saved_mbufs
      /\ LiveCopies(Live \ mask, pool')
      /\ Cardinality(Mbufs \ pool') = Cardinality(Mbufs \ pool) - Cardinality(mask)
  BY <1>1, FreeFacts
<1>4. CopyInv'
  BY <1>1, <1>3 DEF CopyInv, LiveCopies
<1>5. ASSUME NumPortsOut <= 2, CountInv PROVE CountInv'
  <2>1. Live' = Live \ mask /\ Live \cap mask = mask
    BY <1>1, <1>2, <1>5
  <2>2. IsFiniteSet(Live) /\ Cardinality(Live) \in Nat /\ Cardinality(mask) \in Nat
    BY <1>1, LiveType, SubsetsFinite
  <2>3. Cardinality(Live \ mask) = Cardinality(Live) - Cardinality(Live \cap mask)
    BY <2>2, FS_Difference
  <2>4. Cardinality(Live') = Cardinality(Live) - Cardinality(mask)
    BY <2>1, <2>3, Zenon
  <2>5. Cardinality(Mbufs \ pool) = drops + Cardinality(Live) /\ drops \in Nat
    BY <1>5 DEF CountInv, TypeOK
  <2>6. Cardinality(Mbufs \ pool') = drops + Cardinality(Live')
    BY <2>2, <2>4, <2>5, <1>3
  <2> QED
    BY <2>6 DEF CountInv
<1> QED
  BY <1>4, <1>5

\* Steps of a firewall that free nothing and lose no packet.
LEMMA QuietStepKeepsCopies ==
    ASSUME CopyInv, kind' = kind, UNCHANGED copies, kind = "firewall" => Live' = Live, drops' = drops
    PROVE  CopyInv' /\ (CountInv => CountInv')
<1>1. saved_mbufs' = saved_mbufs /\ pool' = pool /\ double_free' = double_free
  BY DEF copies
<1>2. CopyInv'
  BY <1>1 DEF CopyInv, LiveCopies
<1>3. CountInv => CountInv'
  BY <1>1 DEF CountInv
<1> QED
  BY <1>2, <1>3

LEMMA ReceiveKeepsCopies ==
    ASSUME PathInv, CopyInv, NumPortsIn = 1, NEW in \in PortsIn, NEW n \in 1 .. BurstMax, NEW D, NEW H,
           Receive(in, n, D, H)
    PROVE  CopyInv' /\ (CountInv => CountInv')
<1>1. /\ pc = "rx" /\ received' = 0 .. n - 1 /\ UserAction(received', D, H)
      /\ pkts_mask' = received' \ (D \cup H)
      /\ action_mask0' = WithMask(NoMasks, "drop", D, {})
      /\ pc' = IF pkts_mask' = {} THEN "port" ELSE "lookup"
      /\ kind' = kind /\ drops' = drops
  BY DEF Receive
<1>2. CASE kind # "firewall"
  <2>1. UNCHANGED copies
    BY <1>2 DEF Receive, Copying
  <2> QED
    BY <1>1, <1>2, <2>1, QuietStepKeepsCopies
<1>3. CASE kind = "firewall"
  <2>1. PICK copy \in [0 .. n - 1 -> pool] :
          /\ \A b, c \in 0 .. n - 1 : b # c => copy[b] # copy[c]
          /\ saved_mbufs' = [b \in Positions |-> IF b < n THEN copy[b] ELSE saved_mbufs[b]]
          /\ pool' = pool \ {copy[b] : b \in 0 .. n - 1}
          /\ UNCHANGED double_free
    <3>1. in = 0
      BY DEF PortsIn
    <3> QED
      BY <3>1, <1>3 DEF Receive, Copying, input_port_make_full_copy
  <2> DEFINE B == 0 .. n - 1
             taken == {copy[b] : b \in B}
  <2>2. Live = {}
    BY <1>1 DEF Live, AtTables, AtTable, AtPort, AtMeta, AtDrop
  <2>3. Live' = B
    <3>1. D = {} /\ H = {} /\ pkts_mask' = B /\ 0 \in B
      BY <1>1, <1>3 DEF UserAction
    <3>2. \A a \in Actions : action_mask0'[a] = {}
      BY <1>1, <3>1 DEF WithMask, NoMasks
    <3>3. pc' = "lookup"
      BY <1>1, <3>1
    <3> HIDE DEF B
    <3> QED
      BY <3>1, <3>2, <3>3, ActionNames DEF Live, AtTables, AtTable, AtPort, AtMeta, AtDrop
  <2>4. B \in SUBSET Positions
    BY PathAssumption DEF Positions
  <2>5. \A b \in B : saved_mbufs'[b] = copy[b] /\ copy[b] \in pool /\ copy[b] \in taken
    BY <2>1, <2>4
  <2>6. CopyInv'
    <3>1. pool \in SUBSET Mbufs
      BY DEF PathInv, TypeOK
    <3>2. LiveCopies(Live, pool)'
      BY <2>1, <2>3, <2>5, <3>1 DEF LiveCopies
    <3> QED
      BY <2>1, <3>2 DEF CopyInv
  <2>7. ASSUME CountInv PROVE CountInv'
    <3> DEFINE out == Mbufs \ pool
    <3>1. pool \in SUBSET Mbufs /\ taken \in SUBSET pool
      BY DEF PathInv, TypeOK
    <3>2. Mbufs \ pool' = out \cup taken /\ out \cap taken = {}
      BY <2>1, <3>1
    <3>3. IsFiniteSet(out) /\ IsFiniteSet(taken) /\ Cardinality(out) \in Nat /\ Cardinality(taken) \in Nat
      BY <3>1, SubsetsFinite
    <3>4. Cardinality(out \cup taken) = Cardinality(out) + Cardinality(taken) - Cardinality(out \cap taken)
      BY <3>3, FS_Union
    <3>5. Cardinality(taken) = Cardinality(B)
      <4>1. IsFiniteSet(B) /\ \A b, c \in B : copy[b] = copy[c] => b = c
        BY <2>1, <2>4, SubsetsFinite
      <4> QED
        BY <4>1, InjectiveImage
    <3>6. Cardinality(out) = drops
      <4>1. Cardinality(out) = drops + Cardinality(Live)
        BY <2>7, <1>3 DEF CountInv
      <4> QED
        BY <4>1, <2>2, FS_EmptySet DEF PathInv, TypeOK
    <3> HIDE DEF out, taken, B
    <3>7. Cardinality(out \cap taken) = 0
      BY <3>2, FS_EmptySet, Zenon
    <3>8. Cardinality(out \cup taken) = drops + Cardinality(B)
      BY <3>3, <3>4, <3>5, <3>6, <3>7
    <3>9. Cardinality(Mbufs \ pool') = drops + Cardinality(B)
      BY <3>2, <3>8, Zenon
    <3> QED
      BY <3>9, <2>3, <1>1 DEF CountInv
  <2> QED
    BY <2>6, <2>7
<1> QED
  BY <1>2, <1>3

LEMMA MissKeepsCopies ==
    ASSUME PathInv, CopyInv, Miss
    PROVE  CopyInv' /\ (NumPortsOut <= 2 /\ CountInv => CountInv')
<1> DEFINE e == default_entry[table_id]
<1>1. PICK D, H :
        /\ UserAction(lookup_miss_mask, D, H)
        /\ \/ MissOther(D, H)
           \/ \E Dout, Hout : MissPort(D, H, Dout, Hout)
  BY DEF Miss
<1>2. pc = "miss" /\ pc' = "hit" /\ UNCHANGED <<kind, lookup_hit_mask, drops>>
  BY DEF Miss
<1>3. kind = "firewall" => D = {} /\ H = {}
  BY <1>1 DEF UserAction
<1>4. TypeOK /\ e \in Entries /\ lookup_hit_mask \subseteq pkts_mask /\ action_mask0["table"] = {}
  BY <1>2 DEF PathInv, TypeOK, TableAnswers
<1>5. Live = pkts_mask \cup action_mask0["port"] \cup action_mask0["port_meta"] \cup action_mask0["drop"]
  BY <1>2 DEF Live, AtTables, AtTable, AtPort, AtMeta, AtDrop, PathInv, TableAnswers
<1>6. Live' = lookup_hit_mask \cup action_mask0'["table"] \cup action_mask0'["port"]
                \cup action_mask0'["port_meta"] \cup action_mask0'["drop"]
  BY <1>2 DEF Live, AtTables, AtTable, AtPort, AtMeta, AtDrop
<1>7. e.action \in Actions /\ (e.action = "port" => e.port \in PortsOut)
  BY <1>4, EntryFacts
<1> HIDE DEF e
<1>8. CASE MissOther(D, H)
  <2>1. UNCHANGED copies
    BY <1>8 DEF MissOther
  <2>2. kind = "firewall" => Live' = Live
    <3> SUFFICES ASSUME kind = "firewall" PROVE Live' = Live
      OBVIOUS
    <3> DEFINE left == lookup_miss_mask \ (D \cup H)
    <3>1. action_mask0' = WithMask(action_mask0, e.action, left, D)
      BY <1>8 DEF MissOther, e
    <3>2. left = pkts_mask \ lookup_hit_mask /\ D = {}
      BY <1>3 DEF lookup_miss_mask
    <3> HIDE DEF left
    <3>3. \A a \in Actions : action_mask0'[a] = action_mask0[a] \cup (IF a = e.action THEN left ELSE {})
      BY <3>1, <3>2 DEF WithMask
    <3> QED
      BY <1>4, <1>5, <1>6, <1>7, <3>2, <3>3 DEF Actions
  <2> QED
    BY <1>2, <2>1, <2>2, QuietStepKeepsCopies
<1>9. ASSUME NEW Dout, NEW Hout, MissPort(D, H, Dout, Hout)
      PROVE  CopyInv' /\ (NumPortsOut <= 2 /\ CountInv => CountInv')
  <2> DEFINE left == lookup_miss_mask \ (D \cup H)
             dest == [b \in left |-> e.port]
  <2>1. /\ e.action = "port" /\ UserAction(left, Dout, Hout) /\ output_port_free_full_copy(dest)
        /\ action_mask0' = WithMask(action_mask0, "drop", {}, D \cup Dout)
    BY <1>9 DEF MissPort, ActOnAndSend, e
  <2>2. CASE kind # "firewall"
    <3>1. UNCHANGED copies
      BY <2>1, <2>2 DEF output_port_free_full_copy
    <3> QED
      BY <1>2, <2>2, <3>1, QuietStepKeepsCopies
  <2>3. CASE kind = "firewall"
    <3>1. DOMAIN dest = left /\ \A b \in left : dest[b] \in PortsOut
      BY <1>7, <2>1
    <3>2. left = pkts_mask \ lookup_hit_mask /\ D = {} /\ Dout = {}
      BY <1>3, <2>1, <2>3 DEF lookup_miss_mask, UserAction
    <3> HIDE DEF left, dest
    <3>3. \A a \in Actions : action_mask0'[a] = action_mask0[a]
      BY <2>1, <3>2 DEF WithMask
    <3>4. \A b \in pkts_mask : b \notin action_mask0["port"] /\ b \notin action_mask0["port_meta"]
                                 /\ b \notin action_mask0["drop"]
      BY <1>2 DEF PathInv, Places, Split, AtTables, AtPort, AtMeta, AtDrop
    <3>5. Live' = Live \ left
      BY <1>4, <1>5, <1>6, <3>2, <3>3, <3>4, ActionNames
    <3>6. left \subseteq Live
      BY <1>5, <3>2
    <3> QED
      BY <1>2, <1>4, <2>1, <2>3, <3>1, <3>5, <3>6, SendKeepsCopies
  <2> QED
    BY <2>2, <2>3
<1> QED
  BY <1>1, <1>8, <1>9

LEMMA HitKeepsCopies ==
    ASSUME PathInv, CopyInv, NEW D, NEW H, Hit(D, H)
    PROVE  CopyInv' /\ (CountInv => CountInv')
<1>1. UNCHANGED <<kind, copies, drops>>
  BY DEF Hit
<1>2. ASSUME kind = "firewall" PROVE Live' = Live
  <2> DEFINE masks == [a \in Actions |-> action_mask0[a] \cup rte_pipeline_compute_masks(lookup_hit_mask \ (D \cup H))[a]
                                            \cup (IF a = "drop" THEN D ELSE {})]
  <2>1. /\ pc = "hit" /\ pc' = IF pkts_mask' = {} THEN "port" ELSE "lookup"
        /\ pkts_mask' = masks["table"] /\ action_mask0' = [masks EXCEPT !["table"] = {}]
    BY DEF Hit
  <2>2. D = {} /\ H = {}
    BY <1>2 DEF Hit, UserAction
  <2>3. \A b \in lookup_hit_mask : entries[b].action \in Actions
    BY <2>1, EntriesOfFacts, EntryFacts DEF PathInv, TableAnswers
  <2>4. \A a \in Actions : masks[a] = action_mask0[a] \cup {b \in lookup_hit_mask : entries[b].action = a}
    BY <2>2 DEF rte_pipeline_compute_masks
  <2>5. masks = [a \in Actions |-> masks[a]]
    OBVIOUS
  <2> HIDE DEF masks
  <2>6. /\ pkts_mask' = action_mask0["table"] \cup {b \in lookup_hit_mask : entries[b].action = "table"}
        /\ action_mask0'["port"] = action_mask0["port"] \cup {b \in lookup_hit_mask : entries[b].action = "port"}
        /\ action_mask0'["drop"] = action_mask0["drop"] \cup {b \in lookup_hit_mask : entries[b].action = "drop"}
        /\ action_mask0'["port_meta"] = action_mask0["port_meta"]
                                           \cup {b \in lookup_hit_mask : entries[b].action = "port_meta"}
    BY <2>1, <2>4, <2>5, ActionNames
  <2>7. Live = lookup_hit_mask \cup action_mask0["table"] \cup action_mask0["port"]
                 \cup action_mask0["port_meta"] \cup action_mask0["drop"]
    BY <2>1 DEF Live, AtTables, AtTable, AtPort, AtMeta, AtDrop
  <2>8. Live' = pkts_mask' \cup action_mask0'["port"] \cup action_mask0'["port_meta"] \cup action_mask0'["drop"]
    BY <2>1 DEF Live, AtTables, AtTable, AtPort, AtMeta, AtDrop
  <2> QED
    BY <2>3, <2>6, <2>7, <2>8 DEF Actions
<1> QED
  BY <1>1, <1>2, QuietStepKeepsCopies

LEMMA HandlerKeepsCopies ==
    ASSUME PathInv, CopyInv, NEW a \in {"port", "port_meta"}, NEW dest, NEW D, NEW H,
           DOMAIN dest = action_mask0[a], \A b \in DOMAIN dest : dest[b] \in PortsOut,
           pc = (IF a = "port" THEN "port" ELSE "meta"),
           pc' = (IF a = "port" THEN "meta" ELSE "drop"),
           ActionHandler(dest, D, H)
    PROVE  CopyInv' /\ (NumPortsOut <= 2 /\ CountInv => CountInv')
<1>1. /\ UserAction(DOMAIN dest, D, H) /\ output_port_free_full_copy(dest)
      /\ action_mask0' = WithMask(action_mask0, "drop", {}, D) /\ UNCHANGED <<kind, drops>>
  BY DEF ActionHandler, ActOnAndSend
<1>2. CASE kind # "firewall"
  <2>1. UNCHANGED copies
    BY <1>1, <1>2 DEF output_port_free_full_copy
  <2> QED
    BY <1>1, <1>2, <2>1, QuietStepKeepsCopies
<1>3. CASE kind = "firewall"
  <2>1. D = {}
    BY <1>1, <1>3 DEF UserAction
  <2>2. \A c \in Actions : action_mask0'[c] = action_mask0[c]
    BY <1>1, <2>1 DEF WithMask
  <2>3. Live = (IF a = "port" THEN action_mask0["port"] ELSE {}) \cup action_mask0["port_meta"] \cup action_mask0["drop"]
    BY DEF Live, AtTables, AtTable, AtPort, AtMeta, AtDrop
  <2>4. Live' = (IF a = "port" THEN action_mask0["port_meta"] ELSE {}) \cup action_mask0["drop"]
    BY <2>2, ActionNames DEF Live, AtTables, AtTable, AtPort, AtMeta, AtDrop
  <2>5. /\ a = "port" => \A b \in action_mask0["port"] : b \notin action_mask0["port_meta"] /\ b \notin action_mask0["drop"]
        /\ \A b \in action_mask0["port_meta"] : b \notin action_mask0["drop"]
    BY DEF PathInv, Places, Split, AtPort, AtMeta, AtDrop
  <2>6. Live' = Live \ DOMAIN dest /\ DOMAIN dest \subseteq Live
    BY <2>3, <2>4, <2>5
  <2>7. TypeOK
    BY DEF PathInv
  <2> QED
    BY <1>1, <1>3, <2>6, <2>7, SendKeepsCopies
<1> QED
  BY <1>2, <1>3

LEMMA DropHandlerKeepsCopies ==
    ASSUME PathInv, CopyInv, rte_pipeline_action_handler_drop
    PROVE  CopyInv' /\ (CountInv => CountInv')
<1>1. /\ pc = "drop" /\ pc' = "rx"
      /\ drops' = IF kind = "firewall" THEN drops + Cardinality(action_mask0["drop"]) ELSE drops
      /\ UNCHANGED <<kind, pool, saved_mbufs, double_free>>
  BY DEF rte_pipeline_action_handler_drop, copies
<1>2. Live = action_mask0["drop"] /\ Live' = {}
  BY <1>1 DEF Live, AtTables, AtTable, AtPort, AtMeta, AtDrop
<1>3. CopyInv'
  BY <1>1, <1>2 DEF CopyInv, LiveCopies
<1>4. ASSUME CountInv, kind = "firewall" PROVE CountInv'
  <2>1. Cardinality(Live) \in Nat /\ drops \in Nat
    BY LiveType, SubsetsFinite DEF PathInv, TypeOK
  <2>2. Cardinality(Live') = 0
    BY <1>2, FS_EmptySet, Zenon
  <2>3. Cardinality(Mbufs \ pool) = drops + Cardinality(Live) /\ drops' = drops + Cardinality(Live)
    BY <1>1, <1>2, <1>4 DEF CountInv
  <2>4. Cardinality(Mbufs \ pool') = drops' + Cardinality(Live')
    BY <2>1, <2>2, <2>3, <1>1
  <2> QED
    BY <2>4 DEF CountInv
<1>5. ASSUME kind # "firewall" PROVE CountInv'
  BY <1>1, <1>5 DEF CountInv
<1> QED
  BY <1>3, <1>4, <1>5

LEMMA NextKeepsCopies ==
    ASSUME PathInv, CopyInv, NumPortsIn = 1, [Next]_vars
    PROVE  CopyInv' /\ (NumPortsOut <= 2 /\ CountInv => CountInv')
<1> DEFINE Goal == CopyInv' /\ (NumPortsOut <= 2 /\ CountInv => CountInv')
<1>1. ASSUME NEW in \in PortsIn, NEW n \in 1 .. BurstMax, NEW D, NEW H, Receive(in, n, D, H)
      PROVE  Goal
  BY <1>1, ReceiveKeepsCopies
<1>2. ASSUME NEW found, Lookup(found) PROVE Goal
  <2>1. /\ pc = "lookup" /\ pc' = "miss"
        /\ UNCHANGED <<kind, pkts_mask, action_mask0, copies, drops>>
    BY <1>2 DEF Lookup
  <2>2. Live' = Live
    BY <2>1 DEF Live, AtTables, AtTable, AtPort, AtMeta, AtDrop, PathInv, TableAnswers
  <2> QED
    BY <2>1, <2>2, QuietStepKeepsCopies
<1>3. CASE Miss
  BY <1>3, MissKeepsCopies
<1>4. ASSUME NEW D, NEW H, Hit(D, H) PROVE Goal
  BY <1>4, HitKeepsCopies
<1>5. ASSUME NEW D, NEW H, rte_pipeline_action_handler_port(D, H) PROVE Goal
  <2> DEFINE dest == [b \in action_mask0["port"] |-> entries[b].port]
  <2>1. pc = "port" /\ pc' = "meta" /\ ActionHandler(dest, D, H)
    BY <1>5 DEF rte_pipeline_action_handler_port
  <2>2. ASSUME NEW b \in action_mask0["port"] PROVE dest[b] \in PortsOut
    <3>1. \E o \in PortsOut : entries[b] = Port(o)
      BY <2>1 DEF PathInv, MasksAgree, AtPort
    <3> QED
      BY <3>1, EntryFacts
  <2>3. DOMAIN dest = action_mask0["port"]
    OBVIOUS
  <2> HIDE DEF dest
  <2> QED
    BY <2>1, <2>2, <2>3, HandlerKeepsCopies
<1>6. ASSUME NEW dest \in [action_mask0["port_meta"] -> PortsOut], NEW D, NEW H,
             rte_pipeline_action_handler_port_meta(dest, D, H)
      PROVE  Goal
  <2>1. pc = "meta" /\ pc' = "drop" /\ ActionHandler(dest, D, H)
    BY <1>6 DEF rte_pipeline_action_handler_port_meta
  <2> QED
    BY <2>1, HandlerKeepsCopies
<1>7. CASE rte_pipeline_action_handler_drop
  BY <1>7, DropHandlerKeepsCopies
<1>8. CASE \/ UNCHANGED vars
           \/ \E in \in PortsIn, n \in 1 .. BurstMax : rte_panic(in, n)
           \/ \E t \in Tables : \E e \in EntriesOf(t) \cup {Drop} : SetDefault(t, e)
  <2>1. /\ UNCHANGED <<kind, pkts_mask, action_mask0, lookup_hit_mask, copies, drops>>
        /\ pc' = pc \/ (pc = "rx" /\ pc' = "panic")
    BY <1>8 DEF vars, rte_panic, SetDefault, path
  <2>2. Live' = Live
    BY <2>1 DEF Live, AtTables, AtTable, AtPort, AtMeta, AtDrop
  <2> QED
    BY <2>1, <2>2, QuietStepKeepsCopies
<1> QED
  BY <1>1, <1>2, <1>3, <1>4, <1>5, <1>6, <1>7, <1>8, Zenon DEF Next

LEMMA InitCopies == Init => CopyInv /\ CountInv
<1> SUFFICES ASSUME Init PROVE CopyInv /\ CountInv
  OBVIOUS
<1>1. Live = {} /\ Mbufs \ pool = {} /\ ~double_free /\ drops = 0
  BY DEF Init, Live, AtTables, AtTable, AtPort, AtMeta, AtDrop
<1>2. CopyInv
  BY <1>1 DEF CopyInv, LiveCopies
<1>3. Cardinality(Mbufs \ pool) = 0 /\ Cardinality(Live) = 0
  BY <1>1, FS_EmptySet, Zenon
<1>4. CountInv
  BY <1>1, <1>3 DEF CountInv
<1> QED
  BY <1>2, <1>4

LEMMA AlwaysCopyInv == Spec => [](NumPortsIn = 1 => CopyInv /\ (NumPortsOut <= 2 => CountInv))
<1> DEFINE I == NumPortsIn = 1 => CopyInv /\ (NumPortsOut <= 2 => CountInv)
<1>1. Init => I
  BY InitCopies
<1>2. PathInv /\ I /\ [Next]_vars => I'
  BY NextKeepsCopies
<1> HIDE DEF I
<1>3. Spec => []I
  BY <1>1, <1>2, AlwaysPathInv, PTL DEF Spec
<1> QED
  BY <1>3, PTL DEF I

-----------------------------------------------------------------------------
(***************************************************************************)
(* A firewall with one input port never frees a copy that is not in use,   *)
(* for any burst size, number of output ports and rules.  With a second    *)
(* input port, whose packets are not copied, this would be false: the      *)
(* output action frees whatever saved_mbufs holds at the position.         *)
(***************************************************************************)
THEOREM AlwaysCopiesAreFreedOnce == Spec => [](NumPortsIn = 1 => CopiesAreFreedOnce)
<1>1. CopyInv => CopiesAreFreedOnce
  BY DEF CopyInv, CopiesAreFreedOnce
<1> QED
  BY <1>1, AlwaysCopyInv, PTL

(***************************************************************************)
(* With one input port, and no output port but the two whose action frees  *)
(* copies, the pool lacks exactly one copy for each packet that was        *)
(* dropped.                                                                *)
(***************************************************************************)
THEOREM AlwaysDropsLeakTheirCopies ==
    Spec => [](NumPortsIn = 1 /\ NumPortsOut <= 2 => DropsLeakTheirCopies)
<1>1. PathInv /\ CountInv => DropsLeakTheirCopies
  <2> SUFFICES ASSUME PathInv, CountInv, kind = "firewall", pc = "rx"
               PROVE  Cardinality(Mbufs \ pool) = drops
    BY DEF DropsLeakTheirCopies
  <2>1. Live = {}
    BY DEF Live, AtTables, AtTable, AtPort, AtMeta, AtDrop
  <2>2. Cardinality(Live) = 0
    BY <2>1, FS_EmptySet, Zenon
  <2> QED
    BY <2>2 DEF CountInv, PathInv, TypeOK
<1> QED
  BY <1>1, AlwaysPathInv, AlwaysCopyInv, PTL
=============================================================================
