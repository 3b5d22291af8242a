------------------------- MODULE FirewallCtlProofs -------------------------
(***************************************************************************)
(* The control plane of the firewall, for addresses, tables, batches and   *)
(* rings of any size and any number of commands: its messages follow the   *)
(* protocol of ControlChannel, and as long as no command times out the     *)
(* front end knows every rule in force and lists none twice, its list is   *)
(* the table unless a bulk command has failed, and no memory is used after *)
(* it was freed.                                                           *)
(*                                                                         *)
(* Without a timeout the two threads move in lock step, so that the        *)
(* invariant (InStep) can say what a reply on its way is worth: that the   *)
(* table is what the handler made, with the answer the reply gives, of a   *)
(* table that agreed with the front end's list.                            *)
(***************************************************************************)
EXTENDS FirewallCtl, TLAPS, FiniteSetTheorems, SequenceTheorems, WellFoundedInduction

OpNames == {"add", "del", "add_bulk", "del_bulk", "add_default", "del_default", "ping"}

Rule == [key : Keys, port : Ports]
KeyOnly == [key : Keys]
PortOnly == [port : Ports]
Tables == [Keys -> Ports \cup {NONE}]
Lists == [Keys -> Seq(Ports)]

Request ==
    {m \in [id : Nat \ {0}, op : OpNames, args : Seq(Rule) \cup Seq(KeyOnly) \cup Seq(PortOnly)] :
       /\ m.op \in {"add", "add_bulk"} => m.args \in Seq(Rule)
       /\ m.op \in {"del", "del_bulk"} => m.args \in Seq(KeyOnly)
       /\ m.op = "add_default" => m.args \in Seq(PortOnly)
       /\ m.op \in {"add", "del", "add_default"} => Len(m.args) = 1
       /\ m.op = "add_bulk" => m.args # <<>>}

Answer == [id : Nat \ {0}, ok : BOOLEAN, word : 0 .. 2, ptr : BOOLEAN]

Types ==
    /\ TypeOK /\ IsFiniteSet(Installed(table))
    /\ fe \in {"idle", "send", "recv"} /\ issued \in Nat /\ timeouts \in Nat /\ bulk_failed \in BOOLEAN
    /\ msgq_in \in Seq(Request) /\ msgq_out \in Seq(Answer)
    /\ be \in {NoMsg} \cup Answer \cup [id : Nat \ {0}]
    /\ undefined = {} => be \in {NoMsg} \cup Answer
    /\ fe # "idle" => cmd \in Request /\ cmd.id = issued

\* What the front end may rely on before a command: table t has no rule it does not know.
Agree(t) ==
    /\ \A k \in Keys : t[k] # NONE => rules[k] # <<>>
    /\ ~bulk_failed => rules = Listing(t)

At(args, k) == {i \in DOMAIN args : args[i].key = k}
IsLast(i, S) == i \in S /\ \A j \in S : j <= i

\* The table after a batch that was added to t: later keys win, or one of them if the rule is new.
AddedTo(t, args, u) ==
    \A k \in Keys :
      /\ At(args, k) = {} => u[k] = t[k]
      /\ t[k] # NONE => \A i \in DOMAIN args : IsLast(i, At(args, k)) => u[k] = args[i].port
      /\ t[k] = NONE /\ At(args, k) # {} => \E i \in At(args, k) : u[k] = args[i].port

\* Table u is what the handler of m has made of t, when it answers ok, and for an add
\* or delete of one rule key_found is hit; found and foreign are the arrays of a batch.
MadeBy(m, t, u, ok, hit, found, foreign) ==
    /\ m.op = "add" =>
         IF ok THEN /\ u = [t EXCEPT ![m.args[1].key] = m.args[1].port]
                    /\ hit <=> t[m.args[1].key] # NONE
               ELSE u = t
    /\ m.op = "del" =>
         IF ok THEN /\ u = [t EXCEPT ![m.args[1].key] = NONE]
                    /\ hit <=> t[m.args[1].key] # NONE
               ELSE u = t
    /\ m.op = "add_bulk" =>
         IF ok THEN /\ AddedTo(t, m.args, u)
                    /\ \A i \in DOMAIN m.args : /\ foreign[i]
                                                /\ found[i] <=> t[m.args[i].key] # NONE \/ InBatch(m.args, i)
               ELSE \A k \in Keys : u[k] # NONE <=> t[k] # NONE
    /\ m.op = "del_bulk" =>
         IF ok THEN /\ u = [k \in Keys |-> IF At(m.args, k) # {} THEN NONE ELSE t[k]]
                    /\ \A i \in DOMAIN m.args : found[i] => t[m.args[i].key] # NONE /\ ~InBatch(m.args, i)
               ELSE u = t
    /\ m.op \in {"add_default", "del_default", "ping"} => u = t /\ ok

\* Reply r is on its way, and the table is what it says.
Replied(r) ==
    /\ \E t \in Tables : Agree(t) /\ MadeBy(cmd, t, table, r.ok, r.word = 1, arrays.found, arrays.foreign)
    /\ default_entry = DefaultAfter
    /\ Bulk => arrays.written
    /\ cmd.op \in {"add", "add_default"} => r.ptr

InStep ==
    /\ fe \in {"idle", "send"} => msgq_in = <<>> /\ be = NoMsg /\ msgq_out = <<>>
    /\ fe = "recv" =>
         \/ msgq_in = <<cmd>> /\ be = NoMsg /\ msgq_out = <<>>
         \/ msgq_in = <<>> /\ be \in Answer /\ msgq_out = <<>> /\ Replied(be)
         \/ msgq_in = <<>> /\ be = NoMsg /\ Len(msgq_out) = 1 /\ Replied(msgq_out[1])
    /\ ~(fe = "recv" /\ msgq_in = <<>>) => Agree(table) /\ default_rule = default_entry

\* After an error in memory nothing goes on.
Broken == bulk_failed /\ undefined \cap ByTimeoutsOnly = {}

Inv == Types /\ ListedOnce /\ (timeouts = 0 => IF undefined = {} THEN InStep ELSE Broken)

-----------------------------------------------------------------------------
(***************************************************************************)
(* Positions in a batch.                                                   *)
(***************************************************************************)
LEMMA LeastNatural ==
    ASSUME NEW S \in SUBSET Nat, S # {}
    PROVE  \E i \in S : \A j \in S : i <= j
<1>1. PICK i \in S : \A j \in S : ~(<<j, i>> \in OpToRel(<, Nat))
  BY NatLessThanWellFounded, WFMin
<1>2. \A j \in S : ~(j < i)
  BY <1>1 DEF OpToRel
<1> QED
  BY <1>2

LEMMA GreatestNatural ==
    ASSUME NEW n \in Nat, NEW S \in SUBSET (1 .. n), S # {}
    PROVE  \E i \in S : \A j \in S : j <= i
<1> DEFINE D == {n - i : i \in S}
<1>1. D \in SUBSET Nat /\ D # {}
  <2>1. PICK i \in S : TRUE
    OBVIOUS
  <2>2. n - i \in D
    BY <2>1
  <2>3. \A j \in 1 .. n : n - j \in Nat
    OBVIOUS
  <2> QED
    BY <2>2, <2>3
<1>2. PICK d \in D : \A e \in D : d <= e
  BY <1>1, LeastNatural
<1>3. PICK i \in S : d = n - i
  BY <1>2
<1>4. \A j \in S : n - i <= n - j
  BY <1>2, <1>3
<1> QED
  BY <1>3, <1>4

LEMMA FirstAndLast ==
    ASSUME NEW n \in Nat, NEW S \in SUBSET (1 .. n), S # {}
    PROVE  /\ IsLast(CHOOSE i \in S : \A j \in S : j <= i, S)
           /\ (CHOOSE i \in S : \A j \in S : i <= j) \in S
           /\ \A j \in S : (CHOOSE i \in S : \A j1 \in S : i <= j1) <= j
<1>1. \E i \in S : \A j \in S : j <= i
  BY GreatestNatural
<1>2. \E i \in S : \A j \in S : i <= j
  <2>1. S \in SUBSET Nat
    OBVIOUS
  <2> QED
    BY <2>1, LeastNatural
<1> QED
  BY <1>1, <1>2 DEF IsLast

\* The n-th of the positions S: the first up to which there are n of them.
LEMMA NthOfPlaces ==
    ASSUME NEW L \in Nat, NEW S \in SUBSET (1 .. L), NEW n \in 1 .. Cardinality(S)
    PROVE  \E i \in S : Cardinality({j \in S : j <= i}) = n
<1> DEFINE upTo(i) == {j \in S : j <= i}
           c(i) == Cardinality(upTo(i))
           T == {i \in 0 .. L : n <= c(i)}
<1>0. \A j \in S : j \in Int /\ 1 <= j /\ j <= L
  OBVIOUS
<1>1. IsFiniteSet(S)
  <2>1. IsFiniteSet(1 .. L)
    BY 1 \in Int, L \in Int, FS_Interval
  <2> QED
    BY <2>1, FS_Subset
<1>2. \A i \in 0 .. L : IsFiniteSet(upTo(i)) /\ c(i) \in Nat
  <2>1. \A i \in 0 .. L : upTo(i) \in SUBSET S
    OBVIOUS
  <2> HIDE DEF upTo
  <2> QED
    BY <1>1, <2>1, FS_Subset, FS_CardinalityType
<1>3. c(0) = 0
  <2>1. \A j \in S : ~(j <= 0)
    BY <1>0
  <2>2. upTo(0) = {}
    BY <2>1, Zenon
  <2> QED
    BY <2>2, FS_EmptySet
<1>4. c(L) = Cardinality(S) /\ n \in Nat \ {0} /\ n <= c(L)
  <2>1. \A j \in S : j <= L
    BY <1>0
  <2>2. upTo(L) = S
    BY <2>1, Zenon
  <2>3. Cardinality(S) \in Nat
    BY <1>1, FS_CardinalityType
  <2> QED
    BY <2>2, <2>3
<1>5. ASSUME NEW i \in 1 .. L
      PROVE  /\ i \notin S => c(i) = c(i - 1)
             /\ c(i) <= c(i - 1) + 1
  <2>1. i - 1 \in 0 .. L
    OBVIOUS
  <2>2. \A j \in S : j <= i <=> j <= i - 1 \/ j = i
    BY <1>0
  <2>3. i \notin S => upTo(i) = upTo(i - 1)
    BY <2>2, Zenon
  <2>4. i \in S => upTo(i) = upTo(i - 1) \cup {i}
    <3>1. i <= i
      OBVIOUS
    <3> QED
      BY <2>2, <3>1, Zenon
  <2>5. IsFiniteSet(upTo(i - 1)) /\ c(i - 1) \in Nat
    BY <1>2, <2>1, Zenon
  <2> HIDE DEF upTo
  <2>6. Cardinality(upTo(i - 1) \cup {i}) \in {c(i - 1), c(i - 1) + 1}
    BY <2>5, FS_AddElement
  <2>7. i \notin S => c(i) = c(i - 1)
    BY <2>3
  <2>8. i \in S => c(i) \in {c(i - 1), c(i - 1) + 1}
    BY <2>4, <2>6
  <2> HIDE DEF c
  <2> QED
    BY <2>5, <2>7, <2>8
<1> HIDE DEF c
<1>6. PICK i \in T : \A j \in T : i <= j
  <2>1. L \in T /\ T \in SUBSET Nat
    BY <1>4
  <2> HIDE DEF T
  <2> QED
    BY <2>1, LeastNatural
<1>7. i \in 0 .. L /\ n <= c(i) /\ i # 0
  BY <1>3, <1>4, <1>6
<1>8. i - 1 \in 0 .. L /\ ~(n <= c(i - 1))
  <2>1. i - 1 \in 0 .. L /\ ~(i <= i - 1)
    BY <1>7
  <2> QED
    BY <1>6, <2>1
<1>9. i \in S /\ c(i) = n
  <2>1. i \in 1 .. L
    BY <1>7
  <2>2. c(i) \in Nat
    BY <1>2, <1>7
  <2>3. c(i - 1) \in Nat
    BY <1>2, <1>8
  <2>4. i \notin S => c(i) = c(i - 1)
    BY <1>5, <2>1
  <2>5. c(i) <= c(i - 1) + 1
    BY <1>5, <2>1
  <2> QED
    BY <1>4, <1>7, <1>8, <2>2, <2>3, <2>4, <2>5
<1> QED
  BY <1>9 DEF c

(***************************************************************************)
(* The handlers.                                                           *)
(***************************************************************************)
TableOK(t) == t \in Tables /\ IsFiniteSet(Installed(t)) /\ Cardinality(Installed(t)) <= Capacity

Makes(m, e) ==
    /\ TableOK(e.table) /\ e.ok \in BOOLEAN
    /\ MadeBy(m, table, e.table, e.ok, e.found[1], e.found, e.foreign)

LEMMA FewerRules ==
    ASSUME NEW t, NEW u, TableOK(t), u \in Tables, \A k \in Keys : u[k] # NONE => t[k] # NONE
    PROVE  TableOK(u)
<1>1. Installed(u) \in SUBSET Installed(t)
  BY DEF Installed
<1>2. IsFiniteSet(Installed(u)) /\ Cardinality(Installed(u)) <= Cardinality(Installed(t))
  BY <1>1, FS_Subset DEF TableOK
<1>3. Cardinality(Installed(t)) \in Nat /\ Cardinality(Installed(u)) \in Nat
  BY <1>2, FS_CardinalityType DEF TableOK
<1> QED
  BY <1>2, <1>3, FirewallAssumption DEF TableOK

LEMMA EffectFields ==
    ASSUME NEW ok, NEW t, NEW found, NEW foreign
    PROVE  LET e == Effect(ok, t, found, foreign)
           IN  e.ok = ok /\ e.table = t /\ e.found = found /\ e.foreign = foreign
BY DEF Effect

LEMMA AddMakes ==
    ASSUME TableOK(table), NEW m \in Request, m.op = "add", NEW e \in add_handler(m.args)
    PROVE  Makes(m, e)
<1> DEFINE k == m.args[1].key
           p == m.args[1].port
           new == [table EXCEPT ![k] = p]
<1>1. k \in Keys /\ p \in Ports
  <2>1. m.args \in Seq(Rule) /\ Len(m.args) = 1
    BY DEF Request
  <2>2. m.args[1] \in Rule
    BY <2>1
  <2> QED
    BY <2>2 DEF Rule
<1>2. CASE e = Refused(m.args)
  <2>1. e.ok = FALSE /\ e.table = table
    BY <1>2 DEF Refused, Effect
  <2> QED
    BY <2>1 DEF Makes, MadeBy
<1>3. CASE e = Effect(TRUE, new, <<table[k] # NONE>>, <<TRUE>>) /\ (table[k] # NONE \/ ~Full(table))
  <2>1. e.ok = TRUE /\ e.table = new /\ e.found[1] = (table[k] # NONE)
    BY <1>3 DEF Effect
  <2>2. new \in Tables /\ table \in Tables /\ p # NONE
    BY <1>1, FirewallAssumption DEF TableOK, Tables
  <2>3. Installed(new) = Installed(table) \cup {k}
    BY <1>1, <2>2 DEF Installed, Tables
  <2>4. /\ IsFiniteSet(Installed(table) \cup {k})
        /\ Cardinality(Installed(table) \cup {k}) =
             IF k \in Installed(table) THEN Cardinality(Installed(table)) ELSE Cardinality(Installed(table)) + 1
    BY FS_AddElement DEF TableOK
  <2>5. k \in Installed(table) <=> table[k] # NONE
    BY <1>1 DEF Installed
  <2>6. Cardinality(Installed(table)) \in Nat /\ Cardinality(Installed(table)) <= Capacity
    BY FS_CardinalityType DEF TableOK
  <2>7. Cardinality(Installed(table) \cup {k}) <= Capacity
    BY <1>3, <2>4, <2>5, <2>6, FirewallAssumption DEF Full
  <2>8. IsFiniteSet(Installed(new)) /\ Cardinality(Installed(new)) <= Capacity
    BY <2>3, <2>4, <2>7, Zenon
  <2>9. TableOK(e.table)
    BY <2>1, <2>2, <2>8, Zenon DEF TableOK
  <2> QED
    BY <2>1, <2>9 DEF Makes, MadeBy
<1> QED
  BY <1>2, <1>3 DEF add_handler

LEMMA DelMakes ==
    ASSUME TableOK(table), NEW m \in Request, m.op = "del", NEW e \in del_handler(m.args)
    PROVE  Makes(m, e)
<1> DEFINE k == m.args[1].key
           new == [table EXCEPT ![k] = NONE]
<1>1. k \in Keys
  <2>1. m.args \in Seq(KeyOnly) /\ Len(m.args) = 1
    BY DEF Request
  <2>2. m.args[1] \in KeyOnly
    BY <2>1
  <2> QED
    BY <2>2 DEF KeyOnly
<1>2. table \in Tables /\ new \in Tables
  BY <1>1 DEF TableOK, Tables
<1>3. TableOK(new)
  BY <1>1, <1>2, FewerRules DEF Tables
<1>4. CASE table[k] = NONE
  <2>0. e = Effect(TRUE, table, <<FALSE>>, <<FALSE>>)
    BY <1>4 DEF del_handler
  <2>1. e.ok = TRUE /\ e.table = table /\ e.found[1] = FALSE
    BY <2>0 DEF Effect
  <2>2. table = new
    BY <1>2, <1>4 DEF Tables
  <2> QED
    BY <1>3, <1>4, <2>1, <2>2 DEF Makes, MadeBy
<1>5. CASE table[k] # NONE
  <2>0. \/ e = Effect(FALSE, table, <<TRUE>>, <<FALSE>>)
        \/ e = Effect(TRUE, new, <<TRUE>>, <<FALSE>>)
    BY <1>5 DEF del_handler
  <2>1. e.found[1] = TRUE /\ \/ e.ok = FALSE /\ e.table = table
                             \/ e.ok = TRUE /\ e.table = new
    <3> HIDE DEF new
    <3>1. CASE e = Effect(FALSE, table, <<TRUE>>, <<FALSE>>)
      BY <3>1 DEF Effect
    <3>2. CASE e = Effect(TRUE, new, <<TRUE>>, <<FALSE>>)
      BY <3>2 DEF Effect
    <3> QED
      BY <2>0, <3>1, <3>2
  <2> QED
    BY <1>3, <1>5, <2>1 DEF Makes, MadeBy
<1> QED
  BY <1>4, <1>5

LEMMA RefusedBatchMakes ==
    ASSUME TableOK(table), NEW m \in Request, m.op \in {"add_bulk", "del_bulk"}, NEW e \in RefusedBatch(m.args)
    PROVE  Makes(m, e)
<1>1. e.ok = FALSE /\ e.table = table
  BY DEF RefusedBatch, Effect
<1> QED
  BY <1>1 DEF Makes, MadeBy

LEMMA DelBulkMakes ==
    ASSUME TableOK(table), NEW m \in Request, m.op = "del_bulk", NEW e \in del_bulk_handler(m.args)
    PROVE  Makes(m, e)
<1> DEFINE new == [k \in Keys |-> IF At(m.args, k) # {} THEN NONE ELSE table[k]]
<1>1. CASE e \in RefusedBatch(m.args)
  BY <1>1, RefusedBatchMakes
<1>2. CASE e \notin RefusedBatch(m.args)
  <2>1. /\ e.ok = TRUE
        /\ e.found = [i \in DOMAIN m.args |-> table[m.args[i].key] # NONE /\ ~InBatch(m.args, i)]
        /\ e.table = [k \in Keys |-> IF \E i \in DOMAIN m.args : m.args[i].key = k THEN NONE ELSE table[k]]
    BY <1>2 DEF del_bulk_handler, Effect
  <2>2. e.table = new
    BY <2>1 DEF At
  <2>3. table \in Tables /\ new \in Tables
    BY DEF TableOK, Tables
  <2>4. TableOK(new)
    BY <2>3, FewerRules
  <2>5. \A i \in DOMAIN m.args : e.found[i] => table[m.args[i].key] # NONE /\ ~InBatch(m.args, i)
    BY <2>1
  <2> QED
    BY <2>1, <2>2, <2>4, <2>5 DEF Makes, MadeBy
<1> QED
  BY <1>1, <1>2

\* The positions of a batch up to n whose keys are new, and whether there is room for them.
NewIn(args, n) == {i \in 1 .. n : ~BatchFound(args)[i]}
Fits(args, n) == Cardinality(Installed(table)) + Cardinality(NewIn(args, n)) <= Capacity

LEMMA NewInFacts ==
    ASSUME NEW args, NEW n \in Nat
    PROVE  IsFiniteSet(NewIn(args, n)) /\ Cardinality(NewIn(args, n)) \in Nat
           /\ (n = 0 => Cardinality(NewIn(args, n)) = 0)
<1>1. IsFiniteSet(1 .. n) /\ NewIn(args, n) \in SUBSET (1 .. n)
  BY FS_Interval DEF NewIn
<1>2. IsFiniteSet(NewIn(args, n)) /\ Cardinality(NewIn(args, n)) \in Nat
  BY <1>1, FS_Subset, FS_CardinalityType
<1>3. n = 0 => NewIn(args, n) = {}
  BY DEF NewIn
<1>4. Cardinality({}) = 0
  BY FS_EmptySet
<1>5. n = 0 => Cardinality(NewIn(args, n)) = 0
  BY <1>3, <1>4, Zenon
<1> QED
  BY <1>2, <1>5

LEMMA ProcessedFacts ==
    ASSUME TableOK(table), NEW args \in Seq(Rule)
    PROVE  /\ Processed(args) \in 0 .. Len(args)
           /\ Processed(args) = Len(args) => Fits(args, Len(args))
<1> DEFINE L == Len(args)
           T == {n \in 1 .. L : ~Fits(args, n)}
<1>1. L \in Nat
  OBVIOUS
<1>2. Fits(args, 0)
  <2>1. Cardinality(NewIn(args, 0)) = 0
    BY NewInFacts
  <2>2. Cardinality(Installed(table)) \in Nat /\ Cardinality(Installed(table)) <= Capacity
    BY FS_CardinalityType DEF TableOK
  <2> QED
    BY <2>1, <2>2 DEF Fits
<1> HIDE DEF L
<1>3. \E n \in 0 .. L : Fits(args, n) /\ (n = L \/ ~Fits(args, n + 1))
  <2>1. CASE T = {}
    <3>1. Fits(args, L)
      BY <1>1, <1>2, <2>1
    <3> QED
      BY <1>1, <3>1
  <2>2. CASE T # {}
    <3>1. T \in SUBSET Nat
      BY <1>1
    <3>2. PICK n \in T : \A j \in T : n <= j
      BY <2>2, <3>1, LeastNatural
    <3>3. n \in 1 .. L /\ ~Fits(args, n)
      BY <3>2
    <3>4. Fits(args, n - 1)
      <4>1. CASE n = 1
        BY <1>2, <4>1
      <4>2. CASE n # 1
        <5>1. n - 1 \in 1 .. L /\ ~(n <= n - 1)
          BY <1>1, <3>3, <4>2
        <5> QED
          BY <3>2, <5>1
      <4> QED
        BY <4>1, <4>2
    <3>5. n - 1 \in 0 .. L /\ (n - 1) + 1 = n
      BY <1>1, <3>3
    <3> QED
      BY <3>3, <3>4, <3>5
  <2> QED
    BY <2>1, <2>2
<1>4. Processed(args) = CHOOSE n \in 0 .. L : Fits(args, n) /\ (n = L \/ ~Fits(args, n + 1))
  BY DEF Processed, Fits, NewIn, L
<1>5. Processed(args) \in 0 .. L /\ Fits(args, Processed(args))
  BY <1>3, <1>4
<1> QED
  BY <1>5 DEF L

LEMMA OverwrittenFacts ==
    ASSUME TableOK(table), NEW args \in Seq(Rule), NEW n \in 0 .. Len(args)
    PROVE  /\ Overwritten(args, n) \in Tables
           /\ \A k \in Keys : Overwritten(args, n)[k] # NONE <=> table[k] # NONE
<1> DEFINE at(k) == {i \in 1 .. n : args[i].key = k}
           last(k) == CHOOSE i \in at(k) : \A j \in at(k) : j <= i
<1>1. Overwritten(args, n) = [k \in Keys |-> IF table[k] = NONE \/ at(k) = {} THEN table[k] ELSE args[last(k)].port]
  BY DEF Overwritten
<1>2. ASSUME NEW k \in Keys, at(k) # {} PROVE args[last(k)].port \in Ports
  <2>1. n \in Nat /\ at(k) \in SUBSET (1 .. n)
    OBVIOUS
  <2>2. last(k) \in at(k)
    BY <1>2, <2>1, FirstAndLast DEF IsLast
  <2> HIDE DEF last
  <2>3. last(k) \in 1 .. Len(args)
    BY <2>1, <2>2
  <2>4. args[last(k)] \in Rule
    BY <2>3
  <2> QED
    BY <2>4 DEF Rule
<1>3. table \in Tables
  BY DEF TableOK
<1> HIDE DEF at, last
<1> QED
  BY <1>1, <1>2, <1>3, FirewallAssumption DEF Tables

LEMMA AddedFacts ==
    ASSUME TableOK(table), NEW args \in Seq(Rule), Fits(args, Len(args))
    PROVE  TableOK(Added(args)) /\ AddedTo(table, args, Added(args))
<1> DEFINE L == Len(args)
           at(k) == At(args, k)
           last(k) == CHOOSE i \in at(k) : \A j \in at(k) : j <= i
           first(k) == CHOOSE i \in at(k) : \A j \in at(k) : i <= j
           u == Added(args)
<1>1. L \in Nat /\ DOMAIN args = 1 .. L /\ \A i \in 1 .. L : args[i] \in Rule
  OBVIOUS
<1>2. table \in Tables
  BY DEF TableOK
<1>3. u = [k \in Keys |-> IF table[k] # NONE \/ at(k) = {} THEN Overwritten(args, L)[k] ELSE args[first(k)].port]
  BY DEF Added, At
<1>4. Overwritten(args, L) =
        [k \in Keys |-> IF table[k] = NONE \/ at(k) = {} THEN table[k] ELSE args[last(k)].port]
  BY <1>1 DEF Overwritten, At
<1>5. ASSUME NEW k \in Keys, at(k) # {}
      PROVE  /\ IsLast(last(k), at(k)) /\ first(k) \in at(k) /\ \A j \in at(k) : first(k) <= j
             /\ at(k) \subseteq 1 .. L
  <2>1. at(k) \in SUBSET (1 .. L)
    BY <1>1 DEF At
  <2> HIDE DEF at
  <2> QED
    BY <1>1, <1>5, <2>1, FirstAndLast
<1> HIDE DEF u, last, first, L
<1>6. \A k \in Keys : u[k] = IF at(k) = {} THEN table[k]
                             ELSE IF table[k] # NONE THEN args[last(k)].port ELSE args[first(k)].port
  BY <1>3, <1>4
<1>7. AddedTo(table, args, u)
  <2> SUFFICES ASSUME NEW k \in Keys
               PROVE  /\ at(k) = {} => u[k] = table[k]
                      /\ table[k] # NONE => \A i \in DOMAIN args : IsLast(i, at(k)) => u[k] = args[i].port
                      /\ table[k] = NONE /\ at(k) # {} => \E i \in at(k) : u[k] = args[i].port
    BY DEF AddedTo
  <2>1. at(k) = {} => u[k] = table[k]
    BY <1>6
  <2>2. ASSUME table[k] # NONE, NEW i \in DOMAIN args, IsLast(i, at(k)) PROVE u[k] = args[i].port
    <3>1. at(k) # {}
      BY <2>2 DEF IsLast
    <3>2. last(k) \in 1 .. L /\ i \in 1 .. L /\ last(k) <= i /\ i <= last(k)
      BY <1>1, <1>5, <2>2, <3>1 DEF IsLast
    <3>3. last(k) = i
      BY <1>1, <3>2
    <3> QED
      BY <1>6, <2>2, <3>1, <3>3
  <2>3. table[k] = NONE /\ at(k) # {} => \E i \in at(k) : u[k] = args[i].port
    BY <1>5, <1>6
  <2> HIDE DEF at
  <2> QED
    BY <2>1, <2>2, <2>3
<1>8. u \in Tables
  <2>1. ASSUME NEW k \in Keys PROVE u[k] \in Ports \cup {NONE}
    <3>1. CASE at(k) = {}
      BY <1>2, <1>6, <3>1 DEF Tables
    <3>2. CASE at(k) # {}
      <4>1. last(k) \in 1 .. L /\ first(k) \in 1 .. L
        BY <1>5, <3>2 DEF IsLast
      <4>2. args[last(k)].port \in Ports /\ args[first(k)].port \in Ports
        BY <1>1, <4>1 DEF Rule
      <4> QED
        BY <1>6, <3>2, <4>2
    <3> QED
      BY <3>1, <3>2
  <2>2. DOMAIN u = Keys /\ u = [k \in DOMAIN u |-> u[k]]
    BY <1>3
  <2> QED
    BY <2>1, <2>2 DEF Tables
<1> DEFINE N == NewIn(args, L)
           K == {args[i].key : i \in N}
           f == [i \in N |-> args[i].key]
<1>9. Installed(u) \subseteq Installed(table) \cup K
  <2> SUFFICES ASSUME NEW k \in Keys, u[k] # NONE, table[k] = NONE PROVE k \in K
    BY DEF Installed
  <2>1. at(k) # {}
    BY <1>6
  <2> DEFINE i == first(k)
  <2>2. i \in at(k) /\ i \in 1 .. L /\ \A j \in at(k) : i <= j
    BY <1>5, <2>1
  <2> HIDE DEF i
  <2>3. args[i].key = k
    BY <2>2 DEF At
  <2>4. ~InBatch(args, i)
    <3> SUFFICES ASSUME NEW j \in 1 .. i - 1, args[j].key = args[i].key PROVE FALSE
      BY DEF InBatch
    <3>1. j \in 1 .. L /\ ~(i <= j)
      BY <1>1, <2>2
    <3>2. j \in at(k)
      BY <1>1, <2>3, <3>1 DEF At
    <3> QED
      BY <2>2, <3>1, <3>2
  <2>5. ~BatchFound(args)[i]
    BY <1>1, <2>2, <2>3, <2>4 DEF BatchFound
  <2>6. i \in N
    BY <2>2, <2>5 DEF NewIn
  <2> QED
    BY <2>3, <2>6
<1>10. IsFiniteSet(N) /\ Cardinality(N) \in Nat
  BY <1>1, NewInFacts
<1>11. IsFiniteSet(K) /\ Cardinality(K) <= Cardinality(N) /\ Cardinality(K) \in Nat
  <2>1. f \in Surjection(N, K)
    BY DEF Surjection
  <2> HIDE DEF f, K, N
  <2>2. IsFiniteSet(K) /\ Cardinality(K) <= Cardinality(N)
    BY <1>10, <2>1, FS_Surjection
  <2> QED
    BY <2>2, FS_CardinalityType
<1>12. Cardinality(Installed(table)) + Cardinality(N) <= Capacity /\ Capacity \in Nat
  BY FirewallAssumption DEF Fits, L
<1> DEFINE I == Installed(table)
<1>13. IsFiniteSet(I) /\ Cardinality(I) \in Nat
  BY FS_CardinalityType DEF TableOK
<1> HIDE DEF I, K, N
<1>14. IsFiniteSet(I \cup K) /\ Cardinality(I \cup K) <= Cardinality(I) + Cardinality(K)
  <2>1. /\ IsFiniteSet(I \cup K)
        /\ Cardinality(I \cup K) = Cardinality(I) + Cardinality(K) - Cardinality(I \cap K)
    BY <1>11, <1>13, FS_Union
  <2>2. Cardinality(I \cap K) \in Nat
    <3>1. I \cap K \in SUBSET I
      OBVIOUS
    <3>2. IsFiniteSet(I \cap K)
      BY <1>13, <3>1, FS_Subset
    <3> QED
      BY <3>2, FS_CardinalityType
  <2> QED
    BY <1>11, <1>13, <2>1, <2>2
<1>15. IsFiniteSet(Installed(u)) /\ Cardinality(Installed(u)) <= Cardinality(I \cup K)
       /\ Cardinality(Installed(u)) \in Nat /\ Cardinality(I \cup K) \in Nat
  <2>1. Installed(u) \in SUBSET (I \cup K)
    BY <1>9 DEF I
  <2>2. IsFiniteSet(Installed(u)) /\ Cardinality(Installed(u)) <= Cardinality(I \cup K)
    BY <1>14, <2>1, FS_Subset
  <2> QED
    BY <1>14, <2>2, FS_CardinalityType
<1>16. Cardinality(Installed(u)) <= Capacity
  BY <1>10, <1>11, <1>12, <1>13, <1>14, <1>15 DEF I
<1>17. TableOK(u)
  BY <1>8, <1>15, <1>16 DEF TableOK
<1> QED
  BY <1>7, <1>17 DEF u

LEMMA AddBulkMakes ==
    ASSUME TableOK(table), NEW m \in Request, m.op = "add_bulk", NEW e \in add_bulk_handler(m.args)
    PROVE  Makes(m, e)
<1> DEFINE args == m.args
           n == Processed(args)
           found == BatchFound(args)
           u == Overwritten(args, n)
<1>1. args \in Seq(Rule)
  BY DEF Request
<1>2. n \in 0 .. Len(args) /\ (n = Len(args) => Fits(args, Len(args)))
  BY <1>1, ProcessedFacts
<1>3. \/ e \in RefusedBatch(args)
      \/ e.ok = FALSE /\ e.table = u
      \/ ~(n < Len(args)) /\ e.ok = TRUE /\ e.table = Added(args) /\ e.found = found
            /\ e.foreign = [i \in DOMAIN args |-> TRUE]
  <2> DEFINE part == [i \in DOMAIN args |-> i <= n /\ found[i]]
             all == [i \in DOMAIN args |-> TRUE]
  <2>1. \/ e \in RefusedBatch(args)
        \/ e = Effect(FALSE, u, part, part)
        \/ ~(n < Len(args)) /\ e = Effect(TRUE, Added(args), found, all)
    BY DEF add_bulk_handler
  <2> HIDE DEF part, all, u, found, n
  <2>2. CASE e = Effect(FALSE, u, part, part)
    BY <2>2 DEF Effect
  <2>3. CASE ~(n < Len(args)) /\ e = Effect(TRUE, Added(args), found, all)
    BY <2>3 DEF Effect, all
  <2> QED
    BY <2>1, <2>2, <2>3
<1>4. CASE e \in RefusedBatch(args)
  BY <1>4, RefusedBatchMakes
<1>5. CASE e.ok = FALSE /\ e.table = u
  <2>1. u \in Tables /\ \A k \in Keys : u[k] # NONE <=> table[k] # NONE
    BY <1>1, <1>2, OverwrittenFacts
  <2> HIDE DEF u
  <2>2. TableOK(u)
    BY <2>1, FewerRules
  <2> QED
    BY <1>5, <2>1, <2>2 DEF Makes, MadeBy
<1>6. CASE ~(n < Len(args)) /\ e.ok = TRUE /\ e.table = Added(args) /\ e.found = found
            /\ e.foreign = [i \in DOMAIN args |-> TRUE]
  <2>1. Len(args) \in Nat
    BY <1>1
  <2> HIDE DEF n
  <2>2. Fits(args, Len(args))
    BY <1>2, <1>6, <2>1
  <2>3. TableOK(Added(args)) /\ AddedTo(table, args, Added(args))
    BY <1>1, <2>2, AddedFacts
  <2>4. \A i \in DOMAIN args : /\ e.foreign[i]
                               /\ e.found[i] <=> table[args[i].key] # NONE \/ InBatch(args, i)
    BY <1>6 DEF BatchFound
  <2> QED
    BY <1>6, <2>3, <2>4 DEF Makes, MadeBy
<1> QED
  BY <1>3, <1>4, <1>5, <1>6

\* Whatever a handler does to the table, its answer says what it needs to.
LEMMA HandlerMakes ==
    ASSUME TableOK(table), NEW m \in Request, NEW e \in Handler(m)
    PROVE  Makes(m, e)
<1>1. m.op \in OpNames
  BY DEF Request
<1>2. CASE m.op = "add"
  BY <1>2, AddMakes DEF Handler
<1>3. CASE m.op = "del"
  BY <1>3, DelMakes DEF Handler
<1>4. CASE m.op = "add_bulk"
  BY <1>4, AddBulkMakes DEF Handler
<1>5. CASE m.op = "del_bulk"
  BY <1>5, DelBulkMakes DEF Handler
<1>6. CASE m.op \in {"add_default", "del_default", "ping"}
  <2>1. e = Effect(TRUE, table, Nothing(m.args), Nothing(m.args))
    BY <1>6 DEF Handler
  <2>2. e.ok = TRUE /\ e.table = table
    BY <2>1 DEF Effect
  <2> QED
    BY <1>6, <2>2 DEF Makes, MadeBy
<1> QED
  BY <1>1, <1>2, <1>3, <1>4, <1>5, <1>6 DEF OpNames

-----------------------------------------------------------------------------
(***************************************************************************)
(* The front end's list after a command.                                   *)
(***************************************************************************)
LEMMA RequestArgs ==
    ASSUME NEW m \in Request
    PROVE  /\ Len(m.args) \in Nat /\ DOMAIN m.args = 1 .. Len(m.args) /\ m.op \in OpNames /\ m.id \in Nat \ {0}
           /\ m.op \in {"add", "add_bulk"} =>
                \A i \in DOMAIN m.args : m.args[i].key \in Keys /\ m.args[i].port \in Ports
           /\ m.op \in {"del", "del_bulk"} => \A i \in DOMAIN m.args : m.args[i].key \in Keys
           /\ m.op \in {"add", "del", "add_default"} => DOMAIN m.args = {1}
           /\ m.op = "add_default" => m.args[1].port \in Ports
           /\ m.op = "add_bulk" => 1 \in DOMAIN m.args
<1>1. m.args \in Seq(Rule) \cup Seq(KeyOnly) \cup Seq(PortOnly) /\ m.op \in OpNames /\ m.id \in Nat \ {0}
  BY DEF Request
<1>2. Len(m.args) \in Nat /\ DOMAIN m.args = 1 .. Len(m.args)
  BY <1>1
<1>3. ASSUME m.op \in {"add", "add_bulk"}, NEW i \in DOMAIN m.args
      PROVE  m.args[i].key \in Keys /\ m.args[i].port \in Ports
  <2>1. m.args \in Seq(Rule)
    BY <1>3 DEF Request
  <2>2. m.args[i] \in Rule
    BY <2>1
  <2> QED
    BY <2>2 DEF Rule
<1>4. ASSUME m.op \in {"del", "del_bulk"}, NEW i \in DOMAIN m.args PROVE m.args[i].key \in Keys
  <2>1. m.args \in Seq(KeyOnly)
    BY <1>4 DEF Request
  <2>2. m.args[i] \in KeyOnly
    BY <2>1
  <2> QED
    BY <2>2 DEF KeyOnly
<1>5. ASSUME m.op \in {"add", "del", "add_default"} PROVE DOMAIN m.args = {1}
  <2>1. Len(m.args) = 1
    BY <1>5 DEF Request
  <2>2. 1 .. 1 = {1}
    OBVIOUS
  <2> QED
    BY <1>2, <2>1, <2>2
<1>6. ASSUME m.op = "add_default" PROVE m.args[1].port \in Ports
  <2>1. m.args \in Seq(PortOnly) /\ Len(m.args) = 1
    BY <1>6 DEF Request
  <2>2. m.args[1] \in PortOnly
    BY <2>1
  <2> QED
    BY <2>2 DEF PortOnly
<1>7. ASSUME m.op = "add_bulk" PROVE 1 \in DOMAIN m.args
  <2>1. m.args \in Seq(Rule) /\ m.args # <<>>
    BY <1>7 DEF Request
  <2>2. Len(m.args) # 0
    BY <2>1, EmptySeq
  <2> QED
    BY <1>2, <2>2
<1> QED
  BY <1>1, <1>2, <1>3, <1>4, <1>5, <1>6, <1>7

\* The places of a key in the command, and the nodes a new key gets.
LEMMA PlacesFacts ==
    ASSUME cmd \in Request, cmd.op \in {"add", "del", "add_bulk", "del_bulk"}, NEW k \in Keys, Places(k) # {}
    PROVE  /\ LastPlace(k) \in DOMAIN cmd.args /\ IsLast(LastPlace(k), Places(k))
           /\ cmd.op \in {"add", "add_bulk"} =>
                /\ cmd.args[LastPlace(k)].port \in Ports
                /\ \A i \in DOMAIN cmd.args : Places(k) = {i} => NewNodes(k) = <<cmd.args[i].port>>
<1>1. Places(k) \in SUBSET (1 .. Len(cmd.args)) /\ Len(cmd.args) \in Nat /\ Places(k) \subseteq DOMAIN cmd.args
  BY RequestArgs DEF Places
<1>2. IsLast(LastPlace(k), Places(k))
  BY <1>1, FirstAndLast DEF LastPlace
<1>3. LastPlace(k) \in DOMAIN cmd.args
  BY <1>1, <1>2 DEF IsLast
<1>4. ASSUME NEW i \in DOMAIN cmd.args, Places(k) = {i}
      PROVE  NewNodes(k) = <<cmd.args[i].port>>
  <2>1. Cardinality({i}) = 1
    BY FS_Singleton
  <2>2. i \in Int /\ {j \in {i} : j <= i} = {i}
    BY <1>1, <1>4
  <2>3. NthPlace(k, 1) = i
    <3>1. \A x \in {i} : Cardinality({j \in {i} : j <= x}) = 1
      BY <2>1, <2>2
    <3> QED
      BY <1>4, <3>1 DEF NthPlace
  <2>4. NewNodes(k) = [n \in 1 .. 1 |-> cmd.args[NthPlace(k, n)].port]
    BY <1>4, <2>1 DEF NewNodes
  <2>5. \A n \in 1 .. 1 : cmd.args[NthPlace(k, n)].port = cmd.args[i].port
    BY <2>3
  <2> HIDE DEF NthPlace
  <2>6. NewNodes(k) = [n \in 1 .. 1 |-> cmd.args[i].port]
    BY <2>4, <2>5
  <2> QED
    BY <2>6
<1> QED
  BY <1>2, <1>3, <1>4, RequestArgs

LEMMA RulesAfterType ==
    ASSUME cmd \in Request, rules \in Lists, default_rule \in Ports \cup {NONE}
    PROVE  RulesAfter \in Lists /\ DefaultAfter \in Ports \cup {NONE}
<1>1. ASSUME NEW k \in Keys PROVE RulesAfter[k] \in Seq(Ports)
  <2>1. rules[k] \in Seq(Ports)
    BY DEF Lists
  <2>2. RulesAfter[k] = IF cmd.op \notin {"add", "del", "add_bulk", "del_bulk"} \/ Places(k) = {} THEN rules[k]
                        ELSE IF cmd.op \in {"del", "del_bulk"} THEN SubSeq(rules[k], 2, Len(rules[k]))
                        ELSE IF Known(k) THEN [rules[k] EXCEPT ![1] = cmd.args[LastPlace(k)].port]
                        ELSE NewNodes(k)
    BY DEF RulesAfter
  <2>3. CASE cmd.op \notin {"add", "del", "add_bulk", "del_bulk"} \/ Places(k) = {}
    BY <2>1, <2>2, <2>3
  <2>4. CASE cmd.op \in {"del", "del_bulk"} /\ Places(k) # {}
    <3>1. SubSeq(rules[k], 2, Len(rules[k])) \in Seq(Ports)
      BY <2>1
    <3> QED
      BY <2>2, <2>4, <3>1
  <2>5. CASE cmd.op \in {"add", "add_bulk"} /\ Places(k) # {} /\ Known(k)
    <3>1. cmd.args[LastPlace(k)].port \in Ports
      BY <2>5, PlacesFacts
    <3>2. rules[k] \in [1 .. Len(rules[k]) -> Ports] /\ Len(rules[k]) \in Nat
      BY <2>1
    <3>3. [rules[k] EXCEPT ![1] = cmd.args[LastPlace(k)].port] \in [1 .. Len(rules[k]) -> Ports]
      BY <3>1, <3>2
    <3>4. [rules[k] EXCEPT ![1] = cmd.args[LastPlace(k)].port] \in Seq(Ports)
      BY <3>2, <3>3, SeqDef
    <3> QED
      BY <2>2, <2>5, <3>4
  <2>6. CASE cmd.op \in {"add", "add_bulk"} /\ Places(k) # {} /\ ~Known(k)
    <3>1. IsFiniteSet(Places(k)) /\ Cardinality(Places(k)) \in Nat
      <4>1. Places(k) \in SUBSET (1 .. Len(cmd.args)) /\ Len(cmd.args) \in Nat
        BY RequestArgs DEF Places
      <4>2. IsFiniteSet(1 .. Len(cmd.args))
        BY <4>1, FS_Interval
      <4> QED
        BY <4>1, <4>2, FS_Subset, FS_CardinalityType
    <3>2. ASSUME NEW n \in 1 .. Cardinality(Places(k)) PROVE cmd.args[NthPlace(k, n)].port \in Ports
      <4>1. Places(k) \in SUBSET (1 .. Len(cmd.args)) /\ Len(cmd.args) \in Nat
        BY RequestArgs DEF Places
      <4>2. \E i \in Places(k) : Cardinality({j \in Places(k) : j <= i}) = n
        BY <4>1, NthOfPlaces
      <4>3. NthPlace(k, n) \in Places(k)
        BY <4>2 DEF NthPlace
      <4>4. NthPlace(k, n) \in DOMAIN cmd.args
        BY <4>3 DEF Places
      <4> QED
        BY <2>6, <4>4, RequestArgs
    <3> QED
      BY <2>2, <2>6, <3>1, <3>2 DEF NewNodes
  <2> QED
    BY <2>3, <2>4, <2>5, <2>6
<1>2. RulesAfter \in Lists
  <2>1. RulesAfter = [k \in Keys |-> RulesAfter[k]]
    BY DEF RulesAfter
  <2> QED
    BY <1>1, <2>1 DEF Lists
<1>3. DefaultAfter \in Ports \cup {NONE}
  BY RequestArgs DEF DefaultAfter
<1> QED
  BY <1>2, <1>3

\* What becomes of a key that is listed at most once.
LEMMA RulesAfterFacts ==
    ASSUME cmd \in Request, rules \in Lists, NEW k \in Keys, Len(rules[k]) <= 1
    PROVE  /\ cmd.op \notin {"add", "del", "add_bulk", "del_bulk"} \/ At(cmd.args, k) = {} => RulesAfter[k] = rules[k]
           /\ cmd.op \in {"del", "del_bulk"} /\ At(cmd.args, k) # {} => RulesAfter[k] = <<>>
           /\ cmd.op \in {"add", "add_bulk"} /\ At(cmd.args, k) # {} /\ rules[k] # <<>> =>
                \E i \in DOMAIN cmd.args : IsLast(i, At(cmd.args, k)) /\ RulesAfter[k] = <<cmd.args[i].port>>
           /\ cmd.op \in {"add", "add_bulk"} /\ rules[k] = <<>> =>
                \A i \in DOMAIN cmd.args : At(cmd.args, k) = {i} => RulesAfter[k] = <<cmd.args[i].port>>
<1>1. At(cmd.args, k) = Places(k)
  BY DEF At, Places
<1>2. rules[k] \in Seq(Ports) /\ Len(rules[k]) \in Nat
  BY DEF Lists
<1>3. RulesAfter[k] = IF cmd.op \notin {"add", "del", "add_bulk", "del_bulk"} \/ Places(k) = {} THEN rules[k]
                      ELSE IF cmd.op \in {"del", "del_bulk"} THEN SubSeq(rules[k], 2, Len(rules[k]))
                      ELSE IF Known(k) THEN [rules[k] EXCEPT ![1] = cmd.args[LastPlace(k)].port]
                      ELSE NewNodes(k)
  BY DEF RulesAfter
<1>4. SubSeq(rules[k], 2, Len(rules[k])) = <<>>
  <2>1. Len(SubSeq(rules[k], 2, Len(rules[k]))) = 0 /\ SubSeq(rules[k], 2, Len(rules[k])) \in Seq(Ports)
    BY <1>2
  <2> QED
    BY <2>1, EmptySeq
<1>5. ASSUME NEW x, rules[k] # <<>> PROVE [rules[k] EXCEPT ![1] = x] = <<x>>
  <2>1. Len(rules[k]) = 1
    <3>1. Len(rules[k]) # 0
      BY <1>2, <1>5, EmptySeq
    <3> DEFINE len == Len(rules[k])
    <3>2. len \in Nat /\ len <= 1 /\ len # 0
      BY <1>2, <3>1
    <3> HIDE DEF len
    <3>3. len = 1
      BY <3>2
    <3> QED
      BY <3>3 DEF len
  <2>2. DOMAIN rules[k] = 1 .. 1
    BY <1>2, <2>1
  <2>3. [rules[k] EXCEPT ![1] = x] = [n \in 1 .. 1 |-> x]
    BY <2>2
  <2>4. <<x>> = [n \in 1 .. 1 |-> x]
    OBVIOUS
  <2> QED
    BY <2>3, <2>4
<1>6. CASE cmd.op \notin {"add", "del", "add_bulk", "del_bulk"} \/ Places(k) = {}
  BY <1>1, <1>3, <1>6
<1>7. CASE cmd.op \in {"del", "del_bulk"} /\ Places(k) # {}
  BY <1>1, <1>3, <1>4, <1>7
<1>8. CASE cmd.op \in {"add", "add_bulk"} /\ Places(k) # {} /\ rules[k] # <<>>
  <2>1. RulesAfter[k] = <<cmd.args[LastPlace(k)].port>>
    BY <1>3, <1>5, <1>8 DEF Known
  <2>2. LastPlace(k) \in DOMAIN cmd.args /\ IsLast(LastPlace(k), Places(k))
    BY <1>8, PlacesFacts
  <2> QED
    BY <1>1, <1>8, <2>1, <2>2
<1>9. CASE cmd.op \in {"add", "add_bulk"} /\ Places(k) # {} /\ rules[k] = <<>>
  <2>1. RulesAfter[k] = NewNodes(k)
    BY <1>3, <1>9 DEF Known
  <2>2. \A i \in DOMAIN cmd.args : Places(k) = {i} => NewNodes(k) = <<cmd.args[i].port>>
    BY <1>9, PlacesFacts
  <2> QED
    BY <1>1, <1>9, <2>1, <2>2
<1> QED
  BY <1>6, <1>7, <1>8, <1>9

\* A reply that the front end accepts leaves the list right, key by key.
LEMMA AcceptedAgrees ==
    ASSUME cmd \in Request, rules \in Lists, table \in Tables, NEW t \in Tables, Agree(t),
           NEW r \in Answer, NEW found, NEW foreign,
           MadeBy(cmd, t, table, r.ok, r.word = 1, found, foreign), Accepted(r, found),
           NEW k \in Keys, Len(rules[k]) <= 1
    PROVE  /\ table[k] # NONE => RulesAfter[k] # <<>>
           /\ Len(RulesAfter[k]) <= 1
           /\ ~bulk_failed => RulesAfter[k] = Listing(table)[k]
<1> DEFINE args == cmd.args
           Right(l) == /\ table[k] # NONE => l # <<>>
                       /\ Len(l) <= 1
                       /\ ~bulk_failed => l = Listing(table)[k]
<1> SUFFICES Right(RulesAfter[k])
  OBVIOUS
<1>1. r.ok \in BOOLEAN
  BY DEF Answer
<1>2. \A u \in Tables : Listing(u)[k] = IF u[k] = NONE THEN <<>> ELSE <<u[k]>>
  BY DEF Listing
<1>3. (t[k] # NONE => rules[k] # <<>>) /\ (~bulk_failed => rules[k] = Listing(t)[k])
  BY DEF Agree
<1>4. Len(<<>>) = 0 /\ \A x : Len(<<x>>) = 1 /\ <<x>> # <<>>
  OBVIOUS
\* the two ways to be right
<1>5. ASSUME table[k] = t[k] PROVE Right(rules[k])
  <2>1. Listing(table)[k] = Listing(t)[k]
    BY <1>2, <1>5
  <2> QED
    BY <1>3, <1>5, <2>1
<1>6. ASSUME NEW x, table[k] = x, x # NONE PROVE Right(<<x>>)
  <2>1. Listing(table)[k] = <<x>>
    BY <1>2, <1>6, Zenon
  <2>2. Len(<<x>>) <= 1 /\ <<x>> # <<>>
    BY <1>4
  <2> QED
    BY <2>1, <2>2, Zenon
<1>7. ASSUME table[k] = NONE PROVE Right(<<>>)
  <2>1. Listing(table)[k] = <<>>
    BY <1>2, <1>7, Zenon
  <2>2. Len(<<>>) <= 1
    BY <1>4
  <2> QED
    BY <1>7, <2>1, <2>2, Zenon
<1> HIDE DEF Right
<1>8. cmd.op \notin {"add", "del", "add_bulk", "del_bulk"} \/ At(args, k) = {} => RulesAfter[k] = rules[k]
  BY RulesAfterFacts
<1>9. CASE cmd.op = "add"
  <2> DEFINE K == args[1].key
             p == args[1].port
  <2>1. K \in Keys /\ p \in Ports /\ DOMAIN args = {1} /\ p # NONE
    BY <1>9, RequestArgs, FirewallAssumption
  <2>2. table = [t EXCEPT ![K] = p]
    BY <1>1, <1>9 DEF MadeBy, Accepted, AddAccepted
  <2>3. At(args, k) = IF k = K THEN {1} ELSE {}
    BY <2>1 DEF At
  <2>4. CASE k # K
    BY <1>5, <1>8, <2>1, <2>2, <2>3, <2>4 DEF Tables
  <2>5. CASE k = K
    <3>1. RulesAfter[k] = <<p>>
      <4>1. CASE rules[k] = <<>>
        BY <1>9, <2>1, <2>3, <2>5, <4>1, RulesAfterFacts
      <4>2. CASE rules[k] # <<>>
        <5>1. \E i \in DOMAIN args : RulesAfter[k] = <<args[i].port>>
          BY <1>9, <2>3, <2>5, <4>2, RulesAfterFacts
        <5> QED
          BY <2>1, <5>1
      <4> QED
        BY <4>1, <4>2
    <3>2. table[k] = p
      BY <2>1, <2>2, <2>5 DEF Tables
    <3> QED
      BY <1>6, <2>1, <3>1, <3>2
  <2> QED
    BY <2>4, <2>5
<1>10. CASE cmd.op = "del"
  <2> DEFINE K == args[1].key
  <2>1. K \in Keys /\ DOMAIN args = {1}
    BY <1>10, RequestArgs
  <2>2. table = [t EXCEPT ![K] = NONE]
    BY <1>1, <1>10 DEF MadeBy, Accepted, DelAccepted
  <2>3. At(args, k) = IF k = K THEN {1} ELSE {}
    BY <2>1 DEF At
  <2>4. CASE k # K
    BY <1>5, <1>8, <2>1, <2>2, <2>3, <2>4 DEF Tables
  <2>5. CASE k = K
    <3>1. RulesAfter[k] = <<>>
      BY <1>10, <2>3, <2>5, RulesAfterFacts
    <3>2. table[k] = NONE
      BY <2>1, <2>2, <2>5 DEF Tables
    <3> QED
      BY <1>7, <3>1, <3>2
  <2> QED
    BY <2>4, <2>5
<1>11. CASE cmd.op = "add_bulk"
  <2>1. r.ok /\ \A i \in DOMAIN args : found[i] = Known(args[i].key)
    BY <1>1, <1>11 DEF Accepted, AddBulkAccepted
  <2>2. /\ AddedTo(t, args, table)
        /\ \A i \in DOMAIN args : found[i] <=> t[args[i].key] # NONE \/ InBatch(args, i)
    BY <1>1, <1>11, <2>1 DEF MadeBy
  <2>3. /\ DOMAIN args = 1 .. Len(args) /\ Len(args) \in Nat
        /\ \A i \in DOMAIN args : args[i].port # NONE
    BY <1>11, RequestArgs, FirewallAssumption
  <2>4. CASE At(args, k) = {}
    BY <1>5, <1>8, <2>2, <2>4 DEF AddedTo
  <2>5. CASE At(args, k) # {} /\ t[k] # NONE
    <3>1. PICK i \in DOMAIN args : IsLast(i, At(args, k)) /\ RulesAfter[k] = <<args[i].port>>
      BY <1>3, <1>11, <2>5, RulesAfterFacts
    <3>2. table[k] = args[i].port
      BY <2>2, <2>5, <3>1 DEF AddedTo
    <3> QED
      BY <1>6, <2>3, <3>1, <3>2
  <2>6. CASE At(args, k) # {} /\ t[k] = NONE /\ rules[k] # <<>>
    <3>1. PICK i \in DOMAIN args : RulesAfter[k] = <<args[i].port>>
      BY <1>11, <2>6, RulesAfterFacts
    <3>2. bulk_failed
      BY <1>2, <1>3, <2>6
    <3> QED
      BY <1>4, <3>1, <3>2 DEF Right
  <2>7. CASE At(args, k) # {} /\ t[k] = NONE /\ rules[k] = <<>>
    <3>1. ~Known(k)
      BY <2>7 DEF Known
    <3>2. \A i \in At(args, k) : i \in DOMAIN args /\ args[i].key = k
      BY DEF At
    <3>3. \A i \in At(args, k) : ~InBatch(args, i)
      BY <2>1, <2>2, <3>1, <3>2
    <3>4. ASSUME NEW i \in At(args, k), NEW j \in At(args, k) PROVE ~(i < j)
      <4> SUFFICES ASSUME i < j PROVE FALSE
        OBVIOUS
      <4>1. i \in 1 .. j - 1
        BY <2>3, <3>2
      <4> QED
        BY <3>2, <3>3, <4>1 DEF InBatch
    <3>5. PICK i \in At(args, k) : table[k] = args[i].port
      BY <2>2, <2>7 DEF AddedTo
    <3>6. At(args, k) = {i}
      <4>1. \A j \in At(args, k) : j \in Int
        BY <2>3, <3>2
      <4>2. \A j \in At(args, k) : j = i
        BY <3>4, <3>5, <4>1
      <4> QED
        BY <3>5, <4>2
    <3>7. RulesAfter[k] = <<args[i].port>>
      BY <1>11, <2>7, <3>2, <3>5, <3>6, RulesAfterFacts
    <3> QED
      BY <1>6, <2>3, <3>2, <3>5, <3>7
  <2> QED
    BY <2>4, <2>5, <2>6, <2>7
<1>12. CASE cmd.op = "del_bulk"
  <2>1. table = [l \in Keys |-> IF At(args, l) # {} THEN NONE ELSE t[l]]
    BY <1>1, <1>12 DEF MadeBy, Accepted, DelBulkAccepted
  <2>2. CASE At(args, k) = {}
    BY <1>5, <1>8, <2>1, <2>2
  <2>3. CASE At(args, k) # {}
    BY <1>7, <1>12, <2>1, <2>3, RulesAfterFacts
  <2> QED
    BY <2>2, <2>3
<1>13. CASE cmd.op \in {"add_default", "del_default", "ping"}
  <2>1. table = t
    BY <1>13 DEF MadeBy
  <2> QED
    BY <1>5, <1>8, <1>13, <2>1
<1> QED
  BY <1>9, <1>10, <1>11, <1>12, <1>13, RequestArgs DEF OpNames

\* A reply that says what the table is leaves the list right, or breaks the memory of a failed bulk add.
LEMMA ReplyAgrees ==
    ASSUME cmd \in Request, rules \in Lists, table \in Tables, default_rule \in Ports \cup {NONE},
           bulk_failed \in BOOLEAN, NEW t \in Tables, Agree(t), NEW r \in Answer, NEW found, NEW foreign,
           \A k \in Keys : Len(rules[k]) <= 1,
           MadeBy(cmd, t, table, r.ok, r.word = 1, found, foreign),
           cmd.op \in {"add", "add_default"} => r.ptr
    PROVE  /\ Accepted(r, found) => /\ \A k \in Keys : table[k] # NONE => RulesAfter[k] # <<>>
                                    /\ \A k \in Keys : Len(RulesAfter[k]) <= 1
                                    /\ ~bulk_failed => RulesAfter = Listing(table)
                                    /\ cmd.op = "del_bulk" => \A i \in DOMAIN cmd.args :
                                                                 Known(cmd.args[i].key) /\ ~InBatch(cmd.args, i)
           /\ ~Accepted(r, found) =>
                \/ cmd.op = "add_bulk" /\ \E i \in DOMAIN cmd.args : foreign[i]
                \/ /\ \A k \in Keys : table[k] # NONE => rules[k] # <<>>
                   /\ ~bulk_failed /\ ~Bulk => rules = Listing(table)
           /\ cmd.op \in {"add_default", "del_default"} => Accepted(r, found)
<1> DEFINE args == cmd.args
<1>1. r.ok \in BOOLEAN /\ r.word \in 0 .. 2 /\ r.ptr \in BOOLEAN
  BY DEF Answer
<1>2. (\A k \in Keys : t[k] # NONE => rules[k] # <<>>) /\ (~bulk_failed => rules = Listing(t))
  BY DEF Agree
<1>3. ASSUME Accepted(r, found)
      PROVE  /\ \A k \in Keys : table[k] # NONE => RulesAfter[k] # <<>>
             /\ \A k \in Keys : Len(RulesAfter[k]) <= 1
             /\ ~bulk_failed => RulesAfter = Listing(table)
  <2>1. \A k \in Keys : /\ table[k] # NONE => RulesAfter[k] # <<>>
                        /\ Len(RulesAfter[k]) <= 1
                        /\ ~bulk_failed => RulesAfter[k] = Listing(table)[k]
    BY <1>3, AcceptedAgrees
  <2>2. RulesAfter = [k \in Keys |-> RulesAfter[k]] /\ Listing(table) = [k \in Keys |-> Listing(table)[k]]
    BY DEF RulesAfter, Listing
  <2> QED
    BY <2>1, <2>2
<1>4. ASSUME Accepted(r, found), cmd.op = "del_bulk", NEW i \in DOMAIN args
      PROVE  Known(args[i].key) /\ ~InBatch(args, i)
  <2>1. r.ok /\ found[i]
    BY <1>1, <1>4 DEF Accepted, DelBulkAccepted
  <2>2. t[args[i].key] # NONE /\ ~InBatch(args, i)
    BY <1>1, <1>4, <2>1 DEF MadeBy
  <2>3. args[i].key \in Keys
    BY <1>4, RequestArgs
  <2> QED
    BY <1>2, <2>2, <2>3 DEF Known
<1>5. ASSUME table = t
      PROVE  /\ \A k \in Keys : table[k] # NONE => rules[k] # <<>>
             /\ ~bulk_failed /\ ~Bulk => rules = Listing(table)
  BY <1>2, <1>5
<1>6. CASE cmd.op = "add"
  <2> DEFINE k == args[1].key
             p == args[1].port
  <2>1. k \in Keys /\ p \in Ports /\ p # NONE
    BY <1>6, RequestArgs, FirewallAssumption
  <2>2. Accepted(r, found) <=> r.ok /\ ~(Known(k) /\ r.word = 0) /\ ~(~Known(k) /\ r.word = 1)
    BY <1>1, <1>6 DEF Accepted, AddAccepted
  <2>3. IF r.ok THEN table = [t EXCEPT ![k] = p] /\ (r.word = 1 <=> t[k] # NONE) ELSE table = t
    BY <1>6 DEF MadeBy
  <2> HIDE DEF k, p
  <2>4. ASSUME r.ok, ~Accepted(r, found)
        PROVE  /\ \A l \in Keys : table[l] # NONE => rules[l] # <<>>
               /\ bulk_failed
    <3>1. Known(k) /\ t[k] = NONE
      BY <1>1, <1>2, <2>1, <2>2, <2>3, <2>4 DEF Known
    <3>2. bulk_failed
      <4>1. Listing(t)[k] = <<>>
        BY <2>1, <3>1 DEF Listing
      <4> QED
        BY <1>2, <3>1, <4>1 DEF Known
    <3>3. \A l \in Keys : l # k => table[l] = t[l]
      BY <2>1, <2>3, <2>4 DEF Tables
    <3> QED
      BY <1>2, <3>1, <3>2, <3>3 DEF Known
  <2> QED
    BY <1>1, <1>3, <1>5, <1>6, <2>3, <2>4
<1>7. CASE cmd.op = "del"
  <2> DEFINE k == args[1].key
  <2>1. k \in Keys
    BY <1>7, RequestArgs
  <2>2. Accepted(r, found) <=> r.ok /\ r.word # 0
    BY <1>1, <1>7 DEF Accepted, DelAccepted
  <2>3. IF r.ok THEN table = [t EXCEPT ![k] = NONE] /\ (r.word = 1 <=> t[k] # NONE) ELSE table = t
    BY <1>7 DEF MadeBy
  <2> HIDE DEF k
  <2>4. ~Accepted(r, found) => table = t
    <3>1. CASE ~r.ok
      BY <2>3, <3>1
    <3>2. CASE r.ok /\ r.word = 0
      BY <2>1, <2>3, <3>2 DEF Tables
    <3> QED
      BY <1>1, <2>2, <3>1, <3>2
  <2> QED
    BY <1>3, <1>5, <1>7, <2>4
<1>8. CASE cmd.op = "add_bulk"
  <2>1. 1 \in DOMAIN args
    BY <1>8, RequestArgs
  <2>2. /\ r.ok => \A i \in DOMAIN args : foreign[i]
        /\ ~r.ok => \A k \in Keys : table[k] # NONE <=> t[k] # NONE
    BY <1>1, <1>8 DEF MadeBy
  <2>3. CASE r.ok
    BY <1>3, <1>8, <2>1, <2>2, <2>3
  <2>4. CASE ~r.ok
    BY <1>2, <1>3, <1>8, <2>2, <2>4 DEF Bulk
  <2> QED
    BY <2>3, <2>4
<1>9. CASE cmd.op = "del_bulk"
  <2>1. \A k \in Keys : table[k] # NONE => t[k] # NONE
    <3>1. r.ok => table = [k \in Keys |-> IF At(args, k) # {} THEN NONE ELSE t[k]]
      BY <1>9 DEF MadeBy
    <3>2. ~r.ok => table = t
      BY <1>1, <1>9 DEF MadeBy
    <3> QED
      BY <1>1, <3>1, <3>2
  <2>2. Bulk
    BY <1>9 DEF Bulk
  <2> QED
    BY <1>2, <1>3, <1>4, <1>9, <2>1, <2>2
<1>10. CASE cmd.op \in {"add_default", "del_default", "ping"}
  <2>1. r.ok
    BY <1>10 DEF MadeBy
  <2>2. Accepted(r, found)
    BY <1>10, <2>1 DEF Accepted
  <2> QED
    BY <1>3, <1>10, <2>2
<1> QED
  BY <1>6, <1>7, <1>8, <1>9, <1>10, RequestArgs DEF OpNames

-----------------------------------------------------------------------------
(***************************************************************************)
(* The invariant.                                                          *)
(***************************************************************************)
LEMMA InitInv == Init => Inv
<1> SUFFICES ASSUME Init PROVE Inv
  OBVIOUS
<1>1. Installed(table) = {}
  BY DEF Init, Installed
<1>2. IsFiniteSet(Installed(table)) /\ Cardinality(Installed(table)) = 0
  BY <1>1, FS_EmptySet, Zenon
<1>3. TypeOK
  BY <1>2, FirewallAssumption DEF Init, TypeOK
<1>4. Types
  <2>1. <<>> \in Seq(Request) /\ <<>> \in Seq(Answer)
    OBVIOUS
  <2> QED
    BY <1>2, <1>3, <2>1 DEF Init, Types
<1>5. InStep
  <2>1. rules = Listing(table)
    BY DEF Init, Listing
  <2> QED
    BY <2>1 DEF Init, InStep, Agree
<1>6. ListedOnce
  BY DEF Init, ListedOnce
<1> QED
  BY <1>4, <1>5, <1>6 DEF Inv, Init

LEMMA TypesTable ==
    ASSUME Types
    PROVE  TableOK(table) /\ rules \in Lists /\ default_rule \in Ports \cup {NONE}
BY DEF Types, TypeOK, TableOK, Tables, Lists

\* Steps that leave the table alone.
LEMMA SameTable ==
    ASSUME Types, table' = table, rules' \in Lists, default_rule' \in Ports \cup {NONE},
           default_entry' = default_entry
    PROVE  TypeOK' /\ IsFiniteSet(Installed(table))'
<1>1. Installed(table)' = Installed(table)
  BY DEF Installed
<1>2. IsFiniteSet(Installed(table))' /\ Cardinality(Installed(table))' <= Capacity
  BY <1>1, Zenon DEF Types, TypeOK
<1> QED
  BY <1>2 DEF Types, TypeOK, Lists

LEMMA IssueKeepsInv ==
    ASSUME Inv, NEW op, NEW args, Issue(op, args), [id |-> issued + 1, op |-> op, args |-> args] \in Request
    PROVE  Inv'
<1>1. Types /\ undefined = {} /\ fe = "idle"
  BY DEF Inv, Issue
<1>2. TypeOK' /\ IsFiniteSet(Installed(table))'
  BY <1>1, SameTable, TypesTable DEF Issue, feState, beState, Types, TypeOK
<1>3. /\ fe' = "send" /\ issued' = issued + 1 /\ cmd' \in Request /\ cmd'.id = issued' /\ timeouts' = timeouts
      /\ msgq_in' = msgq_in /\ be' = be /\ msgq_out' = msgq_out /\ bulk_failed' = bulk_failed
      /\ undefined' = undefined /\ rules' = rules /\ default_rule' = default_rule
      /\ table' = table /\ default_entry' = default_entry
  BY DEF Issue, feState, beState
<1>4. Types'
  BY <1>1, <1>2, <1>3 DEF Types
<1>5. timeouts = 0 => InStep'
  BY <1>1, <1>3 DEF Inv, InStep, Agree
<1>6. ListedOnce'
  BY <1>3 DEF Inv, ListedOnce
<1> QED
  BY <1>1, <1>3, <1>4, <1>5, <1>6 DEF Inv

LEMMA SendKeepsInv ==
    ASSUME Inv, Send
    PROVE  Inv'
<1>1. Types /\ undefined = {} /\ fe = "send" /\ cmd \in Request /\ msgq_in \in Seq(Request)
  BY DEF Inv, Send, Types
<1>2. TypeOK' /\ IsFiniteSet(Installed(table))'
  BY <1>1, SameTable, TypesTable DEF Send, feState, beState, Types, TypeOK
<1>3. /\ fe' = "recv" /\ issued' = issued /\ cmd' = cmd /\ timeouts' = timeouts
      /\ msgq_in' = Append(msgq_in, cmd) /\ be' = be /\ msgq_out' = msgq_out /\ bulk_failed' = bulk_failed
      /\ undefined' = undefined /\ rules' = rules /\ default_rule' = default_rule
      /\ table' = table /\ default_entry' = default_entry
  BY DEF Send, feState, beState
<1>4. msgq_in' \in Seq(Request)
  BY <1>1, <1>3
<1>5. Types'
  BY <1>1, <1>2, <1>3, <1>4 DEF Types
<1>6. ASSUME timeouts = 0 PROVE InStep'
  <2>1. InStep
    BY <1>1, <1>6 DEF Inv
  <2>2. msgq_in = <<>> /\ be = NoMsg /\ msgq_out = <<>> /\ Agree(table) /\ default_rule = default_entry
    BY <1>1, <2>1 DEF InStep
  <2>3. msgq_in' = <<cmd>> /\ msgq_in' # <<>>
    BY <1>3, <2>2
  <2> QED
    BY <1>3, <2>2, <2>3 DEF InStep, Agree
<1>7. ListedOnce'
  BY <1>3 DEF Inv, ListedOnce
<1> QED
  BY <1>1, <1>3, <1>5, <1>6, <1>7 DEF Inv

LEMMA TimeoutKeepsInv ==
    ASSUME Inv, Timeout
    PROVE  Inv'
<1>1. Types /\ undefined = {} /\ fe = "recv"
  BY DEF Inv, Timeout
<1>2. TypeOK' /\ IsFiniteSet(Installed(table))'
  BY <1>1, SameTable, TypesTable DEF Timeout, feState, beState, Types, TypeOK
<1>3. bulk_failed' \in BOOLEAN /\ timeouts' \in Nat /\ timeouts' # 0
  BY <1>1 DEF Timeout, Types, Bulk
<1>4. be \in {NoMsg} \cup Answer
  BY <1>1 DEF Types
<1>5. Types'
  BY <1>1, <1>2, <1>3, <1>4 DEF Timeout, Types
<1> QED
  BY <1>3, <1>5 DEF Inv, ListedOnce

LEMMA ReplyKeepsInv ==
    ASSUME Inv, Reply
    PROVE  Inv'
<1>1. Types /\ undefined = {} /\ be # NoMsg /\ be \in Answer /\ msgq_out \in Seq(Answer)
  BY DEF Inv, Reply, Types
<1>2. TypeOK' /\ IsFiniteSet(Installed(table))'
  BY <1>1, SameTable, TypesTable DEF Reply, feState, beState, Types, TypeOK
<1>3. /\ fe' = fe /\ issued' = issued /\ cmd' = cmd /\ timeouts' = timeouts
      /\ msgq_in' = msgq_in /\ be' = NoMsg /\ msgq_out' = Append(msgq_out, be) /\ bulk_failed' = bulk_failed
      /\ undefined' = undefined /\ rules' = rules /\ default_rule' = default_rule
      /\ table' = table /\ default_entry' = default_entry /\ arrays' = arrays
  BY DEF Reply, feState, beState
<1>4. msgq_out' \in Seq(Answer)
  BY <1>1, <1>3
<1>5. Types'
  BY <1>1, <1>2, <1>3, <1>4 DEF Types
<1>6. ASSUME timeouts = 0 PROVE InStep'
  <2>1. InStep
    BY <1>1, <1>6 DEF Inv
  <2>2. fe = "recv" /\ msgq_in = <<>> /\ msgq_out = <<>> /\ Replied(be)
    BY <1>1, <2>1 DEF InStep, Types
  <2>3. Len(msgq_out') = 1 /\ msgq_out'[1] = be
    BY <1>3, <2>2
  <2>4. DefaultAfter' = DefaultAfter /\ Bulk' = Bulk
    BY <1>3 DEF DefaultAfter, Bulk
  <2>5. Replied(msgq_out[1])'
    <3>1. PICK t \in Tables : Agree(t) /\ MadeBy(cmd, t, table, be.ok, be.word = 1, arrays.found, arrays.foreign)
      BY <2>2 DEF Replied
    <3>2. Agree(t)'
      BY <1>3, <3>1 DEF Agree
    <3>3. MadeBy(cmd', t, table', msgq_out'[1].ok, msgq_out'[1].word = 1, arrays'.found, arrays'.foreign)
      BY <1>3, <2>3, <3>1
    <3> QED
      BY <1>3, <2>2, <2>3, <2>4, <3>2, <3>3 DEF Replied
  <2> QED
    BY <1>3, <2>2, <2>3, <2>5 DEF InStep
<1>7. ListedOnce'
  BY <1>3 DEF Inv, ListedOnce
<1> QED
  BY <1>1, <1>3, <1>5, <1>6, <1>7 DEF Inv

LEMMA RepliesFacts ==
    ASSUME NEW m \in Request, NEW e, e.ok \in BOOLEAN, NEW r \in Replies(m, e)
    PROVE  /\ r \in Answer /\ r.id = m.id /\ r.ok = e.ok
           /\ m.op \in {"add", "del"} => (r.word = 1 <=> e.found[1])
           /\ m.op \in {"add", "add_default"} => r.ptr
<1> DEFINE W == CASE m.op \in {"add", "del"} -> {IF e.found[1] THEN 1 ELSE 0}
                  [] m.op = "ping" -> 0 .. 2
                  [] OTHER -> {2}
           P == IF m.op \in {"add", "add_bulk", "del_bulk", "add_default"} THEN {TRUE} ELSE BOOLEAN
<1>0. Replies(m, e) = {[id |-> m.id, ok |-> e.ok, word |-> w, ptr |-> p] : w \in W, p \in P}
  BY DEF Replies
<1>w. W \subseteq 0 .. 2 /\ P \subseteq BOOLEAN
  <2>1. W \in {{0}, {1}, {2}, 0 .. 2} /\ P \in {{TRUE}, BOOLEAN}
    OBVIOUS
  <2> HIDE DEF W, P
  <2>2. W \subseteq 0 .. 2
    BY <2>1
  <2>3. P \subseteq BOOLEAN
    BY <2>1, Zenon
  <2> QED
    BY <2>2, <2>3
<1>1. PICK w \in W, p \in P : r = [id |-> m.id, ok |-> e.ok, word |-> w, ptr |-> p]
  <2> HIDE DEF W, P
  <2> QED
    BY <1>0
<1>2. w \in 0 .. 2 /\ p \in BOOLEAN
  <2> HIDE DEF W, P
  <2> QED
    BY <1>1, <1>w
<1>3. m.op \in {"add", "del"} => (w = 1 <=> e.found[1])
  BY <1>1
<1>4. m.op \in {"add", "add_default"} => p
  BY <1>1
<1>5. m.id \in Nat \ {0}
  BY RequestArgs
<1> HIDE DEF W, P
<1> QED
  BY <1>1, <1>2, <1>3, <1>4, <1>5 DEF Answer

LEMMA HeadTail ==
    ASSUME NEW S, NEW q \in Seq(S), q # <<>>
    PROVE  Head(q) \in S /\ Head(q) = q[1] /\ Tail(q) \in Seq(S) /\ Len(q) \in Nat \ {0} /\ Len(Tail(q)) = Len(q) - 1
           /\ \A i \in 1 .. Len(q) - 1 : Tail(q)[i] = q[i + 1]
<1>1. Len(q) \in Nat \ {0}
  BY EmptySeq, LenProperties
<1> QED
  BY <1>1, HeadTailProperties

LEMMA HandleKeepsInv ==
    ASSUME Inv, Handle
    PROVE  Inv'
<1> DEFINE m == Head(msgq_in)
           bulk == m.op \in {"add_bulk", "del_bulk"}
<1>1. Types /\ undefined = {} /\ be = NoMsg /\ msgq_in # <<>> /\ msgq_in \in Seq(Request)
  BY DEF Inv, Handle, Types
<1>2. m \in Request /\ Tail(msgq_in) \in Seq(Request) /\ m = msgq_in[1]
  BY <1>1, HeadTail
<1>3. /\ fe' = fe /\ issued' = issued /\ timeouts' = timeouts /\ msgq_out' = msgq_out /\ cmd' = cmd
      /\ rules' = rules /\ default_rule' = default_rule /\ bulk_failed' = bulk_failed /\ msgq_in' = Tail(msgq_in)
  BY DEF Handle, feState
<1>4. timeouts = 0 => /\ fe = "recv" /\ msgq_in = <<cmd>> /\ msgq_out = <<>>
                      /\ Agree(table) /\ default_rule = default_entry
  <2>1. timeouts = 0 => InStep
    BY <1>1 DEF Inv
  <2> QED
    BY <1>1, <2>1 DEF InStep, Types
<1>5. timeouts = 0 => m = cmd /\ Live(m) /\ msgq_in' = <<>>
  <2> SUFFICES ASSUME timeouts = 0 PROVE m = cmd /\ Live(m) /\ msgq_in' = <<>>
    OBVIOUS
  <2>1. msgq_in = <<cmd>> /\ fe = "recv"
    BY <1>4
  <2>2. m = cmd /\ Tail(msgq_in) = <<>>
    BY <2>1
  <2> QED
    BY <1>3, <2>1, <2>2 DEF Live
<1>6. ListedOnce'
  BY <1>3 DEF Inv, ListedOnce
<1>7. CASE bulk /\ ~Live(m)
  <2>1. /\ undefined' = {"use after free"} /\ be' = [id |-> m.id] /\ table' = table /\ default_entry' = default_entry
    BY <1>7 DEF Handle, beState
  <2>2. TypeOK' /\ IsFiniteSet(Installed(table))'
    BY <1>1, <1>3, <2>1, SameTable, TypesTable
  <2>3. be' \in [id : Nat \ {0}] /\ undefined' # {}
    BY <1>2, <2>1, RequestArgs
  <2> HIDE DEF m
  <2>4. Types'
    BY <1>1, <1>2, <1>3, <2>2, <2>3 DEF Types
  <2> QED
    BY <1>3, <1>5, <1>7, <1>6, <2>4 DEF Inv
<1>8. CASE ~(bulk /\ ~Live(m))
  <2>1. PICK e \in Handler(m) :
          /\ table' = e.table /\ default_entry' = DefaultEntryAfter(m) /\ be' \in Replies(m, e)
          /\ arrays' = (IF bulk THEN [found |-> e.found, foreign |-> e.foreign, written |-> TRUE] ELSE arrays)
          /\ undefined' = undefined
    BY <1>8 DEF Handle
  <2>2. Makes(m, e)
    BY <1>1, <1>2, HandlerMakes, TypesTable
  <2> HIDE DEF m
  <2>3. /\ be' \in Answer /\ be'.ok = e.ok
        /\ m.op \in {"add", "del"} => (be'.word = 1 <=> e.found[1])
        /\ m.op \in {"add", "add_default"} => be'.ptr
    BY <1>2, <2>1, <2>2, RepliesFacts DEF Makes
  <2>4. TypeOK' /\ IsFiniteSet(Installed(table))'
    <3>1. TableOK(table')
      BY <2>1, <2>2 DEF Makes
    <3>2. default_entry' \in Ports \cup {NONE}
      BY <1>1, <1>2, <2>1, RequestArgs DEF DefaultEntryAfter, Types, TypeOK
    <3>3. rules' \in Lists /\ default_rule' \in Ports \cup {NONE}
      BY <1>1, <1>3, TypesTable
    <3>4. Installed(table)' = Installed(table')
      BY DEF Installed
    <3>5. IsFiniteSet(Installed(table))' /\ Cardinality(Installed(table))' <= Capacity
      BY <3>1, <3>4, Zenon DEF TableOK
    <3> QED
      BY <3>1, <3>2, <3>3, <3>5 DEF TypeOK, Tables, Lists, TableOK
  <2>5. Types'
    BY <1>1, <1>2, <1>3, <2>1, <2>3, <2>4 DEF Types
  <2>6. ASSUME timeouts = 0 PROVE InStep'
    <3>1. m = cmd /\ fe' = "recv" /\ msgq_in' = <<>> /\ msgq_out' = <<>> /\ Agree(table) /\ default_rule = default_entry
      BY <1>3, <1>4, <1>5, <2>6
    <3>2. Agree(table) /\ table \in Tables /\ rules' = rules /\ bulk_failed' = bulk_failed
      BY <1>1, <1>3, <3>1, TypesTable DEF TableOK
    <3>3. MadeBy(cmd, table, table', be'.ok, be'.word = 1, arrays'.found, arrays'.foreign)
      <4>1. MadeBy(cmd, table, table', be'.ok, e.found[1], e.found, e.foreign)
        BY <2>1, <2>2, <2>3, <3>1 DEF Makes
      <4>2. cmd.op \in {"add_bulk", "del_bulk"} => arrays'.found = e.found /\ arrays'.foreign = e.foreign
        BY <2>1, <3>1
      <4>3. cmd.op \in {"add", "del"} => (be'.word = 1 <=> e.found[1])
        BY <2>3, <3>1
      <4> QED
        BY <4>1, <4>2, <4>3 DEF MadeBy
    <3>4. default_entry' = DefaultAfter'
      BY <1>3, <2>1, <3>1 DEF DefaultEntryAfter, DefaultAfter
    <3>5. Bulk' => arrays'.written
      BY <1>3, <2>1, <3>1 DEF Bulk
    <3>6. \E t \in Tables : Agree(t)' /\ MadeBy(cmd', t, table', be'.ok, be'.word = 1, arrays'.found, arrays'.foreign)
      <4> DEFINE t == table
      <4>1. t \in Tables /\ MadeBy(cmd', t, table', be'.ok, be'.word = 1, arrays'.found, arrays'.foreign)
        BY <1>3, <3>2, <3>3
      <4>2. (\A k \in Keys : t[k] # NONE => rules[k] # <<>>) /\ (~bulk_failed => rules = Listing(t))
        BY <3>2 DEF Agree
      <4>3. (\A k \in Keys : t[k] # NONE => rules'[k] # <<>>) /\ (~bulk_failed' => rules' = Listing(t))
        BY <3>2, <4>2
      <4> HIDE DEF t
      <4> QED
        BY <4>1, <4>3 DEF Agree, Listing
    <3>7. Replied(be)'
      BY <1>3, <2>3, <3>1, <3>4, <3>5, <3>6 DEF Replied
    <3> QED
      BY <2>3, <3>1, <3>7 DEF InStep
  <2> QED
    BY <1>1, <1>3, <1>6, <2>1, <2>5, <2>6 DEF Inv
<1> QED
  BY <1>7, <1>8

LEMMA ReceiveKeepsInv ==
    ASSUME Inv, Receive
    PROVE  Inv'
<1> DEFINE r == Head(msgq_out)
<1>1. /\ Types /\ undefined = {} /\ fe = "recv" /\ msgq_out # <<>> /\ msgq_out \in Seq(Answer)
      /\ cmd \in Request
  BY DEF Inv, Receive, Types
<1>2. r \in Answer /\ Tail(msgq_out) \in Seq(Answer) /\ r = msgq_out[1] /\ Len(Tail(msgq_out)) = Len(msgq_out) - 1
  BY <1>1, HeadTail
<1>3. PICK found \in KeysFound :
        /\ rules' = IF Accepted(r, found) THEN RulesAfter ELSE rules
        /\ default_rule' = IF Accepted(r, found) THEN DefaultAfter ELSE default_rule
        /\ bulk_failed' = (bulk_failed \/ (Bulk /\ ~Accepted(r, found)))
        /\ undefined' = MemoryErrors(Accepted(r, found))
  BY DEF Receive
<1> DEFINE ok == Accepted(r, found)
<1>4. /\ fe' = "idle" /\ issued' = issued /\ timeouts' = timeouts /\ msgq_in' = msgq_in /\ be' = be
      /\ table' = table /\ default_entry' = default_entry /\ msgq_out' = Tail(msgq_out)
  BY DEF Receive, beState
<1> HIDE DEF r
<1>5. Types'
  <2>1. /\ RulesAfter \in Lists /\ DefaultAfter \in Ports \cup {NONE} /\ rules \in Lists
        /\ default_rule \in Ports \cup {NONE}
    BY <1>1, RulesAfterType, TypesTable
  <2>2. TypeOK' /\ IsFiniteSet(Installed(table))'
    BY <1>1, <1>3, <1>4, <2>1, SameTable
  <2>3. bulk_failed' \in BOOLEAN
    BY <1>1, <1>3 DEF Types
  <2>4. be \in {NoMsg} \cup Answer
    BY <1>1 DEF Types
  <2> QED
    BY <1>1, <1>2, <1>4, <2>2, <2>3, <2>4 DEF Types
<1>6. ASSUME timeouts = 0
      PROVE  ListedOnce' /\ (undefined' = {} => InStep') /\ (undefined' # {} => Broken')
  <2>1. InStep
    BY <1>1, <1>6 DEF Inv
  <2>2. msgq_in = <<>> /\ be = NoMsg /\ Len(msgq_out) = 1 /\ Replied(r)
    BY <1>1, <1>2, <2>1 DEF InStep
  <2>3. PICK t \in Tables : Agree(t) /\ MadeBy(cmd, t, table, r.ok, r.word = 1, arrays.found, arrays.foreign)
    BY <2>2 DEF Replied
  <2>4. /\ default_entry = DefaultAfter /\ (Bulk => arrays.written)
        /\ (cmd.op \in {"add", "add_default"} => r.ptr)
    BY <2>2 DEF Replied
  <2>5. found = arrays.found
    BY <1>3, <2>4 DEF KeysFound
  <2>6. /\ rules \in Lists /\ table \in Tables /\ default_rule \in Ports \cup {NONE} /\ bulk_failed \in BOOLEAN
        /\ \A k \in Keys : Len(rules[k]) <= 1
    BY <1>1, <1>6, TypesTable DEF TableOK, Types, Inv, ListedOnce
  <2>7. /\ ok => /\ \A k \in Keys : table[k] # NONE => RulesAfter[k] # <<>>
                 /\ \A k \in Keys : Len(RulesAfter[k]) <= 1
                 /\ ~bulk_failed => RulesAfter = Listing(table)
                 /\ cmd.op = "del_bulk" => \A i \in DOMAIN cmd.args :
                                              Known(cmd.args[i].key) /\ ~InBatch(cmd.args, i)
        /\ ~ok => \/ cmd.op = "add_bulk" /\ \E i \in DOMAIN cmd.args : arrays.foreign[i]
                  \/ /\ \A k \in Keys : table[k] # NONE => rules[k] # <<>>
                     /\ ~bulk_failed /\ ~Bulk => rules = Listing(table)
        /\ cmd.op \in {"add_default", "del_default"} => ok
    BY <1>1, <1>2, <2>3, <2>4, <2>5, <2>6, ReplyAgrees
  <2> HIDE DEF ok
  <2>8. undefined' = MemoryErrors(ok) /\ bulk_failed' = (bulk_failed \/ (Bulk /\ ~ok))
        /\ rules' = (IF ok THEN RulesAfter ELSE rules) /\ default_rule' = (IF ok THEN DefaultAfter ELSE default_rule)
    BY <1>3 DEF ok
  <2>9. MemoryErrors(ok) \subseteq {"foreign free"}
    BY <2>7 DEF MemoryErrors
  <2>10. "foreign free" \in MemoryErrors(ok) <=> cmd.op = "add_bulk" /\ ~ok /\ \E i \in DOMAIN cmd.args : arrays.foreign[i]
    BY DEF MemoryErrors
  <2>11. ASSUME undefined' = {} PROVE InStep'
    <3>1. default_rule' = default_entry'
      BY <1>4, <2>4, <2>7, <2>8 DEF DefaultAfter
    <3>2. \A k \in Keys : table'[k] # NONE => rules'[k] # <<>>
      BY <1>4, <2>7, <2>8, <2>10, <2>11
    <3>3. ~bulk_failed' => rules' = Listing(table)
      BY <1>4, <2>7, <2>8, <2>10, <2>11
    <3>4. msgq_out' = <<>>
      <4>1. Tail(msgq_out) \in Seq(Answer) /\ Len(Tail(msgq_out)) = 0
        BY <1>2, <2>2
      <4> QED
        BY <1>4, <4>1, EmptySeq
    <3> QED
      BY <1>4, <2>2, <2>11, <3>1, <3>2, <3>3, <3>4 DEF InStep, Agree, Listing
  <2>12. ASSUME undefined' # {} PROVE Broken'
    <3>1. "foreign free" \in MemoryErrors(ok) /\ undefined' = {"foreign free"}
      BY <2>8, <2>9, <2>12
    <3>2. bulk_failed'
      BY <2>8, <2>10, <3>1 DEF Bulk
    <3> QED
      BY <2>12, <3>1, <3>2 DEF Broken, ByTimeoutsOnly
  <2>13. ListedOnce'
    BY <2>6, <2>7, <2>8 DEF ListedOnce
  <2> QED
    BY <2>11, <2>12, <2>13
<1> QED
  BY <1>4, <1>5, <1>6 DEF Inv, ListedOnce

\* The commands send requests.
LEMMA CommandsIssue ==
    ASSUME Types,
           \/ \E k \in RawKey, p \in Ports \cup {BadPort} : app_pipeline_firewall_add_rule(k, p)
           \/ \E k \in RawKey : app_pipeline_firewall_delete_rule(k)
           \/ \E b \in AddBatches : app_pipeline_firewall_add_bulk(b)
           \/ \E b \in DelBatches : app_pipeline_firewall_delete_bulk(b)
           \/ \E p \in Ports \cup {BadPort} : app_pipeline_firewall_add_default_rule(p)
           \/ app_pipeline_firewall_delete_default_rule
           \/ app_pipeline_ping
    PROVE  \E op, args : Issue(op, args) /\ [id |-> issued + 1, op |-> op, args |-> args] \in Request
<1> DEFINE Req(op, args) == [id |-> issued + 1, op |-> op, args |-> args] \in Request
<1>1. issued + 1 \in Nat \ {0}
  BY DEF Types
<1>2. \A k \in RawKey : key_check(k) => normalize(k) \in Keys
  BY DEF Keys
<1>3. ASSUME NEW k \in RawKey, NEW p \in Ports \cup {BadPort}, app_pipeline_firewall_add_rule(k, p)
      PROVE  \E op, args : Issue(op, args) /\ Req(op, args)
  <2> DEFINE a == [key |-> normalize(k), port |-> p]
  <2>1. Issue("add", <<a>>) /\ a \in Rule
    BY <1>2, <1>3 DEF app_pipeline_firewall_add_rule, Rule
  <2> HIDE DEF a
  <2> DEFINE s == <<a>>
  <2>2. s \in Seq(Rule) /\ Len(s) = 1
    BY <2>1
  <2> HIDE DEF s
  <2>3. Req("add", s)
    BY <1>1, <2>2 DEF Request, OpNames
  <2> QED
    BY <2>1, <2>3 DEF s
<1>4. ASSUME NEW k \in RawKey, app_pipeline_firewall_delete_rule(k)
      PROVE  \E op, args : Issue(op, args) /\ Req(op, args)
  <2> DEFINE a == [key |-> normalize(k)]
  <2>1. Issue("del", <<a>>) /\ a \in KeyOnly
    BY <1>2, <1>4 DEF app_pipeline_firewall_delete_rule, KeyOnly
  <2> HIDE DEF a
  <2> DEFINE s == <<a>>
  <2>2. s \in Seq(KeyOnly) /\ Len(s) = 1
    BY <2>1
  <2> HIDE DEF s
  <2>3. Req("del", s)
    BY <1>1, <2>2 DEF Request, OpNames
  <2> QED
    BY <2>1, <2>3 DEF s
<1>5. ASSUME NEW b \in AddBatches, app_pipeline_firewall_add_bulk(b)
      PROVE  \E op, args : Issue(op, args) /\ Req(op, args)
  <2> DEFINE a == [i \in DOMAIN b |-> [key |-> normalize(b[i].key), port |-> b[i].port]]
  <2>1. Issue("add_bulk", a)
    BY <1>5 DEF app_pipeline_firewall_add_bulk
  <2>2. PICK n \in 1 .. MaxBatch : b \in [1 .. n -> [key : RawKey, port : Ports \cup {BadPort}]]
    BY DEF AddBatches
  <2>3. \A i \in 1 .. n : b[i].key \in RawKey /\ b[i].port \in Ports /\ key_check(b[i].key)
    BY <1>5, <2>2 DEF app_pipeline_firewall_add_bulk
  <2>4. a \in [1 .. n -> Rule]
    BY <1>2, <2>2, <2>3 DEF Rule
  <2>5. n \in Nat \ {0}
    BY FirewallAssumption
  <2> HIDE DEF a
  <2>6. a \in Seq(Rule) /\ a # <<>>
    BY <2>4, <2>5
  <2>7. Req("add_bulk", a)
    BY <1>1, <2>6 DEF Request, OpNames
  <2> QED
    BY <2>1, <2>7
<1>6. ASSUME NEW b \in DelBatches, app_pipeline_firewall_delete_bulk(b)
      PROVE  \E op, args : Issue(op, args) /\ Req(op, args)
  <2> DEFINE a == [i \in DOMAIN b |-> [key |-> normalize(b[i])]]
  <2>1. Issue("del_bulk", a)
    BY <1>6 DEF app_pipeline_firewall_delete_bulk
  <2>2. PICK n \in 1 .. MaxBatch : b \in [1 .. n -> RawKey]
    BY DEF DelBatches
  <2>3. \A i \in 1 .. n : b[i] \in RawKey /\ key_check(b[i])
    BY <1>6, <2>2 DEF app_pipeline_firewall_delete_bulk
  <2>4. a \in [1 .. n -> KeyOnly]
    BY <1>2, <2>2, <2>3 DEF KeyOnly
  <2>5. n \in Nat
    BY FirewallAssumption
  <2> HIDE DEF a
  <2>6. a \in Seq(KeyOnly)
    BY <2>4, <2>5
  <2>7. Req("del_bulk", a)
    BY <1>1, <2>6 DEF Request, OpNames
  <2> QED
    BY <2>1, <2>7
<1>7. ASSUME NEW p \in Ports \cup {BadPort}, app_pipeline_firewall_add_default_rule(p)
      PROVE  \E op, args : Issue(op, args) /\ Req(op, args)
  <2> DEFINE a == [port |-> p]
  <2>1. Issue("add_default", <<a>>) /\ a \in PortOnly
    BY <1>7 DEF app_pipeline_firewall_add_default_rule, PortOnly
  <2> HIDE DEF a
  <2> DEFINE s == <<a>>
  <2>2. s \in Seq(PortOnly) /\ Len(s) = 1
    BY <2>1
  <2> HIDE DEF s
  <2>3. Req("add_default", s)
    BY <1>1, <2>2 DEF Request, OpNames
  <2> QED
    BY <2>1, <2>3 DEF s
<1>8. Req("del_default", <<>>) /\ Req("ping", <<>>)
  BY <1>1 DEF Request, OpNames
<1>9. CASE app_pipeline_firewall_delete_default_rule
  BY <1>8, <1>9 DEF app_pipeline_firewall_delete_default_rule
<1>10. CASE app_pipeline_ping
  BY <1>8, <1>10 DEF app_pipeline_ping
<1> QED
  BY <1>3, <1>4, <1>5, <1>6, <1>7, <1>9, <1>10, Zenon

LEMMA NextKeepsInv == Inv /\ [Next]_vars => Inv'
<1> SUFFICES ASSUME Inv, [Next]_vars PROVE Inv'
  OBVIOUS
<1>1. Types
  BY DEF Inv
<1>2. ASSUME \E op, args : Issue(op, args) /\ [id |-> issued + 1, op |-> op, args |-> args] \in Request PROVE Inv'
  BY <1>2, IssueKeepsInv
<1>3. CASE UNCHANGED vars
  BY <1>3 DEF vars, chan, feState, beState, Inv, Types, TypeOK, Installed, InStep, Broken, Agree, Replied,
       DefaultAfter, Bulk, ListedOnce, Listing
<1> QED
  BY <1>1, <1>2, <1>3, CommandsIssue, SendKeepsInv, ReceiveKeepsInv, TimeoutKeepsInv, HandleKeepsInv,
     ReplyKeepsInv, Zenon DEF Next

LEMMA AlwaysInv == Spec => []Inv
BY InitInv, NextKeepsInv, PTL DEF Spec

-----------------------------------------------------------------------------
(***************************************************************************)
(* The rules and ports of the list and of the table are rules and ports,   *)
(* and the table never holds more rules than it has room for, whatever the *)
(* handlers are asked to add and whatever they answer.                     *)
(***************************************************************************)
THEOREM AlwaysTypeOK == Spec => []TypeOK
<1>1. Inv => TypeOK
  BY DEF Inv, Types
<1> QED
  BY <1>1, AlwaysInv, PTL

(***************************************************************************)
(* Between commands the front end's list and default rule are those of the *)
(* back end, as long as no command has timed out and no bulk command has   *)
(* failed.                                                                 *)
(***************************************************************************)
THEOREM AlwaysMirrorMatchesTable == Spec => []MirrorMatchesTable
<1>1. Inv => MirrorMatchesTable
  BY DEF Inv, Broken, InStep, Agree, MirrorMatchesTable
<1> QED
  BY <1>1, AlwaysInv, PTL

(***************************************************************************)
(* Without a timeout the front end knows every rule in force, even after   *)
(* bulk commands that reported an error.                                   *)
(***************************************************************************)
THEOREM AlwaysNoUnknownRules == Spec => []NoUnknownRules
<1>1. Inv => NoUnknownRules
  BY DEF Inv, InStep, Agree, NoUnknownRules, Installed, Known
<1> QED
  BY <1>1, AlwaysInv, PTL

(***************************************************************************)
(* Without a timeout no handler reaches arrays that a bulk command has     *)
(* freed, and no bulk delete unlinks a rule that is not there or one that  *)
(* it has unlinked and freed already.                                      *)
(***************************************************************************)
THEOREM AlwaysMemoryErrorsNeedTimeouts == Spec => []MemoryErrorsNeedTimeouts
<1>1. Inv => MemoryErrorsNeedTimeouts
  <2> SUFFICES ASSUME Inv PROVE MemoryErrorsNeedTimeouts
    OBVIOUS
  <2>1. timeouts \in Nat
    BY DEF Inv, Types
  <2>2. CASE timeouts = 0
    <3>1. undefined = {} \/ undefined \cap ByTimeoutsOnly = {}
      BY <2>2, Zenon DEF Inv, Broken
    <3>2. undefined \cap ByTimeoutsOnly = {}
      BY <3>1
    <3> QED
      BY <3>2, Zenon DEF MemoryErrorsNeedTimeouts
  <2>3. CASE timeouts # 0
    <3>1. timeouts > 0
      BY <2>1, <2>3
    <3> QED
      BY <3>1, Zenon DEF MemoryErrorsNeedTimeouts
  <2> QED
    BY <2>2, <2>3
<1> QED
  BY <1>1, AlwaysInv, PTL

(***************************************************************************)
(* Without a timeout no rule is in the list twice, also when a bulk add    *)
(* repeats a key that is new.                                              *)
(***************************************************************************)
THEOREM AlwaysListedOnce == Spec => []ListedOnce
<1>1. Inv => ListedOnce
  BY DEF Inv
<1> QED
  BY <1>1, AlwaysInv, PTL

-----------------------------------------------------------------------------
(***************************************************************************)
(* The refinement: the numbers of the messages in a ring.                  *)
(***************************************************************************)
LEMMA IdsFacts ==
    ASSUME NEW S, \A x \in S : x.id \in Nat, NEW q \in Seq(S)
    PROVE  /\ Ids(q) \in Seq(Nat) /\ Len(Ids(q)) = Len(q) /\ \A i \in 1 .. Len(q) : Ids(q)[i] = q[i].id
           /\ q = <<>> <=> Ids(q) = <<>>
<1>1. DOMAIN q = 1 .. Len(q) /\ Len(q) \in Nat /\ \A i \in 1 .. Len(q) : q[i] \in S
  OBVIOUS
<1>2. Ids(q) \in [1 .. Len(q) -> Nat] /\ \A i \in 1 .. Len(q) : Ids(q)[i] = q[i].id
  BY <1>1 DEF Ids
<1>3. Ids(q) \in Seq(Nat) /\ Len(Ids(q)) = Len(q)
  BY <1>1, <1>2
<1>4. (q = <<>> <=> Len(q) = 0) /\ (Ids(q) = <<>> <=> Len(Ids(q)) = 0)
  BY <1>3, EmptySeq
<1> QED
  BY <1>2, <1>3, <1>4

LEMMA IdsAppend ==
    ASSUME NEW S, \A x \in S : x.id \in Nat, NEW q \in Seq(S), NEW m \in S
    PROVE  Ids(Append(q, m)) = Append(Ids(q), m.id)
<1> DEFINE a == Append(q, m)
           b == Append(Ids(q), m.id)
<1>1. a \in Seq(S) /\ Len(a) = Len(q) + 1 /\ Len(q) \in Nat /\ a[Len(q) + 1] = m /\ \A i \in 1 .. Len(q) : a[i] = q[i]
  BY AppendProperties
<1>2. Ids(q) \in Seq(Nat) /\ Len(Ids(q)) = Len(q) /\ \A i \in 1 .. Len(q) : Ids(q)[i] = q[i].id
  BY IdsFacts
<1>3. b \in Seq(Nat) /\ Len(b) = Len(q) + 1 /\ b[Len(q) + 1] = m.id /\ \A i \in 1 .. Len(q) : b[i] = q[i].id
  BY <1>1, <1>2, AppendProperties
<1> HIDE DEF a, b
<1>4. Ids(a) \in Seq(Nat) /\ Len(Ids(a)) = Len(a) /\ \A i \in 1 .. Len(a) : Ids(a)[i] = a[i].id
  BY <1>1, IdsFacts
<1>5. ASSUME NEW i \in 1 .. Len(q) + 1 PROVE Ids(a)[i] = b[i]
  <2>1. Ids(a)[i] = a[i].id
    BY <1>1, <1>4
  <2>2. CASE i = Len(q) + 1
    BY <1>1, <1>3, <2>1, <2>2
  <2>3. CASE i # Len(q) + 1
    <3>1. i \in 1 .. Len(q)
      BY <1>1, <2>3
    <3> QED
      BY <1>1, <1>3, <2>1, <3>1
  <2> QED
    BY <2>2, <2>3
<1> QED
  BY <1>1, <1>3, <1>4, <1>5, SeqEqual DEF a, b

LEMMA IdsTail ==
    ASSUME NEW S, \A x \in S : x.id \in Nat, NEW q \in Seq(S), q # <<>>
    PROVE  Ids(q) # <<>> /\ Head(Ids(q)) = Head(q).id /\ Tail(Ids(q)) = Ids(Tail(q))
<1>1. Ids(q) \in Seq(Nat) /\ Len(Ids(q)) = Len(q) /\ (\A i \in 1 .. Len(q) : Ids(q)[i] = q[i].id) /\ Ids(q) # <<>>
  BY IdsFacts
<1> DEFINE a == Tail(q)
           b == Tail(Ids(q))
<1>2. /\ Head(q) = q[1] /\ a \in Seq(S) /\ Len(q) \in Nat \ {0} /\ Len(a) = Len(q) - 1
      /\ \A i \in 1 .. Len(q) - 1 : a[i] = q[i + 1]
  BY HeadTail
<1>3. /\ Head(Ids(q)) = Ids(q)[1] /\ b \in Seq(Nat) /\ Len(b) = Len(q) - 1
      /\ \A i \in 1 .. Len(q) - 1 : b[i] = Ids(q)[i + 1]
  BY <1>1, HeadTail
<1> HIDE DEF a, b
<1>4. Ids(a) \in Seq(Nat) /\ Len(Ids(a)) = Len(a) /\ \A i \in 1 .. Len(a) : Ids(a)[i] = a[i].id
  BY <1>2, IdsFacts
<1>5. ASSUME NEW i \in 1 .. Len(q) - 1 PROVE Ids(a)[i] = b[i]
  <2>1. i \in 1 .. Len(a) /\ i + 1 \in 1 .. Len(q)
    BY <1>2
  <2>2. Ids(a)[i] = a[i].id /\ a[i] = q[i + 1] /\ b[i] = Ids(q)[i + 1] /\ Ids(q)[i + 1] = q[i + 1].id
    BY <1>1, <1>2, <1>3, <1>4, <2>1
  <2> QED
    BY <2>2
<1>6. Ids(a) = b
  BY <1>2, <1>3, <1>4, <1>5, SeqEqual
<1> QED
  BY <1>1, <1>2, <1>3, <1>6 DEF a, b

\* One step of the channel for every step of the firewall.
ChannelStep ==
    \/ /\ fe = "idle" /\ issued < MaxCommands /\ fe' = "send" /\ issued' = issued + 1
       /\ Ids(msgq_in)' = Ids(msgq_in) /\ be'.id = be.id /\ Ids(msgq_out)' = Ids(msgq_out)
       /\ answered' = answered /\ timeouts' = timeouts
    \/ /\ fe = "send" /\ Len(Ids(msgq_in)) < RingSlots /\ Ids(msgq_in)' = Append(Ids(msgq_in), issued)
       /\ fe' = "recv" /\ issued' = issued /\ be'.id = be.id /\ Ids(msgq_out)' = Ids(msgq_out)
       /\ answered' = answered /\ timeouts' = timeouts
    \/ /\ fe = "recv" /\ Ids(msgq_out) # <<>> /\ answered' = Head(Ids(msgq_out))
       /\ Ids(msgq_out)' = Tail(Ids(msgq_out)) /\ fe' = "idle" /\ issued' = issued
       /\ Ids(msgq_in)' = Ids(msgq_in) /\ be'.id = be.id /\ timeouts' = timeouts
    \/ /\ fe = "recv" /\ fe' = "idle" /\ timeouts' = timeouts + 1 /\ issued' = issued
       /\ Ids(msgq_in)' = Ids(msgq_in) /\ be'.id = be.id /\ Ids(msgq_out)' = Ids(msgq_out)
       /\ answered' = answered
    \/ /\ be.id = 0 /\ Ids(msgq_in) # <<>> /\ be'.id = Head(Ids(msgq_in))
       /\ Ids(msgq_in)' = Tail(Ids(msgq_in)) /\ fe' = fe /\ issued' = issued
       /\ Ids(msgq_out)' = Ids(msgq_out) /\ answered' = answered /\ timeouts' = timeouts
    \/ /\ be.id # 0 /\ Len(Ids(msgq_out)) < RingSlots
       /\ Ids(msgq_out)' = Append(Ids(msgq_out), be.id) /\ be'.id = 0 /\ fe' = fe /\ issued' = issued
       /\ Ids(msgq_in)' = Ids(msgq_in) /\ answered' = answered /\ timeouts' = timeouts

LEMMA StepsRefine ==
    ASSUME Inv, Next
    PROVE  ChannelStep
<1>1. Types /\ msgq_in \in Seq(Request) /\ msgq_out \in Seq(Answer)
  BY DEF Inv, Types
<1>2. (\A x \in Request : x.id \in Nat \ {0}) /\ \A x \in Answer : x.id \in Nat \ {0}
  BY DEF Request, Answer
<1>3. NoMsg.id = 0
  BY DEF NoMsg
<1>4. /\ msgq_in' = msgq_in => Ids(msgq_in)' = Ids(msgq_in)
      /\ msgq_out' = msgq_out => Ids(msgq_out)' = Ids(msgq_out)
  BY DEF Ids
<1>5. ASSUME NEW op, NEW args, Issue(op, args) PROVE ChannelStep
  BY <1>4, <1>5 DEF Issue, ChannelStep
<1>6. CASE Send
  <2>1. cmd \in Request /\ cmd.id = issued
    BY <1>1, <1>6 DEF Send, Types
  <2>2. Ids(Append(msgq_in, cmd)) = Append(Ids(msgq_in), issued)
    BY <1>1, <1>2, <2>1, IdsAppend
  <2>3. Ids(msgq_in)' = Ids(Append(msgq_in, cmd))
    BY <1>6 DEF Send, Ids
  <2>4. Len(Ids(msgq_in)) = Len(msgq_in)
    BY <1>1, <1>2, IdsFacts
  <2> QED
    BY <1>4, <1>6, <2>2, <2>3, <2>4 DEF Send, ChannelStep
<1>7. CASE Receive
  <2>1. msgq_out # <<>> /\ answered' = Head(msgq_out).id /\ msgq_out' = Tail(msgq_out)
    BY <1>7 DEF Receive
  <2>2. Ids(msgq_out) # <<>> /\ Head(Ids(msgq_out)) = Head(msgq_out).id /\ Tail(Ids(msgq_out)) = Ids(Tail(msgq_out))
    BY <1>1, <1>2, <2>1, IdsTail
  <2>3. Ids(msgq_out)' = Ids(Tail(msgq_out))
    BY <2>1 DEF Ids
  <2>4. /\ fe = "recv" /\ fe' = "idle" /\ issued' = issued /\ timeouts' = timeouts /\ msgq_in' = msgq_in /\ be' = be
    BY <1>7 DEF Receive
  <2> QED
    BY <1>4, <2>1, <2>2, <2>3, <2>4 DEF ChannelStep
<1>8. CASE Timeout
  BY <1>4, <1>8 DEF Timeout, ChannelStep
<1>9. CASE Handle
  <2>1. /\ be = NoMsg /\ msgq_in # <<>> /\ msgq_in' = Tail(msgq_in)
        /\ fe' = fe /\ issued' = issued /\ timeouts' = timeouts /\ answered' = answered /\ msgq_out' = msgq_out
    BY <1>9 DEF Handle
  <2>2. Head(msgq_in) \in Request
    BY <1>1, <2>1, HeadTail
  <2>3. be'.id = Head(msgq_in).id
    <3> DEFINE m == Head(msgq_in)
    <3>1. CASE be' = [id |-> m.id]
      BY <3>1
    <3>2. ASSUME NEW e \in Handler(m), be' \in Replies(m, e) PROVE be'.id = m.id
      <4>1. m \in Request /\ TableOK(table)
        BY <1>1, <2>2, TypesTable
      <4>2. e.ok \in BOOLEAN
        BY <4>1, HandlerMakes DEF Makes
      <4> HIDE DEF m
      <4> QED
        BY <3>2, <4>1, <4>2, RepliesFacts
    <3> QED
      BY <1>9, <3>1, <3>2 DEF Handle
  <2>4. Ids(msgq_in) # <<>> /\ Head(Ids(msgq_in)) = Head(msgq_in).id /\ Tail(Ids(msgq_in)) = Ids(Tail(msgq_in))
    BY <1>1, <1>2, <2>1, IdsTail
  <2>5. Ids(msgq_in)' = Ids(Tail(msgq_in))
    BY <2>1 DEF Ids
  <2> QED
    BY <1>3, <1>4, <2>1, <2>3, <2>4, <2>5 DEF ChannelStep
<1>10. CASE Reply
  <2>1. be \in Answer /\ be' = NoMsg /\ msgq_out' = Append(msgq_out, be) /\ Len(msgq_out) < RingSlots
        /\ fe' = fe /\ issued' = issued /\ timeouts' = timeouts /\ answered' = answered /\ msgq_in' = msgq_in
    BY <1>1, <1>10 DEF Reply, Types
  <2>2. Ids(Append(msgq_out, be)) = Append(Ids(msgq_out), be.id) /\ Len(Ids(msgq_out)) = Len(msgq_out)
    <3>1. \A x \in Answer : x.id \in Nat
      BY <1>2
    <3>2. Ids(Append(msgq_out, be)) = Append(Ids(msgq_out), be.id)
      BY <1>1, <2>1, <3>1, IdsAppend
    <3>3. Len(Ids(msgq_out)) = Len(msgq_out)
      BY <1>1, <3>1, IdsFacts
    <3> QED
      BY <3>2, <3>3
  <2>3. Ids(msgq_out)' = Ids(Append(msgq_out, be))
    BY <2>1 DEF Ids
  <2>4. be.id # 0
    BY <1>2, <2>1
  <2> QED
    BY <1>3, <1>4, <2>1, <2>2, <2>3, <2>4 DEF ChannelStep
<1> QED
  BY <1>1, <1>5, <1>6, <1>7, <1>8, <1>9, <1>10, CommandsIssue, Zenon DEF Next

(***************************************************************************)
(* Whatever the commands and the handlers do, the messages between them    *)
(* follow the protocol of ControlChannel: its theorems hold of the         *)
(* firewall's requests and replies.                                        *)
(***************************************************************************)
THEOREM FirewallUsesTheChannel == Spec => ImplementsChannel
<1>1. Init => Channel!Init
  <2> SUFFICES ASSUME Init PROVE Channel!Init
    OBVIOUS
  <2>1. Ids(<<>>) = <<>>
    BY DEF Ids
  <2> QED
    BY <2>1 DEF Init, NoMsg, Channel!Init
<1>2. Inv /\ [Next]_vars => [Channel!Next]_(Channel!vars)
  <2> SUFFICES ASSUME Inv, [Next]_vars PROVE [Channel!Next]_(Channel!vars)
    OBVIOUS
  <2>1. CASE Next
    <3>1. ChannelStep
      BY <2>1, StepsRefine
    <3> QED
      BY <3>1 DEF ChannelStep, Channel!Next, Channel!Issue, Channel!Send, Channel!Receive, Channel!Timeout,
           Channel!Handle, Channel!Reply
  <2>2. CASE UNCHANGED vars
    BY <2>2 DEF vars, chan, Channel!vars, Ids
  <2> QED
    BY <2>1, <2>2
<1> QED
  BY <1>1, <1>2, AlwaysInv, PTL DEF Spec, ImplementsChannel
=============================================================================
