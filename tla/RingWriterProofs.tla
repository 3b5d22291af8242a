-------------------------- MODULE RingWriterProofs --------------------------
(***************************************************************************)
(* For bursts, buffers, rings and retry counters of every size: tx_buf is  *)
(* never overrun, and the writer implements PacketChannel.                 *)
(***************************************************************************)
EXTENDS RingWriter, TLAPS, FiniteSetTheorems, SequenceTheorems

(***************************************************************************)
(* The arrays that tx_bulk makes of a mask and its packets.                *)
(***************************************************************************)
LEMMA MaskFacts ==
    ASSUME NEW mask \in Masks
    PROVE  IsFiniteSet(mask) /\ mask \subseteq Nat /\ Cardinality(mask) \in 1 .. BurstMax
<1>1. mask \in SUBSET (0 .. BurstMax - 1) /\ mask # {}
  BY DEF Masks
<1>a. BurstMax \in Nat \ {0}
  BY WriterAssumption
<1>2. IsFiniteSet(0 .. BurstMax - 1) /\ Cardinality(0 .. BurstMax - 1) = BurstMax
  BY <1>a, FS_Interval
<1>3. IsFiniteSet(mask) /\ Cardinality(mask) <= BurstMax
  BY <1>1, <1>2, FS_Subset
<1>4. Cardinality(mask) \in Nat /\ Cardinality(mask) # 0
  BY <1>1, <1>3, FS_CardinalityType, FS_EmptySet
<1> QED
  BY <1>1, <1>a, <1>3, <1>4

\* A mask without gaps has as many bits as its array has packets.
LEMMA FirstPacketsFacts ==
    ASSUME NEW mask \in Masks, NEW pkts \in [mask -> Packets], IsPrefixMask(mask)
    PROVE  /\ FirstPackets(pkts) \in Seq(Packets)
           /\ Len(FirstPackets(pkts)) = Cardinality(mask)
<1> DEFINE n == Cardinality(mask)
<1>1. DOMAIN pkts = mask /\ n \in Nat
  BY MaskFacts
<1>2. ASSUME NEW k \in 1 .. n PROVE k - 1 \in mask
  <2> SUFFICES ASSUME k - 1 \notin mask PROVE FALSE
    OBVIOUS
  <2>1. mask \subseteq Nat
    BY MaskFacts
  <2>2. ASSUME NEW b \in mask PROVE b \in 0 .. k - 2
    <3>1. 0 .. b \subseteq mask /\ b \in Nat
      BY <2>1 DEF IsPrefixMask
    <3> QED
      BY <1>1, <3>1
  <2>3. IsFiniteSet(0 .. k - 2) /\ Cardinality(0 .. k - 2) = k - 1
    <3>1. k - 2 \in Int /\ k \in Nat /\ k >= 1
      BY <1>1
    <3>2. /\ IsFiniteSet(0 .. k - 2)
          /\ Cardinality(0 .. k - 2) = IF 0 > k - 2 THEN 0 ELSE k - 2 - 0 + 1
      BY <3>1, FS_Interval
    <3> QED
      BY <3>1, <3>2
  <2>5. mask \in SUBSET (0 .. k - 2)
    <3>1. \A b \in mask : b \in 0 .. k - 2
      BY <2>2
    <3> QED
      BY <3>1
  <2>4. Cardinality(mask) <= k - 1
    BY <2>3, <2>5, FS_Subset
  <2> QED
    BY <1>1, <2>4
<1>3. \A k \in 1 .. n : Array(pkts, k - 1) \in Packets
  BY <1>1, <1>2 DEF Array
<1>4. FirstPackets(pkts) = [k \in 1 .. n |-> Array(pkts, k - 1)]
  BY <1>1 DEF FirstPackets
<1> HIDE DEF n
<1> QED
  BY <1>1, <1>3, <1>4 DEF n

\* Every position of the gathered packets is the rank of exactly one bit.
LEMMA GatheredFacts ==
    ASSUME NEW mask \in Masks, NEW pkts \in [mask -> Packets]
    PROVE  /\ Gathered(pkts) \in Seq(Packets)
           /\ Len(Gathered(pkts)) = Cardinality(mask)
<1> DEFINE n == Cardinality(mask)
           Below(b) == {c \in mask : c < b}
           rank == [b \in mask |-> Cardinality(Below(b))]
<1>1. DOMAIN pkts = mask /\ n \in Nat \ {0} /\ IsFiniteSet(mask) /\ mask \subseteq Nat
  BY MaskFacts
<1>2. ASSUME NEW b \in mask
      PROVE  IsFiniteSet(Below(b)) /\ Cardinality(Below(b)) \in 0 .. n - 1
  <2>1. IsFiniteSet(mask \ {b}) /\ Cardinality(mask \ {b}) = n - 1
    BY <1>1, FS_RemoveElement
  <2>2. Below(b) \in SUBSET (mask \ {b})
    BY <1>1
  <2>3. IsFiniteSet(Below(b)) /\ Cardinality(Below(b)) <= n - 1
    BY <2>1, <2>2, FS_Subset
  <2> QED
    BY <1>1, <2>3, FS_CardinalityType
<1>3. ASSUME NEW b \in mask, NEW d \in mask, b < d
      PROVE  Cardinality(Below(b)) < Cardinality(Below(d))
  <2>a. b \in Nat /\ d \in Nat /\ mask \subseteq Nat
    BY <1>1
  <2>b. b \notin Below(b)
    BY <2>a
  <2>c. \A c \in Below(b) \cup {b} : c \in Below(d)
    BY <2>a, <1>3
  <2>1. Below(b) \cup {b} \in SUBSET Below(d) /\ b \notin Below(b)
    BY <2>b, <2>c
  <2>2. Cardinality(Below(b) \cup {b}) = Cardinality(Below(b)) + 1
    BY <1>2, <2>1, FS_AddElement
  <2>5. IsFiniteSet(Below(d))
    BY <1>2
  <2>3. Cardinality(Below(b) \cup {b}) <= Cardinality(Below(d))
    BY <2>5, <2>1, FS_Subset
  <2>6. IsFiniteSet(Below(b))
    BY <1>2
  <2> HIDE DEF Below
  <2>4. Cardinality(Below(b)) \in Nat /\ Cardinality(Below(d)) \in Nat
    BY <2>5, <2>6, FS_CardinalityType
  <2> QED
    BY <2>2, <2>3, <2>4
<1>4. rank \in Injection(mask, 0 .. n - 1)
  <2>1. rank \in [mask -> 0 .. n - 1]
    BY <1>2
  <2>2. ASSUME NEW b \in mask, NEW d \in mask, rank[b] = rank[d] PROVE b = d
    <3>1. b \in Nat /\ d \in Nat /\ rank[b] \in Nat /\ rank[d] \in Nat
      BY <1>1, <1>2
    <3>2. b < d => rank[b] < rank[d]
      BY <1>3
    <3>3. d < b => rank[d] < rank[b]
      BY <1>3
    <3> QED
      BY <2>2, <3>1, <3>2, <3>3
  <2> QED
    BY <2>1, <2>2 DEF Injection, IsInjective
<1>5. IsFiniteSet(0 .. n - 1) /\ Cardinality(0 .. n - 1) = n
  BY <1>1, FS_Interval
<1>6. rank \in Surjection(mask, 0 .. n - 1)
  BY <1>4, <1>5, FS_Injection
<1>7. ASSUME NEW k \in 1 .. n
      PROVE  \E b \in mask : Cardinality({c \in mask : c < b}) = k - 1
  <2>1. k - 1 \in 0 .. n - 1
    BY <1>1
  <2> QED
    BY <1>6, <2>1 DEF Surjection
<1>8. \A k \in 1 .. n :
        pkts[CHOOSE b \in mask : Cardinality({c \in mask : c < b}) = k - 1] \in Packets
  BY <1>7
<1>9. Gathered(pkts) = [k \in 1 .. n |->
        pkts[CHOOSE b \in mask : Cardinality({c \in mask : c < b}) = k - 1]]
  BY <1>1 DEF Gathered
<1> DEFINE e(k) == pkts[CHOOSE b \in mask : Cardinality({c \in mask : c < b}) = k - 1]
<1> HIDE DEF n, e
<1>10. /\ [k \in 1 .. n |-> e(k)] \in Seq(Packets)
       /\ Len([k \in 1 .. n |-> e(k)]) = n
  <2>1. \A k \in 1 .. n : e(k) \in Packets
    BY <1>8 DEF e
  <2> QED
    BY <1>1, <2>1
<1> QED
  BY <1>9, <1>10 DEF n, e

-----------------------------------------------------------------------------
(***************************************************************************)
(* The inductive invariant: where packets may be in each phase of a call.  *)
(* A direct burst waits while the buffer is sent, and only then; nb_tx     *)
(* counts packets of the buffer that are in the ring, during retries only. *)
(***************************************************************************)
PhaseInv ==
    /\ Len(ring) <= Capacity
    /\ Len(burst) <= BurstMax
    /\ burst # <<>> => pc = "direct" \/ (pc \in {"send", "retry"} /\ then = "direct")
    /\ then # "return" => pc \in {"send", "retry"}
    /\ pc = "retry" => nb_tx < Len(tx_buf)
    /\ pc # "retry" => nb_tx = 0

Inv == TypeOK /\ BufferFits /\ PhaseInv

LEMMA TakenFacts ==
    ASSUME Inv, NEW s \in Seq(Packets)
    PROVE  /\ Taken(s) \in 0 .. Len(s)
           /\ Len(ring) + Taken(s) <= Capacity
           /\ Taken(s) < Len(s) => Len(ring) + Taken(s) = Capacity
  BY WriterAssumption DEF Inv, TypeOK, PhaseInv, Taken

LEMMA RestFacts ==
    ASSUME NEW S, NEW s \in Seq(S), NEW n \in 0 .. Len(s)
    PROVE  /\ First(s, n) \in Seq(S) /\ Len(First(s, n)) = n
           /\ Rest(s, n) \in Seq(S) /\ Len(Rest(s, n)) = Len(s) - n
  BY DEF First, Rest

\* Sending n packets to a ring that has room for them.
LEMMA RingStep ==
    ASSUME Inv, NEW s \in Seq(Packets), NEW n \in 0 .. Len(s), n = Taken(s),
           ring' = ring \o First(s, n)
    PROVE  ring' \in Seq(Packets \cup {Foreign}) /\ Len(ring') = Len(ring) + n /\ Len(ring') <= Capacity
<1>1. First(s, n) \in Seq(Packets) /\ Len(First(s, n)) = n
  BY RestFacts
<1>2. Len(ring) + n <= Capacity /\ ring \in Seq(Packets \cup {Foreign})
  BY TakenFacts DEF Inv, TypeOK
<1>3. First(s, n) \in Seq(Packets \cup {Foreign})
  BY <1>1
<1> QED
  BY <1>1, <1>2, <1>3

\* The end of a send leaves the phases in order.
LEMMA EndSendKeepsInv ==
    ASSUME Inv, EndSend, pc \in {"send", "retry"}, UNCHANGED <<port, burst>>,
           ring' \in Seq(Packets \cup {Foreign}), Len(ring') <= Capacity
    PROVE  Inv'
<1>1. port.tx_burst_sz \in 1 .. BurstMax /\ BurstMax \in Nat \ {0}
  BY WriterAssumption DEF Inv, TypeOK
<1>2. TypeOK'
  BY DEF Inv, TypeOK, EndSend
<1>3. BufferFits'
  BY <1>1 DEF Inv, TypeOK, BufferFits, EndSend
<1>4. PhaseInv'
  BY DEF Inv, TypeOK, PhaseInv, EndSend
<1> QED
  BY <1>2, <1>3, <1>4 DEF Inv

LEMMA InitInv == Init => Inv
<1> SUFFICES ASSUME Init PROVE Inv
  OBVIOUS
<1>1. port.tx_burst_sz \in 1 .. BurstMax /\ BurstMax \in Nat \ {0} /\ Capacity \in Nat
  BY WriterAssumption DEF Init
<1> QED
  BY <1>1 DEF Init, Inv, TypeOK, BufferFits, PhaseInv

LEMMA NextInv == Inv /\ [Next]_vars => Inv'
<1> SUFFICES ASSUME Inv, [Next]_vars PROVE Inv'
  OBVIOUS
<1> USE DEF Inv
<1>c. /\ port.tx_burst_sz \in 1 .. BurstMax /\ BurstMax \in Nat \ {0}
      /\ Capacity \in Nat \ {0} /\ ReadBurst \in Nat \ {0} /\ CounterRange \in Nat \ {0}
  BY WriterAssumption DEF TypeOK
<1>1. ASSUME NEW pkt \in Packets, rte_port_ring_writer_tx(pkt) PROVE Inv'
  <2>1. tx_buf' \in Seq(Packets) /\ Len(tx_buf') = Len(tx_buf) + 1
    BY <1>1 DEF rte_port_ring_writer_tx, TypeOK
  <2>2. TypeOK'
    BY <1>1, <2>1 DEF rte_port_ring_writer_tx, TypeOK, local
  <2>3. BufferFits'
    BY <1>1, <1>c, <2>1 DEF rte_port_ring_writer_tx, TypeOK, BufferFits, local
  <2>4. PhaseInv'
    BY <1>1, <2>1 DEF rte_port_ring_writer_tx, TypeOK, PhaseInv, local
  <2> QED
    BY <2>2, <2>3, <2>4
<1>2. ASSUME NEW mask \in Masks, NEW pkts \in [mask -> Packets], TxBulkWhole(pkts) PROVE Inv'
  <2>1. /\ FirstPackets(pkts) \in Seq(Packets)
        /\ Len(FirstPackets(pkts)) <= BurstMax
    <3>1. IsPrefixMask(mask)
      BY <1>2 DEF TxBulkWhole, WholeBurst
    <3> QED
      BY <3>1, <1>c, FirstPacketsFacts, MaskFacts
  <2>2. TypeOK'
    BY <1>2, <2>1 DEF TxBulkWhole, TypeOK
  <2>3. BufferFits'
    BY <1>2, <1>c, <2>1 DEF TxBulkWhole, TypeOK, BufferFits
  <2>4. PhaseInv'
    BY <1>2, <2>1 DEF TxBulkWhole, TypeOK, PhaseInv
  <2> QED
    BY <2>2, <2>3, <2>4
<1>3. ASSUME NEW mask \in Masks, NEW pkts \in [mask -> Packets], TxBulkBuffered(pkts) PROVE Inv'
  <2>1. /\ Gathered(pkts) \in Seq(Packets)
        /\ Len(Gathered(pkts)) <= BurstMax
    BY <1>c, GatheredFacts, MaskFacts
  <2>2. tx_buf' \in Seq(Packets) /\ Len(tx_buf') <= Len(tx_buf) + BurstMax /\ pc = "idle"
    BY <1>3, <1>c, <2>1 DEF TxBulkBuffered, TypeOK
  <2>3. TypeOK'
    BY <1>3, <2>2 DEF TxBulkBuffered, TypeOK, local
  <2>4. BufferFits'
    BY <1>3, <1>c, <2>2 DEF TxBulkBuffered, TypeOK, BufferFits, local
  <2>5. PhaseInv'
    BY <1>3, <2>2 DEF TxBulkBuffered, TypeOK, PhaseInv, local
  <2> QED
    BY <2>3, <2>4, <2>5
<1>4. CASE rte_port_ring_writer_flush
  <2>1. TypeOK'
    BY <1>4 DEF rte_port_ring_writer_flush, TypeOK, local
  <2>2. BufferFits' /\ PhaseInv'
    BY <1>4 DEF rte_port_ring_writer_flush, TypeOK, BufferFits, PhaseInv, local
  <2> QED
    BY <2>1, <2>2
<1>5. CASE rte_port_ring_writer_free
  <2>1. TypeOK'
    BY <1>5 DEF rte_port_ring_writer_free, TypeOK
  <2>2. BufferFits' /\ PhaseInv'
    BY <1>5 DEF rte_port_ring_writer_free, TypeOK, BufferFits, PhaseInv
  <2> QED
    BY <2>1, <2>2
<1>6. CASE send_burst
  <2>1. tx_buf \in Seq(Packets)
    BY DEF TypeOK
  <2>2. /\ Taken(tx_buf) \in 0 .. Len(tx_buf)
        /\ ring' \in Seq(Packets \cup {Foreign}) /\ Len(ring') <= Capacity
    BY <1>6, <2>1, TakenFacts, RingStep DEF send_burst
  <2>3. CASE EndSend
    BY <1>6, <2>2, <2>3, EndSendKeepsInv DEF send_burst
  <2>4. CASE /\ Taken(tx_buf) < Len(tx_buf)
             /\ nb_tx' = Taken(tx_buf) /\ i' = 0 /\ pc' = "retry" /\ UNCHANGED <<tx_buf, then>>
    <3>1. TypeOK'
      BY <1>6, <2>2, <2>4 DEF send_burst, TypeOK
    <3>2. BufferFits'
      BY <1>6, <2>4 DEF send_burst, TypeOK, BufferFits
    <3>3. PhaseInv'
      BY <1>6, <2>2, <2>4 DEF send_burst, TypeOK, PhaseInv
    <3> QED
      BY <3>1, <3>2, <3>3
  <2> QED
    BY <1>6, <2>3, <2>4 DEF send_burst
<1>7. CASE Retry
  <2> DEFINE s == Rest(tx_buf, nb_tx)
             n == Taken(s)
  <2>1. /\ tx_buf \in Seq(Packets) /\ nb_tx \in 0 .. Len(tx_buf)
        /\ s \in Seq(Packets) /\ Len(s) = Len(tx_buf) - nb_tx
    BY <1>7, RestFacts DEF Retry, TypeOK, PhaseInv
  <2>2. n \in 0 .. Len(s) /\ ring' = ring \o First(s, n)
    BY <1>7, <2>1, TakenFacts DEF Retry
  <2> HIDE DEF s
  <2>3. ring' \in Seq(Packets \cup {Foreign}) /\ Len(ring') <= Capacity
    BY <2>1, <2>2, RingStep
  <2>4. CASE EndSend
    BY <1>7, <2>3, <2>4, EndSendKeepsInv DEF Retry
  <2>5. CASE /\ nb_tx + n < Len(tx_buf)
             /\ nb_tx' = nb_tx + n /\ i' = (i + 1) % CounterRange /\ UNCHANGED <<tx_buf, then, pc>>
    <3> HIDE DEF n
    <3>a. pc = "retry" /\ UNCHANGED <<port, burst>>
      BY <1>7 DEF Retry
    <3>b. nb_tx' \in Nat /\ i' \in Nat
      BY <2>1, <2>2, <2>5, <1>c DEF TypeOK
    <3>1. TypeOK'
      BY <3>a, <3>b, <2>3, <2>5 DEF TypeOK
    <3>2. BufferFits'
      BY <3>a, <2>5 DEF TypeOK, BufferFits
    <3>3. PhaseInv'
      BY <3>a, <2>3, <2>5 DEF TypeOK, PhaseInv
    <3> QED
      BY <3>1, <3>2, <3>3
  <2> QED
    BY <1>7, <2>4, <2>5 DEF Retry, s
<1>8. CASE SendDirect
  <2>1. burst \in Seq(Packets) /\ tx_buf = <<>> /\ pc = "direct"
    BY <1>8 DEF SendDirect, TypeOK, BufferFits
  <2>2. /\ Taken(burst) \in 0 .. Len(burst)
        /\ ring' \in Seq(Packets \cup {Foreign}) /\ Len(ring') <= Capacity
    BY <1>8, <2>1, TakenFacts, RingStep DEF SendDirect
  <2>3. /\ Rest(burst, Taken(burst)) \in Seq(Packets)
        /\ Len(Rest(burst, Taken(burst))) <= BurstMax
    BY <1>c, <2>1, <2>2, RestFacts DEF PhaseInv
  <2>a. <<>> \o Rest(burst, Taken(burst)) = Rest(burst, Taken(burst))
    BY <2>3, ConcatEmptySeq
  <2>4. /\ tx_buf' \in Seq(Packets) /\ Len(tx_buf') <= BurstMax
        /\ pc' \in {"idle", "send"} /\ (pc' = "idle" => tx_buf' = <<>>)
    <3> HIDE DEF Inv
    <3>1. CASE tx_buf' = tx_buf /\ pc' = "idle"
      BY <3>1, <1>c, <2>1
    <3>2. CASE tx_buf' = tx_buf \o Rest(burst, Taken(burst)) /\ pc' = "send"
      BY <3>2, <2>1, <2>3, <2>a
    <3> QED
      BY <1>8, <3>1, <3>2 DEF SendDirect
  <2>5. TypeOK'
    BY <1>8, <2>2, <2>4 DEF SendDirect, TypeOK
  <2>6. BufferFits'
    BY <1>8, <1>c, <2>4 DEF SendDirect, BufferFits
  <2>7. PhaseInv'
    BY <1>8, <1>c, <2>1, <2>2, <2>4 DEF SendDirect, TypeOK, PhaseInv
  <2> QED
    BY <2>5, <2>6, <2>7
<1>9. CASE rte_port_ring_reader_rx
  <2>1. ring' \in Seq(Packets \cup {Foreign}) /\ Len(ring') <= Len(ring)
    BY <1>9, <1>c DEF rte_port_ring_reader_rx, Rest, TypeOK
  <2>2. TypeOK'
    BY <1>9, <2>1 DEF rte_port_ring_reader_rx, TypeOK, local
  <2>3. BufferFits' /\ PhaseInv'
    BY <1>9, <1>c, <2>1 DEF rte_port_ring_reader_rx, TypeOK, BufferFits, PhaseInv, local
  <2> QED
    BY <2>2, <2>3
<1>10. CASE OtherWriter
  <2>1. ring' \in Seq(Packets \cup {Foreign}) /\ Len(ring') <= Capacity
    BY <1>10, <1>c DEF OtherWriter, TypeOK
  <2>2. TypeOK'
    BY <1>10, <2>1 DEF OtherWriter, TypeOK, local
  <2>3. BufferFits' /\ PhaseInv'
    BY <1>10, <1>c, <2>1 DEF OtherWriter, TypeOK, BufferFits, PhaseInv, local
  <2> QED
    BY <2>2, <2>3
<1>11. CASE UNCHANGED vars
  BY <1>11 DEF vars, TypeOK, BufferFits, PhaseInv
<1> QED
  BY <1>1, <1>2, <1>3, <1>4, <1>5, <1>6, <1>7, <1>8, <1>9, <1>10, <1>11
  DEF Next, WriterStep, rte_port_ring_writer_tx_bulk

LEMMA AlwaysInv == Spec => []Inv
  BY InitInv, NextInv, PTL DEF Spec

(***************************************************************************)
(* Every variable keeps its type, for all parameters.                      *)
(***************************************************************************)
THEOREM AlwaysTypeOK == Spec => []TypeOK
  BY AlwaysInv, PTL DEF Inv

(***************************************************************************)
(* tx_buf is never overrun, whatever the burst size, the mask and the      *)
(* state of the ring.                                                      *)
(***************************************************************************)
THEOREM AlwaysBufferFits == Spec => []BufferFits
  BY AlwaysInv, PTL DEF Inv

-----------------------------------------------------------------------------
(***************************************************************************)
(* Prefixes and suffixes of the packets that are waiting.                  *)
(***************************************************************************)
LEMMA FirstOfConcat ==
    ASSUME NEW S, NEW s \in Seq(S), NEW t \in Seq(S), NEW k \in 0 .. Len(s)
    PROVE  SubSeq(s \o t, 1, k) = First(s, k)
<1>1. /\ SubSeq(s \o t, 1, k) \in Seq(S) /\ Len(SubSeq(s \o t, 1, k)) = k
      /\ First(s, k) \in Seq(S) /\ Len(First(s, k)) = k
  BY DEF First
<1>2. \A j \in 1 .. k : SubSeq(s \o t, 1, k)[j] = First(s, k)[j]
  BY DEF First
<1> QED
  BY <1>1, <1>2, SeqEqual

LEMMA RestOfConcat ==
    ASSUME NEW S, NEW s \in Seq(S), NEW t \in Seq(S), NEW k \in 0 .. Len(s)
    PROVE  SubSeq(s \o t, k + 1, Len(s \o t)) = Rest(s, k) \o t
<1> DEFINE l == SubSeq(s \o t, k + 1, Len(s \o t))
           r == Rest(s, k) \o t
<1>1. s \o t \in Seq(S) /\ Len(s \o t) = Len(s) + Len(t)
  OBVIOUS
<1>2. Rest(s, k) \in Seq(S) /\ Len(Rest(s, k)) = Len(s) - k
  BY RestFacts
<1>3. l \in Seq(S) /\ Len(l) = Len(s) + Len(t) - k
  BY <1>1
<1>4. r \in Seq(S) /\ Len(r) = Len(s) + Len(t) - k
  BY <1>2
<1>5. ASSUME NEW j \in 1 .. Len(s) + Len(t) - k PROVE l[j] = r[j]
  <2>1. l[j] = (s \o t)[j + k]
    BY <1>1
  <2>2. CASE j <= Len(s) - k
    <3>1. (s \o t)[j + k] = s[j + k] /\ r[j] = Rest(s, k)[j]
      BY <1>2, <2>2
    <3>2. Rest(s, k)[j] = s[j + k]
      BY <2>2 DEF Rest
    <3> QED
      BY <2>1, <3>1, <3>2
  <2>3. CASE j > Len(s) - k
    <3>1. (s \o t)[j + k] = t[j + k - Len(s)] /\ r[j] = t[j - (Len(s) - k)]
      BY <1>2, <2>3
    <3>2. j + k - Len(s) = j - (Len(s) - k)
      BY Len(s) \in Nat
    <3> QED
      BY <2>1, <3>1, <3>2
  <2> HIDE DEF l, r
  <2>4. j <= Len(s) - k \/ j > Len(s) - k
    BY Len(s) \in Nat
  <2> QED
    BY <2>2, <2>3, <2>4
<1> HIDE DEF l, r
<1>6. l = r
  BY <1>3, <1>4, <1>5, SeqEqual
<1> QED
  BY <1>6 DEF l, r

LEMMA RestOfRest ==
    ASSUME NEW S, NEW s \in Seq(S), NEW k \in 0 .. Len(s), NEW n \in 0 .. Len(s) - k
    PROVE  Rest(Rest(s, k), n) = Rest(s, k + n)
<1>1. Rest(s, k) \in Seq(S) /\ Len(Rest(s, k)) = Len(s) - k
  BY RestFacts
<1>2. Rest(Rest(s, k), n) \in Seq(S) /\ Len(Rest(Rest(s, k), n)) = Len(s) - k - n
  <2> DEFINE u == Rest(s, k)
  <2>1. n \in 0 .. Len(u) /\ u \in Seq(S)
    BY <1>1
  <2> HIDE DEF u
  <2>2. Rest(u, n) \in Seq(S) /\ Len(Rest(u, n)) = Len(u) - n
    BY <2>1, RestFacts
  <2> QED
    BY <1>1, <2>2 DEF u
<1>4. Rest(s, k + n) \in Seq(S) /\ Len(Rest(s, k + n)) = Len(s) - k - n
  <2>1. k + n \in 0 .. Len(s)
    OBVIOUS
  <2>2. Rest(s, k + n) \in Seq(S) /\ Len(Rest(s, k + n)) = Len(s) - (k + n)
    BY <2>1, RestFacts
  <2> QED
    BY <2>2
<1>3. ASSUME NEW j \in 1 .. Len(s) - k - n
      PROVE  Rest(Rest(s, k), n)[j] = Rest(s, k + n)[j]
  <2>1. Rest(Rest(s, k), n)[j] = Rest(s, k)[n + j]
    BY <1>1 DEF Rest
  <2>2. Rest(s, k)[n + j] = s[k + n + j]
    BY DEF Rest
  <2>3. Rest(s, k + n)[j] = s[k + n + j]
    BY DEF Rest
  <2> QED
    BY <2>1, <2>2, <2>3
<1> QED
  BY <1>2, <1>3, <1>4, SeqEqual

LEMMA RestOfAll ==
    ASSUME NEW S, NEW s \in Seq(S)
    PROVE  Rest(s, Len(s)) = <<>> /\ Rest(s, 0) = s
  BY SubSeqFull, SubSeqEmpty DEF Rest

-----------------------------------------------------------------------------
(***************************************************************************)
(* The writer implements PacketChannel: every step of the port hands       *)
(* packets over, moves the next ones to the queue, or changes nothing that *)
(* the channel shows.                                                      *)
(***************************************************************************)
Backlog == Rest(tx_buf, nb_tx) \o burst

\* Sending from s, the packets that go first, and giving up what is left of it or nothing.
LEMMA TransferStep ==
    ASSUME Inv, NEW s \in Seq(Packets), NEW t \in Seq(Packets), NEW l \in {0, Len(s) - Taken(s)},
           Backlog = s \o t,
           l > 0 => ~EndlessRetries,
           ring' = ring \o First(s, Taken(s)),
           Backlog' = Rest(s, Taken(s) + l) \o t,
           port' = port
    PROVE  Channel!Next
<1> DEFINE k == Taken(s)
<1>1. /\ k \in 0 .. Len(s) /\ Len(ring) + k <= Capacity
      /\ k < Len(s) => Len(ring) + k = Capacity
  BY TakenFacts
<1> HIDE DEF k
<1>2. k + l \in 0 .. Len(s) /\ l \in 0 .. Len(s) - k /\ (l > 0 => k < Len(s))
  BY <1>1 DEF k
<1>3. SubSeq(Backlog, 1, k) = First(s, k)
  BY <1>1, FirstOfConcat
<1>4. SubSeq(Backlog, k + l + 1, Len(Backlog)) = Rest(s, k + l) \o t
  BY <1>2, RestOfConcat
<1>5. k \in 0 .. Len(Backlog) /\ l \in 0 .. Len(Backlog) - k
  <2>1. Len(Backlog) = Len(s) + Len(t)
    OBVIOUS
  <2> QED
    BY <1>1, <1>2, <2>1
<1>6. EndlessRetries' = EndlessRetries
  BY DEF EndlessRetries, n_retries
<1>7. Channel!Transfer(k, l)
  <2>1. Len(ring) + k <= Capacity /\ (l > 0 => ~EndlessRetries /\ Len(ring) + k = Capacity)
    BY <1>1, <1>2
  <2>2. ring' = ring \o SubSeq(Backlog, 1, k)
    BY <1>3 DEF k
  <2>3. Backlog' = SubSeq(Backlog, k + l + 1, Len(Backlog))
    BY <1>4 DEF k
  <2> QED
    BY <1>6, <2>1, <2>2, <2>3 DEF Channel!Transfer, Backlog
<1> QED
  BY <1>5, <1>7 DEF Channel!Next, Backlog

LEMMA AcceptStep ==
    ASSUME NEW b \in Seq(Packets), Len(b) \in 1 .. BurstMax,
           Backlog' = Backlog \o b, ring' = ring, port' = port
    PROVE  Channel!Next
<1>1. b \in Channel!Bursts
  <2>1. b \in [1 .. Len(b) -> Packets]
    OBVIOUS
  <2> QED
    BY <2>1 DEF Channel!Bursts
<1>2. EndlessRetries' = EndlessRetries
  BY DEF EndlessRetries, n_retries
<1>3. Channel!Accept(b)
  BY <1>2 DEF Channel!Accept, Backlog
<1> QED
  BY <1>1, <1>3 DEF Channel!Next

\* A send that ends has put packets into the ring or given them up; a retry goes on with the rest.
LEMMA SendStep ==
    ASSUME Inv, pc \in {"send", "retry"}, port' = port, burst' = burst,
           ring' = ring \o First(Rest(tx_buf, nb_tx), Taken(Rest(tx_buf, nb_tx))),
           \/ /\ tx_buf' = <<>> /\ nb_tx' = 0
              /\ Taken(Rest(tx_buf, nb_tx)) = Len(Rest(tx_buf, nb_tx)) \/ ~EndlessRetries
           \/ tx_buf' = tx_buf /\ nb_tx' = nb_tx + Taken(Rest(tx_buf, nb_tx))
    PROVE  Channel!Next
<1> DEFINE s == Rest(tx_buf, nb_tx)
           k == Taken(s)
<1>1. tx_buf \in Seq(Packets) /\ burst \in Seq(Packets) /\ nb_tx \in 0 .. Len(tx_buf)
  BY DEF Inv, TypeOK, PhaseInv
<1>2. s \in Seq(Packets) /\ Len(s) = Len(tx_buf) - nb_tx
  BY <1>1, RestFacts
<1>3. k \in 0 .. Len(s)
  BY <1>2, TakenFacts
<1>4. Backlog = s \o burst
  BY DEF Backlog
<1>5. CASE /\ tx_buf' = <<>> /\ nb_tx' = 0
           /\ k = Len(s) \/ ~EndlessRetries
  <2>1. Backlog' = Rest(<<>>, 0) \o burst
    BY <1>5 DEF Backlog
  <2>2. Rest(<<>>, 0) = <<>>
    BY EmptySeq, RestOfAll
  <2>3. Rest(s, Len(s)) = <<>>
    BY <1>2, RestOfAll
  <2> HIDE DEF s
  <2>4. k + (Len(s) - k) = Len(s) /\ (Len(s) - k > 0 => ~EndlessRetries)
    BY <1>2, <1>3, <1>5
  <2>5. Backlog' = Rest(s, k + (Len(s) - k)) \o burst
    BY <2>1, <2>2, <2>3, <2>4
  <2>6. ring' = ring \o First(s, k)
    BY DEF s
  <2> QED
    BY <1>1, <1>2, <1>4, <2>4, <2>5, <2>6, TransferStep
<1>6. CASE tx_buf' = tx_buf /\ nb_tx' = nb_tx + k
  <2>1. Backlog' = Rest(tx_buf, nb_tx + k) \o burst
    BY <1>6 DEF Backlog
  <2>2. Rest(tx_buf, nb_tx + k) = Rest(s, k)
    BY <1>1, <1>2, <1>3, RestOfRest
  <2> HIDE DEF s
  <2>3. k + 0 = k
    BY <1>2, <1>3
  <2>4. ring' = ring \o First(s, k)
    BY DEF s
  <2>5. Backlog' = Rest(s, k + 0) \o burst /\ 0 \in {0, Len(s) - k} /\ ~(0 > 0)
    BY <2>1, <2>2, <2>3
  <2> QED
    BY <1>1, <1>2, <1>4, <2>4, <2>5, TransferStep
<1> QED
  BY <1>5, <1>6

LEMMA DirectStep ==
    ASSUME Inv, SendDirect
    PROVE  Channel!Next
<1> DEFINE k == Taken(burst)
<1>1. burst \in Seq(Packets) /\ tx_buf = <<>> /\ nb_tx = 0 /\ nb_tx' = 0 /\ burst' = <<>> /\ port' = port
  BY DEF Inv, TypeOK, BufferFits, PhaseInv, SendDirect
<1>2. k \in 0 .. Len(burst)
  BY <1>1, TakenFacts
<1>3. <<>> \in Seq(Packets) /\ Rest(<<>>, 0) = <<>>
  BY EmptySeq, RestOfAll
<1>4. burst \o <<>> = burst /\ <<>> \o burst = burst
  BY <1>1, ConcatEmptySeq
<1>5. Backlog = burst \o <<>>
  BY <1>1, <1>3, <1>4 DEF Backlog
<1>6. ring' = ring \o First(burst, k)
  BY DEF SendDirect
<1>7. CASE (k = Len(burst) \/ ~port.nodrop) /\ UNCHANGED tx_buf
  <2>1. k + (Len(burst) - k) = Len(burst) /\ (Len(burst) - k > 0 => ~EndlessRetries)
    BY <1>1, <1>2, <1>7 DEF EndlessRetries
  <2>2. Backlog' = Rest(<<>>, 0) \o <<>>
    BY <1>1, <1>7 DEF Backlog
  <2>3. Rest(burst, Len(burst)) = <<>>
    BY <1>1, RestOfAll
  <2>4. Backlog' = Rest(burst, k + (Len(burst) - k)) \o <<>>
    BY <1>3, <2>1, <2>2, <2>3
  <2> QED
    BY <1>1, <1>3, <1>5, <1>6, <2>1, <2>4, TransferStep
<1>8. CASE tx_buf' = tx_buf \o Rest(burst, k)
  <2> DEFINE r == Rest(burst, k)
  <2>1. r \in Seq(Packets)
    BY <1>1, <1>2, RestFacts
  <2> HIDE DEF r
  <2>2. <<>> \o r = r /\ Rest(r, 0) = r
    BY <2>1, ConcatEmptySeq, RestOfAll
  <2>3. tx_buf' = r
    BY <1>1, <1>8, <2>2 DEF r
  <2>4. Backlog' = r \o <<>>
    BY <1>1, <2>2, <2>3 DEF Backlog
  <2>5. k + 0 = k
    BY <1>1, <1>2
  <2>6. Backlog' = Rest(burst, k + 0) \o <<>> /\ 0 \in {0, Len(burst) - k} /\ ~(0 > 0)
    BY <2>4, <2>5 DEF r
  <2> QED
    BY <1>1, <1>3, <1>5, <1>6, <2>6, TransferStep
<1> QED
  BY <1>7, <1>8 DEF SendDirect

\* Between calls the backlog is tx_buf.
LEMMA IdleBacklog ==
    ASSUME Inv, pc = "idle"
    PROVE  /\ tx_buf \in Seq(Packets) /\ nb_tx = 0 /\ burst = <<>>
           /\ Backlog = tx_buf
<1>1. tx_buf \in Seq(Packets) /\ nb_tx = 0 /\ burst = <<>>
  BY DEF Inv, TypeOK, PhaseInv
<1>2. Rest(tx_buf, 0) = tx_buf /\ tx_buf \o <<>> = tx_buf
  BY <1>1, RestOfAll, ConcatEmptySeq
<1> QED
  BY <1>1, <1>2 DEF Backlog

LEMMA StepRefines ==
    ASSUME Inv, [Next]_vars
    PROVE  Channel!Next \/ UNCHANGED Channel!vars
<1>c. /\ BurstMax \in Nat \ {0} /\ Capacity \in Nat \ {0} /\ ReadBurst \in Nat \ {0}
      /\ CounterRange \in Nat \ {0}
  BY WriterAssumption
<1>r. port' = port => EndlessRetries' = EndlessRetries
  BY DEF EndlessRetries, n_retries
<1>1. ASSUME NEW pkt \in Packets, rte_port_ring_writer_tx(pkt) PROVE Channel!Next
  <2>1. /\ tx_buf \in Seq(Packets) /\ nb_tx' = 0 /\ burst' = <<>> /\ ring' = ring /\ port' = port
        /\ Backlog = tx_buf /\ tx_buf' = Append(tx_buf, pkt)
    BY <1>1, IdleBacklog DEF rte_port_ring_writer_tx, local
  <2>2. tx_buf' \in Seq(Packets) /\ tx_buf' = tx_buf \o <<pkt>>
    BY <2>1
  <2>3. Rest(tx_buf', 0) = tx_buf' /\ tx_buf' \o <<>> = tx_buf'
    BY <2>2, RestOfAll, ConcatEmptySeq
  <2>4. Backlog' = Backlog \o <<pkt>>
    BY <2>1, <2>2, <2>3 DEF Backlog
  <2>5. <<pkt>> \in Seq(Packets) /\ Len(<<pkt>>) \in 1 .. BurstMax
    BY <1>c
  <2> QED
    BY <2>1, <2>4, <2>5, AcceptStep
<1>2. ASSUME NEW mask \in Masks, NEW pkts \in [mask -> Packets], TxBulkWhole(pkts)
      PROVE  Channel!Next
  <2>1. /\ tx_buf \in Seq(Packets) /\ nb_tx = 0 /\ nb_tx' = 0 /\ ring' = ring /\ port' = port
        /\ Backlog = tx_buf /\ tx_buf' = tx_buf /\ burst' = FirstPackets(pkts)
    BY <1>2, IdleBacklog DEF TxBulkWhole
  <2>2. FirstPackets(pkts) \in Seq(Packets) /\ Len(FirstPackets(pkts)) \in 1 .. BurstMax
    <3>1. IsPrefixMask(mask)
      BY <1>2 DEF TxBulkWhole, WholeBurst
    <3> QED
      BY <3>1, FirstPacketsFacts, MaskFacts
  <2>3. Rest(tx_buf, 0) = tx_buf
    BY <2>1, RestOfAll
  <2>4. Backlog' = Backlog \o FirstPackets(pkts)
    BY <2>1, <2>3 DEF Backlog
  <2> QED
    BY <2>1, <2>2, <2>4, AcceptStep
<1>3. ASSUME NEW mask \in Masks, NEW pkts \in [mask -> Packets], TxBulkBuffered(pkts)
      PROVE  Channel!Next
  <2>1. /\ tx_buf \in Seq(Packets) /\ nb_tx' = 0 /\ burst' = <<>> /\ ring' = ring /\ port' = port
        /\ Backlog = tx_buf /\ tx_buf' = tx_buf \o Gathered(pkts)
    BY <1>3, IdleBacklog DEF TxBulkBuffered, local
  <2>2. Gathered(pkts) \in Seq(Packets) /\ Len(Gathered(pkts)) \in 1 .. BurstMax
    BY GatheredFacts, MaskFacts
  <2>3. tx_buf' \in Seq(Packets)
    BY <2>1, <2>2
  <2>4. Rest(tx_buf', 0) = tx_buf' /\ tx_buf' \o <<>> = tx_buf'
    BY <2>3, RestOfAll, ConcatEmptySeq
  <2>5. Backlog' = Backlog \o Gathered(pkts)
    BY <2>1, <2>4 DEF Backlog
  <2> QED
    BY <2>1, <2>2, <2>5, AcceptStep
<1>4. CASE rte_port_ring_writer_flush \/ rte_port_ring_writer_free \/ UNCHANGED vars
  <2>1. UNCHANGED <<port, tx_buf, ring, burst, nb_tx>>
    BY <1>4 DEF rte_port_ring_writer_flush, rte_port_ring_writer_free, vars, local
  <2> QED
    BY <1>r, <2>1 DEF Channel!vars
<1>5. CASE send_burst
  <2>1. tx_buf \in Seq(Packets) /\ nb_tx = 0 /\ pc = "send"
    BY <1>5 DEF Inv, TypeOK, PhaseInv, send_burst
  <2>2. Rest(tx_buf, nb_tx) = tx_buf /\ Taken(tx_buf) \in 0 .. Len(tx_buf)
    BY <2>1, RestOfAll, TakenFacts
  <2>3. ~port.nodrop => ~EndlessRetries
    BY DEF EndlessRetries
  <2>4. nb_tx + Taken(tx_buf) = Taken(tx_buf)
    BY <2>1, <2>2
  <2> QED
    BY <1>5, <2>1, <2>2, <2>3, <2>4, SendStep DEF send_burst, EndSend
<1>6. CASE Retry
  <2> DEFINE s == Rest(tx_buf, nb_tx)
  <2>1. /\ tx_buf \in Seq(Packets) /\ nb_tx \in 0 .. Len(tx_buf) /\ i \in Nat
        /\ s \in Seq(Packets) /\ Len(s) = Len(tx_buf) - nb_tx
    BY <1>6, RestFacts DEF Retry, Inv, TypeOK, PhaseInv
  <2>2. Taken(s) \in 0 .. Len(s)
    BY <2>1, TakenFacts
  <2>3. (i + 1) % CounterRange < CounterRange /\ (i + 1) % CounterRange \in Nat
    BY <1>c, <2>1
  <2>n. n_retries \in Int
    <3>1. CounterRange * CounterRange \in Int
      BY <1>c
    <3>2. port.n_retries \in Nat
      BY WriterAssumption DEF Inv, TypeOK
    <3> QED
      BY <3>1, <3>2 DEF n_retries
  <2>4. (i + 1) % CounterRange >= n_retries => ~EndlessRetries
    BY <1>c, <2>3, <2>n DEF EndlessRetries
  <2>5. nb_tx + Taken(s) = Len(tx_buf) => Taken(s) = Len(s)
    BY <2>1, <2>2
  <2> QED
    BY <1>6, <2>4, <2>5, SendStep DEF Retry, EndSend
<1>7. CASE SendDirect
  BY <1>7, DirectStep
<1>8. CASE rte_port_ring_reader_rx
  <2> DEFINE n == IF Len(ring) <= ReadBurst THEN Len(ring) ELSE ReadBurst
  <2>1. ring # <<>> /\ ring' = Rest(ring, n) /\ UNCHANGED <<port, tx_buf, burst, nb_tx>>
    BY <1>8 DEF rte_port_ring_reader_rx, local
  <2>2. n \in 1 .. Capacity /\ n <= Len(ring)
    BY <1>c, <2>1 DEF Inv, TypeOK, PhaseInv
  <2> HIDE DEF n
  <2>3. Channel!Deliver(n)
    BY <1>r, <2>1, <2>2 DEF Channel!Deliver, Rest
  <2> QED
    BY <2>2, <2>3 DEF Channel!Next
<1>9. CASE OtherWriter
  <2>1. /\ Len(ring) < Capacity /\ ring' = Append(ring, Foreign)
        /\ ring \in Seq(Packets \cup {Foreign}) /\ UNCHANGED <<port, tx_buf, burst, nb_tx>>
    BY <1>9 DEF OtherWriter, Inv, TypeOK, local
  <2>2. [j \in 1 .. 1 |-> Foreign] = <<Foreign>>
    OBVIOUS
  <2>3. Append(ring, Foreign) = ring \o <<Foreign>>
    BY <2>1
  <2>4. 1 \in 1 .. Capacity /\ Len(ring) + 1 <= Capacity
    BY <1>c, <2>1
  <2>5. Channel!Interfere(1)
    BY <1>r, <2>1, <2>2, <2>3, <2>4 DEF Channel!Interfere
  <2> QED
    BY <2>4, <2>5 DEF Channel!Next
<1> QED
  BY <1>1, <1>2, <1>3, <1>4, <1>5, <1>6, <1>7, <1>8, <1>9
  DEF Next, WriterStep, rte_port_ring_writer_tx_bulk

LEMMA InitRefines == Init => Channel!Init
<1> SUFFICES ASSUME Init PROVE Channel!Init
  OBVIOUS
<1>1. Rest(<<>>, 0) = <<>> /\ <<>> \o <<>> = <<>>
  BY EmptySeq, RestOfAll, ConcatEmptySeq
<1>2. EndlessRetries \in BOOLEAN
  BY DEF EndlessRetries, Init
<1> QED
  BY <1>1, <1>2 DEF Init, Channel!Init

(***************************************************************************)
(* For bursts, rings and retry limits of every size, the two ways of       *)
(* sending never let a packet overtake another or leave twice, and lose    *)
(* one only at a full ring, and never with endless retries.                *)
(***************************************************************************)
THEOREM RefinesPacketChannel == Spec => ImplementsPacketChannel
<1>1. Inv /\ [Next]_vars => [Channel!Next]_Channel!vars
  BY StepRefines
<1> QED
  BY <1>1, AlwaysInv, InitRefines, PTL DEF Spec, ImplementsPacketChannel, Channel!Spec
=============================================================================
