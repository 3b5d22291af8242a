----------------------------- MODULE RingWriter -----------------------------
(***************************************************************************)
(* An output port that writes to a software queue (SWQ).  It collects      *)
(* packets in tx_buf and enqueues them when there are tx_burst_sz of them  *)
(* or when the pipeline is flushed; a burst that is large enough is        *)
(* enqueued as it is.  What the ring does not take is freed at once, or,   *)
(* by a dropless port, tried again n_retries times.                        *)
(*                                                                         *)
(* A call is taken step by step where it looks at the ring: the reader of  *)
(* the ring and, on a multi-writer ring, other writers run in between.     *)
(* What the ring does is BoundedFifo's Enqueue and Dequeue.                *)
(***************************************************************************)
EXTENDS Integers, Sequences, FiniteSets

CONSTANTS Packets, Foreign,    \* packets of this port, and anybody else's
          BurstMax,            \* RTE_PORT_IN_BURST_SIZE_MAX
          Capacity,            \* of the ring
          ReadBurst,           \* burst size of the reader
          CounterRange,        \* values of the 32-bit retry counter: 2^32
          BurstSizes, Retries, Multi   \* the parameters a port may be created with

ASSUME WriterAssumption ==
    /\ BurstMax \in Nat \ {0} /\ Capacity \in Nat \ {0} /\ ReadBurst \in Nat \ {0}
    /\ CounterRange \in Nat \ {0, 1}
    /\ BurstSizes \subseteq 1 .. BurstMax /\ Retries \subseteq Nat /\ Multi \subseteq BOOLEAN
    /\ Foreign \notin Packets

VARIABLES port,      \* the parameters of the port
          tx_buf,    \* p->tx_buf[0 .. tx_buf_count - 1]
          ring,
          pc,        \* where the thread is in a call of the port
          then,      \* what it does when tx_buf is sent
          burst,     \* the packets of the bulk call in progress
          nb_tx, i   \* local variables of send_burst_nodrop

vars == <<port, tx_buf, ring, pc, then, burst, nb_tx, i>>
local == <<then, burst, nb_tx, i>>

\* The parameter is 64 bits wide, the counter that is compared with it 32.
n_retries == IF port.n_retries = 0 THEN CounterRange * CounterRange - 1 ELSE port.n_retries

EndlessRetries == port.nodrop /\ n_retries >= CounterRange

Init ==
    /\ port \in [tx_burst_sz : BurstSizes, nodrop : BOOLEAN, n_retries : Retries, is_multi : Multi]
    /\ tx_buf = <<>> /\ ring = <<>>
    /\ pc = "idle" /\ then = "return" /\ burst = <<>> /\ nb_tx = 0 /\ i = 0

\* How many of these packets rte_ring_sp_enqueue_burst, or the mp variant, takes.
Taken(pkts) == IF Len(pkts) <= Capacity - Len(ring) THEN Len(pkts) ELSE Capacity - Len(ring)

First(s, n) == SubSeq(s, 1, n)
Rest(s, n) == SubSeq(s, n + 1, Len(s))

-----------------------------------------------------------------------------
(***************************************************************************)
(* rte_port_ring_writer_tx and _nodrop_tx.                                 *)
(***************************************************************************)
rte_port_ring_writer_tx(pkt) ==
    /\ pc = "idle"
    /\ tx_buf' = Append(tx_buf, pkt)
    /\ pc' = IF Len(tx_buf') >= port.tx_burst_sz THEN "send" ELSE "idle"
    /\ UNCHANGED <<port, ring, local>>

(***************************************************************************)
(* rte_port_ring_writer_tx_bulk_internal: pkts holds the packets whose     *)
(* bits in pkts_mask are set, by their position in the burst; the other    *)
(* positions hold packets that are not for this port.                      *)
(***************************************************************************)
IsPrefixMask(mask) == \A b \in mask : 0 .. b \subseteq mask

Array(pkts, b) == IF b \in DOMAIN pkts THEN pkts[b] ELSE Foreign

FirstPackets(pkts) == [k \in 1 .. Cardinality(DOMAIN pkts) |-> Array(pkts, k - 1)]

\* The packets in the order of their bits.
Gathered(pkts) ==
    [k \in 1 .. Cardinality(DOMAIN pkts) |->
       pkts[CHOOSE b \in DOMAIN pkts : Cardinality({c \in DOMAIN pkts : c < b}) = k - 1]]

\* expr == 0: no gaps in the mask, and at least tx_burst_sz packets.
WholeBurst(pkts) == IsPrefixMask(DOMAIN pkts) /\ port.tx_burst_sz - 1 \in DOMAIN pkts

\* Faulty variant: the burst overtakes the packets in the buffer.
TxBulkWhole_without_flush(pkts) ==
    /\ pc = "idle" /\ WholeBurst(pkts)
    /\ burst' = FirstPackets(pkts)
    /\ pc' = "direct"
    /\ UNCHANGED <<port, tx_buf, ring, then, nb_tx, i>>

TxBulkWhole(pkts) ==
    /\ pc = "idle" /\ WholeBurst(pkts)
    /\ burst' = FirstPackets(pkts)
    /\ \/ tx_buf # <<>> /\ pc' = "send" /\ then' = "direct"
       \/ tx_buf = <<>> /\ pc' = "direct" /\ UNCHANGED then
    /\ UNCHANGED <<port, tx_buf, ring, nb_tx, i>>

\* Faulty variant: the buffer is sent by the timer only.
TxBulkBuffered_without_send(pkts) ==
    /\ pc = "idle" /\ ~WholeBurst(pkts)
    /\ tx_buf' = tx_buf \o Gathered(pkts)
    /\ UNCHANGED <<port, ring, pc, local>>

TxBulkBuffered(pkts) ==
    /\ pc = "idle" /\ ~WholeBurst(pkts)
    /\ tx_buf' = tx_buf \o Gathered(pkts)
    /\ pc' = IF Len(tx_buf') >= port.tx_burst_sz THEN "send" ELSE "idle"
    /\ UNCHANGED <<port, ring, local>>

rte_port_ring_writer_tx_bulk(pkts) == TxBulkWhole(pkts) \/ TxBulkBuffered(pkts)

\* Faulty variant: a buffer that is not full is not sent.
flush_only_full ==
    /\ pc = "idle" /\ Len(tx_buf) >= port.tx_burst_sz
    /\ pc' = "send"
    /\ UNCHANGED <<port, tx_buf, ring, local>>

rte_port_ring_writer_flush ==
    /\ pc = "idle" /\ Len(tx_buf) > 0
    /\ pc' = "send"
    /\ UNCHANGED <<port, tx_buf, ring, local>>

rte_port_ring_writer_free ==
    /\ pc = "idle"
    /\ \/ tx_buf # <<>> /\ pc' = "send" /\ then' = "free"
       \/ tx_buf = <<>> /\ pc' = "freed" /\ UNCHANGED then
    /\ UNCHANGED <<port, tx_buf, ring, burst, nb_tx, i>>

-----------------------------------------------------------------------------
(***************************************************************************)
(* send_burst and send_burst_nodrop.  Whatever is left in tx_buf when they *)
(* end has been freed.                                                     *)
(***************************************************************************)
EndSend ==
    /\ tx_buf' = <<>> /\ nb_tx' = 0 /\ i' = 0 /\ then' = "return"
    /\ pc' = CASE then = "direct" -> "direct" [] then = "free" -> "freed" [] OTHER -> "idle"

send_burst ==
    /\ pc = "send"
    /\ ring' = ring \o First(tx_buf, Taken(tx_buf))
    /\ \/ /\ Taken(tx_buf) = Len(tx_buf) \/ ~port.nodrop
          /\ EndSend
       \/ /\ Taken(tx_buf) < Len(tx_buf) /\ port.nodrop
          /\ nb_tx' = Taken(tx_buf) /\ i' = 0 /\ pc' = "retry"
          /\ UNCHANGED <<tx_buf, then>>
    /\ UNCHANGED <<port, burst>>

\* Faulty variant: the tries are not counted.
Retry_without_count ==
    /\ pc = "retry"
    /\ LET n == Taken(Rest(tx_buf, nb_tx))
       IN  /\ ring' = ring \o First(Rest(tx_buf, nb_tx), n)
           /\ \/ nb_tx + n = Len(tx_buf) /\ EndSend
              \/ /\ nb_tx + n < Len(tx_buf)
                 /\ nb_tx' = nb_tx + n
                 /\ UNCHANGED <<tx_buf, then, pc, i>>
    /\ UNCHANGED <<port, burst>>

Retry ==
    /\ pc = "retry"
    /\ LET n == Taken(Rest(tx_buf, nb_tx))
           next == (i + 1) % CounterRange
       IN  /\ ring' = ring \o First(Rest(tx_buf, nb_tx), n)
           /\ \/ /\ nb_tx + n = Len(tx_buf) \/ next >= n_retries
                 /\ EndSend
              \/ /\ nb_tx + n < Len(tx_buf) /\ next < n_retries
                 /\ nb_tx' = nb_tx + n /\ i' = next
                 /\ UNCHANGED <<tx_buf, then, pc>>
    /\ UNCHANGED <<port, burst>>

\* A whole burst: what does not fit is freed, or moved to the buffer and sent from there.
SendDirect ==
    /\ pc = "direct"
    /\ ring' = ring \o First(burst, Taken(burst))
    /\ \/ /\ Taken(burst) = Len(burst) \/ ~port.nodrop
          /\ pc' = "idle" /\ UNCHANGED tx_buf
       \/ /\ Taken(burst) < Len(burst) /\ port.nodrop
          /\ tx_buf' = tx_buf \o Rest(burst, Taken(burst)) /\ pc' = "send"
    /\ burst' = <<>>
    /\ UNCHANGED <<port, then, nb_tx, i>>

WriterStep == send_burst \/ Retry \/ SendDirect

-----------------------------------------------------------------------------
\* The next pipeline reads a burst.
rte_port_ring_reader_rx ==
    /\ ring # <<>>
    /\ ring' = Rest(ring, IF Len(ring) <= ReadBurst THEN Len(ring) ELSE ReadBurst)
    /\ UNCHANGED <<port, tx_buf, pc, local>>

\* Another pipeline writes a packet to the same ring.
OtherWriter ==
    /\ port.is_multi /\ Len(ring) < Capacity
    /\ ring' = Append(ring, Foreign)
    /\ UNCHANGED <<port, tx_buf, pc, local>>

Masks == (SUBSET (0 .. BurstMax - 1)) \ {{}}

Next ==
    \/ \E pkt \in Packets : rte_port_ring_writer_tx(pkt)
    \/ \E mask \in Masks : \E pkts \in [mask -> Packets] : rte_port_ring_writer_tx_bulk(pkts)
    \/ rte_port_ring_writer_flush \/ rte_port_ring_writer_free
    \/ WriterStep
    \/ rte_port_ring_reader_rx \/ OtherWriter

(***************************************************************************)
(* A call goes on, and the pipeline's thread flushes its ports again and   *)
(* again between other calls.  Nothing is assumed of the reader.           *)
(***************************************************************************)
Fairness == WF_vars(WriterStep) /\ SF_vars(rte_port_ring_writer_flush)

Spec == Init /\ [][Next]_vars /\ Fairness

-----------------------------------------------------------------------------
TypeOK ==
    /\ port \in [tx_burst_sz : BurstSizes, nodrop : BOOLEAN, n_retries : Retries, is_multi : Multi]
    /\ tx_buf \in Seq(Packets) /\ ring \in Seq(Packets \cup {Foreign}) /\ burst \in Seq(Packets)
    /\ pc \in {"idle", "send", "retry", "direct", "freed"}
    /\ then \in {"return", "direct", "free"}
    /\ nb_tx \in Nat /\ i \in Nat

(***************************************************************************)
(* tx_buf, an array of 2 * RTE_PORT_IN_BURST_SIZE_MAX packets, is never    *)
(* overrun: between calls it holds less than tx_burst_sz packets, so that  *)
(* a whole burst more always fits, and the rest of a direct burst only     *)
(* goes there when it is empty.                                            *)
(***************************************************************************)
BufferFits ==
    /\ Len(tx_buf) <= 2 * BurstMax
    /\ pc = "idle" => Len(tx_buf) < port.tx_burst_sz
    /\ pc = "direct" => tx_buf = <<>>

(***************************************************************************)
(* The port keeps the order of its packets on the buffered and on the      *)
(* direct path, sends none twice when it retries, gives packets up only    *)
(* while the ring is full, and never when it retries without end.          *)
(***************************************************************************)
Channel == INSTANCE PacketChannel WITH
             MaxBurst <- BurstMax,
             queue <- ring,
             backlog <- Rest(tx_buf, nb_tx) \o burst,
             lossless <- EndlessRetries

ImplementsPacketChannel == Channel!Spec

(***************************************************************************)
(* What a port that never gives up needs in return: a ring that is its own *)
(* and a reader that makes room again and again.                           *)
(***************************************************************************)
ReaderKeepsUp == EndlessRetries => ~port.is_multi /\ []<>(Len(ring) < Capacity)

(***************************************************************************)
(* Every call of the port returns: a limited number of retries ends even   *)
(* if the reader has stopped, an unlimited one when the reader goes on.    *)
(***************************************************************************)
CallsOfThePortReturn == ReaderKeepsUp => (pc \in {"send", "retry", "direct"} ~> pc \in {"idle", "freed"})

(***************************************************************************)
(* No packet stays in the buffer because too few others follow it.         *)
(***************************************************************************)
BufferedPacketsLeave == ReaderKeepsUp => (tx_buf # <<>> ~> tx_buf = <<>>)
=============================================================================
