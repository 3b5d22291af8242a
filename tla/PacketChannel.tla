--------------------------- MODULE PacketChannel ---------------------------
(***************************************************************************)
(* What a pipeline may expect of an output port that writes to a software  *)
(* queue: packets leave in the order in which they were handed over, none  *)
(* twice; a packet is given up only while the queue is full, and never by  *)
(* a port that retries without end.                                        *)
(***************************************************************************)
EXTENDS Integers, Sequences

CONSTANTS Packets, Foreign,  \* packets of this pipeline, and of others on the same queue
          MaxBurst,          \* packets handed over at once
          Capacity           \* what the queue can hold

VARIABLES queue,             \* the queue between two pipelines
          backlog,           \* handed over and not yet in the queue
          lossless

vars == <<queue, backlog, lossless>>

Init == queue = <<>> /\ backlog = <<>> /\ lossless \in BOOLEAN

Bursts == UNION {[1 .. n -> Packets] : n \in 1 .. MaxBurst}

Accept(burst) ==
    /\ backlog' = backlog \o burst
    /\ UNCHANGED <<queue, lossless>>

\* The next k packets enter the queue and the l after them are given up.
Transfer(k, l) ==
    /\ Len(queue) + k <= Capacity
    /\ l > 0 => ~lossless /\ Len(queue) + k = Capacity
    /\ queue' = queue \o SubSeq(backlog, 1, k)
    /\ backlog' = SubSeq(backlog, k + l + 1, Len(backlog))
    /\ UNCHANGED lossless

\* Other writers of the same queue.
Interfere(n) ==
    /\ Len(queue) + n <= Capacity
    /\ queue' = queue \o [i \in 1 .. n |-> Foreign]
    /\ UNCHANGED <<backlog, lossless>>

Deliver(n) ==
    /\ n <= Len(queue)
    /\ queue' = SubSeq(queue, n + 1, Len(queue))
    /\ UNCHANGED <<backlog, lossless>>

Next ==
    \/ \E burst \in Bursts : Accept(burst)
    \/ \E k \in 0 .. Len(backlog) : \E l \in 0 .. Len(backlog) - k : Transfer(k, l)
    \/ \E n \in 1 .. Capacity : Interfere(n)
    \/ \E n \in 1 .. Capacity : Deliver(n)

Spec == Init /\ [][Next]_vars
=============================================================================
