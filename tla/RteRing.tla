------------------------------ MODULE RteRing ------------------------------
(***************************************************************************)
(* The ring that carries packets between pipelines, messages between the   *)
(* application and the enclave, and the free objects of a mempool.  Four   *)
(* indices run freely modulo 2^IndexBits: producers reserve slots by       *)
(* moving prod.head, fill them, and publish them by moving prod.tail;      *)
(* consumers do the same with cons.  With several producers (consumers)    *)
(* the head is moved by compare-and-set and the tail moves in the order of *)
(* the reservations; with a single one it is just stored.                  *)
(*                                                                         *)
(* A step is one access to shared memory; copying a burst into or out of   *)
(* the slots is one step, since nobody else touches them meanwhile         *)
(* (ReservationsAreDisjoint).  Accesses take effect in program order, as   *)
(* the volatile indices, the barriers and x86 have it.                     *)
(***************************************************************************)
EXTENDS Integers, Sequences, FiniteSets

CONSTANTS Producers, Consumers, Objects,
          Empty,         \* what a slot holds before its first use
          SingleProducer, SingleConsumer,   \* whether RING_F_SP_ENQ, RING_F_SC_DEQ may be set, not set
          Size,          \* a power of two
          IndexBits,     \* width of an index: 32 in the code
          Starts,        \* where the indices may be when a run starts
          Behaviors,     \* the calls made: TRUE for RTE_RING_QUEUE_FIXED, FALSE for _VARIABLE
          MaxBurst,      \* bound on the objects of one call
          MaxEnqueues    \* bound on the enqueue calls, less than a full turn of the indices

ASSUME ThreadsAssumption ==
    /\ Producers \cap Consumers = {} /\ Empty \notin Objects
    /\ SingleProducer \subseteq BOOLEAN /\ SingleConsumer \subseteq BOOLEAN
    /\ Behaviors \subseteq BOOLEAN
ASSUME SizeAssumption ==
    /\ Size \in Nat \ {0, 1} /\ IndexBits \in Nat /\ 2^IndexBits % Size = 0
    /\ Starts \subseteq 0 .. 2^IndexBits - 1
    /\ MaxBurst \in Nat \ {0} /\ MaxEnqueues \in Nat
    /\ MaxEnqueues * MaxBurst + Size < 2^IndexBits

VARIABLES prod, cons,    \* [head, tail]
          ring,          \* the slots
          pc,            \* where a thread is in its call
          call,          \* the local variables of a call
          single,        \* the flags the ring was created with
          enqueues       \* enqueue calls so far

vars == <<prod, cons, ring, pc, call, single, enqueues>>

Threads == Producers \cup Consumers
Index == 0 .. 2^IndexBits - 1
mask == Size - 1

\* Faulty variant: the sum is not cut to the width of an index.
Plus_unwrapped(a, b) == a + b

\* Differences and sums of two uint32_t.
Minus(a, b) == (a - b) % 2^IndexBits
Plus(a, b) == (a + b) % 2^IndexBits

Slot(i) == i % Size
Contents(from, n) == [j \in 1 .. n |-> ring[Slot(Plus(from, j - 1))]]

Bursts == UNION {[1 .. n -> Objects] : n \in 1 .. MaxBurst}

NoCall == [objs |-> <<>>, max |-> 0, n |-> 0, fixed |-> FALSE, old |-> 0]

(***************************************************************************)
(* A ring that was filled and emptied before: its four indices are equal,  *)
(* anywhere between 0, where rte_ring_init puts them, and their maximum.   *)
(***************************************************************************)
Init ==
    /\ \E i \in Starts : prod = [head |-> i, tail |-> i] /\ cons = prod
    /\ ring = [s \in 0 .. Size - 1 |-> Empty]
    /\ pc = [t \in Threads |-> "idle"]
    /\ call = [t \in Threads |-> NoCall]
    /\ single \in [producer : SingleProducer, consumer : SingleConsumer]
    /\ enqueues = 0

Goto(t, l) == pc' = [pc EXCEPT ![t] = l]

Returns(t) == Goto(t, "idle") /\ call' = [call EXCEPT ![t] = NoCall]

\* Faulty variant: the last free slot, or the last object, is not used.
Granted_strict(c, avail) ==
    IF c.max < avail THEN c.max ELSE IF c.fixed THEN 0 ELSE avail

\* What is left of a request of max objects when there is room for, or are, avail.
Granted(c, avail) ==
    IF c.max <= avail THEN c.max ELSE IF c.fixed THEN 0 ELSE avail

-----------------------------------------------------------------------------
(***************************************************************************)
(* __rte_ring_do_enqueue.  fixed: RTE_RING_QUEUE_FIXED, all objects or     *)
(* none; otherwise as many as there is room for.  A ring with the single   *)
(* producer flag is used by one producer at a time; its users see to it.   *)
(***************************************************************************)
rte_ring_enqueue(p, burst, fixed) ==
    /\ pc[p] = "idle" /\ enqueues < MaxEnqueues
    /\ single.producer => \A q \in Producers : pc[q] = "idle"
    /\ enqueues' = enqueues + 1
    /\ Goto(p, "head")
    /\ call' = [call EXCEPT ![p] =
                  [NoCall EXCEPT !.objs = burst, !.max = Len(burst), !.fixed = fixed]]
    /\ UNCHANGED <<prod, cons, ring, single>>

ReadProdHead(p) ==
    /\ pc[p] = "head"
    /\ call' = [call EXCEPT ![p].old = prod.head]
    /\ Goto(p, "room")
    /\ UNCHANGED <<prod, cons, ring, single, enqueues>>

FreeEntries(p) == Minus(mask + cons.tail, call[p].old)

ReadConsTail(p) ==
    /\ pc[p] = "room"
    /\ LET n == Granted(call[p], FreeEntries(p))
       IN  \/ n = 0 /\ Returns(p)
           \/ n # 0 /\ call' = [call EXCEPT ![p].n = n] /\ Goto(p, "move")
    /\ UNCHANGED <<prod, cons, ring, single, enqueues>>

\* Faulty variant: the head is stored although there are other producers.
MoveProdHead_without_compare(p) ==
    /\ pc[p] = "move"
    /\ prod' = [prod EXCEPT !.head = Plus(call[p].old, call[p].n)]
    /\ Goto(p, "copy")
    /\ UNCHANGED <<cons, ring, call, single, enqueues>>

\* rte_atomic32_cmpset, or a plain store by the single producer
MoveProdHead(p) ==
    /\ pc[p] = "move"
    /\ \/ /\ single.producer \/ prod.head = call[p].old
          /\ prod' = [prod EXCEPT !.head = Plus(call[p].old, call[p].n)]
          /\ Goto(p, "copy")
       \/ /\ ~single.producer /\ prod.head # call[p].old
          /\ Goto(p, "head")
          /\ UNCHANGED prod
    /\ UNCHANGED <<cons, ring, call, single, enqueues>>

\* Faulty variant: the slots are not taken modulo the size.
EnqueuePtrs_without_wrap(p) ==
    /\ pc[p] = "copy"
    /\ ring' = [s \in DOMAIN ring |->
                  LET j == s - Slot(call[p].old)
                  IN  IF j \in 0 .. call[p].n - 1 THEN call[p].objs[j + 1] ELSE ring[s]]
    /\ Goto(p, "tail")
    /\ UNCHANGED <<prod, cons, call, single, enqueues>>

ENQUEUE_PTRS(p) ==
    /\ pc[p] = "copy"
    /\ ring' = [s \in DOMAIN ring |->
                  LET j == (s - call[p].old) % Size
                  IN  IF j < call[p].n THEN call[p].objs[j + 1] ELSE ring[s]]
    /\ Goto(p, "tail")
    /\ UNCHANGED <<prod, cons, call, single, enqueues>>

\* Faulty variant: the tail does not wait for earlier reservations.
UpdateProdTail_without_wait(p) ==
    /\ pc[p] = "tail"
    /\ prod' = [prod EXCEPT !.tail = Plus(call[p].old, call[p].n)]
    /\ Returns(p)
    /\ UNCHANGED <<cons, ring, single, enqueues>>

UpdateProdTail(p) ==
    /\ pc[p] = "tail"
    /\ single.producer \/ prod.tail = call[p].old
    /\ prod' = [prod EXCEPT !.tail = Plus(call[p].old, call[p].n)]
    /\ Returns(p)
    /\ UNCHANGED <<cons, ring, single, enqueues>>

-----------------------------------------------------------------------------
(***************************************************************************)
(* __rte_ring_do_dequeue.                                                  *)
(***************************************************************************)
rte_ring_dequeue(c, max, fixed) ==
    /\ pc[c] = "idle"
    /\ single.consumer => \A d \in Consumers : pc[d] = "idle"
    /\ Goto(c, "head")
    /\ call' = [call EXCEPT ![c] = [NoCall EXCEPT !.max = max, !.fixed = fixed]]
    /\ UNCHANGED <<prod, cons, ring, single, enqueues>>

ReadConsHead(c) ==
    /\ pc[c] = "head"
    /\ call' = [call EXCEPT ![c].old = cons.head]
    /\ Goto(c, "room")
    /\ UNCHANGED <<prod, cons, ring, single, enqueues>>

CountEntries(c) == Minus(prod.tail, call[c].old)

ReadProdTail(c) ==
    /\ pc[c] = "room"
    /\ LET n == Granted(call[c], CountEntries(c))
       IN  \/ n = 0 /\ Returns(c)
           \/ n # 0 /\ call' = [call EXCEPT ![c].n = n] /\ Goto(c, "move")
    /\ UNCHANGED <<prod, cons, ring, single, enqueues>>

MoveConsHead(c) ==
    /\ pc[c] = "move"
    /\ \/ /\ single.consumer \/ cons.head = call[c].old
          /\ cons' = [cons EXCEPT !.head = Plus(call[c].old, call[c].n)]
          /\ Goto(c, "copy")
       \/ /\ ~single.consumer /\ cons.head # call[c].old
          /\ Goto(c, "head")
          /\ UNCHANGED cons
    /\ UNCHANGED <<prod, ring, call, single, enqueues>>

DEQUEUE_PTRS(c) ==
    /\ pc[c] = "copy"
    /\ call' = [call EXCEPT ![c].objs = Contents(call[c].old, call[c].n)]
    /\ Goto(c, "tail")
    /\ UNCHANGED <<prod, cons, ring, single, enqueues>>

\* Faulty variant: the tail does not wait for earlier reservations.
UpdateConsTail_without_wait(c) ==
    /\ pc[c] = "tail"
    /\ cons' = [cons EXCEPT !.tail = Plus(call[c].old, call[c].n)]
    /\ Returns(c)
    /\ UNCHANGED <<prod, ring, single, enqueues>>

UpdateConsTail(c) ==
    /\ pc[c] = "tail"
    /\ single.consumer \/ cons.tail = call[c].old
    /\ cons' = [cons EXCEPT !.tail = Plus(call[c].old, call[c].n)]
    /\ Returns(c)
    /\ UNCHANGED <<prod, ring, single, enqueues>>

-----------------------------------------------------------------------------
EnqueueStep(p) ==
    ReadProdHead(p) \/ ReadConsTail(p) \/ MoveProdHead(p) \/ ENQUEUE_PTRS(p) \/ UpdateProdTail(p)

DequeueStep(c) ==
    ReadConsHead(c) \/ ReadProdTail(c) \/ MoveConsHead(c) \/ DEQUEUE_PTRS(c) \/ UpdateConsTail(c)

Next ==
    \/ \E p \in Producers, burst \in Bursts, fixed \in Behaviors : rte_ring_enqueue(p, burst, fixed)
    \/ \E p \in Producers : EnqueueStep(p)
    \/ \E c \in Consumers, n \in 1 .. MaxBurst, fixed \in Behaviors : rte_ring_dequeue(c, n, fixed)
    \/ \E c \in Consumers : DequeueStep(c)

(***************************************************************************)
(* Every thread that is in a call keeps running: each has a core of its    *)
(* own.                                                                    *)
(***************************************************************************)
Fairness ==
    /\ \A p \in Producers : WF_vars(EnqueueStep(p))
    /\ \A c \in Consumers : WF_vars(DequeueStep(c))

Spec == Init /\ [][Next]_vars /\ Fairness

-----------------------------------------------------------------------------
Reserved(t) == {Slot(Plus(call[t].old, j)) : j \in 0 .. call[t].n - 1}
Holding == {t \in Threads : pc[t] \in {"copy", "tail"}}

TypeOK ==
    /\ prod \in [head : Index, tail : Index] /\ cons \in [head : Index, tail : Index]
    /\ ring \in [0 .. Size - 1 -> Objects \cup {Empty}]
    /\ pc \in [Threads -> {"idle", "head", "room", "move", "copy", "tail"}]
    /\ \A t \in Threads : call[t].n <= call[t].max /\ call[t].old \in Index

(***************************************************************************)
(* Wherever the indices wrap, cons.tail, cons.head, prod.tail and          *)
(* prod.head follow each other in this order within less than one turn of  *)
(* the ring: no slot is reserved before its last consumer has left it.     *)
(***************************************************************************)
IndicesInOrder ==
    Minus(cons.head, cons.tail) + Minus(prod.tail, cons.head)
      + Minus(prod.head, prod.tail) <= mask

(***************************************************************************)
(* No two threads hold the same slot, whether to fill it or to empty it:   *)
(* the copies need no lock.                                                *)
(***************************************************************************)
ReservationsAreDisjoint ==
    \A t, u \in Holding : t # u => Reserved(t) \cap Reserved(u) = {}

(***************************************************************************)
(* An enqueue is refused only when, at that moment, the free and           *)
(* unreserved slots are too few; a dequeue only when the objects that are  *)
(* published and not taken are.  A head that is stale when the other       *)
(* side's tail is read never makes a thread give up wrongly.               *)
(***************************************************************************)
Needed(c) == IF c.fixed THEN c.max ELSE 1

RefusedOnlyWithReason ==
    [][/\ \A p \in Producers : pc[p] = "room" /\ pc'[p] = "idle"
            => mask - Minus(prod.head, cons.tail) < Needed(call[p])
       /\ \A c \in Consumers : pc[c] = "room" /\ pc'[c] = "idle"
            => Minus(prod.tail, cons.head) < Needed(call[c])]_vars

(***************************************************************************)
(* The ring implements a bounded queue of bursts: an enqueue takes effect  *)
(* when prod.tail moves, a dequeue when cons.head does, and what the       *)
(* consumer copies out later is what was at the front of the queue then.   *)
(***************************************************************************)
Fifo == INSTANCE BoundedFifo WITH
          Capacity <- mask,
          queue <- Contents(cons.head, Minus(prod.tail, cons.head)),
          taken <- [c \in Consumers |->
                      CASE pc[c] = "copy" -> Contents(call[c].old, call[c].n)
                        [] pc[c] = "tail" -> call[c].objs
                        [] OTHER -> <<>>]

ImplementsFifo == Fifo!Spec

(***************************************************************************)
(* A call that has moved a head returns: threads waiting in update_tail    *)
(* for earlier reservations never wait for each other.  (Before that, the  *)
(* compare-and-set may fail for as long as other threads are faster.)      *)
(***************************************************************************)
CallsReturn == \A t \in Threads : pc[t] \in {"copy", "tail"} ~> pc[t] = "idle"
=============================================================================
