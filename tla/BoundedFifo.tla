---------------------------- MODULE BoundedFifo ----------------------------
(***************************************************************************)
(* What an rte_ring promises to the threads that share it: a queue that    *)
(* never holds more than Capacity objects, to which a burst is added at    *)
(* its end in one piece, and from whose front a consumer takes a burst in  *)
(* one piece, for itself alone.                                            *)
(***************************************************************************)
EXTENDS Integers, Sequences

CONSTANTS Objects, Consumers, Capacity, MaxBurst

VARIABLES queue,      \* the objects in the queue
          taken       \* what a consumer took and has not finished copying out

Bursts == UNION {[1 .. n -> Objects] : n \in 1 .. MaxBurst}

Init ==
    /\ queue = <<>>
    /\ taken = [c \in Consumers |-> <<>>]

Enqueue(burst) ==
    /\ Len(queue) + Len(burst) <= Capacity
    /\ queue' = queue \o burst
    /\ UNCHANGED taken

Dequeue(c, n) ==
    /\ taken[c] = <<>> /\ n <= Len(queue)
    /\ taken' = [taken EXCEPT ![c] = SubSeq(queue, 1, n)]
    /\ queue' = SubSeq(queue, n + 1, Len(queue))

Return(c) ==
    /\ taken' = [taken EXCEPT ![c] = <<>>]
    /\ UNCHANGED queue

Next ==
    \/ \E burst \in Bursts : Enqueue(burst)
    \/ \E c \in Consumers : Return(c) \/ \E n \in 1 .. MaxBurst : Dequeue(c, n)

Spec == Init /\ [][Next]_<<queue, taken>>
=============================================================================
