--------------------------- MODULE ControlChannel ---------------------------
(***************************************************************************)
(* The control channel of a pipeline: the command line thread (front end)  *)
(* and the data plane thread that runs the pipeline (back end) exchange    *)
(* messages over two rings, msgq_in for requests and msgq_out for replies. *)
(*                                                                         *)
(* A command allocates a request, spins until the request ring has room,   *)
(* and then polls the reply ring until a reply arrives or MSG_TIMEOUT has  *)
(* passed.  Nothing in a message tells which request it answers, and a     *)
(* command that timed out leaves its request and reply in the rings.  The  *)
(* model numbers the requests to see which reply a command gets; the code  *)
(* has no such number.                                                     *)
(***************************************************************************)
EXTENDS Integers, Sequences

CONSTANTS RingSlots,     \* messages a ring can hold: its size - 1
          MaxCommands    \* bound on the commands issued

ASSUME ChannelAssumption == RingSlots \in Nat \ {0} /\ MaxCommands \in Nat

VARIABLES fe,         \* the front end: "idle", "send" (spinning) or "recv" (polling)
          issued,     \* number of the last command that sent a request
          msgq_in,    \* requests not yet taken by the back end
          be,         \* the request the back end is handling, 0 for none
          msgq_out,   \* replies not yet taken by the front end
          answered,   \* number of the request whose reply was taken last
          timeouts    \* commands that gave up so far

vars == <<fe, issued, msgq_in, be, msgq_out, answered, timeouts>>

Init ==
    /\ fe = "idle"
    /\ issued = 0
    /\ msgq_in = <<>>
    /\ be = 0
    /\ msgq_out = <<>>
    /\ answered = 0
    /\ timeouts = 0

(***************************************************************************)
(* The front end.                                                          *)
(***************************************************************************)
Issue ==
    /\ fe = "idle" /\ issued < MaxCommands
    /\ fe' = "send"
    /\ issued' = issued + 1
    /\ UNCHANGED <<msgq_in, be, msgq_out, answered, timeouts>>

\* rte_ring_sp_enqueue; the loop around it has no way out while the ring is full
Send ==
    /\ fe = "send" /\ Len(msgq_in) < RingSlots
    /\ msgq_in' = Append(msgq_in, issued)
    /\ fe' = "recv"
    /\ UNCHANGED <<issued, be, msgq_out, answered, timeouts>>

Receive ==
    /\ fe = "recv" /\ msgq_out # <<>>
    /\ answered' = Head(msgq_out)
    /\ msgq_out' = Tail(msgq_out)
    /\ fe' = "idle"
    /\ UNCHANGED <<issued, msgq_in, be, timeouts>>

\* Faulty variant: a full poll of the reply ring empties it.
Timeout_drops_reply ==
    /\ fe = "recv"
    /\ fe' = "idle"
    /\ timeouts' = timeouts + 1
    /\ msgq_out' = <<>>
    /\ UNCHANGED <<issued, msgq_in, be, answered>>

\* The deadline is checked before the ring, so a reply may be there already.
Timeout ==
    /\ fe = "recv"
    /\ fe' = "idle"
    /\ timeouts' = timeouts + 1
    /\ UNCHANGED <<issued, msgq_in, be, msgq_out, answered>>

(***************************************************************************)
(* The back end, in pipeline_msg_req_handle.                               *)
(***************************************************************************)
Handle ==
    /\ be = 0 /\ msgq_in # <<>>
    /\ be' = Head(msgq_in)
    /\ msgq_in' = Tail(msgq_in)
    /\ UNCHANGED <<fe, issued, msgq_out, answered, timeouts>>

\* Faulty variant: the reply is dropped when the ring is full.
Reply_drops_when_full ==
    /\ be # 0
    /\ msgq_out' = IF Len(msgq_out) < RingSlots THEN Append(msgq_out, be) ELSE msgq_out
    /\ be' = 0
    /\ UNCHANGED <<fe, issued, msgq_in, answered, timeouts>>

\* Faulty variant: the newest reply is put first.
Reply_to_front ==
    /\ be # 0 /\ Len(msgq_out) < RingSlots
    /\ msgq_out' = <<be>> \o msgq_out
    /\ be' = 0
    /\ UNCHANGED <<fe, issued, msgq_in, answered, timeouts>>

\* Faulty variant: one slot less is used than the ring has.
Reply_off_by_one ==
    /\ be # 0 /\ Len(msgq_out) < RingSlots - 1
    /\ msgq_out' = Append(msgq_out, be)
    /\ be' = 0
    /\ UNCHANGED <<fe, issued, msgq_in, answered, timeouts>>

\* pipeline_msg_send: it too spins while the ring is full
Reply ==
    /\ be # 0 /\ Len(msgq_out) < RingSlots
    /\ msgq_out' = Append(msgq_out, be)
    /\ be' = 0
    /\ UNCHANGED <<fe, issued, msgq_in, answered, timeouts>>

Next == Issue \/ Send \/ Receive \/ Timeout \/ Handle \/ Reply

(***************************************************************************)
(* Both threads keep running: the front end leaves its polling loop when   *)
(* there is a reply or the deadline has passed, and the back end calls     *)
(* pipeline_msg_req_handle in every sixteenth round of its endless loop.   *)
(***************************************************************************)
Fairness ==
    /\ WF_vars(Send) /\ WF_vars(Receive \/ Timeout)
    /\ WF_vars(Handle) /\ WF_vars(Reply)

Spec == Init /\ [][Next]_vars /\ Fairness

-----------------------------------------------------------------------------
TypeOK ==
    /\ fe \in {"idle", "send", "recv"}
    /\ issued \in Nat /\ answered \in Nat /\ timeouts \in Nat
    /\ msgq_in \in Seq(Nat \ {0}) /\ Len(msgq_in) <= RingSlots
    /\ msgq_out \in Seq(Nat \ {0}) /\ Len(msgq_out) <= RingSlots
    /\ be \in Nat

Busy == IF be = 0 THEN 0 ELSE 1
Waiting == IF fe = "recv" THEN 1 ELSE 0
Sent == IF fe = "send" THEN issued - 1 ELSE issued
Oldest == Sent + 1 - (timeouts + Waiting)

(***************************************************************************)
(* Requests are answered once each, in order, and none is lost: the reply  *)
(* ring, the back end and the request ring hold, oldest first, exactly the *)
(* requests of the last commands, one for every timeout there ever was and *)
(* one for the command that waits.                                         *)
(***************************************************************************)
OutstandingInOrder ==
    /\ Len(msgq_out) + Busy + Len(msgq_in) = timeouts + Waiting
    /\ \A i \in 1 .. Len(msgq_out) : msgq_out[i] = Oldest + i - 1
    /\ be # 0 => be = Oldest + Len(msgq_out)
    /\ \A i \in 1 .. Len(msgq_in) : msgq_in[i] = Oldest + Len(msgq_out) + Busy + i - 1

(***************************************************************************)
(* A timeout is never made up for: a command gets the reply of the command *)
(* issued as many commands earlier as there were timeouts so far.          *)
(***************************************************************************)
RepliesLagByTimeouts == [][answered' # answered => answered' = issued - timeouts]_vars

(***************************************************************************)
(* The rings and the back end absorb 2 * RingSlots + 1 timeouts.  After    *)
(* the last of them both rings are full and the back end is stuck.         *)
(***************************************************************************)
TimeoutsFillTheRings ==
    /\ timeouts <= 2 * RingSlots + 1
    /\ timeouts = 2 * RingSlots + 1 =>
         Len(msgq_in) = RingSlots /\ be # 0 /\ Len(msgq_out) = RingSlots

(***************************************************************************)
(* Until then every command returns: the front end spinning on the request *)
(* ring and the back end spinning on the reply ring never wait for each    *)
(* other.                                                                  *)
(***************************************************************************)
CommandsReturn == (fe # "idle" /\ timeouts <= 2 * RingSlots) ~> fe = "idle"
=============================================================================
