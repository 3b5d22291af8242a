----------------------------- MODULE AppThread ------------------------------
(***************************************************************************)
(* Moving pipelines between threads at run time.  Each thread has an array *)
(* of the pipelines it runs and a pair of message rings.  The commands     *)
(* "t <thread> pipeline <id> enable", "... disable" and "t <thread>        *)
(* headroom" send a request to a thread and wait for a reply, and keep one *)
(* flag per pipeline, p->enabled, to refuse enabling it twice.             *)
(*                                                                         *)
(* The command line is itself a pipeline (MASTER): it is run by the loop   *)
(* of thread Master, which handles no message while a command is waiting.  *)
(* A thread that was given a firewall runs inside the enclave and never    *)
(* looks at its message ring.                                              *)
(*                                                                         *)
(* The order of an array does not matter here: placed counts how often a   *)
(* pipeline is in it.  Commands that name the MASTER pipeline itself are   *)
(* left out.                                                               *)
(***************************************************************************)
EXTENDS Integers, Sequences, FiniteSets

CONSTANTS Threads, Master,
          Pipelines, Firewalls,
          Capacity,       \* APP_MAX_THREAD_PIPELINES
          RingSlots,      \* messages that a thread's ring can hold
          MaxCommands,    \* bound on the commands issued
          NULL

ASSUME ThreadAssumption ==
    /\ IsFiniteSet(Threads) /\ Master \in Threads
    /\ IsFiniteSet(Pipelines) /\ Firewalls \subseteq Pipelines
    /\ Capacity \in Nat /\ Cardinality(Pipelines) <= Capacity
    /\ RingSlots \in Nat \ {0} /\ MaxCommands \in Nat
    /\ NULL \notin Pipelines /\ NULL \notin Int

VARIABLES trusted,      \* the threads that run in the enclave
          placed,       \* placed[t][p]: how often p is in the arrays of t
          n_regular,    \* length of the array, which has no firewall at first: t->trusted is another
          msgq_in, msgq_out,
          replying,     \* the status a thread is about to send, or NULL
          enabled,      \* the front end's flag
          fe,           \* the command: where it is, and what it asks of which thread
          issued,       \* commands so far
          timeouts      \* how many of them, per thread, gave up

vars == <<trusted, placed, n_regular, msgq_in, msgq_out, replying, enabled, fe, issued, timeouts>>

Requests == [op : {"enable", "disable"}, p : Pipelines] \cup [op : {"headroom"}, p : {NULL}]
Statuses == {0, -1}
Idle == [pc |-> "idle", t |-> Master, req |-> [op |-> "headroom", p |-> NULL]]

\* Each pipeline is on the thread the configuration file names; there are no other threads.
Init ==
    \E core \in [Pipelines -> Threads] :
      /\ Threads = {Master} \cup {core[p] : p \in Pipelines}
      /\ trusted = {core[p] : p \in Firewalls}
      /\ Master \notin trusted
      /\ placed = [t \in Threads |-> [p \in Pipelines |-> IF core[p] = t THEN 1 ELSE 0]]
      /\ n_regular = [t \in Threads |-> Cardinality({p \in Pipelines \ Firewalls : core[p] = t})]
      /\ msgq_in = [t \in Threads |-> <<>>] /\ msgq_out = [t \in Threads |-> <<>>]
      /\ replying = [t \in Threads |-> NULL]
      /\ enabled = [p \in Pipelines |-> TRUE]
      /\ fe = Idle /\ issued = 0
      /\ timeouts = [t \in Threads |-> 0]

-----------------------------------------------------------------------------
(***************************************************************************)
(* The front end, in thread_fe.c.  It shares its thread with the message   *)
(* handler of Master.                                                      *)
(***************************************************************************)
\* app_pipeline_enable, app_pipeline_disable, app_thread_headroom up to the request
Issue(t, req) ==
    /\ fe.pc = "idle" /\ replying[Master] = NULL
    /\ issued < MaxCommands
    /\ req.op = "enable" => ~enabled[req.p]
    /\ req.op = "disable" => enabled[req.p]
    /\ fe' = [pc |-> "send", t |-> t, req |-> req]
    /\ issued' = issued + 1
    /\ UNCHANGED <<trusted, placed, n_regular, msgq_in, msgq_out, replying, enabled, timeouts>>

Send ==
    /\ fe.pc = "send" /\ Len(msgq_in[fe.t]) < RingSlots
    /\ msgq_in' = [msgq_in EXCEPT ![fe.t] = Append(@, fe.req)]
    /\ fe' = [fe EXCEPT !.pc = "recv"]
    /\ UNCHANGED <<trusted, placed, n_regular, msgq_out, replying, enabled, issued, timeouts>>

\* Faulty variant: the flag is set without looking at the status.
Receive_ignores_status ==
    /\ fe.pc = "recv" /\ msgq_out[fe.t] # <<>>
    /\ enabled' = IF fe.req.op = "headroom" THEN enabled
                  ELSE [enabled EXCEPT ![fe.req.p] = (fe.req.op = "enable")]
    /\ msgq_out' = [msgq_out EXCEPT ![fe.t] = Tail(@)]
    /\ fe' = Idle
    /\ UNCHANGED <<trusted, placed, n_regular, msgq_in, replying, issued, timeouts>>

\* The first reply in the ring is taken for the reply to this request.
Receive ==
    /\ fe.pc = "recv" /\ msgq_out[fe.t] # <<>>
    /\ enabled' = IF fe.req.op = "headroom" \/ Head(msgq_out[fe.t]) # 0 THEN enabled
                  ELSE [enabled EXCEPT ![fe.req.p] = (fe.req.op = "enable")]
    /\ msgq_out' = [msgq_out EXCEPT ![fe.t] = Tail(@)]
    /\ fe' = Idle
    /\ UNCHANGED <<trusted, placed, n_regular, msgq_in, replying, issued, timeouts>>

\* Faulty variant: a command waits as long as the thread that it asks does not answer.
Timeout_only_late ==
    /\ fe.pc = "recv" /\ msgq_out[fe.t] # <<>>
    /\ timeouts' = [timeouts EXCEPT ![fe.t] = @ + 1]
    /\ fe' = Idle
    /\ UNCHANGED <<trusted, placed, n_regular, msgq_in, msgq_out, replying, enabled, issued>>

Timeout ==
    /\ fe.pc = "recv"
    /\ timeouts' = [timeouts EXCEPT ![fe.t] = @ + 1]
    /\ fe' = Idle
    /\ UNCHANGED <<trusted, placed, n_regular, msgq_in, msgq_out, replying, enabled, issued>>

-----------------------------------------------------------------------------
(***************************************************************************)
(* The threads, in thread.c.  A handler answers 0 or -1.                   *)
(***************************************************************************)
thread_pipeline_enable(t, p) ==
    IF n_regular[t] >= Capacity
    THEN /\ replying' = [replying EXCEPT ![t] = -1]
         /\ UNCHANGED <<placed, n_regular>>
    ELSE /\ replying' = [replying EXCEPT ![t] = 0]
         /\ placed' = [placed EXCEPT ![t][p] = @ + 1]
         /\ n_regular' = [n_regular EXCEPT ![t] = @ + 1]

thread_pipeline_disable(t, p) ==
    IF placed[t][p] = 0
    THEN /\ replying' = [replying EXCEPT ![t] = -1]
         /\ UNCHANGED <<placed, n_regular>>
    ELSE /\ replying' = [replying EXCEPT ![t] = 0]
         /\ placed' = [placed EXCEPT ![t][p] = @ - 1]
         /\ n_regular' = [n_regular EXCEPT ![t] = @ - 1]

\* A thread in the enclave has no handler; Master is not in its own while a command waits.
Serves(t) == t \notin trusted /\ (t = Master => fe.pc = "idle")

\* Faulty variant: messages are only handled while some pipeline is in the array.
thread_msg_req_handle_only_busy(t) ==
    /\ Serves(t) /\ replying[t] = NULL /\ msgq_in[t] # <<>> /\ n_regular[t] > 0
    /\ LET req == Head(msgq_in[t])
       IN  CASE req.op = "enable"   -> thread_pipeline_enable(t, req.p)
             [] req.op = "disable"  -> thread_pipeline_disable(t, req.p)
             [] req.op = "headroom" -> /\ replying' = [replying EXCEPT ![t] = 0]
                                       /\ UNCHANGED <<placed, n_regular>>
    /\ msgq_in' = [msgq_in EXCEPT ![t] = Tail(@)]
    /\ UNCHANGED <<trusted, msgq_out, enabled, fe, issued, timeouts>>

thread_msg_req_handle(t) ==
    /\ Serves(t) /\ replying[t] = NULL /\ msgq_in[t] # <<>>
    /\ LET req == Head(msgq_in[t])
       IN  CASE req.op = "enable"   -> thread_pipeline_enable(t, req.p)
             [] req.op = "disable"  -> thread_pipeline_disable(t, req.p)
             [] req.op = "headroom" -> /\ replying' = [replying EXCEPT ![t] = 0]
                                       /\ UNCHANGED <<placed, n_regular>>
    /\ msgq_in' = [msgq_in EXCEPT ![t] = Tail(@)]
    /\ UNCHANGED <<trusted, msgq_out, enabled, fe, issued, timeouts>>

\* Faulty variant: a reply that finds the ring full is dropped.
thread_msg_send_once(t) ==
    /\ replying[t] # NULL
    /\ msgq_out' = IF Len(msgq_out[t]) < RingSlots
                     THEN [msgq_out EXCEPT ![t] = Append(@, replying[t])] ELSE msgq_out
    /\ replying' = [replying EXCEPT ![t] = NULL]
    /\ UNCHANGED <<trusted, placed, n_regular, msgq_in, enabled, fe, issued, timeouts>>

\* It spins while the reply ring is full.
thread_msg_send(t) ==
    /\ replying[t] # NULL /\ Len(msgq_out[t]) < RingSlots
    /\ msgq_out' = [msgq_out EXCEPT ![t] = Append(@, replying[t])]
    /\ replying' = [replying EXCEPT ![t] = NULL]
    /\ UNCHANGED <<trusted, placed, n_regular, msgq_in, enabled, fe, issued, timeouts>>

Next ==
    \/ \E t \in Threads, req \in Requests : Issue(t, req)
    \/ Send \/ Receive \/ Timeout
    \/ \E t \in Threads : thread_msg_req_handle(t) \/ thread_msg_send(t)

(***************************************************************************)
(* Every thread goes round its loop and handles a message once per timer   *)
(* period; a waiting command ends with a reply or at its deadline.         *)
(***************************************************************************)
Fairness ==
    /\ WF_vars(Send) /\ WF_vars(Receive \/ Timeout)
    /\ \A t \in Threads : WF_vars(thread_msg_req_handle(t)) /\ WF_vars(thread_msg_send(t))

Spec == Init /\ [][Next]_vars /\ Fairness

-----------------------------------------------------------------------------
TypeOK ==
    /\ trusted \subseteq Threads
    /\ placed \in [Threads -> [Pipelines -> Nat]]
    /\ n_regular \in [Threads -> Int]
    /\ msgq_in \in [Threads -> Seq(Requests)] /\ msgq_out \in [Threads -> Seq(Statuses)]
    /\ replying \in [Threads -> Statuses \cup {NULL}]
    /\ enabled \in [Pipelines -> BOOLEAN]
    /\ fe \in [pc : {"idle", "send", "recv"}, t : Threads, req : Requests]
    /\ issued \in Nat /\ timeouts \in [Threads -> Nat]

NoTimeouts == \A t \in Threads : timeouts[t] = 0

(***************************************************************************)
(* As long as no command has timed out, no pipeline is ever in two places: *)
(* two threads, or one thread twice, would run it without any locking.     *)
(* And whenever no command is under way the flag tells exactly whether the *)
(* pipeline is in some array.                                              *)
(***************************************************************************)
FlagMatchesThreads ==
    NoTimeouts =>
      /\ \A p \in Pipelines : \A t, u \in Threads :
           placed[t][p] <= 1 /\ (t # u => placed[t][p] = 0 \/ placed[u][p] = 0)
      /\ fe.pc = "idle" =>
           \A p \in Pipelines : enabled[p] <=> \E t \in Threads : placed[t][p] = 1

(***************************************************************************)
(* Every command that gave up leaves exactly one message behind for good,  *)
(* a request or a reply of its thread: besides that of the command that    *)
(* waits, as many are under way as commands to that thread have timed out. *)
(* So every later command to thread t reads the status of the command that *)
(* was sent to it timeouts[t] commands earlier, and never catches up.      *)
(***************************************************************************)
UnderWay(t) ==
    Len(msgq_in[t]) + Len(msgq_out[t]) + (IF replying[t] = NULL THEN 0 ELSE 1)

StatusesLagByTimeouts ==
    \A t \in Threads :
      UnderWay(t) = timeouts[t] + (IF fe.pc = "recv" /\ fe.t = t THEN 1 ELSE 0)

(***************************************************************************)
(* The command line answers: a command to any thread, one in the enclave   *)
(* and its own included, returns, with an error if it has to, until as     *)
(* many commands to that thread have timed out as its request ring holds.  *)
(***************************************************************************)
CommandsReturn ==
    \A t \in Threads :
      (fe.pc # "idle" /\ fe.t = t /\ timeouts[t] < RingSlots) ~> (fe.pc = "idle")

(***************************************************************************)
(* Every thread outside the enclave gets to its messages, also those of    *)
(* commands that have given up and, in the end, those that the command     *)
(* line sends to its own thread, unless it is stuck on a full reply ring   *)
(* or the command line is in a command for ever.                           *)
(***************************************************************************)
RequestsAreHandled ==
    \A t \in Threads :
      <>[](t \notin trusted /\ fe.pc = "idle" /\ timeouts[t] <= RingSlots => msgq_in[t] = <<>>)
=============================================================================
