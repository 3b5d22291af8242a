-------------------------- MODULE AppThreadProofs ---------------------------
(***************************************************************************)
(* For every number of threads and pipelines, rings of every size and any  *)
(* number of commands: while no command has timed out, no pipeline is in   *)
(* two places and the front end's flags are right.                         *)
(*                                                                         *)
(* The flags alone are not inductive.  What makes them right is that       *)
(* without timeouts at most one message is under way, the one of the       *)
(* command that waits, and that a status on its way back tells where the   *)
(* pipeline now is.                                                        *)
(***************************************************************************)
EXTENDS AppThread, TLAPS, FiniteSetTheorems

Running(p) == \E t \in Threads : placed[t][p] = 1

InOnePlace ==
    \A p \in Pipelines : \A t, u \in Threads :
      placed[t][p] <= 1 /\ (t # u => placed[t][p] = 0 \/ placed[u][p] = 0)

Quiet(t) == msgq_in[t] = <<>> /\ msgq_out[t] = <<>> /\ replying[t] = NULL

FlagRight(p) == enabled[p] <=> Running(p)

\* What a status says of the pipeline of the request it answers.
Truthful(status) ==
    fe.req.op # "headroom" => (Running(fe.req.p) <=> (fe.req.op = "enable" <=> status = 0))

Asked == msgq_in[fe.t] = <<fe.req>> /\ msgq_out[fe.t] = <<>> /\ replying[fe.t] = NULL

Handled ==
    /\ msgq_in[fe.t] = <<>>
    /\ \/ msgq_out[fe.t] = <<>> /\ replying[fe.t] \in Statuses /\ Truthful(replying[fe.t])
       \/ /\ replying[fe.t] = NULL
          /\ \E s \in Statuses : msgq_out[fe.t] = <<s>> /\ Truthful(s)

OneCommand ==
    /\ InOnePlace
    /\ fe.pc # "recv" => \A t \in Threads : Quiet(t)
    /\ fe.pc # "recv" => \A p \in Pipelines : FlagRight(p)
    /\ fe.pc # "idle" => /\ fe.req.op = "enable" => ~enabled[fe.req.p]
                         /\ fe.req.op = "disable" => enabled[fe.req.p]
    /\ fe.pc = "recv" =>
         /\ \A t \in Threads : t # fe.t => Quiet(t)
         /\ \A p \in Pipelines : p # fe.req.p => FlagRight(p)
         /\ \/ Asked /\ \A p \in Pipelines : FlagRight(p)
            \/ Handled

Inv == TypeOK /\ (NoTimeouts => OneCommand)

-----------------------------------------------------------------------------
LEMMA RequestFacts ==
    ASSUME NEW r \in Requests
    PROVE  /\ r.op \in {"enable", "disable", "headroom"}
           /\ r.op # "headroom" => r.p \in Pipelines
           /\ r.op = "headroom" => r.p = NULL /\ r.p \notin Pipelines
BY ThreadAssumption DEF Requests

LEMMA PlacedType ==
    ASSUME placed \in [Threads -> [Pipelines -> Nat]],
           NEW t \in Threads, NEW p \in Pipelines, NEW n \in Nat
    PROVE  [placed EXCEPT ![t][p] = n] \in [Threads -> [Pipelines -> Nat]]
OBVIOUS

LEMMA InitTypeOK == Init => TypeOK
<1> SUFFICES ASSUME Init PROVE TypeOK
  OBVIOUS
<1>1. PICK core \in [Pipelines -> Threads] :
        /\ trusted = {core[p] : p \in Firewalls}
        /\ placed = [t \in Threads |-> [p \in Pipelines |-> IF core[p] = t THEN 1 ELSE 0]]
        /\ n_regular = [t \in Threads |-> Cardinality({p \in Pipelines \ Firewalls : core[p] = t})]
        /\ msgq_in = [t \in Threads |-> <<>>] /\ msgq_out = [t \in Threads |-> <<>>]
        /\ replying = [t \in Threads |-> NULL]
        /\ enabled = [p \in Pipelines |-> TRUE]
        /\ fe = Idle /\ issued = 0
        /\ timeouts = [t \in Threads |-> 0]
  BY DEF Init
<1>2. trusted \subseteq Threads
  BY <1>1, ThreadAssumption
<1>3. placed \in [Threads -> [Pipelines -> Nat]]
  BY <1>1
<1>4. n_regular \in [Threads -> Int]
  <2>1. ASSUME NEW t \in Threads
        PROVE  Cardinality({p \in Pipelines \ Firewalls : core[p] = t}) \in Int
    BY ThreadAssumption, FS_Subset, FS_CardinalityType
  <2> QED
    BY <1>1, <2>1
<1>5. fe \in [pc : {"idle", "send", "recv"}, t : Threads, req : Requests]
  BY <1>1, ThreadAssumption DEF Idle, Requests
<1> QED
  BY <1>1, <1>2, <1>3, <1>4, <1>5 DEF TypeOK

LEMMA InitInv == Init => Inv
<1> SUFFICES ASSUME Init PROVE Inv
  OBVIOUS
<1>1. PICK core \in [Pipelines -> Threads] :
        /\ placed = [t \in Threads |-> [p \in Pipelines |-> IF core[p] = t THEN 1 ELSE 0]]
        /\ msgq_in = [t \in Threads |-> <<>>] /\ msgq_out = [t \in Threads |-> <<>>]
        /\ replying = [t \in Threads |-> NULL]
        /\ enabled = [p \in Pipelines |-> TRUE]
        /\ fe = Idle
  BY DEF Init
<1>2. InOnePlace
  BY <1>1 DEF InOnePlace
<1>3. \A t \in Threads : Quiet(t)
  BY <1>1 DEF Quiet
<1>4. ASSUME NEW p \in Pipelines PROVE FlagRight(p)
  <2>1. placed[core[p]][p] = 1
    BY <1>1
  <2> QED
    BY <1>1, <2>1 DEF FlagRight, Running
<1>5. fe.pc = "idle"
  BY <1>1 DEF Idle
<1> QED
  BY <1>2, <1>3, <1>4, <1>5, InitTypeOK DEF Inv, OneCommand

(***************************************************************************)
(* The types, action by action.                                            *)
(***************************************************************************)
LEMMA NextKeepsTypes == TypeOK /\ [Next]_vars => TypeOK'
<1> SUFFICES ASSUME TypeOK, [Next]_vars PROVE TypeOK'
  OBVIOUS
<1> USE DEF TypeOK
<1>1. ASSUME NEW t \in Threads, NEW req \in Requests, Issue(t, req) PROVE TypeOK'
  BY <1>1 DEF Issue
<1>2. CASE Send
  <2>1. Append(msgq_in[fe.t], fe.req) \in Seq(Requests)
    OBVIOUS
  <2> QED
    BY <1>2, <2>1 DEF Send
<1>i. Idle \in [pc : {"idle", "send", "recv"}, t : Threads, req : Requests]
  BY ThreadAssumption DEF Idle, Requests
<1>3. CASE Receive
  <2>1. enabled' \in [Pipelines -> BOOLEAN]
    BY <1>3, RequestFacts DEF Receive
  <2>2. Tail(msgq_out[fe.t]) \in Seq(Statuses)
    BY <1>3 DEF Receive
  <2> QED
    BY <1>3, <1>i, <2>1, <2>2 DEF Receive
<1>4. CASE Timeout
  BY <1>4, <1>i DEF Timeout
<1>5. ASSUME NEW t \in Threads, thread_msg_req_handle(t) PROVE TypeOK'
  <2> DEFINE req == Head(msgq_in[t])
  <2>1. req \in Requests /\ Tail(msgq_in[t]) \in Seq(Requests)
    BY <1>5 DEF thread_msg_req_handle
  <2>2. placed' \in [Threads -> [Pipelines -> Nat]] /\ n_regular' \in [Threads -> Int]
        /\ replying' \in [Threads -> Statuses \cup {NULL}]
    <3>1. CASE req.op = "enable"
      <4>1. thread_pipeline_enable(t, req.p) /\ req.p \in Pipelines
        BY <1>5, <2>1, <3>1, RequestFacts DEF thread_msg_req_handle
      <4> HIDE DEF req
      <4>2. [placed EXCEPT ![t][req.p] = @ + 1] \in [Threads -> [Pipelines -> Nat]]
        BY <4>1, PlacedType
      <4>3. placed' \in [Threads -> [Pipelines -> Nat]]
        BY <4>1, <4>2 DEF thread_pipeline_enable
      <4>4. n_regular' \in [Threads -> Int]
        BY <4>1 DEF thread_pipeline_enable
      <4>5. replying' \in [Threads -> Statuses \cup {NULL}]
        BY <4>1 DEF thread_pipeline_enable, Statuses
      <4> QED
        BY <4>3, <4>4, <4>5
    <3>2. CASE req.op = "disable"
      <4>1. thread_pipeline_disable(t, req.p) /\ req.p \in Pipelines
        BY <1>5, <2>1, <3>2, RequestFacts DEF thread_msg_req_handle
      <4> HIDE DEF req
      <4>2. placed[t][req.p] # 0
              => [placed EXCEPT ![t][req.p] = @ - 1] \in [Threads -> [Pipelines -> Nat]]
        BY <4>1, PlacedType
      <4>3. placed' \in [Threads -> [Pipelines -> Nat]]
        BY <4>1, <4>2 DEF thread_pipeline_disable
      <4>4. n_regular' \in [Threads -> Int]
        BY <4>1 DEF thread_pipeline_disable
      <4>5. replying' \in [Threads -> Statuses \cup {NULL}]
        BY <4>1 DEF thread_pipeline_disable, Statuses
      <4> QED
        BY <4>3, <4>4, <4>5
    <3>3. CASE req.op = "headroom"
      BY <1>5, <3>3 DEF thread_msg_req_handle, Statuses
    <3> QED
      BY <2>1, <3>1, <3>2, <3>3, RequestFacts
  <2> QED
    BY <1>5, <2>1, <2>2 DEF thread_msg_req_handle
<1>6. ASSUME NEW t \in Threads, thread_msg_send(t) PROVE TypeOK'
  <2>1. Append(msgq_out[t], replying[t]) \in Seq(Statuses)
    BY <1>6 DEF thread_msg_send
  <2> QED
    BY <1>6, <2>1 DEF thread_msg_send
<1>7. CASE UNCHANGED vars
  BY <1>7 DEF vars
<1> QED
  BY <1>1, <1>2, <1>3, <1>4, <1>5, <1>6, <1>7 DEF Next

(***************************************************************************)
(* Timeouts are never forgotten, so a step to a state without any comes    *)
(* from one without any, and is not a timeout.                             *)
(***************************************************************************)
LEMMA TimeoutsStay ==
    ASSUME TypeOK, [Next]_vars, NoTimeouts'
    PROVE  NoTimeouts /\ ~Timeout
<1>1. ~Timeout
  <2> SUFFICES ASSUME Timeout PROVE FALSE
    OBVIOUS
  <2>1. timeouts'[fe.t] = timeouts[fe.t] + 1 /\ fe.t \in Threads
    BY DEF Timeout, TypeOK
  <2> QED
    BY <2>1 DEF NoTimeouts, TypeOK
<1>2. UNCHANGED timeouts
  BY <1>1 DEF Next, vars, Issue, Send, Receive, thread_msg_req_handle, thread_msg_send
<1> QED
  BY <1>1, <1>2 DEF NoTimeouts

LEMMA NoneOrOne ==
    ASSUME TypeOK, InOnePlace, NEW t \in Threads, NEW p \in Pipelines
    PROVE  placed[t][p] = 0 \/ placed[t][p] = 1
<1>1. placed[t][p] \in Nat
  BY DEF TypeOK
<1>2. placed[t][p] <= 1
  BY DEF InOnePlace
<1> QED
  BY <1>1, <1>2

\* A handler that answers changes one place at most, and its answer says which way.
LEMMA EnableAnswer ==
    ASSUME TypeOK, InOnePlace, NEW t \in Threads, NEW p \in Pipelines, ~Running(p),
           thread_pipeline_enable(t, p)
    PROVE  /\ InOnePlace' /\ replying'[t] \in Statuses
           /\ Running(p)' <=> replying'[t] = 0
           /\ \A q \in Pipelines : q # p => (Running(q)' <=> Running(q))
<1>0. \A u \in Threads : placed[u][p] = 0
  BY NoneOrOne DEF Running
<1>1. CASE n_regular[t] >= Capacity
  <2>1. placed' = placed /\ replying'[t] = -1
    BY <1>1 DEF thread_pipeline_enable, TypeOK
  <2> QED
    BY <2>1 DEF InOnePlace, Running, Statuses
<1>2. CASE ~(n_regular[t] >= Capacity)
  <2>1. /\ replying'[t] = 0
        /\ \A u \in Threads, q \in Pipelines :
             placed'[u][q] = IF u = t /\ q = p THEN 1 ELSE placed[u][q]
    BY <1>0, <1>2 DEF thread_pipeline_enable, TypeOK
  <2>2. InOnePlace'
    BY <1>0, <2>1 DEF InOnePlace
  <2> QED
    BY <2>1, <2>2 DEF Running, Statuses
<1> QED
  BY <1>1, <1>2

LEMMA DisableAnswer ==
    ASSUME TypeOK, InOnePlace, NEW t \in Threads, NEW p \in Pipelines, Running(p),
           thread_pipeline_disable(t, p)
    PROVE  /\ InOnePlace' /\ replying'[t] \in Statuses
           /\ Running(p)' <=> replying'[t] # 0
           /\ \A q \in Pipelines : q # p => (Running(q)' <=> Running(q))
<1>1. CASE placed[t][p] = 0
  <2>1. placed' = placed /\ replying'[t] = -1
    BY <1>1 DEF thread_pipeline_disable, TypeOK
  <2> QED
    BY <2>1 DEF InOnePlace, Running, Statuses
<1>2. CASE placed[t][p] # 0
  <2>0. placed[t][p] = 1 /\ \A u \in Threads : u # t => placed[u][p] = 0
    BY <1>2, NoneOrOne DEF InOnePlace
  <2>1. /\ replying'[t] = 0
        /\ \A u \in Threads, q \in Pipelines :
             placed'[u][q] = IF u = t /\ q = p THEN 0 ELSE placed[u][q]
    <3>1. replying'[t] = 0 /\ placed' = [placed EXCEPT ![t][p] = 0]
      BY <1>2, <2>0 DEF thread_pipeline_disable, TypeOK
    <3>2. placed \in [Threads -> [Pipelines -> Nat]]
      BY DEF TypeOK
    <3> QED
      BY <3>1, <3>2
  <2>2. InOnePlace'
    BY <2>0, <2>1 DEF InOnePlace
  <2>3. ~Running(p)'
    BY <2>0, <2>1 DEF Running
  <2> QED
    BY <2>1, <2>2, <2>3 DEF Running, Statuses
<1> QED
  BY <1>1, <1>2

LEMMA NextKeepsOneCommand ==
    ASSUME TypeOK, OneCommand, [Next]_vars, ~Timeout
    PROVE  OneCommand'
<1>0. /\ fe.pc \in {"idle", "send", "recv"} /\ fe.t \in Threads /\ fe.req \in Requests
      /\ InOnePlace
  BY DEF TypeOK, OneCommand
<1>1. ASSUME NEW t \in Threads, NEW req \in Requests, Issue(t, req) PROVE OneCommand'
  <2>1. /\ fe.pc = "idle" /\ fe'.pc = "send" /\ fe'.req = req
        /\ UNCHANGED <<placed, msgq_in, msgq_out, replying, enabled>>
        /\ req.op = "enable" => ~enabled[req.p]
        /\ req.op = "disable" => enabled[req.p]
    BY <1>1 DEF Issue
  <2>2. /\ \A u \in Threads : Quiet(u)
        /\ \A p \in Pipelines : FlagRight(p)
    BY <2>1 DEF OneCommand
  <2>3. /\ InOnePlace'
        /\ \A u \in Threads : Quiet(u)'
        /\ \A p \in Pipelines : FlagRight(p)'
    BY <1>0, <2>1, <2>2 DEF InOnePlace, Quiet, FlagRight, Running
  <2> QED
    BY <2>1, <2>3 DEF OneCommand
<1>2. CASE Send
  <2>1. /\ fe.pc = "send" /\ fe'.pc = "recv" /\ fe'.req = fe.req /\ fe'.t = fe.t
        /\ UNCHANGED <<placed, msgq_out, replying, enabled>>
        /\ msgq_in'[fe.t] = Append(msgq_in[fe.t], fe.req)
        /\ \A t \in Threads : t # fe.t => msgq_in'[t] = msgq_in[t]
    BY <1>2 DEF Send, TypeOK
  <2>2. /\ \A u \in Threads : Quiet(u)
        /\ \A p \in Pipelines : FlagRight(p)
        /\ fe.req.op = "enable" => ~enabled[fe.req.p]
        /\ fe.req.op = "disable" => enabled[fe.req.p]
    BY <2>1 DEF OneCommand
  <2>3. Asked'
    <3>1. msgq_in[fe.t] = <<>> /\ msgq_out[fe.t] = <<>> /\ replying[fe.t] = NULL
      BY <1>0, <2>2 DEF Quiet
    <3>2. msgq_in'[fe.t] = <<fe.req>>
      BY <2>1, <3>1
    <3> QED
      BY <2>1, <3>1, <3>2 DEF Asked
  <2>4. /\ InOnePlace'
        /\ \A u \in Threads : u # fe.t => Quiet(u)'
        /\ \A p \in Pipelines : FlagRight(p)'
    BY <1>0, <2>1, <2>2 DEF InOnePlace, Quiet, FlagRight, Running
  <2> QED
    BY <2>1, <2>2, <2>3, <2>4 DEF OneCommand
<1>3. CASE Receive
  <2>1. /\ fe.pc = "recv" /\ fe'.pc = "idle" /\ msgq_out[fe.t] # <<>>
        /\ UNCHANGED <<placed, msgq_in, replying>>
        /\ msgq_out'[fe.t] = Tail(msgq_out[fe.t])
        /\ \A t \in Threads : t # fe.t => msgq_out'[t] = msgq_out[t]
    BY <1>3 DEF Receive, TypeOK, Idle
  <2>2. PICK s \in Statuses : msgq_out[fe.t] = <<s>> /\ Truthful(s)
    BY <2>1 DEF OneCommand, Asked, Handled
  <2>3. /\ replying[fe.t] = NULL /\ msgq_in[fe.t] = <<>>
        /\ \A t \in Threads : t # fe.t => Quiet(t)
        /\ \A p \in Pipelines : p # fe.req.p => FlagRight(p)
        /\ fe.req.op = "enable" => ~enabled[fe.req.p]
        /\ fe.req.op = "disable" => enabled[fe.req.p]
    BY <2>1 DEF OneCommand, Asked, Handled
  <2>4. \A t \in Threads : Quiet(t)'
    BY <2>1, <2>2, <2>3 DEF Quiet
  <2>5. InOnePlace'
    BY <1>0, <2>1 DEF InOnePlace
  <2>6. ASSUME NEW p \in Pipelines PROVE FlagRight(p)'
    <3>1. Running(p)' <=> Running(p)
      BY <2>1 DEF Running
    <3>2. Head(msgq_out[fe.t]) = s
      BY <2>2
    <3>3. CASE p # fe.req.p
      <4>1. enabled'[p] <=> enabled[p]
        BY <1>0, <1>3, <3>3 DEF Receive, TypeOK
      <4> QED
        BY <2>3, <3>1, <3>3, <4>1 DEF FlagRight
    <3>4. CASE p = fe.req.p
      <4>1. fe.req.op \in {"enable", "disable"}
        BY <1>0, <3>4, RequestFacts
      <4>2. CASE s = 0
        <5>1. enabled'[p] = (fe.req.op = "enable")
          BY <1>3, <3>2, <3>4, <4>1, <4>2 DEF Receive, TypeOK
        <5> QED
          BY <2>2, <3>1, <3>4, <4>1, <4>2, <5>1 DEF Truthful, FlagRight
      <4>3. CASE s # 0
        <5>1. enabled' = enabled
          BY <1>3, <3>2, <4>3 DEF Receive
        <5> QED
          BY <2>2, <2>3, <3>1, <3>4, <4>1, <4>3, <5>1 DEF Truthful, FlagRight
      <4> QED
        BY <4>2, <4>3
    <3> QED
      BY <3>3, <3>4
  <2> QED
    BY <2>1, <2>4, <2>5, <2>6 DEF OneCommand
<1>4. ASSUME NEW t \in Threads, thread_msg_req_handle(t) PROVE OneCommand'
  <2>1. msgq_in[t] # <<>> /\ UNCHANGED <<msgq_out, enabled, fe>>
        /\ msgq_in'[t] = Tail(msgq_in[t])
        /\ \A u \in Threads : u # t => msgq_in'[u] = msgq_in[u]
    BY <1>4 DEF thread_msg_req_handle, TypeOK
  <2>2. /\ fe.pc = "recv" /\ t = fe.t
        /\ Asked /\ \A p \in Pipelines : FlagRight(p)
        /\ \A u \in Threads : u # t => Quiet(u)
        /\ fe.req.op = "enable" => ~enabled[fe.req.p]
        /\ fe.req.op = "disable" => enabled[fe.req.p]
    BY <1>0, <2>1 DEF OneCommand, Quiet, Handled
  <2>3. Head(msgq_in[t]) = fe.req /\ msgq_in'[t] = <<>> /\ msgq_out'[t] = <<>>
    BY <2>1, <2>2 DEF Asked
  <2>4. \A u \in Threads : u # t => replying'[u] = replying[u]
    <3>1. fe.req.op \in {"enable", "disable", "headroom"}
      BY <1>0, RequestFacts
    <3> QED
      BY <1>4, <2>3, <3>1
         DEF thread_msg_req_handle, thread_pipeline_enable, thread_pipeline_disable, TypeOK
  <2>p. PICK p : p = fe.req.p
    OBVIOUS
  <2>5. /\ InOnePlace' /\ replying'[t] \in Statuses
        /\ fe.req.op # "headroom" => (Running(p)' <=> (fe.req.op = "enable" <=> replying'[t] = 0))
        /\ \A q \in Pipelines : q # p => (Running(q)' <=> Running(q))
    <3>1. CASE fe.req.op = "enable"
      <4>1. thread_pipeline_enable(t, p) /\ p \in Pipelines
        BY <1>0, <1>4, <2>3, <2>p, <3>1, RequestFacts DEF thread_msg_req_handle
      <4>2. ~Running(p)
        <5>1. FlagRight(p)
          BY <2>2, <4>1
        <5> QED
          BY <2>2, <2>p, <3>1, <5>1 DEF FlagRight
      <4> QED
        BY <1>0, <3>1, <4>1, <4>2, EnableAnswer
    <3>2. CASE fe.req.op = "disable"
      <4>1. thread_pipeline_disable(t, p) /\ p \in Pipelines
        BY <1>0, <1>4, <2>3, <2>p, <3>2, RequestFacts DEF thread_msg_req_handle
      <4>2. Running(p)
        <5>1. FlagRight(p)
          BY <2>2, <4>1
        <5> QED
          BY <2>2, <2>p, <3>2, <5>1 DEF FlagRight
      <4> QED
        BY <1>0, <3>2, <4>1, <4>2, DisableAnswer
    <3>3. CASE fe.req.op = "headroom"
      <4>1. placed' = placed /\ replying'[t] = 0
        BY <1>4, <2>3, <3>3 DEF thread_msg_req_handle, TypeOK
      <4> QED
        BY <1>0, <3>3, <4>1 DEF InOnePlace, Running, Statuses
    <3> QED
      BY <1>0, <3>1, <3>2, <3>3, RequestFacts
  <2>6. Handled'
    <3>1. Truthful(replying[t])'
      BY <2>1, <2>5, <2>p DEF Truthful
    <3> QED
      BY <2>1, <2>2, <2>3, <2>5, <3>1 DEF Handled
  <2>7. /\ \A u \in Threads : u # t => Quiet(u)'
        /\ \A q \in Pipelines : q # fe.req.p => FlagRight(q)'
    BY <2>1, <2>2, <2>4, <2>5, <2>p DEF Quiet, FlagRight
  <2> QED
    BY <2>1, <2>2, <2>5, <2>6, <2>7 DEF OneCommand
<1>5. ASSUME NEW t \in Threads, thread_msg_send(t) PROVE OneCommand'
  <2>1. /\ replying[t] # NULL /\ UNCHANGED <<placed, msgq_in, enabled, fe>>
        /\ msgq_out'[t] = Append(msgq_out[t], replying[t]) /\ replying'[t] = NULL
        /\ \A u \in Threads : u # t => msgq_out'[u] = msgq_out[u] /\ replying'[u] = replying[u]
    BY <1>5 DEF thread_msg_send, TypeOK
  <2>2. /\ fe.pc = "recv" /\ t = fe.t /\ Handled
        /\ \A u \in Threads : u # t => Quiet(u)
        /\ \A p \in Pipelines : p # fe.req.p => FlagRight(p)
        /\ fe.req.op = "enable" => ~enabled[fe.req.p]
        /\ fe.req.op = "disable" => enabled[fe.req.p]
    BY <1>0, <2>1 DEF OneCommand, Quiet, Asked
  <2>3. /\ msgq_in[t] = <<>> /\ msgq_out[t] = <<>>
        /\ replying[t] \in Statuses /\ Truthful(replying[t])
    BY <2>1, <2>2 DEF Handled
  <2>4. msgq_out'[t] = <<replying[t]>>
    BY <2>1, <2>3
  <2>5. \A s : Truthful(s)' <=> Truthful(s)
    BY <2>1 DEF Truthful, Running
  <2>6. Handled'
    BY <2>1, <2>2, <2>3, <2>4, <2>5 DEF Handled
  <2>7. /\ InOnePlace'
        /\ \A u \in Threads : u # t => Quiet(u)'
        /\ \A p \in Pipelines : p # fe.req.p => FlagRight(p)'
    BY <1>0, <2>1, <2>2 DEF InOnePlace, Quiet, FlagRight, Running
  <2> QED
    BY <2>1, <2>2, <2>6, <2>7 DEF OneCommand
<1>6. CASE UNCHANGED vars
  BY <1>6 DEF vars, OneCommand, InOnePlace, Quiet, FlagRight, Running, Asked, Handled, Truthful
<1> QED
  BY <1>1, <1>2, <1>3, <1>4, <1>5, <1>6 DEF Next

-----------------------------------------------------------------------------
LEMMA QueueLengths ==
    ASSUME TypeOK, NEW t \in Threads
    PROVE  /\ Len(msgq_in[t]) \in Nat /\ Len(msgq_out[t]) \in Nat /\ timeouts[t] \in Nat
           /\ \A r \in Requests : Len(Append(msgq_in[t], r)) = Len(msgq_in[t]) + 1
           /\ \A s \in Statuses : Len(Append(msgq_out[t], s)) = Len(msgq_out[t]) + 1
           /\ msgq_in[t] # <<>> => Len(Tail(msgq_in[t])) = Len(msgq_in[t]) - 1
           /\ msgq_out[t] # <<>> => Len(Tail(msgq_out[t])) = Len(msgq_out[t]) - 1
<1>1. msgq_in[t] \in Seq(Requests) /\ msgq_out[t] \in Seq(Statuses) /\ timeouts[t] \in Nat
  BY DEF TypeOK
<1> QED
  BY <1>1

\* Every handler answers.
LEMMA HandlerAnswers ==
    ASSUME TypeOK, NEW t \in Threads, thread_msg_req_handle(t)
    PROVE  replying'[t] # NULL /\ \A u \in Threads : u # t => replying'[u] = replying[u]
<1>1. Head(msgq_in[t]).op \in {"enable", "disable", "headroom"}
  <2>1. Head(msgq_in[t]) \in Requests
    BY DEF thread_msg_req_handle, TypeOK
  <2> QED
    BY <2>1, RequestFacts
<1>2. 0 # NULL /\ -1 # NULL
  BY ThreadAssumption
<1> QED
  BY <1>1, <1>2 DEF thread_msg_req_handle, thread_pipeline_enable, thread_pipeline_disable, TypeOK

LEMMA NextKeepsLag ==
    ASSUME TypeOK, StatusesLagByTimeouts, [Next]_vars, NEW u \in Threads
    PROVE  UnderWay(u)' = timeouts'[u] + (IF fe'.pc = "recv" /\ fe'.t = u THEN 1 ELSE 0)
<1> DEFINE in == Len(msgq_in[u])                       in1 == Len(msgq_in'[u])
           out == Len(msgq_out[u])                     out1 == Len(msgq_out'[u])
           rep == IF replying[u] = NULL THEN 0 ELSE 1  rep1 == IF replying'[u] = NULL THEN 0 ELSE 1
           late == timeouts[u]                         late1 == timeouts'[u]
           waits == IF fe.pc = "recv" /\ fe.t = u THEN 1 ELSE 0
           waits1 == IF fe'.pc = "recv" /\ fe'.t = u THEN 1 ELSE 0
           to(t) == IF t = u THEN 1 ELSE 0
<1>1. in \in Nat /\ out \in Nat /\ late \in Nat
  BY QueueLengths
<1>2. rep \in Nat /\ waits \in Nat /\ \A t : to(t) \in Nat
  OBVIOUS
<1>3. in + out + rep = late + waits
  BY DEF StatusesLagByTimeouts, UnderWay
<1>4. fe.t \in Threads /\ fe.req \in Requests
  BY DEF TypeOK
<1> SUFFICES in1 + out1 + rep1 = late1 + waits1
  BY DEF UnderWay
<1>5. CASE /\ UNCHANGED <<msgq_in, msgq_out, replying, timeouts>>
           /\ fe'.pc = "recv" <=> fe.pc = "recv"
           /\ fe.pc = "recv" => fe'.t = fe.t
  <2>1. in1 = in /\ out1 = out /\ rep1 = rep /\ late1 = late
    BY <1>5
  <2>2. waits1 = waits
    BY <1>5
  <2> HIDE DEF in, out, rep, late, waits, in1, out1, rep1, late1, waits1
  <2> QED
    BY <1>3, <2>1, <2>2
<1>6. CASE Send
  <2>1. out1 = out /\ rep1 = rep /\ late1 = late
    BY <1>6 DEF Send
  <2>2. in1 = in + to(fe.t)
    <3>1. fe.t = u => in1 = Len(Append(msgq_in[u], fe.req))
      BY <1>6 DEF Send, TypeOK
    <3>2. fe.t # u => in1 = in
      BY <1>6 DEF Send, TypeOK
    <3>3. CASE fe.t = u
      <4>1. in1 = in + 1 /\ to(fe.t) = 1
        BY <1>4, <3>1, <3>3, QueueLengths
      <4> QED
        BY <4>1
    <3>4. CASE fe.t # u
      BY <1>1, <3>2, <3>4
    <3> QED
      BY <3>3, <3>4
  <2>3. waits = 0 /\ waits1 = to(fe.t)
    BY <1>6 DEF Send, TypeOK
  <2> DEFINE d == to(fe.t)
  <2>4. d \in Nat /\ in1 = in + d /\ waits1 = d
    BY <2>2, <2>3
  <2> HIDE DEF in, out, rep, late, waits, in1, out1, rep1, late1, waits1, d
  <2> QED
    BY <1>1, <1>2, <1>3, <2>1, <2>3, <2>4
<1>7. CASE Receive
  <2>1. in1 = in /\ rep1 = rep /\ late1 = late
    BY <1>7 DEF Receive
  <2>2. out = out1 + to(fe.t) /\ out1 \in Int
    <3>1. fe.t = u => msgq_out[u] # <<>> /\ out1 = Len(Tail(msgq_out[u]))
      BY <1>7 DEF Receive, TypeOK
    <3>2. fe.t # u => out1 = out
      BY <1>7 DEF Receive, TypeOK
    <3>3. CASE fe.t = u
      <4>1. out1 = out - 1
        BY <3>1, <3>3, QueueLengths
      <4> QED
        BY <1>1, <3>3, <4>1
    <3>4. CASE fe.t # u
      BY <1>1, <3>2, <3>4
    <3> QED
      BY <3>3, <3>4
  <2>3. waits1 = 0 /\ waits = to(fe.t)
    BY <1>7 DEF Receive, Idle
  <2> HIDE DEF in, out, rep, late, waits, in1, out1, rep1, late1, waits1, to
  <2> QED
    BY <1>1, <1>2, <1>3, <2>1, <2>2, <2>3
<1>8. CASE Timeout
  <2>1. in1 = in /\ out1 = out /\ rep1 = rep
    BY <1>8 DEF Timeout
  <2>2. late1 = late + to(fe.t)
    BY <1>1, <1>4, <1>8 DEF Timeout, TypeOK
  <2>3. waits1 = 0 /\ waits = to(fe.t)
    BY <1>8 DEF Timeout, Idle
  <2> HIDE DEF in, out, rep, late, waits, in1, out1, rep1, late1, waits1, to
  <2> QED
    BY <1>1, <1>2, <1>3, <2>1, <2>2, <2>3
<1>9. ASSUME NEW t \in Threads, thread_msg_req_handle(t) PROVE in1 + out1 + rep1 = late1 + waits1
  <2>1. out1 = out /\ late1 = late /\ waits1 = waits
    BY <1>9 DEF thread_msg_req_handle
  <2>2. in = in1 + to(t) /\ in1 \in Int
    <3>1. t = u => msgq_in[u] # <<>> /\ in1 = Len(Tail(msgq_in[u]))
      BY <1>9 DEF thread_msg_req_handle, TypeOK
    <3>2. t # u => in1 = in
      BY <1>9 DEF thread_msg_req_handle, TypeOK
    <3>3. CASE t = u
      <4>1. in1 = in - 1
        BY <3>1, <3>3, QueueLengths
      <4> QED
        BY <1>1, <3>3, <4>1
    <3>4. CASE t # u
      BY <1>1, <3>2, <3>4
    <3> QED
      BY <3>3, <3>4
  <2>3. rep1 = rep + to(t)
    <3>1. replying[t] = NULL
      BY <1>9 DEF thread_msg_req_handle
    <3> QED
      BY <1>9, <3>1, HandlerAnswers
  <2> HIDE DEF in, out, rep, late, waits, in1, out1, rep1, late1, waits1, to
  <2> QED
    BY <1>1, <1>2, <1>3, <2>1, <2>2, <2>3
<1>10. ASSUME NEW t \in Threads, thread_msg_send(t) PROVE in1 + out1 + rep1 = late1 + waits1
  <2>1. in1 = in /\ late1 = late /\ waits1 = waits
    BY <1>10 DEF thread_msg_send
  <2>2. out1 = out + to(t)
    <3>1. replying[t] \in Statuses
      BY <1>10 DEF thread_msg_send, TypeOK
    <3>2. t = u => out1 = Len(Append(msgq_out[u], replying[u]))
      BY <1>10 DEF thread_msg_send, TypeOK
    <3>3. t # u => out1 = out
      BY <1>10 DEF thread_msg_send, TypeOK
    <3>4. CASE t = u
      <4>1. out1 = out + 1 /\ to(t) = 1
        BY <3>1, <3>2, <3>4, QueueLengths
      <4> QED
        BY <4>1
    <3>5. CASE t # u
      BY <1>1, <3>3, <3>5
    <3> QED
      BY <3>4, <3>5
  <2>3. rep = rep1 + to(t) /\ rep1 \in Int
    BY <1>10 DEF thread_msg_send, TypeOK
  <2> HIDE DEF in, out, rep, late, waits, in1, out1, rep1, late1, waits1, to
  <2> QED
    BY <1>1, <1>2, <1>3, <2>1, <2>2, <2>3
<1>11. ASSUME NEW t \in Threads, NEW req \in Requests, Issue(t, req)
       PROVE  in1 + out1 + rep1 = late1 + waits1
  BY <1>5, <1>11 DEF Issue
<1>12. CASE UNCHANGED vars
  BY <1>5, <1>12 DEF vars
<1> QED
  BY <1>6, <1>7, <1>8, <1>9, <1>10, <1>11, <1>12 DEF Next

(***************************************************************************)
(* The types of all variables, in every reachable state.                   *)
(***************************************************************************)
THEOREM AlwaysTypeOK == Spec => []TypeOK
BY InitTypeOK, NextKeepsTypes, PTL DEF Spec

LEMMA AlwaysInv == Spec => []Inv
<1>1. Inv /\ [Next]_vars => Inv'
  BY NextKeepsTypes, TimeoutsStay, NextKeepsOneCommand DEF Inv
<1> QED
  BY InitInv, <1>1, PTL DEF Spec

(***************************************************************************)
(* Without timeouts the flag p->enabled that thread_fe.c keeps is right,   *)
(* and no pipeline is ever in the arrays of thread.c twice.                *)
(***************************************************************************)
THEOREM AlwaysFlagMatchesThreads == Spec => []FlagMatchesThreads
<1>1. Inv => FlagMatchesThreads
  <2> SUFFICES ASSUME Inv, NoTimeouts
               PROVE  /\ InOnePlace
                      /\ fe.pc = "idle" => \A p \in Pipelines : FlagRight(p)
    BY DEF FlagMatchesThreads, InOnePlace, FlagRight, Running
  <2> QED
    BY DEF Inv, OneCommand
<1> QED
  BY AlwaysInv, <1>1, PTL

(***************************************************************************)
(* No message between the command line and a thread is lost: for every     *)
(* thread, one in the enclave included, as many stay under way as commands *)
(* to it have timed out, so that every later reply is taken for that of a  *)
(* command that many places later.                                         *)
(***************************************************************************)
THEOREM AlwaysStatusesLag == Spec => []StatusesLagByTimeouts
<1>1. Init => StatusesLagByTimeouts
  <2> SUFFICES ASSUME Init, NEW t \in Threads
               PROVE  UnderWay(t) = timeouts[t] + (IF fe.pc = "recv" /\ fe.t = t THEN 1 ELSE 0)
    BY DEF StatusesLagByTimeouts
  <2>1. msgq_in[t] = <<>> /\ msgq_out[t] = <<>> /\ replying[t] = NULL /\ timeouts[t] = 0 /\ fe.pc = "idle"
    BY DEF Init, Idle
  <2> QED
    BY <2>1 DEF UnderWay
<1>2. TypeOK /\ StatusesLagByTimeouts /\ [Next]_vars => StatusesLagByTimeouts'
  BY NextKeepsLag DEF StatusesLagByTimeouts
<1> QED
  BY AlwaysTypeOK, <1>1, <1>2, PTL DEF Spec
=============================================================================
