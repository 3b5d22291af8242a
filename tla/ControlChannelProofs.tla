------------------------ MODULE ControlChannelProofs ------------------------
(***************************************************************************)
(* For rings of every size and any number of commands: requests are        *)
(* answered in order and none is lost, so that the reply of a command lags *)
(* by the timeouts so far, and the timeouts are at most 2 * RingSlots + 1. *)
(***************************************************************************)
EXTENDS ControlChannel, TLAPS, SequenceTheorems

Inv == TypeOK /\ OutstandingInOrder /\ Sent \in Nat /\ Oldest \in Nat \ {0}

(***************************************************************************)
(* What the ring operations do to a sequence of messages.                  *)
(***************************************************************************)
LEMMA AppendFacts ==
    ASSUME NEW q \in Seq(Nat \ {0}), NEW m \in Nat \ {0}
    PROVE  /\ Append(q, m) \in Seq(Nat \ {0})
           /\ Len(Append(q, m)) = Len(q) + 1
           /\ \A i \in 1 .. Len(q) : Append(q, m)[i] = q[i]
           /\ Append(q, m)[Len(q) + 1] = m
BY AppendProperties

LEMMA TailFacts ==
    ASSUME NEW q \in Seq(Nat \ {0}), q # <<>>
    PROVE  /\ Head(q) \in Nat \ {0} /\ Head(q) = q[1]
           /\ Tail(q) \in Seq(Nat \ {0})
           /\ Len(q) \in Nat \ {0} /\ Len(Tail(q)) = Len(q) - 1
           /\ \A i \in 1 .. Len(q) - 1 : Tail(q)[i] = q[i + 1]
<1>1. Len(q) \in Nat \ {0}
  BY EmptySeq, LenProperties
<1> QED
  BY <1>1, HeadTailProperties

LEMMA InitInv == Init => Inv
BY ChannelAssumption
   DEF Init, Inv, TypeOK, OutstandingInOrder, Busy, Waiting, Sent, Oldest

LEMMA NextKeepsInv == Inv /\ [Next]_vars => Inv'
<1> SUFFICES ASSUME Inv, [Next]_vars PROVE Inv'
  OBVIOUS
<1> USE ChannelAssumption DEF Inv
<1>0. /\ Len(msgq_in) \in Nat /\ Len(msgq_out) \in Nat
      /\ Busy \in Nat /\ Sent \in Nat /\ Oldest \in Nat \ {0} /\ Waiting \in Nat /\ timeouts \in Nat
  BY LenProperties DEF TypeOK, Busy, Waiting
<1>o. /\ Len(msgq_out) + Busy + Len(msgq_in) = timeouts + Waiting
      /\ \A i \in 1 .. Len(msgq_out) : msgq_out[i] = Oldest + i - 1
      /\ be # 0 => be = Oldest + Len(msgq_out)
      /\ \A i \in 1 .. Len(msgq_in) : msgq_in[i] = Oldest + Len(msgq_out) + Busy + i - 1
  BY DEF OutstandingInOrder
<1>1. CASE Issue
  <2>1. Busy' = Busy /\ Waiting' = Waiting /\ Sent' = Sent /\ Oldest' = Oldest
    BY <1>1 DEF Issue, TypeOK, Busy, Waiting, Sent, Oldest
  <2>2. OutstandingInOrder'
    BY <1>1, <1>o, <2>1 DEF Issue, OutstandingInOrder
  <2> QED
    BY <1>0, <1>1, <2>1, <2>2 DEF Issue, TypeOK
<1>2. CASE Send
  <2>1. Busy' = Busy /\ Waiting' = Waiting + 1 /\ Sent' = Sent + 1 /\ Oldest' = Oldest
        /\ issued = Sent + 1 /\ issued \in Nat \ {0} /\ Oldest = Sent + 1 - (timeouts + Waiting)
    BY <1>0, <1>2 DEF Send, TypeOK, Busy, Waiting, Sent, Oldest
  <2>2. /\ msgq_in' \in Seq(Nat \ {0})
        /\ Len(msgq_in') = Len(msgq_in) + 1
        /\ \A i \in 1 .. Len(msgq_in) : msgq_in'[i] = msgq_in[i]
        /\ msgq_in'[Len(msgq_in) + 1] = issued
    BY <1>2, <2>1, AppendFacts DEF Send, TypeOK
  <2>3. TypeOK'
    BY <1>0, <1>2, <2>2 DEF Send, TypeOK
  <2>4. ASSUME NEW i \in 1 .. Len(msgq_in')
        PROVE  msgq_in'[i] = Oldest + Len(msgq_out) + Busy + i - 1
    <3>1. CASE i = Len(msgq_in) + 1
      BY <1>0, <1>o, <2>1, <2>2, <3>1
    <3>2. CASE i \in 1 .. Len(msgq_in)
      BY <1>0, <1>o, <2>2, <3>2
    <3> QED
      BY <1>0, <2>2, <3>1, <3>2
  <2>5. OutstandingInOrder'
    BY <1>0, <1>2, <1>o, <2>1, <2>2, <2>4 DEF Send, OutstandingInOrder
  <2> QED
    BY <1>0, <2>1, <2>3, <2>5
<1>3. CASE Receive
  <2>1. Busy' = Busy /\ Waiting' = Waiting - 1 /\ Waiting = 1 /\ Sent' = Sent /\ Oldest' = Oldest + 1
    BY <1>0, <1>3 DEF Receive, TypeOK, Busy, Waiting, Sent, Oldest
  <2>2. /\ Head(msgq_out) \in Nat \ {0}
        /\ msgq_out' \in Seq(Nat \ {0})
        /\ Len(msgq_out) \in Nat \ {0} /\ Len(msgq_out') = Len(msgq_out) - 1
        /\ \A i \in 1 .. Len(msgq_out) - 1 : msgq_out'[i] = msgq_out[i + 1]
    BY <1>3, TailFacts DEF Receive, TypeOK
  <2>3. TypeOK'
    BY <1>3, <2>2 DEF Receive, TypeOK
  <2>4. ASSUME NEW i \in 1 .. Len(msgq_out') PROVE msgq_out'[i] = Oldest + 1 + i - 1
    <3>1. i \in 1 .. Len(msgq_out) - 1 /\ i + 1 \in 1 .. Len(msgq_out)
      BY <1>0, <2>2
    <3>2. msgq_out[i + 1] = Oldest + (i + 1) - 1
      BY <1>o, <3>1
    <3> QED
      BY <1>0, <2>2, <3>1, <3>2
  <2>5. OutstandingInOrder'
    BY <1>0, <1>3, <1>o, <2>1, <2>2, <2>4 DEF Receive, OutstandingInOrder
  <2> QED
    BY <1>0, <2>1, <2>3, <2>5
<1>4. CASE Timeout
  <2>1. Busy' = Busy /\ Waiting' = Waiting - 1 /\ timeouts' = timeouts + 1
        /\ Sent' = Sent /\ Oldest' = Oldest
    BY <1>0, <1>4 DEF Timeout, TypeOK, Busy, Waiting, Sent, Oldest
  <2>2. OutstandingInOrder'
    <3>1. UNCHANGED <<msgq_in, be, msgq_out>>
      BY <1>4 DEF Timeout
    <3>2. Len(msgq_out') + Busy' + Len(msgq_in') = timeouts' + Waiting'
      BY <1>0, <1>o, <2>1, <3>1
    <3> QED
      BY <1>o, <2>1, <3>1, <3>2 DEF OutstandingInOrder
  <2> QED
    BY <1>0, <1>4, <2>1, <2>2 DEF Timeout, TypeOK
<1>5. CASE Handle
  <2>1. Waiting' = Waiting /\ Sent' = Sent /\ Oldest' = Oldest /\ Busy = 0
    BY <1>5 DEF Handle, TypeOK, Busy, Waiting, Sent, Oldest
  <2>2. /\ be' \in Nat \ {0} /\ be' = msgq_in[1]
        /\ msgq_in' \in Seq(Nat \ {0})
        /\ Len(msgq_in) \in Nat \ {0} /\ Len(msgq_in') = Len(msgq_in) - 1
        /\ \A i \in 1 .. Len(msgq_in) - 1 : msgq_in'[i] = msgq_in[i + 1]
    BY <1>5, TailFacts DEF Handle, TypeOK
  <2>3. TypeOK' /\ Busy' = 1
    BY <1>5, <2>2 DEF Handle, TypeOK, Busy
  <2>4. be' = Oldest + Len(msgq_out)
    BY <1>0, <1>o, <2>1, <2>2
  <2>5. ASSUME NEW i \in 1 .. Len(msgq_in')
        PROVE  msgq_in'[i] = Oldest + Len(msgq_out) + 1 + i - 1
    <3>1. i \in 1 .. Len(msgq_in) - 1 /\ i + 1 \in 1 .. Len(msgq_in)
      BY <1>0, <2>2
    <3>2. msgq_in[i + 1] = Oldest + Len(msgq_out) + Busy + (i + 1) - 1
      BY <1>o, <3>1
    <3> QED
      BY <1>0, <2>1, <2>2, <3>1, <3>2
  <2>6. OutstandingInOrder'
    <3>1. msgq_out' = msgq_out /\ timeouts' = timeouts
      BY <1>5 DEF Handle
    <3>2. Len(msgq_out') + Busy' + Len(msgq_in') = timeouts' + Waiting'
      <4>1. Len(msgq_out) + 0 + Len(msgq_in) = timeouts + Waiting
        BY <1>o, <2>1
      <4>2. Len(msgq_in') = Len(msgq_in) - 1 /\ Busy' = 1 /\ Waiting' = Waiting
        BY <2>1, <2>2, <2>3
      <4> QED
        BY <1>0, <3>1, <4>1, <4>2
    <3>3. \A i \in 1 .. Len(msgq_out') : msgq_out'[i] = Oldest' + i - 1
      BY <1>o, <2>1, <3>1
    <3>4. \A i \in 1 .. Len(msgq_in') :
             msgq_in'[i] = Oldest' + Len(msgq_out') + Busy' + i - 1
      BY <2>1, <2>3, <2>5, <3>1
    <3> QED
      BY <2>1, <2>4, <3>1, <3>2, <3>3, <3>4 DEF OutstandingInOrder
  <2> QED
    BY <1>0, <2>1, <2>3, <2>6
<1>6. CASE Reply
  <2>1. Waiting' = Waiting /\ Sent' = Sent /\ Oldest' = Oldest /\ Busy = 1 /\ Busy' = 0
        /\ be \in Nat \ {0}
    BY <1>6 DEF Reply, TypeOK, Busy, Waiting, Sent, Oldest
  <2>2. /\ msgq_out' \in Seq(Nat \ {0})
        /\ Len(msgq_out') = Len(msgq_out) + 1
        /\ \A i \in 1 .. Len(msgq_out) : msgq_out'[i] = msgq_out[i]
        /\ msgq_out'[Len(msgq_out) + 1] = be
    BY <1>6, <2>1, AppendFacts DEF Reply, TypeOK
  <2>3. TypeOK'
    BY <1>0, <1>6, <2>2 DEF Reply, TypeOK
  <2>4. ASSUME NEW i \in 1 .. Len(msgq_out') PROVE msgq_out'[i] = Oldest + i - 1
    <3>1. CASE i = Len(msgq_out) + 1
      BY <1>0, <1>o, <2>1, <2>2, <3>1
    <3>2. CASE i \in 1 .. Len(msgq_out)
      BY <1>0, <1>o, <2>2, <3>2
    <3> QED
      BY <1>0, <2>2, <3>1, <3>2
  <2>5. OutstandingInOrder'
    BY <1>0, <1>6, <1>o, <2>1, <2>2, <2>4 DEF Reply, OutstandingInOrder
  <2> QED
    BY <1>0, <2>1, <2>3, <2>5
<1>7. CASE UNCHANGED vars
  BY <1>7 DEF vars, TypeOK, OutstandingInOrder, Busy, Waiting, Sent, Oldest
<1> QED
  BY <1>1, <1>2, <1>3, <1>4, <1>5, <1>6, <1>7 DEF Next

THEOREM AlwaysInv == Spec => []Inv
BY InitInv, NextKeepsInv, PTL DEF Spec

(***************************************************************************)
(* Requests are neither lost nor reordered, for rings of every size.       *)
(***************************************************************************)
THEOREM AlwaysOutstandingInOrder == Spec => []OutstandingInOrder
<1>1. Inv => OutstandingInOrder
  BY DEF Inv
<1> QED
  BY AlwaysInv, <1>1, PTL

(***************************************************************************)
(* The channel survives exactly 2 * RingSlots timeouts.                    *)
(***************************************************************************)
THEOREM AlwaysTimeoutsFillTheRings == Spec => []TimeoutsFillTheRings
<1>1. Inv => TimeoutsFillTheRings
  <2> SUFFICES ASSUME Inv PROVE TimeoutsFillTheRings
    OBVIOUS
  <2>1. Len(msgq_in) \in Nat /\ Len(msgq_out) \in Nat
    BY LenProperties DEF Inv, TypeOK
  <2> QED
    BY <2>1, ChannelAssumption
       DEF Inv, TypeOK, OutstandingInOrder, TimeoutsFillTheRings, Busy, Waiting
<1> QED
  BY AlwaysInv, <1>1, PTL

(***************************************************************************)
(* The reply a command takes is that of the command issued as many         *)
(* commands earlier as there were timeouts.                                *)
(***************************************************************************)
THEOREM AlwaysRepliesLag == Spec => RepliesLagByTimeouts
<1>1. Inv /\ [Next]_vars => [answered' # answered => answered' = issued - timeouts]_vars
  <2> SUFFICES ASSUME Inv, Next, answered' # answered
               PROVE  answered' = issued - timeouts
    BY DEF vars
  <2>1. Receive
    BY DEF Next, Issue, Send, Timeout, Handle, Reply
  <2>2. answered' = msgq_out[1] /\ Len(msgq_out) \in Nat \ {0}
    BY <2>1, TailFacts DEF Receive, Inv, TypeOK
  <2>3. Oldest \in Nat /\ \A i \in 1 .. Len(msgq_out) : msgq_out[i] = Oldest + i - 1
    BY DEF Inv, OutstandingInOrder
  <2>4. answered' = Oldest
    BY <2>2, <2>3
  <2> QED
    BY <2>1, <2>4 DEF Receive, Inv, TypeOK, Oldest, Sent, Waiting
<1> QED
  BY AlwaysInv, <1>1, PTL DEF Spec, RepliesLagByTimeouts
=============================================================================
