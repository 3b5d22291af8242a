--------------------------- MODULE RteRingProofs ---------------------------
(***************************************************************************)
(* The ring for any number of threads, any size, any width of the indices  *)
(* and any place they start from: the indices keep their order, the        *)
(* reservations are disjoint, calls are refused only with reason, and the  *)
(* ring implements the queue of BoundedFifo.                               *)
(*                                                                         *)
(* An index that wraps cannot be compared, so the invariant measures every *)
(* index by its distance U(s, i) from the place s where this run's indices *)
(* started.  Distances do not wrap, since a run has less than a full turn  *)
(* of enqueues, and with them the argument is about intervals of naturals: *)
(*                                                                         *)
(*   cons.tail <= cons.head <= prod.tail <= prod.head <= cons.tail + mask  *)
(*                                                                         *)
(* consumers hold disjoint intervals of the first gap, producers of the    *)
(* third, and the queue is the second.                                     *)
(***************************************************************************)
EXTENDS RteRing, TLAPS, FiniteSetTheorems, SequenceTheorems

U(s, i) == Minus(i, s)

\* Producers whose call may still reserve slots.
Pending == {p \in Producers : pc[p] \in {"head", "room", "move"}}

Calls == [objs : Seq(Objects \cup {Empty}), max : Nat, n : Nat, fixed : BOOLEAN, old : Index]

Types ==
    /\ TypeOK
    /\ call \in [Threads -> Calls]
    /\ single \in [producer : BOOLEAN, consumer : BOOLEAN]
    /\ \A t \in Threads : pc[t] # "idle" => call[t].max \in 1 .. MaxBurst
    /\ \A p \in Producers : pc[p] # "idle" => call[p].objs \in Bursts /\ Len(call[p].objs) = call[p].max

Order(s) ==
    /\ U(s, cons.tail) <= U(s, cons.head) /\ U(s, cons.head) <= U(s, prod.tail)
    /\ U(s, prod.tail) <= U(s, prod.head) /\ U(s, prod.head) <= U(s, cons.tail) + mask

\* Less than a turn: what was reserved, and what pending calls may reserve.
Budget(s) ==
    /\ IsFiniteSet(Pending) /\ enqueues \in 0 .. MaxEnqueues
    /\ U(s, prod.head) + MaxBurst * Cardinality(Pending) <= MaxBurst * enqueues

\* The threads Ts of one side, which are at l, in calls c: hd and tl are the
\* indices of the side, end is what it may reserve up to.
Holders(l, Ts) == {t \in Ts : l[t] \in {"copy", "tail"}}

Side(s, l, c, Ts, hd, tl, end, alone) ==
    /\ \A t \in Ts : l[t] \in {"room", "move"} =>
         U(s, c[t].old) <= U(s, hd) /\ (alone => c[t].old = hd)
    /\ \A t \in Ts : l[t] = "move" => c[t].n > 0 /\ U(s, c[t].old) + c[t].n <= end
    /\ \A t \in Holders(l, Ts) :
         /\ c[t].n > 0 /\ U(s, tl) <= U(s, c[t].old) /\ U(s, c[t].old) + c[t].n <= U(s, hd)
         /\ alone => c[t].old = tl /\ U(s, c[t].old) + c[t].n = U(s, hd)
    /\ \A t, u \in Holders(l, Ts) :
          t # u => \/ U(s, c[t].old) + c[t].n <= U(s, c[u].old)
                   \/ U(s, c[u].old) + c[u].n <= U(s, c[t].old)
    /\ alone => /\ \A t, u \in Ts : l[t] # "idle" /\ l[u] # "idle" => t = u
                /\ Holders(l, Ts) = {} => tl = hd

\* What a producer has copied is in its slots.
Filled ==
    \A p \in Producers : pc[p] = "tail" =>
      \A j \in 1 .. call[p].n : ring[Slot(Plus(call[p].old, j - 1))] = call[p].objs[j]

RingInv(s) ==
    /\ Types /\ Order(s) /\ Budget(s) /\ Filled
    /\ Side(s, pc, call, Producers, prod.head, prod.tail, U(s, cons.tail) + mask, single.producer)
    /\ Side(s, pc, call, Consumers, cons.head, cons.tail, U(s, prod.tail), single.consumer)

Inv == \E s \in Index : RingInv(s)

-----------------------------------------------------------------------------
(***************************************************************************)
(* Arithmetic of indices.                                                  *)
(***************************************************************************)
LEMMA ModUnique ==
    ASSUME NEW N \in Nat \ {0}, NEW a \in Int, NEW q \in Int, NEW r \in 0 .. N - 1, a = N * q + r
    PROVE  a % N = r
OBVIOUS

LEMMA TurnFacts ==
    /\ 2^IndexBits \in Nat \ {0} /\ Size \in Nat \ {0} /\ Size > 1 /\ mask \in Nat /\ mask = Size - 1
    /\ MaxEnqueues * MaxBurst + Size < 2^IndexBits
    /\ \A i \in Index : i \in Nat /\ i < 2^IndexBits
BY SizeAssumption DEF mask, Index

LEMMA UType ==
    ASSUME NEW s \in Index, NEW i \in Index
    PROVE  U(s, i) \in Nat /\ U(s, i) < 2^IndexBits
           /\ U(s, i) = (IF s <= i THEN i - s ELSE i - s + 2^IndexBits)
<1> DEFINE M == 2^IndexBits
<1>1. M \in Nat \ {0} /\ s \in 0 .. M - 1 /\ i \in 0 .. M - 1
  BY TurnFacts DEF Index
<1>2. U(s, i) = (i - s) % M
  BY DEF U, Minus
<1> HIDE DEF M
<1>3. (i - s) % M = IF s <= i THEN i - s ELSE i - s + M
  <2>1. CASE s <= i
    BY <1>1, <2>1, ModUnique
  <2>2. CASE ~(s <= i)
    BY <1>1, <2>2, ModUnique
  <2> QED
    BY <2>1, <2>2
<1> QED
  BY <1>1, <1>2, <1>3 DEF M

LEMMA UInjective ==
    ASSUME NEW s \in Index, NEW i \in Index, NEW j \in Index, U(s, i) = U(s, j)
    PROVE  i = j
BY UType, TurnFacts

\* Plus without a wrap of the distance.
LEMMA UPlus ==
    ASSUME NEW s \in Index, NEW i \in Index, NEW n \in Nat, U(s, i) + n < 2^IndexBits
    PROVE  Plus(i, n) \in Index /\ U(s, Plus(i, n)) = U(s, i) + n
<1> DEFINE M == 2^IndexBits
<1>1. M \in Nat \ {0} /\ s \in 0 .. M - 1 /\ i \in 0 .. M - 1 /\ n < M
  BY TurnFacts, UType DEF Index
<1>2. Plus(i, n) = (i + n) % M
  BY DEF Plus
<1>3. U(s, i) = (IF s <= i THEN i - s ELSE i - s + M) /\ U(s, i) + n < M
  BY UType
<1> HIDE DEF M
<1>4. (i + n) % M = IF i + n < M THEN i + n ELSE i + n - M
  <2>1. CASE i + n < M
    BY <1>1, <2>1, ModUnique
  <2>2. CASE ~(i + n < M)
    BY <1>1, <2>2, ModUnique
  <2> QED
    BY <2>1, <2>2
<1>5. Plus(i, n) \in Index
  BY <1>1, <1>2, <1>4 DEF Index, M
<1>6. U(s, Plus(i, n)) = (IF s <= Plus(i, n) THEN Plus(i, n) - s ELSE Plus(i, n) - s + M)
  BY <1>5, UType DEF M
<1> QED
  BY <1>1, <1>2, <1>3, <1>4, <1>5, <1>6

\* Minus of two indices that are in order.
LEMMA UMinus ==
    ASSUME NEW s \in Index, NEW i \in Index, NEW j \in Index, U(s, j) <= U(s, i)
    PROVE  Minus(i, j) = U(s, i) - U(s, j)
<1>1. Minus(i, j) = (IF j <= i THEN i - j ELSE i - j + 2^IndexBits)
  BY UType DEF U
<1> QED
  BY <1>1, UType, TurnFacts

\* FreeEntries: its left side may exceed the width of an index.
LEMMA UFree ==
    ASSUME NEW s \in Index, NEW i \in Index, NEW j \in Index, U(s, j) <= mask + U(s, i),
           mask + U(s, i) < 2^IndexBits
    PROVE  Minus(mask + i, j) = mask + U(s, i) - U(s, j)
<1> DEFINE M == 2^IndexBits
           d == mask + U(s, i) - U(s, j)
<1>1. M \in Nat \ {0} /\ s \in 0 .. M - 1 /\ i \in 0 .. M - 1 /\ j \in 0 .. M - 1 /\ mask \in Nat
  BY TurnFacts DEF Index
<1>2. U(s, i) \in Nat /\ U(s, j) \in Nat /\ mask + U(s, i) < M
  BY UType
<1>3. d \in 0 .. M - 1
  BY <1>1, <1>2
<1>4. U(s, i) = (IF s <= i THEN i - s ELSE i - s + M) /\ U(s, j) = (IF s <= j THEN j - s ELSE j - s + M)
  BY UType
<1>5. Minus(mask + i, j) = ((mask + i) - j) % M
  BY DEF Minus
<1> HIDE DEF M
<1>6. \E q \in {-1, 0, 1} : (mask + i) - j = M * q + d
  BY <1>1, <1>4
<1> HIDE DEF d
<1>7. ((mask + i) - j) % M = d
  BY <1>1, <1>3, <1>6, ModUnique
<1> QED
  BY <1>5, <1>7 DEF d

(***************************************************************************)
(* Arithmetic of slots.                                                    *)
(***************************************************************************)
LEMMA SlotType ==
    ASSUME NEW a \in Int
    PROVE  Slot(a) \in 0 .. Size - 1
BY TurnFacts DEF Slot

LEMMA SlotParts ==
    ASSUME NEW a \in Int
    PROVE  \E q \in Int : a = Size * q + Slot(a)
<1>1. a = Size * (a \div Size) + (a % Size) /\ a \div Size \in Int
  BY TurnFacts
<1> QED
  BY <1>1 DEF Slot

LEMMA SlotUnique ==
    ASSUME NEW a \in Int, NEW b \in Int, NEW q \in Int, a = Size * q + b
    PROVE  Slot(a) = Slot(b)
<1>1. PICK z \in Int : b = Size * z + Slot(b)
  BY SlotParts
<1>2. Slot(b) \in 0 .. Size - 1
  BY SlotType
<1>3. a = Size * (q + z) + Slot(b) /\ q + z \in Int
  BY <1>1, <1>2, TurnFacts
<1> QED
  BY <1>2, <1>3, TurnFacts, ModUnique DEF Slot

\* The width of an index is a multiple of the size, so a wrap does not move the slot.
LEMMA SlotOfPlus ==
    ASSUME NEW i \in Nat, NEW n \in Nat
    PROVE  Slot(Plus(i, n)) = Slot(i + n) /\ Plus(i, n) \in Nat
<1> DEFINE M == 2^IndexBits
<1>1. M \in Nat \ {0} /\ Plus(i, n) = (i + n) % M /\ M % Size = 0
  BY TurnFacts, SizeAssumption DEF Plus
<1>2. PICK K \in Int : M = Size * K
  <2>1. PICK K \in Int : M = Size * K + Slot(M)
    BY <1>1, SlotParts
  <2>2. Slot(M) = 0
    BY <1>1 DEF Slot
  <2>3. M = Size * K
    BY <1>1, <2>1, <2>2, TurnFacts
  <2> QED
    BY <2>3
<1> HIDE DEF M
<1>3. i + n = M * ((i + n) \div M) + ((i + n) % M) /\ (i + n) \div M \in Int /\ (i + n) % M \in Nat
  BY <1>1
<1> DEFINE w == (i + n) \div M
<1>4. w \in Int /\ i + n = M * w + Plus(i, n) /\ Plus(i, n) \in Int
  BY <1>1, <1>3
<1> HIDE DEF w
<1>5. i + n = Size * (K * w) + Plus(i, n) /\ K * w \in Int
  <2>1. (Size * K) * w = Size * (K * w) /\ K * w \in Int
    BY <1>4, TurnFacts
  <2> QED
    BY <1>2, <1>4, <2>1
<1> QED
  BY <1>1, <1>3, <1>5, SlotUnique

LEMMA SlotsDiffer ==
    ASSUME NEW s \in Index, NEW i \in Index, NEW j \in Index, Slot(i) = Slot(j),
           U(s, i) <= U(s, j), U(s, j) < U(s, i) + Size
    PROVE  U(s, i) = U(s, j)
<1>1. U(s, i) \in Nat /\ U(s, j) \in Nat /\ s \in Nat /\ i \in Nat /\ j \in Nat
  BY UType, TurnFacts
<1>2. \A k \in Index : Slot(k) = Slot(s + U(s, k))
  <2> SUFFICES ASSUME NEW k \in Index PROVE Slot(k) = Slot(s + U(s, k))
    OBVIOUS
  <2>1. Plus(s, U(s, k)) = k
    <3>1. U(s, s) = 0
      BY UType, TurnFacts
    <3>2. U(s, k) \in Nat /\ U(s, s) + U(s, k) < 2^IndexBits
      BY <3>1, UType
    <3>3. Plus(s, U(s, k)) \in Index /\ U(s, Plus(s, U(s, k))) = U(s, k)
      BY <3>1, <3>2, UPlus
    <3> QED
      BY <3>3, UInjective
  <2>2. U(s, k) \in Nat
    BY UType
  <2> QED
    BY <1>1, <2>1, <2>2, SlotOfPlus
<1>3. PICK q \in Int : s + U(s, i) = Size * q + Slot(i)
  BY <1>1, <1>2, SlotParts
<1>4. PICK z \in Int : s + U(s, j) = Size * z + Slot(j)
  BY <1>1, <1>2, SlotParts
<1>5. Slot(i) \in Int
  BY <1>1, SlotType
<1>6. U(s, j) - U(s, i) = Size * (z - q)
  BY <1>1, <1>3, <1>4, <1>5, TurnFacts
<1>7. z - q = 0
  <2>1. Size * (z - q) < Size * 1 /\ Size * (z - q) >= Size * 0
    BY <1>1, <1>6, TurnFacts
  <2> QED
    BY <2>1, TurnFacts
<1> QED
  BY <1>1, <1>6, <1>7, TurnFacts

\* What ENQUEUE_PTRS writes: the slot of the k-th object, and which slot has which object.
LEMMA SlotOffset ==
    ASSUME NEW i \in Index, NEW k \in 0 .. Size - 1
    PROVE  (Slot(Plus(i, k)) - i) % Size = k
<1>1. i \in Nat /\ k \in Nat
  BY TurnFacts
<1>2. Slot(Plus(i, k)) = Slot(i + k)
  BY <1>1, SlotOfPlus
<1>3. PICK q \in Int : i + k = Size * q + Slot(i + k)
  BY <1>1, SlotParts
<1>4. Slot(i + k) \in Int
  BY <1>1, SlotType
<1>5. Slot(i + k) - i = Size * (-q) + k /\ -q \in Int /\ Slot(i + k) - i \in Int
  BY <1>1, <1>3, <1>4, TurnFacts
<1>6. (Slot(i + k) - i) % Size = k
  BY <1>5, TurnFacts, ModUnique
<1> QED
  BY <1>2, <1>6

LEMMA OffsetSlot ==
    ASSUME NEW i \in Index, NEW l \in 0 .. Size - 1
    PROVE  (l - i) % Size \in 0 .. Size - 1 /\ Slot(Plus(i, (l - i) % Size)) = l
<1> DEFINE k == (l - i) % Size
<1>1. i \in Nat /\ l \in Nat /\ l - i \in Int
  BY TurnFacts
<1>2. k = Slot(l - i)
  BY DEF Slot
<1>3. k \in 0 .. Size - 1
  BY <1>1, <1>2, SlotType
<1>4. PICK q \in Int : l - i = Size * q + k
  BY <1>1, <1>2, SlotParts
<1> HIDE DEF k
<1>5. i + k = Size * (-q) + l /\ -q \in Int /\ i + k \in Nat
  BY <1>1, <1>3, <1>4, TurnFacts
<1>6. Slot(i + k) = l
  <2> DEFINE a == i + k
             z == -q
  <2>1. a = Size * z + l /\ a \in Int /\ z \in Int /\ Size \in Nat \ {0}
    BY <1>5, TurnFacts
  <2> HIDE DEF a, z
  <2>2. a % Size = l
    BY <2>1, ModUnique
  <2> QED
    BY <2>2 DEF Slot, a
<1>7. Slot(Plus(i, k)) = Slot(i + k)
  BY <1>1, <1>3, SlotOfPlus
<1> QED
  BY <1>3, <1>6, <1>7 DEF k

-----------------------------------------------------------------------------
(***************************************************************************)
(* The steps of one side.  Thread t goes from l[t], c[t] to k[t], d[t].    *)
(***************************************************************************)
Labels == {"idle", "head", "room", "move", "copy", "tail"}

Elsewhere(Ts, t, l, c, k, d) == \A u \in Ts \ {t} : k[u] = l[u] /\ d[u] = c[u]

OneSide(s, l, c, Ts, hd, tl, end, alone) ==
    /\ s \in Index /\ hd \in Index /\ tl \in Index /\ end \in Int /\ U(s, tl) <= U(s, hd)
    /\ \A u \in Ts : l[u] \in Labels /\ c[u].old \in Index /\ c[u].n \in Nat
    /\ Side(s, l, c, Ts, hd, tl, end, alone)

\* The threads of the other side do not matter, and more room does not hurt.
LEMMA SideStays ==
    ASSUME NEW s, NEW l, NEW c, NEW Ts, NEW hd, NEW tl, NEW end, NEW alone,
           OneSide(s, l, c, Ts, hd, tl, end, alone),
           NEW k, NEW d, \A u \in Ts : k[u] = l[u] /\ d[u] = c[u], NEW end2 \in Int, end <= end2
    PROVE  Side(s, k, d, Ts, hd, tl, end2, alone)
<1>1. \A u \in Ts : U(s, c[u].old) \in Nat
  BY UType DEF OneSide
<1> QED
  BY <1>1 DEF Side, OneSide, Holders

LEMMA SideBegins ==
    ASSUME NEW s, NEW l, NEW c, NEW Ts, NEW hd, NEW tl, NEW end, NEW alone,
           OneSide(s, l, c, Ts, hd, tl, end, alone),
           NEW k, NEW d, NEW t \in Ts, Elsewhere(Ts, t, l, c, k, d),
           l[t] = "idle", k[t] = "head", alone => \A u \in Ts : l[u] = "idle"
    PROVE  Side(s, k, d, Ts, hd, tl, end, alone)
BY DEF Side, OneSide, Holders, Elsewhere

LEMMA SideReadsHead ==
    ASSUME NEW s, NEW l, NEW c, NEW Ts, NEW hd, NEW tl, NEW end, NEW alone,
           OneSide(s, l, c, Ts, hd, tl, end, alone),
           NEW k, NEW d, NEW t \in Ts, Elsewhere(Ts, t, l, c, k, d),
           l[t] = "head", k[t] = "room", d[t].old = hd
    PROVE  Side(s, k, d, Ts, hd, tl, end, alone)
<1>1. U(s, hd) \in Nat
  BY UType DEF OneSide
<1> QED
  BY <1>1 DEF Side, OneSide, Holders, Elsewhere

LEMMA SideGivesUp ==
    ASSUME NEW s, NEW l, NEW c, NEW Ts, NEW hd, NEW tl, NEW end, NEW alone,
           OneSide(s, l, c, Ts, hd, tl, end, alone),
           NEW k, NEW d, NEW t \in Ts, Elsewhere(Ts, t, l, c, k, d),
           \/ l[t] = "room" /\ k[t] = "idle"
           \/ l[t] = "move" /\ k[t] = "head"
    PROVE  Side(s, k, d, Ts, hd, tl, end, alone)
BY DEF Side, OneSide, Holders, Elsewhere

LEMMA SideGrants ==
    ASSUME NEW s, NEW l, NEW c, NEW Ts, NEW hd, NEW tl, NEW end, NEW alone,
           OneSide(s, l, c, Ts, hd, tl, end, alone),
           NEW k, NEW d, NEW t \in Ts, Elsewhere(Ts, t, l, c, k, d),
           l[t] = "room", k[t] = "move", d[t].old = c[t].old, d[t].n \in Nat \ {0},
           U(s, c[t].old) + d[t].n <= end
    PROVE  Side(s, k, d, Ts, hd, tl, end, alone)
BY DEF Side, OneSide, Holders, Elsewhere

LEMMA SideMovesHead ==
    ASSUME NEW s, NEW l, NEW c, NEW Ts, NEW hd, NEW tl, NEW end, NEW alone,
           OneSide(s, l, c, Ts, hd, tl, end, alone),
           NEW k, NEW t \in Ts, Elsewhere(Ts, t, l, c, k, c),
           l[t] = "move", k[t] = "copy", c[t].old = hd,
           NEW hd2 \in Index, U(s, hd2) = U(s, hd) + c[t].n
    PROVE  Side(s, k, c, Ts, hd2, tl, end, alone)
<1>1. U(s, hd) \in Nat /\ U(s, tl) \in Nat /\ \A u \in Ts : U(s, c[u].old) \in Nat /\ c[u].n \in Nat
  BY UType DEF OneSide
<1>2. t \notin Holders(l, Ts) /\ Holders(k, Ts) = Holders(l, Ts) \cup {t}
  BY DEF Holders, Elsewhere
<1>3. alone => Holders(l, Ts) = {} /\ (\A u \in Ts : u # t => l[u] = "idle") /\ tl = hd
  BY DEF OneSide, Side, Holders
<1>4. U(s, tl) <= U(s, hd) /\ c[t].n > 0
  BY DEF OneSide, Side
<1>5. \A u \in Ts : k[u] \in {"room", "move"} => U(s, c[u].old) <= U(s, hd2) /\ (alone => c[u].old = hd2)
  BY <1>1, <1>3 DEF OneSide, Side, Elsewhere
<1>6. \A u \in Ts : k[u] = "move" => c[u].n > 0 /\ U(s, c[u].old) + c[u].n <= end
  BY DEF OneSide, Side, Elsewhere
<1>7. \A u \in Holders(k, Ts) :
         /\ c[u].n > 0 /\ U(s, tl) <= U(s, c[u].old) /\ U(s, c[u].old) + c[u].n <= U(s, hd2)
         /\ alone => c[u].old = tl /\ U(s, c[u].old) + c[u].n = U(s, hd2)
  BY <1>1, <1>2, <1>3, <1>4 DEF OneSide, Side, Holders
<1>8. \A u, v \in Holders(k, Ts) :
          u # v => \/ U(s, c[u].old) + c[u].n <= U(s, c[v].old)
                   \/ U(s, c[v].old) + c[v].n <= U(s, c[u].old)
  <2>1. \A u \in Holders(l, Ts) : U(s, c[u].old) + c[u].n <= U(s, c[t].old)
    BY DEF OneSide, Side
  <2> QED
    BY <1>2, <2>1 DEF OneSide, Side
<1>9. alone => \A u, v \in Ts : k[u] # "idle" /\ k[v] # "idle" => u = v
  BY <1>3 DEF Elsewhere
<1> QED
  BY <1>2, <1>5, <1>6, <1>7, <1>8, <1>9 DEF Side

LEMMA SideCopies ==
    ASSUME NEW s, NEW l, NEW c, NEW Ts, NEW hd, NEW tl, NEW end, NEW alone,
           OneSide(s, l, c, Ts, hd, tl, end, alone),
           NEW k, NEW d, NEW t \in Ts, Elsewhere(Ts, t, l, c, k, d),
           l[t] = "copy", k[t] = "tail", d[t].old = c[t].old, d[t].n = c[t].n
    PROVE  Side(s, k, d, Ts, hd, tl, end, alone)
<1>1. Holders(k, Ts) = Holders(l, Ts)
  BY DEF Holders, Elsewhere
<1>2. \A u \in Ts : d[u].old = c[u].old /\ d[u].n = c[u].n
  BY DEF Elsewhere
<1>3. \A u \in Ts : /\ k[u] # "idle" => l[u] # "idle"
                    /\ k[u] \in {"room", "move"} => l[u] = k[u]
  BY DEF Elsewhere
<1>4. \A u \in Ts : k[u] \in {"room", "move"} => U(s, d[u].old) <= U(s, hd) /\ (alone => d[u].old = hd)
  BY <1>2, <1>3 DEF Side, OneSide
<1>5. \A u \in Ts : k[u] = "move" => d[u].n > 0 /\ U(s, d[u].old) + d[u].n <= end
  BY <1>2, <1>3 DEF Side, OneSide
<1>6. \A u \in Holders(k, Ts) : d[u].old = c[u].old /\ d[u].n = c[u].n
  BY <1>2 DEF Holders
<1> QED
  BY <1>1, <1>3, <1>4, <1>5, <1>6 DEF Side, OneSide

LEMMA SideMovesTail ==
    ASSUME NEW s, NEW l, NEW c, NEW Ts, NEW hd, NEW tl, NEW end, NEW alone,
           OneSide(s, l, c, Ts, hd, tl, end, alone),
           NEW k, NEW d, NEW t \in Ts, Elsewhere(Ts, t, l, c, k, d),
           l[t] = "tail", k[t] = "idle", c[t].old = tl,
           NEW tl2 \in Index, U(s, tl2) = U(s, tl) + c[t].n
    PROVE  Side(s, k, d, Ts, hd, tl2, end, alone)
<1>1. U(s, hd) \in Nat /\ U(s, tl) \in Nat /\ \A u \in Ts : U(s, c[u].old) \in Nat /\ c[u].n \in Nat
  BY UType DEF OneSide
<1>2. t \in Holders(l, Ts) /\ Holders(k, Ts) = Holders(l, Ts) \ {t}
  BY DEF Holders, Elsewhere
<1>3. alone => Holders(k, Ts) = {} /\ tl2 = hd
  <2>1. alone => Holders(k, Ts) = {}
    BY <1>2 DEF OneSide, Side, Holders
  <2>2. alone => U(s, tl2) = U(s, hd)
    BY <1>2 DEF OneSide, Side
  <2> QED
    BY <2>1, <2>2, UInjective DEF OneSide
<1>4. \A u \in Holders(k, Ts) :
         /\ d[u].n > 0 /\ U(s, tl2) <= U(s, d[u].old) /\ U(s, d[u].old) + d[u].n <= U(s, hd)
         /\ alone => d[u].old = tl2 /\ U(s, d[u].old) + d[u].n = U(s, hd)
  <2> SUFFICES ASSUME NEW u \in Holders(k, Ts)
               PROVE  /\ d[u].n > 0 /\ U(s, tl2) <= U(s, d[u].old) /\ U(s, d[u].old) + d[u].n <= U(s, hd)
                      /\ ~alone
    OBVIOUS
  <2>1. u \in Holders(l, Ts) /\ u # t /\ d[u] = c[u] /\ u \in Ts
    BY <1>2 DEF Elsewhere, Holders
  <2>2. c[u].n > 0 /\ U(s, tl) <= U(s, c[u].old) /\ U(s, c[u].old) + c[u].n <= U(s, hd)
    BY <2>1 DEF OneSide, Side
  <2>3. \/ U(s, c[t].old) + c[t].n <= U(s, c[u].old)
        \/ U(s, c[u].old) + c[u].n <= U(s, c[t].old)
    BY <1>2, <2>1 DEF OneSide, Side
  <2> QED
    BY <1>1, <1>3, <2>1, <2>2, <2>3
<1>5. \A u, v \in Holders(k, Ts) :
          u # v => \/ U(s, d[u].old) + d[u].n <= U(s, d[v].old)
                   \/ U(s, d[v].old) + d[v].n <= U(s, d[u].old)
  BY <1>2 DEF OneSide, Side, Elsewhere, Holders
<1>6. \A u \in Ts : k[u] \notin {"idle"} => u # t /\ k[u] = l[u] /\ d[u] = c[u]
  BY DEF Elsewhere
<1> QED
  BY <1>3, <1>4, <1>5, <1>6 DEF Side, OneSide

-----------------------------------------------------------------------------
(***************************************************************************)
(* What the invariant says of a state.                                     *)
(***************************************************************************)
LEMMA BurstFacts ==
    ASSUME NEW b \in Bursts
    PROVE  /\ b \in Seq(Objects) /\ b \in Seq(Objects \cup {Empty}) /\ Len(b) \in 1 .. MaxBurst
           /\ b \in [1 .. Len(b) -> Objects]
<1>1. PICK n \in 1 .. MaxBurst : b \in [1 .. n -> Objects]
  BY DEF Bursts
<1>2. n \in Nat
  BY SizeAssumption
<1> QED
  BY <1>1, <1>2, SizeAssumption

LEMMA InvTypes ==
    ASSUME NEW s \in Index, RingInv(s)
    PROVE  /\ prod.head \in Index /\ prod.tail \in Index /\ cons.head \in Index /\ cons.tail \in Index
           /\ U(s, prod.head) \in Nat /\ U(s, prod.tail) \in Nat
           /\ U(s, cons.head) \in Nat /\ U(s, cons.tail) \in Nat
           /\ \A t \in Threads : /\ pc[t] \in Labels /\ call[t] \in Calls /\ call[t].old \in Index
                                 /\ call[t].n \in Nat /\ call[t].n <= call[t].max
                                 /\ U(s, call[t].old) \in Nat
<1>1. prod.head \in Index /\ prod.tail \in Index /\ cons.head \in Index /\ cons.tail \in Index
  BY DEF RingInv, Types, TypeOK
<1>2. \A t \in Threads : /\ pc[t] \in Labels /\ call[t] \in Calls /\ call[t].old \in Index
                         /\ call[t].n \in Nat /\ call[t].n <= call[t].max
  BY DEF RingInv, Types, TypeOK, Labels, Calls
<1> QED
  BY <1>1, <1>2, UType

LEMMA InvBudget ==
    ASSUME NEW s \in Index, RingInv(s)
    PROVE  /\ U(s, prod.head) + Size < 2^IndexBits
           /\ \A p \in Pending : U(s, prod.head) + MaxBurst + Size < 2^IndexBits
<1> DEFINE k == Cardinality(Pending)
<1>1. IsFiniteSet(Pending) /\ enqueues \in 0 .. MaxEnqueues /\ U(s, prod.head) + MaxBurst * k <= MaxBurst * enqueues
  BY DEF RingInv, Budget
<1>2. k \in Nat /\ \A p \in Pending : k > 0
  BY <1>1, FS_CardinalityType, FS_EmptySet
<1>3. MaxBurst \in Nat /\ MaxEnqueues \in Nat /\ enqueues \in Nat /\ enqueues <= MaxEnqueues /\ U(s, prod.head) \in Nat
  BY <1>1, SizeAssumption, InvTypes
<1> HIDE DEF k
<1>4. MaxBurst * enqueues <= MaxBurst * MaxEnqueues /\ MaxBurst * enqueues \in Nat /\ MaxBurst * MaxEnqueues \in Nat
      /\ MaxBurst * MaxEnqueues = MaxEnqueues * MaxBurst
  BY <1>3
<1>5. MaxBurst * k \in Nat /\ (k > 0 => MaxBurst <= MaxBurst * k)
  BY <1>2, <1>3
<1> QED
  BY <1>1, <1>2, <1>3, <1>4, <1>5, TurnFacts

LEMMA InvSides ==
    ASSUME NEW s \in Index, RingInv(s)
    PROVE  /\ OneSide(s, pc, call, Producers, prod.head, prod.tail, U(s, cons.tail) + mask, single.producer)
           /\ OneSide(s, pc, call, Consumers, cons.head, cons.tail, U(s, prod.tail), single.consumer)
<1>1. U(s, cons.tail) + mask \in Int /\ U(s, prod.tail) \in Int
  BY InvTypes, TurnFacts
<1> QED
  BY <1>1, InvTypes DEF RingInv, OneSide, Order, Threads

LEMMA InitInv == Init => Inv
<1> SUFFICES ASSUME Init PROVE Inv
  OBVIOUS
<1>1. PICK s \in Starts : prod = [head |-> s, tail |-> s] /\ cons = prod
  BY DEF Init
<1>2. s \in Index
  BY SizeAssumption DEF Index
<1>3. 0 \in Index
  BY TurnFacts DEF Index
<1>4. Types
  <2>1. call = [t \in Threads |-> NoCall] /\ pc = [t \in Threads |-> "idle"]
    BY DEF Init
  <2>2. NoCall \in Calls /\ NoCall.n <= NoCall.max /\ NoCall.old \in Index
    BY <1>3 DEF NoCall, Calls
  <2>3. single \in [producer : BOOLEAN, consumer : BOOLEAN]
    BY ThreadsAssumption DEF Init
  <2>4. TypeOK
    BY <1>1, <1>2, <2>1, <2>2 DEF Init, TypeOK
  <2> QED
    BY <2>1, <2>2, <2>3, <2>4 DEF Types, Threads
<1>5. Order(s)
  BY <1>1, <1>2, UType, TurnFacts DEF Order
<1>6. Budget(s)
  <2>1. Pending = {}
    BY DEF Init, Pending, Threads
  <2>2. U(s, s) = 0
    BY <1>2, UType, TurnFacts
  <2>3. IsFiniteSet(Pending) /\ Cardinality(Pending) = 0
    BY <2>1, FS_EmptySet, Zenon
  <2>4. enqueues = 0 /\ prod.head = s
    BY <1>1 DEF Init
  <2> QED
    BY <2>2, <2>3, <2>4, SizeAssumption DEF Budget
<1>7. Filled
  BY DEF Init, Filled, Threads
<1>8. /\ Side(s, pc, call, Producers, prod.head, prod.tail, U(s, cons.tail) + mask, single.producer)
      /\ Side(s, pc, call, Consumers, cons.head, cons.tail, U(s, prod.tail), single.consumer)
  <2>1. prod.head = prod.tail /\ cons.head = cons.tail /\ \A t \in Producers \cup Consumers : pc[t] = "idle"
    BY <1>1 DEF Init, Threads
  <2> QED
    BY <2>1 DEF Side, Holders
<1> QED
  BY <1>2, <1>4, <1>5, <1>6, <1>7, <1>8 DEF Inv, RingInv

-----------------------------------------------------------------------------
(***************************************************************************)
(* The steps of the ring.  Thread t goes to lab with the locals x.         *)
(***************************************************************************)
StepOf(t, lab, x) ==
    /\ pc'[t] = lab /\ call'[t] = x
    /\ \A u \in Threads \ {t} : pc'[u] = pc[u] /\ call'[u] = call[u]

LEMMA TypesStep ==
    ASSUME Types, NEW t \in Threads, NEW lab \in Labels, NEW x \in Calls,
           Goto(t, lab), call' = [call EXCEPT ![t] = x], x.n <= x.max,
           lab # "idle" => x.max \in 1 .. MaxBurst,
           t \in Producers /\ lab # "idle" => x.objs \in Bursts /\ Len(x.objs) = x.max,
           prod' \in [head : Index, tail : Index], cons' \in [head : Index, tail : Index],
           ring' \in [0 .. Size - 1 -> Objects \cup {Empty}], single' = single
    PROVE  Types' /\ StepOf(t, lab, x)
<1>1. pc' = [pc EXCEPT ![t] = lab] /\ pc \in [Threads -> Labels] /\ call \in [Threads -> Calls]
  BY DEF Goto, Types, TypeOK, Labels
<1>2. StepOf(t, lab, x)
  BY <1>1 DEF StepOf
<1>3. pc' \in [Threads -> Labels] /\ call' \in [Threads -> Calls]
  BY <1>1
<1>4. x.old \in Index
  BY DEF Calls
<1>5. TypeOK'
  <2>1. \A u \in Threads : call'[u].n <= call'[u].max /\ call'[u].old \in Index
    BY <1>2, <1>4 DEF StepOf, Types, TypeOK
  <2> QED
    BY <1>3, <2>1 DEF TypeOK, Labels
<1>6. \A u \in Threads : pc'[u] # "idle" => call'[u].max \in 1 .. MaxBurst
  BY <1>2 DEF StepOf, Types
<1>7. \A u \in Producers : pc'[u] # "idle" => call'[u].objs \in Bursts /\ Len(call'[u].objs) = call'[u].max
  <2>1. Producers \subseteq Threads
    BY DEF Threads
  <2> QED
    BY <1>2, <2>1 DEF StepOf, Types
<1> QED
  BY <1>2, <1>3, <1>5, <1>6, <1>7 DEF Types

LEMMA StepElsewhere ==
    ASSUME NEW t, NEW lab, NEW x, StepOf(t, lab, x)
    PROVE  /\ t \in Producers => /\ Elsewhere(Producers, t, pc, call, pc', call')
                                 /\ \A u \in Consumers : pc'[u] = pc[u] /\ call'[u] = call[u]
           /\ t \in Consumers => /\ Elsewhere(Consumers, t, pc, call, pc', call')
                                 /\ \A u \in Producers : pc'[u] = pc[u] /\ call'[u] = call[u]
BY ThreadsAssumption DEF StepOf, Elsewhere, Threads

LEMMA UnchangedBudget ==
    ASSUME NEW s \in Index, Budget(s), enqueues' = enqueues, prod'.head = prod.head, Pending' = Pending
    PROVE  Budget(s)'
BY DEF Budget

\* A pending call ends, or reserves what it may.
LEMMA PendingLeaves ==
    ASSUME NEW s \in Index, RingInv(s), NEW p \in Pending, Pending' = Pending \ {p}, enqueues' = enqueues,
           \/ prod' = prod
           \/ \E n \in 1 .. MaxBurst : U(s, prod'.head) = U(s, prod.head) + n
    PROVE  Budget(s)'
<1> DEFINE k == Cardinality(Pending)
<1>1. IsFiniteSet(Pending) /\ enqueues \in 0 .. MaxEnqueues /\ U(s, prod.head) + MaxBurst * k <= MaxBurst * enqueues
  BY DEF RingInv, Budget
<1>2. IsFiniteSet(Pending') /\ Cardinality(Pending') = k - 1 /\ k \in Nat
  BY <1>1, FS_RemoveElement, FS_CardinalityType
<1>3. U(s, prod.head) \in Nat /\ U(s, prod'.head) \in Nat /\ U(s, prod'.head) <= U(s, prod.head) + MaxBurst
  BY InvTypes, SizeAssumption
<1>4. enqueues \in Nat /\ MaxBurst \in Nat
  BY <1>1, SizeAssumption
<1> HIDE DEF k
<1>5. MaxBurst * (k - 1) = MaxBurst * k - MaxBurst /\ MaxBurst * k \in Int /\ MaxBurst * enqueues \in Int
  BY <1>2, <1>4
<1>6. U(s, prod'.head) + MaxBurst * (k - 1) <= MaxBurst * enqueues
  BY <1>1, <1>3, <1>4, <1>5
<1> QED
  BY <1>1, <1>2, <1>6 DEF Budget

\* Two slots of the window between cons.tail and prod.head are the same only if their indices are.
LEMMA WindowSlots ==
    ASSUME NEW s \in Index, RingInv(s), NEW i \in Index, NEW j \in Index,
           U(s, cons.tail) <= U(s, i), U(s, i) < U(s, prod.head),
           U(s, cons.tail) <= U(s, j), U(s, j) < U(s, prod.head), Slot(i) = Slot(j)
    PROVE  U(s, i) = U(s, j)
<1>1. U(s, i) \in Nat /\ U(s, j) \in Nat /\ U(s, cons.tail) \in Nat /\ U(s, prod.head) \in Nat
  BY UType, InvTypes
<1>2. U(s, prod.head) <= U(s, cons.tail) + mask
  BY DEF RingInv, Order
<1>3. CASE U(s, i) <= U(s, j)
  BY <1>1, <1>2, <1>3, TurnFacts, SlotsDiffer
<1>4. CASE U(s, j) <= U(s, i)
  BY <1>1, <1>2, <1>4, TurnFacts, SlotsDiffer
<1> QED
  BY <1>1, <1>3, <1>4

\* The interval that a thread holds.
LEMMA HeldInterval ==
    ASSUME NEW s \in Index, RingInv(s), NEW t \in Holding
    PROVE  /\ call[t].n > 0 /\ call[t].n \in Nat /\ call[t].n < Size
           /\ U(s, cons.tail) <= U(s, call[t].old) /\ U(s, call[t].old) + call[t].n <= U(s, prod.head)
           /\ t \in Producers => U(s, prod.tail) <= U(s, call[t].old)
           /\ t \in Consumers => U(s, call[t].old) + call[t].n <= U(s, cons.head)
           /\ \A j \in 0 .. call[t].n - 1 : /\ Plus(call[t].old, j) \in Index
                                            /\ U(s, Plus(call[t].old, j)) = U(s, call[t].old) + j
<1>1. t \in Threads /\ pc[t] \in {"copy", "tail"}
  BY DEF Holding
<1>2. call[t].old \in Index /\ call[t].n \in Nat /\ U(s, call[t].old) \in Nat
  BY <1>1, InvTypes
<1>3. t \in Producers => /\ call[t].n > 0 /\ U(s, prod.tail) <= U(s, call[t].old)
                         /\ U(s, call[t].old) + call[t].n <= U(s, prod.head)
  BY <1>1 DEF RingInv, Side, Holders
<1>4. t \in Consumers => /\ call[t].n > 0 /\ U(s, cons.tail) <= U(s, call[t].old)
                         /\ U(s, call[t].old) + call[t].n <= U(s, cons.head)
  BY <1>1 DEF RingInv, Side, Holders
<1>5. /\ U(s, cons.tail) <= U(s, cons.head) /\ U(s, cons.head) <= U(s, prod.tail)
      /\ U(s, prod.tail) <= U(s, prod.head) /\ U(s, prod.head) <= U(s, cons.tail) + mask
  BY DEF RingInv, Order
<1>6. /\ call[t].n > 0 /\ U(s, cons.tail) <= U(s, call[t].old)
      /\ U(s, call[t].old) + call[t].n <= U(s, prod.head) /\ call[t].n < Size
  BY <1>1, <1>2, <1>3, <1>4, <1>5, InvTypes, TurnFacts DEF Threads
<1>7. ASSUME NEW j \in 0 .. call[t].n - 1
      PROVE  Plus(call[t].old, j) \in Index /\ U(s, Plus(call[t].old, j)) = U(s, call[t].old) + j
  <2>1. j \in Nat /\ U(s, call[t].old) + j < 2^IndexBits
    BY <1>2, <1>6, InvBudget, InvTypes, TurnFacts
  <2> QED
    BY <1>2, <2>1, UPlus
<1> QED
  BY <1>2, <1>3, <1>4, <1>6, <1>7

\* A copy into the ring changes no slot of the window but the ones reserved for it.
LEMMA CopyKeepsOthers ==
    ASSUME NEW s \in Index, RingInv(s), NEW p \in Producers, ENQUEUE_PTRS(p), NEW i \in Index,
           U(s, cons.tail) <= U(s, i), U(s, i) < U(s, prod.head),
           \/ U(s, i) < U(s, call[p].old)
           \/ U(s, call[p].old) + call[p].n <= U(s, i)
    PROVE  ring'[Slot(i)] = ring[Slot(i)]
<1> DEFINE old == call[p].old
           n == call[p].n
           j == (Slot(i) - old) % Size
<1>1. p \in Holding
  BY DEF ENQUEUE_PTRS, Holding, Threads
<1>2. old \in Index /\ U(s, old) \in Nat /\ n \in Nat
  BY InvTypes DEF Threads
<1>3. Slot(i) \in 0 .. Size - 1 /\ U(s, i) \in Nat
  BY SlotType, UType, TurnFacts
<1>4. j \in 0 .. Size - 1 /\ Slot(Plus(old, j)) = Slot(i)
  BY <1>2, <1>3, OffsetSlot
<1>5. ring \in [0 .. Size - 1 -> Objects \cup {Empty}]
  BY DEF RingInv, Types, TypeOK
<1>6. ring'[Slot(i)] = IF j < n THEN call[p].objs[j + 1] ELSE ring[Slot(i)]
  BY <1>3, <1>5 DEF ENQUEUE_PTRS
<1> HIDE DEF j
<1>7. ~(j < n)
  <2> SUFFICES ASSUME j < n PROVE FALSE
    OBVIOUS
  <2>1. j \in 0 .. n - 1
    BY <1>2, <1>4
  <2>2. Plus(old, j) \in Index /\ U(s, Plus(old, j)) = U(s, old) + j
    BY <1>1, <2>1, HeldInterval
  <2>3. U(s, cons.tail) <= U(s, old) /\ U(s, old) + n <= U(s, prod.head)
    BY <1>1, HeldInterval
  <2>4. U(s, cons.tail) \in Nat /\ U(s, prod.head) \in Nat
    BY InvTypes
  <2>5. U(s, cons.tail) <= U(s, Plus(old, j)) /\ U(s, Plus(old, j)) < U(s, prod.head)
    BY <1>2, <2>1, <2>2, <2>3, <2>4
  <2>6. U(s, Plus(old, j)) = U(s, i)
    BY <1>4, <2>2, <2>5, WindowSlots
  <2> QED
    BY <1>2, <1>3, <2>1, <2>2, <2>6
<1> QED
  BY <1>6, <1>7

\* Side of the producers, and of the consumers, in a state of the ring.
ProdSide(s) == Side(s, pc, call, Producers, prod.head, prod.tail, U(s, cons.tail) + mask, single.producer)
ConsSide(s) == Side(s, pc, call, Consumers, cons.head, cons.tail, U(s, prod.tail), single.consumer)

LEMMA ConsSideStays ==
    ASSUME NEW s \in Index, RingInv(s), cons' = cons, single' = single,
           \A u \in Consumers : pc'[u] = pc[u] /\ call'[u] = call[u],
           U(s, prod'.tail) \in Int, U(s, prod.tail) <= U(s, prod'.tail)
    PROVE  ConsSide(s)'
<1>1. OneSide(s, pc, call, Consumers, cons.head, cons.tail, U(s, prod.tail), single.consumer)
  BY InvSides
<1> DEFINE e == U(s, prod'.tail)
<1>2. e \in Int /\ U(s, prod.tail) <= e
  OBVIOUS
<1> HIDE DEF e
<1>3. Side(s, pc', call', Consumers, cons.head, cons.tail, e, single.consumer)
  BY <1>1, <1>2, SideStays
<1> QED
  BY <1>3 DEF ConsSide, e

LEMMA ProdSideStays ==
    ASSUME NEW s \in Index, RingInv(s), prod' = prod, single' = single,
           \A u \in Producers : pc'[u] = pc[u] /\ call'[u] = call[u],
           U(s, cons'.tail) \in Int, U(s, cons.tail) <= U(s, cons'.tail)
    PROVE  ProdSide(s)'
<1>1. OneSide(s, pc, call, Producers, prod.head, prod.tail, U(s, cons.tail) + mask, single.producer)
  BY InvSides
<1> DEFINE e == U(s, cons'.tail) + mask
<1>2. e \in Int /\ U(s, cons.tail) + mask <= e
  BY InvTypes, TurnFacts
<1> HIDE DEF e
<1>3. Side(s, pc', call', Producers, prod.head, prod.tail, e, single.producer)
  BY <1>1, <1>2, SideStays
<1>4. mask' = mask
  BY DEF mask
<1> QED
  BY <1>3, <1>4 DEF ProdSide, e

LEMMA EnqueueKeepsInv ==
    ASSUME NEW s \in Index, RingInv(s), NEW p \in Producers, NEW b \in Bursts, NEW fixed \in Behaviors,
           rte_ring_enqueue(p, b, fixed)
    PROVE  RingInv(s)'
<1> DEFINE x == [NoCall EXCEPT !.objs = b, !.max = Len(b), !.fixed = fixed]
<1>1. /\ pc[p] = "idle" /\ enqueues < MaxEnqueues /\ enqueues' = enqueues + 1
      /\ single.producer => \A q \in Producers : pc[q] = "idle"
      /\ Goto(p, "head") /\ call' = [call EXCEPT ![p] = x]
      /\ prod' = prod /\ cons' = cons /\ ring' = ring /\ single' = single
  BY DEF rte_ring_enqueue
<1>2. x \in Calls /\ x.objs = b /\ x.max = Len(b) /\ x.n = 0
  <2>1. 0 \in Index
    BY TurnFacts DEF Index
  <2>2. fixed \in BOOLEAN
    BY ThreadsAssumption
  <2>3. NoCall \in Calls /\ NoCall.n = 0 /\ NoCall.old \in Index
    BY <2>1 DEF NoCall, Calls
  <2>4. b \in Seq(Objects \cup {Empty}) /\ Len(b) \in Nat
    BY BurstFacts
  <2> QED
    BY <2>2, <2>3, <2>4 DEF Calls
<1> HIDE DEF x
<1>3. Types' /\ StepOf(p, "head", x)
  <2>1. Types /\ p \in Threads /\ "head" \in Labels /\ x.n <= x.max
    BY <1>2, BurstFacts DEF RingInv, Threads, Labels
  <2>2. /\ prod' \in [head : Index, tail : Index] /\ cons' \in [head : Index, tail : Index]
        /\ ring' \in [0 .. Size - 1 -> Objects \cup {Empty}]
    BY <1>1, <2>1 DEF Types, TypeOK
  <2> QED
    BY <1>1, <1>2, <2>1, <2>2, BurstFacts, TypesStep
<1>4. ProdSide(s)'
  <2>1. Elsewhere(Producers, p, pc, call, pc', call') /\ pc'[p] = "head"
    BY <1>3, StepElsewhere DEF StepOf
  <2> QED
    BY <1>1, <2>1, InvSides, SideBegins DEF ProdSide
<1>5. ConsSide(s)'
  <2>1. \A u \in Consumers : pc'[u] = pc[u] /\ call'[u] = call[u]
    BY <1>3, StepElsewhere
  <2>2. U(s, prod'.tail) \in Int /\ U(s, prod.tail) <= U(s, prod'.tail)
    BY <1>1, InvTypes
  <2> QED
    BY <1>1, <2>1, <2>2, ConsSideStays
<1>6. Order(s)'
  BY <1>1 DEF RingInv, Order
<1>7. Budget(s)'
  <2>1. Pending' = Pending \cup {p} /\ p \notin Pending
    BY <1>1, <1>3 DEF Pending, StepOf, Threads
  <2>2. IsFiniteSet(Pending) /\ enqueues \in 0 .. MaxEnqueues
        /\ U(s, prod.head) + MaxBurst * Cardinality(Pending) <= MaxBurst * enqueues
    BY DEF RingInv, Budget
  <2>3. IsFiniteSet(Pending') /\ Cardinality(Pending') = Cardinality(Pending) + 1 /\ Cardinality(Pending) \in Nat
    BY <2>1, <2>2, FS_AddElement, FS_CardinalityType
  <2>4. /\ MaxBurst * (Cardinality(Pending) + 1) = MaxBurst * Cardinality(Pending) + MaxBurst
        /\ MaxBurst * (enqueues + 1) = MaxBurst * enqueues + MaxBurst
        /\ MaxBurst * Cardinality(Pending) \in Int /\ MaxBurst * enqueues \in Int /\ MaxBurst \in Int
    BY <2>2, <2>3, SizeAssumption
  <2>5. enqueues' \in 0 .. MaxEnqueues
    BY <1>1, <2>2, SizeAssumption
  <2> QED
    BY <1>1, <2>2, <2>3, <2>4, <2>5, InvTypes DEF Budget
<1>8. Filled'
  BY <1>1, <1>3 DEF RingInv, Filled, StepOf, Threads
<1> QED
  BY <1>3, <1>4, <1>5, <1>6, <1>7, <1>8 DEF RingInv, ProdSide, ConsSide

\* Steps within a call that leave the shared state alone.
LEMMA LocalStep ==
    ASSUME NEW s \in Index, RingInv(s), NEW t \in Threads, NEW lab \in Labels, NEW x \in Calls,
           pc[t] # "idle", Goto(t, lab), call' = [call EXCEPT ![t] = x], x.n <= x.max,
           lab # "idle" => x.max = call[t].max,
           t \in Producers => lab # "tail" /\ (lab # "idle" => x.objs = call[t].objs),
           UNCHANGED <<prod, cons, ring, single, enqueues>>
    PROVE  /\ Types' /\ StepOf(t, lab, x) /\ Order(s)' /\ Filled'
           /\ t \in Producers => ConsSide(s)'
           /\ t \in Consumers => ProdSide(s)' /\ Budget(s)'
           /\ (pc[t] \in {"head", "room", "move"} <=> lab \in {"head", "room", "move"}) => Budget(s)'
<1>1. Types' /\ StepOf(t, lab, x)
  <2>1. Types
    BY DEF RingInv
  <2>2. /\ prod' \in [head : Index, tail : Index] /\ cons' \in [head : Index, tail : Index]
        /\ ring' \in [0 .. Size - 1 -> Objects \cup {Empty}]
    BY <2>1 DEF Types, TypeOK
  <2>3. lab # "idle" => x.max \in 1 .. MaxBurst
    BY <2>1 DEF Types
  <2>4. t \in Producers /\ lab # "idle" => x.objs \in Bursts /\ Len(x.objs) = x.max
    BY <2>1 DEF Types
  <2> QED
    BY <2>1, <2>2, <2>3, <2>4, TypesStep
<1>2. Order(s)'
  BY DEF RingInv, Order
<1>3. Filled'
  <2>1. \A p \in Producers : pc'[p] = "tail" => pc[p] = "tail" /\ call'[p] = call[p]
    BY <1>1 DEF StepOf, Threads
  <2> QED
    BY <2>1 DEF RingInv, Filled
<1>4. t \in Producers => ConsSide(s)'
  <2>1. t \in Producers => \A u \in Consumers : pc'[u] = pc[u] /\ call'[u] = call[u]
    BY <1>1, StepElsewhere
  <2>2. U(s, prod'.tail) \in Int /\ U(s, prod.tail) <= U(s, prod'.tail)
    BY InvTypes
  <2> QED
    BY <2>1, <2>2, ConsSideStays
<1>5. t \in Consumers => ProdSide(s)'
  <2>1. t \in Consumers => \A u \in Producers : pc'[u] = pc[u] /\ call'[u] = call[u]
    BY <1>1, StepElsewhere
  <2>2. U(s, cons'.tail) \in Int /\ U(s, cons.tail) <= U(s, cons'.tail)
    BY InvTypes
  <2> QED
    BY <2>1, <2>2, ProdSideStays
<1>6. t \in Consumers \/ (pc[t] \in {"head", "room", "move"} <=> lab \in {"head", "room", "move"}) => Budget(s)'
  <2>1. t \in Consumers \/ (pc[t] \in {"head", "room", "move"} <=> lab \in {"head", "room", "move"})
          => Pending' = Pending
    BY <1>1, StepElsewhere DEF Pending, StepOf, Threads
  <2> QED
    BY <2>1, UnchangedBudget DEF RingInv
<1> QED
  BY <1>1, <1>2, <1>3, <1>4, <1>5, <1>6

LEMMA ReadProdHeadKeepsInv ==
    ASSUME NEW s \in Index, RingInv(s), NEW p \in Producers, ReadProdHead(p)
    PROVE  RingInv(s)'
<1> DEFINE x == [call[p] EXCEPT !.old = prod.head]
<1>0. p \in Threads /\ call[p] \in Calls /\ prod.head \in Index /\ call[p].n <= call[p].max
  BY InvTypes DEF Threads
<1>1. /\ pc[p] = "head" /\ Goto(p, "room") /\ call' = [call EXCEPT ![p] = x]
      /\ UNCHANGED <<prod, cons, ring, single, enqueues>>
  BY DEF ReadProdHead
<1>2. x \in Calls /\ x.objs = call[p].objs /\ x.max = call[p].max /\ x.n = call[p].n /\ x.old = prod.head
  BY <1>0 DEF Calls
<1> HIDE DEF x
<1>3. Types' /\ StepOf(p, "room", x) /\ Order(s)' /\ Filled' /\ ConsSide(s)' /\ Budget(s)'
  BY <1>0, <1>1, <1>2, LocalStep DEF Labels
<1>4. ProdSide(s)'
  <2>1. Elsewhere(Producers, p, pc, call, pc', call') /\ pc'[p] = "room" /\ call'[p].old = prod.head
    BY <1>2, <1>3, StepElsewhere DEF StepOf
  <2> QED
    BY <1>1, <2>1, InvSides, SideReadsHead DEF ProdSide
<1> QED
  BY <1>3, <1>4 DEF RingInv, ProdSide, ConsSide

\* What a producer counts, whatever head it has read.
LEMMA RoomSeen ==
    ASSUME NEW s \in Index, RingInv(s), NEW p \in Producers, pc[p] = "room"
    PROVE  /\ FreeEntries(p) = mask + U(s, cons.tail) - U(s, call[p].old) /\ FreeEntries(p) \in Nat
           /\ U(s, call[p].old) <= U(s, prod.head)
<1>0. call[p].old \in Index /\ U(s, call[p].old) \in Nat
  BY InvTypes DEF Threads
<1>1. U(s, call[p].old) <= U(s, prod.head)
  BY DEF RingInv, Side
<1>2. /\ U(s, cons.tail) <= U(s, cons.head) /\ U(s, cons.head) <= U(s, prod.tail)
      /\ U(s, prod.tail) <= U(s, prod.head) /\ U(s, prod.head) <= U(s, cons.tail) + mask
  BY DEF RingInv, Order
<1>3. U(s, call[p].old) <= mask + U(s, cons.tail) /\ mask + U(s, cons.tail) < 2^IndexBits /\ cons.tail \in Index
  BY <1>0, <1>1, <1>2, InvTypes, InvBudget, TurnFacts
<1>4. Minus(mask + cons.tail, call[p].old) = mask + U(s, cons.tail) - U(s, call[p].old)
  BY <1>0, <1>3, UFree
<1>5. FreeEntries(p) = mask + U(s, cons.tail) - U(s, call[p].old)
  BY <1>4 DEF FreeEntries
<1> QED
  BY <1>0, <1>1, <1>3, <1>5, InvTypes, TurnFacts

LEMMA ReadConsTailKeepsInv ==
    ASSUME NEW s \in Index, RingInv(s), NEW p \in Producers, ReadConsTail(p)
    PROVE  RingInv(s)'
<1> DEFINE n == Granted(call[p], FreeEntries(p))
           x == [call[p] EXCEPT !.n = n]
<1>0. /\ p \in Threads /\ call[p] \in Calls /\ call[p].old \in Index /\ call[p].n <= call[p].max
      /\ U(s, call[p].old) \in Nat
  BY InvTypes DEF Threads
<1>1. pc[p] = "room" /\ UNCHANGED <<prod, cons, ring, single, enqueues>>
  BY DEF ReadConsTail
<1>2. FreeEntries(p) = mask + U(s, cons.tail) - U(s, call[p].old) /\ U(s, call[p].old) <= U(s, prod.head)
  BY <1>1, RoomSeen
<1>3. CASE n = 0 /\ Returns(p)
  <2>1. Goto(p, "idle") /\ call' = [call EXCEPT ![p] = NoCall]
    BY <1>3 DEF Returns
  <2>2. NoCall \in Calls /\ NoCall.n <= NoCall.max
    BY TurnFacts DEF NoCall, Calls, Index
  <2>3. Types' /\ StepOf(p, "idle", NoCall) /\ Order(s)' /\ Filled' /\ ConsSide(s)'
    BY <1>0, <1>1, <2>1, <2>2, LocalStep DEF Labels
  <2>4. ProdSide(s)'
    <3>1. Elsewhere(Producers, p, pc, call, pc', call') /\ pc'[p] = "idle"
      BY <2>3, StepElsewhere DEF StepOf
    <3> QED
      BY <1>1, <3>1, InvSides, SideGivesUp DEF ProdSide
  <2>5. Budget(s)'
    <3>1. Pending' = Pending \ {p} /\ p \in Pending
      BY <1>1, <2>3 DEF Pending, StepOf, Threads
    <3> QED
      BY <1>1, <3>1, PendingLeaves
  <2> QED
    BY <2>3, <2>4, <2>5 DEF RingInv, ProdSide, ConsSide
<1>4. CASE n # 0 /\ call' = [call EXCEPT ![p].n = n] /\ Goto(p, "move")
  <2>1. /\ n \in Nat \ {0} /\ n <= call[p].max
        /\ U(s, call[p].old) + n <= U(s, cons.tail) + mask
    <3>1. call[p].max \in Nat /\ FreeEntries(p) \in Nat
      BY <1>0, <1>1, RoomSeen DEF Calls
    <3>2. n \in Nat /\ n <= call[p].max /\ n <= FreeEntries(p)
      BY <3>1 DEF Granted
    <3> QED
      BY <1>0, <1>2, <1>4, <3>1, <3>2, InvTypes, TurnFacts
  <2>2. x \in Calls /\ x.objs = call[p].objs /\ x.max = call[p].max /\ x.n = n /\ x.old = call[p].old
    BY <1>0, <2>1 DEF Calls
  <2>3. call' = [call EXCEPT ![p] = x] /\ Goto(p, "move")
    BY <1>4
  <2> HIDE DEF n, x
  <2>4. Types' /\ StepOf(p, "move", x) /\ Order(s)' /\ Filled' /\ ConsSide(s)' /\ Budget(s)'
    BY <1>0, <1>1, <2>1, <2>2, <2>3, LocalStep DEF Labels
  <2>5. ProdSide(s)'
    <3>1. Elsewhere(Producers, p, pc, call, pc', call') /\ pc'[p] = "move"
           /\ call'[p].old = call[p].old /\ call'[p].n = n
      BY <2>2, <2>4, StepElsewhere DEF StepOf
    <3> QED
      BY <1>1, <2>1, <3>1, InvSides, SideGrants DEF ProdSide
  <2> QED
    BY <2>4, <2>5 DEF RingInv, ProdSide, ConsSide
<1> QED
  BY <1>3, <1>4 DEF ReadConsTail

LEMMA MoveProdHeadKeepsInv ==
    ASSUME NEW s \in Index, RingInv(s), NEW p \in Producers, MoveProdHead(p)
    PROVE  RingInv(s)'
<1> DEFINE old == call[p].old
           n == call[p].n
<1>0. /\ p \in Threads /\ call[p] \in Calls /\ old \in Index /\ n \in Nat /\ n <= call[p].max
      /\ U(s, old) \in Nat /\ Types /\ call' = [call EXCEPT ![p] = call[p]]
  BY InvTypes DEF Threads, RingInv, MoveProdHead, Types
<1>1. pc[p] = "move" /\ UNCHANGED <<cons, ring, call, single, enqueues>>
  BY DEF MoveProdHead
<1>2. ASSUME single.producer \/ prod.head = old, prod' = [prod EXCEPT !.head = Plus(old, n)], Goto(p, "copy")
      PROVE  RingInv(s)'
  <2>1. prod.head = old /\ n > 0 /\ U(s, old) + n <= U(s, cons.tail) + mask
    BY <1>1, <1>2 DEF RingInv, Side
  <2>2. call[p].max \in 1 .. MaxBurst /\ n \in 1 .. MaxBurst /\ p \in Pending
    BY <1>0, <1>1, <2>1, SizeAssumption DEF Types, Pending
  <2>3. Plus(old, n) \in Index /\ U(s, Plus(old, n)) = U(s, prod.head) + n
    <3>1. U(s, old) + n < 2^IndexBits
      BY <1>0, <2>1, <2>2, InvBudget, TurnFacts, SizeAssumption
    <3> QED
      BY <1>0, <2>1, <3>1, UPlus
  <2>4. prod'.head = Plus(old, n) /\ prod'.tail = prod.tail /\ prod' \in [head : Index, tail : Index]
    BY <1>0, <1>2, <2>3 DEF Types, TypeOK
  <2>5. Types' /\ StepOf(p, "copy", call[p])
    <3>1. /\ cons' \in [head : Index, tail : Index] /\ ring' \in [0 .. Size - 1 -> Objects \cup {Empty}]
          /\ "copy" \in Labels
      BY <1>0, <1>1 DEF Types, TypeOK, Labels
    <3>2. call[p].objs \in Bursts /\ Len(call[p].objs) = call[p].max
      BY <1>0, <1>1 DEF Types
    <3> QED
      BY <1>0, <1>1, <1>2, <2>2, <2>4, <3>1, <3>2, TypesStep
  <2>6. Order(s)'
    BY <1>0, <1>1, <2>1, <2>3, <2>4, InvTypes DEF RingInv, Order
  <2>7. Budget(s)'
    <3>1. Pending' = Pending \ {p}
      BY <2>5 DEF Pending, StepOf, Threads
    <3> QED
      BY <1>1, <2>2, <2>3, <2>4, <3>1, PendingLeaves
  <2>8. Filled'
    BY <1>1, <2>5 DEF RingInv, Filled, StepOf, Threads
  <2>9. ConsSide(s)'
    <3>1. \A u \in Consumers : pc'[u] = pc[u] /\ call'[u] = call[u]
      BY <2>5, StepElsewhere
    <3>2. U(s, prod'.tail) \in Int /\ U(s, prod.tail) <= U(s, prod'.tail)
      BY <2>4, InvTypes
    <3> QED
      BY <1>1, <3>1, <3>2, ConsSideStays
  <2>10. ProdSide(s)'
    <3>1. Elsewhere(Producers, p, pc, call, pc', call) /\ pc'[p] = "copy"
      BY <1>1, <2>5, StepElsewhere DEF StepOf
    <3>2. Side(s, pc', call, Producers, Plus(old, n), prod.tail, U(s, cons.tail) + mask, single.producer)
      BY <1>1, <2>1, <2>3, <3>1, InvSides, SideMovesHead
    <3> QED
      BY <1>1, <2>4, <3>2 DEF ProdSide
  <2> QED
    BY <2>5, <2>6, <2>7, <2>8, <2>9, <2>10 DEF RingInv, ProdSide, ConsSide
<1>3. ASSUME Goto(p, "head"), UNCHANGED prod
      PROVE  RingInv(s)'
  <2>1. Types' /\ StepOf(p, "head", call[p]) /\ Order(s)' /\ Filled' /\ ConsSide(s)' /\ Budget(s)'
    BY <1>0, <1>1, <1>3, LocalStep DEF Labels
  <2>2. ProdSide(s)'
    <3>1. Elsewhere(Producers, p, pc, call, pc', call') /\ pc'[p] = "head"
      BY <2>1, StepElsewhere DEF StepOf
    <3> QED
      BY <1>1, <1>3, <3>1, InvSides, SideGivesUp DEF ProdSide
  <2> QED
    BY <2>1, <2>2 DEF RingInv, ProdSide, ConsSide
<1> QED
  BY <1>2, <1>3 DEF MoveProdHead

LEMMA EnqueuePtrsKeepsInv ==
    ASSUME NEW s \in Index, RingInv(s), NEW p \in Producers, ENQUEUE_PTRS(p)
    PROVE  RingInv(s)'
<1> DEFINE old == call[p].old
           n == call[p].n
<1>0. /\ p \in Threads /\ call[p] \in Calls /\ old \in Index /\ n \in Nat /\ n <= call[p].max
      /\ U(s, old) \in Nat /\ Types /\ call' = [call EXCEPT ![p] = call[p]]
  BY InvTypes DEF Threads, RingInv, ENQUEUE_PTRS, Types
<1>1. /\ pc[p] = "copy" /\ Goto(p, "tail") /\ p \in Holding
      /\ UNCHANGED <<prod, cons, call, single, enqueues>>
  BY <1>0 DEF ENQUEUE_PTRS, Holding
<1>2. call[p].max \in 1 .. MaxBurst /\ call[p].objs \in Bursts /\ Len(call[p].objs) = call[p].max
  BY <1>0, <1>1 DEF Types
<1>3. call[p].objs \in [1 .. call[p].max -> Objects]
  BY <1>2, BurstFacts
<1>4. ring \in [0 .. Size - 1 -> Objects \cup {Empty}]
  BY <1>0 DEF Types, TypeOK
<1>5. \A l \in 0 .. Size - 1 :
        ring'[l] = LET j == (l - old) % Size IN IF j < n THEN call[p].objs[j + 1] ELSE ring[l]
  BY <1>4 DEF ENQUEUE_PTRS
<1>6. ring' \in [0 .. Size - 1 -> Objects \cup {Empty}]
  <2>1. ring' = [l \in 0 .. Size - 1 |-> ring'[l]]
    BY <1>4 DEF ENQUEUE_PTRS
  <2>2. ASSUME NEW l \in 0 .. Size - 1 PROVE ring'[l] \in Objects \cup {Empty}
    <3> DEFINE j == (l - old) % Size
    <3>1. j \in 0 .. Size - 1
      BY <1>0, OffsetSlot
    <3>2. ring'[l] = IF j < n THEN call[p].objs[j + 1] ELSE ring[l]
      BY <1>5
    <3> HIDE DEF j
    <3>3. j < n => j + 1 \in 1 .. call[p].max
      <4>1. j \in Nat /\ n \in Nat /\ call[p].max \in Nat /\ n <= call[p].max
        BY <1>0, <3>1, TurnFacts DEF Calls
      <4> QED
        BY <4>1
    <3> QED
      BY <1>3, <1>4, <3>2, <3>3
  <2> QED
    BY <2>1, <2>2
<1>7. Types' /\ StepOf(p, "tail", call[p])
  <2>1. /\ prod' \in [head : Index, tail : Index] /\ cons' \in [head : Index, tail : Index]
        /\ "tail" \in Labels
    BY <1>0, <1>1 DEF Types, TypeOK, Labels
  <2> QED
    BY <1>0, <1>1, <1>2, <1>6, <2>1, TypesStep
<1>8. Order(s)'
  BY <1>1 DEF RingInv, Order
<1>9. Budget(s)'
  <2>1. Pending' = Pending
    BY <1>1, <1>7 DEF Pending, StepOf, Threads
  <2> QED
    BY <1>1, <2>1, UnchangedBudget DEF RingInv
<1>10. ConsSide(s)'
  <2>1. \A u \in Consumers : pc'[u] = pc[u] /\ call'[u] = call[u]
    BY <1>7, StepElsewhere
  <2>2. U(s, prod'.tail) \in Int /\ U(s, prod.tail) <= U(s, prod'.tail)
    BY <1>1, InvTypes
  <2> QED
    BY <1>1, <2>1, <2>2, ConsSideStays
<1>11. ProdSide(s)'
  <2>1. Elsewhere(Producers, p, pc, call, pc', call') /\ pc'[p] = "tail"
    BY <1>7, StepElsewhere DEF StepOf
  <2> QED
    BY <1>1, <2>1, InvSides, SideCopies DEF ProdSide
<1>12. Filled'
  <2> SUFFICES ASSUME NEW q \in Producers, pc'[q] = "tail", NEW j \in 1 .. call[q].n
               PROVE  ring'[Slot(Plus(call[q].old, j - 1))] = call[q].objs[j]
    BY <1>1 DEF Filled
  <2>1. CASE q = p
    <3> DEFINE l == Slot(Plus(old, j - 1))
    <3>1. j - 1 \in 0 .. Size - 1 /\ j \in Nat /\ j - 1 < n /\ j - 1 \in 0 .. n - 1
      BY <1>0, <1>1, <2>1, HeldInterval, TurnFacts
    <3>2. (l - old) % Size = j - 1
      BY <1>0, <3>1, SlotOffset
    <3>3. Plus(old, j - 1) \in Index
      BY <1>1, <3>1, HeldInterval
    <3>4. l \in 0 .. Size - 1
      BY <3>3, SlotType, TurnFacts
    <3> HIDE DEF l
    <3>5. ring'[l] = call[p].objs[(j - 1) + 1]
      BY <1>5, <3>1, <3>2, <3>4
    <3> QED
      BY <2>1, <3>1, <3>5 DEF l
  <2>2. CASE q # p
    <3>1. q \in Threads /\ pc[q] = "tail" /\ q \in Holding
      BY <1>7, <2>2 DEF StepOf, Threads, Holding
    <3>2. /\ call[q].n \in Nat /\ U(s, call[q].old) \in Nat /\ U(s, cons.tail) \in Nat /\ U(s, prod.head) \in Nat
      BY <3>1, InvTypes
    <3> DEFINE i == Plus(call[q].old, j - 1)
    <3>3. j - 1 \in 0 .. call[q].n - 1
      BY <3>2
    <3>4. i \in Index /\ U(s, i) = U(s, call[q].old) + (j - 1)
      BY <3>1, <3>3, HeldInterval
    <3>5. U(s, cons.tail) <= U(s, call[q].old) /\ U(s, call[q].old) + call[q].n <= U(s, prod.head)
      BY <3>1, HeldInterval
    <3>6. \/ U(s, call[q].old) + call[q].n <= U(s, old)
          \/ U(s, old) + n <= U(s, call[q].old)
      BY <1>1, <2>2, <3>1 DEF RingInv, Side, Holders
    <3>7. /\ U(s, cons.tail) <= U(s, i) /\ U(s, i) < U(s, prod.head)
          /\ U(s, i) < U(s, old) \/ U(s, old) + n <= U(s, i)
      BY <1>0, <3>2, <3>3, <3>4, <3>5, <3>6
    <3>8. ring'[Slot(i)] = ring[Slot(i)]
      BY <3>4, <3>7, CopyKeepsOthers
    <3> QED
      BY <3>1, <3>8 DEF RingInv, Filled
  <2> QED
    BY <2>1, <2>2
<1> QED
  BY <1>7, <1>8, <1>9, <1>10, <1>11, <1>12 DEF RingInv, ProdSide, ConsSide

LEMMA UpdateProdTailKeepsInv ==
    ASSUME NEW s \in Index, RingInv(s), NEW p \in Producers, UpdateProdTail(p)
    PROVE  RingInv(s)' /\ call[p].old = prod.tail /\ U(s, prod'.tail) = U(s, prod.tail) + call[p].n
             /\ StepOf(p, "idle", NoCall)
<1> DEFINE old == call[p].old
           n == call[p].n
<1>0. p \in Threads /\ old \in Index /\ n \in Nat /\ U(s, old) \in Nat /\ Types
  BY InvTypes DEF Threads, RingInv
<1>1. /\ pc[p] = "tail" /\ p \in Holding /\ Goto(p, "idle") /\ call' = [call EXCEPT ![p] = NoCall]
      /\ prod' = [prod EXCEPT !.tail = Plus(old, n)]
      /\ UNCHANGED <<cons, ring, single, enqueues>>
  BY <1>0 DEF UpdateProdTail, Holding, Returns
<1>2. old = prod.tail
  BY <1>1 DEF UpdateProdTail, RingInv, Side, Holders
<1>3. U(s, old) + n <= U(s, prod.head)
  BY <1>1, HeldInterval
<1>4. Plus(old, n) \in Index /\ U(s, Plus(old, n)) = U(s, prod.tail) + n
  <2>1. U(s, old) + n < 2^IndexBits
    BY <1>0, <1>3, InvBudget, InvTypes, TurnFacts
  <2> QED
    BY <1>0, <1>2, <2>1, UPlus
<1>5. prod'.tail = Plus(old, n) /\ prod'.head = prod.head /\ prod' \in [head : Index, tail : Index]
  BY <1>0, <1>1, <1>4 DEF Types, TypeOK
<1>6. Types' /\ StepOf(p, "idle", NoCall)
  <2>1. /\ cons' \in [head : Index, tail : Index] /\ ring' \in [0 .. Size - 1 -> Objects \cup {Empty}]
        /\ "idle" \in Labels /\ NoCall \in Calls /\ NoCall.n <= NoCall.max
    BY <1>0, <1>1, TurnFacts DEF Types, TypeOK, Labels, NoCall, Calls, Index
  <2> QED
    BY <1>0, <1>1, <1>5, <2>1, TypesStep
<1>7. Order(s)'
  BY <1>0, <1>1, <1>2, <1>3, <1>4, <1>5, InvTypes DEF RingInv, Order
<1>8. Budget(s)'
  <2>1. Pending' = Pending
    BY <1>1, <1>6 DEF Pending, StepOf, Threads
  <2> QED
    BY <1>1, <1>5, <2>1, UnchangedBudget DEF RingInv
<1>9. Filled'
  BY <1>1, <1>6 DEF RingInv, Filled, StepOf, Threads
<1>10. ConsSide(s)'
  <2>1. \A u \in Consumers : pc'[u] = pc[u] /\ call'[u] = call[u]
    BY <1>6, StepElsewhere
  <2>2. U(s, prod'.tail) \in Int /\ U(s, prod.tail) <= U(s, prod'.tail)
    BY <1>0, <1>4, <1>5, InvTypes
  <2> QED
    BY <1>1, <2>1, <2>2, ConsSideStays
<1>11. ProdSide(s)'
  <2>1. Elsewhere(Producers, p, pc, call, pc', call') /\ pc'[p] = "idle"
    BY <1>6, StepElsewhere DEF StepOf
  <2>2. Side(s, pc', call', Producers, prod.head, Plus(old, n), U(s, cons.tail) + mask, single.producer)
    BY <1>1, <1>2, <1>4, <2>1, InvSides, SideMovesTail
  <2> QED
    BY <1>1, <1>5, <2>2 DEF ProdSide
<1>12. RingInv(s)'
  BY <1>6, <1>7, <1>8, <1>9, <1>10, <1>11 DEF RingInv, ProdSide, ConsSide
<1> QED
  BY <1>2, <1>4, <1>5, <1>6, <1>12

LEMMA DequeueKeepsInv ==
    ASSUME NEW s \in Index, RingInv(s), NEW c \in Consumers, NEW max \in 1 .. MaxBurst, NEW fixed \in Behaviors,
           rte_ring_dequeue(c, max, fixed)
    PROVE  RingInv(s)'
<1> DEFINE x == [NoCall EXCEPT !.max = max, !.fixed = fixed]
<1>0. c \in Threads /\ c \notin Producers /\ Types
  BY ThreadsAssumption DEF Threads, RingInv
<1>1. /\ pc[c] = "idle"
      /\ single.consumer => \A d \in Consumers : pc[d] = "idle"
      /\ Goto(c, "head") /\ call' = [call EXCEPT ![c] = x]
      /\ prod' = prod /\ cons' = cons /\ ring' = ring /\ single' = single /\ enqueues' = enqueues
  BY DEF rte_ring_dequeue
<1>2. x \in Calls /\ x.max = max /\ x.n = 0 /\ max \in Nat
  <2>1. NoCall \in Calls /\ NoCall.n = 0
    BY TurnFacts DEF NoCall, Calls, Index
  <2>2. fixed \in BOOLEAN /\ max \in Nat
    BY ThreadsAssumption, SizeAssumption
  <2> QED
    BY <2>1, <2>2 DEF Calls
<1> HIDE DEF x
<1>3. Types' /\ StepOf(c, "head", x)
  <2>1. /\ prod' \in [head : Index, tail : Index] /\ cons' \in [head : Index, tail : Index]
        /\ ring' \in [0 .. Size - 1 -> Objects \cup {Empty}] /\ "head" \in Labels /\ x.n <= x.max
    BY <1>0, <1>1, <1>2 DEF Types, TypeOK, Labels
  <2> QED
    BY <1>0, <1>1, <1>2, <2>1, TypesStep
<1>4. ConsSide(s)'
  <2>1. Elsewhere(Consumers, c, pc, call, pc', call') /\ pc'[c] = "head"
    BY <1>3, StepElsewhere DEF StepOf
  <2> QED
    BY <1>1, <2>1, InvSides, SideBegins DEF ConsSide
<1>5. /\ \A u \in Producers : pc'[u] = pc[u] /\ call'[u] = call[u]
  BY <1>3, StepElsewhere
<1>6. ProdSide(s)'
  <2>1. U(s, cons'.tail) \in Int /\ U(s, cons.tail) <= U(s, cons'.tail)
    BY <1>1, InvTypes
  <2> QED
    BY <1>1, <1>5, <2>1, ProdSideStays
<1>7. Order(s)'
  BY <1>1 DEF RingInv, Order
<1>8. Budget(s)'
  BY <1>1, <1>5, UnchangedBudget DEF RingInv, Pending
<1>9. Filled'
  BY <1>1, <1>5 DEF RingInv, Filled
<1> QED
  BY <1>3, <1>4, <1>6, <1>7, <1>8, <1>9 DEF RingInv, ProdSide, ConsSide

LEMMA ReadConsHeadKeepsInv ==
    ASSUME NEW s \in Index, RingInv(s), NEW c \in Consumers, ReadConsHead(c)
    PROVE  RingInv(s)'
<1> DEFINE x == [call[c] EXCEPT !.old = cons.head]
<1>0. c \in Threads /\ c \notin Producers /\ call[c] \in Calls /\ cons.head \in Index /\ call[c].n <= call[c].max
  BY InvTypes, ThreadsAssumption DEF Threads
<1>1. /\ pc[c] = "head" /\ Goto(c, "room") /\ call' = [call EXCEPT ![c] = x]
      /\ UNCHANGED <<prod, cons, ring, single, enqueues>>
  BY DEF ReadConsHead
<1>2. x \in Calls /\ x.max = call[c].max /\ x.n = call[c].n /\ x.old = cons.head
  BY <1>0 DEF Calls
<1> HIDE DEF x
<1>3. Types' /\ StepOf(c, "room", x) /\ Order(s)' /\ Filled' /\ ProdSide(s)' /\ Budget(s)'
  BY <1>0, <1>1, <1>2, LocalStep DEF Labels
<1>4. ConsSide(s)'
  <2>1. Elsewhere(Consumers, c, pc, call, pc', call') /\ pc'[c] = "room" /\ call'[c].old = cons.head
    BY <1>2, <1>3, StepElsewhere DEF StepOf
  <2> QED
    BY <1>1, <2>1, InvSides, SideReadsHead DEF ConsSide
<1> QED
  BY <1>3, <1>4 DEF RingInv, ProdSide, ConsSide

LEMMA EntriesSeen ==
    ASSUME NEW s \in Index, RingInv(s), NEW c \in Consumers, pc[c] = "room"
    PROVE  /\ CountEntries(c) = U(s, prod.tail) - U(s, call[c].old) /\ CountEntries(c) \in Nat
           /\ U(s, call[c].old) <= U(s, cons.head)
<1>1. call[c].old \in Index /\ U(s, call[c].old) \in Nat
  BY InvTypes DEF Threads
<1>2. U(s, call[c].old) <= U(s, cons.head)
  BY DEF RingInv, Side
<1>3. U(s, call[c].old) <= U(s, prod.tail)
  BY <1>1, <1>2, InvTypes DEF RingInv, Order
<1>4. Minus(prod.tail, call[c].old) = U(s, prod.tail) - U(s, call[c].old)
  BY <1>1, <1>3, InvTypes, UMinus
<1> QED
  BY <1>1, <1>2, <1>3, <1>4, InvTypes DEF CountEntries

LEMMA ReadProdTailKeepsInv ==
    ASSUME NEW s \in Index, RingInv(s), NEW c \in Consumers, ReadProdTail(c)
    PROVE  RingInv(s)'
<1> DEFINE n == Granted(call[c], CountEntries(c))
           x == [call[c] EXCEPT !.n = n]
<1>0. /\ c \in Threads /\ c \notin Producers /\ call[c] \in Calls /\ call[c].old \in Index
      /\ call[c].n <= call[c].max /\ U(s, call[c].old) \in Nat
  BY InvTypes, ThreadsAssumption DEF Threads
<1>1. pc[c] = "room" /\ UNCHANGED <<prod, cons, ring, single, enqueues>>
  BY DEF ReadProdTail
<1>2. CASE n = 0 /\ Returns(c)
  <2>1. Goto(c, "idle") /\ call' = [call EXCEPT ![c] = NoCall]
    BY <1>2 DEF Returns
  <2>2. NoCall \in Calls /\ NoCall.n <= NoCall.max
    BY TurnFacts DEF NoCall, Calls, Index
  <2>3. Types' /\ StepOf(c, "idle", NoCall) /\ Order(s)' /\ Filled' /\ ProdSide(s)' /\ Budget(s)'
    BY <1>0, <1>1, <2>1, <2>2, LocalStep DEF Labels
  <2>4. ConsSide(s)'
    <3>1. Elsewhere(Consumers, c, pc, call, pc', call') /\ pc'[c] = "idle"
      BY <2>3, StepElsewhere DEF StepOf
    <3> QED
      BY <1>1, <3>1, InvSides, SideGivesUp DEF ConsSide
  <2> QED
    BY <2>3, <2>4 DEF RingInv, ProdSide, ConsSide
<1>3. CASE n # 0 /\ call' = [call EXCEPT ![c].n = n] /\ Goto(c, "move")
  <2>1. n \in Nat \ {0} /\ n <= call[c].max /\ U(s, call[c].old) + n <= U(s, prod.tail)
    <3>1. call[c].max \in Nat
      BY <1>0 DEF Calls
    <3>2. n \in Nat /\ n <= call[c].max /\ n <= CountEntries(c)
      BY <1>1, <3>1, EntriesSeen DEF Granted
    <3> QED
      BY <1>0, <1>1, <1>3, <3>2, EntriesSeen, InvTypes
  <2>2. x \in Calls /\ x.max = call[c].max /\ x.n = n /\ x.old = call[c].old
    BY <1>0, <2>1 DEF Calls
  <2>3. call' = [call EXCEPT ![c] = x] /\ Goto(c, "move")
    BY <1>3
  <2> HIDE DEF n, x
  <2>4. Types' /\ StepOf(c, "move", x) /\ Order(s)' /\ Filled' /\ ProdSide(s)' /\ Budget(s)'
    BY <1>0, <1>1, <2>1, <2>2, <2>3, LocalStep DEF Labels
  <2>5. ConsSide(s)'
    <3>1. Elsewhere(Consumers, c, pc, call, pc', call') /\ pc'[c] = "move"
           /\ call'[c].old = call[c].old /\ call'[c].n = n
      BY <2>2, <2>4, StepElsewhere DEF StepOf
    <3> QED
      BY <1>1, <2>1, <3>1, InvSides, SideGrants DEF ConsSide
  <2> QED
    BY <2>4, <2>5 DEF RingInv, ProdSide, ConsSide
<1> QED
  BY <1>2, <1>3 DEF ReadProdTail

LEMMA MoveConsHeadKeepsInv ==
    ASSUME NEW s \in Index, RingInv(s), NEW c \in Consumers, MoveConsHead(c)
    PROVE  /\ RingInv(s)' /\ call' = call /\ pc[c] = "move"
           /\ \/ /\ pc'[c] = "copy" /\ call[c].old = cons.head /\ cons'.head = Plus(cons.head, call[c].n)
                 /\ U(s, cons'.head) = U(s, cons.head) + call[c].n
                 /\ U(s, cons.head) + call[c].n <= U(s, prod.tail) /\ call[c].n \in 1 .. MaxBurst
              \/ pc'[c] = "head" /\ cons' = cons
           /\ \A u \in Threads \ {c} : pc'[u] = pc[u]
<1> DEFINE old == call[c].old
           n == call[c].n
<1>0. /\ c \in Threads /\ c \notin Producers /\ call[c] \in Calls /\ old \in Index /\ n \in Nat
      /\ n <= call[c].max /\ U(s, old) \in Nat /\ Types /\ call' = [call EXCEPT ![c] = call[c]]
  BY InvTypes, ThreadsAssumption DEF Threads, RingInv, MoveConsHead, Types
<1>1. pc[c] = "move" /\ UNCHANGED <<prod, ring, call, single, enqueues>>
  BY DEF MoveConsHead
<1>2. ASSUME single.consumer \/ cons.head = old, cons' = [cons EXCEPT !.head = Plus(old, n)], Goto(c, "copy")
      PROVE  /\ RingInv(s)' /\ StepOf(c, "copy", call[c])
             /\ old = cons.head /\ cons'.head = Plus(cons.head, n) /\ U(s, cons'.head) = U(s, cons.head) + n
             /\ U(s, cons.head) + n <= U(s, prod.tail) /\ n \in 1 .. MaxBurst
  <2>1. cons.head = old /\ n > 0 /\ U(s, old) + n <= U(s, prod.tail)
    BY <1>1, <1>2 DEF RingInv, Side
  <2>2. call[c].max \in 1 .. MaxBurst /\ n \in 1 .. MaxBurst
    BY <1>0, <1>1, <2>1, SizeAssumption DEF Types
  <2>3. Plus(old, n) \in Index /\ U(s, Plus(old, n)) = U(s, cons.head) + n
    <3>1. U(s, old) + n < 2^IndexBits
      BY <1>0, <2>1, InvTypes, TurnFacts, UType
    <3> QED
      BY <1>0, <2>1, <3>1, UPlus
  <2>4. cons'.head = Plus(old, n) /\ cons'.tail = cons.tail /\ cons' \in [head : Index, tail : Index]
    BY <1>0, <1>2, <2>3 DEF Types, TypeOK
  <2>5. Types' /\ StepOf(c, "copy", call[c])
    <3>1. /\ prod' \in [head : Index, tail : Index] /\ ring' \in [0 .. Size - 1 -> Objects \cup {Empty}]
          /\ "copy" \in Labels
      BY <1>0, <1>1 DEF Types, TypeOK, Labels
    <3> QED
      BY <1>0, <1>1, <1>2, <2>2, <2>4, <3>1, TypesStep
  <2>6. Order(s)'
    BY <1>0, <1>1, <2>1, <2>3, <2>4, InvTypes DEF RingInv, Order
  <2>7. \A u \in Producers : pc'[u] = pc[u] /\ call'[u] = call[u]
    BY <2>5, StepElsewhere
  <2>8. Budget(s)' /\ Filled'
    BY <1>1, <2>7, UnchangedBudget DEF RingInv, Pending, Filled
  <2>9. ProdSide(s)'
    <3>1. U(s, cons'.tail) \in Int /\ U(s, cons.tail) <= U(s, cons'.tail)
      BY <2>4, InvTypes
    <3> QED
      BY <1>1, <2>7, <3>1, ProdSideStays
  <2>10. ConsSide(s)'
    <3>1. Elsewhere(Consumers, c, pc, call, pc', call) /\ pc'[c] = "copy"
      BY <1>1, <2>5, StepElsewhere DEF StepOf
    <3>2. Side(s, pc', call, Consumers, Plus(old, n), cons.tail, U(s, prod.tail), single.consumer)
      BY <1>1, <2>1, <2>3, <3>1, InvSides, SideMovesHead
    <3> QED
      BY <1>1, <2>4, <3>2 DEF ConsSide
  <2>11. RingInv(s)'
    BY <2>5, <2>6, <2>8, <2>9, <2>10 DEF RingInv, ProdSide, ConsSide
  <2> QED
    BY <2>1, <2>2, <2>3, <2>4, <2>5, <2>11
<1>3. ASSUME Goto(c, "head"), UNCHANGED cons
      PROVE  RingInv(s)' /\ StepOf(c, "head", call[c])
  <2>1. Types' /\ StepOf(c, "head", call[c]) /\ Order(s)' /\ Filled' /\ ProdSide(s)' /\ Budget(s)'
    BY <1>0, <1>1, <1>3, LocalStep DEF Labels
  <2>2. ConsSide(s)'
    <3>1. Elsewhere(Consumers, c, pc, call, pc', call') /\ pc'[c] = "head"
      BY <2>1, StepElsewhere DEF StepOf
    <3> QED
      BY <1>1, <1>3, <3>1, InvSides, SideGivesUp DEF ConsSide
  <2> QED
    BY <2>1, <2>2 DEF RingInv, ProdSide, ConsSide
<1>4. CASE /\ single.consumer \/ cons.head = old
           /\ cons' = [cons EXCEPT !.head = Plus(old, n)] /\ Goto(c, "copy")
  BY <1>1, <1>2, <1>4 DEF StepOf
<1>5. CASE Goto(c, "head") /\ UNCHANGED cons
  BY <1>1, <1>3, <1>5 DEF StepOf
<1> QED
  BY <1>4, <1>5 DEF MoveConsHead

LEMMA DequeuePtrsKeepsInv ==
    ASSUME NEW s \in Index, RingInv(s), NEW c \in Consumers, DEQUEUE_PTRS(c)
    PROVE  /\ RingInv(s)' /\ pc[c] = "copy" /\ pc'[c] = "tail"
           /\ call'[c].objs = Contents(call[c].old, call[c].n)
           /\ \A u \in Threads \ {c} : pc'[u] = pc[u] /\ call'[u] = call[u]
<1> DEFINE o == Contents(call[c].old, call[c].n)
           x == [call[c] EXCEPT !.objs = o]
<1>0. /\ c \in Threads /\ c \notin Producers /\ call[c] \in Calls /\ call[c].n \in Nat
      /\ call[c].n <= call[c].max
  BY InvTypes, ThreadsAssumption DEF Threads
<1>1. /\ pc[c] = "copy" /\ Goto(c, "tail") /\ call' = [call EXCEPT ![c] = x] /\ c \in Holding
      /\ UNCHANGED <<prod, cons, ring, single, enqueues>>
  BY <1>0 DEF DEQUEUE_PTRS, Holding
<1>2. o \in Seq(Objects \cup {Empty})
  <2>1. ASSUME NEW j \in 1 .. call[c].n PROVE ring[Slot(Plus(call[c].old, j - 1))] \in Objects \cup {Empty}
    <3>1. j - 1 \in 0 .. call[c].n - 1
      BY <1>0
    <3>2. Plus(call[c].old, j - 1) \in Index
      BY <1>1, <3>1, HeldInterval
    <3>3. Slot(Plus(call[c].old, j - 1)) \in 0 .. Size - 1
      BY <3>2, SlotType, TurnFacts
    <3> QED
      BY <3>3 DEF RingInv, Types, TypeOK
  <2>2. o \in [1 .. call[c].n -> Objects \cup {Empty}]
    BY <2>1 DEF Contents
  <2> HIDE DEF o
  <2> QED
    BY <1>0, <2>2
<1> HIDE DEF o
<1>3. x \in Calls /\ x.objs = o /\ x.max = call[c].max /\ x.n = call[c].n /\ x.old = call[c].old
  BY <1>0, <1>2 DEF Calls
<1> HIDE DEF x
<1>4. Types' /\ StepOf(c, "tail", x) /\ Order(s)' /\ Filled' /\ ProdSide(s)' /\ Budget(s)'
  BY <1>0, <1>1, <1>3, LocalStep DEF Labels
<1>5. ConsSide(s)'
  <2>1. Elsewhere(Consumers, c, pc, call, pc', call') /\ pc'[c] = "tail"
         /\ call'[c].old = call[c].old /\ call'[c].n = call[c].n
    BY <1>3, <1>4, StepElsewhere DEF StepOf
  <2> QED
    BY <1>1, <2>1, InvSides, SideCopies DEF ConsSide
<1>6. RingInv(s)'
  BY <1>4, <1>5 DEF RingInv, ProdSide, ConsSide
<1> QED
  BY <1>1, <1>3, <1>4, <1>6 DEF StepOf, o

LEMMA UpdateConsTailKeepsInv ==
    ASSUME NEW s \in Index, RingInv(s), NEW c \in Consumers, UpdateConsTail(c)
    PROVE  /\ RingInv(s)' /\ pc[c] = "tail" /\ StepOf(c, "idle", NoCall)
           /\ cons'.head = cons.head /\ prod' = prod /\ ring' = ring
<1> DEFINE old == call[c].old
           n == call[c].n
<1>0. c \in Threads /\ c \notin Producers /\ old \in Index /\ n \in Nat /\ U(s, old) \in Nat /\ Types
  BY InvTypes, ThreadsAssumption DEF Threads, RingInv
<1>1. /\ pc[c] = "tail" /\ c \in Holding /\ Goto(c, "idle") /\ call' = [call EXCEPT ![c] = NoCall]
      /\ cons' = [cons EXCEPT !.tail = Plus(old, n)]
      /\ UNCHANGED <<prod, ring, single, enqueues>>
  BY <1>0 DEF UpdateConsTail, Holding, Returns
<1>2. old = cons.tail
  BY <1>1 DEF UpdateConsTail, RingInv, Side, Holders
<1>3. U(s, old) + n <= U(s, cons.head)
  BY <1>1, HeldInterval
<1>4. Plus(old, n) \in Index /\ U(s, Plus(old, n)) = U(s, cons.tail) + n
  <2>1. U(s, old) + n < 2^IndexBits
    BY <1>0, <1>3, InvTypes, TurnFacts, UType
  <2> QED
    BY <1>0, <1>2, <2>1, UPlus
<1>5. cons'.tail = Plus(old, n) /\ cons'.head = cons.head /\ cons' \in [head : Index, tail : Index]
  BY <1>0, <1>1, <1>4 DEF Types, TypeOK
<1>6. Types' /\ StepOf(c, "idle", NoCall)
  <2>1. /\ prod' \in [head : Index, tail : Index] /\ ring' \in [0 .. Size - 1 -> Objects \cup {Empty}]
        /\ "idle" \in Labels /\ NoCall \in Calls /\ NoCall.n <= NoCall.max
    BY <1>0, <1>1, TurnFacts DEF Types, TypeOK, Labels, NoCall, Calls, Index
  <2> QED
    BY <1>0, <1>1, <1>5, <2>1, TypesStep
<1>7. Order(s)'
  BY <1>0, <1>1, <1>2, <1>3, <1>4, <1>5, InvTypes, TurnFacts DEF RingInv, Order
<1>8. \A u \in Producers : pc'[u] = pc[u] /\ call'[u] = call[u]
  BY <1>0, <1>6, StepElsewhere
<1>9. Budget(s)' /\ Filled'
  BY <1>1, <1>8, UnchangedBudget DEF RingInv, Pending, Filled
<1>10. ProdSide(s)'
  <2>1. U(s, cons'.tail) \in Int /\ U(s, cons.tail) <= U(s, cons'.tail)
    BY <1>0, <1>4, <1>5, InvTypes
  <2> QED
    BY <1>1, <1>8, <2>1, ProdSideStays
<1>11. ConsSide(s)'
  <2>1. Elsewhere(Consumers, c, pc, call, pc', call') /\ pc'[c] = "idle"
    BY <1>6, StepElsewhere DEF StepOf
  <2>2. Side(s, pc', call', Consumers, cons.head, Plus(old, n), U(s, prod.tail), single.consumer)
    BY <1>1, <1>2, <1>4, <2>1, InvSides, SideMovesTail
  <2> QED
    BY <1>1, <1>5, <2>2 DEF ConsSide
<1>12. RingInv(s)'
  BY <1>6, <1>7, <1>9, <1>10, <1>11 DEF RingInv, ProdSide, ConsSide
<1> QED
  BY <1>1, <1>5, <1>6, <1>12

LEMMA NextKeepsInv ==
    ASSUME NEW s \in Index, RingInv(s), [Next]_vars
    PROVE  RingInv(s)'
<1>1. ASSUME NEW p \in Producers, NEW b \in Bursts, NEW fixed \in Behaviors, rte_ring_enqueue(p, b, fixed)
      PROVE  RingInv(s)'
  BY <1>1, EnqueueKeepsInv
<1>2. ASSUME NEW p \in Producers, EnqueueStep(p) PROVE RingInv(s)'
  BY <1>2, ReadProdHeadKeepsInv, ReadConsTailKeepsInv, MoveProdHeadKeepsInv, EnqueuePtrsKeepsInv,
     UpdateProdTailKeepsInv DEF EnqueueStep
<1>3. ASSUME NEW c \in Consumers, NEW n \in 1 .. MaxBurst, NEW fixed \in Behaviors, rte_ring_dequeue(c, n, fixed)
      PROVE  RingInv(s)'
  BY <1>3, DequeueKeepsInv
<1>4. ASSUME NEW c \in Consumers, DequeueStep(c) PROVE RingInv(s)'
  BY <1>4, ReadConsHeadKeepsInv, ReadProdTailKeepsInv, MoveConsHeadKeepsInv, DequeuePtrsKeepsInv,
     UpdateConsTailKeepsInv DEF DequeueStep
<1>5. CASE UNCHANGED vars
  BY <1>5 DEF vars, RingInv, Types, TypeOK, Order, Budget, Pending, Filled, Side, Holders
<1> QED
  BY <1>1, <1>2, <1>3, <1>4, <1>5 DEF Next

LEMMA AlwaysInv == Spec => []Inv
<1>1. Inv /\ [Next]_vars => Inv'
  BY NextKeepsInv DEF Inv
<1> QED
  BY <1>1, InitInv, PTL DEF Spec

-----------------------------------------------------------------------------
(***************************************************************************)
(* The variables of a ring and of the calls on it keep their types: the    *)
(* indices stay in their width, and no call is granted more than it asked  *)
(* for.                                                                    *)
(***************************************************************************)
THEOREM AlwaysTypeOK == Spec => []TypeOK
<1>1. Inv => TypeOK
  BY DEF Inv, RingInv, Types
<1> QED
  BY <1>1, AlwaysInv, PTL

(***************************************************************************)
(* The four indices follow each other within one turn of the ring, for any *)
(* number of producers and consumers.                                      *)
(***************************************************************************)
THEOREM AlwaysIndicesInOrder == Spec => []IndicesInOrder
<1>1. Inv => IndicesInOrder
  <2> SUFFICES ASSUME NEW s \in Index, RingInv(s) PROVE IndicesInOrder
    BY DEF Inv
  <2>1. /\ U(s, cons.tail) <= U(s, cons.head) /\ U(s, cons.head) <= U(s, prod.tail)
        /\ U(s, prod.tail) <= U(s, prod.head) /\ U(s, prod.head) <= U(s, cons.tail) + mask
    BY DEF RingInv, Order
  <2>2. /\ Minus(cons.head, cons.tail) = U(s, cons.head) - U(s, cons.tail)
        /\ Minus(prod.tail, cons.head) = U(s, prod.tail) - U(s, cons.head)
        /\ Minus(prod.head, prod.tail) = U(s, prod.head) - U(s, prod.tail)
    BY <2>1, InvTypes, UMinus
  <2> QED
    BY <2>1, <2>2, InvTypes, TurnFacts DEF IndicesInOrder
<1> QED
  BY <1>1, AlwaysInv, PTL

(***************************************************************************)
(* No two threads hold the same slot: the copies in ENQUEUE_PTRS and       *)
(* DEQUEUE_PTRS need no lock.                                              *)
(***************************************************************************)
THEOREM AlwaysReservationsAreDisjoint == Spec => []ReservationsAreDisjoint
<1>1. Inv => ReservationsAreDisjoint
  <2> SUFFICES ASSUME NEW s \in Index, RingInv(s), NEW t \in Holding, NEW u \in Holding, t # u,
                      NEW j \in 0 .. call[t].n - 1, NEW k \in 0 .. call[u].n - 1,
                      Slot(Plus(call[t].old, j)) = Slot(Plus(call[u].old, k))
               PROVE  FALSE
    BY DEF Inv, ReservationsAreDisjoint, Reserved
  <2>1. t \in Threads /\ u \in Threads /\ pc[t] \in {"copy", "tail"} /\ pc[u] \in {"copy", "tail"}
    BY DEF Holding
  <2>2. /\ Plus(call[t].old, j) \in Index /\ U(s, Plus(call[t].old, j)) = U(s, call[t].old) + j
        /\ Plus(call[u].old, k) \in Index /\ U(s, Plus(call[u].old, k)) = U(s, call[u].old) + k
    BY HeldInterval
  <2>3. /\ U(s, cons.tail) <= U(s, call[t].old) /\ U(s, call[t].old) + call[t].n <= U(s, prod.head)
        /\ U(s, cons.tail) <= U(s, call[u].old) /\ U(s, call[u].old) + call[u].n <= U(s, prod.head)
    BY HeldInterval
  <2>4. /\ U(s, call[t].old) \in Nat /\ U(s, call[u].old) \in Nat /\ call[t].n \in Nat /\ call[u].n \in Nat
        /\ U(s, cons.tail) \in Nat /\ U(s, prod.head) \in Nat
    BY <2>1, InvTypes
  <2>5. U(s, call[t].old) + j = U(s, call[u].old) + k
    BY <2>2, <2>3, <2>4, WindowSlots
  <2>6. CASE (t \in Producers /\ u \in Producers) \/ (t \in Consumers /\ u \in Consumers)
    <3>1. \/ U(s, call[t].old) + call[t].n <= U(s, call[u].old)
          \/ U(s, call[u].old) + call[u].n <= U(s, call[t].old)
      BY <2>1, <2>6 DEF RingInv, Side, Holders
    <3> QED
      BY <2>4, <2>5, <3>1
  <2>7. CASE t \in Producers /\ u \in Consumers
    <3>1. U(s, prod.tail) <= U(s, call[t].old) /\ U(s, call[u].old) + call[u].n <= U(s, cons.head)
      BY <2>7, HeldInterval
    <3> QED
      BY <2>4, <2>5, <3>1, InvTypes DEF RingInv, Order
  <2>8. CASE t \in Consumers /\ u \in Producers
    <3>1. U(s, prod.tail) <= U(s, call[u].old) /\ U(s, call[t].old) + call[t].n <= U(s, cons.head)
      BY <2>8, HeldInterval
    <3> QED
      BY <2>4, <2>5, <3>1, InvTypes DEF RingInv, Order
  <2> QED
    BY <2>1, <2>6, <2>7, <2>8 DEF Threads
<1> QED
  BY <1>1, AlwaysInv, PTL

-----------------------------------------------------------------------------
\* A thread that gives up has just counted the slots, or the objects.
LEMMA GivingUp ==
    ASSUME pc \in [Threads -> Labels], NEW t \in Threads, pc[t] = "room", pc'[t] = "idle", [Next]_vars
    PROVE  \/ t \in Producers /\ ReadConsTail(t)
           \/ t \in Consumers /\ ReadProdTail(t)
<1>1. ASSUME NEW u, NEW lab \in Labels, Goto(u, lab) PROVE u = t /\ lab = "idle"
  BY <1>1 DEF Goto
<1>2. \A u : Returns(u) => Goto(u, "idle")
  BY DEF Returns
<1>3. ASSUME NEW p \in Producers, EnqueueStep(p) PROVE p = t /\ ReadConsTail(t)
  <2>1. CASE ReadProdHead(p)
    BY <1>1, <2>1 DEF ReadProdHead, Labels
  <2>2. CASE ReadConsTail(p)
    BY <1>1, <1>2, <2>2 DEF ReadConsTail, Labels
  <2>3. CASE MoveProdHead(p)
    BY <1>1, <2>3 DEF MoveProdHead, Labels
  <2>4. CASE ENQUEUE_PTRS(p)
    BY <1>1, <2>4 DEF ENQUEUE_PTRS, Labels
  <2>5. CASE UpdateProdTail(p)
    BY <1>1, <1>2, <2>5 DEF UpdateProdTail, Labels
  <2> QED
    BY <1>3, <2>1, <2>2, <2>3, <2>4, <2>5 DEF EnqueueStep
<1>4. ASSUME NEW c \in Consumers, DequeueStep(c) PROVE c = t /\ ReadProdTail(t)
  <2>1. CASE ReadConsHead(c)
    BY <1>1, <2>1 DEF ReadConsHead, Labels
  <2>2. CASE ReadProdTail(c)
    BY <1>1, <1>2, <2>2 DEF ReadProdTail, Labels
  <2>3. CASE MoveConsHead(c)
    BY <1>1, <2>3 DEF MoveConsHead, Labels
  <2>4. CASE DEQUEUE_PTRS(c)
    BY <1>1, <2>4 DEF DEQUEUE_PTRS, Labels
  <2>5. CASE UpdateConsTail(c)
    BY <1>1, <1>2, <2>5 DEF UpdateConsTail, Labels
  <2> QED
    BY <1>4, <2>1, <2>2, <2>3, <2>4, <2>5 DEF DequeueStep
<1>5. ASSUME NEW p, NEW b, NEW fixed, rte_ring_enqueue(p, b, fixed) PROVE FALSE
  BY <1>1, <1>5 DEF rte_ring_enqueue, Labels
<1>6. ASSUME NEW c, NEW n, NEW fixed, rte_ring_dequeue(c, n, fixed) PROVE FALSE
  BY <1>1, <1>6 DEF rte_ring_dequeue, Labels
<1>7. ~UNCHANGED vars
  BY DEF vars
<1> QED
  BY <1>3, <1>4, <1>5, <1>6, <1>7 DEF Next

(***************************************************************************)
(* An enqueue or dequeue is refused only for lack of slots or of objects   *)
(* at that moment, for any number of threads and any stale heads.          *)
(***************************************************************************)
THEOREM RefusalsHaveReasons == Spec => RefusedOnlyWithReason
<1> DEFINE A == /\ \A p \in Producers : pc[p] = "room" /\ pc'[p] = "idle"
                     => mask - Minus(prod.head, cons.tail) < Needed(call[p])
                /\ \A c \in Consumers : pc[c] = "room" /\ pc'[c] = "idle"
                     => Minus(prod.tail, cons.head) < Needed(call[c])
<1>1. ASSUME Inv, [Next]_vars PROVE A
  <2>1. PICK s \in Index : RingInv(s)
    BY <1>1 DEF Inv
  <2>2. pc \in [Threads -> Labels] /\ Producers \subseteq Threads /\ Consumers \subseteq Threads
    BY <2>1 DEF RingInv, Types, TypeOK, Labels, Threads
  <2>3. \A t \in Threads : call[t].max \in Nat /\ (pc[t] # "idle" => call[t].max > 0)
    BY <2>1, SizeAssumption DEF RingInv, Types, Calls
  <2>4. ASSUME NEW p \in Producers, pc[p] = "room", pc'[p] = "idle"
        PROVE  mask - Minus(prod.head, cons.tail) < Needed(call[p])
    <3>1. ReadConsTail(p)
      BY <1>1, <2>2, <2>4, GivingUp, ThreadsAssumption
    <3>2. Granted(call[p], FreeEntries(p)) = 0
      BY <2>2, <2>4, <3>1 DEF ReadConsTail, Goto
    <3>3. FreeEntries(p) < Needed(call[p])
      BY <2>1, <2>2, <2>3, <2>4, <3>2, RoomSeen DEF Granted, Needed
    <3>4. U(s, cons.tail) <= U(s, prod.head)
      BY <2>1, InvTypes DEF RingInv, Order
    <3>5. Minus(prod.head, cons.tail) = U(s, prod.head) - U(s, cons.tail)
      BY <2>1, <3>4, InvTypes, UMinus
    <3>6. mask - Minus(prod.head, cons.tail) <= FreeEntries(p)
      BY <2>1, <2>2, <2>4, <3>5, RoomSeen, InvTypes, TurnFacts
    <3>7. Needed(call[p]) \in Nat
      BY <2>2, <2>3 DEF Needed
    <3> QED
      BY <2>1, <2>4, <3>3, <3>5, <3>6, <3>7, RoomSeen, InvTypes, TurnFacts
  <2>5. ASSUME NEW c \in Consumers, pc[c] = "room", pc'[c] = "idle"
        PROVE  Minus(prod.tail, cons.head) < Needed(call[c])
    <3>1. ReadProdTail(c)
      BY <1>1, <2>2, <2>5, GivingUp, ThreadsAssumption
    <3>2. Granted(call[c], CountEntries(c)) = 0
      BY <2>2, <2>5, <3>1 DEF ReadProdTail, Goto
    <3>3. CountEntries(c) < Needed(call[c])
      BY <2>1, <2>2, <2>3, <2>5, <3>2, EntriesSeen DEF Granted, Needed
    <3>4. U(s, cons.head) <= U(s, prod.tail)
      BY <2>1 DEF RingInv, Order
    <3>5. Minus(prod.tail, cons.head) = U(s, prod.tail) - U(s, cons.head)
      BY <2>1, <3>4, InvTypes, UMinus
    <3>6. Minus(prod.tail, cons.head) <= CountEntries(c)
      BY <2>1, <2>2, <2>5, <3>5, EntriesSeen, InvTypes
    <3>7. Needed(call[c]) \in Nat
      BY <2>2, <2>3 DEF Needed
    <3> QED
      BY <2>1, <2>5, <3>3, <3>5, <3>6, <3>7, EntriesSeen, InvTypes
  <2> QED
    BY <2>4, <2>5
<1>2. Inv /\ [Next]_vars => [A]_vars
  BY <1>1
<1> HIDE DEF A
<1>3. Spec => [][A]_vars
  BY <1>2, AlwaysInv, PTL DEF Spec
<1> QED
  BY <1>3 DEF RefusedOnlyWithReason, A

-----------------------------------------------------------------------------
(***************************************************************************)
(* The refinement.  At(r, f, n): the n objects from index f on in slots r; *)
(* Queue and Taken are what the queue and the taken bursts of BoundedFifo  *)
(* are in the ring.                                                        *)
(***************************************************************************)
At(r, f, n) == [j \in 1 .. n |-> r[Slot(Plus(f, j - 1))]]

Queue == At(ring, cons.head, Minus(prod.tail, cons.head))

TakenBy(c) ==
    CASE pc[c] = "copy" -> At(ring, call[c].old, call[c].n)
      [] pc[c] = "tail" -> call[c].objs
      [] OTHER -> <<>>

Taken == [c \in Consumers |-> TakenBy(c)]

Slots == [0 .. Size - 1 -> Objects \cup {Empty}]

LEMMA AtFacts ==
    ASSUME NEW r \in Slots, NEW f \in Nat, NEW n \in Nat
    PROVE  /\ At(r, f, n) \in Seq(Objects \cup {Empty}) /\ Len(At(r, f, n)) = n
           /\ \A j \in 1 .. n : At(r, f, n)[j] = r[Slot(Plus(f, j - 1))]
<1>1. \A j \in 1 .. n : r[Slot(Plus(f, j - 1))] \in Objects \cup {Empty}
  <2> SUFFICES ASSUME NEW j \in 1 .. n PROVE r[Slot(Plus(f, j - 1))] \in Objects \cup {Empty}
    OBVIOUS
  <2>1. j - 1 \in Nat
    OBVIOUS
  <2>2. Plus(f, j - 1) \in Int
    BY <2>1, SlotOfPlus
  <2>3. Slot(Plus(f, j - 1)) \in 0 .. Size - 1
    BY <2>2, SlotType
  <2> QED
    BY <2>3 DEF Slots
<1>2. At(r, f, n) \in [1 .. n -> Objects \cup {Empty}]
  BY <1>1 DEF At
<1>3. At(r, f, n) \in Seq(Objects \cup {Empty}) /\ Len(At(r, f, n)) = n
  BY <1>2
<1> QED
  BY <1>3 DEF At

LEMMA PlusPlus ==
    ASSUME NEW s \in Index, NEW i \in Index, NEW a \in Nat, NEW b \in Nat, U(s, i) + (a + b) < 2^IndexBits
    PROVE  Plus(Plus(i, a), b) = Plus(i, a + b) /\ Plus(i, a) \in Index /\ U(s, Plus(i, a)) = U(s, i) + a
<1>1. U(s, i) \in Nat /\ a + b \in Nat /\ U(s, i) + a < 2^IndexBits
  BY UType, TurnFacts
<1>2. Plus(i, a) \in Index /\ U(s, Plus(i, a)) = U(s, i) + a
  BY <1>1, UPlus
<1>3. Plus(i, a + b) \in Index /\ U(s, Plus(i, a + b)) = U(s, i) + (a + b)
  BY <1>1, UPlus
<1>4. U(s, Plus(i, a)) + b < 2^IndexBits
  BY <1>1, <1>2
<1>5. Plus(Plus(i, a), b) \in Index /\ U(s, Plus(Plus(i, a), b)) = U(s, Plus(i, a)) + b
  BY <1>2, <1>4, UPlus
<1>6. U(s, Plus(Plus(i, a), b)) = U(s, Plus(i, a + b))
  BY <1>1, <1>2, <1>3, <1>5
<1> QED
  BY <1>2, <1>3, <1>5, <1>6, UInjective

\* The objects from f on are the first a, and those that follow.
LEMMA AtSplit ==
    ASSUME NEW s \in Index, NEW r \in Slots, NEW f \in Index, NEW a \in Nat, NEW b \in Nat,
           U(s, f) + (a + b) < 2^IndexBits
    PROVE  At(r, f, a + b) = At(r, f, a) \o At(r, Plus(f, a), b)
<1> DEFINE x == At(r, f, a)
           y == At(r, Plus(f, a), b)
           z == At(r, f, a + b)
           S == Objects \cup {Empty}
<1>1. f \in Nat /\ Plus(f, a) \in Nat /\ a + b \in Nat
  <2>1. Plus(f, a) \in Index
    BY PlusPlus
  <2> QED
    BY <2>1, TurnFacts
<1>2. x \in Seq(S) /\ Len(x) = a /\ \A j \in 1 .. a : x[j] = r[Slot(Plus(f, j - 1))]
  BY <1>1, AtFacts
<1>3. y \in Seq(S) /\ Len(y) = b /\ \A j \in 1 .. b : y[j] = r[Slot(Plus(Plus(f, a), j - 1))]
  BY <1>1, AtFacts
<1>4. z \in Seq(S) /\ Len(z) = a + b /\ \A j \in 1 .. a + b : z[j] = r[Slot(Plus(f, j - 1))]
  BY <1>1, AtFacts
<1>5. \A j \in a + 1 .. a + b : Plus(Plus(f, a), (j - a) - 1) = Plus(f, j - 1)
  <2> SUFFICES ASSUME NEW j \in a + 1 .. a + b PROVE Plus(Plus(f, a), (j - a) - 1) = Plus(f, j - 1)
    OBVIOUS
  <2> DEFINE k == (j - a) - 1
  <2>1. k \in Nat /\ a + k = j - 1 /\ U(s, f) + (a + k) < 2^IndexBits
    BY UType, TurnFacts
  <2> HIDE DEF k
  <2>2. Plus(Plus(f, a), k) = Plus(f, a + k)
    BY <2>1, PlusPlus
  <2> QED
    BY <2>1, <2>2 DEF k
<1> HIDE DEF x, y, z, S
<1>6. x \o y \in Seq(S) /\ Len(x \o y) = a + b
      /\ \A j \in 1 .. a + b : (x \o y)[j] = IF j <= a THEN x[j] ELSE y[j - a]
  BY <1>2, <1>3, ConcatProperties
<1>7. \A j \in 1 .. a + b : z[j] = (x \o y)[j]
  <2> SUFFICES ASSUME NEW j \in 1 .. a + b PROVE z[j] = (x \o y)[j]
    OBVIOUS
  <2>1. CASE j <= a
    <3>1. j \in 1 .. a
      BY <2>1
    <3> QED
      BY <1>2, <1>4, <1>6, <2>1, <3>1
  <2>2. CASE ~(j <= a)
    <3>1. j - a \in 1 .. b /\ j \in a + 1 .. a + b
      BY <2>2
    <3> QED
      BY <1>3, <1>4, <1>5, <1>6, <2>2, <3>1
  <2> QED
    BY <2>1, <2>2
<1> QED
  BY <1>4, <1>6, <1>7, SeqEqual DEF x, y, z

\* The indices from h to t, in order.
LEMMA Between ==
    ASSUME NEW s \in Index, NEW h \in Index, NEW t \in Index, U(s, h) <= U(s, t)
    PROVE  /\ Minus(t, h) \in Nat /\ Minus(t, h) = U(s, t) - U(s, h)
           /\ U(s, h) + Minus(t, h) < 2^IndexBits /\ Plus(h, Minus(t, h)) = t
<1>1. U(s, h) \in Nat /\ U(s, t) \in Nat /\ U(s, t) < 2^IndexBits
  BY UType
<1>2. Minus(t, h) = U(s, t) - U(s, h)
  BY UMinus
<1>3. Minus(t, h) \in Nat /\ U(s, h) + Minus(t, h) = U(s, t)
  BY <1>1, <1>2
<1>4. Plus(h, Minus(t, h)) \in Index /\ U(s, Plus(h, Minus(t, h))) = U(s, t)
  BY <1>1, <1>3, UPlus
<1> QED
  BY <1>1, <1>2, <1>3, <1>4, UInjective

\* Steps that move neither prod.tail nor cons.head, and in which no consumer that holds slots takes part.
LEMMA QuietStep ==
    ASSUME ring' = ring, cons'.head = cons.head, prod'.tail = prod.tail,
           \A c \in Consumers : \/ pc'[c] = pc[c] /\ call'[c] = call[c]
                                \/ pc[c] \notin {"copy", "tail"} /\ pc'[c] \notin {"copy", "tail"}
    PROVE  Queue' = Queue /\ Taken' = Taken
<1>1. Queue' = Queue
  BY DEF Queue, At, Slot, Plus, Minus
<1>2. \A c \in Consumers : TakenBy(c)' = TakenBy(c)
  <2> SUFFICES ASSUME NEW c \in Consumers PROVE TakenBy(c)' = TakenBy(c)
    OBVIOUS
  <2>1. CASE pc'[c] = pc[c] /\ call'[c] = call[c]
    BY <2>1 DEF TakenBy, At, Slot, Plus
  <2>2. CASE pc[c] \notin {"copy", "tail"} /\ pc'[c] \notin {"copy", "tail"}
    BY <2>2 DEF TakenBy
  <2> QED
    BY <2>1, <2>2
<1> QED
  BY <1>1, <1>2 DEF Taken

LEMMA AppendParts ==
    ASSUME NEW S, NEW x \in Seq(S), NEW y \in Seq(S)
    PROVE  SubSeq(x \o y, 1, Len(x)) = x /\ SubSeq(x \o y, Len(x) + 1, Len(x \o y)) = y
<1> DEFINE z == x \o y
           a == Len(x)
           b == Len(y)
<1>1. a \in Nat /\ b \in Nat /\ z \in Seq(S) /\ Len(z) = a + b
      /\ \A i \in 1 .. a + b : z[i] = IF i <= a THEN x[i] ELSE y[i - a]
  BY ConcatProperties, LenProperties
<1> HIDE DEF z, a, b
<1>2. /\ SubSeq(z, 1, a) \in Seq(S) /\ Len(SubSeq(z, 1, a)) = a
      /\ \A i \in 1 .. a : SubSeq(z, 1, a)[i] = z[i]
  BY <1>1
<1>3. /\ SubSeq(z, a + 1, a + b) \in Seq(S) /\ Len(SubSeq(z, a + 1, a + b)) = b
      /\ \A i \in 1 .. b : SubSeq(z, a + 1, a + b)[i] = z[a + i]
  BY <1>1
<1>4. SubSeq(z, 1, a) = x
  BY <1>1, <1>2, SeqEqual DEF a
<1>5. SubSeq(z, a + 1, a + b) = y
  <2>1. \A i \in 1 .. b : z[a + i] = y[i]
    BY <1>1
  <2> QED
    BY <1>1, <1>3, <2>1, SeqEqual DEF b
<1> QED
  BY <1>1, <1>4, <1>5 DEF z, a

\* UpdateProdTail publishes what the producer has copied.
LEMMA UpdateProdTailIsEnqueue ==
    ASSUME NEW s \in Index, RingInv(s), NEW p \in Producers, UpdateProdTail(p)
    PROVE  \E b \in Bursts : Len(Queue) + Len(b) <= mask /\ Queue' = Queue \o b /\ Taken' = Taken
<1> DEFINE n == call[p].n
           h == cons.head
           t == prod.tail
           k == Minus(t, h)
           b == At(ring, t, n)
<1>1. /\ RingInv(s)' /\ call[p].old = t /\ U(s, prod'.tail) = U(s, t) + n /\ StepOf(p, "idle", NoCall)
  BY UpdateProdTailKeepsInv
<1>2. pc[p] = "tail" /\ cons' = cons /\ ring' = ring /\ prod'.tail = Plus(t, n)
  <2>1. prod \in [head : Index, tail : Index]
    BY DEF RingInv, Types, TypeOK
  <2> QED
    BY <1>1, <2>1 DEF UpdateProdTail
<1>3. p \in Holding /\ p \in Threads
  BY <1>2 DEF Holding, Threads
<1>4. /\ n \in Nat /\ n > 0 /\ h \in Index /\ t \in Index /\ h \in Nat /\ t \in Nat
      /\ U(s, t) + n <= U(s, prod.head) /\ U(s, h) <= U(s, t) /\ U(s, prod.head) <= U(s, h) + mask
      /\ U(s, t) \in Nat /\ U(s, h) \in Nat /\ U(s, prod.head) \in Nat /\ mask \in Nat
  <2>1. /\ n \in Nat /\ n > 0 /\ U(s, t) + n <= U(s, prod.head)
    BY <1>1, <1>3, HeldInterval
  <2>2. /\ h \in Index /\ t \in Index /\ U(s, t) \in Nat /\ U(s, h) \in Nat /\ U(s, prod.head) \in Nat
        /\ U(s, cons.tail) \in Nat /\ mask \in Nat
    BY InvTypes, TurnFacts
  <2>3. U(s, h) <= U(s, t) /\ U(s, prod.head) <= U(s, cons.tail) + mask /\ U(s, cons.tail) <= U(s, h)
    BY DEF RingInv, Order
  <2> QED
    BY <2>1, <2>2, <2>3, TurnFacts
<1>5. ring \in Slots
  BY DEF RingInv, Types, TypeOK, Slots
<1>6. /\ k \in Nat /\ k = U(s, t) - U(s, h) /\ Plus(h, k) = t
  BY <1>4, Between
<1>7. Minus(prod'.tail, h) = k + n /\ U(s, h) + (k + n) < 2^IndexBits
  <2>1. U(s, t) + n < 2^IndexBits
    BY <1>4, InvBudget, TurnFacts
  <2>2. prod'.tail \in Index
    BY <1>2, <1>4, <2>1, UPlus
  <2>3. U(s, h) <= U(s, prod'.tail)
    BY <1>1, <1>4
  <2>4. Minus(prod'.tail, h) = U(s, prod'.tail) - U(s, h)
    BY <1>4, <2>2, <2>3, UMinus
  <2> QED
    BY <1>1, <1>4, <1>6, <2>1, <2>4
<1> HIDE DEF k, h, t, n
<1>8. Queue = At(ring, h, k) /\ Len(Queue) = k
  <2>1. Queue = At(ring, h, k)
    BY DEF Queue, h, k, t
  <2> QED
    BY <1>4, <1>5, <1>6, <2>1, AtFacts
<1>9. Queue' = Queue \o b
  <2>1. At(ring, h, k + n) = At(ring, h, k) \o At(ring, Plus(h, k), n)
    <3>1. h \in Index /\ k \in Nat /\ n \in Nat /\ U(s, h) + (k + n) < 2^IndexBits
      BY <1>4, <1>6, <1>7
    <3> QED
      BY <1>5, <3>1, AtSplit
  <2>2. Queue' = At(ring, h, k + n)
    BY <1>2, <1>7 DEF Queue, h, At, Slot, Plus, Minus
  <2> QED
    BY <1>6, <1>8, <2>1, <2>2
<1>10. b \in Bursts /\ Len(b) = n
  <2>1. b \in Seq(Objects \cup {Empty}) /\ Len(b) = n /\ \A j \in 1 .. n : b[j] = ring[Slot(Plus(t, j - 1))]
    BY <1>4, <1>5, AtFacts
  <2>2. \A j \in 1 .. n : ring[Slot(Plus(t, j - 1))] = call[p].objs[j]
    BY <1>1, <1>2 DEF RingInv, Filled, n
  <2>3. call[p].objs \in Bursts /\ Len(call[p].objs) = call[p].max /\ n <= call[p].max
        /\ call[p].max \in 1 .. MaxBurst
    BY <1>2, <1>3, InvTypes DEF RingInv, Types, n
  <2>4. \A j \in 1 .. n : call[p].objs[j] \in Objects
    <3>1. call[p].objs \in [1 .. call[p].max -> Objects]
      BY <2>3, BurstFacts
    <3>2. 1 .. n \subseteq 1 .. call[p].max
      BY <1>4, <2>3, SizeAssumption
    <3> QED
      BY <3>1, <3>2
  <2>5. b \in [1 .. n -> Objects]
    <3>1. b = [j \in 1 .. n |-> ring[Slot(Plus(t, j - 1))]]
      BY DEF At
    <3> QED
      BY <2>2, <2>4, <3>1
  <2>6. n \in 1 .. MaxBurst
    BY <1>4, <2>3, SizeAssumption
  <2> QED
    BY <2>1, <2>5, <2>6 DEF Bursts
<1>11. Len(Queue) + Len(b) <= mask
  BY <1>4, <1>6, <1>8, <1>10
<1>12. Taken' = Taken
  <2>1. \A c \in Consumers : pc'[c] = pc[c] /\ call'[c] = call[c]
    BY <1>1, StepElsewhere
  <2>2. \A c \in Consumers : TakenBy(c)' = TakenBy(c)
    BY <1>2, <2>1 DEF TakenBy, At, Slot, Plus
  <2> QED
    BY <2>2 DEF Taken
<1> HIDE DEF b
<1> QED
  BY <1>9, <1>10, <1>11, <1>12

\* MoveConsHead takes a burst from the front, or leaves the queue alone.
LEMMA MoveConsHeadIsDequeue ==
    ASSUME NEW s \in Index, RingInv(s), NEW c \in Consumers, MoveConsHead(c)
    PROVE  \/ Queue' = Queue /\ Taken' = Taken
           \/ \E n \in 1 .. MaxBurst :
                /\ Taken[c] = <<>> /\ n <= Len(Queue)
                /\ Taken' = [Taken EXCEPT ![c] = SubSeq(Queue, 1, n)]
                /\ Queue' = SubSeq(Queue, n + 1, Len(Queue))
<1>1. /\ RingInv(s)' /\ call' = call /\ pc[c] = "move"
      /\ \/ /\ pc'[c] = "copy" /\ call[c].old = cons.head /\ cons'.head = Plus(cons.head, call[c].n)
            /\ U(s, cons'.head) = U(s, cons.head) + call[c].n
            /\ U(s, cons.head) + call[c].n <= U(s, prod.tail) /\ call[c].n \in 1 .. MaxBurst
         \/ pc'[c] = "head" /\ cons' = cons
      /\ \A u \in Threads \ {c} : pc'[u] = pc[u]
  BY MoveConsHeadKeepsInv
<1>2. prod' = prod /\ ring' = ring
  BY DEF MoveConsHead
<1>3. CASE pc'[c] = "head" /\ cons' = cons
  <2>1. \A u \in Consumers : \/ pc'[u] = pc[u] /\ call'[u] = call[u]
                             \/ pc[u] \notin {"copy", "tail"} /\ pc'[u] \notin {"copy", "tail"}
    BY <1>1, <1>3 DEF Threads
  <2> QED
    BY <1>2, <1>3, <2>1, QuietStep
<1>4. CASE pc'[c] # "head"
  <2> DEFINE n == call[c].n
             h == cons.head
             t == prod.tail
             k == Minus(t, h)
             x == At(ring, h, n)
             y == At(ring, Plus(h, n), k - n)
  <2>1. /\ pc'[c] = "copy" /\ call[c].old = h /\ cons'.head = Plus(h, n) /\ U(s, cons'.head) = U(s, h) + n
        /\ U(s, h) + n <= U(s, t) /\ n \in 1 .. MaxBurst
    BY <1>1, <1>4
  <2>2. /\ h \in Index /\ t \in Index /\ h \in Nat /\ U(s, h) \in Nat /\ U(s, t) \in Nat /\ n \in Nat /\ n > 0
    BY <2>1, InvTypes, TurnFacts, SizeAssumption
  <2>3. U(s, h) <= U(s, t)
    BY <2>1, <2>2
  <2>4. k \in Nat /\ k = U(s, t) - U(s, h) /\ U(s, h) + k < 2^IndexBits
    BY <2>2, <2>3, Between
  <2>5. ring \in Slots
    BY DEF RingInv, Types, TypeOK, Slots
  <2>6. Queue = At(ring, h, k)
    BY DEF Queue
  <2> HIDE DEF k, h, t, n
  <2> DEFINE m == k - n
  <2>7. m \in Nat /\ n + m = k /\ U(s, h) + (n + m) < 2^IndexBits
    BY <2>1, <2>2, <2>4
  <2>8. Plus(h, n) \in Index /\ Plus(h, n) \in Nat
    <3>1. Plus(h, n) \in Index
      BY <2>2, <2>7, PlusPlus
    <3> QED
      BY <3>1, TurnFacts
  <2> HIDE DEF m
  <2>9. At(ring, h, n + m) = x \o At(ring, Plus(h, n), m)
    <3>1. h \in Index /\ n \in Nat /\ m \in Nat /\ U(s, h) + (n + m) < 2^IndexBits
      BY <2>2, <2>7
    <3> QED
      BY <2>5, <3>1, AtSplit
  <2>10. Queue = x \o y
    BY <2>6, <2>7, <2>9 DEF m
  <2>11. x \in Seq(Objects \cup {Empty}) /\ Len(x) = n /\ y \in Seq(Objects \cup {Empty}) /\ Len(y) = m
    <3>1. x \in Seq(Objects \cup {Empty}) /\ Len(x) = n
      BY <2>2, <2>5, AtFacts
    <3>2. At(ring, Plus(h, n), m) \in Seq(Objects \cup {Empty}) /\ Len(At(ring, Plus(h, n), m)) = m
      BY <2>5, <2>7, <2>8, AtFacts
    <3> QED
      BY <3>1, <3>2 DEF m
  <2>12. Queue' = y
    <3>1. Minus(t, Plus(h, n)) = m
      <4>1. U(s, Plus(h, n)) = U(s, h) + n
        BY <2>1
      <4>2. Minus(t, Plus(h, n)) = U(s, t) - U(s, Plus(h, n))
        BY <2>1, <2>2, <2>8, <4>1, UMinus
      <4> QED
        BY <2>2, <2>4, <4>1, <4>2 DEF m
    <3>2. Queue' = At(ring, Plus(h, n), Minus(t, Plus(h, n)))
      BY <1>2, <2>1 DEF Queue, t, At, Slot, Plus, Minus
    <3> QED
      BY <3>1, <3>2 DEF m
  <2>13. Taken[c] = <<>> /\ Taken' = [Taken EXCEPT ![c] = x]
    <3>1. TakenBy(c) = <<>>
      BY <1>1 DEF TakenBy
    <3>2. TakenBy(c)' = x
      BY <1>1, <1>2, <2>1 DEF TakenBy, At, Slot, Plus, n
    <3>3. \A u \in Consumers \ {c} : TakenBy(u)' = TakenBy(u)
      BY <1>1, <1>2 DEF TakenBy, At, Slot, Plus, Threads
    <3> HIDE DEF x
    <3> QED
      BY <3>1, <3>2, <3>3 DEF Taken
  <2> HIDE DEF x, y
  <2>14. SubSeq(Queue, 1, n) = x /\ SubSeq(Queue, n + 1, Len(Queue)) = y
    BY <2>10, <2>11, AppendParts
  <2>15. n <= Len(Queue)
    BY <2>2, <2>7, <2>10, <2>11, ConcatProperties
  <2> QED
    BY <2>1, <2>12, <2>13, <2>14, <2>15
<1> QED
  BY <1>1, <1>3, <1>4

\* A producer's copy changes nothing that is published.
LEMMA CopyKeepsPublished ==
    ASSUME NEW s \in Index, RingInv(s), NEW p \in Producers, ENQUEUE_PTRS(p), NEW f \in Index, NEW n \in Nat,
           U(s, cons.tail) <= U(s, f), U(s, f) + n <= U(s, prod.tail)
    PROVE  At(ring', f, n) = At(ring, f, n)
<1>1. p \in Holding
  BY DEF ENQUEUE_PTRS, Holding, Threads
<1>2. U(s, prod.tail) <= U(s, call[p].old)
  BY <1>1, HeldInterval
<1>3. /\ U(s, f) \in Nat /\ U(s, prod.tail) \in Nat /\ U(s, prod.head) \in Nat /\ U(s, cons.tail) \in Nat
      /\ U(s, call[p].old) \in Nat
  BY UType, InvTypes DEF Threads
<1>4. U(s, prod.tail) <= U(s, prod.head)
  BY DEF RingInv, Order
<1>5. ASSUME NEW j \in 1 .. n PROVE ring'[Slot(Plus(f, j - 1))] = ring[Slot(Plus(f, j - 1))]
  <2> DEFINE d == j - 1
  <2>1. d \in Nat /\ d < n
    OBVIOUS
  <2> HIDE DEF d
  <2>2. U(s, f) + d < 2^IndexBits
    BY <1>3, <1>4, <2>1, InvBudget, TurnFacts
  <2>3. Plus(f, d) \in Index /\ U(s, Plus(f, d)) = U(s, f) + d
    BY <2>1, <2>2, UPlus
  <2>4. /\ U(s, cons.tail) <= U(s, Plus(f, d)) /\ U(s, Plus(f, d)) < U(s, prod.head)
        /\ U(s, Plus(f, d)) < U(s, call[p].old)
    BY <1>2, <1>3, <1>4, <2>1, <2>3
  <2> QED
    BY <2>3, <2>4, CopyKeepsOthers DEF d
<1> QED
  BY <1>5 DEF At

LEMMA EnqueuePtrsStutters ==
    ASSUME NEW s \in Index, RingInv(s), NEW p \in Producers, ENQUEUE_PTRS(p)
    PROVE  Queue' = Queue /\ Taken' = Taken
<1>1. pc' = [pc EXCEPT ![p] = "tail"] /\ pc \in [Threads -> Labels] /\ prod' = prod /\ cons' = cons /\ call' = call
  BY DEF ENQUEUE_PTRS, Goto, RingInv, Types, TypeOK, Labels
<1>2. \A c \in Consumers : pc'[c] = pc[c] /\ call'[c] = call[c] /\ c \in Threads
  BY <1>1, ThreadsAssumption DEF Threads
<1>3. /\ U(s, cons.tail) <= U(s, cons.head) /\ U(s, cons.head) <= U(s, prod.tail)
  BY DEF RingInv, Order
<1>4. /\ U(s, cons.tail) \in Nat /\ U(s, cons.head) \in Nat /\ U(s, prod.tail) \in Nat
      /\ cons.head \in Index /\ prod.tail \in Index
  BY InvTypes
<1>5. Queue' = Queue
  <2> DEFINE k == Minus(prod.tail, cons.head)
  <2>1. k \in Nat /\ U(s, cons.head) + k <= U(s, prod.tail)
    BY <1>3, <1>4, Between
  <2> HIDE DEF k
  <2>2. At(ring', cons.head, k) = At(ring, cons.head, k)
    BY <1>3, <1>4, <2>1, CopyKeepsPublished
  <2>3. Queue' = At(ring', cons.head, k)
    BY <1>1 DEF Queue, k, At, Slot, Plus, Minus
  <2> QED
    BY <2>2, <2>3 DEF Queue, k
<1>6. ASSUME NEW c \in Consumers PROVE TakenBy(c)' = TakenBy(c)
  <2>1. CASE pc[c] = "copy"
    <3> DEFINE f == call[c].old
               n == call[c].n
    <3>1. f \in Index /\ n \in Nat /\ U(s, f) \in Nat
      BY <1>2, InvTypes
    <3>2. c \in Holding
      BY <1>2, <2>1 DEF Holding
    <3>3. U(s, cons.tail) <= U(s, f) /\ U(s, f) + n <= U(s, cons.head)
      BY <3>2, HeldInterval
    <3> HIDE DEF f, n
    <3>4. U(s, f) + n <= U(s, prod.tail)
      BY <1>3, <1>4, <3>1, <3>3
    <3>5. At(ring', f, n) = At(ring, f, n)
      BY <3>1, <3>3, <3>4, CopyKeepsPublished
    <3>6. TakenBy(c)' = At(ring', f, n)
      BY <1>2, <2>1 DEF TakenBy, At, Slot, Plus, f, n
    <3>7. TakenBy(c) = At(ring, f, n)
      BY <2>1 DEF TakenBy, f, n
    <3> QED
      BY <3>5, <3>6, <3>7
  <2>2. CASE pc[c] # "copy"
    BY <1>2, <2>2 DEF TakenBy
  <2> QED
    BY <2>1, <2>2
<1> QED
  BY <1>5, <1>6 DEF Taken

LEMMA DequeuePtrsStutters ==
    ASSUME NEW s \in Index, RingInv(s), NEW c \in Consumers, DEQUEUE_PTRS(c)
    PROVE  Queue' = Queue /\ Taken' = Taken
<1>1. /\ pc[c] = "copy" /\ pc'[c] = "tail" /\ call'[c].objs = Contents(call[c].old, call[c].n)
      /\ \A u \in Threads \ {c} : pc'[u] = pc[u] /\ call'[u] = call[u]
  BY DequeuePtrsKeepsInv
<1>2. prod' = prod /\ cons' = cons /\ ring' = ring
  BY DEF DEQUEUE_PTRS
<1>3. Queue' = Queue
  BY <1>2 DEF Queue, At, Slot, Plus, Minus
<1>4. TakenBy(c)' = TakenBy(c)
  BY <1>1 DEF TakenBy, Contents, At
<1>5. \A u \in Consumers \ {c} : TakenBy(u)' = TakenBy(u)
  BY <1>1, <1>2 DEF TakenBy, At, Slot, Plus, Threads
<1> QED
  BY <1>3, <1>4, <1>5 DEF Taken

LEMMA UpdateConsTailIsReturn ==
    ASSUME NEW s \in Index, RingInv(s), NEW c \in Consumers, UpdateConsTail(c)
    PROVE  Queue' = Queue /\ Taken' = [Taken EXCEPT ![c] = <<>>]
<1>1. /\ StepOf(c, "idle", NoCall) /\ cons'.head = cons.head /\ prod' = prod /\ ring' = ring
  BY UpdateConsTailKeepsInv
<1>2. Queue' = Queue
  BY <1>1 DEF Queue, At, Slot, Plus, Minus
<1>3. TakenBy(c)' = <<>>
  BY <1>1 DEF TakenBy, StepOf
<1>4. \A u \in Consumers \ {c} : TakenBy(u)' = TakenBy(u)
  BY <1>1 DEF TakenBy, At, Slot, Plus, StepOf, Threads
<1> QED
  BY <1>2, <1>3, <1>4 DEF Taken

\* The step of the queue that a step of the ring is.
FifoStep ==
    \/ Queue' = Queue /\ Taken' = Taken
    \/ \E b \in Bursts : Len(Queue) + Len(b) <= mask /\ Queue' = Queue \o b /\ Taken' = Taken
    \/ \E c \in Consumers :
         \/ Queue' = Queue /\ Taken' = [Taken EXCEPT ![c] = <<>>]
         \/ \E n \in 1 .. MaxBurst :
              /\ Taken[c] = <<>> /\ n <= Len(Queue)
              /\ Taken' = [Taken EXCEPT ![c] = SubSeq(Queue, 1, n)]
              /\ Queue' = SubSeq(Queue, n + 1, Len(Queue))

LEMMA StepsRefine ==
    ASSUME NEW s \in Index, RingInv(s), [Next]_vars
    PROVE  FifoStep
<1>1. /\ pc \in [Threads -> Labels] /\ call \in [Threads -> Calls] /\ prod \in [head : Index, tail : Index]
      /\ \A c \in Consumers : c \in Threads /\ c \notin Producers
  BY ThreadsAssumption DEF RingInv, Types, TypeOK, Labels, Threads
<1>2. \A t, lab : Goto(t, lab) => \A u \in Threads : u # t => pc'[u] = pc[u]
  BY <1>1 DEF Goto
<1>3. ASSUME NEW p \in Producers, NEW b \in Bursts, NEW fixed \in Behaviors, rte_ring_enqueue(p, b, fixed) PROVE FifoStep
  <2>1. \A c \in Consumers : pc'[c] = pc[c] /\ call'[c] = call[c]
    BY <1>1, <1>2, <1>3 DEF rte_ring_enqueue
  <2>2. ring' = ring /\ cons'.head = cons.head /\ prod'.tail = prod.tail
    BY <1>3 DEF rte_ring_enqueue
  <2> QED
    BY <2>1, <2>2, QuietStep DEF FifoStep
<1>4. ASSUME NEW c \in Consumers, NEW n \in 1 .. MaxBurst, NEW fixed \in Behaviors, rte_ring_dequeue(c, n, fixed) PROVE FifoStep
  <2>1. \A u \in Consumers : \/ pc'[u] = pc[u] /\ call'[u] = call[u]
                             \/ pc[u] \notin {"copy", "tail"} /\ pc'[u] \notin {"copy", "tail"}
    BY <1>1, <1>4 DEF rte_ring_dequeue, Goto
  <2>2. ring' = ring /\ cons'.head = cons.head /\ prod'.tail = prod.tail
    BY <1>4 DEF rte_ring_dequeue
  <2> QED
    BY <2>1, <2>2, QuietStep DEF FifoStep
<1>5. ASSUME NEW p \in Producers, EnqueueStep(p) PROVE FifoStep
  <2>1. CASE ReadProdHead(p)
    <3>1. \A c \in Consumers : pc'[c] = pc[c] /\ call'[c] = call[c]
      BY <1>1, <1>2, <2>1 DEF ReadProdHead
    <3>2. ring' = ring /\ cons'.head = cons.head /\ prod'.tail = prod.tail
      BY <2>1 DEF ReadProdHead
    <3> QED
      BY <3>1, <3>2, QuietStep DEF FifoStep
  <2>2. CASE ReadConsTail(p)
    <3>1. \A c \in Consumers : pc'[c] = pc[c] /\ call'[c] = call[c]
      BY <1>1, <1>2, <2>2 DEF ReadConsTail, Returns
    <3>2. ring' = ring /\ cons'.head = cons.head /\ prod'.tail = prod.tail
      BY <2>2 DEF ReadConsTail
    <3> QED
      BY <3>1, <3>2, QuietStep DEF FifoStep
  <2>3. CASE MoveProdHead(p)
    <3>1. \A c \in Consumers : pc'[c] = pc[c] /\ call'[c] = call[c]
      BY <1>1, <1>2, <2>3 DEF MoveProdHead
    <3>2. ring' = ring /\ cons'.head = cons.head /\ prod'.tail = prod.tail
      BY <1>1, <2>3 DEF MoveProdHead
    <3> QED
      BY <3>1, <3>2, QuietStep DEF FifoStep
  <2>4. CASE ENQUEUE_PTRS(p)
    BY <2>4, EnqueuePtrsStutters DEF FifoStep
  <2>5. CASE UpdateProdTail(p)
    BY <2>5, UpdateProdTailIsEnqueue DEF FifoStep
  <2> QED
    BY <1>5, <2>1, <2>2, <2>3, <2>4, <2>5 DEF EnqueueStep
<1>6. ASSUME NEW c \in Consumers, DequeueStep(c) PROVE FifoStep
  <2>1. CASE ReadConsHead(c)
    <3>1. \A u \in Consumers : \/ pc'[u] = pc[u] /\ call'[u] = call[u]
                               \/ pc[u] \notin {"copy", "tail"} /\ pc'[u] \notin {"copy", "tail"}
      BY <1>1, <2>1 DEF ReadConsHead, Goto
    <3>2. ring' = ring /\ cons'.head = cons.head /\ prod'.tail = prod.tail
      BY <2>1 DEF ReadConsHead
    <3> QED
      BY <3>1, <3>2, QuietStep DEF FifoStep
  <2>2. CASE ReadProdTail(c)
    <3>1. \A u \in Consumers : \/ pc'[u] = pc[u] /\ call'[u] = call[u]
                               \/ pc[u] \notin {"copy", "tail"} /\ pc'[u] \notin {"copy", "tail"}
      BY <1>1, <2>2 DEF ReadProdTail, Returns, Goto
    <3>2. ring' = ring /\ cons'.head = cons.head /\ prod'.tail = prod.tail
      BY <2>2 DEF ReadProdTail
    <3> QED
      BY <3>1, <3>2, QuietStep DEF FifoStep
  <2>3. CASE MoveConsHead(c)
    BY <2>3, MoveConsHeadIsDequeue DEF FifoStep
  <2>4. CASE DEQUEUE_PTRS(c)
    BY <2>4, DequeuePtrsStutters DEF FifoStep
  <2>5. CASE UpdateConsTail(c)
    BY <2>5, UpdateConsTailIsReturn DEF FifoStep
  <2> QED
    BY <1>6, <2>1, <2>2, <2>3, <2>4, <2>5 DEF DequeueStep
<1>7. CASE UNCHANGED vars
  BY <1>7, QuietStep DEF vars, FifoStep
<1> QED
  BY <1>3, <1>4, <1>5, <1>6, <1>7 DEF Next

(***************************************************************************)
(* The ring implements the bounded queue of bursts, for any number of      *)
(* producers and consumers: an enqueue takes effect when prod.tail moves,  *)
(* a dequeue when cons.head does.                                          *)
(***************************************************************************)
THEOREM RingIsAFifo == Spec => ImplementsFifo
<1>1. Init => Fifo!Init
  <2> SUFFICES ASSUME Init PROVE Queue = <<>> /\ Taken = [c \in Consumers |-> <<>>]
    BY DEF Fifo!Init, Queue, Taken, TakenBy, At, Contents
  <2>1. prod.tail = cons.head /\ prod.tail \in Index
    BY SizeAssumption DEF Init, Index
  <2>2. U(cons.head, prod.tail) = 0
    BY <2>1, UType, TurnFacts
  <2>3. Queue = <<>>
    BY <2>2 DEF Queue, At, U
  <2>4. \A c \in Consumers : TakenBy(c) = <<>>
    BY DEF Init, TakenBy, Threads
  <2> QED
    BY <2>3, <2>4 DEF Taken
<1>2. ASSUME Inv, [Next]_vars
      PROVE  [Fifo!Next]_<<Contents(cons.head, Minus(prod.tail, cons.head)),
                           [c \in Consumers |->
                              CASE pc[c] = "copy" -> Contents(call[c].old, call[c].n)
                                [] pc[c] = "tail" -> call[c].objs
                                [] OTHER -> <<>>]>>
  <2>1. FifoStep
    BY <1>2, StepsRefine DEF Inv
  <2>2. Fifo!Bursts = Bursts
    BY DEF Fifo!Bursts, Bursts
  <2> QED
    BY <2>1, <2>2 DEF FifoStep, Queue, Taken, TakenBy, At, Contents,
         Fifo!Next, Fifo!Enqueue, Fifo!Dequeue, Fifo!Return
<1> QED
  BY <1>1, <1>2, AlwaysInv, PTL DEF Spec, ImplementsFifo, Fifo!Spec
=============================================================================
