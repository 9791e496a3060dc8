------------------------------ MODULE PoolProofs ------------------------------
(***************************************************************************)
(* Theorems about CommTx, on top of the invariant of CommTxProofs: the     *)
(* status byte of a buffer is the number of the ports that have it, and    *)
(* comm.c implements the pool of TxPool.                                   *)
(***************************************************************************)
EXTENDS CommTxProofs

-------------------------------------------------------------------------------
(* Positions in the ring                                                       *)

\* The k-th slot from slot i on, and how many there are before slot j.
Pos(i, k)  == (i + k - 1) % Depth
Dist(i, j) == (j + Depth - i) % Depth

LEMMA Remainder ==
  ASSUME NEW x \in Nat, x < 2 * Depth
  PROVE  x % Depth = IF x < Depth THEN x ELSE x - Depth
  <1>1. Depth \in Nat /\ Depth > 1
    BY Constants
  <1>2. CASE x < Depth
    <2>1. x % Depth = x
      BY <1>1, <1>2
    <2> QED
      BY <1>2, <2>1
  <1>3. CASE x >= Depth
    <2>1. PICK y \in Nat : x = Depth + y /\ y < Depth
      <3>1. x - Depth \in Nat /\ x = Depth + (x - Depth) /\ x - Depth < Depth
        BY <1>1, <1>3
      <3> QED
        BY <3>1
    <2>2. (Depth + y) % Depth = y
      BY <1>1, <2>1
    <2> QED
      BY <1>1, <1>3, <2>1, <2>2
  <1> QED
    BY <1>1, <1>2, <1>3

LEMMA PosIs ==
  ASSUME NEW i \in Slots, NEW k \in 1 .. Depth
  PROVE  Pos(i, k) = (IF i + k - 1 < Depth THEN i + k - 1 ELSE i + k - 1 - Depth) /\ Pos(i, k) \in Slots
  <1>1. Depth \in Nat /\ Depth > 1 /\ i \in 0 .. Depth - 1
    BY Constants DEF Slots
  <1>2. PICK x \in Nat : x = i + k - 1 /\ x < 2 * Depth
    <2>1. i + k - 1 \in Nat /\ i + k - 1 < 2 * Depth
      BY <1>1
    <2> QED
      BY <2>1
  <1>3. x % Depth = IF x < Depth THEN x ELSE x - Depth
    BY <1>2, Remainder
  <1>4. Pos(i, k) = x % Depth
    BY <1>2 DEF Pos
  <1> QED
    BY <1>1, <1>2, <1>3, <1>4 DEF Slots

LEMMA DistIs ==
  ASSUME NEW i \in Slots, NEW j \in Slots
  PROVE  /\ Dist(i, j) = IF i <= j THEN j - i ELSE j + Depth - i
         /\ Dist(i, j) \in 0 .. Depth - 1
         /\ Dist(i, j) = 0 <=> i = j
  <1>1. Depth \in Nat /\ Depth > 1 /\ i \in 0 .. Depth - 1 /\ j \in 0 .. Depth - 1
    BY Constants DEF Slots
  <1>2. PICK x \in Nat : x = j + Depth - i /\ x < 2 * Depth
    <2>1. j + Depth - i \in Nat /\ j + Depth - i < 2 * Depth
      BY <1>1
    <2> QED
      BY <2>1
  <1>3. x % Depth = IF x < Depth THEN x ELSE x - Depth
    BY <1>2, Remainder
  <1>4. Dist(i, j) = x % Depth
    BY <1>2 DEF Dist
  <1> QED
    BY <1>1, <1>2, <1>3, <1>4

LEMMA PosFacts ==
  ASSUME NEW i \in Slots
  PROVE  /\ Pos(i, 1) = i
         /\ \A k \in 1 .. Depth - 1 : Pos(After(i), k) = Pos(i, k + 1)
         /\ \A j \in Slots : Pos(i, Dist(i, j) + 1) = j
  <1>1. Depth \in Nat /\ Depth > 1 /\ i \in 0 .. Depth - 1
    BY Constants DEF Slots
  <1>2. Pos(i, 1) = i
    BY <1>1, PosIs
  <1>3. ASSUME NEW k \in 1 .. Depth - 1
        PROVE  Pos(After(i), k) = Pos(i, k + 1)
    <2>1. k \in 1 .. Depth /\ k + 1 \in 1 .. Depth
      BY <1>1
    <2>2. After(i) = (IF i = Depth - 1 THEN 0 ELSE i + 1) /\ After(i) \in Slots
      BY AfterIs
    <2>3. /\ Pos(After(i), k) = IF After(i) + k - 1 < Depth THEN After(i) + k - 1 ELSE After(i) + k - 1 - Depth
          /\ Pos(i, k + 1) = IF i + (k + 1) - 1 < Depth THEN i + (k + 1) - 1 ELSE i + (k + 1) - 1 - Depth
      BY <2>1, <2>2, PosIs
    <2> QED
      BY <1>1, <2>1, <2>2, <2>3
  <1>4. ASSUME NEW j \in Slots
        PROVE  Pos(i, Dist(i, j) + 1) = j
    <2>1. j \in 0 .. Depth - 1
      BY DEF Slots
    <2>2. Dist(i, j) = (IF i <= j THEN j - i ELSE j + Depth - i) /\ Dist(i, j) \in 0 .. Depth - 1
      BY DistIs
    <2>3. PICK d \in 0 .. Depth - 1 : d = Dist(i, j)
      BY <2>2
    <2>4. d + 1 \in 1 .. Depth
      BY <1>1
    <2>5. Pos(i, d + 1) = IF i + (d + 1) - 1 < Depth THEN i + (d + 1) - 1 ELSE i + (d + 1) - 1 - Depth
      BY <2>4, PosIs
    <2> QED
      BY <1>1, <2>1, <2>2, <2>3, <2>5
  <1> QED
    BY <1>2, <1>3, <1>4

LEMMA DistMoves ==
  ASSUME NEW i \in Slots, NEW j \in Slots
  PROVE  /\ i # j => Dist(After(i), j) = Dist(i, j) - 1
         /\ After(j) # i => Dist(i, After(j)) = Dist(i, j) + 1
  <1>1. Depth \in Nat /\ Depth > 1 /\ i \in 0 .. Depth - 1 /\ j \in 0 .. Depth - 1
    BY Constants DEF Slots
  <1>2. /\ After(i) = (IF i = Depth - 1 THEN 0 ELSE i + 1) /\ After(i) \in Slots
        /\ After(j) = (IF j = Depth - 1 THEN 0 ELSE j + 1) /\ After(j) \in Slots
    BY AfterIs
  <1>3. /\ Dist(i, j) = IF i <= j THEN j - i ELSE j + Depth - i
        /\ Dist(After(i), j) = IF After(i) <= j THEN j - After(i) ELSE j + Depth - After(i)
        /\ Dist(i, After(j)) = IF i <= After(j) THEN After(j) - i ELSE After(j) + Depth - i
    BY <1>2, DistIs
  <1> QED
    BY <1>1, <1>2, <1>3

LEMMA PosBetween ==
  ASSUME NEW i \in Slots, NEW j \in Slots
  PROVE  /\ \A k \in 1 .. Dist(i, j) : Pos(i, k) \in Between(i, j)
         /\ \A s \in Between(i, j) : \E k \in 1 .. Dist(i, j) : Pos(i, k) = s
  <1>1. Depth \in Nat /\ Depth > 1 /\ i \in 0 .. Depth - 1 /\ j \in 0 .. Depth - 1
    BY Constants DEF Slots
  <1>2. Dist(i, j) = (IF i <= j THEN j - i ELSE j + Depth - i) /\ Dist(i, j) \in 0 .. Depth - 1
    BY DistIs
  <1>3. ASSUME NEW k \in 1 .. Dist(i, j)
        PROVE  Pos(i, k) \in Between(i, j)
    <2>1. k \in 1 .. Depth
      BY <1>1, <1>2
    <2>2. Pos(i, k) = (IF i + k - 1 < Depth THEN i + k - 1 ELSE i + k - 1 - Depth) /\ Pos(i, k) \in Slots
      BY <2>1, PosIs
    <2> QED
      BY <1>1, <1>2, <2>2 DEF Between
  <1>4. ASSUME NEW s \in Between(i, j)
        PROVE  \E k \in 1 .. Dist(i, j) : Pos(i, k) = s
    <2>1. s \in Slots /\ s \in 0 .. Depth - 1 /\ IF i <= j THEN i <= s /\ s < j ELSE i <= s \/ s < j
      BY DEF Between, Slots
    <2>2. Dist(i, s) = (IF i <= s THEN s - i ELSE s + Depth - i) /\ Pos(i, Dist(i, s) + 1) = s
      BY <2>1, DistIs, PosFacts
    <2>3. Dist(i, s) + 1 \in 1 .. Dist(i, j)
      BY <1>1, <1>2, <2>1, <2>2
    <2> QED
      BY <2>2, <2>3
  <1> QED
    BY <1>3, <1>4

-------------------------------------------------------------------------------
(* The queue of a port                                                         *)

\* The ring of a port, and what it has to send, from what its entries are and where its
\* head, its tail and the slot being sent are.
RingOf(st, h, t)     == [i \in 1 .. Dist(t, h) |-> st[Pos(t, i)]]
QueueOf(st, h, t, b) == (IF b \in {None, t} THEN <<>> ELSE <<st[b]>>) \o RingOf(st, h, t)

Entries == [Slots -> Bufs \cup {None}]

LEMMA QueuedIs ==
  ASSUME NEW p \in Ports
  PROVE  /\ Queued(p)  = QueueOf(stack[p], head[p], tail[p], busy[p])
         /\ Queued(p)' = QueueOf(stack'[p], head'[p], tail'[p], busy'[p])
  BY DEF Queued, Sending, Ring, RingLen, QueueOf, RingOf, Pos, Dist

LEMMA RingSeq ==
  ASSUME NEW st \in Entries, NEW h \in Slots, NEW t \in Slots
  PROVE  /\ RingOf(st, h, t) \in Seq(Bufs \cup {None})
         /\ Len(RingOf(st, h, t)) = Dist(t, h) /\ Dist(t, h) \in 0 .. Depth - 1
         /\ \A i \in 1 .. Dist(t, h) : RingOf(st, h, t)[i] = st[Pos(t, i)] /\ Pos(t, i) \in Between(t, h)
  <1>1. Dist(t, h) \in 0 .. Depth - 1 /\ Dist(t, h) \in Nat /\ Depth \in Nat
    BY DistIs, Constants
  <1>2. \A i \in 1 .. Dist(t, h) : Pos(t, i) \in Between(t, h)
    BY PosBetween
  <1>3. \A i \in 1 .. Dist(t, h) : st[Pos(t, i)] \in Bufs \cup {None}
    BY <1>2, BetweenSlots DEF Entries
  <1>4. PICK n \in Nat : n = Dist(t, h)
    BY <1>1
  <1>5. RingOf(st, h, t) \in [1 .. n -> Bufs \cup {None}]
    BY <1>3, <1>4 DEF RingOf
  <1>6. RingOf(st, h, t) \in Seq(Bufs \cup {None})
    BY <1>5, SeqDef
  <1>7. Len(RingOf(st, h, t)) = n
    BY <1>4, <1>5, <1>6, LenProperties
  <1>8. \A i \in 1 .. Dist(t, h) : RingOf(st, h, t)[i] = st[Pos(t, i)]
    BY DEF RingOf
  <1> QED
    BY <1>1, <1>2, <1>4, <1>6, <1>7, <1>8

\* A ring whose slots hold the same is the same.
LEMMA RingKept ==
  ASSUME NEW st \in Entries, NEW su \in Entries, NEW h \in Slots, NEW t \in Slots,
         \A s \in Between(t, h) : su[s] = st[s]
  PROVE  RingOf(su, h, t) = RingOf(st, h, t)
  <1>1. \A i \in 1 .. Dist(t, h) : Pos(t, i) \in Between(t, h)
    BY PosBetween
  <1> QED
    BY <1>1 DEF RingOf

LEMMA RingEmpty ==
  ASSUME NEW st, NEW t \in Slots
  PROVE  RingOf(st, t, t) = <<>>
  <1>1. Dist(t, t) = 0
    BY DistIs
  <1> QED
    BY <1>1 DEF RingOf

\* What is sent first leaves the ring at its tail.
LEMMA RingStarts ==
  ASSUME NEW st \in Entries, NEW h \in Slots, NEW t \in Slots, h # t
  PROVE  <<st[t]>> \o RingOf(st, h, After(t)) = RingOf(st, h, t)
  <1> DEFINE R == RingOf(st, h, After(t))
             E == Bufs \cup {None}
  <1>1. After(t) \in Slots /\ st[t] \in E /\ <<st[t]>> \in Seq(E) /\ Len(<<st[t]>>) = 1
    BY AfterIs DEF Entries
  <1>2. /\ R \in Seq(E) /\ Len(R) = Dist(After(t), h)
        /\ \A i \in 1 .. Dist(After(t), h) : R[i] = st[Pos(After(t), i)]
    BY <1>1, RingSeq
  <1>3. /\ RingOf(st, h, t) \in Seq(E) /\ Len(RingOf(st, h, t)) = Dist(t, h)
        /\ \A i \in 1 .. Dist(t, h) : RingOf(st, h, t)[i] = st[Pos(t, i)]
    BY RingSeq
  <1>4. Dist(After(t), h) = Dist(t, h) - 1 /\ Dist(t, h) \in 0 .. Depth - 1 /\ Dist(t, h) # 0
        /\ Depth \in Nat
    BY DistMoves, DistIs, Constants
  <1>5. /\ <<st[t]>> \o R \in Seq(E) /\ Len(<<st[t]>> \o R) = Dist(t, h)
        /\ \A i \in 1 .. Dist(t, h) :
             (<<st[t]>> \o R)[i] = IF i <= 1 THEN <<st[t]>>[i] ELSE R[i - 1]
    <2> HIDE DEF R, E
    <2>1. /\ <<st[t]>> \o R \in Seq(E) /\ Len(<<st[t]>> \o R) = 1 + Len(R)
          /\ \A i \in 1 .. 1 + Len(R) : (<<st[t]>> \o R)[i] = IF i <= 1 THEN <<st[t]>>[i] ELSE R[i - 1]
      BY <1>1, <1>2, ConcatProperties
    <2>2. 1 + Len(R) = Dist(t, h)
      BY <1>2, <1>4
    <2> QED
      BY <2>1, <2>2
  <1>6. ASSUME NEW i \in 1 .. Dist(t, h)
        PROVE  (<<st[t]>> \o R)[i] = RingOf(st, h, t)[i]
    <2>1. CASE i = 1
      <3>1. Pos(t, 1) = t
        BY PosFacts
      <3> QED
        BY <1>3, <1>4, <1>5, <2>1, <3>1
    <2>2. CASE i # 1
      <3>1. i - 1 \in 1 .. Depth - 1 /\ i - 1 \in 1 .. Dist(After(t), h) /\ (i - 1) + 1 = i
        BY <1>4, <2>2
      <3>2. PICK k \in 1 .. Depth - 1 : k = i - 1 /\ k + 1 = i /\ k \in 1 .. Dist(After(t), h)
        BY <3>1
      <3>3. Pos(After(t), k) = Pos(t, k + 1)
        BY PosFacts
      <3>4. (<<st[t]>> \o R)[i] = R[i - 1]
        BY <1>4, <1>5, <2>2
      <3>5. R[k] = st[Pos(After(t), k)]
        BY <1>2, <3>2
      <3>6. RingOf(st, h, t)[i] = st[Pos(t, i)]
        BY <1>3
      <3> QED
        BY <3>2, <3>3, <3>4, <3>5, <3>6
    <2> QED
      BY <2>1, <2>2
  <1> HIDE DEF R, E
  <1> QED
    BY <1>3, <1>5, <1>6, SeqEqual DEF R

\* What is published comes into the ring at its head.
LEMMA RingGrows ==
  ASSUME NEW st \in Entries, NEW h \in Slots, NEW t \in Slots, After(h) # t
  PROVE  RingOf(st, After(h), t) = Append(RingOf(st, h, t), st[h])
  <1> DEFINE R == RingOf(st, h, t)
             E == Bufs \cup {None}
  <1>1. After(h) \in Slots /\ st[h] \in E
    BY AfterIs DEF Entries
  <1>2. /\ R \in Seq(E) /\ Len(R) = Dist(t, h)
        /\ \A i \in 1 .. Dist(t, h) : R[i] = st[Pos(t, i)]
    BY RingSeq
  <1>3. /\ RingOf(st, After(h), t) \in Seq(E) /\ Len(RingOf(st, After(h), t)) = Dist(t, After(h))
        /\ \A i \in 1 .. Dist(t, After(h)) : RingOf(st, After(h), t)[i] = st[Pos(t, i)]
    BY <1>1, RingSeq
  <1>4. Dist(t, After(h)) = Dist(t, h) + 1 /\ Dist(t, h) \in 0 .. Depth - 1 /\ Depth \in Nat
    BY DistMoves, DistIs, Constants
  <1>5. Pos(t, Dist(t, h) + 1) = h
    BY PosFacts
  <1> HIDE DEF R, E
  <1>6. /\ Append(R, st[h]) \in Seq(E) /\ Len(Append(R, st[h])) = Len(R) + 1
        /\ \A i \in 1 .. Len(R) : Append(R, st[h])[i] = R[i]
        /\ Append(R, st[h])[Len(R) + 1] = st[h]
    BY <1>1, <1>2, AppendProperties
  <1>7. ASSUME NEW i \in 1 .. Dist(t, After(h))
        PROVE  RingOf(st, After(h), t)[i] = Append(R, st[h])[i]
    <2>1. CASE i = Dist(t, h) + 1
      BY <1>2, <1>3, <1>5, <1>6, <2>1
    <2>2. CASE i # Dist(t, h) + 1
      <3>1. i \in 1 .. Dist(t, h)
        BY <1>4, <2>2
      <3> QED
        BY <1>2, <1>3, <1>6, <3>1
    <2> QED
      BY <2>1, <2>2
  <1>8. Len(Append(R, st[h])) = Dist(t, After(h))
    BY <1>2, <1>4, <1>6
  <1> QED
    BY <1>3, <1>6, <1>7, <1>8, SeqEqual DEF R

\* A buffer is in a queue, or in one of some slots.
Has(q, c)          == \E i \in DOMAIN q : q[i] = c
Held(st, slots, c) == \E s \in slots : st[s] = c

LEMMA QueueHas ==
  ASSUME NEW st \in Entries, NEW h \in Slots, NEW t \in Slots, NEW b \in Slots \cup {None},
         b = t => h # t, NEW c
  PROVE  Has(QueueOf(st, h, t, b), c) <=> Held(st, Between(t, h) \cup ({b} \ {None}), c)
  <1> DEFINE R == RingOf(st, h, t)
             E == Bufs \cup {None}
  <1>1. /\ R \in Seq(E) /\ Len(R) = Dist(t, h) /\ Dist(t, h) \in Nat /\ None \notin Slots
        /\ \A i \in 1 .. Dist(t, h) : R[i] = st[Pos(t, i)]
    <2>1. Dist(t, h) \in 0 .. Depth - 1 /\ Depth \in Nat
      BY RingSeq, Constants
    <2>2. /\ R \in Seq(E) /\ Len(R) = Dist(t, h)
          /\ \A i \in 1 .. Dist(t, h) : R[i] = st[Pos(t, i)]
      BY RingSeq
    <2>3. Dist(t, h) \in Nat /\ None \notin Slots
      BY <2>1, Constants
    <2> QED
      BY <2>2, <2>3
  <1>2. DOMAIN R = 1 .. Dist(t, h)
    BY DEF RingOf
  <1>3. (\E i \in 1 .. Dist(t, h) : R[i] = c) <=> \E s \in Between(t, h) : st[s] = c
    BY <1>1, PosBetween
  <1>4. CASE b \in {None, t}
    <2>1. QueueOf(st, h, t, b) = R
      BY <1>1, <1>4, ConcatEmptySeq DEF QueueOf
    <2>2. Between(t, h) \cup ({b} \ {None}) = Between(t, h)
      BY <1>1, <1>4, TailMoves
    <2> HIDE DEF R
    <2> QED
      BY <1>2, <1>3, <2>1, <2>2 DEF Has, Held
  <1>5. CASE b \notin {None, t}
    <2>1. QueueOf(st, h, t, b) = <<st[b]>> \o R
      BY <1>5 DEF QueueOf
    <2>2. <<st[b]>> \in Seq(E) /\ Len(<<st[b]>>) = 1 /\ <<st[b]>>[1] = st[b]
      BY <1>5 DEF Entries
    <2> HIDE DEF R, E
    <2>3. /\ <<st[b]>> \o R \in Seq(E) /\ Len(<<st[b]>> \o R) = 1 + Len(R)
          /\ \A i \in 1 .. 1 + Len(R) : (<<st[b]>> \o R)[i] = IF i <= 1 THEN <<st[b]>>[i] ELSE R[i - 1]
      BY <1>1, <2>2, ConcatProperties
    <2>4. DOMAIN (<<st[b]>> \o R) = 1 .. 1 + Dist(t, h)
      BY <1>1, <2>3, LenProperties
    <2>5. PICK Q : Q = <<st[b]>> \o R
      OBVIOUS
    <2>6. /\ DOMAIN Q = 1 .. 1 + Dist(t, h) /\ Q[1] = st[b]
          /\ \A i \in 1 .. 1 + Dist(t, h) : i # 1 => Q[i] = R[i - 1]
      BY <1>1, <2>2, <2>3, <2>4, <2>5
    <2>7. (\E i \in DOMAIN Q : Q[i] = c) <=> st[b] = c \/ \E i \in 1 .. Dist(t, h) : R[i] = c
      <3>1. ASSUME NEW i \in DOMAIN Q, Q[i] = c
            PROVE  st[b] = c \/ \E k \in 1 .. Dist(t, h) : R[k] = c
        <4>1. CASE i = 1
          BY <2>6, <3>1, <4>1
        <4>2. CASE i # 1
          <5>1. i - 1 \in 1 .. Dist(t, h) /\ Q[i] = R[i - 1]
            BY <1>1, <2>6, <4>2
          <5> QED
            BY <3>1, <5>1
        <4> QED
          BY <4>1, <4>2
      <3>2. ASSUME NEW k \in 1 .. Dist(t, h), R[k] = c
            PROVE  \E i \in DOMAIN Q : Q[i] = c
        <4>1. k + 1 \in DOMAIN Q /\ k + 1 # 1 /\ (k + 1) - 1 = k
          BY <1>1, <2>6
        <4>2. Q[k + 1] = R[k]
          BY <2>6, <4>1
        <4> QED
          BY <3>2, <4>1, <4>2
      <3>3. 1 \in DOMAIN Q
        BY <1>1, <2>6
      <3> QED
        BY <2>6, <3>1, <3>2, <3>3
    <2> QED
      BY <1>3, <1>5, <2>1, <2>5, <2>7 DEF Has, Held
  <1> QED
    BY <1>4, <1>5

-------------------------------------------------------------------------------
(* The status byte                                                             *)

LEMMA PortShape ==
  ASSUME CommInv, NEW p \in Ports
  PROVE  /\ stack[p] \in Entries /\ head[p] \in Slots /\ tail[p] \in Slots
         /\ busy[p] \in Slots \cup {None}
         /\ busy[p] = tail[p] => head[p] # tail[p]
  <1>1. /\ stack[p] \in Entries /\ head[p] \in Slots /\ tail[p] \in Slots
        /\ busy[p] \in Slots \cup {None}
    BY DEF CommInv, TypeOK, Entries
  <1>2. busy[p] = tail[p] => head[p] # tail[p]
    BY <1>1, AfterIs, Constants DEF CommInv, Started
  <1> QED
    BY <1>1, <1>2

LEMMA QueuedHas ==
  ASSUME CommInv, NEW p \in Ports, NEW b
  PROVE  (\E i \in DOMAIN Queued(p) : Queued(p)[i] = b) <=> \E s \in Live(p) : stack[p][s] = b
  <1>1. PICK st \in Entries, h \in Slots, t \in Slots, e \in Slots \cup {None} :
          /\ st = stack[p] /\ h = head[p] /\ t = tail[p] /\ e = busy[p]
          /\ e = t => h # t
    BY PortShape
  <1>2. Queued(p) = QueueOf(st, h, t, e)
    BY <1>1, QueuedIs
  <1>3. Live(p) = Between(t, h) \cup ({e} \ {None})
    BY <1>1 DEF Live
  <1>4. Has(QueueOf(st, h, t, e), b) <=> Held(st, Between(t, h) \cup ({e} \ {None}), b)
    BY <1>1, QueueHas
  <1> QED
    BY <1>1, <1>2, <1>3, <1>4 DEF Has, Held

LEMMA CountedIs ==
  ASSUME CommInv, NEW b \in Bufs
  PROVE  Counted(b) = Holders(b)
  <1>1. ASSUME NEW p \in Ports
        PROVE  p \in Counted(b) <=> p \in Holders(b)
    <2>1. (\E i \in DOMAIN Queued(p) : Queued(p)[i] = b) <=> \E s \in Live(p) : stack[p][s] = b
      BY QueuedHas
    <2>2. (\E t \in Tasks : /\ pc[t] \in {"send", "publish"} /\ buf[t] = b /\ p \in todo[t])
            <=> \E t \in Tasks : buf[t] = b /\ p \in todo[t]
      BY DEF CommInv, Locks
    <2>3. (\E t \in Tasks : pc[t] = "finished" /\ cur[t] = p /\ stack[p][entry] = b)
            <=> \E s \in Finishing(p) : stack[p][s] = b
      BY Constants DEF Finishing, CommInv, TypeOK, CanPoints
    <2> QED
      BY <2>1, <2>2, <2>3 DEF Counted, Holders, Kept
  <1> QED
    BY <1>1 DEF Counted, Holders

\* The status byte of a buffer is the number of the ports that still have it to send,
\* whatever tasks and interrupts come in between the first count and the last.
THEOREM StatusIsCount == Spec => []StatusCounts
  <1>1. CommInv => StatusCounts
    <2> SUFFICES ASSUME CommInv
                 PROVE  StatusCounts
      OBVIOUS
    <2>1. ASSUME NEW b \in Bufs
          PROVE  status[b] =
                   IF \E t \in Tasks : pc[t] = "own" /\ buf[t] = b THEN ALLOCATED
                   ELSE IF \/ Holders(b) # {}
                           \/ \E t \in Tasks : pc[t] \in {"send", "release"} /\ buf[t] = b
                        THEN SENDING + Cardinality(Holders(b))
                        ELSE FREE
      <3>1. CountOf(b)
        BY DEF CommInv, Counts
      <3>2. ASSUME NEW t \in Tasks, buf[t] = b, Holders(b) = {}
            PROVE  pc[t] \in {"own", "send", "release"}
        <4>1. pc[t] \in {"own", "send", "publish", "release"} /\ (pc[t] = "publish" => todo[t] # {})
          BY <3>2, Constants DEF CommInv, Owners
        <4>2. todo[t] = {}
          BY <3>2 DEF Holders, CommInv, TypeOK
        <4> QED
          BY <4>1, <4>2
      <3> QED
        BY <3>1, <3>2 DEF CountOf
    <2> QED
      BY <2>1, CountedIs DEF StatusCounts
  <1> QED
    BY <1>1, CommInductive, PTL

-------------------------------------------------------------------------------
(* How a queue changes                                                         *)

LEMMA QueueKept ==
  ASSUME NEW st \in Entries, NEW su \in Entries, NEW h \in Slots, NEW t \in Slots, NEW b,
         \A s \in Between(t, h) \cup ({b} \ {None}) : su[s] = st[s]
  PROVE  QueueOf(su, h, t, b) = QueueOf(st, h, t, b)
  <1>1. RingOf(su, h, t) = RingOf(st, h, t)
    BY RingKept
  <1>2. b \notin {None, t} => su[b] = st[b]
    OBVIOUS
  <1> QED
    BY <1>1, <1>2 DEF QueueOf

LEMMA QueueStarts ==
  ASSUME NEW st \in Entries, NEW h \in Slots, NEW t \in Slots, h # t
  PROVE  /\ QueueOf(st, h, After(t), t) = QueueOf(st, h, t, None)
         /\ QueueOf(st, h, t, t) = QueueOf(st, h, t, None)
  <1>1. After(t) # t /\ None # t
    BY AfterIs, Constants
  <1>2. QueueOf(st, h, After(t), t) = <<st[t]>> \o RingOf(st, h, After(t))
    BY <1>1 DEF QueueOf
  <1>3. QueueOf(st, h, t, None) = <<>> \o RingOf(st, h, t)
    BY DEF QueueOf
  <1>4. <<>> \o RingOf(st, h, t) = RingOf(st, h, t)
    BY RingSeq, ConcatEmptySeq
  <1>5. QueueOf(st, h, t, t) = QueueOf(st, h, t, None)
    BY DEF QueueOf
  <1> QED
    BY <1>2, <1>3, <1>4, <1>5, RingStarts

LEMMA QueueEnds ==
  ASSUME NEW st \in Entries, NEW h \in Slots, NEW t \in Slots, NEW b \in Slots, b # t
  PROVE  /\ QueueOf(st, h, t, b) # <<>> /\ Head(QueueOf(st, h, t, b)) = st[b]
         /\ Tail(QueueOf(st, h, t, b)) = QueueOf(st, h, t, None)
  <1> DEFINE E == Bufs \cup {None}
  <1>1. PICK R : R = RingOf(st, h, t)
    OBVIOUS
  <1>2. R \in Seq(E)
    BY <1>1, RingSeq
  <1>3. PICK x \in E : x = st[b]
    BY DEF Entries
  <1>4. QueueOf(st, h, t, b) = <<x>> \o R /\ QueueOf(st, h, t, None) = R
    <2>1. b \notin {None, t}
      BY Constants
    <2>2. <<>> \o R = R
      BY <1>2, ConcatEmptySeq
    <2> QED
      BY <1>1, <1>3, <2>1, <2>2 DEF QueueOf
  <1> HIDE DEF E
  <1>5. <<x>> \in Seq(E) /\ Len(<<x>>) = 1 /\ <<x>>[1] = x
    BY <1>3
  <1>6. PICK Q : Q = <<x>> \o R
    OBVIOUS
  <1>7. /\ Q \in Seq(E) /\ Len(Q) = 1 + Len(R) /\ Len(R) \in Nat
        /\ \A i \in 1 .. 1 + Len(R) : Q[i] = IF i <= 1 THEN <<x>>[i] ELSE R[i - 1]
    BY <1>2, <1>5, <1>6, ConcatProperties, LenProperties
  <1>8. Q # <<>> /\ Head(Q) = x
    <2>1. Q # <<>>
      BY <1>7
    <2>2. Q[1] = x
      BY <1>5, <1>7
    <2> QED
      BY <1>7, <2>1, <2>2
  <1>9. /\ Tail(Q) \in Seq(E) /\ Len(Tail(Q)) = Len(R)
        /\ \A i \in 1 .. Len(R) : Tail(Q)[i] = Q[i + 1]
    BY <1>7, <1>8, HeadTailProperties
  <1>10. \A i \in 1 .. Len(R) : Tail(Q)[i] = R[i]
    BY <1>7, <1>9
  <1>11. Tail(Q) = R
    BY <1>2, <1>9, <1>10, SeqEqual
  <1> QED
    BY <1>3, <1>4, <1>6, <1>8, <1>11

LEMMA QueueGrows ==
  ASSUME NEW st \in Entries, NEW h \in Slots, NEW t \in Slots, NEW b \in Slots \cup {None},
         After(h) # t
  PROVE  QueueOf(st, After(h), t, b) = Append(QueueOf(st, h, t, b), st[h])
  <1> DEFINE E == Bufs \cup {None}
  <1>1. PICK R \in Seq(E) : R = RingOf(st, h, t)
    BY RingSeq
  <1>2. PICK x \in E : x = st[h]
    BY DEF Entries
  <1>3. PICK F \in Seq(E) : F = IF b \in {None, t} THEN <<>> ELSE <<st[b]>>
    <2>1. b \notin {None, t} => st[b] \in E
      BY DEF Entries
    <2> HIDE DEF E
    <2>2. <<>> \in Seq(E) /\ (b \notin {None, t} => <<st[b]>> \in Seq(E))
      BY <2>1
    <2> QED
      BY <2>2
  <1> HIDE DEF E
  <1>4. RingOf(st, After(h), t) = Append(R, x)
    BY <1>1, <1>2, RingGrows
  <1>5. /\ QueueOf(st, After(h), t, b) = F \o Append(R, x)
        /\ QueueOf(st, h, t, b) = F \o R
    BY <1>1, <1>3, <1>4 DEF QueueOf
  <1>6. <<x>> \in Seq(E) /\ F \o R \in Seq(E)
    BY <1>1, <1>2, <1>3, ConcatProperties
  <1>7. Append(R, x) = R \o <<x>> /\ Append(F \o R, x) = (F \o R) \o <<x>>
    BY <1>1, <1>2, <1>6, AppendIsConcat
  <1>8. (F \o R) \o <<x>> = F \o (R \o <<x>>)
    BY <1>1, <1>3, <1>6, ConcatAssociative
  <1> QED
    BY <1>2, <1>5, <1>7, <1>8

LEMMA PortShapeNext ==
  ASSUME CommInv', NEW p \in Ports
  PROVE  /\ stack'[p] \in Entries /\ head'[p] \in Slots /\ tail'[p] \in Slots
         /\ busy'[p] \in Slots \cup {None}
         /\ busy'[p] = tail'[p] => head'[p] # tail'[p]
  <1>1. /\ stack'[p] \in Entries /\ head'[p] \in Slots /\ tail'[p] \in Slots
        /\ busy'[p] \in Slots \cup {None}
    BY DEF CommInv, TypeOK, Entries
  <1>2. busy'[p] = tail'[p] => head'[p] # tail'[p]
    BY <1>1, AfterIs, Constants DEF CommInv, Started
  <1> QED
    BY <1>1, <1>2

\* Nothing is queued that no slot keeps.
LEMMA QueuedHasNext ==
  ASSUME CommInv', NEW p \in Ports, NEW b, p \notin Holders(b)'
  PROVE  ~Has(Queued(p)', b)
  <1>1. PICK st \in Entries, h \in Slots, t \in Slots, e \in Slots \cup {None} :
          /\ st = stack'[p] /\ h = head'[p] /\ t = tail'[p] /\ e = busy'[p]
          /\ e = t => h # t
    BY PortShapeNext
  <1>2. Queued(p)' = QueueOf(st, h, t, e)
    BY <1>1, QueuedIs
  <1>3. Kept(p)' = Between(t, h) \cup ({e} \ {None}) \cup Finishing(p)'
    BY <1>1 DEF Kept, Live
  <1>4. ~Held(st, Between(t, h) \cup ({e} \ {None}), b)
    BY <1>1, <1>3 DEF Holders, Held
  <1>5. Has(QueueOf(st, h, t, e), b) <=> Held(st, Between(t, h) \cup ({e} \ {None}), b)
    BY <1>1, QueueHas
  <1> QED
    BY <1>2, <1>4, <1>5

\* The queue of a port whose head, tail and transmission stay, and whose entries stay
\* where they are in use.
LEMMA QueueRests ==
  ASSUME CommInv, CommInv', NEW p \in Ports,
         head'[p] = head[p], tail'[p] = tail[p], busy'[p] = busy[p],
         \A s \in Live(p) : stack'[p][s] = stack[p][s]
  PROVE  Queued(p)' = Queued(p)
  <1>1. PICK st \in Entries, h \in Slots, t \in Slots, e \in Slots \cup {None} :
          st = stack[p] /\ h = head[p] /\ t = tail[p] /\ e = busy[p]
    BY PortShape
  <1>2. PICK su \in Entries : su = stack'[p]
    BY PortShapeNext
  <1>3. \A s \in Between(t, h) \cup ({e} \ {None}) : su[s] = st[s]
    BY <1>1, <1>2 DEF Live
  <1>4. QueueOf(su, h, t, e) = QueueOf(st, h, t, e)
    BY <1>3, QueueKept
  <1> QED
    BY <1>1, <1>2, <1>4, QueuedIs

\* It stays when a transmission is started, and when the tail follows.
LEMMA QueueCryp ==
  ASSUME CommInv, CrypIRQ, NEW p \in Ports
  PROVE  Queued(p)' = Queued(p)
  <1>1. PICK st \in Entries, h \in Slots, t \in Slots : st = stack[p] /\ h = head[p] /\ t = tail[p]
    BY PortShape
  <1>2. stack'[p] = st /\ head'[p] = h
    BY <1>1 DEF CrypIRQ
  <1>3. CASE Ready(p)
    <2>1. busy[p] = None /\ h # t /\ busy'[p] = t /\ tail'[p] = After(t)
      BY <1>1, <1>3 DEF CrypIRQ, Ready
    <2>2. QueueOf(st, h, After(t), t) = QueueOf(st, h, t, None)
      BY <2>1, QueueStarts
    <2> QED
      BY <1>1, <1>2, <2>1, <2>2, QueuedIs
  <1>4. CASE ~Ready(p)
    <2>1. busy'[p] = busy[p] /\ tail'[p] = t
      BY <1>1, <1>4 DEF CrypIRQ
    <2> QED
      BY <1>1, <1>2, <2>1, QueuedIs
  <1> QED
    BY <1>3, <1>4

LEMMA QueueCan ==
  ASSUME CommInv, NEW t \in Tasks, CanStart(t) \/ CanAdvance(t), NEW p \in Ports
  PROVE  Queued(p)' = Queued(p)
  <1>1. PICK st \in Entries, h \in Slots, i \in Slots, e \in Slots \cup {None} :
          /\ st = stack[p] /\ h = head[p] /\ i = tail[p] /\ e = busy[p]
          /\ e = i => h # i
    BY PortShape
  <1>2. stack'[p] = st /\ head'[p] = h
    BY <1>1 DEF CanStart, CanAdvance
  <1>3. t = CommTask
    BY DEF CommInv, TypeOK, CanStart, CanAdvance, CanPoints
  <1>4. busy \in [Ports -> Slots \cup {None}] /\ tail \in [Ports -> Slots] /\ entry \in Slots
    BY DEF CommInv, TypeOK
  <1>5. CASE p # cur[t]
    <2>1. busy'[p] = e /\ tail'[p] = i
      BY <1>1, <1>4, <1>5 DEF CanStart, CanAdvance
    <2> QED
      BY <1>1, <1>2, <2>1, QueuedIs
  <1>6. CASE p = cur[t] /\ CanStart(t)
    <2>1. busy'[p] = entry /\ tail'[p] = i
      BY <1>1, <1>4, <1>6 DEF CanStart
    <2>2. \/ e = None /\ i = entry /\ h # i
          \/ e = entry
      BY <1>1, <1>3, <1>6 DEF CommInv, Started, CanStart
    <2>3. CASE e = None /\ i = entry /\ h # i
      <3>1. QueueOf(st, h, i, i) = QueueOf(st, h, i, None)
        BY <2>3, QueueStarts
      <3> QED
        BY <1>1, <1>2, <2>1, <2>3, <3>1, QueuedIs
    <2>4. CASE e = entry
      BY <1>1, <1>2, <2>1, <2>4, QueuedIs
    <2> QED
      BY <2>2, <2>3, <2>4
  <1>7. CASE p = cur[t] /\ CanAdvance(t)
    <2>1. busy'[p] = e /\ tail'[p] = After(entry)
      BY <1>1, <1>4, <1>7 DEF CanAdvance
    <2>2. e = entry /\ i \in {entry, After(entry)}
      BY <1>1, <1>3, <1>7 DEF CommInv, Started, CanAdvance
    <2>3. CASE i = entry
      <3>1. h # i /\ e = i
        BY <1>1, <2>2, <2>3
      <3>2. QueueOf(st, h, After(i), i) = QueueOf(st, h, i, i)
        BY <3>1, QueueStarts
      <3> QED
        BY <1>1, <1>2, <2>1, <2>3, <3>1, <3>2, QueuedIs
    <2>4. CASE i = After(entry)
      BY <1>1, <1>2, <2>1, <2>4, QueuedIs
    <2> QED
      BY <2>2, <2>3, <2>4
  <1> QED
    BY <1>5, <1>6, <1>7

\* The end of a transmission takes the first buffer off.
LEMMA QueueEnd ==
  ASSUME CommInv, CommInv', NEW q \in Ports, ~At(q), busy[q] # None,
         \/ DmaIRQ(q)
         \/ \E t \in Tasks : CanSent(t, q)
  PROVE  /\ Queued(q) # <<>> /\ Head(Queued(q)) = stack[q][busy[q]]
         /\ Queued(q)' = Tail(Queued(q))
  <1>1. PICK st \in Entries, h \in Slots, t \in Slots, e \in Slots :
          st = stack[q] /\ h = head[q] /\ t = tail[q] /\ e = busy[q]
    BY PortShape
  <1>2. t = After(e) /\ e # t /\ e \notin Between(t, h) /\ None # t
    BY <1>1, HeadFree, AfterIs, Constants
  <1>3. Queued(q) = QueueOf(st, h, t, e)
    BY <1>1, QueuedIs
  <1>4. /\ QueueOf(st, h, t, e) # <<>> /\ Head(QueueOf(st, h, t, e)) = st[e]
        /\ Tail(QueueOf(st, h, t, e)) = QueueOf(st, h, t, None)
    BY <1>2, QueueEnds
  <1>5. Queued(q)' = QueueOf(st, h, t, None)
    <2>1. PICK su \in Entries : su = stack'[q]
      BY PortShapeNext
    <2>2. head'[q] = h /\ \A s \in Slots \ {e} : su[s] = st[s]
      <3>1. stack \in [Ports -> [Slots -> Bufs \cup {None}]]
        BY DEF CommInv, TypeOK
      <3>2. CASE DmaIRQ(q)
        BY <1>1, <2>1, <3>1, <3>2 DEF DmaIRQ
      <3>3. CASE \E u \in Tasks : CanSent(u, q)
        BY <1>1, <2>1, <3>3 DEF CanSent
      <3> QED
        BY <3>2, <3>3
    <2>3. Between(t, h) \subseteq Slots
      BY BetweenSlots
    <2>4. \A s \in Between(t, h) \cup ({None} \ {None}) : su[s] = st[s]
      BY <1>2, <2>2, <2>3
    <2>5. QueueOf(su, h, t, None) = QueueOf(st, h, t, None)
      BY <2>4, QueueKept
    <2>6. \/ busy'[q] = None /\ tail'[q] = t
          \/ h # t /\ busy'[q] = t /\ tail'[q] = After(t)
      <3>1. busy \in [Ports -> Slots \cup {None}] /\ tail \in [Ports -> Slots]
        BY DEF CommInv, TypeOK
      <3>2. CASE DmaIRQ(q)
        BY <1>1, <3>1, <3>2 DEF DmaIRQ
      <3>3. CASE \E u \in Tasks : CanSent(u, q)
        BY <1>1, <3>1, <3>3 DEF CanSent
      <3> QED
        BY <3>2, <3>3
    <2>7. h # t => QueueOf(su, h, After(t), t) = QueueOf(su, h, t, None)
      BY QueueStarts
    <2> QED
      BY <2>1, <2>2, <2>5, <2>6, <2>7, QueuedIs
  <1> QED
    BY <1>1, <1>3, <1>4, <1>5

\* What is published comes last.
LEMMA QueuePublish ==
  ASSUME CommInv, NEW t \in Tasks, NEW q \in todo[t],
         head' = [head EXCEPT ![q] = After(@)], UNCHANGED <<stack, tail, busy>>
  PROVE  /\ Queued(q)' = Append(Queued(q), buf[t])
         /\ \A p \in Ports \ {q} : Queued(p)' = Queued(p)
  <1>1. q \in Ports /\ ~Full(q) /\ stack[q][head[q]] = buf[t]
    BY Marked
  <1>2. PICK st \in Entries, h \in Slots, i \in Slots, e \in Slots \cup {None} :
          st = stack[q] /\ h = head[q] /\ i = tail[q] /\ e = busy[q]
    BY <1>1, PortShape
  <1>3. head \in [Ports -> Slots]
    BY DEF CommInv, TypeOK
  <1>4. QueueOf(st, After(h), i, e) = Append(QueueOf(st, h, i, e), st[h])
    BY <1>1, <1>2, QueueGrows DEF Full
  <1>5. head'[q] = After(h)
    BY <1>1, <1>2, <1>3
  <1>6. Queued(q)' = QueueOf(st, After(h), i, e) /\ Queued(q) = QueueOf(st, h, i, e)
    BY <1>1, <1>2, <1>5, QueuedIs
  <1>7. ASSUME NEW p \in Ports \ {q}
        PROVE  Queued(p)' = Queued(p)
    BY <1>1, <1>3, QueuedIs
  <1> QED
    BY <1>1, <1>2, <1>4, <1>6, <1>7
-------------------------------------------------------------------------------
(* The steps of the pool                                                       *)

FreeBufs == {b \in Bufs : status[b] = FREE}
HoldsOf  == [t \in Tasks |-> IF Holding(t) THEN buf[t] ELSE None]
ComingOf == [b \in Bufs |-> Coming(b)]
QueueAll == [p \in Ports |-> Queued(p)]

LEMMA PoolRests ==
  ASSUME FreeBufs' = FreeBufs, HoldsOf' = HoldsOf, ComingOf' = ComingOf, QueueAll' = QueueAll
  PROVE  [Pool!Next]_(Pool!vars)
  BY DEF Pool!vars, FreeBufs, HoldsOf, ComingOf, QueueAll

LEMMA PoolTake ==
  ASSUME NEW t \in Tasks, NEW b \in FreeBufs, HoldsOf[t] = None,
         HoldsOf' = [HoldsOf EXCEPT ![t] = b], FreeBufs' = FreeBufs \ {b},
         ComingOf' = ComingOf, QueueAll' = QueueAll
  PROVE  [Pool!Next]_(Pool!vars)
  <1>1. Pool!Take(t)
    BY DEF Pool!Take, FreeBufs, HoldsOf, ComingOf, QueueAll
  <1> QED
    BY <1>1 DEF Pool!Next

LEMMA PoolDiscard ==
  ASSUME NEW t \in Tasks, HoldsOf[t] # None,
         HoldsOf' = [HoldsOf EXCEPT ![t] = None], FreeBufs' = FreeBufs \cup {HoldsOf[t]},
         ComingOf' = ComingOf, QueueAll' = QueueAll
  PROVE  [Pool!Next]_(Pool!vars)
  <1>1. Pool!Discard(t)
    BY DEF Pool!Discard, FreeBufs, HoldsOf, ComingOf, QueueAll
  <1> QED
    BY <1>1 DEF Pool!Next

LEMMA PoolHand ==
  ASSUME NEW t \in Tasks, NEW to \in SUBSET Ports, HoldsOf[t] # None, to # {},
         HoldsOf' = [HoldsOf EXCEPT ![t] = None], 
         ComingOf' = [ComingOf EXCEPT ![HoldsOf[t]] = to],
         FreeBufs' = FreeBufs, QueueAll' = QueueAll
  PROVE  [Pool!Next]_(Pool!vars)
  <1>1. Pool!Hand(t, to)
    BY DEF Pool!Hand, FreeBufs, HoldsOf, ComingOf, QueueAll
  <1> QED
    BY <1>1 DEF Pool!Next

LEMMA PoolPublish ==
  ASSUME NEW b \in Bufs, NEW p \in Ports, p \in ComingOf[b],
         ComingOf' = [ComingOf EXCEPT ![b] = @ \ {p}],
         QueueAll' = [QueueAll EXCEPT ![p] = Append(@, b)],
         FreeBufs' = FreeBufs, HoldsOf' = HoldsOf
  PROVE  [Pool!Next]_(Pool!vars)
  <1>1. Pool!Publish(b, p)
    BY DEF Pool!Publish, FreeBufs, HoldsOf, ComingOf, QueueAll
  <1> QED
    BY <1>1 DEF Pool!Next

\* No port has it, in the state after the step.
DoneNext(b) == ComingOf'[b] = {} /\ \A p \in Ports : ~Has(QueueAll'[p], b)

LEMMA PoolFinish ==
  ASSUME NEW b \in Bufs, NEW p \in Ports, QueueAll[p] # <<>>, b = Head(QueueAll[p]),
         QueueAll' = [QueueAll EXCEPT ![p] = Tail(@)],
         FreeBufs' = FreeBufs \/ (DoneNext(b) /\ FreeBufs' = FreeBufs \cup {b}),
         HoldsOf' = HoldsOf, ComingOf' = ComingOf
  PROVE  [Pool!Next]_(Pool!vars)
  <1>1. Pool!Finish(b, p)
    BY DEF Pool!Finish, Pool!Done, Pool!Queues, DoneNext, Has, FreeBufs, HoldsOf, ComingOf, QueueAll
  <1> QED
    BY <1>1 DEF Pool!Next

LEMMA PoolFree ==
  ASSUME NEW b \in Bufs, b \notin FreeBufs, FreeBufs' = FreeBufs \cup {b},
         ComingOf[b] = {}, \A p \in Ports : ~Has(QueueAll[p], b),
         \A t \in Tasks : HoldsOf[t] # b,
         HoldsOf' = HoldsOf, ComingOf' = ComingOf, QueueAll' = QueueAll
  PROVE  [Pool!Next]_(Pool!vars)
  <1>1. Pool!Free(b)
    BY DEF Pool!Free, Pool!Done, Pool!Queues, Has, FreeBufs, HoldsOf, ComingOf, QueueAll
  <1> QED
    BY <1>1 DEF Pool!Next

-------------------------------------------------------------------------------
(* The state of the pool                                                       *)

LEMMA FreeStays ==
  ASSUME \A b \in Bufs : status'[b] = FREE <=> status[b] = FREE
  PROVE  FreeBufs' = FreeBufs
  BY DEF FreeBufs

LEMMA HoldsStays ==
  ASSUME \A t \in Tasks : IF Holding(t) THEN Holding(t)' /\ buf'[t] = buf[t] ELSE ~Holding(t)'
  PROVE  HoldsOf' = HoldsOf
  BY DEF HoldsOf

LEMMA HoldsMoves ==
  ASSUME NEW t \in Tasks, \A u \in Tasks \ {t} : pc'[u] = pc[u] /\ buf'[u] = buf[u]
  PROVE  /\ Holding(t)' => HoldsOf' = [HoldsOf EXCEPT ![t] = buf'[t]]
         /\ ~Holding(t)' => HoldsOf' = [HoldsOf EXCEPT ![t] = None]
  BY DEF HoldsOf, Holding

LEMMA ComingStays ==
  ASSUME \A t \in Tasks : IF pc[t] = "publish"
                          THEN pc'[t] = "publish" /\ buf'[t] = buf[t] /\ todo'[t] = todo[t]
                          ELSE pc'[t] # "publish"
  PROVE  ComingOf' = ComingOf
  <1>1. ASSUME NEW b \in Bufs
        PROVE  Coming(b)' = Coming(b)
    BY DEF Coming
  <1> QED
    BY <1>1 DEF ComingOf

LEMMA QueueStays ==
  ASSUME \A p \in Ports : Queued(p)' = Queued(p)
  PROVE  QueueAll' = QueueAll
  BY DEF QueueAll

-------------------------------------------------------------------------------
(* Each step of comm.c is one of the pool                                      *)

\* Tasks that get no buffer, start to send one or go on in the comm task, and an
\* interrupt that starts transmissions, change nothing of the pool.
LEMMA Quiet ==
  ASSUME CommInv, NEW t \in Tasks, CommInv',
         GetBuf(t) \/ SearchOn(t) \/ Starved(t) \/ CanResched(t) \/ CanStart(t) \/ CanAdvance(t)
  PROVE  [Pool!Next]_(Pool!vars)
  <1>1. FreeBufs' = FreeBufs
    BY FreeStays DEF GetBuf, SearchOn, Starved, CanResched, CanStart, CanAdvance
  <1>2. HoldsOf' = HoldsOf
    <2>1. pc \in [Tasks -> TaskPoints \cup CanPoints] /\ buf \in [Tasks -> Bufs \cup {None}]
      BY DEF CommInv, TypeOK
    <2> QED
      BY <2>1, HoldsStays DEF GetBuf, SearchOn, Starved, CanResched, CanStart, CanAdvance,
                              Goto, Return, Holding
  <1>3. ComingOf' = ComingOf
    <2>1. pc \in [Tasks -> TaskPoints \cup CanPoints] /\ buf \in [Tasks -> Bufs \cup {None}]
          /\ todo \in [Tasks -> SUBSET Ports]
      BY DEF CommInv, TypeOK
    <2> QED
      BY <2>1, ComingStays DEF GetBuf, SearchOn, Starved, CanResched, CanStart, CanAdvance,
                              Goto, Return
  <1>4. QueueAll' = QueueAll
    <2>1. CASE CanStart(t) \/ CanAdvance(t)
      BY <2>1, QueueCan, QueueStays
    <2>2. CASE GetBuf(t) \/ SearchOn(t) \/ Starved(t) \/ CanResched(t)
      <3>1. UNCHANGED <<stack, head, tail, busy>>
        BY <2>2 DEF GetBuf, SearchOn, Starved, CanResched, rings
      <3>2. \A p \in Ports : Queued(p)' = Queued(p)
        BY <3>1, QueueRests
      <3> QED
        BY <3>2, QueueStays
    <2> QED
      BY <2>1, <2>2
  <1> QED
    BY <1>1, <1>2, <1>3, <1>4, PoolRests

LEMMA CrypRests ==
  ASSUME CommInv, CrypIRQ
  PROVE  [Pool!Next]_(Pool!vars)
  <1>1. UNCHANGED <<status, pc, buf, todo>>
    BY DEF CrypIRQ, locals
  <1>2. FreeBufs' = FreeBufs
    BY <1>1, FreeStays
  <1>3. HoldsOf' = HoldsOf
    BY <1>1, HoldsStays DEF Holding
  <1>4. ComingOf' = ComingOf
    BY <1>1, ComingStays
  <1>5. QueueAll' = QueueAll
    BY QueueCryp, QueueStays
  <1> QED
    BY <1>2, <1>3, <1>4, <1>5, PoolRests

LEMMA AllocateTakes ==
  ASSUME CommInv, CommInv', NEW t \in Tasks, Allocate(t)
  PROVE  [Pool!Next]_(Pool!vars)
  <1>1. /\ status \in [Bufs -> 0 .. SENDING + NumPorts] /\ pc \in [Tasks -> TaskPoints \cup CanPoints]
        /\ buf \in [Tasks -> Bufs \cup {None}] /\ cur[t] \in Nat
    BY DEF CommInv, TypeOK
  <1>2. PICK b \in Bufs : b = cur[t]
    <2>1. cur[t] \in 0 .. NumBufs - 1
      BY <1>1, Constants DEF Allocate
    <2> QED
      BY <2>1 DEF Bufs
  <1>3. status[b] = FREE /\ status' = [status EXCEPT ![b] = ALLOCATED] /\ FREE # ALLOCATED
    BY <1>2 DEF Allocate, FREE, ALLOCATED
  <1>4. b \in FreeBufs /\ FreeBufs' = FreeBufs \ {b}
    BY <1>1, <1>3 DEF FreeBufs
  <1>5. pc[t] = "get" /\ pc' = [pc EXCEPT ![t] = "own"] /\ buf' = [buf EXCEPT ![t] = b]
    BY <1>2 DEF Allocate, Goto
  <1>6. HoldsOf[t] = None /\ HoldsOf' = [HoldsOf EXCEPT ![t] = b]
    <2>1. Holding(t)' /\ ~Holding(t) /\ buf'[t] = b
      BY <1>1, <1>5 DEF Holding
    <2>2. HoldsOf' = [HoldsOf EXCEPT ![t] = buf'[t]]
      BY <1>1, <1>5, <2>1, HoldsMoves
    <2> QED
      BY <2>1, <2>2 DEF HoldsOf
  <1>7. ComingOf' = ComingOf
    BY <1>1, <1>5, ComingStays DEF Allocate
  <1>8. QueueAll' = QueueAll
    <2>1. UNCHANGED <<stack, head, tail, busy>>
      BY DEF Allocate, rings
    <2> QED
      BY <2>1, QueueRests, QueueStays
  <1> QED
    BY <1>4, <1>6, <1>7, <1>8, PoolTake

LEMMA SendBufRests ==
  ASSUME CommInv, CommInv', NEW t \in Tasks, SendBuf(t)
  PROVE  [Pool!Next]_(Pool!vars)
  <1>1. /\ status \in [Bufs -> 0 .. SENDING + NumPorts] /\ pc \in [Tasks -> TaskPoints \cup CanPoints]
    BY DEF CommInv, TypeOK
  <1>2. buf[t] \in Bufs /\ status[buf[t]] # FREE
    <2>1. buf[t] \in Bufs
      BY DEF SendBuf, CommInv, TypeOK, Owners
    <2> QED
      BY <2>1, FreeIsNobodys
  <1>3. FreeBufs' = FreeBufs
    <2>1. FREE # SENDING /\ status' = [status EXCEPT ![buf[t]] = SENDING]
      BY DEF FREE, SENDING, SendBuf
    <2> QED
      BY <1>1, <1>2, <2>1, FreeStays
  <1>4. HoldsOf' = HoldsOf
    BY <1>1, HoldsStays DEF SendBuf, Goto, Holding
  <1>5. ComingOf' = ComingOf
    BY <1>1, ComingStays DEF SendBuf, Goto
  <1>6. QueueAll' = QueueAll
    <2>1. UNCHANGED <<stack, head, tail, busy>>
      BY DEF SendBuf, rings
    <2> QED
      BY <2>1, QueueRests, QueueStays
  <1> QED
    BY <1>3, <1>4, <1>5, <1>6, PoolRests

\* What a buffer is coming to is what its owner has marked.
LEMMA ComingIs ==
  ASSUME CommInv, NEW t \in Tasks, pc[t] = "publish"
  PROVE  buf[t] \in Bufs /\ Coming(buf[t]) = todo[t]
  <1>1. buf[t] \in Bufs /\ todo[t] \subseteq Ports
    BY DEF CommInv, TypeOK, Owners
  <1>2. \A u \in Tasks : buf[u] = buf[t] => u = t
    BY <1>1, Constants DEF CommInv, Owners
  <1> QED
    BY <1>1, <1>2 DEF Coming

LEMMA StackHands ==
  ASSUME CommInv, CommInv', NEW t \in Tasks, Stack(t)
  PROVE  [Pool!Next]_(Pool!vars)
  <1>1. /\ status \in [Bufs -> 0 .. SENDING + NumPorts] /\ pc \in [Tasks -> TaskPoints \cup CanPoints]
        /\ todo \in [Tasks -> SUBSET Ports]
    BY DEF CommInv, TypeOK
  <1>2. /\ pc[t] = "send" /\ UNCHANGED <<head, tail, busy, buf>>
        /\ \/ UNCHANGED status
           \/ status' = [status EXCEPT ![buf[t]] = @ + 1]
        /\ \/ UNCHANGED pc
           \/ pc' = [pc EXCEPT ![t] = "publish"]
        /\ \A u \in Tasks \ {t} : todo'[u] = todo[u]
    BY <1>1 DEF Stack, Goto
  <1>3. buf[t] \in Bufs /\ status[buf[t]] # FREE
    <2>1. buf[t] \in Bufs
      BY <1>2 DEF CommInv, TypeOK, Owners
    <2> QED
      BY <2>1, FreeIsNobodys
  <1>4. FreeBufs' = FreeBufs
    <2>1. CASE UNCHANGED status
      BY <2>1, FreeStays
    <2>2. CASE status' = [status EXCEPT ![buf[t]] = @ + 1]
      <3>1. status[buf[t]] \in Nat /\ status'[buf[t]] = status[buf[t]] + 1
        BY <1>1, <1>3, <2>2, Constants DEF SENDING
      <3>2. status'[buf[t]] # FREE
        BY <3>1 DEF FREE
      <3> QED
        BY <1>1, <1>3, <2>2, <3>2, FreeStays
    <2> QED
      BY <1>2, <2>1, <2>2
  <1>5. QueueAll' = QueueAll
    <2>1. ASSUME NEW p \in Ports
          PROVE  Queued(p)' = Queued(p)
      <3>1. \A s \in Live(p) : stack'[p][s] = stack[p][s]
        BY PortsRest DEF KeptAs, Kept
      <3> QED
        BY <1>2, <3>1, QueueRests
    <2> QED
      BY <2>1, QueueStays
  <1>6. CASE UNCHANGED pc
    <2>1. HoldsOf' = HoldsOf
      BY <1>2, <1>6, HoldsStays DEF Holding
    <2>2. ComingOf' = ComingOf
      BY <1>2, <1>6, ComingStays
    <2> QED
      BY <1>4, <1>5, <2>1, <2>2, PoolRests
  <1>7. CASE pc' = [pc EXCEPT ![t] = "publish"]
    <2>1. pc'[t] = "publish" /\ \A u \in Tasks \ {t} : pc'[u] = pc[u]
      BY <1>1, <1>7
    <2>2. HoldsOf[t] = buf[t] /\ HoldsOf' = [HoldsOf EXCEPT ![t] = None]
      <3>1. Holding(t) /\ ~Holding(t)'
        BY <1>2, <2>1 DEF Holding
      <3> QED
        BY <1>2, <2>1, <3>1, HoldsMoves DEF HoldsOf
    <2>3. PICK to \in SUBSET Ports : to = todo'[t] /\ to # {}
      BY <2>1 DEF CommInv, TypeOK, Owners
    <2>4. ComingOf' = [ComingOf EXCEPT ![buf[t]] = to]
      <3>1. ASSUME NEW b \in Bufs, b # buf[t]
            PROVE  Coming(b)' = Coming(b)
        BY <1>2, <2>1, <3>1 DEF Coming
      <3>2. ASSUME NEW b \in Bufs, b = buf[t]
            PROVE  Coming(b)' = to
        <4>1. \A u \in Tasks : buf[u] = buf[t] => u = t
          BY <1>3, Constants DEF CommInv, Owners
        <4> QED
          BY <1>2, <2>1, <2>3, <3>2, <4>1 DEF Coming
      <3>3. \A b \in Bufs : Coming(b)' = IF b = buf[t] THEN to ELSE Coming(b)
        BY <3>1, <3>2
      <3> QED
        BY <3>3 DEF ComingOf
    <2>5. HoldsOf[t] # None
      BY <1>3, <2>2, Constants
    <2> QED
      BY <1>4, <1>5, <2>2, <2>3, <2>4, <2>5, PoolHand
  <1> QED
    BY <1>2, <1>6, <1>7

LEMMA DiscardFrees ==
  ASSUME CommInv, CommInv', NEW t \in Tasks, Discard(t)
  PROVE  [Pool!Next]_(Pool!vars)
  <1>1. /\ status \in [Bufs -> 0 .. SENDING + NumPorts] /\ pc \in [Tasks -> TaskPoints \cup CanPoints]
        /\ buf \in [Tasks -> Bufs \cup {None}]
    BY DEF CommInv, TypeOK
  <1>2. /\ pc[t] = "send" /\ status' = [status EXCEPT ![buf[t]] = FREE]
        /\ pc' = [pc EXCEPT ![t] = "idle"] /\ buf' = [buf EXCEPT ![t] = None]
        /\ todo' = [todo EXCEPT ![t] = {}] /\ UNCHANGED <<stack, head, tail, busy>>
    BY DEF Discard, Return, Goto, rings
  <1>3. buf[t] \in Bufs
    BY <1>1, <1>2 DEF CommInv, Owners
  <1>4. FreeBufs' = FreeBufs \cup {buf[t]}
    BY <1>1, <1>2, <1>3 DEF FreeBufs
  <1>5. HoldsOf[t] = buf[t] /\ HoldsOf' = [HoldsOf EXCEPT ![t] = None]
    <2>1. Holding(t) /\ ~Holding(t)'
      BY <1>1, <1>2 DEF Holding
    <2> QED
      BY <1>1, <1>2, <2>1, HoldsMoves DEF HoldsOf
  <1>6. ComingOf' = ComingOf
    <2>1. todo \in [Tasks -> SUBSET Ports]
      BY DEF CommInv, TypeOK
    <2> QED
      BY <1>1, <1>2, <2>1, ComingStays
  <1>7. QueueAll' = QueueAll
    BY <1>2, QueueRests, QueueStays
  <1>8. HoldsOf[t] # None
    BY <1>3, <1>5, Constants
  <1> QED
    BY <1>4, <1>5, <1>6, <1>7, <1>8, PoolDiscard

LEMMA PublishPublishes ==
  ASSUME CommInv, CommInv', NEW t \in Tasks, Publish(t)
  PROVE  [Pool!Next]_(Pool!vars)
  <1>1. /\ pc \in [Tasks -> TaskPoints \cup CanPoints] /\ buf \in [Tasks -> Bufs \cup {None}]
        /\ todo \in [Tasks -> SUBSET Ports]
    BY DEF CommInv, TypeOK
  <1>2. PICK q \in todo[t] :
          /\ pc[t] = "publish" /\ head' = [head EXCEPT ![q] = After(@)]
          /\ \/ todo[t] = {q} /\ Return(t)
             \/ todo' = [todo EXCEPT ![t] = @ \ {q}] /\ UNCHANGED <<pc, buf>>
    BY DEF Publish
  <1>3. UNCHANGED <<status, stack, tail, busy>>
    BY DEF Publish
  <1>4. buf[t] \in Bufs /\ Coming(buf[t]) = todo[t] /\ q \in Ports
    BY <1>1, <1>2, ComingIs
  <1>5. FreeBufs' = FreeBufs
    BY <1>3, FreeStays
  <1>6. HoldsOf' = HoldsOf
    <2>1. CASE Return(t)
      BY <1>1, <1>2, <2>1, HoldsStays DEF Return, Goto, Holding
    <2>2. CASE UNCHANGED <<pc, buf>>
      BY <2>2, HoldsStays DEF Holding
    <2> QED
      BY <1>2, <2>1, <2>2
  <1>7. ComingOf' = [ComingOf EXCEPT ![buf[t]] = @ \ {q}]
    <2>1. /\ \/ pc'[t] = "idle" /\ todo[t] = {q}
             \/ pc'[t] = "publish" /\ buf'[t] = buf[t] /\ todo'[t] = todo[t] \ {q}
          /\ \A u \in Tasks \ {t} : pc'[u] = pc[u] /\ buf'[u] = buf[u] /\ todo'[u] = todo[u]
      BY <1>1, <1>2 DEF Return, Goto
    <2>2. \A u \in Tasks : buf[u] = buf[t] => u = t
      BY <1>4, Constants DEF CommInv, Owners
    <2>3. ASSUME NEW b \in Bufs, b # buf[t]
          PROVE  Coming(b)' = Coming(b)
      BY <1>2, <2>1, <2>3 DEF Coming
    <2>4. ASSUME NEW b \in Bufs, b = buf[t]
          PROVE  Coming(b)' = Coming(b) \ {q}
      BY <1>1, <1>2, <1>4, <2>1, <2>2, <2>4 DEF Coming
    <2>5. \A b \in Bufs : Coming(b)' = IF b = buf[t] THEN Coming(b) \ {q} ELSE Coming(b)
      BY <2>3, <2>4
    <2> QED
      BY <1>4, <2>5 DEF ComingOf
  <1>8. QueueAll' = [QueueAll EXCEPT ![q] = Append(@, buf[t])]
    <2>1. Queued(q)' = Append(Queued(q), buf[t]) /\ \A p \in Ports \ {q} : Queued(p)' = Queued(p)
      BY <1>2, <1>3, QueuePublish
    <2>2. \A p \in Ports : Queued(p)' = IF p = q THEN Append(Queued(p), buf[t]) ELSE Queued(p)
      BY <2>1
    <2> QED
      BY <1>4, <2>2 DEF QueueAll
  <1>9. q \in ComingOf[buf[t]]
    BY <1>4 DEF ComingOf
  <1> QED
    BY <1>4, <1>5, <1>6, <1>7, <1>8, <1>9, PoolPublish

\* The last transmission of a buffer frees it, an earlier one does not.
LEMMA DmaFinishes ==
  ASSUME CommInv, CommInv', NEW q \in Ports \ CanPorts, DmaIRQ(q)
  PROVE  [Pool!Next]_(Pool!vars)
  <1>1. /\ status \in [Bufs -> 0 .. SENDING + NumPorts] /\ busy \in [Ports -> Slots \cup {None}]
        /\ stack \in [Ports -> [Slots -> Bufs \cup {None}]] /\ tail \in [Ports -> Slots]
    BY DEF CommInv, TypeOK
  <1>2. /\ busy[q] # None /\ UNCHANGED <<head, pc, buf, todo>>
        /\ status' = [status EXCEPT ![stack[q][busy[q]]] = CountDown(@)]
        /\ \A p \in Ports \ {q} : busy'[p] = busy[p] /\ tail'[p] = tail[p] /\ stack'[p] = stack[p]
    BY <1>1 DEF DmaIRQ, locals
  <1>3. /\ busy[q] \in Kept(q) /\ ~At(q)
        /\ \A p \in Ports : KeptAs(p, IF p = q THEN Kept(p) \ {busy[q]} ELSE Kept(p))
    BY KeptDma
  <1>4. PICK b \in Bufs : b = stack[q][busy[q]]
    BY <1>3 DEF CommInv, Contents
  <1>5. /\ q \in Holders(b) /\ status[b] = SENDING + Cardinality(Holders(b))
        /\ Cardinality(Holders(b)) = 1 => Holders(b) = {q} /\ \A t \in Tasks : buf[t] # b
    BY <1>3, <1>4, LastHolder
  <1>6. Holders(b)' = Holders(b) \ {q}
    BY <1>2, <1>3, <1>4, HoldersEnd
  <1>7. PICK c \in Nat : c = Cardinality(Holders(b)) /\ c # 0
    BY <1>5, HolderPorts, PortSets, Constants
  <1>8. /\ c = 1 => status'[b] = FREE
        /\ c # 1 => status'[b] # FREE /\ status[b] # FREE
        /\ \A d \in Bufs \ {b} : status'[d] = status[d]
    <2>1. status'[b] = CountDown(2 + c) /\ status[b] = 2 + c
      BY <1>1, <1>2, <1>4, <1>5, <1>7 DEF SENDING
    <2>2. \A d \in Bufs \ {b} : status'[d] = status[d]
      BY <1>1, <1>2, <1>4
    <2>3. c = 1 => CountDown(2 + c) = FREE
      BY <1>7 DEF CountDown, SENDING, FREE
    <2>4. c # 1 => CountDown(2 + c) # FREE /\ 2 + c # FREE
      BY <1>7 DEF CountDown, SENDING, FREE
    <2> QED
      BY <2>1, <2>2, <2>3, <2>4
  <1>9. QueueAll[q] # <<>> /\ b = Head(QueueAll[q]) /\ QueueAll' = [QueueAll EXCEPT ![q] = Tail(@)]
    <2>1. Queued(q) # <<>> /\ Head(Queued(q)) = b /\ Queued(q)' = Tail(Queued(q))
      BY <1>2, <1>3, <1>4, QueueEnd
    <2>2. ASSUME NEW p \in Ports \ {q}
          PROVE  Queued(p)' = Queued(p)
      BY <1>2, QueueRests
    <2>3. \A p \in Ports : Queued(p)' = IF p = q THEN Tail(Queued(p)) ELSE Queued(p)
      BY <2>1, <2>2
    <2> QED
      BY <2>1, <2>3 DEF QueueAll
  <1>10. HoldsOf' = HoldsOf
    BY <1>2, HoldsStays DEF Holding
  <1>11. ComingOf' = ComingOf
    BY <1>2, ComingStays
  <1>12. CASE c = 1
    <2>1. FreeBufs' = FreeBufs \cup {b}
      BY <1>8, <1>12 DEF FreeBufs
    <2>2. Holders(b)' = {} /\ \A t \in Tasks : buf[t] # b
      BY <1>5, <1>6, <1>7, <1>12
    <2>3. ComingOf'[b] = {}
      <3>1. Coming(b) = {}
        BY <2>2 DEF Coming
      <3> QED
        BY <1>11, <3>1 DEF ComingOf
    <2>4. ASSUME NEW p \in Ports
          PROVE  ~Has(QueueAll'[p], b)
      <3>1. ~Has(Queued(p)', b)
        BY <2>2, QueuedHasNext
      <3> QED
        BY <3>1 DEF QueueAll
    <2>5. DoneNext(b)
      BY <2>3, <2>4 DEF DoneNext
    <2> QED
      BY <1>9, <1>10, <1>11, <2>1, <2>5, PoolFinish
  <1>13. CASE c # 1
    <2>1. FreeBufs' = FreeBufs
      BY <1>8, <1>13 DEF FreeBufs
    <2> QED
      BY <1>9, <1>10, <1>11, <2>1, PoolFinish
  <1> QED
    BY <1>12, <1>13

LEMMA CanSentFinishes ==
  ASSUME CommInv, CommInv', NEW t \in Tasks, NEW q \in CanPorts, CanSent(t, q)
  PROVE  [Pool!Next]_(Pool!vars)
  <1>1. /\ busy \in [Ports -> Slots \cup {None}] /\ pc \in [Tasks -> TaskPoints \cup CanPoints]
        /\ q \in Ports
    BY Constants DEF CommInv, TypeOK
  <1>2. /\ t = CommTask /\ pc[t] = "idle" /\ busy[q] # None
        /\ UNCHANGED <<status, stack, head, tail, buf, todo>>
        /\ busy' = [busy EXCEPT ![q] = None] /\ pc' = [pc EXCEPT ![t] = "finished"]
    BY DEF CanSent, Goto
  <1>3. ~At(q)
    BY <1>2 DEF At, CanPoints
  <1>4. PICK b \in Bufs : b = stack[q][busy[q]]
    <2>1. busy[q] \in Kept(q)
      BY <1>2 DEF Kept, Live
    <2> QED
      BY <1>1, <2>1 DEF CommInv, Contents
  <1>5. QueueAll[q] # <<>> /\ b = Head(QueueAll[q]) /\ QueueAll' = [QueueAll EXCEPT ![q] = Tail(@)]
    <2>1. Queued(q) # <<>> /\ Head(Queued(q)) = b /\ Queued(q)' = Tail(Queued(q))
      BY <1>1, <1>2, <1>3, <1>4, QueueEnd
    <2>2. ASSUME NEW p \in Ports \ {q}
          PROVE  Queued(p)' = Queued(p)
      BY <1>1, <1>2, QueueRests
    <2>3. \A p \in Ports : Queued(p)' = IF p = q THEN Tail(Queued(p)) ELSE Queued(p)
      BY <2>1, <2>2
    <2> QED
      BY <1>1, <2>1, <2>3 DEF QueueAll
  <1>6. HoldsOf' = HoldsOf
    BY <1>1, <1>2, HoldsStays DEF Holding
  <1>7. ComingOf' = ComingOf
    BY <1>1, <1>2, ComingStays
  <1>8. FreeBufs' = FreeBufs
    BY <1>2, FreeStays
  <1> QED
    BY <1>1, <1>5, <1>6, <1>7, <1>8, PoolFinish

LEMMA CanFinishedRests ==
  ASSUME CommInv, CommInv', NEW t \in Tasks, CanFinished(t)
  PROVE  [Pool!Next]_(Pool!vars)
  <1>1. /\ status \in [Bufs -> 0 .. SENDING + NumPorts] /\ pc \in [Tasks -> TaskPoints \cup CanPoints]
        /\ stack \in [Ports -> [Slots -> Bufs \cup {None}]] /\ buf \in [Tasks -> Bufs \cup {None}]
    BY DEF CommInv, TypeOK
  <1>2. /\ pc[t] = "finished" /\ UNCHANGED <<head, tail, busy, todo>>
        /\ stack' = [stack EXCEPT ![cur[t]][entry] = None]
    BY DEF CanFinished
  <1>3. PICK b \in Bufs :
          /\ b = stack[cur[t]][entry] /\ cur[t] \in Ports /\ cur[t] \in Holders(b)
          /\ entry \in Kept(cur[t])
          /\ status' = [status EXCEPT ![b] = SENDING + Cardinality(Holders(b)) - 1]
          /\ \/ buf' = [buf EXCEPT ![t] = b] /\ pc' = [pc EXCEPT ![t] = "release"]
             \/ buf' = buf /\ pc' = [pc EXCEPT ![t] = "resched"]
    BY FinishedSteps
  <1>4. status[b] # FREE
    BY <1>3, FreeIsNobodys
  <1>5. status'[b] # FREE
    <2>1. PICK c \in Nat : c = Cardinality(Holders(b)) /\ c # 0
      BY <1>3, HolderPorts, PortSets, Constants
    <2>2. status'[b] = SENDING + c - 1
      BY <1>1, <1>3, <2>1
    <2> QED
      BY <2>1, <2>2 DEF SENDING, FREE
  <1>6. FreeBufs' = FreeBufs
    <2>1. \A d \in Bufs \ {b} : status'[d] = status[d]
      BY <1>1, <1>3
    <2> QED
      BY <1>4, <1>5, <2>1 DEF FreeBufs
  <1>7. HoldsOf' = HoldsOf
    BY <1>1, <1>2, <1>3, HoldsStays DEF Holding
  <1>8. ComingOf' = ComingOf
    BY <1>1, <1>2, <1>3, ComingStays
  <1>9. QueueAll' = QueueAll
    <2>1. ASSUME NEW p \in Ports
          PROVE  Queued(p)' = Queued(p)
      <3>1. p = cur[t] => entry \notin Live(p)
        <4>1. t = CommTask
          BY KeptFinished
        <4> QED
          BY <1>2, <4>1 DEF CommInv, Started
      <3>2. \A s \in Live(p) : stack'[p][s] = stack[p][s]
        <4>1. Live(p) \subseteq Slots
          BY KeptSlots DEF Kept
        <4> QED
          BY <1>1, <1>2, <1>3, <3>1, <4>1
      <3> QED
        BY <1>2, <3>2, QueueRests
    <2> QED
      BY <2>1, QueueStays
  <1> QED
    BY <1>6, <1>7, <1>8, <1>9, PoolRests

LEMMA CanReleaseFrees ==
  ASSUME CommInv, CommInv', NEW t \in Tasks, CanRelease(t)
  PROVE  [Pool!Next]_(Pool!vars)
  <1>1. /\ status \in [Bufs -> 0 .. SENDING + NumPorts] /\ pc \in [Tasks -> TaskPoints \cup CanPoints]
        /\ buf \in [Tasks -> Bufs \cup {None}]
    BY DEF CommInv, TypeOK
  <1>2. /\ pc[t] = "release" /\ UNCHANGED <<stack, head, tail, busy, todo>>
        /\ status' = [status EXCEPT ![buf[t]] = FREE] /\ buf' = [buf EXCEPT ![t] = None]
        /\ pc' = [pc EXCEPT ![t] = "resched"]
    BY DEF CanRelease, Goto, rings
  <1>3. todo[t] = {}
    BY <1>2 DEF CommInv, Locks
  <1>4. PICK b \in Bufs : b = buf[t] /\ Holders(b) = {}
    BY <1>2, <1>3, Alone
  <1>5. b \notin FreeBufs /\ FreeBufs' = FreeBufs \cup {b}
    <2>1. status[b] # FREE
      BY <1>4, FreeIsNobodys
    <2> QED
      BY <1>1, <1>2, <1>4, <2>1 DEF FreeBufs
  <1>6. ComingOf[b] = {}
    <2>1. Coming(b) = {}
      BY <1>4 DEF Coming, Holders
    <2> QED
      BY <2>1 DEF ComingOf
  <1>7. ASSUME NEW p \in Ports
        PROVE  ~Has(QueueAll[p], b)
    <2>1. ~\E s \in Live(p) : stack[p][s] = b
      BY <1>4 DEF Holders, Kept
    <2>2. ~Has(Queued(p), b)
      BY <2>1, QueuedHas DEF Has
    <2> QED
      BY <2>2 DEF QueueAll
  <1>8. \A u \in Tasks : HoldsOf[u] # b
    <2>1. \A u \in Tasks : buf[u] = b => u = t
      BY <1>4, Constants DEF CommInv, Owners
    <2>2. ~Holding(t) /\ b # None
      BY <1>2, Constants DEF Holding
    <2> QED
      BY <2>1, <2>2 DEF HoldsOf
  <1>9. HoldsOf' = HoldsOf
    BY <1>1, <1>2, HoldsStays DEF Holding
  <1>10. ComingOf' = ComingOf
    BY <1>1, <1>2, ComingStays
  <1>11. QueueAll' = QueueAll
    BY <1>2, QueueRests, QueueStays
  <1> QED
    BY <1>5, <1>6, <1>7, <1>8, <1>9, <1>10, <1>11, PoolFree

LEMMA PoolInit ==
  ASSUME Init
  PROVE  Pool!Init
  <1>1. FreeBufs = Bufs
    BY DEF Init, FreeBufs
  <1>2. HoldsOf = [t \in Tasks |-> None]
    BY DEF Init, HoldsOf, Holding
  <1>3. ComingOf = [b \in Bufs |-> {}]
    BY DEF Init, ComingOf, Coming
  <1>4. QueueAll = [p \in Ports |-> <<>>]
    <2>1. ASSUME NEW p \in Ports
          PROVE  Queued(p) = <<>>
      <3>1. PICK st \in Entries : st = [i \in Slots |-> None]
        BY DEF Entries
      <3>2. Queued(p) = QueueOf(st, 0, 0, None)
        BY <3>1, QueuedIs DEF Init
      <3>3. RingOf(st, 0, 0) = <<>>
        BY Constants, RingEmpty
      <3>4. <<>> \o <<>> = <<>>
        OBVIOUS
      <3> QED
        BY <3>2, <3>3, <3>4 DEF QueueOf
    <2> QED
      BY <2>1 DEF QueueAll
  <1> QED
    BY <1>1, <1>2, <1>3, <1>4 DEF Pool!Init, FreeBufs, HoldsOf, ComingOf, QueueAll

LEMMA PoolStep ==
  ASSUME CommInv, CommInv', [Next]_vars
  PROVE  [Pool!Next]_(Pool!vars)
  <1>1. CASE UNCHANGED vars
    <2>1. UNCHANGED <<status, stack, head, tail, busy, pc, buf, todo>>
      BY <1>1 DEF vars, rings, locals
    <2>2. FreeBufs' = FreeBufs
      BY <2>1, FreeStays
    <2>3. HoldsOf' = HoldsOf
      BY <2>1, HoldsStays DEF Holding
    <2>4. ComingOf' = ComingOf
      BY <2>1, ComingStays
    <2>5. QueueAll' = QueueAll
      BY <2>1, QueueRests, QueueStays
    <2> QED
      BY <2>2, <2>3, <2>4, <2>5, PoolRests
  <1>2. ASSUME NEW t \in Tasks, Get(t)
        PROVE  [Pool!Next]_(Pool!vars)
    BY <1>2, Quiet, AllocateTakes DEF Get
  <1>3. ASSUME NEW t \in Tasks, Send(t)
        PROVE  [Pool!Next]_(Pool!vars)
    BY <1>3, SendBufRests, StackHands, DiscardFrees, PublishPublishes DEF Send
  <1>4. ASSUME NEW t \in Tasks, Can(t)
        PROVE  [Pool!Next]_(Pool!vars)
    BY <1>4, Quiet, CanSentFinishes, CanFinishedRests, CanReleaseFrees DEF Can
  <1>5. CASE CrypIRQ
    BY <1>5, CrypRests
  <1>6. ASSUME NEW p \in Ports \ CanPorts, DmaIRQ(p)
        PROVE  [Pool!Next]_(Pool!vars)
    BY <1>6, DmaFinishes
  <1> QED
    BY <1>1, <1>2, <1>3, <1>4, <1>5, <1>6 DEF Next

\* comm.c implements the pool: whatever the schedule of tasks and interrupts, a buffer
\* has one owner, every port it was handed to sends it once and in order, and it is free
\* again after the last of them.
THEOREM CommImplementsPool == Spec => PoolSpec
  <1>1. Init => Pool!Init
    BY PoolInit
  <1>2. CommInv /\ CommInv' /\ [Next]_vars => [Pool!Next]_(Pool!vars)
    BY PoolStep
  <1> QED
    BY <1>1, <1>2, CommInductive, PTL DEF Spec, PoolSpec, Pool!Spec


===============================================================================
