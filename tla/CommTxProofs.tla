----------------------------- MODULE CommTxProofs -----------------------------
(***************************************************************************)
(* Theorems about CommTx, for any number of tasks, buffers, ports and      *)
(* slots: the reference counts are exact, and no port sleeps.              *)
(***************************************************************************)
EXTENDS CommTx, SequenceTheorems, FiniteSetTheorems, TLAPS

-------------------------------------------------------------------------------
(* The inductive invariant *)

\* The slots from i up to j, round the ring.
Between(i, j) == {s \in Slots : IF i <= j THEN i <= s /\ s < j ELSE i <= s \/ s < j}

\* The slots of a port that hold a buffer to send: in its ring, being sent, and, in the
\* comm task, sent and not counted down yet.
Live(p)      == Between(tail[p], head[p]) \cup ({busy[p]} \ {None})
Finishing(p) == IF pc[CommTask] = "finished" /\ cur[CommTask] = p THEN {entry} ELSE {}
Kept(p)      == Live(p) \cup Finishing(p)

\* Who waits for the mutex or has it does so once, and the ports marked in the first
\* loop of commSendTxBuf() are the owner's.
Locks ==
  /\ \A i, j \in DOMAIN mutex : mutex[i] = mutex[j] => i = j
  /\ \A t \in Tasks :
       /\ pc[t] \in {"get", "send", "publish"} <=> \E i \in DOMAIN mutex : mutex[i] = t
       /\ todo[t] # {} => pc[t] \in {"send", "publish"} /\ Owner(t)

\* The comm task is at a port.
At(p) == pc[CommTask] \in CanPoints /\ cur[CommTask] = p

\* After a step, a port keeps just the slots of a set, as they were.
KeptAs(p, slots) == Kept(p)' = slots /\ \A s \in slots : stack'[p][s] = stack[p][s]

\* A buffer is one task's, which goes on as long as there are ports to look at.
Owners ==
  /\ \A t \in Tasks :
       /\ pc[t] \in {"own", "send", "publish", "release"} <=> buf[t] # None
       /\ pc[t] \in {"get", "own", "send", "publish"} => <<t, stream[t]>> \in Sends
       /\ pc[t] = "publish" => todo[t] # {}
       /\ pc[t] = "send" /\ todo[t] # {} => Matching(t, cur[t]) # {}
       /\ pc[t] \in CanPoints => cur[t] \in CanPorts
  /\ \A t, u \in Tasks : buf[t] = buf[u] /\ buf[t] # None => t = u

\* The slot at a head not moved yet holds the buffer that was put there.
Stacked ==
  \A t \in Tasks : \A p \in todo[t] :
    /\ PortStreams[p] = stream[t]
    /\ pc[t] = "send" => p < cur[t]
    /\ ~Full(p) /\ stack[p][head[p]] = buf[t]

\* The tail is behind the slot being sent, but where the comm task has yet to move it;
\* an interrupt may have started the same slot meanwhile.
Started ==
  /\ \A p \in Ports :
       busy[p] # None =>
         \/ tail[p] = After(busy[p])
         \/ /\ pc[CommTask] = "advance" /\ cur[CommTask] = p
            /\ busy[p] = tail[p] /\ head[p] # tail[p]
  /\ LET p == cur[CommTask] IN
       /\ pc[CommTask] = "start" =>
            \/ busy[p] = None /\ tail[p] = entry /\ head[p] # tail[p]
            \/ busy[p] = entry /\ tail[p] = After(entry)
       /\ pc[CommTask] = "advance" => busy[p] = entry /\ tail[p] \in {entry, After(entry)}
       /\ pc[CommTask] = "finished" => entry \notin Live(p)

\* A port has a buffer once, and not one that a task still has.
Contents ==
  \A p \in Ports :
    /\ \A s \in Kept(p) : stack[p][s] \in Bufs
    /\ \A r, s \in Kept(p) : stack[p][r] = stack[p][s] => r = s
    /\ \A t \in Tasks :
         pc[t] \in {"own", "send", "release"} \/ p \in todo[t] =>
           \A s \in Kept(p) : stack[p][s] # buf[t]

\* The ports a buffer is counted for, by slots.
Holders(b) ==
  {p \in Ports : \/ \E s \in Kept(p) : stack[p][s] = b
                 \/ \E t \in Tasks : buf[t] = b /\ p \in todo[t]}

CountOf(b) ==
  /\ (\E t \in Tasks : pc[t] = "own" /\ buf[t] = b) => status[b] = ALLOCATED
  /\ (\E t \in Tasks : pc[t] \in {"send", "release"} /\ buf[t] = b) \/ Holders(b) # {}
       => status[b] = SENDING + Cardinality(Holders(b))
  /\ (\A t \in Tasks : buf[t] # b) /\ Holders(b) = {} => status[b] = FREE

Counts == \A b \in Bufs : CountOf(b)

CommInv == TypeOK /\ Locks /\ Owners /\ Stacked /\ Started /\ Contents /\ Counts

-------------------------------------------------------------------------------
(* The ring                                                                    *)

LEMMA Constants ==
  /\ NumBufs \in Nat /\ NumPorts \in Nat /\ Depth \in Nat /\ Depth > 1
  /\ None \notin Bufs /\ None \notin Slots /\ CommTask \in Tasks /\ 0 \in Slots
  /\ SizeStarts \subseteq Nat /\ CanPorts \subseteq Ports
  BY CommTxAssumption DEF Bufs, Slots

LEMMA AfterIs ==
  ASSUME NEW i \in Slots
  PROVE  After(i) = (IF i = Depth - 1 THEN 0 ELSE i + 1) /\ After(i) \in Slots /\ After(i) # i
  <1>1. Depth \in Nat /\ Depth > 1 /\ i \in 0 .. Depth - 1
    BY Constants DEF Slots
  <1>2. CASE i = Depth - 1
    <2>1. (i + 1) % Depth = 0
      BY <1>1, <1>2
    <2> QED
      BY <1>1, <1>2, <2>1 DEF After, Slots
  <1>3. CASE i # Depth - 1
    <2>1. i + 1 \in 0 .. Depth - 1
      BY <1>1, <1>3
    <2>2. (i + 1) % Depth = i + 1
      BY <1>1, <2>1
    <2> QED
      BY <1>1, <1>3, <2>2 DEF After, Slots
  <1> QED
    BY <1>2, <1>3

LEMMA AfterInjective ==
  ASSUME NEW i \in Slots, NEW j \in Slots, After(i) = After(j)
  PROVE  i = j
  BY AfterIs, Constants DEF Slots

LEMMA BetweenSlots ==
  ASSUME NEW i \in Slots, NEW j \in Slots
  PROVE  /\ Between(i, j) \subseteq Slots /\ j \notin Between(i, j) /\ Between(i, i) = {}
         /\ \A s \in Slots : After(s) = i => s \notin Between(i, j)
  BY AfterIs, Constants DEF Between, Slots

\* The tail moves: its slot leaves the ring.
LEMMA TailMoves ==
  ASSUME NEW i \in Slots, NEW j \in Slots, i # j
  PROVE  i \in Between(i, j) /\ Between(After(i), j) = Between(i, j) \ {i}
  BY AfterIs, Constants DEF Between, Slots

\* The head moves: its slot comes into the ring.
LEMMA HeadMoves ==
  ASSUME NEW i \in Slots, NEW j \in Slots, After(j) # i
  PROVE  Between(i, After(j)) = Between(i, j) \cup {j}
  BY AfterIs, Constants DEF Between, Slots

-------------------------------------------------------------------------------
(* Types                                                                       *)

LEMMA PortTypes ==
  ASSUME TypeOK, NEW p \in Ports
  PROVE  /\ head[p] \in Slots /\ tail[p] \in Slots /\ busy[p] \in Slots \cup {None}
         /\ \A s \in Slots : stack[p][s] \in Bufs \cup {None}
         /\ p \in Nat /\ Between(tail[p], head[p]) \subseteq Slots
  <1>1. /\ head[p] \in Slots /\ tail[p] \in Slots /\ busy[p] \in Slots \cup {None}
        /\ \A s \in Slots : stack[p][s] \in Bufs \cup {None}
    BY DEF TypeOK
  <1>2. p \in Nat
    BY Constants DEF Ports
  <1> QED
    BY <1>1, <1>2, BetweenSlots

LEMMA TaskTypes ==
  ASSUME TypeOK, NEW t \in Tasks
  PROVE  /\ pc[t] \in TaskPoints \cup CanPoints /\ (pc[t] \in CanPoints => t = CommTask)
         /\ stream[t] \in Streams \cup {None} /\ buf[t] \in Bufs \cup {None}
         /\ cur[t] \in Nat /\ todo[t] \subseteq Ports
  BY DEF TypeOK

\* A task's step is its own.
LEMMA OthersRest ==
  ASSUME TypeOK, NEW t \in Tasks, Get(t) \/ Send(t) \/ Can(t)
  PROVE  \A u \in Tasks \ {t} : /\ pc'[u] = pc[u] /\ stream'[u] = stream[u] /\ buf'[u] = buf[u]
                                /\ cur'[u] = cur[u] /\ todo'[u] = todo[u]
  <1>1. CASE Get(t)
    BY <1>1 DEF TypeOK, Get, GetBuf, SearchOn, Allocate, Starved, Goto, Return
  <1>2. CASE Send(t)
    BY <1>2 DEF TypeOK, Send, SendBuf, Stack, Discard, Publish, Goto, Return
  <1>3. CASE Can(t)
    BY <1>3 DEF TypeOK, Can, CanSent, CanFinished, CanRelease, CanResched, CanStart, CanAdvance,
                Goto, Return
  <1> QED
    BY <1>1, <1>2, <1>3

\* An interrupt is no step of a task.
LEMMA TasksRest ==
  ASSUME CrypIRQ \/ \E p \in Ports : DmaIRQ(p)
  PROVE  UNCHANGED <<pc, stream, buf, cur, todo, mutex, entry, head, locals>>
  BY DEF CrypIRQ, DmaIRQ, locals

LEMMA LocalsTyped ==
  ASSUME CommInv, Next
  PROVE  /\ pc' \in [Tasks -> TaskPoints \cup CanPoints]
         /\ \A t \in Tasks : pc'[t] \in CanPoints => t = CommTask
         /\ stream' \in [Tasks -> Streams \cup {None}]
         /\ buf' \in [Tasks -> Bufs \cup {None}]
         /\ cur' \in [Tasks -> Nat]
         /\ todo' \in [Tasks -> SUBSET Ports]
  <1>1. /\ pc \in [Tasks -> TaskPoints \cup CanPoints]
        /\ \A t \in Tasks : pc[t] \in CanPoints => t = CommTask
        /\ stream \in [Tasks -> Streams \cup {None}]
        /\ buf \in [Tasks -> Bufs \cup {None}]
        /\ cur \in [Tasks -> Nat]
        /\ todo \in [Tasks -> SUBSET Ports]
    BY DEF CommInv, TypeOK
  <1>2. ASSUME NEW t \in Tasks, Return(t)
        PROVE  /\ pc' \in [Tasks -> TaskPoints \cup CanPoints]
               /\ \A u \in Tasks : pc'[u] \in CanPoints => u = CommTask
               /\ stream' \in [Tasks -> Streams \cup {None}]
               /\ buf' \in [Tasks -> Bufs \cup {None}]
               /\ cur' \in [Tasks -> Nat]
               /\ todo' \in [Tasks -> SUBSET Ports]
    BY <1>1, <1>2 DEF Return, Goto, TaskPoints, CanPoints
  <1>3. ASSUME NEW t \in Tasks, NEW to \in TaskPoints \cup CanPoints, Goto(t, to),
               to \in CanPoints => t = CommTask
        PROVE  /\ pc' \in [Tasks -> TaskPoints \cup CanPoints]
               /\ \A u \in Tasks : pc'[u] \in CanPoints => u = CommTask
    BY <1>1, <1>3 DEF Goto
  <1>4. ASSUME NEW t \in Tasks, Get(t)
        PROVE  /\ pc' \in [Tasks -> TaskPoints \cup CanPoints]
               /\ \A u \in Tasks : pc'[u] \in CanPoints => u = CommTask
               /\ stream' \in [Tasks -> Streams \cup {None}]
               /\ buf' \in [Tasks -> Bufs \cup {None}]
               /\ cur' \in [Tasks -> Nat]
               /\ todo' \in [Tasks -> SUBSET Ports]
    <2>1. CASE GetBuf(t)
      <3>1. Goto(t, "get")
        BY <2>1 DEF GetBuf
      <3> QED
        BY <1>1, <1>3, <2>1, <3>1, Constants DEF GetBuf, TaskPoints, CanPoints
    <2>2. CASE SearchOn(t)
      BY <1>1, <2>2 DEF SearchOn
    <2>3. CASE Allocate(t)
      <3>1. Goto(t, "own") /\ cur[t] \in Bufs
        BY <1>1, <2>3, Constants DEF Allocate, Bufs
      <3> QED
        BY <1>1, <1>3, <2>3, <3>1 DEF Allocate, TaskPoints, CanPoints
    <2>4. CASE Starved(t)
      BY <1>2, <2>4 DEF Starved
    <2> QED
      BY <1>4, <2>1, <2>2, <2>3, <2>4 DEF Get
  <1>5. ASSUME NEW t \in Tasks, Send(t)
        PROVE  /\ pc' \in [Tasks -> TaskPoints \cup CanPoints]
               /\ \A u \in Tasks : pc'[u] \in CanPoints => u = CommTask
               /\ stream' \in [Tasks -> Streams \cup {None}]
               /\ buf' \in [Tasks -> Bufs \cup {None}]
               /\ cur' \in [Tasks -> Nat]
               /\ todo' \in [Tasks -> SUBSET Ports]
    <2>1. CASE SendBuf(t)
      <3>1. Goto(t, "send")
        BY <2>1 DEF SendBuf
      <3> QED
        BY <1>1, <1>3, <2>1, <3>1 DEF SendBuf, TaskPoints, CanPoints
    <2>2. CASE Stack(t)
      <3>1. PICK p \in Ports :
              /\ todo' = todo \/ todo' = [todo EXCEPT ![t] = @ \cup {p}]
              /\ cur' = [cur EXCEPT ![t] = p + 1]
              /\ Goto(t, "publish") \/ UNCHANGED pc
        BY <2>2 DEF Stack, Matching
      <3>2. p + 1 \in Nat
        BY Constants DEF Ports
      <3> QED
        BY <1>1, <1>3, <2>2, <3>1, <3>2 DEF Stack, TaskPoints, CanPoints
    <2>3. CASE Discard(t)
      BY <1>2, <2>3 DEF Discard
    <2>4. CASE Publish(t)
      <3>1. \/ Return(t)
            \/ \E p \in Ports : /\ todo' = [todo EXCEPT ![t] = @ \ {p}]
                                /\ UNCHANGED <<pc, stream, buf, cur>>
        BY <1>1, <2>4 DEF Publish
      <3> QED
        BY <1>1, <1>2, <3>1
    <2> QED
      BY <1>5, <2>1, <2>2, <2>3, <2>4 DEF Send
  <1>6. ASSUME NEW t \in Tasks, Can(t)
        PROVE  /\ pc' \in [Tasks -> TaskPoints \cup CanPoints]
               /\ \A u \in Tasks : pc'[u] \in CanPoints => u = CommTask
               /\ stream' \in [Tasks -> Streams \cup {None}]
               /\ buf' \in [Tasks -> Bufs \cup {None}]
               /\ cur' \in [Tasks -> Nat]
               /\ todo' \in [Tasks -> SUBSET Ports]
    <2>1. CASE \E p \in CanPorts : CanSent(t, p)
      <3>1. PICK p \in CanPorts : CanSent(t, p)
        BY <2>1
      <3>2. p \in Nat /\ Goto(t, "finished") /\ t = CommTask
        BY <3>1, Constants DEF CanSent, Ports
      <3> QED
        BY <1>1, <1>3, <3>1, <3>2 DEF CanSent, TaskPoints, CanPoints
    <2>2. CASE CanFinished(t)
      <3>1. t = CommTask /\ cur[t] \in Ports /\ entry \in Slots
        BY <1>1, <2>2, Constants DEF CanFinished, CanPoints, CommInv, Owners, TypeOK
      <3>2. stack[cur[t]][entry] \in Bufs
        BY <2>2, <3>1 DEF CanFinished, CommInv, Contents, Kept, Finishing
      <3>3. Goto(t, "release") \/ Goto(t, "resched")
        BY <2>2 DEF CanFinished
      <3> QED
        BY <1>1, <1>3, <2>2, <3>1, <3>2, <3>3 DEF CanFinished, TaskPoints, CanPoints
    <2>3. CASE CanRelease(t)
      <3>1. Goto(t, "resched") /\ t = CommTask
        BY <1>1, <2>3 DEF CanRelease, CanPoints
      <3> QED
        BY <1>1, <1>3, <2>3, <3>1 DEF CanRelease, TaskPoints, CanPoints
    <2>4. CASE CanResched(t)
      <3>1. t = CommTask
        BY <1>1, <2>4 DEF CanResched, CanPoints
      <3> QED
        BY <1>1, <1>2, <1>3, <2>4, <3>1 DEF CanResched, TaskPoints, CanPoints
    <2>5. CASE CanStart(t)
      <3>1. Goto(t, "advance") /\ t = CommTask
        BY <1>1, <2>5 DEF CanStart, CanPoints
      <3> QED
        BY <1>1, <1>3, <2>5, <3>1 DEF CanStart, TaskPoints, CanPoints
    <2>6. CASE CanAdvance(t)
      BY <1>2, <2>6 DEF CanAdvance
    <2> QED
      BY <1>6, <2>1, <2>2, <2>3, <2>4, <2>5, <2>6 DEF Can
  <1>7. CASE CrypIRQ \/ \E p \in Ports \ CanPorts : DmaIRQ(p)
    BY <1>1, <1>7, TasksRest
  <1> QED
    BY <1>4, <1>5, <1>6, <1>7 DEF Next

-------------------------------------------------------------------------------
(* The slots that are kept                                                     *)

LEMMA KeptSlots ==
  ASSUME CommInv, NEW p \in Ports
  PROVE  Kept(p) \subseteq Slots
  <1>1. Between(tail[p], head[p]) \subseteq Slots /\ busy[p] \in Slots \cup {None}
    BY PortTypes DEF CommInv
  <1>2. entry \in Slots
    BY DEF CommInv, TypeOK
  <1> QED
    BY <1>1, <1>2 DEF Kept, Live, Finishing

\* A port behind the CAN bus has nothing put into its ring while the comm task is at it.
LEMMA OnlyComm ==
  ASSUME CommInv, NEW t \in Tasks, NEW p \in Ports,
         pc[t] \in {"get", "own", "send", "publish"}, PortStreams[p] = stream[t]
  PROVE  ~At(p)
  <1> SUFFICES ASSUME At(p)
               PROVE  FALSE
    OBVIOUS
  <1>1. p \in CanPorts
    BY Constants DEF CommInv, Owners, At
  <1>2. <<t, PortStreams[p]>> \in Sends
    BY DEF CommInv, Owners
  <1>3. t = CommTask
    BY <1>1, <1>2, CommTxAssumption
  <1> QED
    BY <1>3 DEF At, CanPoints

\* Elsewhere the tail is right behind the slot being sent, and the head, as long as there
\* is room, at a slot that is not kept.
LEMMA HeadFree ==
  ASSUME CommInv, NEW p \in Ports, ~At(p)
  PROVE  /\ Finishing(p) = {}
         /\ busy[p] # None => tail[p] = After(busy[p]) /\ busy[p] \notin Between(tail[p], head[p])
         /\ ~Full(p) => head[p] \notin Kept(p)
  <1>1. head[p] \in Slots /\ tail[p] \in Slots /\ busy[p] \in Slots \cup {None} /\ None \notin Slots
    BY PortTypes, Constants DEF CommInv
  <1>2. Finishing(p) = {}
    BY DEF At, Finishing, CanPoints
  <1>3. busy[p] # None => tail[p] = After(busy[p])
    BY DEF CommInv, Started, At, CanPoints
  <1>4. head[p] \notin Between(tail[p], head[p])
    BY <1>1, BetweenSlots
  <1>5. busy[p] # None => busy[p] \notin Between(tail[p], head[p])
    BY <1>1, <1>3, BetweenSlots
  <1>6. ~Full(p) => head[p] \notin Kept(p)
    BY <1>1, <1>2, <1>3, <1>4 DEF Kept, Live, Full
  <1> QED
    BY <1>2, <1>3, <1>5, <1>6

\* The slot at the head of a marked port.
LEMMA Marked ==
  ASSUME CommInv, NEW t \in Tasks, NEW p \in todo[t]
  PROVE  /\ p \in Ports /\ ~At(p) /\ ~Full(p) /\ head[p] \notin Kept(p)
         /\ stack[p][head[p]] = buf[t] /\ buf[t] \in Bufs
         /\ pc[t] \in {"send", "publish"} /\ Owner(t)
         /\ \A u \in Tasks : todo[u] # {} => u = t
  <1>1. p \in Ports
    BY DEF CommInv, TypeOK
  <1>2. pc[t] \in {"send", "publish"} /\ Owner(t)
    BY DEF CommInv, Locks
  <1>3. PortStreams[p] = stream[t] /\ ~Full(p) /\ stack[p][head[p]] = buf[t]
    BY DEF CommInv, Stacked
  <1>4. ~At(p)
    BY <1>1, <1>2, <1>3, OnlyComm
  <1>5. buf[t] \in Bufs
    BY <1>2 DEF CommInv, TypeOK, Owners
  <1>6. \A u \in Tasks : todo[u] # {} => u = t
    BY <1>2 DEF CommInv, Locks, Owner
  <1> QED
    BY <1>1, <1>2, <1>3, <1>4, <1>5, <1>6, HeadFree

\* A call of commGetTxBuf() leaves the ports alone, and so do the parts of
\* commSendTxBuf() but the last: what it puts at a head is not kept yet.
LEMMA PortsRest ==
  ASSUME CommInv, NEW t \in Tasks, NEW p \in Ports,
         Get(t) \/ SendBuf(t) \/ Stack(t) \/ Discard(t) \/ CanRelease(t)
  PROVE  KeptAs(p, Kept(p))
  <1>1. UNCHANGED <<head, tail, busy, entry>>
    BY DEF Get, GetBuf, SearchOn, Allocate, Starved, SendBuf, Stack, Discard, CanRelease, rings
  <1>2. Live(p)' = Live(p)
    BY <1>1 DEF Live
  <1>3. pc[t] # "finished" /\ pc'[t] # "finished"
    BY DEF CommInv, TypeOK, Get, GetBuf, SearchOn, Allocate, Starved, SendBuf, Stack, Discard,
           CanRelease, Goto, Return
  <1>4. \A u \in Tasks \ {t} : pc'[u] = pc[u] /\ cur'[u] = cur[u]
    BY OthersRest DEF CommInv, Send, Can
  <1>5. Finishing(p)' = Finishing(p)
    BY <1>1, <1>3, <1>4, Constants DEF Finishing
  <1>6. Kept(p)' = Kept(p)
    BY <1>2, <1>5 DEF Kept
  <1>7. CASE Stack(t)
    <2>1. PICK q \in Ports : /\ PortStreams[q] = stream[t]
                             /\ \/ UNCHANGED stack
                                \/ ~Full(q) /\ stack' = [stack EXCEPT ![q][head[q]] = buf[t]]
      BY <1>7 DEF Stack, Matching
    <2>2. ~At(q)
      BY <1>7, <2>1, OnlyComm DEF Stack
    <2>3. ~Full(q) => head[q] \notin Kept(q)
      BY <2>2, HeadFree
    <2>4. stack \in [Ports -> [Slots -> Bufs \cup {None}]]
      BY DEF CommInv, TypeOK
    <2>5. \A s \in Slots \ {head[q]} : stack'[q][s] = stack[q][s]
      BY <2>1, <2>4
    <2>6. p # q => stack'[p] = stack[p]
      BY <2>1, <2>4
    <2>7. \A s \in Kept(p) : stack'[p][s] = stack[p][s]
      BY <2>1, <2>3, <2>5, <2>6, KeptSlots
    <2> QED
      BY <1>6, <2>7 DEF KeptAs
  <1>8. CASE ~Stack(t)
    <2>1. UNCHANGED stack
      BY <1>8 DEF Get, GetBuf, SearchOn, Allocate, Starved, SendBuf, Discard, CanRelease, rings
    <2> QED
      BY <1>6, <2>1 DEF KeptAs
  <1> QED
    BY <1>7, <1>8

\* The second loop adds the slot at the head.
LEMMA KeptPublish ==
  ASSUME CommInv, NEW t \in Tasks, NEW q \in todo[t], pc[t] = "publish",
         head' = [head EXCEPT ![q] = After(@)], UNCHANGED <<stack, tail, busy, entry>>,
         NEW p \in Ports, pc'[t] \in {"publish", "idle"},
         \A u \in Tasks \ {t} : pc'[u] = pc[u] /\ cur'[u] = cur[u]
  PROVE  KeptAs(p, IF p = q THEN Kept(p) \cup {head[p]} ELSE Kept(p))
  <1>1. q \in Ports /\ ~Full(q)
    BY Marked
  <1>2. head[p] \in Slots /\ tail[p] \in Slots
    BY PortTypes DEF CommInv
  <1>3. head'[p] = IF p = q THEN After(head[p]) ELSE head[p]
    BY DEF CommInv, TypeOK
  <1>4. Between(tail[p], head'[p]) =
          IF p = q THEN Between(tail[p], head[p]) \cup {head[p]} ELSE Between(tail[p], head[p])
    <2>1. CASE p = q
      <3>1. After(head[p]) # tail[p]
        BY <1>1, <2>1 DEF Full
      <3> QED
        BY <1>2, <1>3, <2>1, <3>1, HeadMoves
    <2>2. CASE p # q
      BY <1>3, <2>2
    <2> QED
      BY <2>1, <2>2
  <1>5. Live(p)' = Between(tail[p], head'[p]) \cup ({busy[p]} \ {None})
    BY DEF Live
  <1>6. Finishing(p)' = Finishing(p)
    BY Constants DEF Finishing
  <1> QED
    BY <1>4, <1>5, <1>6 DEF KeptAs, Kept, Live

\* A transmission that is started, or reported to the comm task, stays kept.
LEMMA LiveCryp ==
  ASSUME CommInv, CrypIRQ, NEW p \in Ports
  PROVE  Live(p)' = Live(p)
  <1>1. head[p] \in Slots /\ tail[p] \in Slots /\ None \notin Slots
    BY PortTypes, Constants DEF CommInv
  <1>2. UNCHANGED <<pc, cur, entry, head, stack>>
    BY DEF CrypIRQ, locals
  <1>3. CASE Ready(p)
    <2>1. busy'[p] = tail[p] /\ tail'[p] = After(tail[p])
      BY <1>3 DEF CrypIRQ
    <2>2. tail[p] \in Between(tail[p], head[p]) /\ head[p] # tail[p] /\ busy[p] = None
          /\ Between(After(tail[p]), head[p]) = Between(tail[p], head[p]) \ {tail[p]}
      BY <1>1, <1>3, TailMoves DEF Ready
    <2> QED
      BY <1>1, <1>2, <2>1, <2>2 DEF Live
  <1>4. CASE ~Ready(p)
    BY <1>2, <1>4 DEF Live, CrypIRQ
  <1> QED
    BY <1>3, <1>4

LEMMA KeptCryp ==
  ASSUME CommInv, CrypIRQ, NEW p \in Ports
  PROVE  KeptAs(p, Kept(p))
  <1>1. UNCHANGED <<pc, cur, entry, stack>>
    BY DEF CrypIRQ, locals
  <1>2. Finishing(p)' = Finishing(p)
    BY <1>1 DEF Finishing
  <1> QED
    BY <1>1, <1>2, LiveCryp DEF KeptAs, Kept

LEMMA KeptCan ==
  ASSUME CommInv, NEW t \in Tasks, NEW p \in Ports,
         (\E q \in CanPorts : CanSent(t, q)) \/ CanResched(t) \/ CanStart(t) \/ CanAdvance(t)
  PROVE  KeptAs(p, Kept(p))
  <1>1. head[p] \in Slots /\ tail[p] \in Slots /\ None \notin Slots /\ entry \in Slots
    BY PortTypes, Constants DEF CommInv, TypeOK
  <1>2. t = CommTask /\ pc[t] # "finished" /\ Finishing(p) = {}
    BY DEF CommInv, TypeOK, CanSent, CanResched, CanStart, CanAdvance, CanPoints, Finishing
  <1>3. UNCHANGED <<head, stack>>
    BY DEF CanSent, CanResched, CanStart, CanAdvance, rings
  <1>4. CASE \E q \in CanPorts : CanSent(t, q)
    <2>1. PICK q \in CanPorts : CanSent(t, q)
      BY <1>4
    <2>2. pc'[t] = "finished" /\ cur'[t] = q /\ entry' = busy[q] /\ busy[q] # None
          /\ UNCHANGED tail /\ busy'[p] = IF p = q THEN None ELSE busy[p]
      BY <2>1 DEF CanSent, Goto, CommInv, TypeOK
    <2>3. Finishing(p)' = IF p = q THEN {busy[p]} ELSE {}
      BY <1>2, <2>2 DEF Finishing
    <2>4. Live(p)' = Between(tail[p], head[p]) \cup (IF p = q THEN {} ELSE {busy[p]} \ {None})
      BY <1>3, <2>2 DEF Live
    <2> QED
      BY <1>2, <1>3, <2>2, <2>3, <2>4 DEF KeptAs, Kept, Live
  <1>5. CASE CanResched(t)
    <2>1. Live(p)' = Live(p)
      BY <1>5 DEF CanResched, rings, Live
    <2>2. pc'[t] # "finished"
      BY <1>5 DEF CanResched, Goto, Return, CommInv, TypeOK
    <2> QED
      BY <1>2, <1>3, <2>1, <2>2 DEF KeptAs, Kept, Finishing
  <1>6. CASE CanStart(t)
    <2>1. /\ pc'[t] = "advance" /\ UNCHANGED <<tail, head>> /\ pc[t] = "start"
          /\ busy'[p] = IF p = cur[t] THEN entry ELSE busy[p]
      BY <1>6 DEF CanStart, Goto, CommInv, TypeOK
    <2>2. p = cur[t] => \/ busy[p] = None /\ tail[p] = entry /\ head[p] # tail[p]
                        \/ busy[p] = entry
      BY <1>2, <2>1 DEF CommInv, Started
    <2>3. head[p] # tail[p] => tail[p] \in Between(tail[p], head[p])
      BY <1>1, TailMoves
    <2>4. Live(p)' = Live(p)
      BY <1>1, <2>1, <2>2, <2>3 DEF Live
    <2> QED
      BY <1>2, <1>3, <2>1, <2>4 DEF KeptAs, Kept, Finishing
  <1>7. CASE CanAdvance(t)
    <2>1. /\ pc'[t] = "idle" /\ UNCHANGED <<busy, head>> /\ pc[t] = "advance"
          /\ tail'[p] = IF p = cur[t] THEN After(entry) ELSE tail[p]
      BY <1>7 DEF CanAdvance, Goto, Return, CommInv, TypeOK
    <2>2. p = cur[t] => /\ busy[p] = entry
                        /\ tail[p] = After(entry) \/ tail[p] = entry
      BY <1>2, <2>1 DEF CommInv, Started
    <2>3. p = cur[t] /\ tail[p] = entry => head[p] # tail[p]
      BY <1>1, <2>2, AfterIs DEF CommInv, Started
    <2>4. head[p] # tail[p] =>
            /\ tail[p] \in Between(tail[p], head[p])
            /\ Between(After(tail[p]), head[p]) = Between(tail[p], head[p]) \ {tail[p]}
      BY <1>1, TailMoves
    <2>5. Live(p)' = Live(p)
      BY <1>1, <2>1, <2>2, <2>3, <2>4 DEF Live
    <2> QED
      BY <1>2, <1>3, <2>1, <2>5 DEF KeptAs, Kept, Finishing
  <1> QED
    BY <1>4, <1>5, <1>6, <1>7

\* The end of a transmission: the slot is given up.
LEMMA KeptDma ==
  ASSUME CommInv, NEW q \in Ports \ CanPorts, DmaIRQ(q), NEW p \in Ports
  PROVE  /\ busy[q] \in Kept(q) /\ ~At(q)
         /\ KeptAs(p, IF p = q THEN Kept(p) \ {busy[p]} ELSE Kept(p))
  <1>1. head[q] \in Slots /\ tail[q] \in Slots /\ None \notin Slots
    BY PortTypes, Constants DEF CommInv
  <1>2. ~At(q)
    BY Constants DEF CommInv, Owners, At
  <1>3. Finishing(q) = {} /\ busy[q] # None /\ busy[q] \notin Between(tail[q], head[q])
    BY <1>2, HeadFree DEF DmaIRQ
  <1>4. UNCHANGED <<pc, cur, entry, head>>
    BY DEF DmaIRQ, locals
  <1>5. \A r \in Ports : Finishing(r)' = Finishing(r)
    BY <1>4 DEF Finishing
  <1>6. Live(q)' = Between(tail[q], head[q])
    <2>1. CASE head[q] # tail[q]
      <3>1. busy'[q] = tail[q] /\ tail'[q] = After(tail[q])
        BY <2>1 DEF DmaIRQ, CommInv, TypeOK
      <3>2. tail[q] \in Between(tail[q], head[q])
            /\ Between(After(tail[q]), head[q]) = Between(tail[q], head[q]) \ {tail[q]}
        BY <1>1, <2>1, TailMoves
      <3> QED
        BY <1>1, <1>4, <3>1, <3>2 DEF Live
    <2>2. CASE head[q] = tail[q]
      <3>1. busy'[q] = None /\ tail'[q] = tail[q]
        BY <2>2 DEF DmaIRQ, CommInv, TypeOK
      <3> QED
        BY <1>4, <3>1 DEF Live
    <2> QED
      BY <2>1, <2>2
  <1>7. busy[q] \in Kept(q) /\ Kept(q)' = Kept(q) \ {busy[q]}
    BY <1>3, <1>5, <1>6 DEF Kept, Live
  <1>8. p # q => /\ UNCHANGED <<head[p], tail[p], busy[p], stack[p]>>
    BY DEF DmaIRQ, CommInv, TypeOK
  <1>9. p # q => KeptAs(p, Kept(p))
    BY <1>5, <1>8 DEF Kept, Live, KeptAs
  <1>10. \A s \in Kept(q) \ {busy[q]} : stack'[q][s] = stack[q][s]
    BY DEF DmaIRQ, CommInv, TypeOK
  <1> QED
    BY <1>2, <1>7, <1>9, <1>10 DEF KeptAs

LEMMA KeptFinished ==
  ASSUME CommInv, NEW t \in Tasks, CanFinished(t), NEW p \in Ports
  PROVE  /\ t = CommTask /\ cur[t] \in CanPorts /\ entry \in Kept(cur[t]) /\ At(cur[t])
         /\ KeptAs(p, IF p = cur[t] THEN Kept(p) \ {entry} ELSE Kept(p))
  <1>1. t = CommTask /\ cur[t] \in CanPorts /\ At(cur[t]) /\ pc[t] = "finished"
    BY DEF CommInv, TypeOK, Owners, CanFinished, CanPoints, At
  <1>2. Finishing(p) = (IF p = cur[t] THEN {entry} ELSE {}) /\ entry \in Kept(cur[t])
    BY <1>1 DEF Finishing, Kept
  <1>3. pc'[t] # "finished"
    BY DEF CommInv, TypeOK, CanFinished, Goto
  <1>4. Finishing(p)' = {} /\ Live(p)' = Live(p)
    BY <1>1, <1>3 DEF Finishing, Live, CanFinished
  <1>5. p = cur[t] => entry \notin Live(p)
    BY <1>1 DEF CommInv, Started
  <1>6. Kept(p)' = IF p = cur[t] THEN Kept(p) \ {entry} ELSE Kept(p)
    BY <1>2, <1>4, <1>5 DEF Kept
  <1>7. \A s \in (IF p = cur[t] THEN Kept(p) \ {entry} ELSE Kept(p)) : stack'[p][s] = stack[p][s]
    BY DEF CanFinished, CommInv, TypeOK
  <1> QED
    BY <1>1, <1>2, <1>6, <1>7 DEF KeptAs

-------------------------------------------------------------------------------
(* The mutex                                                                   *)

\* The points of a task that waits for the mutex or has it.
InSection == {"get", "send", "publish"}

\* A task asks for the mutex, leaves it, or goes on.
LEMMA LockSteps ==
  ASSUME CommInv, NEW t \in Tasks, Get(t) \/ Send(t) \/ Can(t)
  PROVE  \/ /\ mutex' = Append(mutex, t)
            /\ pc[t] \notin InSection /\ pc'[t] \in InSection /\ todo'[t] = {}
         \/ /\ mutex' = Tail(mutex) /\ Owner(t)
            /\ pc[t] \in InSection /\ pc'[t] \notin InSection /\ todo'[t] = {}
         \/ /\ mutex' = mutex
            /\ pc[t] \in InSection <=> pc'[t] \in InSection
            /\ todo'[t] # {} => pc'[t] \in {"send", "publish"} /\ Owner(t)
  <1>1. /\ pc \in [Tasks -> TaskPoints \cup CanPoints]
        /\ todo \in [Tasks -> SUBSET Ports]
        /\ todo[t] # {} => pc[t] \in {"send", "publish"} /\ Owner(t)
    BY DEF CommInv, TypeOK, Locks
  <1>2. CASE Get(t)
    <2>1. CASE GetBuf(t)
      BY <1>1, <2>1 DEF GetBuf, Enter, Goto, InSection
    <2>2. CASE SearchOn(t)
      BY <1>1, <2>2 DEF SearchOn
    <2>3. CASE Allocate(t)
      BY <1>1, <2>3 DEF Allocate, Leave, Goto, InSection
    <2>4. CASE Starved(t)
      BY <1>1, <2>4 DEF Starved, Leave, Return, Goto, InSection
    <2> QED
      BY <1>2, <2>1, <2>2, <2>3, <2>4 DEF Get
  <1>3. CASE Send(t)
    <2>1. CASE SendBuf(t)
      BY <1>1, <2>1 DEF SendBuf, Enter, Goto, InSection
    <2>2. CASE Stack(t)
      <3>1. mutex' = mutex /\ pc[t] = "send" /\ Owner(t)
        BY <2>2 DEF Stack
      <3>2. pc'[t] \in {"send", "publish"}
        BY <1>1, <2>2 DEF Stack, Goto
      <3> QED
        BY <3>1, <3>2 DEF InSection
    <2>3. CASE Discard(t)
      BY <1>1, <2>3 DEF Discard, Leave, Return, Goto, InSection
    <2>4. CASE Publish(t)
      <3>1. CASE Leave /\ Return(t)
        BY <1>1, <2>4, <3>1 DEF Publish, Leave, Return, Goto, InSection
      <3>2. CASE UNCHANGED <<mutex, pc>>
        BY <1>1, <2>4, <3>2 DEF Publish, InSection
      <3> QED
        BY <2>4, <3>1, <3>2 DEF Publish
    <2> QED
      BY <1>3, <2>1, <2>2, <2>3, <2>4 DEF Send
  <1>4. CASE Can(t)
    <2>1. mutex' = mutex /\ pc[t] \notin InSection
      BY <1>4 DEF Can, CanSent, CanFinished, CanRelease, CanResched, CanStart, CanAdvance, rings,
                  InSection
    <2>2. pc'[t] \notin InSection
      BY <1>1, <1>4 DEF Can, CanSent, CanFinished, CanRelease, CanResched, CanStart, CanAdvance,
                        Goto, Return, InSection
    <2>3. todo'[t] = {}
      BY <1>1, <1>4, <2>1 DEF Can, CanSent, CanFinished, CanRelease, CanResched, CanStart,
                              CanAdvance, Return, InSection
    <2> QED
      BY <2>1, <2>2, <2>3
  <1> QED
    BY <1>2, <1>3, <1>4

LEMMA LocksHold ==
  ASSUME CommInv, Next
  PROVE  Locks' /\ mutex' \in Seq(Tasks)
  <1>1. /\ mutex \in Seq(Tasks)
        /\ \A i, j \in DOMAIN mutex : mutex[i] = mutex[j] => i = j
        /\ \A t \in Tasks :
             /\ pc[t] \in InSection <=> \E i \in DOMAIN mutex : mutex[i] = t
             /\ todo[t] # {} => pc[t] \in {"send", "publish"} /\ Owner(t)
    BY DEF CommInv, TypeOK, Locks, InSection
  <1>2. ASSUME NEW t \in Tasks, Get(t) \/ Send(t) \/ Can(t)
        PROVE  Locks' /\ mutex' \in Seq(Tasks)
    <2>1. \A u \in Tasks \ {t} : pc'[u] = pc[u] /\ todo'[u] = todo[u]
      BY <1>2, OthersRest DEF CommInv
    <2>2. CASE /\ mutex' = Append(mutex, t)
               /\ pc[t] \notin InSection /\ pc'[t] \in InSection /\ todo'[t] = {}
      <3>1. /\ mutex' \in Seq(Tasks) /\ DOMAIN mutex = 1 .. Len(mutex) /\ Len(mutex) \in Nat
            /\ DOMAIN mutex' = 1 .. Len(mutex) + 1 /\ mutex'[Len(mutex) + 1] = t
            /\ \A i \in 1 .. Len(mutex) : mutex'[i] = mutex[i]
        BY <1>1, <2>2
      <3>2. \A i \in DOMAIN mutex : mutex[i] # t
        BY <1>1, <2>2
      <3>3. \A i, j \in DOMAIN mutex' : mutex'[i] = mutex'[j] => i = j
        BY <1>1, <3>1, <3>2
      <3>4. \A u \in Tasks : pc'[u] \in InSection <=> \E i \in DOMAIN mutex' : mutex'[i] = u
        <4> TAKE u \in Tasks
        <4>1. CASE u = t
          <5>1. Len(mutex) + 1 \in DOMAIN mutex'
            BY <3>1
          <5> QED
            BY <2>2, <3>1, <4>1, <5>1
        <4>2. CASE u # t
          <5>1. (\E i \in DOMAIN mutex : mutex[i] = u) <=> \E i \in DOMAIN mutex' : mutex'[i] = u
            BY <3>1, <4>2
          <5> QED
            BY <1>1, <2>1, <4>2, <5>1
        <4> QED
          BY <4>1, <4>2
      <3>5. \A u \in Tasks : Owner(u) => Owner(u)'
        BY <1>1, <3>1 DEF Owner
      <3>6. \A u \in Tasks : todo'[u] # {} => pc'[u] \in {"send", "publish"} /\ Owner(u)'
        BY <1>1, <2>1, <2>2, <3>5
      <3> QED
        BY <3>1, <3>3, <3>4, <3>6 DEF Locks, InSection
    <2>3. CASE /\ mutex' = Tail(mutex) /\ Owner(t)
               /\ pc[t] \in InSection /\ pc'[t] \notin InSection /\ todo'[t] = {}
      <3>1. /\ mutex # <<>> /\ mutex[1] = t /\ Len(mutex) \in Nat \ {0}
            /\ DOMAIN mutex = 1 .. Len(mutex)
        BY <1>1, <2>3 DEF Owner
      <3>2. /\ mutex' \in Seq(Tasks) /\ DOMAIN mutex' = 1 .. Len(mutex) - 1
            /\ \A i \in 1 .. Len(mutex) - 1 : mutex'[i] = mutex[i + 1]
        BY <1>1, <2>3, <3>1
      <3>3. ASSUME NEW i \in DOMAIN mutex', NEW j \in DOMAIN mutex', mutex'[i] = mutex'[j]
            PROVE  i = j
        <4>1. /\ i \in Nat /\ j \in Nat /\ i + 1 \in DOMAIN mutex /\ j + 1 \in DOMAIN mutex
              /\ mutex[i + 1] = mutex[j + 1]
          BY <3>1, <3>2, <3>3
        <4>2. i + 1 = j + 1
          BY <1>1, <4>1
        <4> QED
          BY <4>1, <4>2
      <3>4. \A u \in Tasks : pc'[u] \in InSection <=> \E i \in DOMAIN mutex' : mutex'[i] = u
        <4> TAKE u \in Tasks
        <4>1. CASE u = t
          <5>1. \A i \in DOMAIN mutex' : mutex'[i] # u
            BY <1>1, <3>1, <3>2, <4>1
          <5> QED
            BY <2>3, <4>1, <5>1
        <4>2. CASE u # t
          <5>1. \A i \in DOMAIN mutex : mutex[i] = u => i - 1 \in DOMAIN mutex' /\ mutex'[i - 1] = u
            BY <1>1, <3>1, <3>2, <4>2
          <5>2. \A i \in DOMAIN mutex' : mutex'[i] = u => i + 1 \in DOMAIN mutex /\ mutex[i + 1] = u
            BY <1>1, <3>1, <3>2
          <5>3. (\E i \in DOMAIN mutex : mutex[i] = u) <=> \E i \in DOMAIN mutex' : mutex'[i] = u
            BY <5>1, <5>2
          <5> QED
            BY <1>1, <2>1, <4>2, <5>3
        <4> QED
          BY <4>1, <4>2
      <3>5. \A u \in Tasks : todo'[u] = {}
        BY <1>1, <2>1, <2>3 DEF Owner
      <3> QED
        BY <3>2, <3>3, <3>4, <3>5 DEF Locks, InSection
    <2>4. CASE /\ mutex' = mutex
               /\ pc[t] \in InSection <=> pc'[t] \in InSection
               /\ todo'[t] # {} => pc'[t] \in {"send", "publish"} /\ Owner(t)
      <3>1. \A u \in Tasks : pc'[u] \in InSection <=> pc[u] \in InSection
        BY <2>1, <2>4
      <3>2. \A u \in Tasks : todo'[u] # {} => pc'[u] \in {"send", "publish"} /\ Owner(u)
        BY <1>1, <2>1, <2>4
      <3> QED
        BY <1>1, <2>4, <3>1, <3>2 DEF Locks, Owner, InSection
    <2> QED
      BY <1>2, <2>2, <2>3, <2>4, LockSteps
  <1>3. CASE CrypIRQ \/ \E p \in Ports \ CanPorts : DmaIRQ(p)
    <2>1. UNCHANGED <<pc, todo, mutex>>
      BY <1>3, TasksRest
    <2> QED
      BY <1>1, <2>1 DEF Locks, Owner, InSection
  <1> QED
    BY <1>2, <1>3 DEF Next

-------------------------------------------------------------------------------
(* The owners                                                                  *)

\* A task's step keeps what its own locals promise, and takes no buffer but a free one.
LEMMA OwnerSteps ==
  ASSUME CommInv, NEW t \in Tasks, Get(t) \/ Send(t) \/ Can(t)
  PROVE  /\ pc'[t] \in {"own", "send", "publish", "release"} <=> buf'[t] # None
         /\ pc'[t] \in {"get", "own", "send", "publish"} => <<t, stream'[t]>> \in Sends
         /\ pc'[t] = "publish" => todo'[t] # {}
         /\ pc'[t] = "send" /\ todo'[t] # {} => Matching(t, cur[t])' # {}
         /\ pc'[t] \in CanPoints => cur'[t] \in CanPorts
  <1>1. /\ pc \in [Tasks -> TaskPoints \cup CanPoints]
        /\ stream \in [Tasks -> Streams \cup {None}]
        /\ buf \in [Tasks -> Bufs \cup {None}]
        /\ cur \in [Tasks -> Nat]
        /\ todo \in [Tasks -> SUBSET Ports]
        /\ None \notin Bufs
    BY Constants DEF CommInv, TypeOK
  <1>2. /\ pc[t] \in {"own", "send", "publish", "release"} <=> buf[t] # None
        /\ pc[t] \in {"get", "own", "send", "publish"} => <<t, stream[t]>> \in Sends
        /\ pc[t] = "publish" => todo[t] # {}
        /\ pc[t] = "send" /\ todo[t] # {} => Matching(t, cur[t]) # {}
        /\ pc[t] \in CanPoints => cur[t] \in CanPorts
    BY DEF CommInv, Owners
  <1>3. todo[t] # {} => pc[t] \in {"send", "publish"}
    BY DEF CommInv, Locks
  <1>4. Return(t) => pc'[t] = "idle" /\ buf'[t] = None
    BY <1>1 DEF Return, Goto
  <1>5. CASE Get(t)
    <2>1. CASE GetBuf(t)
      BY <1>1, <1>2, <2>1 DEF GetBuf, Goto, CanPoints
    <2>2. CASE SearchOn(t)
      BY <1>2, <2>2 DEF SearchOn, CanPoints
    <2>3. CASE Allocate(t)
      <3>1. cur[t] \in Bufs
        BY <1>1, <2>3, Constants DEF Allocate, Bufs
      <3> QED
        BY <1>1, <1>2, <2>3, <3>1 DEF Allocate, Goto, CanPoints
    <2>4. CASE Starved(t)
      BY <1>4, <2>4 DEF Starved, CanPoints
    <2> QED
      BY <1>5, <2>1, <2>2, <2>3, <2>4 DEF Get
  <1>6. CASE Send(t)
    <2>1. CASE SendBuf(t)
      BY <1>1, <1>2, <1>3, <2>1 DEF SendBuf, Goto, CanPoints
    <2>2. CASE Stack(t)
      <3>1. PICK p \in Ports :
              /\ cur' = [cur EXCEPT ![t] = p + 1]
              /\ IF Matching(t, p + 1) = {} /\ todo'[t] # {}
                 THEN Goto(t, "publish")
                 ELSE UNCHANGED pc
              /\ UNCHANGED <<stream, buf>> /\ pc[t] = "send"
        BY <2>2 DEF Stack, Matching
      <3>2. Matching(t, cur[t])' = Matching(t, p + 1)
        BY <1>1, <3>1 DEF Matching
      <3>3. CASE Matching(t, p + 1) = {} /\ todo'[t] # {}
        <4>1. pc'[t] = "publish" /\ buf'[t] = buf[t] /\ stream'[t] = stream[t]
          BY <1>1, <3>1, <3>3 DEF Goto
        <4> QED
          BY <1>2, <3>1, <3>3, <4>1 DEF CanPoints
      <3>4. CASE ~(Matching(t, p + 1) = {} /\ todo'[t] # {})
        <4>1. pc'[t] = "send" /\ buf'[t] = buf[t] /\ stream'[t] = stream[t]
          BY <1>1, <3>1, <3>4
        <4> QED
          BY <1>2, <3>1, <3>2, <3>4, <4>1 DEF CanPoints
      <3> QED
        BY <3>3, <3>4
    <2>3. CASE Discard(t)
      BY <1>4, <2>3 DEF Discard, CanPoints
    <2>4. CASE Publish(t)
      <3>1. CASE Leave /\ Return(t)
        BY <1>4, <3>1 DEF CanPoints
      <3>2. CASE /\ \E p \in todo[t] : todo' = [todo EXCEPT ![t] = @ \ {p}] /\ todo[t] # {p}
                 /\ UNCHANGED <<pc, stream, buf, cur>>
        <4>1. todo'[t] # {}
          BY <1>1, <3>2
        <4> QED
          BY <1>2, <2>4, <3>2, <4>1 DEF Publish, CanPoints
      <3> QED
        BY <2>4, <3>1, <3>2 DEF Publish
    <2> QED
      BY <1>6, <2>1, <2>2, <2>3, <2>4 DEF Send
  <1>7. CASE Can(t)
    <2>1. CASE \E p \in CanPorts : CanSent(t, p)
      BY <1>1, <1>2, <2>1 DEF CanSent, Goto
    <2>2. CASE CanFinished(t)
      <3>1. t = CommTask /\ cur[t] \in CanPorts /\ entry \in Kept(cur[t])
        <4>1. 0 \in Ports
          BY Constants, CommTxAssumption DEF Ports
        <4> QED
          BY <2>2, <4>1, KeptFinished
      <3>2. stack[cur[t]][entry] \in Bufs
        BY <3>1, Constants DEF CommInv, Contents
      <3>3. cur' = cur
        BY <2>2 DEF CanFinished
      <3>4. \/ pc'[t] = "release" /\ buf'[t] \in Bufs
            \/ pc'[t] = "resched" /\ buf'[t] = None
        BY <1>1, <1>2, <2>2, <3>2 DEF CanFinished, Goto
      <3> QED
        BY <1>1, <3>1, <3>3, <3>4
    <2>3. CASE CanRelease(t)
      BY <1>1, <1>2, <2>3 DEF CanRelease, Goto, CanPoints
    <2>4. CASE CanResched(t)
      BY <1>1, <1>2, <1>4, <2>4 DEF CanResched, Goto, CanPoints
    <2>5. CASE CanStart(t)
      BY <1>1, <1>2, <2>5 DEF CanStart, Goto, CanPoints
    <2>6. CASE CanAdvance(t)
      BY <1>4, <2>6 DEF CanAdvance, CanPoints
    <2> QED
      BY <1>7, <2>1, <2>2, <2>3, <2>4, <2>5, <2>6 DEF Can
  <1> QED
    BY <1>5, <1>6, <1>7

LEMMA PortSets ==
  ASSUME NEW S, S \subseteq Ports
  PROVE  /\ IsFiniteSet(S) /\ Cardinality(S) \in 0 .. NumPorts
         /\ Cardinality(S) = 0 <=> S = {}
         /\ \A p \in S : Cardinality(S \ {p}) = Cardinality(S) - 1
         /\ \A p \in Ports \ S : Cardinality(S \cup {p}) = Cardinality(S) + 1
  <1>1. NumPorts \in Nat /\ 0 \in Int /\ NumPorts - 1 \in Int
    BY Constants
  <1>2. IsFiniteSet(Ports) /\ Cardinality(Ports) = NumPorts
    BY <1>1, FS_Interval DEF Ports
  <1>3. IsFiniteSet(S) /\ Cardinality(S) <= NumPorts
    BY <1>2, FS_Subset
  <1>4. Cardinality(S) \in Nat
    BY <1>3, FS_CardinalityType
  <1>5. Cardinality(S) = 0 <=> S = {}
    BY <1>3, FS_EmptySet
  <1>6. \A p \in S : Cardinality(S \ {p}) = Cardinality(S) - 1
    BY <1>3, FS_RemoveElement
  <1>7. \A p \in Ports \ S : Cardinality(S \cup {p}) = Cardinality(S) + 1
    BY <1>3, FS_AddElement
  <1> QED
    BY <1>1, <1>3, <1>4, <1>5, <1>6, <1>7

LEMMA HolderPorts ==
  ASSUME NEW b
  PROVE  Holders(b) \subseteq Ports
  BY DEF Holders

\* A free buffer is nobody's.
LEMMA FreeIsNobodys ==
  ASSUME CommInv, NEW b \in Bufs, status[b] = FREE
  PROVE  Holders(b) = {} /\ \A t \in Tasks : buf[t] # b
  <1>1. Cardinality(Holders(b)) \in Nat
    BY HolderPorts, PortSets, Constants
  <1>2. Holders(b) = {}
    BY <1>1 DEF CommInv, Counts, CountOf, SENDING, FREE
  <1>3. ASSUME NEW t \in Tasks, buf[t] = b
        PROVE  FALSE
    <2>1. pc[t] \in {"own", "send", "publish", "release"}
      BY <1>3, Constants DEF CommInv, Owners
    <2>2. pc[t] # "own"
      BY <1>3 DEF CommInv, Counts, CountOf, FREE, ALLOCATED
    <2>3. pc[t] \notin {"send", "release"}
      BY <1>1, <1>3 DEF CommInv, Counts, CountOf, FREE, SENDING
    <2>4. pc[t] = "publish" => Holders(b) # {}
      BY <1>3 DEF CommInv, Owners, Holders, TypeOK
    <2> QED
      BY <1>2, <2>1, <2>2, <2>3, <2>4
  <1> QED
    BY <1>2, <1>3

\* A buffer that a port has to send is counted, and nobody's when it is the last.
LEMMA LastHolder ==
  ASSUME CommInv, NEW p \in Ports, NEW s \in Kept(p)
  PROVE  LET b == stack[p][s] IN
           /\ b \in Bufs /\ p \in Holders(b)
           /\ status[b] = SENDING + Cardinality(Holders(b))
           /\ p \notin {q \in Ports : \E t \in Tasks : buf[t] = b /\ q \in todo[t]}
           /\ Cardinality(Holders(b)) = 1 =>
                Holders(b) = {p} /\ \A t \in Tasks : buf[t] # b
  <1> DEFINE b == stack[p][s]
  <1>1. b \in Bufs /\ p \in Holders(b)
    BY DEF CommInv, Contents, Holders
  <1>2. status[b] = SENDING + Cardinality(Holders(b))
    BY <1>1 DEF CommInv, Counts, CountOf
  <1>3. p \notin {q \in Ports : \E t \in Tasks : buf[t] = b /\ q \in todo[t]}
    BY DEF CommInv, Contents
  <1>4. ASSUME Cardinality(Holders(b)) = 1
        PROVE  Holders(b) = {p} /\ \A t \in Tasks : buf[t] # b
    <2>1. Cardinality(Holders(b) \ {p}) = 0
      BY <1>1, <1>4, HolderPorts, PortSets
    <2>2. Holders(b) \ {p} = {}
      BY <2>1, HolderPorts, PortSets
    <2>3. Holders(b) = {p}
      BY <1>1, <2>2
    <2>4. ASSUME NEW t \in Tasks, buf[t] = b
          PROVE  FALSE
      <3>1. pc[t] \in {"own", "send", "publish", "release"}
        BY <1>1, <2>4, Constants DEF CommInv, Owners
      <3>2. pc[t] \notin {"own", "send", "release"}
        BY <2>4 DEF CommInv, Contents
      <3>3. pc[t] = "publish"
        BY <3>1, <3>2
      <3>4. PICK q \in todo[t] : TRUE
        BY <3>3 DEF CommInv, Owners
      <3>5. q \in Holders(b)
        BY <2>4, <3>4 DEF Holders, CommInv, TypeOK
      <3> QED
        BY <1>3, <2>3, <2>4, <3>4, <3>5
    <2> QED
      BY <2>3, <2>4
  <1> QED
    BY <1>1, <1>2, <1>3, <1>4

\* What CanFinished does, by the count of the buffer.
LEMMA FinishedSteps ==
  ASSUME CommInv, NEW t \in Tasks, CanFinished(t)
  PROVE  LET b == stack[cur[t]][entry] IN
           /\ cur[t] \in Ports /\ entry \in Kept(cur[t]) /\ b \in Bufs /\ cur[t] \in Holders(b)
           /\ status' = [status EXCEPT ![b] = SENDING + Cardinality(Holders(b)) - 1]
           /\ \/ /\ Cardinality(Holders(b)) = 1 /\ buf' = [buf EXCEPT ![t] = b]
                 /\ pc' = [pc EXCEPT ![t] = "release"]
              \/ /\ Cardinality(Holders(b)) # 1 /\ buf' = buf
                 /\ pc' = [pc EXCEPT ![t] = "resched"]
  <1> DEFINE b == stack[cur[t]][entry]
  <1>1. 0 \in Ports
    BY Constants, CommTxAssumption DEF Ports
  <1>2. cur[t] \in Ports /\ entry \in Kept(cur[t])
    BY <1>1, KeptFinished, Constants
  <1>3. b \in Bufs /\ cur[t] \in Holders(b) /\ status[b] = SENDING + Cardinality(Holders(b))
    BY <1>2, LastHolder
  <1>4. status' = [status EXCEPT ![b] = SENDING + Cardinality(Holders(b)) - 1]
    <2>1. status' = [status EXCEPT ![b] = status[b] - 1]
      BY DEF CanFinished
    <2>2. Cardinality(Holders(b)) \in Nat
      BY HolderPorts, PortSets, Constants
    <2>3. status[b] - 1 = SENDING + Cardinality(Holders(b)) - 1
      BY <1>3, <2>2 DEF SENDING
    <2> QED
      BY <2>1, <2>3
  <1>5. status'[b] = SENDING + Cardinality(Holders(b)) - 1
    BY <1>3, <1>4 DEF CommInv, TypeOK
  <1>6. Cardinality(Holders(b)) \in Nat
    BY HolderPorts, PortSets, Constants
  <1>7. status'[b] = SENDING <=> Cardinality(Holders(b)) = 1
    BY <1>5, <1>6 DEF SENDING
  <1> QED
    BY <1>2, <1>3, <1>4, <1>7 DEF CanFinished, Goto

LEMMA OwnersHold ==
  ASSUME CommInv, Next
  PROVE  Owners'
  <1>1. /\ \A t \in Tasks :
             /\ pc[t] \in {"own", "send", "publish", "release"} <=> buf[t] # None
             /\ pc[t] \in {"get", "own", "send", "publish"} => <<t, stream[t]>> \in Sends
             /\ pc[t] = "publish" => todo[t] # {}
             /\ pc[t] = "send" /\ todo[t] # {} => Matching(t, cur[t]) # {}
             /\ pc[t] \in CanPoints => cur[t] \in CanPorts
        /\ \A t, u \in Tasks : buf[t] = buf[u] /\ buf[t] # None => t = u
        /\ buf \in [Tasks -> Bufs \cup {None}]
    BY DEF CommInv, Owners, TypeOK
  <1>2. ASSUME NEW t \in Tasks, Get(t) \/ Send(t) \/ Can(t)
        PROVE  Owners'
    <2>1. \A u \in Tasks \ {t} : /\ pc'[u] = pc[u] /\ stream'[u] = stream[u] /\ buf'[u] = buf[u]
                                 /\ cur'[u] = cur[u] /\ todo'[u] = todo[u]
      BY <1>2, OthersRest DEF CommInv
    <2>2. \A u \in Tasks \ {t} : Matching(u, cur[u])' = Matching(u, cur[u])
      BY <2>1 DEF Matching
    <2>3. /\ pc'[t] \in {"own", "send", "publish", "release"} <=> buf'[t] # None
          /\ pc'[t] \in {"get", "own", "send", "publish"} => <<t, stream'[t]>> \in Sends
          /\ pc'[t] = "publish" => todo'[t] # {}
          /\ pc'[t] = "send" /\ todo'[t] # {} => Matching(t, cur[t])' # {}
          /\ pc'[t] \in CanPoints => cur'[t] \in CanPorts
      BY <1>2, OwnerSteps
    <2>4. \/ buf'[t] \in {None, buf[t]}
          \/ \A u \in Tasks : buf[u] # buf'[t]
      <3>1. CASE Allocate(t)
        <4>1. cur[t] \in Bufs /\ status[cur[t]] = FREE /\ buf'[t] = cur[t]
          BY <1>1, <3>1, Constants DEF Allocate, Bufs, CommInv, TypeOK
        <4> QED
          BY <4>1, FreeIsNobodys
      <3>2. CASE CanFinished(t)
        <4>1. \/ buf' = buf
              \/ /\ Cardinality(Holders(stack[cur[t]][entry])) = 1
                 /\ buf' = [buf EXCEPT ![t] = stack[cur[t]][entry]]
          BY <3>2, FinishedSteps
        <4>2. cur[t] \in Ports /\ entry \in Kept(cur[t])
          BY <3>2, FinishedSteps
        <4> QED
          BY <1>1, <4>1, <4>2, LastHolder
      <3>3. CASE ~Allocate(t) /\ ~CanFinished(t)
        BY <1>1, <1>2, <3>3 DEF Get, Send, Can, GetBuf, SearchOn, Starved, SendBuf, Stack, Discard,
              Publish, CanSent, CanRelease, CanResched, CanStart, CanAdvance, Return
      <3> QED
        BY <3>1, <3>2, <3>3
    <2>5. \A u, v \in Tasks : buf'[u] = buf'[v] /\ buf'[u] # None => u = v
      BY <1>1, <2>1, <2>4
    <2>6. \A u \in Tasks :
             /\ pc'[u] \in {"own", "send", "publish", "release"} <=> buf'[u] # None
             /\ pc'[u] \in {"get", "own", "send", "publish"} => <<u, stream'[u]>> \in Sends
             /\ pc'[u] = "publish" => todo'[u] # {}
             /\ pc'[u] = "send" /\ todo'[u] # {} => Matching(u, cur[u])' # {}
             /\ pc'[u] \in CanPoints => cur'[u] \in CanPorts
      <3> TAKE u \in Tasks
      <3>1. CASE u = t
        BY <2>3, <3>1
      <3>2. CASE u # t
        BY <1>1, <2>1, <2>2, <3>2
      <3> QED
        BY <3>1, <3>2
    <2> QED
      BY <2>5, <2>6 DEF Owners
  <1>3. CASE CrypIRQ \/ \E p \in Ports \ CanPorts : DmaIRQ(p)
    <2>1. UNCHANGED <<pc, stream, buf, cur, todo>>
      BY <1>3, TasksRest
    <2> QED
      BY <1>1, <2>1 DEF Owners, Matching
  <1> QED
    BY <1>2, <1>3 DEF Next

-------------------------------------------------------------------------------
(* The heads not moved yet, and the slots being sent                           *)

\* A marked port keeps its entry at the head, and its room.
LEMMA MarkedStays ==
  ASSUME CommInv, Next, NEW u \in Tasks, NEW q \in todo[u], q \in todo'[u]
  PROVE  ~Full(q)' /\ stack'[q][head'[q]] = buf[u]
  <1>1. /\ q \in Ports /\ ~At(q) /\ ~Full(q) /\ head[q] \notin Kept(q)
        /\ stack[q][head[q]] = buf[u] /\ pc[u] \in {"send", "publish"} /\ Owner(u)
    BY Marked
  <1>2. head[q] \in Slots /\ tail[q] \in Slots
    BY <1>1, PortTypes DEF CommInv
  <1>3. /\ stack \in [Ports -> [Slots -> Bufs \cup {None}]]
        /\ head \in [Ports -> Slots] /\ tail \in [Ports -> Slots]
        /\ todo \in [Tasks -> SUBSET Ports]
    BY DEF CommInv, TypeOK
  <1>4. ASSUME stack'[q][head[q]] = stack[q][head[q]], head'[q] = head[q],
               tail'[q] = tail[q] \/ (tail'[q] = After(tail[q]) /\ head[q] # tail[q])
        PROVE  ~Full(q)' /\ stack'[q][head'[q]] = buf[u]
    <2>1. Full(q)' <=> After(head[q]) = tail'[q]
      BY <1>4 DEF Full
    <2> QED
      BY <1>1, <1>2, <1>4, <2>1, AfterInjective DEF Full
  <1>5. ASSUME NEW t \in Tasks, Get(t) \/ Send(t) \/ Can(t)
        PROVE  ~Full(q)' /\ stack'[q][head'[q]] = buf[u]
    <2>1. CASE Stack(t)
      <3>1. t = u
        BY <1>1, <2>1 DEF Stack, Owner
      <3>2. pc[u] = "send"
        BY <2>1, <3>1 DEF Stack
      <3>3. q < cur[u]
        BY <3>2 DEF CommInv, Stacked
      <3>4. cur[u] \in Nat /\ q \in Nat
        BY <1>1, PortTypes, TaskTypes DEF CommInv
      <3>5. PICK p \in Ports : /\ p >= cur[u]
                               /\ UNCHANGED stack \/ stack' = [stack EXCEPT ![p][head[p]] = buf[u]]
        BY <2>1, <3>1 DEF Stack, Matching
      <3>6. p # q
        BY <3>3, <3>4, <3>5
      <3>7. stack'[q] = stack[q]
        BY <1>1, <1>3, <3>5, <3>6
      <3> QED
        BY <1>4, <2>1, <3>7 DEF Stack
    <2>2. CASE Publish(t)
      <3>1. t = u
        BY <1>1, <2>2 DEF Publish, Owner
      <3>2. PICK p \in todo[u] :
              /\ head' = [head EXCEPT ![p] = After(@)]
              /\ \/ todo[u] = {p} /\ Return(t)
                 \/ todo' = [todo EXCEPT ![u] = @ \ {p}]
        BY <2>2, <3>1 DEF Publish
      <3>3. p # q
        BY <1>3, <3>1, <3>2 DEF Return
      <3>4. head'[q] = head[q]
        BY <1>1, <1>3, <3>2, <3>3
      <3> QED
        BY <1>4, <2>2, <3>4 DEF Publish
    <2>3. CASE CanFinished(t)
      <3>1. cur[t] # q /\ UNCHANGED <<head, tail>>
        BY <1>1, <2>3, KeptFinished DEF CanFinished
      <3>2. stack'[q] = stack[q]
        BY <1>1, <1>3, <2>3, <3>1 DEF CanFinished
      <3> QED
        BY <1>4, <3>1, <3>2
    <2>4. CASE CanAdvance(t)
      <3>1. cur[t] # q
        BY <1>1, <2>4 DEF CanAdvance, At, CanPoints, CommInv, TypeOK
      <3>2. tail'[q] = tail[q]
        BY <1>1, <1>3, <2>4, <3>1 DEF CanAdvance
      <3> QED
        BY <1>4, <2>4, <3>2 DEF CanAdvance
    <2>5. CASE ~Stack(t) /\ ~Publish(t) /\ ~CanFinished(t) /\ ~CanAdvance(t)
      <3>1. UNCHANGED <<stack, head, tail>>
        BY <1>5, <2>5 DEF Get, Send, Can, GetBuf, SearchOn, Allocate, Starved, SendBuf, Discard,
              CanSent, CanRelease, CanResched, CanStart, rings
      <3> QED
        BY <1>4, <3>1
    <2> QED
      BY <2>1, <2>2, <2>3, <2>4, <2>5
  <1>6. CASE CrypIRQ
    <2>1. UNCHANGED <<head, stack>> /\ tail'[q] = IF Ready(q) THEN After(tail[q]) ELSE tail[q]
      BY <1>1, <1>6 DEF CrypIRQ
    <2>2. tail'[q] = tail[q] \/ (tail'[q] = After(tail[q]) /\ head[q] # tail[q])
      BY <2>1 DEF Ready
    <2> QED
      BY <1>4, <2>1, <2>2
  <1>7. ASSUME NEW p \in Ports \ CanPorts, DmaIRQ(p)
        PROVE  ~Full(q)' /\ stack'[q][head'[q]] = buf[u]
    <2>1. head' = head /\ busy[p] \in Kept(p)
      BY <1>7, KeptDma DEF DmaIRQ
    <2>2. tail'[q] = tail[q] \/ (tail'[q] = After(tail[q]) /\ head[q] # tail[q])
      BY <1>1, <1>3, <1>7 DEF DmaIRQ
    <2>3. stack'[q][head[q]] = stack[q][head[q]]
      BY <1>1, <1>2, <1>3, <1>7, <2>1 DEF DmaIRQ
    <2> QED
      BY <1>4, <2>1, <2>2, <2>3
  <1> QED
    BY <1>5, <1>6, <1>7 DEF Next

LEMMA StackedHolds ==
  ASSUME CommInv, Next
  PROVE  Stacked'
  <1> SUFFICES ASSUME NEW u \in Tasks, NEW q \in todo'[u]
               PROVE  /\ PortStreams[q] = stream'[u]
                      /\ pc'[u] = "send" => q < cur'[u]
                      /\ ~Full(q)' /\ stack'[q][head'[q]] = buf'[u]
    BY DEF Stacked
  <1>1. /\ pc \in [Tasks -> TaskPoints \cup CanPoints]
        /\ stream \in [Tasks -> Streams \cup {None}]
        /\ buf \in [Tasks -> Bufs \cup {None}]
        /\ cur \in [Tasks -> Nat]
        /\ todo \in [Tasks -> SUBSET Ports]
    BY DEF CommInv, TypeOK
  <1>2. \A p \in todo[u] : /\ PortStreams[p] = stream[u]
                           /\ pc[u] = "send" => p < cur[u]
                           /\ pc[u] \in {"send", "publish"}
    BY DEF CommInv, Stacked, Locks
  <1>3. CASE /\ q \in todo[u] /\ stream'[u] = stream[u] /\ buf'[u] = buf[u]
             /\ pc'[u] = "send" => pc[u] = "send" /\ q < cur'[u]
    BY <1>2, <1>3, MarkedStays
  <1>4. CASE UNCHANGED <<pc, stream, buf, cur, todo>>
    BY <1>2, <1>3, <1>4
  <1>5. ASSUME NEW t \in Tasks \ {u}, Get(t) \/ Send(t) \/ Can(t)
        PROVE  /\ PortStreams[q] = stream'[u]
               /\ pc'[u] = "send" => q < cur'[u]
               /\ ~Full(q)' /\ stack'[q][head'[q]] = buf'[u]
    <2>1. /\ pc'[u] = pc[u] /\ stream'[u] = stream[u] /\ buf'[u] = buf[u]
          /\ cur'[u] = cur[u] /\ todo'[u] = todo[u]
      BY <1>5, OthersRest DEF CommInv
    <2> QED
      BY <1>2, <1>3, <2>1
  <1>6. CASE Stack(u)
    <2>1. PICK p \in Matching(u, cur[u]) :
            /\ IF Full(p)
               THEN UNCHANGED <<stack, todo>>
               ELSE /\ stack' = [stack EXCEPT ![p][head[p]] = buf[u]]
                    /\ todo' = [todo EXCEPT ![u] = @ \cup {p}]
            /\ cur' = [cur EXCEPT ![u] = p + 1]
            /\ UNCHANGED <<head, tail, stream, buf>> /\ pc[u] = "send"
      BY <1>6 DEF Stack
    <2>2. p \in Ports /\ p \in Nat /\ p >= cur[u] /\ cur[u] \in Nat /\ PortStreams[p] = stream[u]
      BY <1>1, <2>1, PortTypes DEF Matching, CommInv
    <2>3. cur'[u] = p + 1 /\ stream'[u] = stream[u] /\ buf'[u] = buf[u]
      BY <1>1, <2>1
    <2>4. CASE q \in todo[u]
      <3>1. q \in Ports /\ q < cur[u]
        BY <1>1, <1>2, <2>1, <2>4
      <3>2. q \in Nat
        BY <3>1, PortTypes DEF CommInv
      <3>3. q < cur'[u]
        BY <2>2, <2>3, <3>1, <3>2
      <3> QED
        BY <1>3, <2>1, <2>3, <2>4, <3>3
    <2>5. CASE q \notin todo[u]
      <3>1. ~Full(p) /\ q = p /\ stack' = [stack EXCEPT ![p][head[p]] = buf[u]]
        BY <1>1, <2>1, <2>5
      <3>2. head[p] \in Slots /\ stack \in [Ports -> [Slots -> Bufs \cup {None}]]
        BY <2>2 DEF CommInv, TypeOK
      <3>3. stack'[p][head[p]] = buf[u]
        BY <2>2, <3>1, <3>2
      <3>4. ~Full(q)' /\ head'[q] = head[q]
        BY <2>1, <3>1 DEF Full
      <3>5. q < cur'[u]
        BY <2>2, <2>3, <3>1
      <3> QED
        BY <2>2, <2>3, <3>1, <3>3, <3>4, <3>5
    <2> QED
      BY <2>4, <2>5
  <1>7. CASE Publish(u)
    <2>1. ~Return(u)
      BY <1>1 DEF Return
    <2>2. UNCHANGED <<pc, stream, buf, cur>> /\ todo'[u] \subseteq todo[u]
      BY <1>1, <1>7, <2>1 DEF Publish
    <2> QED
      BY <1>2, <1>3, <2>2
  <1>8. CASE (Get(u) \/ Send(u) \/ Can(u)) /\ ~Stack(u) /\ ~Publish(u)
    <2>1. todo'[u] = todo[u] \/ todo'[u] = {}
      BY <1>1, <1>8 DEF Get, Send, Can, GetBuf, SearchOn, Allocate, Starved, SendBuf, Discard,
            CanSent, CanFinished, CanRelease, CanResched, CanStart, CanAdvance, Return
    <2>2. pc[u] \in {"send", "publish"}
      BY <1>2, <2>1
    <2>3. Discard(u)
      BY <1>8, <2>2 DEF Get, Send, Can, GetBuf, SearchOn, Allocate, Starved, SendBuf,
            CanSent, CanFinished, CanRelease, CanResched, CanStart, CanAdvance
    <2>4. todo'[u] = {}
      BY <1>1, <2>3 DEF Discard, Return
    <2> QED
      BY <2>4
  <1>9. CASE CrypIRQ \/ \E p \in Ports \ CanPorts : DmaIRQ(p)
    BY <1>4, <1>9, TasksRest
  <1> QED
    BY <1>5, <1>6, <1>7, <1>8, <1>9 DEF Next

LEMMA StartedTask ==
  ASSUME CommInv, NEW t \in Tasks, Get(t) \/ Send(t)
  PROVE  Started'
  <1>1. /\ pc \in [Tasks -> TaskPoints \cup CanPoints]
        /\ head \in [Ports -> Slots] /\ CommTask \in Tasks
    BY Constants DEF CommInv, TypeOK
  <1>2. UNCHANGED <<tail, busy, entry>>
    BY DEF Get, GetBuf, SearchOn, Allocate, Starved, Send, SendBuf, Stack, Discard, Publish, rings
  <1>3. \A p \in Ports : At(p) => head'[p] = head[p]
    <2>1. CASE Publish(t)
      <3>1. PICK q \in todo[t] : head' = [head EXCEPT ![q] = After(@)]
        BY <2>1 DEF Publish
      <3>2. ~At(q)
        BY Marked
      <3> QED
        BY <1>1, <3>1, <3>2
    <2>2. CASE ~Publish(t)
      BY <2>2 DEF Get, GetBuf, SearchOn, Allocate, Starved, Send, SendBuf, Stack, Discard, rings
    <2> QED
      BY <2>1, <2>2
  <1>4. pc[t] \notin CanPoints /\ pc'[t] \notin CanPoints
    BY <1>1 DEF Get, GetBuf, SearchOn, Allocate, Starved, Send, SendBuf, Stack, Discard, Publish,
                Goto, Return, CanPoints
  <1>5. pc[CommTask] \in CanPoints \/ pc'[CommTask] \in CanPoints =>
          pc'[CommTask] = pc[CommTask] /\ cur'[CommTask] = cur[CommTask]
    BY <1>1, <1>4, OthersRest DEF CommInv
  <1>6. ASSUME NEW p \in Ports, busy'[p] # None
        PROVE  \/ tail'[p] = After(busy'[p])
               \/ /\ pc'[CommTask] = "advance" /\ cur'[CommTask] = p
                  /\ busy'[p] = tail'[p] /\ head'[p] # tail'[p]
    <2>1. CASE tail[p] = After(busy[p])
      BY <1>2, <2>1
    <2>2. CASE /\ pc[CommTask] = "advance" /\ cur[CommTask] = p
               /\ busy[p] = tail[p] /\ head[p] # tail[p]
      BY <1>2, <1>3, <1>5, <2>2 DEF At, CanPoints
    <2> QED
      BY <1>2, <1>6, <2>1, <2>2 DEF CommInv, Started
  <1>7. ASSUME pc'[CommTask] \in {"start", "advance", "finished"}
        PROVE  LET p == cur[CommTask] IN
                 /\ pc'[CommTask] = pc[CommTask] /\ cur'[CommTask] = p
                 /\ head'[p] = head[p] /\ Live(p)' = Live(p)
    <2>1. pc'[CommTask] = pc[CommTask] /\ cur'[CommTask] = cur[CommTask]
      BY <1>5, <1>7 DEF CanPoints
    <2>2. PICK p \in Ports : p = cur[CommTask]
      BY <1>7, <2>1, Constants DEF CommInv, Owners, CanPoints
    <2>3. head'[p] = head[p]
      BY <1>3, <1>7, <2>1, <2>2 DEF At, CanPoints
    <2>4. Live(p)' = Live(p)
      BY <1>2, <2>3 DEF Live
    <2> QED
      BY <1>2, <2>1, <2>2, <2>3, <2>4 DEF Live
  <1>8. LET p == cur'[CommTask] IN
          /\ pc'[CommTask] = "start" =>
               \/ busy'[p] = None /\ tail'[p] = entry' /\ head'[p] # tail'[p]
               \/ busy'[p] = entry' /\ tail'[p] = After(entry')
          /\ pc'[CommTask] = "advance" => busy'[p] = entry' /\ tail'[p] \in {entry', After(entry')}
          /\ pc'[CommTask] = "finished" => entry' \notin Live(cur[CommTask])'
    <2>1. CASE pc'[CommTask] \in {"start", "advance"}
      BY <1>2, <1>7, <2>1 DEF CommInv, Started
    <2>2. CASE pc'[CommTask] = "finished"
      <3>1. pc[CommTask] = "finished" /\ cur'[CommTask] = cur[CommTask]
        BY <1>7, <2>2
      <3>2. Live(cur[CommTask])' = Live(cur[CommTask])
        <4>1. PICK p : p = cur[CommTask]
          OBVIOUS
        <4>2. Live(p)' = Live(p)
          BY <1>7, <2>2, <4>1, <1>2 DEF Live
        <4>3. Live(cur[CommTask])' = Live(p)'
          BY <3>1, <4>1 DEF Live
        <4> QED
          BY <4>1, <4>2, <4>3
      <3> QED
        BY <1>2, <2>2, <3>1, <3>2 DEF CommInv, Started
    <2> QED
      BY <2>1, <2>2
  <1> QED
    BY <1>6, <1>8 DEF Started

LEMMA StartedIRQ ==
  ASSUME CommInv, CrypIRQ \/ \E q \in Ports \ CanPorts : DmaIRQ(q)
  PROVE  Started'
  <1>1. UNCHANGED <<pc, cur, entry, head>>
    BY TasksRest
  <1>2. entry \in Slots /\ None \notin Slots /\ busy \in [Ports -> Slots \cup {None}]
        /\ tail \in [Ports -> Slots]
    BY Constants DEF CommInv, TypeOK
  <1>3. ASSUME NEW p \in Ports
        PROVE  \/ busy'[p] = busy[p] /\ tail'[p] = tail[p]
               \/ ~At(p) /\ busy'[p] = None
               \/ ~At(p) /\ busy'[p] # None /\ tail'[p] = After(busy'[p])
               \/ Ready(p) /\ busy'[p] = tail[p] /\ tail'[p] = After(tail[p])
    <2>1. CASE CrypIRQ
      BY <2>1 DEF CrypIRQ
    <2>2. CASE \E q \in Ports \ CanPorts : DmaIRQ(q)
      <3>1. PICK q \in Ports \ CanPorts : DmaIRQ(q)
        BY <2>2
      <3>2. ~At(q)
        BY <3>1, KeptDma
      <3> QED
        BY <1>2, <3>1, <3>2 DEF DmaIRQ
    <2> QED
      BY <2>1, <2>2
  <1>4. ASSUME NEW p \in Ports, busy'[p] # None
        PROVE  \/ tail'[p] = After(busy'[p])
               \/ /\ pc'[CommTask] = "advance" /\ cur'[CommTask] = p
                  /\ busy'[p] = tail'[p] /\ head'[p] # tail'[p]
    BY <1>1, <1>3, <1>4 DEF CommInv, Started
  <1>5. ASSUME pc[CommTask] \in CanPoints
        PROVE  LET p == cur[CommTask] IN
                 /\ p \in Ports /\ Live(p)' = Live(p)
                 /\ \/ busy'[p] = busy[p] /\ tail'[p] = tail[p]
                    \/ Ready(p) /\ busy'[p] = tail[p] /\ tail'[p] = After(tail[p])
    <2>1. PICK p \in Ports : p = cur[CommTask]
      BY <1>5, Constants DEF CommInv, Owners
    <2>2. At(p)
      BY <1>5, <2>1 DEF At
    <2>3. \/ busy'[p] = busy[p] /\ tail'[p] = tail[p]
          \/ Ready(p) /\ busy'[p] = tail[p] /\ tail'[p] = After(tail[p])
      BY <1>3, <2>2
    <2>4. Live(p)' = Live(p)
      <3>1. CASE CrypIRQ
        BY <3>1, LiveCryp
      <3>2. CASE ~CrypIRQ
        <4>1. PICK q \in Ports \ CanPorts : DmaIRQ(q)
          BY <3>2
        <4>2. p # q
          BY <2>2, <4>1, KeptDma
        <4>3. busy'[p] = busy[p] /\ tail'[p] = tail[p]
          BY <1>2, <4>1, <4>2 DEF DmaIRQ
        <4> QED
          BY <1>1, <4>3 DEF Live
      <3> QED
        BY <3>1, <3>2
    <2> QED
      BY <1>1, <2>1, <2>3, <2>4 DEF Live
  <1>6. /\ pc'[CommTask] = "start" =>
             LET p == cur'[CommTask] IN
               \/ busy'[p] = None /\ tail'[p] = entry' /\ head'[p] # tail'[p]
               \/ busy'[p] = entry' /\ tail'[p] = After(entry')
        /\ pc'[CommTask] = "advance" =>
             LET p == cur'[CommTask] IN busy'[p] = entry' /\ tail'[p] \in {entry', After(entry')}
    BY <1>1, <1>2, <1>5 DEF CommInv, Started, CanPoints, Ready
  <1>7. pc'[CommTask] = "finished" => entry' \notin Live(cur[CommTask])'
    <2>1. PICK p : p = cur[CommTask]
      OBVIOUS
    <2>2. pc[CommTask] = "finished" => Live(p)' = Live(p) /\ entry \notin Live(p)
      <3> SUFFICES ASSUME pc[CommTask] = "finished"
                   PROVE  Live(p)' = Live(p) /\ entry \notin Live(p)
        OBVIOUS
      <3>1. p \in Ports
        BY <1>5, <2>1 DEF CanPoints
      <3>2. entry \notin Live(p)
        BY <2>1 DEF CommInv, Started
      <3>3. CASE CrypIRQ
        BY <3>1, <3>2, <3>3, LiveCryp
      <3>4. CASE ~CrypIRQ
        <4>1. PICK q \in Ports \ CanPorts : DmaIRQ(q)
          BY <3>4
        <4>2. At(p)
          BY <2>1 DEF At, CanPoints
        <4>3. p # q
          BY <4>1, <4>2, KeptDma
        <4>4. busy'[p] = busy[p] /\ tail'[p] = tail[p]
          BY <1>2, <3>1, <4>1, <4>3 DEF DmaIRQ
        <4> QED
          BY <1>1, <3>2, <4>4 DEF Live
      <3> QED
        BY <3>3, <3>4
    <2>3. Live(cur[CommTask])' = Live(p)'
      BY <1>1, <2>1 DEF Live
    <2> QED
      BY <1>1, <2>2, <2>3
  <1> QED
    BY <1>4, <1>6, <1>7 DEF Started

LEMMA StartedCan ==
  ASSUME CommInv, NEW t \in Tasks, Can(t)
  PROVE  Started'
  <1>1. /\ pc \in [Tasks -> TaskPoints \cup CanPoints] /\ cur \in [Tasks -> Nat]
        /\ busy \in [Ports -> Slots \cup {None}] /\ tail \in [Ports -> Slots]
        /\ head \in [Ports -> Slots] /\ entry \in Slots /\ CanPorts \subseteq Ports
    BY Constants DEF CommInv, TypeOK
  <1>2. t = CommTask /\ head' = head
    BY DEF CommInv, TypeOK, Can, CanSent, CanFinished, CanRelease, CanResched, CanStart,
           CanAdvance, CanPoints, rings
  <1>3. pc[t] # "advance" => \A p \in Ports : busy[p] # None => tail[p] = After(busy[p])
    BY <1>2 DEF CommInv, Started
  <1>4. CASE \E q \in CanPorts : CanSent(t, q)
    <2>1. PICK q \in CanPorts : CanSent(t, q)
      BY <1>4
    <2>2. /\ pc[t] = "idle" /\ pc'[t] = "finished" /\ cur'[t] = q /\ entry' = busy[q]
          /\ busy[q] # None /\ tail' = tail /\ busy' = [busy EXCEPT ![q] = None]
      BY <1>1, <2>1 DEF CanSent, Goto
    <2>3. \A p \in Ports : busy'[p] # None => tail'[p] = After(busy'[p])
      BY <1>1, <1>3, <2>2
    <2>4. tail[q] = After(entry') /\ entry' \in Slots
      BY <1>1, <1>3, <2>2
    <2>5. entry' \notin Between(tail[q], head[q])
      BY <1>1, <2>4, BetweenSlots
    <2>6. Live(cur[t])' = Between(tail[q], head[q])
      BY <1>1, <1>2, <2>2 DEF Live
    <2>7. entry' \notin Live(cur[CommTask])'
      BY <1>2, <2>5, <2>6
    <2>8. pc'[CommTask] = "finished"
      BY <1>2, <2>2
    <2> QED
      BY <2>3, <2>7, <2>8 DEF Started
  <1>5. CASE CanFinished(t) \/ CanRelease(t)
    <2>1. UNCHANGED <<tail, busy>> /\ pc[t] # "advance" /\ pc'[t] \in {"release", "resched"}
      BY <1>1, <1>5 DEF CanFinished, CanRelease, Goto, rings
    <2> QED
      BY <1>2, <1>3, <2>1 DEF Started
  <1>6. CASE CanResched(t)
    <2>1. UNCHANGED <<tail, busy>> /\ pc[t] # "advance"
      BY <1>6 DEF CanResched, rings
    <2>2. \/ pc'[t] = "idle"
          \/ /\ pc'[t] = "start" /\ Ready(cur[t]) /\ entry' = tail[cur[t]] /\ cur' = cur
      BY <1>1, <1>6 DEF CanResched, Goto, Return
    <2> QED
      BY <1>2, <1>3, <2>1, <2>2 DEF Started, Ready
  <1>7. CASE CanStart(t)
    <2>1. /\ pc[t] = "start" /\ pc'[t] = "advance" /\ cur' = cur /\ entry' = entry /\ tail' = tail
          /\ busy' = [busy EXCEPT ![cur[t]] = entry]
      BY <1>1, <1>7 DEF CanStart, Goto
    <2>2. cur[t] \in Ports
      BY <1>1, <2>1 DEF CommInv, Owners, CanPoints
    <2>3. \/ tail[cur[t]] = entry /\ head[cur[t]] # tail[cur[t]]
          \/ tail[cur[t]] = After(entry)
      BY <1>2, <2>1 DEF CommInv, Started
    <2>4. \A p \in Ports : busy'[p] = IF p = cur[t] THEN entry ELSE busy[p]
      BY <1>1, <2>1
    <2>5. \A p \in Ports :
            busy'[p] # None =>
              \/ tail'[p] = After(busy'[p])
              \/ cur'[t] = p /\ busy'[p] = tail'[p] /\ head'[p] # tail'[p]
      BY <1>2, <1>3, <2>1, <2>3, <2>4
    <2>6. busy'[cur'[t]] = entry' /\ tail'[cur'[t]] \in {entry', After(entry')}
      BY <2>1, <2>2, <2>3, <2>4
    <2> QED
      BY <1>2, <2>1, <2>5, <2>6 DEF Started
  <1>8. CASE CanAdvance(t)
    <2>1. /\ pc[t] = "advance" /\ pc'[t] = "idle" /\ busy' = busy
          /\ tail' = [tail EXCEPT ![cur[t]] = After(entry)]
      BY <1>1, <1>8 DEF CanAdvance, Return, Goto
    <2>2. busy[cur[t]] = entry
      BY <1>2, <2>1 DEF CommInv, Started
    <2>3. \A p \in Ports : busy[p] # None => p = cur[t] \/ tail[p] = After(busy[p])
      BY <1>2 DEF CommInv, Started
    <2>4. \A p \in Ports : busy'[p] # None => tail'[p] = After(busy'[p])
      BY <1>1, <2>1, <2>2, <2>3
    <2> QED
      BY <1>2, <2>1, <2>4 DEF Started
  <1> QED
    BY <1>4, <1>5, <1>6, <1>7, <1>8 DEF Can

LEMMA StartedHolds ==
  ASSUME CommInv, Next
  PROVE  Started'
  BY StartedTask, StartedCan, StartedIRQ DEF Next

-------------------------------------------------------------------------------
(* What the slots hold                                                         *)

\* A slot that is kept after a step was kept, or has come with the head.
LEMMA SlotSteps ==
  ASSUME CommInv, Next, NEW p \in Ports, NEW s \in Kept(p)'
  PROVE  /\ stack'[p][s] = stack[p][s]
         /\ \/ s \in Kept(p)
            \/ /\ s = head[p]
               /\ \E t \in Tasks : Publish(t) /\ p \in todo[t] /\ p \notin todo'[t]
  <1>1. CASE KeptAs(p, Kept(p))
    BY <1>1 DEF KeptAs
  <1>2. ASSUME NEW t \in Tasks, Publish(t)
        PROVE  /\ stack'[p][s] = stack[p][s]
               /\ s \in Kept(p) \/ (s = head[p] /\ p \in todo[t] /\ p \notin todo'[t])
    <2>1. PICK q \in todo[t] :
            /\ head' = [head EXCEPT ![q] = After(@)]
            /\ \/ Return(t)
               \/ todo' = [todo EXCEPT ![t] = @ \ {q}] /\ UNCHANGED pc
      BY <1>2 DEF Publish
    <2>2. pc[t] = "publish" /\ UNCHANGED <<stack, tail, busy, entry>>
      BY <1>2 DEF Publish
    <2>3. pc'[t] \in {"publish", "idle"} /\ q \notin todo'[t]
      BY <2>1, <2>2 DEF Return, Goto, CommInv, TypeOK
    <2>4. \A u \in Tasks \ {t} : pc'[u] = pc[u] /\ cur'[u] = cur[u]
      BY <1>2, OthersRest DEF CommInv, Send
    <2>5. KeptAs(p, IF p = q THEN Kept(p) \cup {head[p]} ELSE Kept(p))
      BY <2>1, <2>2, <2>3, <2>4, KeptPublish
    <2> QED
      BY <2>1, <2>3, <2>5 DEF KeptAs
  <1>3. ASSUME NEW t \in Tasks, CanFinished(t)
        PROVE  s \in Kept(p) /\ stack'[p][s] = stack[p][s]
    <2>1. KeptAs(p, IF p = cur[t] THEN Kept(p) \ {entry} ELSE Kept(p))
      BY <1>3, KeptFinished
    <2> QED
      BY <2>1 DEF KeptAs
  <1>4. ASSUME NEW q \in Ports \ CanPorts, DmaIRQ(q)
        PROVE  s \in Kept(p) /\ stack'[p][s] = stack[p][s]
    <2>1. KeptAs(p, IF p = q THEN Kept(p) \ {busy[p]} ELSE Kept(p))
      BY <1>4, KeptDma
    <2> QED
      BY <2>1 DEF KeptAs
  <1>5. CASE CrypIRQ
    BY <1>1, <1>5, KeptCryp
  <1>6. ASSUME NEW t \in Tasks, Get(t) \/ Send(t) \/ Can(t), ~Publish(t), ~CanFinished(t)
        PROVE  KeptAs(p, Kept(p))
    BY <1>6, PortsRest, KeptCan DEF Send, Can
  <1> QED
    BY <1>1, <1>2, <1>3, <1>4, <1>5, <1>6 DEF Next

\* No slot that stays kept holds what the task at work has, or gets.
LEMMA NotItsOwn ==
  ASSUME CommInv, NEW t \in Tasks, Get(t) \/ Send(t) \/ Can(t),
         NEW p \in Ports, NEW s \in Kept(p), s \in Kept(p)',
         pc'[t] \in {"own", "send", "release"} \/ p \in todo'[t]
  PROVE  stack[p][s] # buf'[t]
  <1>1. /\ pc \in [Tasks -> TaskPoints \cup CanPoints]
        /\ buf \in [Tasks -> Bufs \cup {None}]
        /\ todo \in [Tasks -> SUBSET Ports]
        /\ cur \in [Tasks -> Nat]
    BY DEF CommInv, TypeOK
  <1>2. /\ todo[t] # {} => pc[t] \in {"send", "publish"}
        /\ pc[t] \in {"own", "send", "release"} \/ p \in todo[t] => stack[p][s] # buf[t]
    BY DEF CommInv, Locks, Contents
  <1>3. Return(t) => pc'[t] = "idle" /\ todo'[t] = {}
    BY <1>1 DEF Return, Goto
  <1>4. CASE Allocate(t)
    <2>1. cur[t] \in Bufs /\ status[cur[t]] = FREE /\ buf'[t] = cur[t]
      BY <1>1, <1>4, Constants DEF Allocate, Bufs
    <2> QED
      BY <2>1, FreeIsNobodys DEF Holders
  <1>5. CASE CanFinished(t)
    <2>1. /\ cur[t] \in Ports /\ entry \in Kept(cur[t]) /\ todo'[t] = {}
          /\ KeptAs(p, IF p = cur[t] THEN Kept(p) \ {entry} ELSE Kept(p))
      BY <1>2, <1>5, FinishedSteps, KeptFinished DEF CanFinished
    <2>2. PICK b : b = stack[cur[t]][entry]
      OBVIOUS
    <2>3. CASE p = cur[t]
      <3>1. s # entry
        BY <2>1, <2>3 DEF KeptAs
      <3>2. stack[p][s] # b
        BY <2>1, <2>2, <2>3, <3>1 DEF CommInv, Contents
      <3>3. pc'[t] = "release" /\ buf'[t] = b
        BY <1>1, <1>5, <2>1, <2>2, FinishedSteps
      <3> QED
        BY <3>2, <3>3
    <2>4. CASE p # cur[t]
      <3>1. buf'[t] = b /\ Cardinality(Holders(b)) = 1
        BY <1>1, <1>5, <2>1, <2>2, FinishedSteps
      <3>2. p \notin Holders(b)
        BY <2>1, <2>2, <2>4, <3>1, LastHolder
      <3> QED
        BY <3>1, <3>2 DEF Holders
    <2> QED
      BY <2>3, <2>4
  <1>6. CASE Stack(t)
    BY <1>2, <1>6 DEF Stack
  <1>7. CASE Publish(t)
    <2>1. ~Return(t)
      BY <1>3
    <2>2. UNCHANGED <<pc, buf>> /\ todo'[t] \subseteq todo[t]
      BY <1>1, <1>7, <2>1 DEF Publish
    <2> QED
      BY <1>2, <2>2
  <1>8. CASE ~Allocate(t) /\ ~CanFinished(t) /\ ~Stack(t) /\ ~Publish(t)
    <2>1. \/ SendBuf(t) \/ GetBuf(t) \/ SearchOn(t)
          \/ (\E q \in CanPorts : CanSent(t, q)) \/ CanRelease(t) \/ CanResched(t) \/ CanStart(t)
      BY <1>3, <1>8 DEF Get, Send, Can, Starved, Discard, CanAdvance
    <2>2. todo'[t] = todo[t]
      BY <1>3, <2>1 DEF SendBuf, GetBuf, SearchOn, CanSent, CanRelease, CanResched, CanStart
    <2>3. CASE p \in todo[t]
      <3>1. FALSE
        BY <1>2, <2>1, <2>3 DEF SendBuf, GetBuf, SearchOn, CanSent, CanRelease, CanResched, CanStart
      <3> QED
        BY <3>1
    <2>4. CASE p \notin todo[t]
      <3>1. SendBuf(t)
        BY <1>1, <1>3, <2>1, <2>2, <2>4 DEF GetBuf, SearchOn, CanSent, CanRelease, CanResched,
           CanStart, Goto
      <3> QED
        BY <1>2, <3>1 DEF SendBuf
    <2> QED
      BY <2>3, <2>4
  <1> QED
    BY <1>4, <1>5, <1>6, <1>7, <1>8

LEMMA ContentsHold ==
  ASSUME CommInv, Next
  PROVE  Contents'
  <1> SUFFICES ASSUME NEW p \in Ports
               PROVE  /\ \A s \in Kept(p)' : stack'[p][s] \in Bufs
                      /\ \A r, s \in Kept(p)' : stack'[p][r] = stack'[p][s] => r = s
                      /\ \A t \in Tasks :
                           pc'[t] \in {"own", "send", "release"} \/ p \in todo'[t] =>
                             \A s \in Kept(p)' : stack'[p][s] # buf'[t]
    BY DEF Contents
  <1>1. /\ \A s \in Kept(p) : stack[p][s] \in Bufs
        /\ \A r, s \in Kept(p) : stack[p][r] = stack[p][s] => r = s
        /\ \A t \in Tasks :
             pc[t] \in {"own", "send", "release"} \/ p \in todo[t] =>
               \A s \in Kept(p) : stack[p][s] # buf[t]
    BY DEF CommInv, Contents
  <1>2. \A s \in Kept(p)' :
          /\ stack'[p][s] = stack[p][s]
          /\ \/ s \in Kept(p)
             \/ /\ s = head[p]
                /\ \E t \in Tasks : Publish(t) /\ p \in todo[t] /\ p \notin todo'[t]
    BY SlotSteps
  <1>3. \A t \in Tasks : p \in todo[t] => stack[p][head[p]] = buf[t] /\ buf[t] \in Bufs
    BY Marked
  <1>4. ASSUME NEW t \in Tasks, pc'[t] \in {"own", "send", "release"} \/ p \in todo'[t],
               NEW s \in Kept(p)'
        PROVE  stack[p][s] # buf'[t]
    <2>1. CASE s \in Kept(p)
      <3>1. CASE UNCHANGED <<pc, buf, todo>>
        BY <1>1, <1>4, <2>1, <3>1
      <3>2. ASSUME NEW u \in Tasks, Get(u) \/ Send(u) \/ Can(u)
            PROVE  stack[p][s] # buf'[t]
        <4>1. CASE u = t
          BY <1>4, <2>1, <3>2, <4>1, NotItsOwn
        <4>2. CASE u # t
          <5>1. pc'[t] = pc[t] /\ buf'[t] = buf[t] /\ todo'[t] = todo[t]
            BY <3>2, <4>2, OthersRest DEF CommInv
          <5> QED
            BY <1>1, <1>4, <2>1, <5>1
        <4> QED
          BY <4>1, <4>2
      <3>3. CASE CrypIRQ \/ \E q \in Ports \ CanPorts : DmaIRQ(q)
        BY <3>1, <3>3, TasksRest
      <3> QED
        BY <3>2, <3>3 DEF Next
    <2>2. CASE s = head[p] /\ \E u \in Tasks : Publish(u) /\ p \in todo[u] /\ p \notin todo'[u]
      <3>1. PICK u \in Tasks : Publish(u) /\ p \in todo[u] /\ p \notin todo'[u]
        BY <2>2
      <3>2. stack[p][s] = buf[u] /\ buf[u] \in Bufs
        BY <1>3, <2>2, <3>1
      <3>3. CASE t = u
        <4>1. pc'[t] \in {"publish", "idle"}
          BY <3>1, <3>3 DEF Publish, Return, Goto, CommInv, TypeOK
        <4> QED
          BY <1>4, <3>1, <3>3, <4>1
      <3>4. CASE t # u
        <4>1. buf'[t] = buf[t]
          BY <3>1, <3>4, OthersRest DEF CommInv, Send
        <4> QED
          BY <3>2, <3>4, <4>1, Constants DEF CommInv, Owners
      <3> QED
        BY <3>3, <3>4
    <2> QED
      BY <1>2, <2>1, <2>2
  <1>5. \A s \in Kept(p)' : stack'[p][s] \in Bufs
    BY <1>1, <1>2, <1>3
  <1>6. ASSUME NEW r \in Kept(p)', NEW s \in Kept(p)', stack'[p][r] = stack'[p][s]
        PROVE  r = s
    <2>1. \A i \in Kept(p), t \in Tasks : p \in todo[t] => stack[p][i] # stack[p][head[p]]
      BY <1>1, <1>3
    <2> QED
      BY <1>1, <1>2, <1>6, <2>1
  <1> QED
    BY <1>2, <1>4, <1>5, <1>6

-------------------------------------------------------------------------------
(* The counts                                                                  *)

\* A step that keeps all slots and marks no port leaves the holders.
LEMMA HoldersRest ==
  ASSUME \A p \in Ports : KeptAs(p, Kept(p)),
         \A t \in Tasks : todo'[t] = todo[t] /\ (todo[t] # {} => buf'[t] = buf[t]),
         NEW b
  PROVE  Holders(b)' = Holders(b)
  <1>1. \A p \in Ports : (\E s \in Kept(p)' : stack'[p][s] = b) <=> \E s \in Kept(p) : stack[p][s] = b
    BY DEF KeptAs
  <1>2. \A p \in Ports : (\E t \in Tasks : buf'[t] = b /\ p \in todo'[t])
                           <=> \E t \in Tasks : buf[t] = b /\ p \in todo[t]
    OBVIOUS
  <1> QED
    BY <1>1, <1>2 DEF Holders

\* The first loop adds a port.
LEMMA HoldersStack ==
  ASSUME CommInv, NEW t \in Tasks, Stack(t), NEW q \in Ports, q >= cur[t],
         todo' = [todo EXCEPT ![t] = @ \cup {q}], NEW b
  PROVE  /\ b = buf[t] => Holders(b)' = Holders(b) \cup {q} /\ q \notin Holders(b)
         /\ b # buf[t] => Holders(b)' = Holders(b)
  <1>1. \A p \in Ports : KeptAs(p, Kept(p))
    BY PortsRest
  <1>2. buf' = buf /\ pc[t] = "send" /\ todo \in [Tasks -> SUBSET Ports]
    BY DEF Stack, CommInv, TypeOK
  <1>3. \A p \in Ports : (\E s \in Kept(p)' : stack'[p][s] = b) <=> \E s \in Kept(p) : stack[p][s] = b
    BY <1>1 DEF KeptAs
  <1>4. \A p \in Ports : (\E u \in Tasks : buf'[u] = b /\ p \in todo'[u])
                           <=> \/ \E u \in Tasks : buf[u] = b /\ p \in todo[u]
                               \/ p = q /\ b = buf[t]
    BY <1>2
  <1>5. b # buf[t] => Holders(b)' = Holders(b)
    BY <1>3, <1>4 DEF Holders
  <1>6. b = buf[t] => Holders(b)' = Holders(b) \cup {q}
    BY <1>3, <1>4 DEF Holders
  <1>7. b = buf[t] => q \notin Holders(b)
    <2>1. \A s \in Kept(q) : stack[q][s] # buf[t]
      BY <1>2 DEF CommInv, Contents
    <2>2. \A u \in Tasks : todo[u] # {} => u = t
      BY DEF Stack, CommInv, Locks, Owner
    <2>3. q \in Nat /\ cur[t] \in Nat
      BY PortTypes, TaskTypes DEF CommInv
    <2>4. q \notin todo[t]
      BY <1>2, <2>3 DEF CommInv, Stacked
    <2> QED
      BY <2>1, <2>2, <2>4 DEF Holders
  <1> QED
    BY <1>5, <1>6, <1>7

\* The second loop moves a port from the one kind to the other.
LEMMA HoldersPublish ==
  ASSUME CommInv, NEW t \in Tasks, Publish(t), NEW b \in Bufs
  PROVE  Holders(b)' = Holders(b)
  <1>1. PICK q \in todo[t] :
          /\ head' = [head EXCEPT ![q] = After(@)]
          /\ \/ todo[t] = {q} /\ Return(t)
             \/ todo' = [todo EXCEPT ![t] = @ \ {q}] /\ UNCHANGED <<pc, buf>>
    BY DEF Publish
  <1>2. pc[t] = "publish" /\ UNCHANGED <<stack, tail, busy, entry>>
    BY DEF Publish
  <1>3. pc'[t] \in {"publish", "idle"} /\ todo'[t] = todo[t] \ {q}
    BY <1>1, <1>2 DEF Return, Goto, CommInv, TypeOK
  <1>4. todo'[t] # {} => buf'[t] = buf[t]
    BY <1>1 DEF Return, CommInv, TypeOK
  <1>5. \A u \in Tasks \ {t} : pc'[u] = pc[u] /\ cur'[u] = cur[u] /\ buf'[u] = buf[u] /\ todo'[u] = {}
    <2>1. \A u \in Tasks \ {t} : todo[u] = {}
      BY <1>1, Marked
    <2> QED
      BY <2>1, OthersRest DEF CommInv, Send
  <1>6. \A u \in Tasks \ {t} : todo[u] = {}
    BY <1>1, Marked
  <1>7. q \in Ports /\ stack[q][head[q]] = buf[t]
    BY <1>1, Marked
  <1>8. ASSUME NEW p \in Ports
        PROVE  p \in Holders(b)' <=> p \in Holders(b)
    <2>1. KeptAs(p, IF p = q THEN Kept(p) \cup {head[p]} ELSE Kept(p))
      BY <1>1, <1>2, <1>3, <1>5, KeptPublish
    <2>2. p \in Holders(b) <=> \/ \E s \in Kept(p) : stack[p][s] = b
                               \/ buf[t] = b /\ p \in todo[t]
      BY <1>6, <1>8 DEF Holders
    <2>3. p \in Holders(b)' <=> \/ \E s \in Kept(p)' : stack'[p][s] = b
                                \/ buf'[t] = b /\ p \in todo'[t]
      BY <1>5, <1>8 DEF Holders
    <2>4. CASE p = q
      <3>1. (\E s \in Kept(p)' : stack'[p][s] = b) <=> \/ \E s \in Kept(p) : stack[p][s] = b
                                                       \/ buf[t] = b
        BY <1>7, <2>1, <2>4 DEF KeptAs
      <3> QED
        BY <1>1, <1>3, <2>2, <2>3, <2>4, <3>1
    <2>5. CASE p # q
      <3>1. (\E s \in Kept(p)' : stack'[p][s] = b) <=> \E s \in Kept(p) : stack[p][s] = b
        BY <2>1, <2>5 DEF KeptAs
      <3> QED
        BY <1>3, <1>4, <2>2, <2>3, <2>5, <3>1
    <2> QED
      BY <2>4, <2>5
  <1> QED
    BY <1>8, HolderPorts DEF Holders

\* The end of a transmission takes a port away.
LEMMA HoldersEnd ==
  ASSUME CommInv, NEW q \in Ports, NEW e \in Kept(q),
         \A p \in Ports : KeptAs(p, IF p = q THEN Kept(p) \ {e} ELSE Kept(p)),
         \A t \in Tasks : todo'[t] = todo[t] /\ (todo[t] # {} => buf'[t] = buf[t]),
         NEW b
  PROVE  Holders(b)' = IF b = stack[q][e] THEN Holders(b) \ {q} ELSE Holders(b)
  <1>1. \A p \in Ports : (\E t \in Tasks : buf'[t] = b /\ p \in todo'[t])
                           <=> \E t \in Tasks : buf[t] = b /\ p \in todo[t]
    OBVIOUS
  <1>2. \A p \in Ports \ {q} :
          (\E s \in Kept(p)' : stack'[p][s] = b) <=> \E s \in Kept(p) : stack[p][s] = b
    BY DEF KeptAs
  <1>3. (\E s \in Kept(q)' : stack'[q][s] = b) <=> \E s \in Kept(q) \ {e} : stack[q][s] = b
    BY DEF KeptAs
  <1>4. CASE b = stack[q][e]
    <2>1. ~\E s \in Kept(q)' : stack'[q][s] = b
      BY <1>3, <1>4 DEF CommInv, Contents
    <2>2. ~\E t \in Tasks : buf[t] = b /\ q \in todo[t]
      BY <1>4, LastHolder
    <2> QED
      BY <1>1, <1>2, <1>4, <2>1, <2>2 DEF Holders
  <1>5. CASE b # stack[q][e]
    <2>1. (\E s \in Kept(q)' : stack'[q][s] = b) <=> \E s \in Kept(q) : stack[q][s] = b
      BY <1>3, <1>5
    <2> QED
      BY <1>1, <1>2, <1>5, <2>1 DEF Holders
  <1> QED
    BY <1>4, <1>5

\* A step that gives a buffer to no task, and takes it from none but one that leaves it
\* to ports, keeps its count.
LEMMA CountRest ==
  ASSUME CommInv, NEW b \in Bufs, status'[b] = status[b], Holders(b)' = Holders(b),
         \A t \in Tasks : buf'[t] = b /\ pc'[t] = "own" => buf[t] = b /\ pc[t] = "own",
         \A t \in Tasks : buf'[t] = b /\ pc'[t] \in {"send", "release"}
                            => buf[t] = b /\ pc[t] \in {"send", "release"},
         \A t \in Tasks : buf[t] = b => buf'[t] = b \/ Holders(b) # {}
  PROVE  CountOf(b)'
  <1>1. (\E t \in Tasks : pc'[t] = "own" /\ buf'[t] = b) => status'[b] = ALLOCATED
    BY DEF CommInv, Counts, CountOf
  <1>2. PICK n : n = Cardinality(Holders(b))
    OBVIOUS
  <1>3. (\E t \in Tasks : pc'[t] \in {"send", "release"} /\ buf'[t] = b) \/ Holders(b) # {}
          => status'[b] = SENDING + n
    BY <1>2 DEF CommInv, Counts, CountOf
  <1>4. (\A t \in Tasks : buf'[t] # b) /\ Holders(b) = {} => status'[b] = FREE
    BY DEF CommInv, Counts, CountOf
  <1>5. Cardinality(Holders(b))' = n
    BY <1>2
  <1> QED
    BY <1>1, <1>3, <1>4, <1>5 DEF CountOf

\* A buffer that no port has, and its count.
LEMMA CountAlone ==
  ASSUME CommInv, NEW b \in Bufs, Holders(b)' = {},
         \/ /\ status'[b] = ALLOCATED
            /\ \A t \in Tasks : buf'[t] = b => pc'[t] = "own"
            /\ \E t \in Tasks : buf'[t] = b
         \/ /\ status'[b] = SENDING
            /\ \A t \in Tasks : buf'[t] = b => pc'[t] # "own"
            /\ \E t \in Tasks : buf'[t] = b
         \/ /\ status'[b] = FREE
            /\ \A t \in Tasks : buf'[t] # b
  PROVE  CountOf(b)'
  <1>1. PICK H : H = {}
    OBVIOUS
  <1>2. Cardinality(H) = 0
    BY <1>1, FS_EmptySet
  <1>3. Cardinality(Holders(b))' = 0
    BY <1>1, <1>2
  <1>4. SENDING + 0 = SENDING
    BY DEF SENDING
  <1>5. (\E t \in Tasks : pc'[t] = "own" /\ buf'[t] = b) => status'[b] = ALLOCATED
    OBVIOUS
  <1>6. (\E t \in Tasks : pc'[t] \in {"send", "release"} /\ buf'[t] = b) \/ Holders(b)' # {}
          => status'[b] = SENDING
    OBVIOUS
  <1>7. (\A t \in Tasks : buf'[t] # b) /\ Holders(b)' = {} => status'[b] = FREE
    OBVIOUS
  <1> QED
    BY <1>3, <1>4, <1>5, <1>6, <1>7 DEF CountOf

\* A task that owns a buffer, hands it over or releases it is alone with it.
LEMMA Alone ==
  ASSUME CommInv, NEW t \in Tasks, pc[t] \in {"own", "send", "release"}, todo[t] = {}
  PROVE  Holders(buf[t]) = {} /\ buf[t] \in Bufs
  <1>1. buf[t] \in Bufs
    BY DEF CommInv, TypeOK, Owners
  <1>2. \A p \in Ports : \A s \in Kept(p) : stack[p][s] # buf[t]
    BY DEF CommInv, Contents
  <1>3. \A u \in Tasks : buf[u] = buf[t] => u = t
    BY <1>1, Constants DEF CommInv, Owners
  <1> QED
    BY <1>1, <1>2, <1>3 DEF Holders

\* What goes on without a change of a count.
LEMMA CountsQuiet ==
  ASSUME CommInv, NEW t \in Tasks, NEW b \in Bufs,
         \/ GetBuf(t) \/ SearchOn(t) \/ Starved(t) \/ Publish(t)
         \/ (\E p \in CanPorts : CanSent(t, p)) \/ CanResched(t) \/ CanStart(t) \/ CanAdvance(t)
  PROVE  CountOf(b)'
  <1>1. /\ pc \in [Tasks -> TaskPoints \cup CanPoints] /\ buf \in [Tasks -> Bufs \cup {None}]
        /\ todo \in [Tasks -> SUBSET Ports] /\ None \notin Bufs
    BY Constants DEF CommInv, TypeOK
  <1>2. /\ pc[t] \in {"own", "send", "publish", "release"} <=> buf[t] # None
        /\ pc[t] = "publish" => todo[t] # {}
        /\ todo[t] # {} => pc[t] \in {"send", "publish"}
    BY DEF CommInv, Owners, Locks
  <1>3. \A u \in Tasks \ {t} : pc'[u] = pc[u] /\ buf'[u] = buf[u] /\ todo'[u] = todo[u]
    BY OthersRest DEF CommInv, Get, Send, Can
  <1>4. status' = status
    BY DEF GetBuf, SearchOn, Starved, Publish, CanSent, CanResched, CanStart, CanAdvance
  <1>5. CASE Publish(t)
    <2>1. Holders(b)' = Holders(b)
      BY <1>5, HoldersPublish
    <2>2. pc'[t] \in {"publish", "idle"}
      BY <1>1, <1>5 DEF Publish, Return, Goto
    <2>3. buf[t] = b => Holders(b) # {}
      <3> SUFFICES ASSUME buf[t] = b
                   PROVE  Holders(b) # {}
        OBVIOUS
      <3>1. PICK q \in todo[t] : q \in Ports
        BY <1>1, <1>2, <1>5 DEF Publish
      <3> QED
        BY <3>1 DEF Holders
    <2>4. \A u \in Tasks : buf'[u] = b /\ pc'[u] = "own" => buf[u] = b /\ pc[u] = "own"
      BY <1>3, <2>2
    <2>5. \A u \in Tasks : buf'[u] = b /\ pc'[u] \in {"send", "release"}
                              => buf[u] = b /\ pc[u] \in {"send", "release"}
      BY <1>3, <2>2
    <2>6. \A u \in Tasks : buf[u] = b => buf'[u] = b \/ Holders(b) # {}
      BY <1>3, <2>3
    <2> QED
      BY <1>4, <2>1, <2>4, <2>5, <2>6, CountRest
  <1>6. CASE ~Publish(t)
    <2>1. buf[t] = None /\ todo[t] = {}
      BY <1>2, <1>6 DEF GetBuf, SearchOn, Starved, CanSent, CanResched, CanStart, CanAdvance
    <2>2. buf'[t] = None /\ todo'[t] = {}
      BY <1>1, <1>6, <2>1 DEF GetBuf, SearchOn, Starved, CanSent, CanResched, CanStart, CanAdvance,
                              Return
    <2>3. \A p \in Ports : KeptAs(p, Kept(p))
      BY <1>6, PortsRest, KeptCan DEF Get
    <2>4. \A u \in Tasks : todo'[u] = todo[u] /\ (todo[u] # {} => buf'[u] = buf[u])
      BY <1>3, <2>1, <2>2
    <2>5. Holders(b)' = Holders(b)
      BY <2>3, <2>4, HoldersRest
    <2>6. \A u \in Tasks : buf'[u] = b => u # t
      BY <1>1, <2>2
    <2>7. \A u \in Tasks : buf'[u] = b /\ pc'[u] = "own" => buf[u] = b /\ pc[u] = "own"
      BY <1>3, <2>6
    <2>8. \A u \in Tasks : buf'[u] = b /\ pc'[u] \in {"send", "release"}
                              => buf[u] = b /\ pc[u] \in {"send", "release"}
      BY <1>3, <2>6
    <2>9. \A u \in Tasks : buf[u] = b => buf'[u] = b \/ Holders(b) # {}
      BY <1>1, <1>3, <2>1
    <2> QED
      BY <1>4, <2>5, <2>7, <2>8, <2>9, CountRest
  <1> QED
    BY <1>5, <1>6

\* A task takes a buffer, hands it over, has it discarded or releases it.
LEMMA CountsOwner ==
  ASSUME CommInv, NEW t \in Tasks, NEW b \in Bufs,
         Allocate(t) \/ SendBuf(t) \/ Discard(t) \/ CanRelease(t)
  PROVE  CountOf(b)'
  <1>1. /\ pc \in [Tasks -> TaskPoints \cup CanPoints] /\ buf \in [Tasks -> Bufs \cup {None}]
        /\ todo \in [Tasks -> SUBSET Ports] /\ cur \in [Tasks -> Nat] /\ None \notin Bufs
        /\ status \in [Bufs -> 0 .. SENDING + NumPorts]
    BY Constants DEF CommInv, TypeOK
  <1>2. /\ pc[t] \in {"own", "send", "publish", "release"} <=> buf[t] # None
        /\ pc[t] = "send" /\ todo[t] # {} => Matching(t, cur[t]) # {}
        /\ todo[t] # {} => pc[t] \in {"send", "publish"}
        /\ \A u \in Tasks : buf[t] = buf[u] /\ buf[t] # None => t = u
    BY DEF CommInv, Owners, Locks
  <1>3. \A u \in Tasks \ {t} : pc'[u] = pc[u] /\ buf'[u] = buf[u] /\ todo'[u] = todo[u]
    BY OthersRest DEF CommInv, Get, Send, Can
  <1>4. todo[t] = {} /\ todo'[t] = {}
    BY <1>1, <1>2 DEF Allocate, SendBuf, Discard, CanRelease, Return
  <1>5. \A p \in Ports : KeptAs(p, Kept(p))
    BY PortsRest DEF Get
  <1>6. \A u \in Tasks : todo'[u] = todo[u] /\ (todo[u] # {} => buf'[u] = buf[u])
    BY <1>3, <1>4
  <1>7. Holders(b)' = Holders(b)
    BY <1>5, <1>6, HoldersRest
  <1>8. ASSUME status'[b] = status[b], b # buf[t], b # buf'[t]
        PROVE  CountOf(b)'
    <2>1. \A u \in Tasks : buf'[u] = b /\ pc'[u] = "own" => buf[u] = b /\ pc[u] = "own"
      BY <1>3, <1>8
    <2>2. \A u \in Tasks : buf'[u] = b /\ pc'[u] \in {"send", "release"}
                              => buf[u] = b /\ pc[u] \in {"send", "release"}
      BY <1>3, <1>8
    <2>3. \A u \in Tasks : buf[u] = b => buf'[u] = b \/ Holders(b) # {}
      BY <1>3, <1>8
    <2> QED
      BY <1>7, <1>8, <2>1, <2>2, <2>3, CountRest
  <1>9. CASE Allocate(t)
    <2>1. /\ cur[t] \in Bufs /\ status[cur[t]] = FREE /\ buf'[t] = cur[t] /\ pc'[t] = "own"
          /\ status' = [status EXCEPT ![cur[t]] = ALLOCATED] /\ buf[t] = None
      BY <1>1, <1>2, <1>9, Constants DEF Allocate, Bufs, Goto
    <2>2. CASE b = cur[t]
      <3>1. Holders(b) = {} /\ \A u \in Tasks : buf[u] # b
        BY <2>1, <2>2, FreeIsNobodys
      <3>2. status'[b] = ALLOCATED
        BY <1>1, <2>1, <2>2
      <3>3. \A u \in Tasks : buf'[u] = b => pc'[u] = "own"
        BY <1>3, <2>1, <3>1
      <3> QED
        BY <1>7, <2>1, <2>2, <3>1, <3>2, <3>3, CountAlone
    <2>3. CASE b # cur[t]
      BY <1>1, <1>8, <2>1, <2>3
    <2> QED
      BY <2>2, <2>3
  <1>10. CASE SendBuf(t)
    <2>1. /\ pc[t] = "own" /\ pc'[t] = "send" /\ buf' = buf
          /\ status' = [status EXCEPT ![buf[t]] = SENDING]
      BY <1>1, <1>10 DEF SendBuf, Goto
    <2>2. Holders(buf[t]) = {} /\ buf[t] \in Bufs
      BY <1>4, <2>1, Alone
    <2>3. CASE b = buf[t]
      <3>1. status'[b] = SENDING
        BY <1>1, <2>1, <2>3
      <3>2. \A u \in Tasks : buf'[u] = b => pc'[u] # "own"
        BY <1>1, <1>2, <2>1, <2>3
      <3>3. Holders(b)' = {} /\ buf'[t] = b
        BY <1>7, <2>1, <2>2, <2>3
      <3> QED
        BY <3>1, <3>2, <3>3, CountAlone
    <2>4. CASE b # buf[t]
      BY <1>1, <1>8, <2>1, <2>2, <2>4
    <2> QED
      BY <2>3, <2>4
  <1>11. CASE Discard(t) \/ CanRelease(t)
    <2>1. /\ pc[t] \in {"send", "release"} /\ buf'[t] = None
          /\ status' = [status EXCEPT ![buf[t]] = FREE]
      BY <1>1, <1>11 DEF Discard, CanRelease, Return
    <2>2. Holders(buf[t]) = {} /\ buf[t] \in Bufs
      BY <1>4, <2>1, Alone
    <2>3. CASE b = buf[t]
      <3>1. status'[b] = FREE
        BY <1>1, <2>1, <2>3
      <3>2. \A u \in Tasks : buf'[u] # b
        BY <1>1, <1>2, <1>3, <2>1, <2>3
      <3>3. Holders(b)' = {}
        BY <1>7, <2>2, <2>3
      <3> QED
        BY <3>1, <3>2, <3>3, CountAlone
    <2>4. CASE b # buf[t]
      BY <1>1, <1>8, <2>1, <2>2, <2>4
    <2> QED
      BY <2>3, <2>4
  <1> QED
    BY <1>9, <1>10, <1>11

\* A port is put to a buffer: counted with it.
LEMMA CountsStack ==
  ASSUME CommInv, NEW t \in Tasks, Stack(t), NEW b \in Bufs
  PROVE  CountOf(b)'
  <1>1. PICK p \in Matching(t, cur[t]) :
          IF Full(p)
          THEN UNCHANGED <<status, todo>>
          ELSE /\ status' = [status EXCEPT ![buf[t]] = @ + 1]
               /\ todo' = [todo EXCEPT ![t] = @ \cup {p}]
    BY DEF Stack
  <1>2. p \in Ports /\ p >= cur[t]
    BY <1>1 DEF Matching
  <1>3. buf' = buf /\ pc[t] = "send" /\ pc'[t] \in {"send", "publish"}
    BY DEF Stack, Goto, CommInv, TypeOK
  <1>4. \A u \in Tasks \ {t} : pc'[u] = pc[u]
    BY OthersRest DEF CommInv, Send
  <1>5. buf[t] \in Bufs /\ status \in [Bufs -> 0 .. SENDING + NumPorts]
    BY <1>3 DEF CommInv, TypeOK, Owners
  <1>6. /\ \A u \in Tasks : buf'[u] = b /\ pc'[u] = "own" => buf[u] = b /\ pc[u] = "own"
        /\ \A u \in Tasks : buf'[u] = b /\ pc'[u] \in {"send", "release"}
                              => buf[u] = b /\ pc[u] \in {"send", "release"}
        /\ \A u \in Tasks : buf[u] = b => buf'[u] = b \/ Holders(b) # {}
    BY <1>3, <1>4
  <1>7. CASE Full(p)
    <2>1. \A q \in Ports : KeptAs(q, Kept(q))
      BY PortsRest
    <2>2. Holders(b)' = Holders(b)
      BY <1>1, <1>3, <1>7, <2>1, HoldersRest
    <2> QED
      BY <1>1, <1>6, <1>7, <2>2, CountRest
  <1>8. CASE ~Full(p)
    <2>1. /\ b = buf[t] => Holders(b)' = Holders(b) \cup {p} /\ p \notin Holders(b)
          /\ b # buf[t] => Holders(b)' = Holders(b)
      BY <1>1, <1>2, <1>8, HoldersStack
    <2>2. CASE b = buf[t]
      <3>1. PICK H : H = Holders(b)
        OBVIOUS
      <3>2. H \subseteq Ports /\ p \notin H /\ Holders(b)' = H \cup {p}
        BY <2>1, <2>2, <3>1, HolderPorts
      <3>3. Cardinality(H) \in Nat /\ Cardinality(H \cup {p}) = Cardinality(H) + 1
        BY <1>2, <3>2, PortSets, Constants
      <3>4. status[b] = SENDING + Cardinality(H)
        BY <1>3, <2>2, <3>1 DEF CommInv, Counts, CountOf
      <3>5. status'[b] = status[b] + 1
        BY <1>1, <1>5, <1>8, <2>2
      <3>6. status'[b] = SENDING + Cardinality(H \cup {p})
        BY <3>3, <3>4, <3>5 DEF SENDING
      <3>7. Cardinality(Holders(b))' = Cardinality(H \cup {p})
        BY <3>2
      <3>8. \A u \in Tasks : buf'[u] = b => pc'[u] # "own"
        BY <1>3, <1>4, <1>5, <2>2, Constants DEF CommInv, Owners
      <3>9. Holders(b)' # {}
        BY <3>2
      <3> QED
        BY <3>6, <3>7, <3>8, <3>9 DEF CountOf
    <2>3. CASE b # buf[t]
      <3>1. status'[b] = status[b]
        BY <1>1, <1>5, <1>8, <2>3
      <3> QED
        BY <1>6, <2>1, <2>3, <3>1, CountRest
    <2> QED
      BY <2>2, <2>3
  <1> QED
    BY <1>7, <1>8

\* A transmission has ended: one port less, and the last one frees the buffer, or leaves
\* it to the comm task to free.
LEMMA CountsEnd ==
  ASSUME CommInv, NEW b \in Bufs,
         (\E q \in Ports \ CanPorts : DmaIRQ(q)) \/ (\E t \in Tasks : CanFinished(t))
  PROVE  CountOf(b)'
  <1>1. /\ pc \in [Tasks -> TaskPoints \cup CanPoints] /\ buf \in [Tasks -> Bufs \cup {None}]
        /\ status \in [Bufs -> 0 .. SENDING + NumPorts] /\ None \notin Bufs
    BY Constants DEF CommInv, TypeOK
  <1>2. ASSUME NEW q \in Ports, NEW e \in Kept(q), NEW c, c = stack[q][e],
               \A p \in Ports : KeptAs(p, IF p = q THEN Kept(p) \ {e} ELSE Kept(p)),
               \A u \in Tasks : todo'[u] = todo[u] /\ (todo[u] # {} => buf'[u] = buf[u])
        PROVE  /\ c \in Bufs /\ status[c] = SENDING + Cardinality(Holders(c))
               /\ b # c => Holders(b)' = Holders(b)
               /\ Cardinality(Holders(c)) = 1 => Holders(c)' = {} /\ \A u \in Tasks : buf[u] # c
               /\ Cardinality(Holders(c)) # 1 =>
                    /\ Holders(c)' # {} /\ SENDING + Cardinality(Holders(c)) - 1 # SENDING
                    /\ SENDING + Cardinality(Holders(c)) - 1 = SENDING + Cardinality(Holders(c))'
               /\ \A u \in Tasks : buf[u] = c => pc[u] \notin {"own", "send", "release"}
    <2>1. c \in Bufs /\ q \in Holders(c) /\ status[c] = SENDING + Cardinality(Holders(c))
          /\ (Cardinality(Holders(c)) = 1 => Holders(c) = {q} /\ \A u \in Tasks : buf[u] # c)
      BY <1>2, LastHolder
    <2>2. Holders(c)' = Holders(c) \ {q}
      BY <1>2, HoldersEnd
    <2>3. b # c => Holders(b)' = Holders(b)
      BY <1>2, HoldersEnd
    <2>4. PICK H : H = Holders(c)
      OBVIOUS
    <2>5. q \in H /\ Cardinality(H) \in Nat /\ Cardinality(H \ {q}) = Cardinality(H) - 1
      BY <2>1, <2>4, HolderPorts, PortSets, Constants
    <2>6. Cardinality(Holders(c))' = Cardinality(H \ {q})
      BY <2>2, <2>4
    <2>7. Cardinality(H) # 1 => H \ {q} # {}
      <3>1. H \ {q} = {} => Cardinality(H \ {q}) = 0
        BY FS_EmptySet
      <3> QED
        BY <2>5, <3>1
    <2>8. Cardinality(H) # 1 => /\ SENDING + Cardinality(H) - 1 # SENDING
                                /\ SENDING + Cardinality(H) - 1 = SENDING + Cardinality(H \ {q})
      BY <2>5 DEF SENDING
    <2>9. \A u \in Tasks : buf[u] = c => pc[u] \notin {"own", "send", "release"}
      BY <1>2 DEF CommInv, Contents
    <2> QED
      BY <2>1, <2>2, <2>3, <2>4, <2>6, <2>7, <2>8, <2>9
  <1>3. ASSUME NEW q \in Ports \ CanPorts, DmaIRQ(q)
        PROVE  CountOf(b)'
    <2>1. PICK e \in Kept(q) : e = busy[q]
      BY <1>3, KeptDma
    <2>2. PICK c : c = stack[q][e]
      OBVIOUS
    <2>3. UNCHANGED <<pc, buf, todo>>
      BY <1>3, TasksRest
    <2>4. \A p \in Ports : KeptAs(p, IF p = q THEN Kept(p) \ {e} ELSE Kept(p))
      BY <1>3, <2>1, KeptDma
    <2>5. /\ c \in Bufs /\ status[c] = SENDING + Cardinality(Holders(c))
          /\ b # c => Holders(b)' = Holders(b)
          /\ Cardinality(Holders(c)) = 1 => Holders(c)' = {} /\ \A u \in Tasks : buf[u] # c
          /\ Cardinality(Holders(c)) # 1 =>
               /\ Holders(c)' # {} /\ SENDING + Cardinality(Holders(c)) - 1 # SENDING
               /\ SENDING + Cardinality(Holders(c)) - 1 = SENDING + Cardinality(Holders(c))'
          /\ \A u \in Tasks : buf[u] = c => pc[u] \notin {"own", "send", "release"}
      BY <1>2, <2>2, <2>3, <2>4
    <2>6. status' = [status EXCEPT ![c] = CountDown(status[c])]
      BY <1>3, <2>1, <2>2 DEF DmaIRQ
    <2>7. Cardinality(Holders(c)) \in Nat
      BY HolderPorts, PortSets, Constants
    <2>8. status[c] - 1 = SENDING + Cardinality(Holders(c)) - 1
      BY <2>5, <2>7 DEF SENDING
    <2>9. CASE b # c
      <3>1. status'[b] = status[b]
        BY <1>1, <2>5, <2>6, <2>9
      <3> QED
        BY <2>3, <2>5, <2>9, <3>1, CountRest
    <2>10. CASE b = c /\ Cardinality(Holders(c)) = 1
      <3>1. status[c] - 1 = SENDING
        BY <2>5, <2>10 DEF SENDING
      <3>2. status'[b] = FREE
        BY <1>1, <2>5, <2>6, <2>10, <3>1 DEF CountDown
      <3> QED
        BY <2>3, <2>5, <2>10, <3>2, CountAlone
    <2>11. CASE b = c /\ Cardinality(Holders(c)) # 1
      <3>1. status'[b] = SENDING + Cardinality(Holders(c))'
        BY <1>1, <2>5, <2>6, <2>8, <2>11 DEF CountDown
      <3>2. status'[b] = SENDING + Cardinality(Holders(b))'
        BY <2>11, <3>1
      <3> QED
        BY <2>3, <2>5, <2>11, <3>2 DEF CountOf
    <2> QED
      BY <2>9, <2>10, <2>11
  <1>4. ASSUME NEW t \in Tasks, CanFinished(t)
        PROVE  CountOf(b)'
    <2>1. PICK q \in Ports : q = cur[t]
      BY <1>4, FinishedSteps
    <2>2. PICK e \in Kept(q) : e = entry
      BY <1>4, <2>1, FinishedSteps
    <2>3. PICK c : c = stack[q][e]
      OBVIOUS
    <2>4. pc[t] = "finished" /\ buf[t] = None /\ todo[t] = {} /\ todo' = todo
      BY <1>4 DEF CanFinished, CommInv, Owners, Locks
    <2>5. \A u \in Tasks \ {t} : pc'[u] = pc[u] /\ buf'[u] = buf[u]
      BY <1>4, OthersRest DEF CommInv, Can
    <2>6. \A u \in Tasks : todo'[u] = todo[u] /\ (todo[u] # {} => buf'[u] = buf[u])
      BY <2>4, <2>5
    <2>7. \A p \in Ports : KeptAs(p, IF p = q THEN Kept(p) \ {e} ELSE Kept(p))
      BY <1>4, <2>1, <2>2, KeptFinished
    <2>8. /\ c \in Bufs /\ status[c] = SENDING + Cardinality(Holders(c))
          /\ b # c => Holders(b)' = Holders(b)
          /\ Cardinality(Holders(c)) = 1 => Holders(c)' = {} /\ \A u \in Tasks : buf[u] # c
          /\ Cardinality(Holders(c)) # 1 =>
               /\ Holders(c)' # {} /\ SENDING + Cardinality(Holders(c)) - 1 # SENDING
               /\ SENDING + Cardinality(Holders(c)) - 1 = SENDING + Cardinality(Holders(c))'
          /\ \A u \in Tasks : buf[u] = c => pc[u] \notin {"own", "send", "release"}
      BY <1>2, <2>3, <2>6, <2>7, ZenonT(30)
    <2>9. /\ status' = [status EXCEPT ![c] = SENDING + Cardinality(Holders(c)) - 1]
          /\ \/ /\ Cardinality(Holders(c)) = 1 /\ buf' = [buf EXCEPT ![t] = c]
                /\ pc' = [pc EXCEPT ![t] = "release"]
             \/ /\ Cardinality(Holders(c)) # 1 /\ buf' = buf
                /\ pc' = [pc EXCEPT ![t] = "resched"]
      BY <1>4, <2>1, <2>2, <2>3, FinishedSteps
    <2>10. CASE b # c
      <3>1. status'[b] = status[b]
        BY <1>1, <2>8, <2>9, <2>10
      <3>2. b # buf'[t] /\ b # buf[t]
        BY <1>1, <2>4, <2>9, <2>10
      <3>3. \A u \in Tasks : buf'[u] = b => u # t
        BY <3>2
      <3>4. \A u \in Tasks : buf'[u] = b /\ pc'[u] = "own" => buf[u] = b /\ pc[u] = "own"
        BY <2>5, <3>3
      <3>5. \A u \in Tasks : buf'[u] = b /\ pc'[u] \in {"send", "release"}
                                => buf[u] = b /\ pc[u] \in {"send", "release"}
        BY <2>5, <3>3
      <3>6. \A u \in Tasks : buf[u] = b => buf'[u] = b \/ Holders(b) # {}
        BY <2>5, <3>2
      <3> QED
        BY <2>8, <2>10, <3>1, <3>4, <3>5, <3>6, CountRest
    <2>11. CASE b = c /\ Cardinality(Holders(c)) = 1
      <3>1. pc'[t] = "release" /\ buf'[t] = b
        BY <1>1, <2>9, <2>11
      <3>2. SENDING + Cardinality(Holders(c)) - 1 = SENDING
        BY <2>11 DEF SENDING
      <3>3. status'[b] = SENDING
        BY <1>1, <2>8, <2>9, <2>11, <3>2
      <3>4. \A u \in Tasks : buf'[u] = b => pc'[u] # "own"
        BY <2>5, <2>8, <2>11, <3>1
      <3> QED
        BY <2>8, <2>11, <3>1, <3>3, <3>4, CountAlone
    <2>12. CASE b = c /\ Cardinality(Holders(c)) # 1
      <3>1. status'[b] = SENDING + Cardinality(Holders(c))'
        BY <1>1, <2>8, <2>9, <2>12
      <3>2. status'[b] = SENDING + Cardinality(Holders(b))'
        BY <2>12, <3>1
      <3>3. pc'[t] = "resched" /\ buf' = buf
        BY <1>1, <2>9, <2>12
      <3>4. \A u \in Tasks : pc'[u] = "own" => buf'[u] # b
        BY <2>5, <2>8, <2>12, <3>3
      <3> QED
        BY <2>8, <2>12, <3>2, <3>4 DEF CountOf
    <2> QED
      BY <2>10, <2>11, <2>12
  <1> QED
    BY <1>3, <1>4

LEMMA CountsHold ==
  ASSUME CommInv, Next
  PROVE  Counts'
  <1> SUFFICES ASSUME NEW b \in Bufs
               PROVE  CountOf(b)'
    BY DEF Counts
  <1>1. CASE CrypIRQ
    <2>1. UNCHANGED <<pc, buf, todo, status>>
      BY <1>1, TasksRest DEF CrypIRQ
    <2>2. \A p \in Ports : KeptAs(p, Kept(p))
      BY <1>1, KeptCryp
    <2>3. Holders(b)' = Holders(b)
      BY <2>1, <2>2, HoldersRest
    <2> QED
      BY <2>1, <2>3, CountRest
  <1>2. CASE \E q \in Ports \ CanPorts : DmaIRQ(q)
    BY <1>2, CountsEnd
  <1>3. ASSUME NEW t \in Tasks, Get(t) \/ Send(t) \/ Can(t)
        PROVE  CountOf(b)'
    <2>1. CASE Get(t)
      BY <2>1, CountsQuiet, CountsOwner DEF Get
    <2>2. CASE Send(t)
      BY <2>2, CountsQuiet, CountsOwner, CountsStack DEF Send
    <2>3. CASE Can(t)
      BY <2>3, CountsQuiet, CountsOwner, CountsEnd DEF Can
    <2> QED
      BY <1>3, <2>1, <2>2, <2>3
  <1> QED
    BY <1>1, <1>2, <1>3 DEF Next

-------------------------------------------------------------------------------
(* The invariant                                                               *)

LEMMA RingsTyped ==
  ASSUME CommInv, Next
  PROVE  /\ stack' \in [Ports -> [Slots -> Bufs \cup {None}]]
         /\ head' \in [Ports -> Slots]
         /\ tail' \in [Ports -> Slots]
         /\ busy' \in [Ports -> Slots \cup {None}]
         /\ irq' \in BOOLEAN
         /\ entry' \in Slots
  <1>1. /\ stack \in [Ports -> [Slots -> Bufs \cup {None}]]
        /\ head \in [Ports -> Slots]
        /\ tail \in [Ports -> Slots]
        /\ busy \in [Ports -> Slots \cup {None}]
        /\ entry \in Slots
        /\ buf \in [Tasks -> Bufs \cup {None}]
        /\ todo \in [Tasks -> SUBSET Ports]
        /\ irq \in BOOLEAN
    BY DEF CommInv, TypeOK
  <1>2. \A i \in Slots : After(i) \in Slots
    BY AfterIs
  <1>3. CASE UNCHANGED <<stack, head, tail, busy, irq, entry>>
    BY <1>1, <1>3
  <1>4. ASSUME NEW t \in Tasks, Get(t)
        PROVE  UNCHANGED <<stack, head, tail, busy, irq, entry>>
    BY <1>4 DEF Get, GetBuf, SearchOn, Allocate, Starved, rings
  <1>5. ASSUME NEW t \in Tasks, SendBuf(t) \/ Discard(t) \/ CanRelease(t)
        PROVE  UNCHANGED <<stack, head, tail, busy, irq, entry>>
    BY <1>5 DEF SendBuf, Discard, CanRelease, rings
  <1>6. ASSUME NEW t \in Tasks, Stack(t)
        PROVE  UNCHANGED <<head, tail, busy, irq, entry>>
               /\ stack' \in [Ports -> [Slots -> Bufs \cup {None}]]
    <2>1. buf[t] \in Bufs \cup {None}
      BY <1>1
    <2>2. PICK p \in Ports : UNCHANGED stack \/ stack' = [stack EXCEPT ![p][head[p]] = buf[t]]
      BY <1>6 DEF Stack, Matching
    <2> QED
      BY <1>1, <1>6, <2>1, <2>2 DEF Stack
  <1>7. ASSUME NEW t \in Tasks, Publish(t)
        PROVE  UNCHANGED <<stack, tail, busy, entry>> /\ irq' = TRUE /\ head' \in [Ports -> Slots]
    <2>1. PICK p \in Ports : head' = [head EXCEPT ![p] = After(@)]
      BY <1>1, <1>7 DEF Publish
    <2> QED
      BY <1>1, <1>2, <1>7, <2>1 DEF Publish
  <1>8. ASSUME NEW t \in Tasks, NEW p \in CanPorts, CanSent(t, p)
        PROVE  UNCHANGED <<stack, head, tail, irq>> /\ entry' \in Slots
               /\ busy' \in [Ports -> Slots \cup {None}]
    BY <1>1, <1>8, Constants DEF CanSent
  <1>9. ASSUME NEW t \in Tasks, CanFinished(t)
        PROVE  UNCHANGED <<head, tail, busy, irq, entry>>
               /\ stack' \in [Ports -> [Slots -> Bufs \cup {None}]]
    BY <1>1, <1>9 DEF CanFinished
  <1>10. ASSUME NEW t \in Tasks, CanResched(t) \/ CanStart(t) \/ CanAdvance(t)
         PROVE  /\ UNCHANGED <<stack, head, irq>> /\ tail' \in [Ports -> Slots] /\ entry' \in Slots
                /\ busy' \in [Ports -> Slots \cup {None}]
    <2>1. cur[t] \in Ports
      BY <1>10, Constants DEF CanResched, CanStart, CanAdvance, CommInv, Owners, CanPoints
    <2>2. CASE CanResched(t)
      BY <1>1, <2>1, <2>2, Constants DEF CanResched, rings
    <2>3. CASE CanStart(t)
      BY <1>1, <2>1, <2>3 DEF CanStart
    <2>4. CASE CanAdvance(t)
      BY <1>1, <1>2, <2>1, <2>4, Constants DEF CanAdvance
    <2> QED
      BY <1>10, <2>2, <2>3, <2>4
  <1>11. CASE CrypIRQ
    <2>1. UNCHANGED <<stack, head, entry>> /\ irq' = FALSE
      BY <1>11 DEF CrypIRQ
    <2>2. \A p \in Ports : /\ (IF Ready(p) THEN tail[p] ELSE busy[p]) \in Slots \cup {None}
                           /\ (IF Ready(p) THEN After(tail[p]) ELSE tail[p]) \in Slots
      BY <1>1, <1>2
    <2> QED
      BY <1>1, <1>11, <2>1, <2>2 DEF CrypIRQ
  <1>12. ASSUME NEW q \in Ports, DmaIRQ(q)
         PROVE  /\ UNCHANGED <<head, irq, entry>>
                /\ stack' \in [Ports -> [Slots -> Bufs \cup {None}]]
                /\ tail' \in [Ports -> Slots]
                /\ busy' \in [Ports -> Slots \cup {None}]
    <2>1. UNCHANGED <<head, irq, entry>> /\ stack' \in [Ports -> [Slots -> Bufs \cup {None}]]
      BY <1>1, <1>12 DEF DmaIRQ
    <2>2. tail' \in [Ports -> Slots] /\ busy' \in [Ports -> Slots \cup {None}]
      <3>1. CASE head[q] # tail[q]
        <4>1. /\ busy' = [busy EXCEPT ![q] = tail[q]]
              /\ tail' = [tail EXCEPT ![q] = After(tail[q])]
          BY <1>12, <3>1 DEF DmaIRQ
        <4> QED
          BY <1>1, <1>2, <4>1
      <3>2. CASE head[q] = tail[q]
        <4>1. busy' = [busy EXCEPT ![q] = None] /\ tail' = tail
          BY <1>12, <3>2 DEF DmaIRQ
        <4> QED
          BY <1>1, <4>1
      <3> QED
        BY <3>1, <3>2
    <2> QED
      BY <2>1, <2>2
  <1>13. ASSUME NEW t \in Tasks, Send(t) \/ Can(t)
         PROVE  /\ stack' \in [Ports -> [Slots -> Bufs \cup {None}]]
                /\ head' \in [Ports -> Slots]
                /\ tail' \in [Ports -> Slots]
                /\ busy' \in [Ports -> Slots \cup {None}]
                /\ irq' \in BOOLEAN
                /\ entry' \in Slots
    <2>1. CASE SendBuf(t) \/ Discard(t) \/ CanRelease(t)
      BY <1>3, <1>5, <2>1
    <2>2. CASE Stack(t)
      BY <1>1, <1>6, <2>2
    <2>3. CASE Publish(t)
      BY <1>1, <1>7, <2>3
    <2>4. CASE \E p \in CanPorts : CanSent(t, p)
      BY <1>1, <1>8, <2>4
    <2>5. CASE CanFinished(t)
      BY <1>1, <1>9, <2>5
    <2>6. CASE CanResched(t) \/ CanStart(t) \/ CanAdvance(t)
      BY <1>1, <1>10, <2>6
    <2> QED
      BY <1>13, <2>1, <2>2, <2>3, <2>4, <2>5, <2>6 DEF Send, Can
  <1>14. CASE \E t \in Tasks : Get(t)
    BY <1>3, <1>4, <1>14
  <1>15. CASE \E q \in Ports \ CanPorts : DmaIRQ(q)
    BY <1>1, <1>12, <1>15
  <1>16. CASE CrypIRQ
    BY <1>11, <1>16
  <1> QED
    BY <1>13, <1>14, <1>15, <1>16 DEF Next

LEMMA StatusTyped ==
  ASSUME CommInv, Next
  PROVE  status' \in [Bufs -> 0 .. SENDING + NumPorts]
  <1>1. status \in [Bufs -> 0 .. SENDING + NumPorts] /\ NumPorts \in Nat
    BY Constants DEF CommInv, TypeOK
  <1>2. status' = [b \in Bufs |-> status'[b]]
    BY <1>1 DEF Next, Get, GetBuf, SearchOn, Allocate, Starved, Send, SendBuf, Stack, Discard,
       Publish, Can, CanSent, CanFinished, CanRelease, CanResched, CanStart, CanAdvance, CrypIRQ,
       DmaIRQ
  <1>3. Counts' /\ Owners'
    BY CountsHold, OwnersHold
  <1>4. ASSUME NEW b \in Bufs
        PROVE  status'[b] \in 0 .. SENDING + NumPorts
    <2>1. PICK n : n = Cardinality(Holders(b))'
      OBVIOUS
    <2>2. n \in 0 .. NumPorts
      <3>1. PICK H : H = Holders(b)'
        OBVIOUS
      <3>2. H \subseteq Ports
        BY <3>1 DEF Holders
      <3> QED
        BY <2>1, <3>1, <3>2, PortSets
    <2>3. status'[b] \in {ALLOCATED, SENDING + n, FREE}
      <3>1. CASE \E t \in Tasks : buf'[t] = b
        <4>1. PICK t \in Tasks : buf'[t] = b
          BY <3>1
        <4>2. pc'[t] \in {"own", "send", "publish", "release"}
          BY <1>3, <4>1, Constants DEF Owners
        <4>3. pc'[t] = "publish" => Holders(b)' # {}
          <5> SUFFICES ASSUME pc'[t] = "publish"
                       PROVE  Holders(b)' # {}
            OBVIOUS
          <5>1. PICK q : q \in todo'[t]
            BY <1>3 DEF Owners
          <5>2. todo'[t] \subseteq Ports
            BY LocalsTyped
          <5> QED
            BY <4>1, <5>1, <5>2 DEF Holders
        <4> QED
          BY <1>3, <2>1, <4>1, <4>2, <4>3 DEF Counts, CountOf
      <3>2. CASE \A t \in Tasks : buf'[t] # b
        BY <1>3, <2>1, <3>2 DEF Counts, CountOf
      <3> QED
        BY <3>1, <3>2
    <2> QED
      BY <1>1, <2>2, <2>3 DEF ALLOCATED, SENDING, FREE
  <1> QED
    BY <1>2, <1>4

LEMMA CommInit ==
  ASSUME Init
  PROVE  CommInv
  <1>1. TypeOK
    <2>1. FREE \in 0 .. SENDING + NumPorts /\ mutex \in Seq(Tasks)
      BY Constants DEF Init, FREE, SENDING
    <2>2. \A t \in Tasks : pc[t] \notin CanPoints
      BY DEF Init, CanPoints
    <2> QED
      BY <2>1, <2>2, Constants DEF Init, TypeOK, TaskPoints
  <1>2. /\ mutex = <<>> /\ \A t \in Tasks : /\ pc[t] = "idle" /\ buf[t] = None /\ todo[t] = {}
        /\ \A p \in Ports : /\ busy[p] = None /\ head[p] = 0 /\ tail[p] = 0
        /\ \A b \in Bufs : status[b] = FREE
    BY DEF Init
  <1>3. Locks
    BY <1>2 DEF Locks
  <1>4. Owners
    BY <1>2 DEF Owners, CanPoints
  <1>5. Stacked
    BY <1>2 DEF Stacked
  <1>6. Started
    BY <1>2, Constants DEF Started
  <1>7. \A p \in Ports : Kept(p) = {}
    BY <1>2, BetweenSlots, Constants DEF Kept, Live, Finishing
  <1>8. Contents
    BY <1>7 DEF Contents
  <1>9. \A b \in Bufs : Holders(b) = {} /\ \A t \in Tasks : buf[t] # b
    BY <1>2, <1>7, Constants DEF Holders
  <1>10. Counts
    BY <1>2, <1>9, Constants DEF Counts, CountOf
  <1> QED
    BY <1>1, <1>3, <1>4, <1>5, <1>6, <1>8, <1>10 DEF CommInv

LEMMA CommStep ==
  ASSUME CommInv, [Next]_vars
  PROVE  CommInv'
  <1>1. CASE Next
    <2>1. TypeOK'
      BY <1>1, LocalsTyped, RingsTyped, LocksHold, StatusTyped DEF TypeOK
    <2> QED
      BY <1>1, <2>1, LocksHold, OwnersHold, StackedHolds, StartedHolds, ContentsHold, CountsHold
      DEF CommInv
  <1>2. CASE UNCHANGED vars
    <2>1. /\ UNCHANGED <<status, stack, head, tail, busy, irq, mutex>>
          /\ UNCHANGED <<pc, stream, buf, cur, todo, entry>>
      BY <1>2 DEF vars, rings, locals
    <2>2. TypeOK' /\ Locks' /\ Owners'
      BY <2>1 DEF CommInv, TypeOK, Locks, Owner, Owners, Matching
    <2>3. Stacked' /\ Started'
      BY <2>1 DEF CommInv, Stacked, Full, Started, Live
    <2>4. \A p \in Ports : Kept(p)' = Kept(p)
      BY <2>1 DEF Kept, Live, Finishing
    <2>5. Contents'
      BY <2>1, <2>4 DEF CommInv, Contents
    <2>6. \A b \in Bufs : Holders(b)' = Holders(b)
      BY <2>1, <2>4 DEF Holders
    <2>7. ASSUME NEW b \in Bufs
          PROVE  CountOf(b)'
      BY <2>1, <2>6, CountRest
    <2>8. Counts'
      BY <2>7 DEF Counts
    <2> QED
      BY <2>2, <2>3, <2>5, <2>8 DEF CommInv
  <1> QED
    BY <1>1, <1>2

\* The locks, the owners, the slots of the rings and the counts fit together whatever
\* tasks and interrupts do: the invariant the others follow from.
THEOREM CommInductive == Spec => []CommInv
  <1>1. Init => CommInv
    BY CommInit
  <1>2. CommInv /\ [Next]_vars => CommInv'
    BY CommStep
  <1> QED
    BY <1>1, <1>2, PTL DEF Spec

\* Every variable keeps its type: no count passes SENDING + NumPorts.
THEOREM CommTypes == Spec => []TypeOK
  <1>1. CommInv => TypeOK
    BY DEF CommInv
  <1> QED
    BY <1>1, CommInductive, PTL

-------------------------------------------------------------------------------
(* No port sleeps                                                              *)

LEMMA StallStep ==
  ASSUME CommInv, NoStall, Next
  PROVE  NoStall'
  <1> SUFFICES ASSUME NEW p \in Ports, Ready(p)'
               PROVE  irq' \/ (pc'[CommTask] \in CanPoints /\ cur'[CommTask] = p)
    BY DEF NoStall
  <1>1. /\ busy'[p] = None /\ head'[p] # tail'[p]
        /\ Ready(p) => irq \/ At(p)
    BY DEF Ready, NoStall, At
  <1>2. /\ pc \in [Tasks -> TaskPoints \cup CanPoints]
        /\ head \in [Ports -> Slots] /\ tail \in [Ports -> Slots]
        /\ busy \in [Ports -> Slots \cup {None}] /\ None \notin Slots
        /\ cur \in [Tasks -> Nat] /\ CommTask \in Tasks
        /\ \A t \in Tasks : pc[t] \in CanPoints => t = CommTask
        /\ entry \in Slots
    BY Constants DEF CommInv, TypeOK
  <1>3. ASSUME NEW t \in Tasks, Get(t) \/ Send(t)
        PROVE  irq' \/ (pc'[CommTask] \in CanPoints /\ cur'[CommTask] = p)
    <2>1. CASE Publish(t)
      BY <2>1 DEF Publish
    <2>2. CASE ~Publish(t)
      <3>1. UNCHANGED <<head, tail, busy, irq>> /\ pc[t] \notin CanPoints
        BY <1>3, <2>2 DEF Get, GetBuf, SearchOn, Allocate, Starved, Send, SendBuf, Stack, Discard,
           rings, CanPoints
      <3>2. irq \/ At(p)
        BY <1>1, <3>1 DEF Ready
      <3>3. At(p) => pc'[CommTask] = pc[CommTask] /\ cur'[CommTask] = cur[CommTask]
        BY <1>2, <1>3, <3>1, OthersRest DEF At, CommInv
      <3> QED
        BY <3>1, <3>2, <3>3 DEF At
    <2> QED
      BY <2>1, <2>2
  <1>4. ASSUME NEW t \in Tasks, Can(t)
        PROVE  irq' \/ (pc'[CommTask] \in CanPoints /\ cur'[CommTask] = p)
    <2>1. CASE \E q \in CanPorts : CanSent(t, q)
      <3>1. PICK q \in CanPorts : CanSent(t, q)
        BY <2>1
      <3>2. /\ t = CommTask /\ pc[t] = "idle" /\ pc'[t] = "finished" /\ cur'[t] = q
            /\ UNCHANGED <<head, tail, irq>> /\ busy' = [busy EXCEPT ![q] = None]
        BY <1>2, <3>1 DEF CanSent, Goto
      <3>3. p = q \/ irq
        BY <1>1, <1>2, <3>2 DEF Ready, At, CanPoints
      <3> QED
        BY <3>2, <3>3 DEF CanPoints
    <2>2. CASE CanFinished(t) \/ CanRelease(t) \/ CanStart(t)
      <3>1. /\ t = CommTask /\ UNCHANGED <<head, tail, irq, cur>> /\ pc'[t] \in CanPoints
            /\ busy' = busy \/ busy' = [busy EXCEPT ![cur[t]] = entry]
        BY <1>2, <2>2 DEF CanFinished, CanRelease, CanStart, Goto, rings, CanPoints
      <3>2. busy[p] = None
        BY <1>1, <1>2, <3>1
      <3> QED
        BY <1>1, <3>1, <3>2 DEF Ready, At
    <2>3. CASE CanResched(t)
      <3>1. /\ t = CommTask /\ UNCHANGED <<head, tail, irq, busy>>
            /\ \/ ~Ready(cur[t])
               \/ pc'[t] \in CanPoints /\ cur' = cur
        BY <1>2, <2>3 DEF CanResched, Goto, rings, CanPoints
      <3>2. Ready(p)
        BY <1>1, <3>1 DEF Ready
      <3> QED
        BY <1>1, <3>1, <3>2 DEF At
    <2>4. CASE CanAdvance(t)
      <3>1. /\ t = CommTask /\ UNCHANGED <<head, irq, busy>> /\ pc[t] = "advance"
            /\ tail' = [tail EXCEPT ![cur[t]] = After(entry)]
        BY <1>2, <2>4 DEF CanAdvance, CanPoints
      <3>2. busy[cur[t]] = entry
        BY <3>1 DEF CommInv, Started
      <3>3. p # cur[t]
        BY <1>1, <1>2, <3>1, <3>2
      <3>4. Ready(p) /\ ~At(p)
        BY <1>1, <1>2, <3>1, <3>3 DEF Ready, At
      <3> QED
        BY <1>1, <3>1, <3>4
    <2> QED
      BY <1>4, <2>1, <2>2, <2>3, <2>4 DEF Can
  <1>5. CASE CrypIRQ
    <2>1. busy'[p] = IF Ready(p) THEN tail[p] ELSE busy[p]
      BY <1>5 DEF CrypIRQ
    <2>2. tail'[p] = IF Ready(p) THEN After(tail[p]) ELSE tail[p]
      BY <1>5 DEF CrypIRQ
    <2>3. head' = head
      BY <1>5 DEF CrypIRQ
    <2> QED
      BY <1>1, <1>2, <2>1, <2>2, <2>3 DEF Ready
  <1>6. ASSUME NEW q \in Ports \ CanPorts, DmaIRQ(q)
        PROVE  irq' \/ (pc'[CommTask] \in CanPoints /\ cur'[CommTask] = p)
    <2>1. UNCHANGED <<pc, cur, head, irq>>
      BY <1>6 DEF DmaIRQ, locals
    <2>2. p # q
      BY <1>1, <1>2, <1>6, <2>1 DEF DmaIRQ
    <2>3. Ready(p)
      BY <1>1, <1>2, <1>6, <2>1, <2>2 DEF DmaIRQ, Ready
    <2> QED
      BY <1>1, <2>1, <2>3 DEF At
  <1> QED
    BY <1>3, <1>4, <1>5, <1>6 DEF Next

\* Whenever a port has something in its ring and sends nothing, an interrupt is pending
\* that will look at it, or the comm task is about to.
THEOREM NoPortSleeps == Spec => []NoStall
  <1>1. Init => NoStall
    BY DEF Init, NoStall, Ready
  <1>2. CommInv /\ NoStall /\ [Next]_vars => NoStall'
    <2>1. UNCHANGED vars /\ NoStall => NoStall'
      BY DEF vars, rings, locals, NoStall, Ready
    <2> QED
      BY <2>1, StallStep
  <1> QED
    BY <1>1, <1>2, CommInductive, PTL DEF Spec

===============================================================================
