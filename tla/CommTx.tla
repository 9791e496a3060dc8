-------------------------------- MODULE CommTx --------------------------------
(***************************************************************************)
(* The transmit buffers of comm.c: a pool shared by the tasks that send    *)
(* and by the interrupts that end a transmission.                          *)
(*                                                                         *)
(* A task takes a buffer under the mutex (commGetTxBuf), writes it, and    *)
(* hands it over under the mutex (commSendTxBuf): one entry in the ring of *)
(* every port that carries the stream, counted in the status byte of the   *)
(* buffer.  Transmissions are started by an interrupt borrowed from the    *)
(* cryptographic unit, which walks over all ports (commSchedule), and by   *)
(* the end of the previous one (commTxFinished): in the DMA interrupt of a *)
(* serial port, in the comm task for a UART behind the CAN bus.            *)
(*                                                                         *)
(* The interrupts have one preemption level, above all tasks, and are one  *)
(* action each.  A task may be stopped between any two accesses to what    *)
(* another task or an interrupt reads or writes.  Tasks are interleaved    *)
(* without regard to their priorities, which allows all the real schedules *)
(* and more.                                                               *)
(*                                                                         *)
(* Left out: the counters; the content of a buffer; its type, which is the *)
(* stream of the task that owns it; the copy for the USB port, made after  *)
(* the mutex is left.  An entry is cleared when its callback has read it,  *)
(* which the code does not do: nothing may read it again.                  *)
(***************************************************************************)
EXTENDS Naturals, Sequences, FiniteSets

CONSTANTS
  Tasks,        \* the tasks that send
  CommTask,     \* the one that runs canUartStream()
  NumBufs,      \* the buffers, in the order of the search: size by size
  SizeStarts,   \* the first buffer of each size, NumBufs for "none fits"
  NumPorts,     \* COMM_NUM_PORTS
  CanPorts,     \* the ports of type CAN; the others are serial
  Streams,      \* the stream types
  PortStreams,  \* commData.portStreams
  UsbStreams,   \* the stream types of the USB port, which has no ring
  Sends,        \* which task sends which stream
  Depth,        \* COMM_STACK_DEPTH
  None          \* the null pointer

Bufs  == 0 .. NumBufs - 1
Ports == 0 .. NumPorts - 1
Slots == 0 .. Depth - 1

\* The last conjunct excludes the one schedule in which an entry is reused
\* before commTxFinished() has read it: in the comm task, between the end of a
\* transmission and its callback, another task fills the ring of that port.
ASSUME CommTxAssumption ==
  /\ NumBufs \in Nat \ {0}
  /\ NumPorts \in Nat \ {0}
  /\ Depth \in Nat \ {0, 1}
  /\ CommTask \in Tasks
  /\ SizeStarts \subseteq 0 .. NumBufs
  /\ CanPorts \subseteq Ports
  /\ PortStreams \in [Ports -> Streams]
  /\ UsbStreams \subseteq Streams
  /\ Sends \subseteq Tasks \X Streams
  /\ None \notin Nat
  /\ \A p \in CanPorts, t \in Tasks : <<t, PortStreams[p]>> \in Sends => t = CommTask

\* commTxBufferStatus; above SENDING, one for each transmission still to end
FREE      == 0
ALLOCATED == 1
SENDING   == 2

VARIABLES
  status,      \* of each buffer
  stack,       \* txStack[port][slot].txBuf
  head, tail,  \* txStackHeads, txStackTails
  busy,        \* the slot a port is sending (the parameter of its callback),
               \* None when its DMA or its CAN UART is idle
  irq,         \* the CRYP interrupt is pending
  mutex,       \* txBufferMutex: its owner, then those waiting
  \* the locals of each task
  pc,
  stream,      \* the stream it sends, which is also the type of its buffer
  buf,         \* its buffer
  cur,         \* the buffer or the port its loop has come to
  todo,        \* the ports marked toBeScheduled
  entry        \* in the comm task, the slot of the callback or to start

rings  == <<stack, head, tail, busy, irq>>
locals == <<pc, stream, buf, cur, todo>>
vars   == <<status, rings, mutex, locals, entry>>

TaskPoints == {"idle", "get", "own", "send", "publish"}
CanPoints  == {"finished", "release", "resched", "start", "advance"}

TypeOK ==
  /\ status \in [Bufs -> 0 .. SENDING + NumPorts]
  /\ stack \in [Ports -> [Slots -> Bufs \cup {None}]]
  /\ head \in [Ports -> Slots]
  /\ tail \in [Ports -> Slots]
  /\ busy \in [Ports -> Slots \cup {None}]
  /\ irq \in BOOLEAN
  /\ mutex \in Seq(Tasks)
  /\ pc \in [Tasks -> TaskPoints \cup CanPoints]
  /\ \A t \in Tasks : pc[t] \in CanPoints => t = CommTask
  /\ stream \in [Tasks -> Streams \cup {None}]
  /\ buf \in [Tasks -> Bufs \cup {None}]
  /\ cur \in [Tasks -> Nat]
  /\ todo \in [Tasks -> SUBSET Ports]
  /\ entry \in Slots

Init ==
  /\ status = [b \in Bufs |-> FREE]
  /\ stack = [p \in Ports |-> [i \in Slots |-> None]]
  /\ head = [p \in Ports |-> 0]
  /\ tail = [p \in Ports |-> 0]
  /\ busy = [p \in Ports |-> None]
  /\ irq = FALSE
  /\ mutex = <<>>
  /\ pc = [t \in Tasks |-> "idle"]
  /\ stream = [t \in Tasks |-> None]
  /\ buf = [t \in Tasks |-> None]
  /\ cur = [t \in Tasks |-> 0]
  /\ todo = [t \in Tasks |-> {}]
  /\ entry = 0

-------------------------------------------------------------------------------

\* A mutant: the ring without its wrap.
AfterNoWrap(i) == i + 1

\* The slot after i.
After(i) == (i + 1) % Depth

\* A mutant: stack overruns are not tested.
FullIgnored(p) == FALSE

\* The test for stack overruns.
Full(p) == After(head[p]) = tail[p]

\* CoEnterMutexSection() and CoLeaveMutexSection(): first come, first served.
Enter(t) == mutex' = Append(mutex, t)
Leave    == mutex' = Tail(mutex)
Owner(t) == mutex # <<>> /\ Head(mutex) = t

Goto(t, to) == pc' = [pc EXCEPT ![t] = to]

\* The call returns to the task's own code without a buffer.
Return(t) ==
  /\ Goto(t, "idle")
  /\ stream' = [stream EXCEPT ![t] = None]
  /\ buf' = [buf EXCEPT ![t] = None]
  /\ cur' = [cur EXCEPT ![t] = 0]
  /\ todo' = [todo EXCEPT ![t] = {}]

\* typesUsed
Used(s) == s \in UsbStreams \/ \E p \in Ports : PortStreams[p] = s

-------------------------------------------------------------------------------
(***************************************************************************)
(* commGetTxBuf()                                                          *)
(***************************************************************************)

\* The stream is in use; the search starts at the smallest size that fits.
GetBuf(t) ==
  /\ pc[t] = "idle"
  /\ \E s \in Streams, c \in SizeStarts :
       /\ <<t, s>> \in Sends
       /\ Used(s)
       /\ stream' = [stream EXCEPT ![t] = s]
       /\ cur' = [cur EXCEPT ![t] = c]
  /\ Enter(t)
  /\ Goto(t, "get")
  /\ UNCHANGED <<status, rings, buf, todo, entry>>

\* One buffer of the search is in use: the next one, which may be the first of
\* the next larger size.
SearchOn(t) ==
  /\ pc[t] = "get" /\ Owner(t)
  /\ cur[t] < NumBufs
  /\ status[cur[t]] # FREE
  /\ cur' = [cur EXCEPT ![t] = @ + 1]
  /\ UNCHANGED <<status, rings, mutex, pc, stream, buf, todo, entry>>

\* It is free: the task leaves with it.
Allocate(t) ==
  /\ pc[t] = "get" /\ Owner(t)
  /\ cur[t] < NumBufs
  /\ status[cur[t]] = FREE
  /\ status' = [status EXCEPT ![cur[t]] = ALLOCATED]
  /\ buf' = [buf EXCEPT ![t] = cur[t]]
  /\ cur' = [cur EXCEPT ![t] = 0]
  /\ Leave
  /\ Goto(t, "own")
  /\ UNCHANGED <<rings, stream, todo, entry>>

\* There is none: the message is dropped.
Starved(t) ==
  /\ pc[t] = "get" /\ Owner(t)
  /\ cur[t] >= NumBufs
  /\ Leave
  /\ Return(t)
  /\ UNCHANGED <<status, rings, entry>>

-------------------------------------------------------------------------------
(***************************************************************************)
(* commSendTxBuf().  The task has written its buffer.                      *)
(***************************************************************************)

SendBuf(t) ==
  /\ pc[t] = "own"
  /\ status' = [status EXCEPT ![buf[t]] = SENDING]
  /\ Enter(t)
  /\ Goto(t, "send")
  /\ UNCHANGED <<rings, stream, buf, cur, todo, entry>>

\* The ports of this stream, from port n on.
Matching(t, n) == {p \in Ports : p >= n /\ PortStreams[p] = stream[t]}

\* The first loop: an entry at the head of every ring of this stream that has
\* room.  The head itself is moved later.
Stack(t) ==
  /\ pc[t] = "send" /\ Owner(t)
  /\ \E p \in Matching(t, cur[t]) :
       /\ \A q \in Matching(t, cur[t]) : p <= q
       /\ IF Full(p)
          THEN UNCHANGED <<status, stack, todo>>
          ELSE /\ status' = [status EXCEPT ![buf[t]] = @ + 1]
               /\ stack' = [stack EXCEPT ![p][head[p]] = buf[t]]
               /\ todo' = [todo EXCEPT ![t] = @ \cup {p}]
       /\ cur' = [cur EXCEPT ![t] = p + 1]
       /\ IF Matching(t, p + 1) = {} /\ todo'[t] # {}
          THEN Goto(t, "publish")
          ELSE UNCHANGED pc
  /\ UNCHANGED <<head, tail, busy, irq, mutex, stream, buf, entry>>

\* No port took it.
Discard(t) ==
  /\ pc[t] = "send" /\ Owner(t)
  /\ Matching(t, cur[t]) = {}
  /\ status' = [status EXCEPT ![buf[t]] = FREE]
  /\ Leave
  /\ Return(t)
  /\ UNCHANGED <<rings, entry>>

\* The second loop: one head after the other, and an interrupt for each.
Publish(t) ==
  /\ pc[t] = "publish" /\ Owner(t)
  /\ \E p \in todo[t] :
       /\ \A q \in todo[t] : p <= q
       /\ head' = [head EXCEPT ![p] = After(@)]
       /\ IF todo[t] = {p}
          THEN Leave /\ Return(t)
          ELSE /\ todo' = [todo EXCEPT ![t] = @ \ {p}]
               /\ UNCHANGED <<mutex, pc, stream, buf, cur>>
  /\ irq' = TRUE
  /\ UNCHANGED <<status, stack, tail, busy, entry>>

-------------------------------------------------------------------------------
(***************************************************************************)
(* The interrupts                                                          *)
(***************************************************************************)

\* _commSchedule() in an interrupt: the port is idle and its ring is not empty.
Ready(p) == busy[p] = None /\ head[p] # tail[p]

\* A mutant: commSchedule() leaves after the first port it could start.
CrypIRQFirst ==
  /\ irq
  /\ irq' = FALSE
  /\ IF \E p \in Ports : Ready(p)
     THEN LET p == CHOOSE q \in Ports : Ready(q) IN
            /\ busy' = [busy EXCEPT ![p] = tail[p]]
            /\ tail' = [tail EXCEPT ![p] = After(@)]
     ELSE UNCHANGED <<busy, tail>>
  /\ UNCHANGED <<status, stack, head, mutex, locals, entry>>

\* commSchedule(), all ports
CrypIRQ ==
  /\ irq
  /\ irq' = FALSE
  /\ busy' = [p \in Ports |-> IF Ready(p) THEN tail[p] ELSE busy[p]]
  /\ tail' = [p \in Ports |-> IF Ready(p) THEN After(tail[p]) ELSE tail[p]]
  /\ UNCHANGED <<status, stack, head, mutex, locals, entry>>

\* A mutant: the last transmission does not free the buffer.
CountDownKept(n) == n - 1

\* A mutant: the first of two transmissions frees the buffer.
CountDownEarly(n) == IF n - 1 <= SENDING + 1 THEN FREE ELSE n - 1

\* The count of a buffer after commTxFinished(): SENDING means it was the last.
CountDown(n) == IF n - 1 = SENDING THEN FREE ELSE n - 1

\* A serial port has sent a buffer: commTxFinished() and the next one.
DmaIRQ(p) ==
  /\ busy[p] # None
  /\ LET b == stack[p][busy[p]] IN status' = [status EXCEPT ![b] = CountDown(@)]
  /\ stack' = [stack EXCEPT ![p][busy[p]] = None]
  /\ IF head[p] # tail[p]
     THEN /\ busy' = [busy EXCEPT ![p] = tail[p]]
          /\ tail' = [tail EXCEPT ![p] = After(@)]
     ELSE /\ busy' = [busy EXCEPT ![p] = None]
          /\ UNCHANGED tail
  /\ UNCHANGED <<head, irq, mutex, locals, entry>>

-------------------------------------------------------------------------------
(***************************************************************************)
(* The UARTs behind the CAN bus, in the comm task between its own messages *)
(***************************************************************************)

\* canUartStream(): the last bytes are out, the port is idle from here on.
CanSent(t, p) ==
  /\ t = CommTask
  /\ pc[t] = "idle"
  /\ busy[p] # None
  /\ entry' = busy[p]
  /\ busy' = [busy EXCEPT ![p] = None]
  /\ cur' = [cur EXCEPT ![t] = p]
  /\ Goto(t, "finished")
  /\ UNCHANGED <<status, stack, head, tail, irq, mutex, stream, buf, todo>>

\* commTxFinished(): the atomic decrement, then
CanFinished(t) ==
  /\ pc[t] = "finished"
  /\ LET b == stack[cur[t]][entry] IN
       /\ status' = [status EXCEPT ![b] = @ - 1]
       /\ IF status'[b] = SENDING
          THEN buf' = [buf EXCEPT ![t] = b] /\ Goto(t, "release")
          ELSE UNCHANGED buf /\ Goto(t, "resched")
  /\ stack' = [stack EXCEPT ![cur[t]][entry] = None]
  /\ UNCHANGED <<head, tail, busy, irq, mutex, stream, cur, todo, entry>>

\* the buffer is freed if that was the last transmission, and
CanRelease(t) ==
  /\ pc[t] = "release"
  /\ status' = [status EXCEPT ![buf[t]] = FREE]
  /\ buf' = [buf EXCEPT ![t] = None]
  /\ Goto(t, "resched")
  /\ UNCHANGED <<rings, mutex, stream, cur, todo, entry>>

\* _commSchedule() in the task, where interrupts may come in between: the tests,
CanResched(t) ==
  /\ pc[t] = "resched"
  /\ IF Ready(cur[t])
     THEN /\ entry' = tail[cur[t]]
          /\ Goto(t, "start")
          /\ UNCHANGED <<stream, buf, cur, todo>>
     ELSE /\ entry' = 0
          /\ Return(t)
  /\ UNCHANGED <<status, rings, mutex>>

\* canUartTxBuf(),
CanStart(t) ==
  /\ pc[t] = "start"
  /\ busy' = [busy EXCEPT ![cur[t]] = entry]
  /\ Goto(t, "advance")
  /\ UNCHANGED <<status, stack, head, tail, irq, mutex, stream, buf, cur, todo, entry>>

\* and the tail.
CanAdvance(t) ==
  /\ pc[t] = "advance"
  /\ tail' = [tail EXCEPT ![cur[t]] = After(entry)]
  /\ entry' = 0
  /\ Return(t)
  /\ UNCHANGED <<status, stack, head, busy, irq, mutex>>

-------------------------------------------------------------------------------

Get(t)  == GetBuf(t) \/ SearchOn(t) \/ Allocate(t) \/ Starved(t)
Send(t) == SendBuf(t) \/ Stack(t) \/ Discard(t) \/ Publish(t)
Can(t)  == \/ \E p \in CanPorts : CanSent(t, p)
           \/ CanFinished(t) \/ CanRelease(t)
           \/ CanResched(t) \/ CanStart(t) \/ CanAdvance(t)

Next ==
  \/ \E t \in Tasks : Get(t) \/ Send(t) \/ Can(t)
  \/ CrypIRQ
  \/ \E p \in Ports \ CanPorts : DmaIRQ(p)

Spec == Init /\ [][Next]_vars

\* A call of comm.c that was begun goes on: no task spins above it.
Working(t) ==
  \/ SearchOn(t) \/ Allocate(t) \/ Starved(t) \/ Send(t)
  \/ CanFinished(t) \/ CanRelease(t) \/ CanResched(t) \/ CanStart(t) \/ CanAdvance(t)

Fairness ==
  /\ \A t \in Tasks : WF_vars(Working(t))
  /\ WF_vars(CrypIRQ)
  /\ \A p \in Ports \ CanPorts : WF_vars(DmaIRQ(p))
  /\ \A p \in CanPorts : SF_vars(CanSent(CommTask, p))

FairSpec == Spec /\ Fairness

-------------------------------------------------------------------------------
(***************************************************************************)
(* Properties                                                              *)
(***************************************************************************)

\* The slots from the tail to the head, oldest first.
RingLen(p) == (head[p] + Depth - tail[p]) % Depth
Ring(p)    == [i \in 1 .. RingLen(p) |-> stack[p][(tail[p] + i - 1) % Depth]]

\* A transmission has been started; a tail not moved yet would count it twice.
Sending(p) == IF busy[p] \in {None, tail[p]} THEN <<>> ELSE <<stack[p][busy[p]]>>

Holding(t) == pc[t] \in {"own", "send"}

Queued(p) == Sending(p) \o Ring(p)

\* The ports a buffer was handed to whose head has not been moved yet.
Coming(b) == {p \in Ports : \E t \in Tasks : pc[t] = "publish" /\ buf[t] = b /\ p \in todo[t]}

Pool == INSTANCE TxPool WITH
  free   <- {b \in Bufs : status[b] = FREE},
  holds  <- [t \in Tasks |-> IF Holding(t) THEN buf[t] ELSE None],
  coming <- [b \in Bufs |-> Coming(b)],
  queue  <- [p \in Ports |-> Queued(p)],
  NoBuf  <- None

\* comm.c implements the pool: whatever the schedule of tasks and interrupts, a
\* buffer has one owner, every port it was handed to sends it once and in order,
\* and it is freed after the last of them.
PoolSpec == Pool!Spec

\* The status byte of a buffer counts the ports that still have it to send,
\* between the first count and the last whatever task or interrupt takes it: too
\* low, and the buffer is given away while a DMA still reads it.
Counted(b) ==
  {p \in Ports :
     \/ \E i \in DOMAIN Queued(p) : Queued(p)[i] = b
     \/ \E t \in Tasks : /\ pc[t] \in {"send", "publish"} /\ buf[t] = b /\ p \in todo[t]
     \/ \E t \in Tasks : pc[t] = "finished" /\ cur[t] = p /\ stack[p][entry] = b}

StatusCounts ==
  \A b \in Bufs :
    status[b] =
      IF \E t \in Tasks : pc[t] = "own" /\ buf[t] = b THEN ALLOCATED
      ELSE IF \/ Counted(b) # {}
              \/ \E t \in Tasks : pc[t] \in {"send", "release"} /\ buf[t] = b
           THEN SENDING + Cardinality(Counted(b))
           ELSE FREE

\* No port stands idle over a message: whenever one has something in its ring and
\* sends nothing, an interrupt is pending that will look at it, or the comm task
\* is about to.
NoStall ==
  \A p \in Ports :
    Ready(p) => \/ irq
                \/ pc[CommTask] \in CanPoints /\ cur[CommTask] = p

\* Every buffer comes back, so that the pool does not run dry for good.
Returned == \A b \in Bufs : status[b] # FREE ~> status[b] = FREE

===============================================================================
