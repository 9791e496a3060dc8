-------------------------------- MODULE CanBus --------------------------------
(***************************************************************************)
(* The low priority side of can.c: the ring of messages to send, the       *)
(* sequence numbers by which a node's response finds the request that      *)
(* waits for it, and the streams of the CAN UARTs.                         *)
(*                                                                         *)
(* Three tasks send: control (arming and telemetry requests to the ESCs),  *)
(* the supervisor (arming; it may wait for the response) and comm (the     *)
(* streams).  Nothing excludes one from another: a more urgent task runs   *)
(* through whatever point the other has come to.  The transmit interrupt   *)
(* moves a message to mailbox 2 when that is free.  A node responds to a   *)
(* message late, or not at all.                                            *)
(*                                                                         *)
(* A message is its sequence number.  Left out: the ring of high priority, *)
(* the acknowledgements of canAck(), which have no number of their own,    *)
(* the content of responses and the receive ring, which comm empties in    *)
(* one go.                                                                 *)
(***************************************************************************)
EXTENDS Naturals, FiniteSets

CONSTANTS
  RingSize,     \* CAN_BUF_SIZE_LO
  NumSeqs,      \* 64
  NumUarts,     \* CAN_UART_NUM
  MaxChunks,    \* the messages of one buffer of a CAN UART
  None,         \* the mailbox is free
  \* bounds of the model
  MaxSends,     \* messages of control and of the supervisor
  MaxStreams    \* buffers given to the CAN UARTs

ASSUME CanBusAssumption ==
  /\ RingSize \in Nat /\ RingSize > 1
  /\ {NumSeqs, NumUarts, MaxChunks} \subseteq Nat \ {0}
  /\ None \notin Nat
  /\ {MaxSends, MaxStreams} \subseteq Nat

Slots == 0 .. RingSize - 1
Seqs  == 0 .. NumSeqs - 1
Uarts == 0 .. NumUarts - 1

Tasks == {"control", "supervisor", "comm"}

\* The tasks of a higher priority: control 5, supervisor 34, comm 40.
Urgent == [t \in Tasks |-> CASE t = "control"    -> {}
                             [] t = "supervisor" -> {"control"}
                             [] t = "comm"       -> {"control", "supervisor"}]

VARIABLES
  seqId,        \* the next sequence number
  ring,         \* txMsgsLo
  head, tail,   \* txHeadLo, txTailLo
  irq,          \* the transmit interrupt is pending
  box,          \* the message in mailbox 2
  late,         \* the responses that nodes have still to give
  responses,    \* of each number, whether a response has come
  left,         \* the messages left of the buffer of each CAN UART
  \* the locals of each task, at their initial values when it does not use them
  pc,
  seq,          \* the number it has taken
  slot,         \* the slot it fills, then the head it will store
  waits,        \* the supervisor sends with canSendWaitResponse()
  uart, finished, needFlush,   \* of canUartStream()
  \* history
  fresh,        \* the numbers responded to since the supervisor's request
  sent          \* the messages begun, and the buffers given to the UARTs

bus    == <<irq, box, late>>
queue  == <<ring, head, tail>>
stream == <<uart, finished, needFlush>>
vars   == <<seqId, queue, bus, responses, left, pc, seq, slot, waits, stream, fresh, sent>>

SendPoints   == {"number", "fill", "load", "store", "clear", "trigger"}
StreamPoints == {"check", "uart", "after", "flush"}

TypeOK ==
  /\ seqId \in Seqs
  /\ ring \in [Slots -> Seqs]
  /\ head \in Slots /\ tail \in Slots
  /\ irq \in BOOLEAN
  /\ box \in Seqs \cup {None}
  /\ late \subseteq Seqs
  /\ responses \in [Seqs -> BOOLEAN]
  /\ left \in [Uarts -> 0 .. MaxChunks]
  /\ pc \in [Tasks -> SendPoints \cup StreamPoints \cup {"idle", "wait"}]
  /\ \A t \in Tasks : /\ pc[t] \in StreamPoints => t = "comm"
                      /\ pc[t] = "wait" => t = "supervisor"
  /\ seq \in [Tasks -> Seqs]
  /\ slot \in [Tasks -> Slots]
  /\ waits \in BOOLEAN
  /\ uart \in 0 .. NumUarts
  /\ finished \in 0 .. 2 * NumUarts
  /\ needFlush \in BOOLEAN
  /\ fresh \subseteq Seqs
  /\ sent \in [tasks : 0 .. MaxSends, streams : 0 .. MaxStreams]

Init ==
  /\ seqId = 0
  /\ ring = [s \in Slots |-> 0]
  /\ head = 0 /\ tail = 0
  /\ irq = FALSE
  /\ box = None
  /\ late = {}
  /\ responses = [n \in Seqs |-> FALSE]
  /\ left = [u \in Uarts |-> 0]
  /\ pc = [t \in Tasks |-> "idle"]
  /\ seq = [t \in Tasks |-> 0]
  /\ slot = [t \in Tasks |-> 0]
  /\ waits = FALSE
  /\ uart = 0 /\ finished = 0 /\ needFlush = FALSE
  /\ fresh = {}
  /\ sent = [tasks |-> 0, streams |-> 0]

\* The interrupt goes before every task; a task that waits has yielded.
CanRun(t) == ~irq /\ \A u \in Urgent[t] : pc[u] \in {"idle", "wait"}

At(t, point) == CanRun(t) /\ pc[t] = point

Goto(t, point) == pc' = [pc EXCEPT ![t] = point]

-----------------------------------------------------------------------------
(***************************************************************************)
(* _canSend(), with a step for each access to what another task changes.   *)
(***************************************************************************)

\* canGetSeqId() reads the number and stores the next one.
TakeSeq(t) ==
  /\ seq' = [seq EXCEPT ![t] = seqId]
  /\ Goto(t, "number")

Begin(t, wait) ==
  /\ t # "comm" /\ At(t, "idle")
  /\ sent.tasks < MaxSends
  /\ TakeSeq(t)
  /\ sent' = [sent EXCEPT !.tasks = @ + 1]
  /\ IF t = "supervisor" THEN waits' = wait ELSE ~wait /\ UNCHANGED waits
  /\ UNCHANGED <<seqId, queue, bus, responses, left, slot, stream, fresh>>

NextSeqWide(n) == n + 1

NextSeq(n) == (n + 1) % NumSeqs

Number(t) ==
  /\ At(t, "number")
  /\ seqId' = NextSeq(seq[t])
  /\ slot' = [slot EXCEPT ![t] = head]
  /\ Goto(t, "fill")
  /\ UNCHANGED <<queue, bus, responses, left, seq, waits, stream, fresh, sent>>

Fill(t) ==
  /\ At(t, "fill")
  /\ ring' = [ring EXCEPT ![slot[t]] = seq[t]]
  /\ Goto(t, "load")
  /\ UNCHANGED <<seqId, head, tail, bus, responses, left, seq, slot, waits, stream, fresh, sent>>

LoadHead(t) ==
  /\ At(t, "load")
  /\ slot' = [slot EXCEPT ![t] = (head + 1) % RingSize]
  /\ Goto(t, "store")
  /\ UNCHANGED <<seqId, queue, bus, responses, left, seq, waits, stream, fresh, sent>>

\* A message that would fill the ring is dropped, and counted in txOverflows.
Overflow(t) == slot[t] = tail

StoreHead(t) ==
  /\ At(t, "store")
  /\ head' = IF Overflow(t) THEN head ELSE slot[t]
  /\ slot' = [slot EXCEPT ![t] = 0]
  /\ Goto(t, "clear")
  /\ UNCHANGED <<seqId, ring, tail, bus, responses, left, seq, waits, stream, fresh, sent>>

NotCleared(t) == responses

Cleared(t) == [responses EXCEPT ![seq[t]] = FALSE]

Clear(t) ==
  /\ At(t, "clear")
  /\ responses' = Cleared(t)
  /\ Goto(t, IF t = "comm" THEN "after" ELSE "trigger")
  /\ seq' = [seq EXCEPT ![t] = IF t = "supervisor" /\ waits THEN @ ELSE 0]
  /\ UNCHANGED <<seqId, queue, bus, left, slot, waits, stream, fresh, sent>>

\* canSendBulkFinish()
Trigger(t) ==
  /\ At(t, "trigger")
  /\ irq' = TRUE
  /\ Goto(t, IF t = "supervisor" /\ waits THEN "wait" ELSE "idle")
  /\ UNCHANGED <<seqId, queue, box, late, responses, left, seq, slot, waits, stream, fresh, sent>>

\* canSendWaitResponse() returns with the response, or after CAN_TIMEOUT turns
\* with or without one.
Return ==
  /\ At("supervisor", "wait")
  /\ Goto("supervisor", "idle")
  /\ seq' = [seq EXCEPT !["supervisor"] = 0]
  /\ waits' = FALSE
  /\ fresh' = {}
  /\ UNCHANGED <<seqId, queue, bus, responses, left, slot, stream, sent>>

-----------------------------------------------------------------------------
(***************************************************************************)
(* The comm task: canCheckMessage(), then canUartStream().                 *)
(***************************************************************************)

\* canProcessMessage()
Respond(n) ==
  /\ At("comm", "idle")
  /\ n \in late
  /\ late' = late \ {n}
  /\ responses' = [responses EXCEPT ![n] = TRUE]
  /\ fresh' = IF waits THEN fresh \cup {n} ELSE fresh
  /\ UNCHANGED <<seqId, queue, irq, box, left, pc, seq, slot, waits, stream, sent>>

\* canUartTxBuf(), from comm or from an interrupt: the UART is idle.
Submit(u, n) ==
  /\ left[u] = 0
  /\ sent.streams < MaxStreams
  /\ left' = [left EXCEPT ![u] = n]
  /\ sent' = [sent EXCEPT !.streams = @ + 1]
  /\ UNCHANGED <<seqId, queue, bus, responses, pc, seq, slot, waits, stream, fresh>>

\* With every UART idle the function does nothing.
StartStream ==
  /\ At("comm", "idle")
  /\ \E u \in Uarts : left[u] > 0
  /\ Goto("comm", "check")
  /\ UNCHANGED <<seqId, queue, bus, responses, left, seq, slot, waits, stream, fresh, sent>>

NearlyFullWhenEmpty == tail = head

\* The test that is to prevent overflows; the sum is not taken modulo.
NearlyFull == tail + 1 = head

Check ==
  /\ At("comm", "check")
  /\ IF NearlyFull \/ finished >= NumUarts
     THEN Goto("comm", "flush")
     ELSE Goto("comm", "uart")
  /\ uart' = 0
  /\ UNCHANGED <<seqId, queue, bus, responses, left, seq, slot, waits, finished, needFlush, fresh,
                 sent>>

\* The round over the UARTs.  An idle one is counted again in every round.
NextUart ==
  /\ At("comm", "uart")
  /\ CASE uart = NumUarts ->
            Goto("comm", "check") /\ UNCHANGED <<seq, uart, finished>>
       [] uart # NumUarts /\ left[uart] > 0 ->
            TakeSeq("comm") /\ UNCHANGED <<uart, finished>>
       [] OTHER ->
            uart' = uart + 1 /\ finished' = finished + 1 /\ UNCHANGED <<pc, seq>>
  /\ UNCHANGED <<seqId, queue, bus, responses, left, slot, waits, needFlush, fresh, sent>>

\* With the last message of a buffer the UART is idle and its callback runs.
AfterChunk ==
  /\ At("comm", "after")
  /\ left' = [left EXCEPT ![uart] = @ - 1]
  /\ needFlush' = (left[uart] > 1)
  /\ irq' = (irq \/ left[uart] = 1)
  /\ uart' = uart + 1
  /\ Goto("comm", "uart")
  /\ UNCHANGED <<seqId, queue, box, late, responses, seq, slot, waits, finished, fresh, sent>>

FlushNot == irq

Flushed == irq \/ needFlush

Flush ==
  /\ At("comm", "flush")
  /\ irq' = Flushed
  /\ uart' = 0 /\ finished' = 0 /\ needFlush' = FALSE
  /\ Goto("comm", "idle")
  /\ UNCHANGED <<seqId, queue, box, late, responses, left, seq, slot, waits, fresh, sent>>

-----------------------------------------------------------------------------
(***************************************************************************)
(* CAN_TX_HANDLER and the bus.                                             *)
(***************************************************************************)

TxHandler ==
  /\ irq
  /\ irq' = FALSE
  /\ IF head # tail /\ box = None
     THEN box' = ring[tail] /\ tail' = (tail + 1) % RingSize
     ELSE UNCHANGED <<box, tail>>
  /\ UNCHANGED <<seqId, ring, head, late, responses, left, pc, seq, slot, waits, stream, fresh, sent>>

QuietBox == irq

\* An empty mailbox raises the interrupt again (CAN_IT_TME).
EmptyBox == TRUE

Transmit ==
  /\ box # None
  /\ box' = None
  /\ irq' = EmptyBox
  /\ late' \in {late, late \cup {box}}
  /\ UNCHANGED <<seqId, queue, responses, left, pc, seq, slot, waits, stream, fresh, sent>>

Send(t) == Number(t) \/ Fill(t) \/ LoadHead(t) \/ StoreHead(t) \/ Clear(t) \/ Trigger(t)

Stream == StartStream \/ Check \/ NextUart \/ AfterChunk \/ Flush

Next ==
  \/ \E t \in Tasks, wait \in BOOLEAN : Begin(t, wait)
  \/ \E t \in Tasks : Send(t)
  \/ Return
  \/ \E n \in Seqs : Respond(n)
  \/ \E u \in Uarts, n \in 1 .. MaxChunks : Submit(u, n)
  \/ Stream
  \/ TxHandler
  \/ Transmit

Spec == Init /\ [][Next]_vars

\* The tasks run on, a wait ends, and the controller sends and interrupts.
Fairness ==
  /\ \A t \in Tasks : WF_vars(Send(t))
  /\ WF_vars(Return)
  /\ WF_vars(Stream)
  /\ WF_vars(TxHandler)
  /\ WF_vars(Transmit)

FairSpec == Spec /\ Fairness

-----------------------------------------------------------------------------

\* However the tasks preempt one another in __canSend(), messages never wait for
\* a free mailbox with nobody to start it: an interrupt is pending, or a task is
\* on its way to trigger one.
NoMessageForgotten ==
  head # tail /\ box = None =>
    \/ irq
    \/ needFlush
    \/ \E t \in Tasks : pc[t] \in {"clear", "trigger", "after"}

\* A request is not answered by a response that had come before it was sent, for
\* an older request of the same number.
AnswerFresh ==
  pc["supervisor"] = "wait" /\ responses[seq["supervisor"]] => seq["supervisor"] \in fresh

\* Whatever is in the ring is sent in the end, and both ends of it meet.
Drains == head # tail ~> head = tail /\ box = None

\* A buffer given to a CAN UART comes back.
StreamEnds == \A u \in Uarts : left[u] > 0 ~> left[u] = 0

===============================================================================
