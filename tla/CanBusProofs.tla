----------------------------- MODULE CanBusProofs -----------------------------
(***************************************************************************)
(* Theorems about CanBus, for every value of its constants.                *)
(***************************************************************************)
EXTENDS CanBus, TLAPS

-------------------------------------------------------------------------------
(* The inductive invariant *)

\* While comm sends a message of a stream, the UART it comes from still has it; the
\* UARTs counted as idle in this round are among those passed.
Streaming ==
  /\ pc["comm"] # "trigger"
  /\ pc["comm"] \in SendPoints \cup {"after"} => uart < NumUarts /\ left[uart] > 0
  /\ pc["comm"] \in SendPoints \cup {"after", "uart"} => finished < NumUarts + uart

\* From the moment the old response is forgotten, one that is there came later.
Asking ==
  /\ pc["supervisor"] = "wait" => waits
  /\ pc["supervisor"] \in {"trigger", "wait"} /\ waits /\ responses[seq["supervisor"]]
       => seq["supervisor"] \in fresh

CanInv == TypeOK /\ Streaming /\ NoMessageForgotten /\ Asking

-------------------------------------------------------------------------------

\* The ring and the sequence numbers wrap.
LEMMA Wraps ==
  ASSUME NEW n \in Nat \ {0}, NEW x \in Nat
  PROVE  (x + 1) % n \in 0 .. n - 1
  OBVIOUS

\* One more UART is passed and counted as idle.
LEMMA OneMoreIdle ==
  ASSUME NEW n \in Nat \ {0}, NEW u \in 0 .. n, NEW f \in Nat, u < n, f < n + u
  PROVE  u + 1 \in 0 .. n /\ f + 1 \in 0 .. 2 * n /\ f + 1 < n + (u + 1)
  OBVIOUS

LEMMA Constants ==
  /\ RingSize \in Nat \ {0} /\ NumSeqs \in Nat \ {0} /\ NumUarts \in Nat \ {0}
  /\ MaxChunks \in Nat \ {0} /\ MaxSends \in Nat /\ MaxStreams \in Nat /\ None \notin Nat
  BY CanBusAssumption

LEMMA InvInit == Init => CanInv
  <1> SUFFICES ASSUME Init PROVE CanInv
    OBVIOUS
  <1> USE Constants
  <1>1. 0 \in Seqs /\ 0 \in Slots /\ 0 \in 0 .. MaxChunks /\ 0 \in 0 .. 2 * NumUarts
    BY DEF Seqs, Slots
  <1>2. /\ ring \in [Slots -> Seqs] /\ left \in [Uarts -> 0 .. MaxChunks]
        /\ seq \in [Tasks -> Seqs] /\ slot \in [Tasks -> Slots]
        /\ responses \in [Seqs -> BOOLEAN]
    BY <1>1 DEF Init
  <1>3. sent \in [tasks : 0 .. MaxSends, streams : 0 .. MaxStreams]
    BY DEF Init
  <1>4. /\ pc \in [Tasks -> SendPoints \cup StreamPoints \cup {"idle", "wait"}]
        /\ \A t \in Tasks : pc[t] = "idle"
    BY DEF Init
  <1>5. TypeOK
    <2>1. /\ seqId \in Seqs /\ head \in Slots /\ tail \in Slots
          /\ box \in Seqs \cup {None} /\ late \subseteq Seqs /\ fresh \subseteq Seqs
          /\ uart \in 0 .. NumUarts /\ finished \in 0 .. 2 * NumUarts
      BY <1>1 DEF Init
    <2>2. irq \in BOOLEAN /\ waits \in BOOLEAN /\ needFlush \in BOOLEAN
      BY DEF Init
    <2> QED
      BY <1>2, <1>3, <1>4, <2>1, <2>2 DEF TypeOK, StreamPoints
  <1>6. Streaming /\ NoMessageForgotten /\ Asking
    BY DEF Init, Streaming, NoMessageForgotten, Asking, SendPoints, Tasks
  <1> QED
    BY <1>5, <1>6 DEF CanInv

LEMMA InvStep == CanInv /\ [Next]_vars => CanInv'
  <1> SUFFICES ASSUME CanInv, [Next]_vars PROVE CanInv'
    OBVIOUS
  <1> USE Constants DEF CanInv, TypeOK
  <1>1. ASSUME NEW t \in Tasks, NEW wait \in BOOLEAN, Begin(t, wait) PROVE CanInv'
    <2>1. /\ t # "comm" /\ pc[t] = "idle" /\ sent.tasks < MaxSends
          /\ seq' = [seq EXCEPT ![t] = seqId] /\ pc' = [pc EXCEPT ![t] = "number"]
          /\ sent' = [sent EXCEPT !.tasks = @ + 1]
          /\ waits' \in BOOLEAN /\ (t # "supervisor" => waits' = waits)
          /\ UNCHANGED <<seqId, ring, head, tail, irq, box, late, responses, left, slot>>
          /\ UNCHANGED <<uart, finished, needFlush, fresh>>
      BY <1>1 DEF Begin, At, Goto, TakeSeq, bus, queue, stream
    <2>2. sent' \in [tasks : 0 .. MaxSends, streams : 0 .. MaxStreams]
      BY <2>1
    <2>3. /\ pc' \in [Tasks -> SendPoints \cup StreamPoints \cup {"idle", "wait"}]
          /\ \A r \in Tasks : /\ pc'[r] \in StreamPoints => r = "comm"
                              /\ pc'[r] = "wait" => r = "supervisor"
      BY <2>1 DEF SendPoints, StreamPoints
    <2>4. TypeOK'
      BY <2>1, <2>2, <2>3
    <2>5. Streaming' /\ NoMessageForgotten' /\ Asking'
      BY <2>1 DEF Streaming, NoMessageForgotten, Asking, Tasks, SendPoints
    <2> QED
      BY <2>4, <2>5
  <1>2. ASSUME NEW t \in Tasks, Number(t) PROVE CanInv'
    <2> USE <1>2 DEF Number, At, Goto, bus, queue, stream
    <2>1. NextSeq(seq[t]) \in Seqs
      <3>1. seq[t] \in Nat
        BY DEF Seqs
      <3> QED
        BY <3>1, Wraps DEF Seqs, NextSeq
    <2>2. TypeOK'
      BY <2>1 DEF SendPoints, StreamPoints
    <2>3. Streaming' /\ NoMessageForgotten' /\ Asking'
      BY DEF Streaming, NoMessageForgotten, Asking, Tasks, SendPoints
    <2> QED
      BY <2>2, <2>3
  <1>3. ASSUME NEW t \in Tasks, Fill(t) PROVE CanInv'
    <2> USE <1>3 DEF Fill, At, Goto, bus, queue, stream
    <2>1. TypeOK'
      BY DEF SendPoints, StreamPoints
    <2>2. Streaming' /\ NoMessageForgotten' /\ Asking'
      BY DEF Streaming, NoMessageForgotten, Asking, Tasks, SendPoints
    <2> QED
      BY <2>1, <2>2
  <1>4. ASSUME NEW t \in Tasks, LoadHead(t) PROVE CanInv'
    <2> USE <1>4 DEF LoadHead, At, Goto, bus, queue, stream
    <2>1. (head + 1) % RingSize \in Slots
      BY Wraps DEF Slots
    <2>2. TypeOK'
      BY <2>1 DEF SendPoints, StreamPoints
    <2>3. Streaming' /\ NoMessageForgotten' /\ Asking'
      BY DEF Streaming, NoMessageForgotten, Asking, Tasks, SendPoints
    <2> QED
      BY <2>2, <2>3
  <1>5. ASSUME NEW t \in Tasks, StoreHead(t) PROVE CanInv'
    <2> USE <1>5 DEF StoreHead, At, Goto, bus, queue, stream
    <2>1. TypeOK'
      BY DEF SendPoints, StreamPoints, Slots
    <2>2. Streaming' /\ Asking'
      BY DEF Streaming, Asking, Tasks, SendPoints
    <2>3. NoMessageForgotten'
      BY DEF NoMessageForgotten
    <2> QED
      BY <2>1, <2>2, <2>3
  <1>6. ASSUME NEW t \in Tasks, Clear(t) PROVE CanInv'
    <2>1. /\ pc[t] = "clear" /\ responses' = [responses EXCEPT ![seq[t]] = FALSE]
          /\ pc' = [pc EXCEPT ![t] = IF t = "comm" THEN "after" ELSE "trigger"]
          /\ seq' = [seq EXCEPT ![t] = IF t = "supervisor" /\ waits THEN seq[t] ELSE 0]
          /\ UNCHANGED <<seqId, ring, head, tail, irq, box, late, left, slot, waits>>
          /\ UNCHANGED <<uart, finished, needFlush, fresh, sent>>
      BY <1>6 DEF Clear, Cleared, At, Goto, bus, queue, stream
    <2>2. responses' \in [Seqs -> BOOLEAN] /\ responses'[seq[t]] = FALSE
      BY <2>1
    <2>3. seq' \in [Tasks -> Seqs]
      BY <2>1 DEF Seqs
    <2>4. /\ pc' \in [Tasks -> SendPoints \cup StreamPoints \cup {"idle", "wait"}]
          /\ \A r \in Tasks : /\ pc'[r] \in StreamPoints => r = "comm"
                              /\ pc'[r] = "wait" => r = "supervisor"
      BY <2>1 DEF SendPoints, StreamPoints
    <2>5. TypeOK'
      BY <2>1, <2>2, <2>3, <2>4
    <2>6. Streaming'
      BY <2>1 DEF Streaming, Tasks, SendPoints
    <2>7. NoMessageForgotten'
      BY <2>1 DEF NoMessageForgotten
    <2>8. Asking'
      BY <2>1, <2>2 DEF Asking, Tasks
    <2> QED
      BY <2>5, <2>6, <2>7, <2>8
  <1>7. ASSUME NEW t \in Tasks, Trigger(t) PROVE CanInv'
    <2> USE <1>7 DEF Trigger, At, Goto, bus, queue, stream
    <2>1. TypeOK'
      BY DEF SendPoints, StreamPoints
    <2>2. Streaming' /\ NoMessageForgotten'
      BY DEF Streaming, NoMessageForgotten, Tasks, SendPoints
    <2>3. Asking'
      BY DEF Asking, Tasks
    <2> QED
      BY <2>1, <2>2, <2>3
  <1>8. CASE Return
    <2>1. /\ pc["supervisor"] = "wait" /\ pc' = [pc EXCEPT !["supervisor"] = "idle"]
          /\ seq' = [seq EXCEPT !["supervisor"] = 0] /\ waits' = FALSE /\ fresh' = {}
          /\ UNCHANGED <<seqId, ring, head, tail, irq, box, late, responses, left, slot>>
          /\ UNCHANGED <<uart, finished, needFlush, sent>>
      BY <1>8 DEF Return, At, Goto, bus, queue, stream
    <2>2. seq' \in [Tasks -> Seqs]
      <3>1. 0 \in Seqs
        BY DEF Seqs
      <3> QED
        BY <2>1, <3>1
    <2>3. pc' \in [Tasks -> SendPoints \cup StreamPoints \cup {"idle", "wait"}]
      BY <2>1
    <2>4. \A r \in Tasks : pc'[r] = "idle" \/ pc'[r] = pc[r]
      BY <2>1
    <2>5. TypeOK'
      BY <2>1, <2>2, <2>3, <2>4 DEF StreamPoints
    <2>6. Streaming' /\ NoMessageForgotten' /\ Asking'
      BY <2>1 DEF Streaming, NoMessageForgotten, Asking, Tasks, SendPoints
    <2> QED
      BY <2>5, <2>6
  <1>9. ASSUME NEW n \in Seqs, Respond(n) PROVE CanInv'
    <2> USE <1>9 DEF Respond, At, Goto, bus, queue, stream
    <2>1. TypeOK'
      OBVIOUS
    <2>2. Streaming' /\ NoMessageForgotten'
      BY DEF Streaming, NoMessageForgotten
    <2>3. Asking'
      BY DEF Asking, Tasks
    <2> QED
      BY <2>1, <2>2, <2>3
  <1>10. ASSUME NEW u \in Uarts, NEW n \in 1 .. MaxChunks, Submit(u, n) PROVE CanInv'
    <2> USE <1>10 DEF Submit, bus, queue, stream
    <2>1. TypeOK'
      OBVIOUS
    <2>2. Streaming' /\ NoMessageForgotten' /\ Asking'
      BY SMTT(30) DEF Streaming, NoMessageForgotten, Asking, Uarts
    <2> QED
      BY <2>1, <2>2
  <1>11. CASE Stream
    <2>1. CASE StartStream
      <3> USE <2>1 DEF StartStream, At, Goto, bus, queue, stream
      <3>1. TypeOK'
        BY DEF StreamPoints, Tasks
      <3>2. Streaming' /\ NoMessageForgotten' /\ Asking'
        BY DEF Streaming, NoMessageForgotten, Asking, Tasks, SendPoints
      <3> QED
        BY <3>1, <3>2
    <2>2. CASE Check
      <3> USE <2>2 DEF Check, At, Goto, bus, queue, stream
      <3>1. TypeOK'
        BY DEF StreamPoints, Tasks
      <3>2. Streaming' /\ NoMessageForgotten' /\ Asking'
        BY DEF Streaming, NoMessageForgotten, Asking, Tasks, SendPoints
      <3> QED
        BY <3>1, <3>2
    <2>3. CASE NextUart
      <3> USE <2>3 DEF NextUart, TakeSeq, At, Goto, bus, queue, stream
      <3> USE DEF Streaming, StreamPoints, SendPoints, Tasks, Uarts, NoMessageForgotten, Asking
      <3>1. CASE uart = NumUarts
        <4>1. pc' = [pc EXCEPT !["comm"] = "check"] /\ UNCHANGED <<seq, uart, finished>>
          BY <3>1
        <4> QED
          BY <4>1, <3>1
      <3>2. CASE uart # NumUarts /\ left[uart] > 0
        <4>1. /\ pc' = [pc EXCEPT !["comm"] = "number"] /\ seq' = [seq EXCEPT !["comm"] = seqId]
              /\ UNCHANGED <<uart, finished>>
          BY <3>2
        <4> QED
          BY <4>1, <3>2, SMTT(30)
      <3>3. CASE uart # NumUarts /\ ~(left[uart] > 0)
        <4>1. uart' = uart + 1 /\ finished' = finished + 1 /\ UNCHANGED <<pc, seq>>
          BY <3>3
        <4>2. pc["comm"] = "uart" /\ finished < NumUarts + uart /\ uart < NumUarts
          BY <3>3
        <4>3. uart' \in 0 .. NumUarts /\ finished' \in 0 .. 2 * NumUarts
              /\ finished' < NumUarts + uart'
          <5>1. uart \in 0 .. NumUarts /\ finished \in Nat
            OBVIOUS
          <5> QED
            BY Zenon, <4>1, <4>2, <5>1, OneMoreIdle
        <4>4. TypeOK' /\ Streaming'
          BY <4>1, <4>2, <4>3
        <4>5. NoMessageForgotten' /\ Asking'
          BY <4>1
        <4> QED
          BY <4>4, <4>5
      <3> QED
        BY <3>1, <3>2, <3>3
    <2>4. CASE AfterChunk
      <3> USE <2>4 DEF AfterChunk, At, Goto, bus, queue, stream
      <3>1. uart \in Uarts /\ left[uart] \in 1 .. MaxChunks
        BY DEF Streaming, Uarts
      <3>2. left' \in [Uarts -> 0 .. MaxChunks] /\ uart' \in 0 .. NumUarts
        BY <3>1 DEF Uarts
      <3>3. irq' \in BOOLEAN /\ needFlush' \in BOOLEAN
        OBVIOUS
      <3>4. /\ pc' \in [Tasks -> SendPoints \cup StreamPoints \cup {"idle", "wait"}]
            /\ \A r \in Tasks : /\ pc'[r] \in StreamPoints => r = "comm"
                                /\ pc'[r] = "wait" => r = "supervisor"
        BY DEF StreamPoints, Tasks
      <3>5. TypeOK'
        BY <3>2, <3>3, <3>4
      <3>6. Streaming' /\ Asking'
        BY <3>1 DEF Streaming, Asking, SendPoints, Tasks
      <3>7. irq' \/ needFlush'
        <4>1. left[uart] = 1 \/ left[uart] > 1
          BY <3>1
        <4> QED
          BY <4>1, Zenon
      <3> QED
        BY <3>5, <3>6, <3>7 DEF NoMessageForgotten
    <2>5. CASE Flush
      <3> USE <2>5 DEF Flush, Flushed, At, Goto, bus, queue, stream
      <3>1. /\ pc' \in [Tasks -> SendPoints \cup StreamPoints \cup {"idle", "wait"}]
            /\ \A r \in Tasks : /\ pc'[r] \in StreamPoints => r = "comm"
                                /\ pc'[r] = "wait" => r = "supervisor"
        BY DEF StreamPoints, Tasks
      <3>2. uart' \in 0 .. NumUarts /\ finished' \in 0 .. 2 * NumUarts
        OBVIOUS
      <3>3. irq' \in BOOLEAN /\ needFlush' \in BOOLEAN
        OBVIOUS
      <3>4. TypeOK'
        BY <3>1, <3>2, <3>3
      <3>5. Streaming' /\ NoMessageForgotten' /\ Asking'
        BY DEF Streaming, NoMessageForgotten, Asking, Tasks, SendPoints
      <3> QED
        BY <3>4, <3>5
    <2> QED
      BY <1>11, <2>1, <2>2, <2>3, <2>4, <2>5 DEF Stream
  <1>12. CASE TxHandler
    <2> USE <1>12 DEF TxHandler, bus, queue, stream
    <2>1. (tail + 1) % RingSize \in Slots
      BY Wraps DEF Slots
    <2>2. ring[tail] \in Seqs /\ ring[tail] # None
      BY DEF Seqs
    <2>3. TypeOK'
      <3>1. box' \in Seqs \cup {None} /\ tail' \in Slots
        BY <2>1, <2>2
      <3> QED
        BY <3>1
    <2>4. Streaming' /\ Asking'
      BY DEF Streaming, Asking
    <2>5. NoMessageForgotten'
      <3>1. head' = tail' \/ box' # None
        BY <2>2
      <3> QED
        BY <3>1 DEF NoMessageForgotten
    <2> QED
      BY <2>3, <2>4, <2>5
  <1>13. CASE Transmit
    <2> USE <1>13 DEF Transmit, EmptyBox, bus, queue, stream
    <2>1. TypeOK'
      OBVIOUS
    <2>2. Streaming' /\ NoMessageForgotten' /\ Asking'
      BY DEF Streaming, NoMessageForgotten, Asking
    <2> QED
      BY <2>1, <2>2
  <1>14. CASE UNCHANGED vars
    BY <1>14 DEF vars, bus, queue, stream, Streaming, NoMessageForgotten, Asking
  <1> QED
    BY <1>1, <1>2, <1>3, <1>4, <1>5, <1>6, <1>7, <1>8, <1>9, <1>10, <1>11, <1>12, <1>13, <1>14
    DEF Next, Send

\* The invariant is inductive: the types, at most one stream in its rounds, a message in
\* the ring that somebody will send, and a waiting task whose request has no older
\* response.
THEOREM Inductive == Spec => []CanInv
  <1> QED
    BY InvInit, InvStep, PTL DEF Spec

\* Every variable keeps its type: the ring is written and read within its bounds,
\* the counter of idle UARTs within two rounds, in every interleaving of the tasks
\* and for any ring, numbers and UARTs.
THEOREM CanTypes == Spec => []TypeOK
  <1>1. CanInv => TypeOK
    BY DEF CanInv
  <1> QED
    BY <1>1, Inductive, PTL

\* Whatever the interleaving of the unprotected __canSend()s, a message in the ring
\* with a free mailbox has an interrupt pending or a task about to raise one.
THEOREM CanForgetsNothing == Spec => []NoMessageForgotten
  <1>1. CanInv => NoMessageForgotten
    BY DEF CanInv
  <1> QED
    BY <1>1, Inductive, PTL

\* A request that waits is never answered by a response from before it was sent,
\* whoever used its number since.
THEOREM CanAnswersFresh == Spec => []AnswerFresh
  <1>1. CanInv => AnswerFresh
    BY DEF CanInv, Asking, AnswerFresh
  <1> QED
    BY <1>1, Inductive, PTL
===============================================================================
