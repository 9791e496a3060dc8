------------------------------ MODULE FilerProofs ------------------------------
(***************************************************************************)
(* Theorems about Filer, for every value of its constants.                 *)
(***************************************************************************)
EXTENDS Filer, SequenceTheorems, TLAPS

-------------------------------------------------------------------------------
(* The inductive invariant *)

\* The log keeps its slot, no request is made of it and no other file is a stream.
Table ==
  /\ slot[Stream].alloc /\ slot[Stream].name = NoFile /\ slot[Stream].func = "STREAM"
  /\ \A s \in Slots \ {Stream} :
       /\ slot[s].func # "STREAM" /\ slot[s].open # LogFile
       /\ slot[s].func # "NONE" => slot[s].name \in Names

\* A client that uses a file has a slot of its own.
Own == client \notin {"idle", "told"} => job.slot # Stream /\ slot[job.slot].name \in Names

\* The filer deals with the log and with requests at the right slots, and what it is
\* writing is still in the buffer.
Dealing ==
  /\ pc \in {"stream", "write"} => at = Stream
  /\ pc \in {"work", "done", "notify"} => at # Stream
  /\ pc = "write" => size <= lag

FilerInv == TypeOK /\ Table /\ Own /\ Dealing /\ StreamInStep

-------------------------------------------------------------------------------
(* Updates of the file table *)

LEMMA SetSlot ==
  ASSUME slot \in [Slots -> Slot], NEW s \in Slots, NEW f \in Slot, Set(s, f)
  PROVE  /\ slot' \in [Slots -> Slot]
         /\ slot'[s] = f
         /\ \A o \in Slots \ {s} : slot'[o] = slot[o]
  BY DEF Set

\* The fields that the actions change, one at a time.
LEMMA SlotFields ==
  ASSUME NEW f \in Slot
  PROVE  /\ \A v \in Funcs : [f EXCEPT !.func = v] \in Slot
         /\ \A v \in Funcs, b \in BOOLEAN : [f EXCEPT !.func = v, !.complete = b] \in Slot
         /\ \A b \in BOOLEAN : [f EXCEPT !.complete = b] \in Slot
         /\ \A b \in BOOLEAN : [f EXCEPT !.alloc = b] \in Slot
         /\ [f EXCEPT !.open = LogFile] \in Slot
         /\ \A n \in Names : [f EXCEPT !.alloc = TRUE, !.name = n, !.complete = FALSE] \in Slot
         /\ Shut(f) \in Slot
         /\ \A v \in Statuses : [Shut(f) EXCEPT !.status = v] \in Slot
         /\ [Shut(f) EXCEPT !.complete = TRUE] \in Slot
         /\ [Shut(f) EXCEPT !.open = Stale] \in Slot
         /\ \A o \in Names, p \in Nat, v \in Statuses :
              [f EXCEPT !.open = o, !.pos = p, !.status = v] \in Slot
  BY DEF Slot, Shut, Funcs, Statuses

\* The table is kept by a change of another slot that makes no stream of it.
LEMMA TableSlot ==
  ASSUME TypeOK, Table, NEW s \in Slots \ {Stream}, NEW f \in Slot, Set(s, f),
         f.func # "STREAM", f.open # LogFile, f.func # "NONE" => f.name \in Names
  PROVE  slot' \in [Slots -> Slot] /\ Table'
  <1>1. /\ slot' \in [Slots -> Slot] /\ slot'[s] = f
        /\ \A o \in Slots \ {s} : slot'[o] = slot[o]
    BY SetSlot DEF TypeOK
  <1> QED
    BY <1>1, FilerAssumption DEF Table

-------------------------------------------------------------------------------
(* The invariant holds in the initial state and is kept by every step. *)

LEMMA InvInit == Init => FilerInv
  <1> SUFFICES ASSUME Init PROVE FilerInv
    OBVIOUS
  <1> USE FilerAssumption
  <1>1. ASSUME NEW s \in Slots
        PROVE  /\ slot[s] \in Slot
               /\ s = Stream => slot[s].alloc /\ slot[s].name = NoFile /\ slot[s].func = "STREAM"
               /\ s # Stream => slot[s].func = "NONE" /\ slot[s].open = NoFile
    <2> DEFINE f == [alloc |-> s = Stream, name |-> NoFile, open |-> NoFile, pos |-> 0,
                     func |-> IF s = Stream THEN "STREAM" ELSE "NONE",
                     status |-> "end", complete |-> FALSE]
    <2>1. slot[s] = f
      BY Zenon DEF Init
    <2>2. (s = Stream) \in BOOLEAN
      OBVIOUS
    <2>3. f \in Slot
      BY <2>2 DEF Slot, Funcs, Statuses
    <2>4. s = Stream => f.alloc /\ f.name = NoFile /\ f.func = "STREAM"
      OBVIOUS
    <2>5. s # Stream => f.func = "NONE" /\ f.open = NoFile
      OBVIOUS
    <2> HIDE DEF f
    <2> QED
      BY <2>1, <2>3, <2>4, <2>5
  <1>2. slot \in [Slots -> Slot]
    <2>1. slot = [s \in Slots |-> slot[s]]
      BY DEF Init
    <2> QED
      BY <1>1, <2>1
  <1>3. TypeOK
    <2>1. <<>> \in Seq(Nat)
      BY EmptySeq
    <2>2. card \in [Names -> Seq(Nat)] /\ got \in Seq(Nat)
      BY <2>1 DEF Init
    <2>3. job \in [name : Names, how : {"READ", "WRITE"}, slot : Slots]
      BY DEF Init
    <2>4. 0 \in Slots
      BY DEF Slots
    <2>5. head \in 0 .. RingSize - 1 /\ tail \in 0 .. RingSize - 1 /\ size \in 0 .. RingSize
          /\ errors \in 0 .. MaxErrors /\ logged \in 0 .. MaxLogged /\ lag \in Nat /\ buf \in Nat
      BY DEF Init
    <2> QED
      BY <1>2, <2>2, <2>3, <2>4, <2>5 DEF Init, TypeOK
  <1>4. Table /\ Own /\ Dealing
    BY <1>1 DEF Init, Table, Own, Dealing, NoFile, LogFile
  <1>5. StreamInStep
    BY DEF Init, StreamInStep, Wrap
  <1> QED
    BY <1>3, <1>4, <1>5 DEF FilerInv

LEMMA InvHost == FilerInv /\ Host => FilerInv'
  <1> SUFFICES ASSUME FilerInv, Host PROVE FilerInv'
    OBVIOUS
  <1>1. /\ UNCHANGED <<filerVars, filerFlag, slot, diskVars, clientVars, logVars, history>>
        /\ usb' \in BOOLEAN /\ msc' \in {"DISABLE", "EJECT", "REQUEST", "ACTIVE"}
    BY DEF FilerInv, TypeOK, Host, Unplug, EnableMSC, EjectMSC, hostUnchanged
  <1> QED
    BY <1>1 DEF FilerInv, TypeOK, Table, Own, Dealing, StreamInStep, filerVars, diskVars, clientVars,
                logVars, history, Wrap

LEMMA InvLog == FilerInv /\ Log => FilerInv'
  <1> SUFFICES ASSUME FilerInv, Log PROVE FilerInv'
    OBVIOUS
  <1> USE FilerAssumption DEF Log, filerVars, diskVars, clientVars, history
  <1>1. head' \in 0 .. RingSize - 1 /\ lag' \in 0 .. RingSize - 1 /\ head' = Wrap(tail + lag')
    BY DEF FilerInv, TypeOK, StreamInStep, Wrap
  <1>2. StreamInStep'
    BY <1>1 DEF StreamInStep, Wrap
  <1>3. TypeOK'
    BY <1>1 DEF FilerInv, TypeOK
  <1>4. Table' /\ Own' /\ Dealing'
    BY DEF FilerInv, TypeOK, Table, Own, Dealing
  <1> QED
    BY <1>2, <1>3, <1>4 DEF FilerInv

\* What is left to show of an action of a client that keeps its file.
LEMMA ClientRest ==
  ASSUME FilerInv, clientUnchanged, job' = job, slot' \in [Slots -> Slot], Table',
         client \notin {"idle", "told"}, slot'[job.slot].name = slot[job.slot].name,
         client' \in {"use", "wait", "end", "closing", "told"},
         buf' \in Nat, got' \in Seq(Nat), ok' \in BOOLEAN, filerFlag' \in BOOLEAN,
         clean' = clean, dirty' \subseteq Slots
  PROVE  FilerInv'
  <1> USE DEF clientUnchanged, filerVars, diskVars, logVars, FilerInv
  <1>1. TypeOK'
    BY DEF TypeOK
  <1>2. Own' /\ Dealing' /\ StreamInStep'
    BY DEF Own, Dealing, StreamInStep, Wrap
  <1> QED
    BY <1>1, <1>2

\* A request, or the release of the handle.
LEMMA RequestedSlot ==
  ASSUME NEW f \in Slot, NEW func \in Funcs
  PROVE  /\ Requested(f, func) \in Slot
         /\ Requested(f, func).func = func
         /\ Requested(f, func).open = f.open /\ Requested(f, func).name = f.name
  <1>1. Requested(f, func) \in Slot
    BY SlotFields DEF Requested
  <1>2. /\ Requested(f, func).func = func
        /\ Requested(f, func).open = f.open /\ Requested(f, func).name = f.name
    BY DEF Requested, Slot
  <1> QED
    BY <1>1, <1>2

LEMMA ReleasedSlot ==
  ASSUME NEW f \in Slot
  PROVE  /\ [f EXCEPT !.alloc = FALSE] \in Slot
         /\ [f EXCEPT !.alloc = FALSE].func = f.func
         /\ [f EXCEPT !.alloc = FALSE].open = f.open
         /\ [f EXCEPT !.alloc = FALSE].name = f.name
  <1>1. [f EXCEPT !.alloc = FALSE] \in Slot
    BY SlotFields
  <1>2. /\ [f EXCEPT !.alloc = FALSE].func = f.func
        /\ [f EXCEPT !.alloc = FALSE].open = f.open
        /\ [f EXCEPT !.alloc = FALSE].name = f.name
    BY DEF Slot
  <1> QED
    BY <1>1, <1>2

LEMMA HandleChange ==
  ASSUME FilerInv, client \notin {"idle", "told"}, NEW f \in Slot, Set(job.slot, f),
         f.open = handle.open, f.name = handle.name, f.func # "STREAM"
  PROVE  slot' \in [Slots -> Slot] /\ Table' /\ slot'[job.slot].name = slot[job.slot].name
  <1>1. job.slot \in Slots \ {Stream} /\ handle.open # LogFile /\ f.name \in Names
    BY DEF FilerInv, TypeOK, Own, Table, handle
  <1>2. slot' \in [Slots -> Slot] /\ Table'
    BY <1>1, TableSlot DEF FilerInv
  <1>3. slot'[job.slot] = f
    BY <1>1, SetSlot DEF FilerInv, TypeOK
  <1> QED
    BY <1>2, <1>3 DEF handle

LEMMA InvClient == FilerInv /\ Client => FilerInv'
  <1> SUFFICES ASSUME FilerInv, Client PROVE FilerInv'
    OBVIOUS
  <1> USE FilerAssumption
  <1>t. /\ slot \in [Slots -> Slot] /\ slot[job.slot] \in Slot /\ job.slot \in Slots
        /\ job.name \in Names /\ job.how \in {"READ", "WRITE"}
    BY DEF FilerInv, TypeOK
  <1>1. CASE Open
    <2>1. PICK n \in Names, how \in {"READ", "WRITE"}, s \in Slots :
            /\ First(s, n) /\ job' = [name |-> n, how |-> how, slot |-> s]
            /\ Set(s, [slot[s] EXCEPT !.alloc = TRUE, !.name = n, !.complete = FALSE])
            /\ clean' = (s \notin dirty)
      BY <1>1 DEF Open
    <2> DEFINE f == [slot[s] EXCEPT !.alloc = TRUE, !.name = n, !.complete = FALSE]
    <2>2. s # Stream
      BY <2>1 DEF First, Fit, FilerInv, Table
    <2>3. slot[s] \in Slot /\ f \in Slot
      BY <1>t, SlotFields
    <2>4. f.func = slot[s].func /\ f.open = slot[s].open /\ f.name = n
      BY <2>3 DEF Slot
    <2>5. slot' \in [Slots -> Slot] /\ Table' /\ slot'[s] = f
      <3> HIDE DEF f
      <3>1. Set(s, f)
        BY <2>1 DEF f
      <3> QED
        BY <2>2, <2>3, <2>4, <3>1, TableSlot, SetSlot DEF FilerInv, Table, TypeOK
    <2>6. Own'
      BY <2>1, <2>2, <2>4, <2>5 DEF Own
    <2>7. TypeOK'
      <3>1. job' \in [name : Names, how : {"READ", "WRITE"}, slot : Slots] /\ clean' \in BOOLEAN
        BY <2>1
      <3>2. <<>> \in Seq(Nat)
        BY EmptySeq
      <3> QED
        BY <1>1, <2>5, <3>1, <3>2 DEF Open, clientUnchanged, filerVars, diskVars, logVars, FilerInv, TypeOK
    <2> QED
      BY <1>1, <2>5, <2>6, <2>7 DEF Open, clientUnchanged, filerVars, logVars, FilerInv, Dealing,
                                    StreamInStep, Wrap
  <1>u. UNCHANGED slot => slot' \in [Slots -> Slot] /\ Table'
    BY DEF FilerInv, TypeOK, Table
  <1>h. handle \in Slot /\ (client \notin {"idle", "told"} => handle.func # "STREAM")
    BY <1>t DEF handle, FilerInv, Own, Table
  <1>2. CASE Ask
    <2>1. CASE initialized
      <3> DEFINE f == Requested(handle, job.how)
      <3>1. f \in Slot /\ f.func = job.how /\ f.open = handle.open /\ f.name = handle.name
        BY <1>h, <1>t, RequestedSlot DEF Funcs
      <3>2. Set(job.slot, f) /\ client \notin {"idle", "told"} /\ f.func # "STREAM"
        BY <1>t, <1>2, <2>1, <3>1 DEF Ask
      <3> HIDE DEF f
      <3>3. slot' \in [Slots -> Slot] /\ Table' /\ slot'[job.slot].name = slot[job.slot].name
        BY <3>1, <3>2, HandleChange
      <3>4. buf' \in Nat
        <4>1. CASE job.how = "WRITE"
          <5>1. Len(got) + 1 \in 1 .. Len(NewLines)
            BY <1>2, <4>1, LenProperties DEF Ask, FilerInv, TypeOK
          <5> QED
            BY <1>2, <2>1, <4>1, <5>1, ElementOfSeq DEF Ask
        <4> QED
          BY <1>2, <2>1, <4>1 DEF Ask, FilerInv, TypeOK
      <3> QED
        BY <1>2, <2>1, <3>3, <3>4, ClientRest DEF Ask, FilerInv, TypeOK
    <2> QED
      BY <1>2, <2>1, <1>u, ClientRest DEF Ask, FilerInv, TypeOK
  <1>3. CASE Return
    <2>1. Append(got, buf) \in Seq(Nat)
      BY AppendProperties DEF FilerInv, TypeOK
    <2>2. got' \in Seq(Nat) /\ ok' \in BOOLEAN
      BY <1>3, <2>1 DEF Return, FilerInv, TypeOK
    <2> QED
      BY <1>3, <2>2, <1>u, ClientRest DEF Return, FilerInv, TypeOK
  <1>4. CASE Finish
    BY <1>4, <1>u, ClientRest DEF Finish, FilerInv, TypeOK
  <1>5. CASE Close
    <2>1. CASE handle.open # NoFile
      <3> DEFINE f == Requested(handle, "CLOSE")
      <3>1. f \in Slot /\ f.func = "CLOSE" /\ f.open = handle.open /\ f.name = handle.name
        BY <1>h, RequestedSlot DEF Funcs
      <3>2. Set(job.slot, f) /\ client \notin {"idle", "told"}
        BY <1>5, <2>1 DEF Close
      <3> HIDE DEF f
      <3>3. slot' \in [Slots -> Slot] /\ Table' /\ slot'[job.slot].name = slot[job.slot].name
        BY <3>1, <3>2, HandleChange
      <3> QED
        BY <1>5, <2>1, <3>3, ClientRest DEF Close, FilerInv, TypeOK
    <2>2. CASE handle.open = NoFile
      <3>1. slot' \in [Slots -> Slot] /\ Table' /\ slot'[job.slot].name = slot[job.slot].name
        BY <1>h, <1>5, <2>2, ReleasedSlot, HandleChange DEF Close
      <3>2. /\ client = "end" /\ client' = "told" /\ buf' \in Nat /\ UNCHANGED filerFlag
            /\ UNCHANGED <<job, got, ok, clean, dirty>> /\ clientUnchanged
        BY <1>5, <2>2 DEF Close
      <3> QED
        BY <3>1, <3>2, ClientRest DEF FilerInv, TypeOK
    <2> QED
      BY <2>1, <2>2
  <1>6. CASE Closed
    <2>1. slot' \in [Slots -> Slot] /\ Table' /\ slot'[job.slot].name = slot[job.slot].name
      BY <1>h, <1>6, ReleasedSlot, HandleChange DEF Closed
    <2>2. dirty' \subseteq Slots
      BY <1>6 DEF Closed, FilerInv, TypeOK
    <2> QED
      BY <1>6, <2>1, <2>2, ClientRest DEF Closed, FilerInv, TypeOK
  <1>7. CASE Rest
    <2>1. <<>> \in Seq(Nat)
      BY EmptySeq
    <2>2. /\ client' = "idle" /\ got' \in Seq(Nat) /\ ok' \in BOOLEAN
          /\ UNCHANGED <<job, buf, filerFlag, slot, clean, dirty>> /\ clientUnchanged
      BY <1>7, <2>1 DEF Rest
    <2>3. TypeOK'
      BY <2>2 DEF FilerInv, TypeOK, clientUnchanged, filerVars, diskVars, logVars
    <2> QED
      BY <2>2, <2>3, <1>u DEF FilerInv, Own, Dealing, StreamInStep, Wrap, clientUnchanged,
                              filerVars, logVars
  <1> QED
    BY <1>1, <1>2, <1>3, <1>4, <1>5, <1>6, <1>7 DEF Client

-------------------------------------------------------------------------------
(* The steps of the filer task *)

\* A bounded count of errors.
LEMMA ErrorCount == TypeOK /\ (Fails \/ Works) => errors' \in 0 .. MaxErrors
  BY FilerAssumption DEF TypeOK, Fails, Works

\* What is left to show of a step that keeps the names of the files and the log buffer.
LEMMA FilerRest ==
  ASSUME FilerInv, slot' \in [Slots -> Slot], Table',
         \A s \in Slots : slot'[s].name = slot[s].name,
         pc' \in {"restart", "mount", "loop", "scan", "work", "done", "notify", "stream", "write",
                 "flush", "close", "clear", "wait"},
         at' \in Slots, initialized' \in BOOLEAN, filerFlag' \in BOOLEAN,
         msc' \in {"DISABLE", "EJECT", "REQUEST", "ACTIVE"},
         card' \in [Names -> Seq(Nat)], errors' \in 0 .. MaxErrors, buf' \in Nat,
         clean' \in BOOLEAN, dirty' \subseteq Slots, broken' \in BOOLEAN,
         UNCHANGED <<usb, size, client, job, got, ok, logVars>>,
         pc' \in {"stream", "write"} => at' = Stream,
         pc' \in {"work", "done", "notify"} => at' # Stream,
         pc' # "write"
  PROVE  FilerInv'
  <1>1. TypeOK'
    BY DEF FilerInv, TypeOK, logVars
  <1>2. Own' /\ Dealing' /\ StreamInStep'
    BY DEF FilerInv, TypeOK, Own, Dealing, StreamInStep, Wrap, logVars
  <1> QED
    BY <1>1, <1>2 DEF FilerInv

LEMMA NextSlotIn == TypeOK /\ NextSlot => at' \in Slots /\ pc' \in {"scan", "clear"}
  BY DEF TypeOK, NextSlot

\* The steps that do not touch the file table.
LEMMA InvLoop ==
  FilerInv /\ (HandOver \/ Restart \/ Surrender \/ Begin \/ Scan \/ ClearFlag \/ Wake) => FilerInv'
  <1> SUFFICES ASSUME FilerInv,
                      HandOver \/ Restart \/ Surrender \/ Begin \/ Scan \/ ClearFlag \/ Wake
               PROVE  FilerInv'
    OBVIOUS
  <1> USE FilerAssumption
  <1>1. 0 \in Slots
    BY DEF Slots
  <1> DEFINE Steps == {"restart", "mount", "loop", "scan", "work", "stream", "flush", "clear", "wait"}
  <1>2. /\ UNCHANGED <<slot, usb, size, card, clientVars, logVars, history>>
        /\ pc' \in Steps /\ msc' \in {"DISABLE", "EJECT", "REQUEST", "ACTIVE"}
        /\ initialized' \in BOOLEAN /\ filerFlag' \in BOOLEAN
    <2>1. CASE HandOver
      BY <2>1 DEF HandOver, FilerInv, TypeOK, filerVars
    <2>2. CASE Restart \/ Surrender
      BY <2>2 DEF Restart, Surrender, FilerInv, TypeOK, diskVars
    <2>3. CASE Begin
      BY <2>3 DEF Begin, FilerInv, TypeOK
    <2>4. CASE Scan
      BY <2>4 DEF Scan, NextSlot, FilerInv, TypeOK, diskVars
    <2>5. CASE ClearFlag \/ Wake
      BY <2>5 DEF ClearFlag, Wake, FilerInv, TypeOK, diskVars
    <2> QED
      BY <2>1, <2>2, <2>3, <2>4, <2>5
  <1>3. errors' \in 0 .. MaxErrors
    BY ErrorCount DEF FilerInv, TypeOK, HandOver, Restart, Surrender, Begin, Scan, ClearFlag, Wake, diskVars
  <1>4. at' \in Slots
    BY <1>1, NextSlotIn DEF FilerInv, TypeOK, HandOver, Restart, Surrender, Begin, Scan, ClearFlag,
                            Wake, filerVars
  <1>5. pc' = "stream" => at' = Stream
    BY DEF FilerInv, TypeOK, Table, HandOver, Restart, Surrender, Begin, Scan, NextSlot, ClearFlag,
           Wake, filerVars
  <1>6. pc' = "work" => at' # Stream
    BY DEF FilerInv, TypeOK, Table, HandOver, Restart, Surrender, Begin, Scan, NextSlot, ClearFlag,
           Wake, filerVars
  <1>7. Table'
    BY <1>2 DEF FilerInv, Table
  <1> QED
    BY <1>2, <1>3, <1>4, <1>5, <1>6, <1>7, FilerRest DEF FilerInv, TypeOK, clientVars, history

\* Mounting closes the files and signals their completion.
LEMMA InvMount == FilerInv /\ Mount => FilerInv'
  <1> SUFFICES ASSUME FilerInv, Mount PROVE FilerInv'
    OBVIOUS
  <1> USE FilerAssumption
  <1>1. ASSUME NEW s \in Slots
        PROVE  /\ slot'[s] \in Slot /\ slot'[s].alloc = slot[s].alloc
               /\ slot'[s].name = slot[s].name /\ slot'[s].func = slot[s].func
               /\ slot'[s].open \in {NoFile, Stale}
    <2>1. slot[s] \in Slot
      BY DEF FilerInv, TypeOK
    <2>2. CASE slot[s].alloc
      <3>1. slot'[s] = [Shut(slot[s]) EXCEPT !.complete = TRUE]
        BY <2>2 DEF Mount, ResetTable
      <3>2. slot'[s] \in Slot
        BY <2>1, <3>1, SlotFields
      <3> QED
        BY <2>1, <3>1, <3>2 DEF Slot, Shut
    <2>3. CASE ~slot[s].alloc /\ slot[s].open = NoFile
      <3>1. slot'[s] = slot[s]
        BY <2>3 DEF Mount, ResetTable
      <3> QED
        BY <2>1, <2>3, <3>1
    <2>4. CASE ~slot[s].alloc /\ slot[s].open # NoFile
      <3>1. slot'[s] = [Shut(slot[s]) EXCEPT !.open = Stale]
        BY <2>4 DEF Mount, ResetTable
      <3>2. slot'[s] \in Slot
        BY <2>1, <3>1, SlotFields
      <3> QED
        BY <2>1, <3>1, <3>2 DEF Slot, Shut
    <2> QED
      BY <2>2, <2>3, <2>4
  <1>2. slot' \in [Slots -> Slot]
    <2>1. slot' = [s \in Slots |-> slot'[s]]
      BY DEF Mount, ResetTable
    <2> QED
      BY <1>1, <2>1
  <1>3. Table'
    BY <1>1 DEF FilerInv, Table, NoFile, Stale, LogFile
  <1>4. clean' \in BOOLEAN /\ dirty' \subseteq Slots /\ broken' \in BOOLEAN
    BY DEF Mount, FilerInv, TypeOK
  <1> QED
    BY <1>1, <1>2, <1>3, <1>4, FilerRest DEF Mount, FilerInv, TypeOK, diskVars, clientVars

-------------------------------------------------------------------------------
(* Requests *)

\* The file a valid request is for.
LEMMA FileName ==
  ASSUME FilerInv, pc = "work", slot[at].func # "NONE", Valid
  PROVE  /\ at \in Slots \ {Stream} /\ File \in Names /\ Place \in Nat
         /\ card[File] \in Seq(Nat)
  <1>1. at \in Slots \ {Stream} /\ slot[at] \in Slot
    BY DEF FilerInv, TypeOK, Dealing
  <1>2. slot[at].name \in Names /\ slot[at].open \in Names \cup {NoFile}
    BY <1>1 DEF FilerInv, Table, Valid, Slot
  <1>3. File \in Names
    BY <1>2 DEF File
  <1>4. Place \in Nat
    BY <1>1 DEF Place, Slot
  <1> QED
    BY <1>1, <1>3, <1>4 DEF FilerInv, TypeOK

\* A request that is dealt with changes its slot only.
LEMMA WorkRest ==
  ASSUME FilerInv, pc = "work", pc' = "done", NEW f \in Slot, Set(at, f),
         f.name = slot[at].name, f.func = slot[at].func, f.open # LogFile,
         errors' \in 0 .. MaxErrors, card' \in [Names -> Seq(Nat)], buf' \in Nat,
         clean' \in BOOLEAN, UNCHANGED dirty, workUnchanged
  PROVE  FilerInv'
  <1>1. at \in Slots \ {Stream}
    BY DEF FilerInv, TypeOK, Dealing
  <1>2. slot' \in [Slots -> Slot] /\ Table'
    BY <1>1, TableSlot DEF FilerInv, Table
  <1>3. \A s \in Slots : slot'[s].name = slot[s].name
    BY <1>1, SetSlot, SMTT(30) DEF FilerInv, TypeOK
  <1> QED
    BY <1>1, <1>2, <1>3, FilerRest DEF FilerInv, TypeOK, workUnchanged

\* A failed request.
LEMMA WorkFailed ==
  ASSUME FilerInv, pc = "work", pc' = "done", slot[at].func # "NONE", Failed,
         clean' \in BOOLEAN, UNCHANGED dirty, workUnchanged
  PROVE  FilerInv'
  <1> DEFINE f == [Shut(slot[at]) EXCEPT !.status = "error"]
  <1>1. slot[at] \in Slot
    BY DEF FilerInv, TypeOK
  <1>2. f \in Slot
    BY <1>1, SlotFields DEF Statuses
  <1>3. f.name = slot[at].name /\ f.func = slot[at].func /\ f.open # LogFile
    BY <1>1 DEF Slot, Shut, NoFile, LogFile
  <1>4. Set(at, f) /\ UNCHANGED <<card, buf>>
    BY DEF Failed
  <1>5. errors' \in 0 .. MaxErrors
    BY ErrorCount DEF Failed, FilerInv
  <1> HIDE DEF f
  <1> QED
    BY <1>2, <1>3, <1>4, <1>5, WorkRest DEF FilerInv, TypeOK

\* A request that is carried out leaves its file open.
LEMMA WorkDone ==
  ASSUME FilerInv, pc = "work", pc' = "done", slot[at].func # "NONE", Valid, Works,
         NEW p \in Nat, NEW v \in Statuses,
         Set(at, [slot[at] EXCEPT !.open = File, !.pos = p, !.status = v]),
         card' \in [Names -> Seq(Nat)], buf' \in Nat, UNCHANGED <<clean, dirty>>, workUnchanged
  PROVE  FilerInv'
  <1> DEFINE f == [slot[at] EXCEPT !.open = File, !.pos = p, !.status = v]
  <1>1. slot[at] \in Slot /\ File \in Names
    BY FileName DEF FilerInv, TypeOK
  <1>2. f \in Slot
    BY <1>1, SlotFields
  <1>3. f.name = slot[at].name /\ f.func = slot[at].func /\ f.open = File
    BY <1>1 DEF Slot
  <1>4. File # LogFile
    BY <1>1, FilerAssumption
  <1>5. errors' \in 0 .. MaxErrors
    BY ErrorCount DEF FilerInv
  <1> HIDE DEF f
  <1>6. Set(at, f)
    BY DEF f
  <1> QED
    BY <1>2, <1>3, <1>4, <1>5, <1>6, WorkRest DEF FilerInv, TypeOK

LEMMA InvWork == FilerInv /\ (ProcessRead \/ ProcessWrite \/ ProcessClose) => FilerInv'
  <1> SUFFICES ASSUME FilerInv, ProcessRead \/ ProcessWrite \/ ProcessClose PROVE FilerInv'
    OBVIOUS
  <1>1. pc = "work" /\ pc' = "done" /\ slot[at].func # "NONE" /\ UNCHANGED dirty /\ workUnchanged
    BY DEF ProcessRead, ProcessWrite, ProcessClose, Work
  <1>2. CASE ProcessRead
    <2>1. CASE Failed
      BY <1>1, <1>2, <2>1, WorkFailed DEF ProcessRead, FilerInv, TypeOK
    <2>2. CASE ~Failed
      <3> DEFINE more == Place < Len(card[File])
                 p    == IF more THEN Place + 1 ELSE Place
                 v    == IF more THEN "bytes" ELSE "end"
      <3>1. /\ Valid /\ Works /\ UNCHANGED <<card, clean, dirty>>
            /\ Set(at, [slot[at] EXCEPT !.open = File, !.pos = p, !.status = v])
            /\ buf' = IF more THEN card[File][Place + 1] ELSE buf
        BY <1>2, <2>2 DEF ProcessRead
      <3>2. File \in Names /\ Place \in Nat /\ card[File] \in Seq(Nat)
        BY <1>1, <3>1, FileName
      <3>3. p \in Nat /\ v \in Statuses
        BY <3>2 DEF Statuses
      <3>4. buf' \in Nat
        <4>1. CASE more
          <5>1. Place + 1 \in 1 .. Len(card[File])
            BY <3>2, <4>1, LenProperties
          <5> QED
            BY <3>1, <3>2, <4>1, <5>1, ElementOfSeq
        <4> QED
          BY <3>1, <4>1 DEF FilerInv, TypeOK
      <3> HIDE DEF p, v, more
      <3> QED
        BY <1>1, <3>1, <3>3, <3>4, WorkDone DEF FilerInv, TypeOK
    <2> QED
      BY <2>1, <2>2
  <1>3. CASE ProcessWrite
    <2>1. CASE Failed
      BY <1>1, <1>3, <2>1, WorkFailed DEF ProcessWrite, FilerInv, TypeOK
    <2>2. CASE ~Failed
      <3>1. /\ Valid /\ Works /\ UNCHANGED <<buf, clean, dirty>>
            /\ Set(at, [slot[at] EXCEPT !.open = File, !.pos = Len(Written), !.status = "bytes"])
            /\ card' = [card EXCEPT ![File] = Written]
        BY <1>3, <2>2 DEF ProcessWrite
      <3>2. File \in Names /\ Place \in Nat /\ card[File] \in Seq(Nat)
        BY <1>1, <3>1, FileName
      <3>3. Written \in Seq(Nat)
        <4>1. CASE at \in dirty \/ Place > Len(card[File])
          BY <4>1 DEF Written, Spoiled
        <4>2. CASE ~(at \in dirty \/ Place > Len(card[File]))
          <5>1. Len(card[File]) \in Nat /\ Place \in 0 .. Len(card[File])
            BY <3>2, <4>2, LenProperties
          <5>2. SubSeq(card[File], 1, Place) \in Seq(Nat)
            BY <3>2, <5>1, SubSeqProperties
          <5>3. buf \in Nat
            BY DEF FilerInv, TypeOK
          <5> QED
            BY <4>2, <5>2, <5>3, AppendProperties DEF Written
        <4> QED
          BY <4>1, <4>2
      <3>4. Len(Written) \in Nat /\ "bytes" \in Statuses
        BY <3>3, LenProperties DEF Statuses
      <3>5. card' \in [Names -> Seq(Nat)]
        BY <3>1, <3>3 DEF FilerInv, TypeOK
      <3> QED
        BY <1>1, <3>1, <3>4, <3>5, WorkDone DEF FilerInv, TypeOK
    <2> QED
      BY <2>1, <2>2
  <1>4. CASE ProcessClose
    <2>1. clean' \in BOOLEAN
      BY <1>4 DEF ProcessClose, FilerInv, TypeOK
    <2>2. CASE Failed
      BY <1>1, <2>1, <2>2, WorkFailed
    <2>3. CASE ~Failed
      <3> DEFINE f == [Shut(slot[at]) EXCEPT !.status = "end"]
      <3>1. Set(at, f) /\ Works /\ UNCHANGED <<card, buf>>
        BY <1>4, <2>3 DEF ProcessClose
      <3>2. slot[at] \in Slot
        BY DEF FilerInv, TypeOK
      <3>3. f \in Slot
        BY <3>2, SlotFields DEF Statuses
      <3>4. f.name = slot[at].name /\ f.func = slot[at].func /\ f.open # LogFile
        BY <3>2 DEF Slot, Shut, NoFile, LogFile
      <3>5. errors' \in 0 .. MaxErrors
        BY <3>1, ErrorCount DEF FilerInv
      <3> HIDE DEF f
      <3> QED
        BY <1>1, <2>1, <3>1, <3>3, <3>4, <3>5, WorkRest DEF FilerInv, TypeOK
    <2> QED
      BY <2>2, <2>3
  <1> QED
    BY <1>2, <1>3, <1>4

\* The end of a request.
LEMMA InvDone == FilerInv /\ (Done \/ Notify) => FilerInv'
  <1> SUFFICES ASSUME FilerInv, Done \/ Notify PROVE FilerInv'
    OBVIOUS
  <1>1. at \in Slots \ {Stream} /\ slot[at] \in Slot
    BY DEF FilerInv, TypeOK, Dealing, Done, Notify
  <1>2. CASE Done
    <2> DEFINE f == [slot[at] EXCEPT !.func = "NONE"]
    <2>1. f \in Slot
      BY <1>1, SlotFields DEF Funcs
    <2>2. f.name = slot[at].name /\ f.func = "NONE" /\ f.open = slot[at].open
      BY <1>1 DEF Slot
    <2>3. Set(at, f)
      BY <1>2 DEF Done
    <2> HIDE DEF f
    <2>5. slot' \in [Slots -> Slot] /\ Table'
      BY <1>1, <2>1, <2>2, <2>3, TableSlot DEF FilerInv, Table
    <2>6. slot'[at] = f /\ \A s \in Slots \ {at} : slot'[s] = slot[s]
      BY <1>1, <2>1, <2>3, SetSlot DEF FilerInv, TypeOK
    <2>4. \A s \in Slots : slot'[s].name = slot[s].name
      BY <2>2, <2>6
    <2> QED
      BY <1>1, <1>2, <2>5, <2>4, FilerRest DEF Done, FilerInv, TypeOK, diskVars, clientVars, history
  <1>3. CASE Notify
    <2> DEFINE f == [slot[at] EXCEPT !.complete = TRUE]
    <2>1. f \in Slot
      BY <1>1, SlotFields
    <2>2. f.name = slot[at].name /\ f.func = slot[at].func /\ f.open = slot[at].open
      BY <1>1 DEF Slot
    <2>3. Set(at, f)
      BY <1>3 DEF Notify
    <2> HIDE DEF f
    <2>4. slot' \in [Slots -> Slot] /\ Table' /\ \A s \in Slots : slot'[s].name = slot[s].name
      BY <1>1, <2>1, <2>2, <2>3, TableSlot, SetSlot, SMTT(30) DEF FilerInv, TypeOK, Table
    <2>5. at' \in Slots /\ pc' \in {"scan", "clear"}
      BY <1>3, NextSlotIn DEF Notify, FilerInv
    <2> QED
      BY <1>3, <2>4, <2>5, FilerRest DEF Notify, FilerInv, TypeOK, diskVars, clientVars, history
  <1> QED
    BY <1>2, <1>3

-------------------------------------------------------------------------------
(* The stream *)

\* The log's slot may be opened and closed.
LEMMA LogSlot ==
  ASSUME FilerInv,
         \/ slot' = [slot EXCEPT ![Stream].open = LogFile]
         \/ slot' = [slot EXCEPT ![Stream] = Shut(@)]
         \/ UNCHANGED slot
  PROVE  /\ slot' \in [Slots -> Slot] /\ Table'
         /\ \A s \in Slots : slot'[s].name = slot[s].name
  <1> USE FilerAssumption
  <1>1. slot[Stream] \in Slot /\ slot \in [Slots -> Slot]
    BY DEF FilerInv, TypeOK
  <1>2. PICK f \in Slot : /\ slot' = [slot EXCEPT ![Stream] = f]
                          /\ f.alloc = slot[Stream].alloc /\ f.name = slot[Stream].name
                          /\ f.func = slot[Stream].func
    <2>1. CASE slot' = [slot EXCEPT ![Stream].open = LogFile]
      <3> DEFINE f == [slot[Stream] EXCEPT !.open = LogFile]
      <3>1. f \in Slot
        BY <1>1, SlotFields
      <3>2. f.alloc = slot[Stream].alloc /\ f.name = slot[Stream].name /\ f.func = slot[Stream].func
        BY <1>1 DEF Slot
      <3> QED
        BY <2>1, <3>1, <3>2
    <2>2. CASE slot' = [slot EXCEPT ![Stream] = Shut(@)]
      <3> DEFINE f == Shut(slot[Stream])
      <3>1. f \in Slot
        BY <1>1, SlotFields
      <3>2. f.alloc = slot[Stream].alloc /\ f.name = slot[Stream].name /\ f.func = slot[Stream].func
        BY <1>1 DEF Slot, Shut
      <3> QED
        BY <2>2, <3>1, <3>2
    <2>3. CASE UNCHANGED slot
      <3>1. slot' = [slot EXCEPT ![Stream] = slot[Stream]]
        BY <1>1, <2>3
      <3> QED
        BY <1>1, <3>1
    <2> QED
      BY <2>1, <2>2, <2>3
  <1>3. slot' \in [Slots -> Slot] /\ slot'[Stream] = f /\ \A s \in Slots \ {Stream} : slot'[s] = slot[s]
    BY <1>1, <1>2
  <1>4. Table'
    BY <1>2, <1>3 DEF FilerInv, Table
  <1> QED
    BY <1>2, <1>3, <1>4

\* A chunk of the stream is in the buffer.
LEMMA ChunkFits == FilerInv /\ EnoughNew => Chunk \in 1 .. lag
  BY FilerAssumption DEF FilerInv, TypeOK, StreamInStep, Wrap, EnoughNew, Chunk

LEMMA InvStreamTest == FilerInv /\ StreamTest => FilerInv'
  <1> SUFFICES ASSUME FilerInv, StreamTest PROVE FilerInv'
    OBVIOUS
  <1>1. at = Stream /\ Stream \in Slots
    BY FilerAssumption DEF StreamTest, FilerInv, Dealing
  <1>2. slot' \in [Slots -> Slot] /\ Table' /\ \A s \in Slots : slot'[s].name = slot[s].name
    BY <1>1, LogSlot DEF StreamTest
  <1>3. errors' \in 0 .. MaxErrors
    BY ErrorCount DEF StreamTest, FilerInv
  <1>4. CASE EnoughNew /\ pc' = "write"
    <2>1. size' = Chunk /\ Chunk \in 1 .. lag /\ UNCHANGED <<at, broken>>
      BY <1>4, ChunkFits DEF StreamTest
    <2>2. Chunk \in 0 .. RingSize
      BY <2>1, FilerAssumption DEF FilerInv, TypeOK, StreamInStep
    <2>3. TypeOK'
      BY <1>2, <1>3, <1>4, <2>1, <2>2 DEF StreamTest, streamUnchanged, FilerInv, TypeOK, logVars, clientVars
    <2>4. Own' /\ StreamInStep'
      BY <1>2 DEF StreamTest, streamUnchanged, FilerInv, TypeOK, Own, StreamInStep, Wrap, logVars, clientVars
    <2>5. Dealing'
      BY <1>1, <1>4, <2>1 DEF StreamTest, FilerInv, TypeOK, Dealing, logVars
    <2> QED
      BY <1>2, <2>3, <2>4, <2>5 DEF FilerInv
  <1>5. CASE ~(EnoughNew /\ pc' = "write")
    <2>1. /\ at' \in Slots /\ pc' \in {"scan", "clear", "restart"} /\ UNCHANGED size
          /\ broken' \in BOOLEAN
      BY <1>5, NextSlotIn DEF StreamTest, FilerInv, TypeOK
    <2> QED
      BY <1>2, <1>3, <2>1, FilerRest DEF StreamTest, streamUnchanged, FilerInv, TypeOK, clientVars
  <1> QED
    BY <1>4, <1>5

LEMMA InvStreamWrite == FilerInv /\ StreamWrite => FilerInv'
  <1> SUFFICES ASSUME FilerInv, StreamWrite PROVE FilerInv'
    OBVIOUS
  <1> USE FilerAssumption
  <1>1. at = Stream /\ size \in 0 .. lag
    BY DEF StreamWrite, FilerInv, TypeOK, Dealing
  <1>2. PICK bytes \in 0 .. size :
          /\ pc' \in {"stream", "restart"} /\ (Works \/ Fails) /\ broken' \in BOOLEAN
          /\ tail' = Wrap(tail + bytes) /\ lag' = lag - bytes
    BY DEF StreamWrite, FilerInv, TypeOK
  <1>3. errors' \in 0 .. MaxErrors
    BY <1>2, ErrorCount DEF FilerInv
  <1>4. /\ lag \in 0 .. RingSize - 1 /\ head = Wrap(tail + lag)
        /\ head \in 0 .. RingSize - 1 /\ tail \in 0 .. RingSize - 1 /\ bytes \in 0 .. lag
    BY <1>1, <1>2 DEF FilerInv, TypeOK, StreamInStep
  <1>5. lag' \in 0 .. RingSize - 1 /\ tail' \in 0 .. RingSize - 1 /\ head = Wrap(tail' + lag')
    BY <1>2, <1>4 DEF Wrap
  <1>6. UNCHANGED <<at, slot, head, logged>> /\ size' = 0 /\ streamUnchanged
    BY DEF StreamWrite
  <1>7. TypeOK'
    BY <1>2, <1>3, <1>5, <1>6 DEF streamUnchanged, FilerInv, TypeOK, clientVars
  <1>8. StreamInStep'
    BY <1>5, <1>6 DEF StreamInStep, Wrap
  <1>9. Table' /\ Own' /\ Dealing'
    BY <1>1, <1>2, <1>6 DEF streamUnchanged, FilerInv, Table, Own, Dealing, clientVars
  <1> QED
    BY <1>7, <1>8, <1>9 DEF FilerInv

-------------------------------------------------------------------------------
(* Giving the card away *)

LEMMA InvFlush == FilerInv /\ Flush => FilerInv'
  <1> SUFFICES ASSUME FilerInv, Flush PROVE FilerInv'
    OBVIOUS
  <1> USE FilerAssumption
  <1>1. /\ pc = "flush" /\ pc' = "close" /\ UNCHANGED <<at, size, slot, head, logged>>
        /\ UNCHANGED <<initialized, msc, filerFlag, usb, card, clientVars, history>>
    BY DEF Flush
  <1>2. errors' \in 0 .. MaxErrors
    BY ErrorCount DEF Flush, FilerInv, TypeOK
  <1>3. /\ lag \in 0 .. RingSize - 1 /\ head = Wrap(tail + lag)
        /\ head \in 0 .. RingSize - 1 /\ tail \in 0 .. RingSize - 1
    BY DEF FilerInv, TypeOK, StreamInStep
  <1>4. lag' \in 0 .. RingSize - 1 /\ tail' \in 0 .. RingSize - 1 /\ head = Wrap(tail' + lag')
    <2>1. CASE UNCHANGED <<tail, lag>>
      BY <1>3, <2>1
    <2>2. CASE tail' = head /\ lag' = 0
      BY <1>3, <2>2 DEF Wrap
    <2>3. CASE \E bytes \in 0 .. lag : tail' = Wrap(tail + bytes) /\ lag' = lag - bytes
      <3>1. PICK bytes \in 0 .. lag : tail' = Wrap(tail + bytes) /\ lag' = lag - bytes
        BY <2>3
      <3> QED
        BY <1>3, <3>1 DEF Wrap
    <2> QED
      BY <2>1, <2>2, <2>3 DEF Flush
  <1>5. TypeOK'
    BY <1>1, <1>2, <1>4, SMTT(30) DEF FilerInv, TypeOK, clientVars, history
  <1>6. StreamInStep'
    BY <1>1, <1>4 DEF StreamInStep, Wrap
  <1>7. Table' /\ Own' /\ Dealing'
    BY <1>1 DEF FilerInv, Table, Own, Dealing, clientVars
  <1> QED
    BY <1>5, <1>6, <1>7 DEF FilerInv

\* The file of a slot is closed.
LEMMA CloseSlot ==
  ASSUME FilerInv, CloseFile
  PROVE  /\ slot' \in [Slots -> Slot] /\ Table' /\ slot'[at].open = NoFile
         /\ \A s \in Slots : slot'[s].name = slot[s].name
         /\ \A s \in Slots \ {at} : slot'[s] = slot[s]
  <1> DEFINE f == Shut(slot[at])
  <1>1. slot[at] \in Slot /\ at \in Slots /\ slot \in [Slots -> Slot]
    BY DEF FilerInv, TypeOK
  <1>2. f \in Slot
    BY <1>1, SlotFields
  <1>3. /\ f.alloc = slot[at].alloc /\ f.name = slot[at].name /\ f.func = slot[at].func
        /\ f.open = NoFile
    BY <1>1 DEF Slot, Shut
  <1>4. slot' = [slot EXCEPT ![at] = f]
    BY DEF CloseFile, ClosedFile
  <1> HIDE DEF f
  <1>5. /\ slot' \in [Slots -> Slot] /\ slot'[at] = f
        /\ \A s \in Slots \ {at} : slot'[s] = slot[s]
    BY <1>1, <1>2, <1>4
  <1>6. Table'
    BY <1>1, <1>3, <1>5, FilerAssumption DEF FilerInv, Table, NoFile, LogFile
  <1> QED
    BY <1>1, <1>3, <1>5, <1>6

LEMMA InvCloseFile == FilerInv /\ CloseFile => FilerInv'
  <1> SUFFICES ASSUME FilerInv, CloseFile PROVE FilerInv'
    OBVIOUS
  <1> USE FilerAssumption
  <1>1. /\ UNCHANGED <<size, msc, filerFlag, usb, diskVars, clientVars, logged, broken>>
        /\ pc' \in {"flush", "restart"}
    BY DEF CloseFile
  <1>2. at' \in Slots /\ initialized' \in BOOLEAN
    BY DEF CloseFile, FilerInv, TypeOK
  <1>3. clean' \in BOOLEAN /\ dirty' \subseteq Slots
    BY DEF CloseFile, FilerInv, TypeOK
  <1>4. /\ head' \in 0 .. RingSize - 1 /\ tail' \in 0 .. RingSize - 1
        /\ lag' \in 0 .. RingSize - 1 /\ head' = Wrap(tail' + lag')
    <2>1. CASE at = Stream
      BY <2>1 DEF CloseFile, Wrap
    <2>2. CASE at # Stream /\ UNCHANGED lag
      BY <2>2 DEF CloseFile, FilerInv, TypeOK, StreamInStep, Wrap
    <2> QED
      BY <2>1, <2>2 DEF CloseFile
  <1>5. TypeOK'
    BY <1>1, <1>2, <1>3, <1>4, CloseSlot DEF FilerInv, TypeOK, diskVars, clientVars
  <1>6. StreamInStep'
    BY <1>4 DEF StreamInStep, Wrap
  <1>7. Own' /\ Dealing'
    BY <1>1, CloseSlot DEF FilerInv, TypeOK, Own, Dealing, clientVars
  <1> QED
    BY <1>5, <1>6, <1>7, CloseSlot DEF FilerInv

-------------------------------------------------------------------------------
(* The first theorems *)

LEMMA InvStep == FilerInv /\ [Next]_vars => FilerInv'
  <1> SUFFICES ASSUME FilerInv, [Next]_vars PROVE FilerInv'
    OBVIOUS
  <1>1. CASE Next
    BY <1>1, InvHost, InvLog, InvClient, InvLoop, InvMount, InvWork, InvDone, InvStreamTest,
       InvStreamWrite, InvFlush, InvCloseFile DEF Next, Filer
  <1>2. CASE UNCHANGED vars
    BY <1>2 DEF vars, filerVars, diskVars, clientVars, logVars, history, FilerInv, TypeOK, Table,
                Own, Dealing, StreamInStep, Wrap
  <1> QED
    BY <1>1, <1>2

LEMMA InvAlways == Spec => []FilerInv
  BY InvInit, InvStep, PTL DEF Spec

\* Every variable has its type; in particular the head and the tail of the log stay
\* in the buffer, and what is read and written of a file is there.
THEOREM FilerTypes == Spec => []TypeOK
  <1>1. FilerInv => TypeOK
    BY DEF FilerInv
  <1> QED
    BY <1>1, InvAlways, PTL

\* Whatever the length of the log buffer, and however often writes fail or the card is
\* given away, no record is written twice or passed over (filer.c:120-146, 299-312).
THEOREM FilerStream == Spec => []StreamInStep
  <1>1. FilerInv => StreamInStep
    BY DEF FilerInv
  <1> QED
    BY <1>1, InvAlways, PTL

-------------------------------------------------------------------------------
(* The card is handed over with all files closed. *)

AllClosed == \A s \in Slots : slot[s].open \in {NoFile, Stale}

HandInv ==
  /\ pc \in {"restart", "mount"} => broken \/ AllClosed
  /\ pc = "mount" => ~initialized
  /\ pc = "loop" /\ ~initialized => AllClosed
  /\ pc \notin {"restart", "mount", "loop"} => initialized
  /\ pc \in {"flush", "close"} => \A s \in Slots : s < at => slot[s].open \in {NoFile, Stale}

\* A client opens no file and closes none.
LEMMA ClientKeepsOpen ==
  ASSUME FilerInv, Client
  PROVE  UNCHANGED <<pc, at, initialized, broken, msc>> /\ \A s \in Slots : slot'[s].open = slot[s].open
  <1>1. slot \in [Slots -> Slot] /\ slot[job.slot] \in Slot /\ job.slot \in Slots /\ job.how \in Funcs
    BY DEF FilerInv, TypeOK, Funcs
  <1>2. UNCHANGED <<pc, at, initialized, broken, msc>>
    BY DEF Client, Open, Ask, Return, Finish, Close, Closed, Rest, clientUnchanged, filerVars
  <1>3. ASSUME NEW s \in Slots, NEW f \in Slot, Set(s, f), f.open = slot[s].open
        PROVE  \A o \in Slots : slot'[o].open = slot[o].open
    BY <1>1, <1>3, SetSlot
  <1>4. CASE Open
    <2>1. PICK s \in Slots, n \in Names :
            Set(s, [slot[s] EXCEPT !.alloc = TRUE, !.name = n, !.complete = FALSE])
      BY <1>4 DEF Open
    <2> DEFINE f == [slot[s] EXCEPT !.alloc = TRUE, !.name = n, !.complete = FALSE]
    <2>2. f \in Slot
      BY <1>1, SlotFields
    <2>3. f.open = slot[s].open
      BY <1>1 DEF Slot
    <2> HIDE DEF f
    <2>4. Set(s, f)
      BY <2>1 DEF f
    <2> QED
      BY <1>2, <1>3, <2>2, <2>3, <2>4
  <1>5. CASE Ask \/ Close \/ Closed
    <2>1. CASE UNCHANGED slot
      BY <1>2, <2>1
    <2>2. CASE \E func \in Funcs : Set(job.slot, Requested(handle, func))
      BY <1>1, <1>2, <1>3, <2>2, RequestedSlot DEF handle
    <2>3. CASE Set(job.slot, [handle EXCEPT !.alloc = FALSE])
      BY <1>1, <1>2, <1>3, <2>3, ReleasedSlot DEF handle
    <2>4. "CLOSE" \in Funcs
      BY DEF Funcs
    <2> QED
      BY <1>1, <1>5, <2>1, <2>2, <2>3, <2>4 DEF Ask, Close, Closed
  <1>6. CASE Return \/ Finish \/ Rest
    BY <1>2, <1>6 DEF Return, Finish, Rest
  <1> QED
    BY <1>4, <1>5, <1>6 DEF Client

LEMMA HandStep == FilerInv /\ HandInv /\ [Next]_vars => HandInv'
  <1> SUFFICES ASSUME FilerInv, HandInv, [Next]_vars PROVE HandInv'
    OBVIOUS
  <1> USE FilerAssumption
  <1>1. CASE Host
    BY <1>1 DEF Host, Unplug, EnableMSC, EjectMSC, hostUnchanged, filerVars, history, HandInv, AllClosed
  <1>2. CASE Log
    BY <1>2 DEF Log, filerVars, history, HandInv, AllClosed
  <1>3. CASE Client
    BY <1>3, ClientKeepsOpen, SMTT(30) DEF HandInv, AllClosed
  <1>4. CASE HandOver \/ Restart \/ Surrender \/ Begin
    <2>1. UNCHANGED slot /\ UNCHANGED broken
      BY <1>4 DEF HandOver, Restart, Surrender, Begin, history
    <2>2. CASE HandOver
      BY <2>1, <2>2 DEF HandOver, filerVars, HandInv, AllClosed
    <2>3. CASE Restart
      BY <2>1, <2>3 DEF Restart, HandInv, AllClosed
    <2>4. CASE Surrender
      BY <2>1, <2>4 DEF Surrender, HandInv, AllClosed, Slots
    <2>5. CASE Begin
      BY <2>1, <2>5 DEF Begin, HandInv, AllClosed
    <2> QED
      BY <1>4, <2>2, <2>3, <2>4, <2>5
  <1>5. CASE Scan \/ ClearFlag \/ Wake
    BY <1>5 DEF Scan, NextSlot, ClearFlag, Wake, history, HandInv, AllClosed
  <1>6. CASE Mount
    <2>1. ASSUME NEW s \in Slots PROVE slot'[s].open \in {NoFile, Stale}
      <3>1. slot[s] \in Slot
        BY DEF FilerInv, TypeOK
      <3>2. slot'[s] = ResetTable[s]
        BY <1>6 DEF Mount
      <3> QED
        BY <3>1, <3>2 DEF ResetTable, Shut, Slot
    <2> QED
      BY <1>6, <2>1 DEF Mount, HandInv, AllClosed
  <1>7. CASE ProcessRead \/ ProcessWrite \/ ProcessClose
    BY <1>7 DEF ProcessRead, ProcessWrite, ProcessClose, Work, workUnchanged, HandInv
  <1>8. CASE Done \/ Notify
    BY <1>8 DEF Done, Notify, NextSlot, HandInv
  <1>9. CASE StreamTest \/ StreamWrite
    BY <1>9 DEF StreamTest, StreamWrite, NextSlot, streamUnchanged, HandInv
  <1>10. CASE Flush
    BY <1>10 DEF Flush, history, HandInv
  <1>11. CASE CloseFile
    <2>1. \A s \in Slots : s <= at => slot'[s].open \in {NoFile, Stale}
      <3>1. pc = "close" /\ \A s \in Slots : s < at => slot[s].open \in {NoFile, Stale}
        BY <1>11 DEF CloseFile, HandInv
      <3>2. at \in Nat /\ \A s \in Slots : s \in Nat
        BY DEF FilerInv, TypeOK, Slots
      <3>3. slot'[at].open = NoFile /\ \A s \in Slots \ {at} : slot'[s] = slot[s]
        BY <1>11, CloseSlot
      <3>4. ASSUME NEW s \in Slots, s <= at PROVE slot'[s].open \in {NoFile, Stale}
        <4>1. s = at \/ s < at
          BY <3>2, <3>4
        <4>2. CASE s = at
          BY <3>3, <4>2
        <4>3. CASE s < at
          <5>1. slot[s].open \in {NoFile, Stale}
            BY <3>1, <4>3
          <5>2. s # at
            BY <3>2, <4>3
          <5> QED
            BY <3>3, <5>1, <5>2
        <4> QED
          BY <4>1, <4>2, <4>3
      <3> QED
        BY <3>4
    <2>2. CASE at + 1 \in Slots
      <3>1. pc' = "flush" /\ at' = at + 1 /\ UNCHANGED initialized
        BY <1>11, <2>2 DEF CloseFile
      <3>2. at \in Nat /\ \A s \in Slots : s \in Nat
        BY DEF FilerInv, TypeOK, Slots
      <3> QED
        BY <1>11, <2>1, <3>1, <3>2 DEF HandInv, CloseFile
    <2>3. CASE at + 1 \notin Slots
      <3>1. \A s \in Slots : s <= at
        BY <2>3 DEF FilerInv, TypeOK, Slots
      <3>2. AllClosed'
        BY <2>1, <3>1 DEF AllClosed
      <3> QED
        BY <1>11, <2>3, <3>2 DEF HandInv, CloseFile
    <2> QED
      BY <2>2, <2>3
  <1>12. CASE UNCHANGED vars
    BY <1>12 DEF vars, filerVars, history, HandInv, AllClosed
  <1> QED
    BY <1>1, <1>2, <1>3, <1>4, <1>5, <1>6, <1>7, <1>8, <1>9, <1>10, <1>11, <1>12 DEF Next, Filer

\* The card becomes the host's with all files closed, unless a failed stream made the
\* task restart (filer.c:245-273, 295-314).
THEOREM FilerHandsOver == Spec => HandedOverClosed
  <1>1. Init => HandInv
    BY DEF Init, HandInv, AllClosed
  <1>2. FilerInv /\ HandInv /\ [Next]_vars =>
          [msc' = "ACTIVE" /\ msc # "ACTIVE" =>
             broken \/ \A s \in Slots : slot[s].open \in {NoFile, Stale}]_vars
    <2> SUFFICES ASSUME FilerInv, HandInv, [Next]_vars, msc' = "ACTIVE", msc # "ACTIVE"
                 PROVE  broken \/ AllClosed
      BY DEF AllClosed
    <2>1. HandOver
      <3>1. CASE Client
        BY <3>1, ClientKeepsOpen
      <3>2. CASE ~Client
        BY <3>2 DEF vars, Next, Filer, Host, Unplug, EnableMSC, EjectMSC, Log, Restart, Mount,
                    Surrender, Begin, Scan, ClearFlag, Wake, ProcessRead, ProcessWrite, ProcessClose,
                    workUnchanged, Done, Notify, StreamTest, StreamWrite, streamUnchanged, Flush,
                    CloseFile
      <3> QED
        BY <3>1, <3>2
    <2> QED
      BY <2>1 DEF HandOver, HandInv
  <1> QED
    BY <1>1, <1>2, HandStep, InvAlways, PTL DEF Spec, HandedOverClosed

-------------------------------------------------------------------------------
(* What a client announces is so *)

\* The slot has been asked for nothing that is not done.
Resting(s) == slot[s].func = "NONE" /\ ~(at = s /\ pc \in {"work", "done", "notify"})

\* The answer to the request of a slot is there.
Processed(s) == slot[s].complete \/ (at = s /\ pc \in {"done", "notify"})

\* Where the next chunk of its file is.
PlaceOf(s) == IF slot[s].open = NoFile THEN 0 ELSE slot[s].pos

InSession == client \notin {"idle", "told"}

\* Files are used one at a time, so that all of them come to the first slot that the log
\* has left.
OneSlot ==
  /\ \A s \in Slots \ {Stream} :
       /\ slot[s].alloc <=> InSession /\ s = job.slot
       /\ Pending(s) \/ s \in dirty \/ (client # "idle" /\ s = job.slot)
            => \A o \in Slots \ {Stream} : s <= o
  /\ client # "idle" => job.slot # Stream
  /\ InSession => slot[job.slot].name = job.name
  /\ Stream \notin dirty

\* The client's slot: what is asked of it is what the client waits for.
Served(s) ==
  /\ slot[s].open \in {NoFile, job.name}
  /\ client \in {"use", "end"} \/ slot[s].complete => Resting(s)
  /\ slot[s].func \in {"NONE", IF client = "closing" THEN "CLOSE" ELSE job.how}
  /\ at = s /\ pc = "notify" => slot[s].func = "NONE"
  /\ client = "closing" /\ Processed(s) => slot[s].open = NoFile

\* A slot that no restart has left a request in has none but the client's.
Orderly ==
  \A s \in Slots \ ({Stream} \cup dirty) :
    IF InSession /\ s = job.slot THEN Served(s) ELSE ~Pending(s)

\* The next line of the client's file is asked for, or has come.
Before == client = "use" \/ (client = "wait" /\ ~Processed(job.slot))
Bytes  == client = "wait" /\ Processed(job.slot) /\ handle.status = "bytes"
AtEnd  == client = "wait" /\ Processed(job.slot) /\ handle.status = "end"
Over   == client \in {"end", "closing", "told"} /\ ok

Reading ==
  LET file == card[job.name] IN
    /\ client \in {"use", "wait"} =>
         Len(got) <= Len(file) /\ \A i \in 1 .. Len(got) : got[i] = file[i]
    /\ Before => PlaceOf(job.slot) = Len(got)
    /\ Bytes => /\ PlaceOf(job.slot) = Len(got) + 1
                /\ Len(got) < Len(file) /\ buf = file[Len(got) + 1]
    /\ AtEnd => Len(got) = Len(file)
    /\ Over => got = file

\* The first n lines are in the file, and there is nothing else.
Holds(file, n) ==
  /\ n <= Len(NewLines)
  /\ n # 0 => Len(file) = n /\ \A i \in 1 .. n : file[i] = NewLines[i]

Writing ==
  LET file == card[job.name] IN
    /\ Before => PlaceOf(job.slot) = Len(got) /\ Holds(file, Len(got))
    /\ Before /\ client = "wait" => Len(got) < Len(NewLines) /\ buf = NewLines[Len(got) + 1]
    /\ Bytes => PlaceOf(job.slot) = Len(got) + 1 /\ Holds(file, Len(got) + 1)
    /\ Over => file = NewLines

Announced ==
  client # "idle" /\ clean =>
    /\ job.slot \notin dirty
    /\ job.how = "READ" => Reading
    /\ job.how = "WRITE" => Writing

SessionInv == OneSlot /\ Orderly /\ Announced

LEMMA SessionInit == Init => SessionInv
  <1> SUFFICES ASSUME Init PROVE SessionInv
    OBVIOUS
  <1>1. FilerInv /\ client = "idle" /\ dirty = {} /\ pc = "restart"
    BY InvInit DEF Init
  <1>2. ASSUME NEW s \in Slots \ {Stream}
        PROVE  ~slot[s].alloc /\ slot[s].open = NoFile /\ slot[s].func = "NONE"
    <2> DEFINE f == [alloc |-> s = Stream, name |-> NoFile, open |-> NoFile, pos |-> 0,
                     func |-> IF s = Stream THEN "STREAM" ELSE "NONE",
                     status |-> "end", complete |-> FALSE]
    <2>1. slot[s] = f
      BY Zenon DEF Init
    <2>2. f.func = "NONE" /\ f.open = NoFile
      OBVIOUS
    <2>3. f.alloc = (s = Stream)
      OBVIOUS
    <2>4. s # Stream
      OBVIOUS
    <2> HIDE DEF f
    <2> QED
      BY <2>1, <2>2, <2>3, <2>4
  <1> QED
    BY <1>1, <1>2 DEF SessionInv, OneSlot, Orderly, Announced, InSession, Pending

\* A step of the host or of the logger leaves a session as it is.
LEMMA SessionSame ==
  ASSUME SessionInv, UNCHANGED <<slot, client, job, got, ok, buf, card, clean, dirty, at, pc>>
  PROVE  SessionInv'
  <1> USE DEF InSession, Pending
  <1>1. OneSlot'
    BY DEF SessionInv, OneSlot
  <1>2. Orderly'
    BY DEF SessionInv, Orderly, Served, Resting, Processed
  <1>3. Announced'
    BY DEF SessionInv, Announced, Reading, Writing, Before, Bytes, AtEnd, Over, Processed, PlaceOf,
           Holds, handle
  <1> QED
    BY <1>1, <1>2, <1>3 DEF SessionInv

\* So does a step of the filer task that is not about the request of a slot.
LEMMA SessionRest ==
  ASSUME FilerInv, FilerInv', SessionInv, UNCHANGED <<client, job, got, ok, buf, card, clean, dirty>>,
         \A s \in Slots \ {Stream} : slot'[s] = slot[s],
         pc \notin {"work", "done", "notify"}, pc' \notin {"done", "notify"},
         pc' = "work" => slot[at'].func # "NONE"
  PROVE  SessionInv'
  <1>1. pc' = "work" => at' \in Slots \ {Stream}
    BY DEF FilerInv, TypeOK, Dealing
  <1>2. ASSUME NEW s \in Slots \ {Stream}
        PROVE  (Pending(s)' <=> Pending(s)) /\ (Resting(s)' <=> Resting(s))
               /\ (Processed(s)' <=> Processed(s)) /\ PlaceOf(s)' = PlaceOf(s)
    BY <1>1 DEF Pending, Resting, Processed, PlaceOf
  <1>3. OneSlot'
    BY <1>2 DEF SessionInv, OneSlot, InSession, FilerInv, TypeOK
  <1>4. Orderly'
    <2>1. ASSUME NEW s \in Slots \ {Stream}
          PROVE  Served(s)' <=> Served(s)
      BY <1>1, <1>2, <2>1 DEF Served
    <2> QED
      BY <1>2, <2>1 DEF SessionInv, Orderly, InSession
  <1>5. client # "idle" => job.slot \in Slots \ {Stream}
    BY DEF SessionInv, OneSlot, FilerInv, TypeOK
  <1>6. Announced'
    <2>1. client # "idle" => PlaceOf(job.slot)' = PlaceOf(job.slot) /\ handle' = handle
                             /\ (Processed(job.slot)' <=> Processed(job.slot))
      BY <1>2, <1>5 DEF handle, PlaceOf, Processed
    <2>2. client # "idle" => (Before' <=> Before) /\ (Bytes' <=> Bytes) /\ (AtEnd' <=> AtEnd) /\ (Over' <=> Over)
      BY <2>1 DEF Before, Bytes, AtEnd, Over
    <2>3. client # "idle" => (Reading' <=> Reading) /\ (Writing' <=> Writing)
      BY <2>1, <2>2 DEF Reading, Writing, Holds
    <2> QED
      BY <2>3 DEF SessionInv, Announced
  <1> QED
    BY <1>3, <1>4, <1>6 DEF SessionInv

\* What the filer task is dealing with is the client's, or left over from a restart.
LEMMA AtJob ==
  ASSUME FilerInv, SessionInv, pc \in {"work", "done", "notify"}
  PROVE  /\ at \in Slots \ {Stream} /\ (client # "idle" => at = job.slot)
         /\ at \notin dirty => /\ InSession /\ at = job.slot /\ Served(at)
                               /\ client \in {"wait", "closing"} /\ ~slot[at].complete
  <1>1. at \in Slots \ {Stream} /\ Pending(at)
    BY DEF FilerInv, TypeOK, Dealing, Pending
  <1>2. client # "idle" => at = job.slot
    <2>1. client # "idle" => job.slot \in Slots \ {Stream}
      BY DEF SessionInv, OneSlot, FilerInv, TypeOK
    <2>2. \A o \in Slots \ {Stream} : at <= o /\ (client # "idle" => job.slot <= o)
      BY <1>1, <2>1 DEF SessionInv, OneSlot
    <2>3. \A s \in Slots : s \in Int
      BY FilerAssumption DEF Slots
    <2> QED
      BY <1>1, <2>1, <2>2, <2>3
  <1>3. at \notin dirty => InSession /\ at = job.slot /\ Served(at)
    BY <1>1 DEF SessionInv, Orderly
  <1>4. ~Resting(at)
    BY DEF Resting
  <1> QED
    BY <1>1, <1>2, <1>3, <1>4 DEF Served, InSession, FilerInv, TypeOK

\* What is left to show of a step that deals with a request.
LEMMA SessionAt ==
  ASSUME FilerInv, SessionInv, pc \in {"work", "done", "notify"},
         \A s \in Slots \ {at} : slot'[s] = slot[s],
         slot'[at].alloc = slot[at].alloc, slot'[at].name = slot[at].name,
         UNCHANGED <<client, job, dirty>>, clean' => clean,
         pc' \in {"work", "done", "notify"} => at' = at,
         at \notin dirty => Served(job.slot)' /\ Announced'
  PROVE  SessionInv'
  <1>1. at \in Slots \ {Stream} /\ Pending(at)
    BY AtJob DEF Pending
  <1>2. \A s \in Slots \ {Stream, at} : Pending(s)' <=> Pending(s)
    BY DEF Pending
  <1>3. OneSlot'
    BY <1>1, <1>2 DEF SessionInv, OneSlot, InSession, FilerInv, TypeOK
  <1>4. Orderly'
    <2>1. ASSUME NEW s \in Slots \ ({Stream, at} \cup dirty)
          PROVE  ~(InSession /\ s = job.slot) /\ ~Pending(s)
      BY <2>1, AtJob DEF SessionInv, Orderly, InSession
    <2> QED
      BY <1>2, <2>1, AtJob DEF Orderly, InSession
  <1>5. Announced'
    <2>1. at \in dirty => ~(client # "idle" /\ clean)
      BY AtJob DEF SessionInv, Announced
    <2> QED
      BY <2>1 DEF Announced
  <1> QED
    BY <1>3, <1>4, <1>5 DEF SessionInv

LEMMA SessionDone == FilerInv /\ SessionInv /\ Done => SessionInv'
  <1> SUFFICES ASSUME FilerInv, SessionInv, Done PROVE SessionInv'
    OBVIOUS
  <1>1. at \in Slots \ {Stream} /\ slot \in [Slots -> Slot] /\ slot[at] \in Slot
    BY AtJob DEF Done, FilerInv, TypeOK
  <1> DEFINE f == [slot[at] EXCEPT !.func = "NONE"]
  <1>2. /\ f \in Slot /\ f.func = "NONE" /\ f.alloc = slot[at].alloc /\ f.name = slot[at].name
        /\ f.open = slot[at].open /\ f.pos = slot[at].pos
        /\ f.status = slot[at].status /\ f.complete = slot[at].complete
    <2>1. f \in Slot
      BY <1>1, SlotFields DEF Funcs
    <2> QED
      BY <1>1, <2>1 DEF Slot
  <1>3. Set(at, f)
    BY DEF Done
  <1> HIDE DEF f
  <1>4. slot'[at] = f /\ \A s \in Slots \ {at} : slot'[s] = slot[s]
    BY <1>1, <1>2, <1>3, SetSlot
  <1>5. /\ pc = "done" /\ pc' = "notify" /\ UNCHANGED <<at, client, job, got, ok, buf, card, clean, dirty>>
    BY DEF Done, clientVars, diskVars, history
  <1>6. ASSUME at \notin dirty
        PROVE  Served(job.slot)' /\ Announced'
    <2>1. /\ at = job.slot /\ Served(at) /\ client \in {"wait", "closing"} /\ ~slot[at].complete
      BY <1>5, <1>6, AtJob
    <2>2. Processed(at) /\ Processed(at)' /\ PlaceOf(at)' = PlaceOf(at)
      BY <1>2, <1>4, <1>5 DEF Processed, PlaceOf
    <2>3. Served(job.slot)'
      BY <1>2, <1>4, <1>5, <2>1, <2>2 DEF Served, Resting
    <2>4. (Before' <=> Before) /\ (Bytes' <=> Bytes) /\ (AtEnd' <=> AtEnd) /\ (Over' <=> Over)
      BY <1>2, <1>4, <1>5, <2>1, <2>2 DEF Before, Bytes, AtEnd, Over, handle
    <2>5. (Reading' <=> Reading) /\ (Writing' <=> Writing)
      BY <1>5, <2>1, <2>2, <2>4 DEF Reading, Writing, Holds
    <2> QED
      BY <1>5, <2>3, <2>5 DEF SessionInv, Announced
  <1> QED
    BY <1>2, <1>4, <1>5, <1>6, SessionAt

LEMMA SessionNotify == FilerInv /\ SessionInv /\ Notify => SessionInv'
  <1> SUFFICES ASSUME FilerInv, SessionInv, Notify PROVE SessionInv'
    OBVIOUS
  <1>1. at \in Slots \ {Stream} /\ slot \in [Slots -> Slot] /\ slot[at] \in Slot
    BY AtJob DEF Notify, FilerInv, TypeOK
  <1> DEFINE f == [slot[at] EXCEPT !.complete = TRUE]
  <1>2. /\ f \in Slot /\ f.complete /\ f.alloc = slot[at].alloc /\ f.name = slot[at].name
        /\ f.open = slot[at].open /\ f.pos = slot[at].pos
        /\ f.status = slot[at].status /\ f.func = slot[at].func
    <2>1. f \in Slot
      BY <1>1, SlotFields
    <2> QED
      BY <1>1, <2>1 DEF Slot
  <1>3. Set(at, f)
    BY DEF Notify
  <1> HIDE DEF f
  <1>4. slot'[at] = f /\ \A s \in Slots \ {at} : slot'[s] = slot[s]
    BY <1>1, <1>2, <1>3, SetSlot
  <1>5. /\ pc = "notify" /\ pc' \in {"scan", "clear"}
        /\ UNCHANGED <<client, job, got, ok, buf, card, clean, dirty>>
    BY DEF Notify, NextSlot, clientVars, diskVars, history
  <1>6. ASSUME at \notin dirty
        PROVE  Served(job.slot)' /\ Announced'
    <2>1. /\ at = job.slot /\ Served(at) /\ client \in {"wait", "closing"} /\ ~slot[at].complete
      BY <1>5, <1>6, AtJob
    <2>2. /\ Processed(job.slot) /\ Processed(job.slot)' /\ PlaceOf(job.slot)' = PlaceOf(job.slot)
          /\ slot[job.slot].func = "NONE"
      BY <1>2, <1>4, <1>5, <2>1 DEF Processed, PlaceOf, Served
    <2>3. Served(job.slot)'
      BY <1>2, <1>4, <1>5, <2>1, <2>2 DEF Served, Resting, Processed
    <2>4. (Before' <=> Before) /\ (Bytes' <=> Bytes) /\ (AtEnd' <=> AtEnd) /\ (Over' <=> Over)
      BY <1>2, <1>4, <1>5, <2>1, <2>2 DEF Before, Bytes, AtEnd, Over, handle
    <2>5. (Reading' <=> Reading) /\ (Writing' <=> Writing)
      BY <1>5, <2>1, <2>2, <2>4 DEF Reading, Writing, Holds
    <2> QED
      BY <1>5, <2>3, <2>5 DEF SessionInv, Announced
  <1> QED
    BY <1>2, <1>4, <1>5, <1>6, SessionAt

\* What a request that is dealt with makes of its slot.
LEMMA FailedSlot ==
  ASSUME FilerInv, Failed
  PROVE  /\ \A s \in Slots \ {at} : slot'[s] = slot[s]
         /\ slot'[at].alloc = slot[at].alloc /\ slot'[at].name = slot[at].name
         /\ slot'[at].func = slot[at].func /\ slot'[at].complete = slot[at].complete
         /\ slot'[at].open = NoFile /\ slot'[at].status = "error" /\ UNCHANGED <<card, buf>>
  <1> DEFINE f == [Shut(slot[at]) EXCEPT !.status = "error"]
  <1>1. slot \in [Slots -> Slot] /\ slot[at] \in Slot /\ at \in Slots
    BY DEF FilerInv, TypeOK
  <1>2. f \in Slot
    BY <1>1, SlotFields DEF Statuses
  <1>3. /\ f.alloc = slot[at].alloc /\ f.name = slot[at].name /\ f.func = slot[at].func
        /\ f.complete = slot[at].complete /\ f.open = NoFile /\ f.status = "error"
    BY <1>1 DEF Slot, Shut
  <1>4. Set(at, f) /\ UNCHANGED <<card, buf>>
    BY DEF Failed
  <1> HIDE DEF f
  <1> QED
    BY <1>1, <1>2, <1>3, <1>4, SetSlot

LEMMA DoneSlot ==
  ASSUME FilerInv, NEW o \in Names, NEW p \in Nat, NEW v \in Statuses,
         Set(at, [slot[at] EXCEPT !.open = o, !.pos = p, !.status = v])
  PROVE  /\ \A s \in Slots \ {at} : slot'[s] = slot[s]
         /\ slot'[at].alloc = slot[at].alloc /\ slot'[at].name = slot[at].name
         /\ slot'[at].func = slot[at].func /\ slot'[at].complete = slot[at].complete
         /\ slot'[at].open = o /\ slot'[at].pos = p /\ slot'[at].status = v
  <1> DEFINE f == [slot[at] EXCEPT !.open = o, !.pos = p, !.status = v]
  <1>1. slot \in [Slots -> Slot] /\ slot[at] \in Slot /\ at \in Slots
    BY DEF FilerInv, TypeOK
  <1>2. f \in Slot
    BY <1>1, SlotFields
  <1>3. /\ f.alloc = slot[at].alloc /\ f.name = slot[at].name /\ f.func = slot[at].func
        /\ f.complete = slot[at].complete /\ f.open = o /\ f.pos = p /\ f.status = v
    BY <1>1 DEF Slot
  <1>4. Set(at, f)
    OBVIOUS
  <1> HIDE DEF f
  <1> QED
    BY <1>1, <1>2, <1>3, <1>4, SetSlot

\* A request that fails is answered with an error.
LEMMA SessionFailed ==
  ASSUME FilerInv, SessionInv, pc = "work", pc' = "done", Failed,
         UNCHANGED <<at, client, job, got, ok, dirty>>, clean' => clean
  PROVE  SessionInv'
  <1>1. /\ \A s \in Slots \ {at} : slot'[s] = slot[s]
        /\ slot'[at].alloc = slot[at].alloc /\ slot'[at].name = slot[at].name
        /\ slot'[at].func = slot[at].func /\ slot'[at].complete = slot[at].complete
        /\ slot'[at].open = NoFile /\ slot'[at].status = "error" /\ UNCHANGED <<card, buf>>
    BY FailedSlot
  <1>2. ASSUME at \notin dirty
        PROVE  Served(job.slot)' /\ Announced'
    <2>1. at = job.slot /\ Served(at) /\ client \in {"wait", "closing"} /\ ~slot[at].complete
      BY <1>2, AtJob
    <2>2. Processed(job.slot)'
      BY <2>1 DEF Processed
    <2>3. Served(job.slot)'
      BY <1>1, <2>1, <2>2 DEF Served, Resting
    <2>4. ~Before' /\ ~Bytes' /\ ~AtEnd' /\ (Over' <=> Over)
      BY <1>1, <2>1, <2>2 DEF Before, Bytes, AtEnd, Over, handle
    <2>5. (Reading => Reading') /\ (Writing => Writing')
      BY <1>1, <2>4 DEF Reading, Writing
    <2> QED
      BY <2>3, <2>5 DEF SessionInv, Announced
  <1> QED
    BY <1>1, <1>2, SessionAt

LEMMA SessionClose == FilerInv /\ SessionInv /\ ProcessClose => SessionInv'
  <1> SUFFICES ASSUME FilerInv, SessionInv, ProcessClose PROVE SessionInv'
    OBVIOUS
  <1>1. /\ pc = "work" /\ pc' = "done" /\ slot[at].func = "CLOSE"
        /\ UNCHANGED <<at, client, job, got, ok, dirty>> /\ (clean' => clean)
    BY DEF ProcessClose, Work, workUnchanged
  <1>2. CASE Failed
    BY <1>1, <1>2, SessionFailed
  <1>3. CASE ~Failed
    <2> DEFINE f == [Shut(slot[at]) EXCEPT !.status = "end"]
    <2>1. slot \in [Slots -> Slot] /\ slot[at] \in Slot /\ at \in Slots
      BY DEF FilerInv, TypeOK
    <2>2. f \in Slot
      BY <2>1, SlotFields DEF Statuses
    <2>3. /\ f.alloc = slot[at].alloc /\ f.name = slot[at].name /\ f.func = slot[at].func
          /\ f.complete = slot[at].complete /\ f.open = NoFile
      BY <2>1 DEF Slot, Shut
    <2>4. Set(at, f) /\ UNCHANGED <<card, buf, clean>>
      BY <1>3 DEF ProcessClose
    <2> HIDE DEF f
    <2>5. slot'[at] = f /\ \A s \in Slots \ {at} : slot'[s] = slot[s]
      BY <2>1, <2>2, <2>4, SetSlot
    <2>6. ASSUME at \notin dirty
          PROVE  Served(job.slot)' /\ Announced'
      <3>1. /\ at = job.slot /\ Served(at) /\ client \in {"wait", "closing"} /\ ~slot[at].complete
        BY <1>1, <2>6, AtJob
      <3>2. client = "closing"
        BY <1>1, <3>1 DEF Served, FilerInv, TypeOK
      <3>3. Served(job.slot)'
        BY <1>1, <2>3, <2>5, <3>1, <3>2 DEF Served, Resting
      <3>4. ~Before' /\ ~Bytes' /\ ~AtEnd' /\ (Over' <=> Over)
        BY <1>1, <3>2 DEF Before, Bytes, AtEnd, Over
      <3>5. (Reading => Reading') /\ (Writing => Writing')
        BY <1>1, <2>4, <3>4 DEF Reading, Writing
      <3> QED
        BY <1>1, <2>4, <3>3, <3>5 DEF SessionInv, Announced
    <2> QED
      BY <1>1, <2>3, <2>5, <2>6, SessionAt
  <1> QED
    BY <1>2, <1>3

\* The file of a request in the client's slot is the client's, and its place.
LEMMA JobFile ==
  ASSUME FilerInv, SessionInv, pc = "work", at \notin dirty
  PROVE  Valid /\ File = job.name /\ Place = PlaceOf(job.slot) /\ job.name \in Names
         /\ job.name # NoFile
  <1>1. InSession /\ at = job.slot /\ Served(at)
    BY AtJob
  <1>2. slot[at].name = job.name /\ slot[at].open \in {NoFile, job.name}
    BY <1>1 DEF SessionInv, OneSlot, Served
  <1>3. job.name \in Names /\ job.name # NoFile /\ job.name # Stale /\ NoFile # Stale
    BY FilerAssumption DEF FilerInv, TypeOK, NoFile, Stale
  <1> QED
    BY <1>1, <1>2, <1>3 DEF Valid, File, Place, PlaceOf

LEMMA SessionReads == FilerInv /\ SessionInv /\ ProcessRead => SessionInv'
  <1> SUFFICES ASSUME FilerInv, SessionInv, ProcessRead PROVE SessionInv'
    OBVIOUS
  <1>1. /\ pc = "work" /\ pc' = "done" /\ slot[at].func = "READ"
        /\ UNCHANGED <<at, client, job, got, ok, clean, dirty>>
    BY DEF ProcessRead, Work, workUnchanged
  <1>2. CASE Failed
    BY <1>1, <1>2, SessionFailed
  <1>3. CASE ~Failed
    <2> DEFINE m == Place < Len(card[File])
    <2>1. Valid /\ UNCHANGED card
      BY <1>3 DEF ProcessRead
    <2>2. File \in Names /\ Place \in Nat /\ card[File] \in Seq(Nat)
      BY <1>1, <2>1, FileName
    <2>3. PICK p \in Nat, v \in Statuses :
            /\ IF m THEN p = Place + 1 /\ v = "bytes" /\ buf' = card[File][Place + 1]
                    ELSE p = Place /\ v = "end" /\ buf' = buf
            /\ Set(at, [slot[at] EXCEPT !.open = File, !.pos = p, !.status = v])
      <3>1. CASE m
        <4>1. /\ Set(at, [slot[at] EXCEPT !.open = File, !.pos = Place + 1, !.status = "bytes"])
              /\ buf' = card[File][Place + 1]
          BY <1>3, <3>1 DEF ProcessRead
        <4>2. Place + 1 \in Nat /\ "bytes" \in Statuses
          BY <2>2 DEF Statuses
        <4> QED
          BY <3>1, <4>1, <4>2
      <3>2. CASE ~m
        <4>1. /\ Set(at, [slot[at] EXCEPT !.open = File, !.pos = Place, !.status = "end"])
              /\ buf' = buf
          BY <1>3, <3>2 DEF ProcessRead
        <4>2. "end" \in Statuses
          BY DEF Statuses
        <4> QED
          BY <2>2, <3>2, <4>1, <4>2
      <3> QED
        BY <3>1, <3>2
    <2>4. /\ \A s \in Slots \ {at} : slot'[s] = slot[s]
          /\ slot'[at].alloc = slot[at].alloc /\ slot'[at].name = slot[at].name
          /\ slot'[at].func = slot[at].func /\ slot'[at].complete = slot[at].complete
          /\ slot'[at].open = File /\ slot'[at].pos = p /\ slot'[at].status = v
      BY <2>2, <2>3, DoneSlot
    <2>5. ASSUME at \notin dirty
          PROVE  Served(job.slot)' /\ Announced'
      <3>1. /\ at = job.slot /\ Served(at) /\ client \in {"wait", "closing"} /\ ~slot[at].complete
        BY <1>1, <2>5, AtJob
      <3>2. client = "wait" /\ job.how = "READ"
        BY <1>1, <3>1 DEF Served
      <3>3. File = job.name /\ Place = PlaceOf(job.slot) /\ job.name # NoFile
        BY <1>1, <2>5, JobFile
      <3>4. Processed(job.slot)' /\ PlaceOf(job.slot)' = p
        BY <1>1, <2>4, <3>1, <3>3 DEF Processed, PlaceOf
      <3>5. Served(job.slot)'
        BY <1>1, <2>4, <3>1, <3>2, <3>3, <3>4 DEF Served, Resting
      <3>6. Before
        BY <1>1, <3>1, <3>2 DEF Before, Processed
      <3>7. ~Before' /\ (Bytes' <=> v = "bytes") /\ (AtEnd' <=> v = "end") /\ ~Over'
        BY <1>1, <2>4, <3>1, <3>2, <3>4 DEF Before, Bytes, AtEnd, Over, handle
      <3>8. Reading => Reading'
        <4> SUFFICES ASSUME Reading PROVE Reading'
          OBVIOUS
        <4>1. /\ Len(got) <= Len(card[File]) /\ \A i \in 1 .. Len(got) : got[i] = card[File][i]
              /\ Place = Len(got)
          BY <3>2, <3>3, <3>6 DEF Reading
        <4>2. Len(got) \in Nat /\ Len(card[File]) \in Nat
          BY <2>2, LenProperties DEF FilerInv, TypeOK
        <4>3. v = "bytes" => p = Len(got) + 1 /\ Len(got) < Len(card[File])
                             /\ buf' = card[File][Len(got) + 1]
          BY <2>3, <4>1
        <4>4. v = "end" => Len(got) = Len(card[File])
          BY <2>3, <4>1, <4>2
        <4> QED
          BY <1>1, <2>1, <3>3, <3>4, <3>7, <4>1, <4>3, <4>4 DEF Reading
      <3> QED
        BY <1>1, <3>2, <3>5, <3>8 DEF SessionInv, Announced
    <2> QED
      BY <1>1, <2>4, <2>5, SessionAt
  <1> QED
    BY <1>2, <1>3

LEMMA WrittenTyped ==
  ASSUME FilerInv, card[File] \in Seq(Nat), Place \in Nat
  PROVE  /\ Written \in Seq(Nat) /\ Len(Written) \in Nat
         /\ at \notin dirty /\ Place <= Len(card[File]) =>
              /\ Len(Written) = Place + 1 /\ Written[Place + 1] = buf
              /\ \A i \in 1 .. Place : Written[i] = card[File][i]
  <1>1. buf \in Nat
    BY DEF FilerInv, TypeOK
  <1>2. Len(card[File]) \in Nat
    BY LenProperties
  <1>3. CASE at \in dirty \/ Place > Len(card[File])
    <2>1. Written = <<0>>
      BY <1>3 DEF Written, Spoiled
    <2> QED
      BY <1>2, <1>3, <2>1
  <1>4. CASE at \notin dirty /\ Place <= Len(card[File])
    <2>1. PICK file \in Seq(Nat), n \in Nat : file = card[File] /\ n = Place /\ n <= Len(file)
      BY <1>4
    <2>2. PICK head1 : head1 = SubSeq(file, 1, n)
      OBVIOUS
    <2>3. /\ head1 \in Seq(Nat) /\ Len(head1) = n
          /\ \A i \in 1 .. n : head1[i] = file[i]
      BY <1>2, <2>1, <2>2, SubSeqProperties
    <2>4. /\ Append(head1, buf) \in Seq(Nat) /\ Len(Append(head1, buf)) = n + 1
          /\ \A i \in 1 .. n : Append(head1, buf)[i] = head1[i]
          /\ Append(head1, buf)[n + 1] = buf
      BY <1>1, <2>3, AppendProperties
    <2>5. Written = Append(head1, buf)
      BY <1>2, <1>4, <2>1, <2>2 DEF Written
    <2> QED
      BY <2>1, <2>3, <2>4, <2>5
  <1> QED
    BY <1>2, <1>3, <1>4

LEMMA SessionWrites == FilerInv /\ SessionInv /\ ProcessWrite => SessionInv'
  <1> SUFFICES ASSUME FilerInv, SessionInv, ProcessWrite PROVE SessionInv'
    OBVIOUS
  <1>1. /\ pc = "work" /\ pc' = "done" /\ slot[at].func = "WRITE"
        /\ UNCHANGED <<at, client, job, got, ok, clean, dirty>>
    BY DEF ProcessWrite, Work, workUnchanged
  <1>2. CASE Failed
    BY <1>1, <1>2, SessionFailed
  <1>3. CASE ~Failed
    <2>1. Valid /\ UNCHANGED buf /\ card' = [card EXCEPT ![File] = Written]
          /\ Set(at, [slot[at] EXCEPT !.open = File, !.pos = Len(Written), !.status = "bytes"])
      BY <1>3 DEF ProcessWrite
    <2>2. File \in Names /\ Place \in Nat /\ card[File] \in Seq(Nat)
      BY <1>1, <2>1, FileName
    <2>3. Len(Written) \in Nat /\ "bytes" \in Statuses
      BY <2>2, WrittenTyped DEF Statuses
    <2>4. /\ \A s \in Slots \ {at} : slot'[s] = slot[s]
          /\ slot'[at].alloc = slot[at].alloc /\ slot'[at].name = slot[at].name
          /\ slot'[at].func = slot[at].func /\ slot'[at].complete = slot[at].complete
          /\ slot'[at].open = File /\ slot'[at].pos = Len(Written) /\ slot'[at].status = "bytes"
      BY <2>1, <2>2, <2>3, DoneSlot
    <2>5. ASSUME at \notin dirty
          PROVE  Served(job.slot)' /\ Announced'
      <3>1. /\ at = job.slot /\ Served(at) /\ client \in {"wait", "closing"} /\ ~slot[at].complete
        BY <1>1, <2>5, AtJob
      <3>2. client = "wait" /\ job.how = "WRITE"
        BY <1>1, <3>1 DEF Served
      <3>3. File = job.name /\ Place = PlaceOf(job.slot) /\ job.name # NoFile
        BY <1>1, <2>5, JobFile
      <3>4. Processed(job.slot)' /\ PlaceOf(job.slot)' = Len(Written)
        BY <1>1, <2>4, <3>1, <3>3 DEF Processed, PlaceOf
      <3>5. Served(job.slot)'
        BY <1>1, <2>4, <3>1, <3>2, <3>3, <3>4 DEF Served, Resting
      <3>6. Before
        BY <1>1, <3>1, <3>2 DEF Before, Processed
      <3>7. ~Before' /\ ~Over'
        BY <1>1, <3>2, <3>4 DEF Before, Over
      <3>8. card'[job.name] = Written
        BY <2>1, <2>2, <3>3 DEF FilerInv, TypeOK
      <3>9. Writing => Writing'
        <4> SUFFICES ASSUME Writing PROVE Writing'
          OBVIOUS
        <4>1. PICK n \in Nat : n = Len(got)
          BY LenProperties DEF FilerInv, TypeOK
        <4>2. Place = n /\ Holds(card[File], n) /\ n < Len(NewLines) /\ buf = NewLines[n + 1]
          BY <3>2, <3>3, <3>6, <4>1 DEF Writing
        <4>3. Len(card[File]) \in Nat /\ Len(NewLines) \in Nat
          BY <2>2, LenProperties, FilerAssumption
        <4>4. /\ Len(Written) = n + 1 /\ Written[n + 1] = buf
              /\ \A i \in 1 .. n : Written[i] = card[File][i]
          BY <2>2, <2>5, <4>2, <4>3, WrittenTyped DEF Holds
        <4>5. ASSUME NEW i \in 1 .. n + 1
              PROVE  Written[i] = NewLines[i]
          <5>1. CASE i = n + 1
            BY <4>2, <4>4, <5>1
          <5>2. CASE i # n + 1
            <6>1. i \in 1 .. n /\ n # 0
              BY <4>1, <5>2
            <6> QED
              BY <4>2, <4>4, <6>1 DEF Holds
          <5> QED
            BY <5>1, <5>2
        <4>6. Holds(Written, n + 1)
          <5>1. n + 1 <= Len(NewLines)
            BY <4>1, <4>2, <4>3
          <5> QED
            BY <4>4, <4>5, <5>1 DEF Holds
        <4>7. Len(got') = n /\ NewLines' = NewLines
          BY <1>1, <4>1
        <4>8. PlaceOf(job.slot)' = Len(got)' + 1 /\ Holds(card[job.name], Len(got) + 1)'
          BY <1>1, <3>4, <3>8, <4>1, <4>4, <4>6 DEF Holds
        <4> QED
          BY <3>7, <4>8 DEF Writing
      <3> QED
        BY <1>1, <3>2, <3>5, <3>9 DEF SessionInv, Announced
    <2> QED
      BY <1>1, <2>4, <2>5, SessionAt
  <1> QED
    BY <1>2, <1>3

-------------------------------------------------------------------------------
(* A restart in a session *)

LEMMA SessionMount == FilerInv /\ SessionInv /\ Mount => SessionInv'
  <1> SUFFICES ASSUME FilerInv, SessionInv, Mount PROVE SessionInv'
    OBVIOUS
  <1>1. /\ pc' = "loop" /\ UNCHANGED <<client, job>> /\ clean' = (client = "idle")
        /\ dirty' = dirty \cup {s \in Slots \ {Stream} : slot[s].alloc}
    BY DEF Mount, clientVars
  <1>2. ASSUME NEW s \in Slots
        PROVE  /\ slot'[s].alloc = slot[s].alloc /\ slot'[s].name = slot[s].name
               /\ slot'[s].func = slot[s].func
               /\ slot[s].open = NoFile => slot'[s].open = NoFile
    <2>1. slot[s] \in Slot /\ slot'[s] = ResetTable[s]
      BY DEF FilerInv, TypeOK, Mount
    <2>2. slot[s].alloc \in BOOLEAN
      BY <2>1 DEF Slot
    <2>3. CASE slot[s].alloc
      <3>1. slot'[s] = [Shut(slot[s]) EXCEPT !.complete = TRUE]
        BY <2>1, <2>3 DEF ResetTable
      <3> QED
        BY <2>1, <3>1 DEF Slot, Shut
    <2>4. CASE ~slot[s].alloc /\ slot[s].open = NoFile
      BY <2>1, <2>4 DEF ResetTable
    <2>5. CASE ~slot[s].alloc /\ slot[s].open # NoFile
      <3>1. slot'[s] = [Shut(slot[s]) EXCEPT !.open = Stale]
        BY <2>1, <2>5 DEF ResetTable
      <3> QED
        BY <2>1, <2>5, <3>1 DEF Slot, Shut
    <2> QED
      BY <2>3, <2>4, <2>5
  <1>3. ASSUME NEW s \in Slots, Pending(s)'
        PROVE  Pending(s)
    BY <1>1, <1>2, <1>3 DEF Pending
  <1>4. OneSlot'
    <2>1. \A s \in dirty' : s \in dirty \/ (s \in Slots \ {Stream} /\ client # "idle" /\ s = job.slot)
      BY <1>1 DEF SessionInv, OneSlot, InSession
    <2> QED
      BY <1>1, <1>2, <1>3, <2>1 DEF SessionInv, OneSlot, InSession, FilerInv, TypeOK
  <1>5. Orderly'
    <2>1. ASSUME NEW s \in Slots \ ({Stream} \cup dirty')
          PROVE  s \notin dirty /\ ~(InSession /\ s = job.slot)
      BY <1>1, <2>1 DEF SessionInv, OneSlot
    <2> QED
      BY <1>1, <1>3, <2>1 DEF SessionInv, Orderly, InSession
  <1>6. Announced'
    BY <1>1 DEF Announced
  <1> QED
    BY <1>4, <1>5, <1>6 DEF SessionInv

LEMMA SessionCloseFile == FilerInv /\ SessionInv /\ CloseFile => SessionInv'
  <1> SUFFICES ASSUME FilerInv, SessionInv, CloseFile PROVE SessionInv'
    OBVIOUS
  <1>1. /\ pc = "close" /\ pc' \in {"flush", "restart"} /\ UNCHANGED <<client, job, got, ok, buf, card>>
        /\ clean' = (clean /\ ~slot[at].alloc)
        /\ dirty' = IF slot[at].alloc /\ at # Stream THEN dirty \cup {at} ELSE dirty
    BY DEF CloseFile, clientVars, diskVars
  <1>2. slot[at] \in Slot /\ at \in Slots
    BY DEF FilerInv, TypeOK
  <1>3. /\ slot'[at].alloc = slot[at].alloc /\ slot'[at].name = slot[at].name
        /\ slot'[at].func = slot[at].func /\ slot'[at].open = NoFile
        /\ \A s \in Slots \ {at} : slot'[s] = slot[s]
    <2>1. slot' = [slot EXCEPT ![at] = Shut(slot[at])]
      BY DEF CloseFile, ClosedFile
    <2>2. slot'[at] = Shut(slot[at])
      BY <1>2, <2>1 DEF FilerInv, TypeOK
    <2> QED
      BY <1>2, <2>2, CloseSlot DEF Shut, Slot
  <1>4. ASSUME NEW s \in Slots, Pending(s)'
        PROVE  Pending(s)
    BY <1>1, <1>3, <1>4 DEF Pending
  <1>5. OneSlot'
    <2>1. \A s \in dirty' : s \in dirty \/ (s \in Slots \ {Stream} /\ client # "idle" /\ s = job.slot)
      BY <1>1, <1>2 DEF SessionInv, OneSlot, InSession
    <2>2. \A s \in Slots : slot'[s].alloc = slot[s].alloc /\ slot'[s].name = slot[s].name
      BY <1>3
    <2>3. Stream \notin dirty'
      BY <1>1 DEF SessionInv, OneSlot
    <2> QED
      BY <1>1, <1>4, <2>1, <2>2, <2>3 DEF SessionInv, OneSlot, InSession, FilerInv, TypeOK
  <1>6. ASSUME InSession, at = job.slot
        PROVE  at \in dirty' /\ ~clean'
    BY <1>1, <1>2, <1>6 DEF SessionInv, OneSlot, InSession
  <1>7. Orderly'
    <2>1. ASSUME NEW s \in Slots \ ({Stream} \cup dirty')
          PROVE  IF InSession /\ s = job.slot THEN Served(s)' ELSE ~Pending(s)'
      <3>1. IF InSession /\ s = job.slot THEN Served(s) ELSE ~Pending(s)
        BY <1>1 DEF SessionInv, Orderly
      <3>2. CASE InSession /\ s = job.slot
        <4>1. s # at /\ slot'[s] = slot[s]
          BY <1>3, <1>6, <3>2
        <4>2. (Resting(s)' <=> Resting(s)) /\ (Processed(s)' <=> Processed(s))
          BY <1>1, <4>1 DEF Resting, Processed
        <4> QED
          BY <1>1, <3>1, <3>2, <4>1, <4>2 DEF Served
      <3> QED
        BY <1>4, <3>1, <3>2
    <2> QED
      BY <1>1, <2>1 DEF Orderly, InSession
  <1>8. Announced'
    <2> SUFFICES ASSUME client # "idle", clean'
                 PROVE  /\ job.slot \notin dirty'
                        /\ job.how = "READ" => Reading'
                        /\ job.how = "WRITE" => Writing'
      BY <1>1 DEF Announced
    <2>1. clean /\ ~slot[at].alloc /\ dirty' = dirty /\ ~(InSession /\ at = job.slot)
      BY <1>1, <1>6
    <2>2. job.slot \in Slots
      BY DEF FilerInv, TypeOK
    <2>3. CASE InSession
      <3>1. slot'[job.slot] = slot[job.slot]
        BY <1>3, <2>1, <2>2, <2>3
      <3>2. /\ PlaceOf(job.slot)' = PlaceOf(job.slot) /\ handle' = handle
            /\ (Processed(job.slot)' <=> Processed(job.slot))
        BY <1>1, <3>1 DEF PlaceOf, handle, Processed
      <3>3. (Before' <=> Before) /\ (Bytes' <=> Bytes) /\ (AtEnd' <=> AtEnd) /\ (Over' <=> Over)
        BY <1>1, <3>2 DEF Before, Bytes, AtEnd, Over
      <3>4. (Reading' <=> Reading) /\ (Writing' <=> Writing)
        BY <1>1, <3>2, <3>3 DEF Reading, Writing, Holds
      <3> QED
        BY <2>1, <3>4 DEF SessionInv, Announced
    <2>4. CASE ~InSession
      <3>1. client = "told"
        BY <2>4 DEF InSession
      <3>2. ~Before' /\ ~Bytes' /\ ~AtEnd' /\ (Over' <=> Over)
        BY <1>1, <3>1 DEF Before, Bytes, AtEnd, Over
      <3>3. (Reading => Reading') /\ (Writing => Writing')
        BY <1>1, <3>1, <3>2 DEF Reading, Writing
      <3> QED
        BY <2>1, <3>3 DEF SessionInv, Announced
    <2> QED
      BY <2>3, <2>4
  <1> QED
    BY <1>5, <1>7, <1>8 DEF SessionInv

-------------------------------------------------------------------------------
(* The steps of a client *)

LEMMA SessionOpen == FilerInv /\ SessionInv /\ Open => SessionInv'
  <1> SUFFICES ASSUME FilerInv, SessionInv, Open PROVE SessionInv'
    OBVIOUS
  <1>1. PICK n \in Names, how \in {"READ", "WRITE"}, s \in Slots :
          /\ First(s, n) /\ job' = [name |-> n, how |-> how, slot |-> s]
          /\ Set(s, [slot[s] EXCEPT !.alloc = TRUE, !.name = n, !.complete = FALSE])
          /\ clean' = (s \notin dirty)
    BY DEF Open
  <1>2. /\ client = "idle" /\ client' = "use" /\ got' = <<>> /\ UNCHANGED <<pc, at, card, dirty>>
        /\ job'.name = n /\ job'.how = how /\ job'.slot = s
    BY <1>1 DEF Open, clientUnchanged, filerVars, diskVars
  <1>3. s # Stream /\ \A o \in Slots \ {Stream} : s <= o
    <2>1. s # Stream
      BY <1>1, FilerAssumption DEF First, Fit, FilerInv, Table
    <2>2. \A o \in Slots \ {Stream} : ~slot[o].alloc
      BY <1>2 DEF SessionInv, OneSlot, InSession
    <2> QED
      BY <1>1, <2>1, <2>2 DEF First, Fit
  <1> DEFINE f == [slot[s] EXCEPT !.alloc = TRUE, !.name = n, !.complete = FALSE]
  <1>4. slot[s] \in Slot /\ f \in Slot
    BY SlotFields DEF FilerInv, TypeOK
  <1>5. f.alloc /\ f.name = n /\ ~f.complete /\ f.func = slot[s].func /\ f.open = slot[s].open
    BY <1>4 DEF Slot
  <1>6. Set(s, f)
    BY <1>1
  <1> HIDE DEF f
  <1>7. slot'[s] = f /\ \A o \in Slots \ {s} : slot'[o] = slot[o]
    BY <1>4, <1>6, SetSlot DEF FilerInv, TypeOK
  <1>8. \A o \in Slots : Pending(o)' <=> Pending(o)
    BY <1>2, <1>5, <1>7 DEF Pending
  <1>9. OneSlot'
    BY <1>2, <1>3, <1>5, <1>7, <1>8 DEF SessionInv, OneSlot, InSession
  <1>10. Orderly'
    <2>1. ASSUME NEW o \in Slots \ ({Stream} \cup dirty)
          PROVE  ~Pending(o) /\ (o = s => Served(o)')
      <3>1. ~Pending(o)
        BY <1>2 DEF SessionInv, Orderly, InSession
      <3>2. o = s => Resting(o)'
        BY <1>2, <1>5, <1>7, <3>1 DEF Pending, Resting
      <3> QED
        BY <1>2, <1>5, <1>7, <3>1, <3>2 DEF Pending, Served
    <2> QED
      BY <1>2, <1>8, <2>1 DEF Orderly, InSession
  <1>11. Announced'
    <2> SUFFICES ASSUME s \notin dirty
                 PROVE  Reading' /\ Writing'
      BY <1>1, <1>2 DEF Announced
    <2>1. Len(got') = 0 /\ 0 <= Len(NewLines) /\ 0 <= Len(card[n])
      BY <1>2, LenProperties, FilerAssumption DEF FilerInv, TypeOK
    <2>2. ~Pending(s)
      BY <1>2, <1>3 DEF SessionInv, Orderly, InSession
    <2>3. PlaceOf(s)' = 0
      BY <1>5, <1>7, <2>2 DEF Pending, PlaceOf
    <2>4. Before' /\ ~Bytes' /\ ~AtEnd' /\ ~Over'
      BY <1>2 DEF Before, Bytes, AtEnd, Over
    <2>5. Reading'
      BY <1>2, <2>1, <2>3, <2>4 DEF Reading, PlaceOf
    <2>6. Writing'
      BY <1>2, <2>1, <2>3, <2>4 DEF Writing, PlaceOf, Holds
    <2> QED
      BY <2>5, <2>6
  <1> QED
    BY <1>9, <1>10, <1>11 DEF SessionInv

\* What is left to show of a step of a client that keeps its file.
LEMMA SessionStep ==
  ASSUME FilerInv, SessionInv, InSession, client' \in {"use", "wait", "end", "closing", "told"},
         UNCHANGED <<job, clean, pc, at>>,
         \A s \in Slots \ {job.slot} : slot'[s] = slot[s],
         slot'[job.slot].name = slot[job.slot].name, slot'[job.slot].alloc <=> InSession',
         dirty' = dirty \/ (dirty' = dirty \ {job.slot} /\ ~Pending(job.slot)'),
         client' = "told" => Pending(job.slot)' <=> Pending(job.slot),
         job.slot \notin dirty =>
           /\ IF InSession' THEN dirty' = dirty /\ Served(job.slot)' ELSE ~Pending(job.slot)'
           /\ Reading /\ clean /\ job.how = "READ" => Reading'
           /\ Writing /\ clean /\ job.how = "WRITE" => Writing',
         InSession' => dirty' = dirty
  PROVE  SessionInv'
  <1>1. job.slot \in Slots \ {Stream} /\ client # "idle"
    BY DEF SessionInv, OneSlot, InSession, FilerInv, TypeOK
  <1>2. ASSUME NEW s \in Slots \ {job.slot}
        PROVE  Pending(s)' <=> Pending(s)
    BY <1>2 DEF Pending
  <1>3. OneSlot'
    BY <1>1, <1>2 DEF SessionInv, OneSlot, InSession
  <1>4. Orderly'
    <2>1. ASSUME NEW s \in Slots \ ({Stream} \cup dirty'), s # job.slot
          PROVE  ~Pending(s)'
      BY <1>2, <2>1 DEF SessionInv, Orderly
    <2>2. ASSUME job.slot \notin dirty'
          PROVE  IF InSession' THEN Served(job.slot)' ELSE ~Pending(job.slot)'
      BY <2>2
    <2> QED
      BY <2>1, <2>2 DEF Orderly
  <1>5. Announced'
    BY <1>1 DEF SessionInv, Announced
  <1> QED
    BY <1>3, <1>4, <1>5 DEF SessionInv

LEMMA SessionAsk == FilerInv /\ SessionInv /\ Ask => SessionInv'
  <1> SUFFICES ASSUME FilerInv, SessionInv, Ask PROVE SessionInv'
    OBVIOUS
  <1>1. /\ client = "use" /\ (job.how = "WRITE" => Len(got) < Len(NewLines))
        /\ UNCHANGED <<job, got, clean, dirty, pc, at, card>> /\ InSession
    BY DEF Ask, clientUnchanged, filerVars, diskVars, InSession
  <1>2. /\ slot \in [Slots -> Slot] /\ handle \in Slot /\ job.slot \in Slots /\ handle = slot[job.slot]
        /\ job.how \in {"READ", "WRITE"} /\ handle.alloc
    BY <1>1 DEF FilerInv, TypeOK, handle, SessionInv, OneSlot
  <1>3. job.slot \notin dirty => Served(job.slot) /\ Resting(job.slot)
    <2>1. job.slot # Stream
      BY <1>1 DEF SessionInv, OneSlot
    <2> QED
      BY <1>1, <1>2, <2>1 DEF SessionInv, Orderly, Served
  <1>4. CASE initialized
    <2> DEFINE f == Requested(handle, job.how)
    <2>1. /\ f \in Slot /\ f.func = job.how /\ f.open = handle.open /\ f.name = handle.name
          /\ ~f.complete /\ f.alloc = handle.alloc /\ f.pos = handle.pos
      <3>1. f \in Slot /\ f.func = job.how /\ f.open = handle.open /\ f.name = handle.name
        BY <1>2, RequestedSlot DEF Funcs
      <3>2. ~f.complete /\ f.alloc = handle.alloc /\ f.pos = handle.pos
        BY <1>2 DEF Requested, Slot
      <3> QED
        BY <3>1, <3>2
    <2>2. /\ Set(job.slot, f) /\ client' = "wait" /\ ok' = ok
          /\ buf' = IF job.how = "WRITE" THEN NewLines[Len(got) + 1] ELSE buf
      BY <1>4 DEF Ask
    <2> HIDE DEF f
    <2>3. slot'[job.slot] = f /\ \A s \in Slots \ {job.slot} : slot'[s] = slot[s]
      BY <1>2, <2>1, <2>2, SetSlot
    <2>4. ASSUME job.slot \notin dirty
          PROVE  /\ Served(job.slot)'
                 /\ Reading => Reading'
                 /\ Writing /\ job.how = "WRITE" => Writing'
      <3>1. ~Processed(job.slot)' /\ PlaceOf(job.slot)' = PlaceOf(job.slot)
        BY <1>1, <1>2, <1>3, <2>1, <2>3, <2>4 DEF Processed, PlaceOf, Resting
      <3>2. Served(job.slot)'
        BY <1>1, <1>2, <1>3, <2>1, <2>2, <2>3, <2>4, <3>1 DEF Served, Resting
      <3>3. Before /\ Before' /\ ~Bytes' /\ ~AtEnd' /\ ~Over'
        BY <1>1, <2>2, <3>1 DEF Before, Bytes, AtEnd, Over
      <3>4. Reading => Reading'
        BY <1>1, <2>2, <3>1, <3>3 DEF Reading
      <3>5. Writing /\ job.how = "WRITE" => Writing'
        BY <1>1, <2>2, <3>1, <3>3 DEF Writing, Holds
      <3> QED
        BY <3>2, <3>4, <3>5
    <2> QED
      BY <1>1, <1>2, <2>1, <2>2, <2>3, <2>4, SessionStep DEF InSession
  <1>5. CASE ~initialized
    <2>1. client' = "end" /\ ok' = FALSE /\ UNCHANGED <<slot, buf>>
      BY <1>5 DEF Ask
    <2>2. ASSUME job.slot \notin dirty
          PROVE  Served(job.slot)' /\ (Reading => Reading') /\ (Writing => Writing')
      <3>1. Served(job.slot)'
        BY <1>1, <1>3, <2>1, <2>2 DEF Served, Resting
      <3>2. ~Before' /\ ~Bytes' /\ ~AtEnd' /\ ~Over'
        BY <2>1 DEF Before, Bytes, AtEnd, Over
      <3>3. Reading' /\ Writing'
        BY <2>1, <3>2 DEF Reading, Writing
      <3> QED
        BY <3>1, <3>3
    <2> QED
      BY <1>1, <1>2, <2>1, <2>2, SessionStep DEF InSession
  <1> QED
    BY <1>4, <1>5

LEMMA SessionReturn == FilerInv /\ SessionInv /\ Return => SessionInv'
  <1> SUFFICES ASSUME FilerInv, SessionInv, Return PROVE SessionInv'
    OBVIOUS
  <1>1. /\ client = "wait" /\ handle.complete /\ handle = slot[job.slot]
        /\ UNCHANGED <<job, buf, slot, clean, dirty, pc, at, card>> /\ InSession
    BY DEF Return, clientUnchanged, filerVars, diskVars, InSession, handle
  <1>2. /\ job.slot \in Slots \ {Stream} /\ handle.alloc /\ got \in Seq(Nat) /\ buf \in Nat
        /\ card[job.name] \in Seq(Nat)
    BY <1>1 DEF FilerInv, TypeOK, SessionInv, OneSlot
  <1>3. Processed(job.slot)
    BY <1>1 DEF Processed
  <1>4. CASE handle.status = "bytes"
    <2>1. client' = "use" /\ ok' = ok /\ got' = IF clean \/ job.how = "WRITE" THEN Append(got, buf) ELSE got
      BY <1>4 DEF Return
    <2>2. ASSUME job.slot \notin dirty
          PROVE  /\ Served(job.slot)'
                 /\ Reading /\ clean /\ job.how = "READ" => Reading'
                 /\ Writing /\ clean /\ job.how = "WRITE" => Writing'
      <3>1. Served(job.slot)'
        BY <1>1, <1>2, <2>1, <2>2 DEF SessionInv, Orderly, Served, Resting
      <3>2. Bytes /\ Before' /\ ~Bytes' /\ ~AtEnd' /\ ~Over' /\ PlaceOf(job.slot)' = PlaceOf(job.slot)
        BY <1>1, <1>3, <1>4, <2>1 DEF Before, Bytes, AtEnd, Over, PlaceOf
      <3>3. ASSUME clean
            PROVE  /\ Len(got') = Len(got) + 1 /\ got'[Len(got) + 1] = buf /\ Len(got) \in Nat
                   /\ \A i \in 1 .. Len(got) : got'[i] = got[i]
        BY <1>2, <2>1, <3>3, AppendProperties, LenProperties
      <3>4. Reading /\ clean => Reading'
        <4> SUFFICES ASSUME Reading, clean PROVE Reading'
          OBVIOUS
        <4>1. /\ \A i \in 1 .. Len(got) : got[i] = card[job.name][i]
              /\ Len(got) < Len(card[job.name]) /\ buf = card[job.name][Len(got) + 1]
              /\ PlaceOf(job.slot) = Len(got) + 1
          BY <1>1, <3>2 DEF Reading
        <4>2. PICK n \in Nat : n = Len(got) /\ Len(got') = n + 1
          BY <3>3
        <4>3. ASSUME NEW i \in 1 .. n + 1
              PROVE  got'[i] = card[job.name][i]
          <5>1. CASE i = n + 1
            BY <3>3, <4>1, <4>2, <5>1
          <5>2. CASE i # n + 1
            <6>1. i \in 1 .. n
              BY <4>2, <5>2
            <6> QED
              BY <3>3, <4>1, <4>2, <6>1
          <5> QED
            BY <5>1, <5>2
        <4>4. n + 1 <= Len(card[job.name])
          BY <1>2, <4>1, <4>2, LenProperties
        <4> QED
          BY <1>1, <3>2, <4>1, <4>2, <4>3, <4>4 DEF Reading
      <3>5. Writing /\ clean => Writing'
        <4> SUFFICES ASSUME Writing, clean PROVE Writing'
          OBVIOUS
        <4>1. PlaceOf(job.slot) = Len(got) + 1 /\ Holds(card[job.name], Len(got) + 1)
          BY <3>2 DEF Writing
        <4> QED
          BY <1>1, <2>1, <3>2, <3>3, <4>1 DEF Writing, Holds
      <3> QED
        BY <3>1, <3>4, <3>5
    <2> QED
      BY <1>1, <1>2, <2>1, <2>2, SessionStep DEF InSession
  <1>5. CASE handle.status # "bytes"
    <2>1. client' = "end" /\ got' = got /\ ok' = (job.how = "READ" /\ handle.status = "end")
      BY <1>5 DEF Return
    <2>2. ASSUME job.slot \notin dirty
          PROVE  /\ Served(job.slot)'
                 /\ Reading => Reading'
                 /\ job.how = "WRITE" => Writing'
      <3>1. Served(job.slot)'
        BY <1>1, <1>2, <2>1, <2>2 DEF SessionInv, Orderly, Served, Resting
      <3>2. ~Before' /\ ~Bytes' /\ ~AtEnd' /\ (Over' => job.how = "READ" /\ AtEnd)
        BY <1>1, <1>3, <2>1 DEF Before, Bytes, AtEnd, Over
      <3>3. Reading /\ AtEnd => got = card[job.name]
        BY <1>1, <1>2, SeqEqual DEF Reading
      <3>4. Reading => Reading'
        BY <1>1, <2>1, <3>2, <3>3 DEF Reading
      <3>5. job.how = "WRITE" => Writing'
        BY <3>2 DEF Writing
      <3> QED
        BY <3>1, <3>4, <3>5
    <2> QED
      BY <1>1, <1>2, <2>1, <2>2, SessionStep DEF InSession
  <1> QED
    BY <1>4, <1>5

LEMMA SessionFinish == FilerInv /\ SessionInv /\ Finish => SessionInv'
  <1> SUFFICES ASSUME FilerInv, SessionInv, Finish PROVE SessionInv'
    OBVIOUS
  <1>1. /\ client = "use" /\ client' = "end" /\ InSession
        /\ UNCHANGED <<job, buf, got, slot, clean, dirty, pc, at, card>>
        /\ IF job.how = "WRITE" THEN Len(got) >= Len(NewLines) /\ ok' = ok ELSE ok' = FALSE
    BY DEF Finish, clientUnchanged, filerVars, diskVars, InSession
  <1>2. /\ job.slot \in Slots \ {Stream} /\ slot[job.slot].alloc /\ card[job.name] \in Seq(Nat)
    BY <1>1 DEF FilerInv, TypeOK, SessionInv, OneSlot
  <1>3. ASSUME job.slot \notin dirty
        PROVE  /\ Served(job.slot)'
               /\ job.how = "READ" => Reading'
               /\ Writing /\ job.how = "WRITE" => Writing'
    <2>1. Served(job.slot)'
      BY <1>1, <1>2, <1>3 DEF SessionInv, Orderly, Served, Resting
    <2>2. Before /\ ~Before' /\ ~Bytes' /\ ~AtEnd' /\ (Over' => job.how = "WRITE")
      BY <1>1 DEF Before, Bytes, AtEnd, Over
    <2>3. job.how = "READ" => Reading'
      BY <1>1, <2>2 DEF Reading
    <2>4. Writing /\ job.how = "WRITE" => card[job.name] = NewLines
      <3> SUFFICES ASSUME Writing, job.how = "WRITE" PROVE card[job.name] = NewLines
        OBVIOUS
      <3>1. PICK n \in Nat : n = Len(got)
        BY LenProperties DEF FilerInv, TypeOK
      <3>2. Holds(card[job.name], n) /\ n >= Len(NewLines)
        BY <1>1, <2>2, <3>1 DEF Writing
      <3>3. Len(NewLines) \in Nat /\ Len(NewLines) # 0 /\ NewLines \in Seq(Nat)
        BY FilerAssumption, LenProperties, EmptySeq
      <3>4. n = Len(NewLines) /\ n # 0
        BY <3>2, <3>3 DEF Holds
      <3>5. Len(card[job.name]) = n /\ \A i \in 1 .. n : card[job.name][i] = NewLines[i]
        BY <3>2, <3>4 DEF Holds
      <3> QED
        BY <1>2, <3>3, <3>4, <3>5, SeqEqual
    <2>5. Writing /\ job.how = "WRITE" => Writing'
      BY <1>1, <2>2, <2>4 DEF Writing
    <2> QED
      BY <2>1, <2>3, <2>5
  <1> QED
    BY <1>1, <1>2, <1>3, SessionStep DEF InSession

\* What has been announced of a session stays so.
LEMMA OverStays ==
  ASSUME client \in {"end", "closing"}, client' \in {"closing", "told"},
         UNCHANGED <<job, got, ok, card>>
  PROVE  (Reading => Reading') /\ (Writing => Writing')
  <1>1. ~Before' /\ ~Bytes' /\ ~AtEnd' /\ (Over' <=> Over)
    BY DEF Before, Bytes, AtEnd, Over
  <1> QED
    BY <1>1 DEF Reading, Writing

LEMMA SessionLeaves == FilerInv /\ SessionInv /\ (Close \/ Closed) => SessionInv'
  <1> SUFFICES ASSUME FilerInv, SessionInv, Close \/ Closed PROVE SessionInv'
    OBVIOUS
  <1>1. /\ client \in {"end", "closing"} /\ client' \in {"closing", "told"} /\ InSession
        /\ UNCHANGED <<job, got, ok, clean, pc, at, card>>
    BY DEF Close, Closed, clientUnchanged, filerVars, diskVars, InSession
  <1>2. /\ job.slot \in Slots \ {Stream} /\ handle = slot[job.slot] /\ handle \in Slot
        /\ slot \in [Slots -> Slot] /\ handle.alloc
    BY <1>1 DEF FilerInv, TypeOK, SessionInv, OneSlot, handle
  <1>3. (Reading => Reading') /\ (Writing => Writing')
    BY <1>1, OverStays
  <1>4. job.slot \notin dirty => Served(job.slot)
    BY <1>1, <1>2 DEF SessionInv, Orderly
  <1>5. CASE Close /\ handle.open # NoFile
    <2> DEFINE f == Requested(handle, "CLOSE")
    <2>1. /\ f \in Slot /\ f.func = "CLOSE" /\ f.open = handle.open /\ f.name = handle.name
          /\ ~f.complete /\ f.alloc
      <3>1. f \in Slot /\ f.func = "CLOSE" /\ f.open = handle.open /\ f.name = handle.name
        BY <1>2, RequestedSlot DEF Funcs
      <3>2. ~f.complete /\ f.alloc = handle.alloc
        BY <1>2 DEF Requested, Slot
      <3> QED
        BY <1>2, <3>1, <3>2
    <2>2. Set(job.slot, f) /\ client = "end" /\ client' = "closing" /\ dirty' = dirty
      BY <1>5 DEF Close
    <2> HIDE DEF f
    <2>3. slot'[job.slot] = f /\ \A s \in Slots \ {job.slot} : slot'[s] = slot[s]
      BY <1>2, <2>1, <2>2, SetSlot
    <2>4. job.slot \notin dirty => Served(job.slot)'
      <3> SUFFICES ASSUME job.slot \notin dirty PROVE Served(job.slot)'
        OBVIOUS
      <3>1. Resting(job.slot) /\ slot[job.slot].open \in {NoFile, job.name}
        BY <1>4, <2>2 DEF Served
      <3>2. ~Processed(job.slot)'
        BY <1>1, <2>1, <2>3, <3>1 DEF Processed, Resting
      <3> QED
        BY <1>1, <1>2, <2>1, <2>2, <2>3, <3>1, <3>2 DEF Served, Resting
    <2> QED
      BY <1>1, <1>2, <1>3, <2>1, <2>2, <2>3, <2>4, SessionStep DEF InSession
  <1>6. CASE Closed \/ handle.open = NoFile
    <2> DEFINE f == [handle EXCEPT !.alloc = FALSE]
    <2>1. f \in Slot /\ f.func = handle.func /\ f.open = handle.open /\ f.name = handle.name /\ ~f.alloc
      <3>1. f \in Slot /\ f.func = handle.func /\ f.open = handle.open /\ f.name = handle.name
        BY <1>2, ReleasedSlot
      <3>2. ~f.alloc
        BY <1>2 DEF Slot
      <3> QED
        BY <3>1, <3>2
    <2>2. /\ Set(job.slot, f) /\ client' = "told"
          /\ dirty' = dirty \/ (dirty' = dirty \ {job.slot} /\ ~Pending(job.slot))
          /\ \/ client = "end" /\ handle.open = NoFile
             \/ client = "closing" /\ handle.complete
      BY <1>6 DEF Close, Closed
    <2> HIDE DEF f
    <2>3. slot'[job.slot] = f /\ \A s \in Slots \ {job.slot} : slot'[s] = slot[s]
      BY <1>2, <2>1, <2>2, SetSlot
    <2>4. Pending(job.slot)' <=> Pending(job.slot)
      BY <1>1, <1>2, <2>1, <2>3 DEF Pending
    <2>5. job.slot \notin dirty => ~Pending(job.slot)
      <3> SUFFICES ASSUME job.slot \notin dirty PROVE ~Pending(job.slot)
        OBVIOUS
      <3>1. Resting(job.slot) /\ slot[job.slot].open = NoFile
        BY <1>2, <1>4, <2>2 DEF Served, Processed
      <3> QED
        BY <3>1 DEF Resting, Pending
    <2> QED
      BY <1>1, <1>2, <1>3, <2>1, <2>2, <2>3, <2>4, <2>5, SessionStep DEF InSession
  <1> QED
    BY <1>5, <1>6 

LEMMA SessionStop == FilerInv /\ SessionInv /\ Rest => SessionInv'
  <1> SUFFICES ASSUME FilerInv, SessionInv, Rest PROVE SessionInv'
    OBVIOUS
  <1>1. client = "told" /\ client' = "idle" /\ UNCHANGED <<job, slot, dirty, pc, at>>
    BY DEF Rest, clientUnchanged, filerVars
  <1>2. OneSlot'
    BY <1>1 DEF SessionInv, OneSlot, InSession, Pending
  <1>3. Orderly'
    BY <1>1 DEF SessionInv, Orderly, InSession, Pending
  <1>4. Announced'
    BY <1>1 DEF Announced
  <1> QED
    BY <1>2, <1>3, <1>4 DEF SessionInv

-------------------------------------------------------------------------------

LEMMA SessionFiler ==
  ASSUME FilerInv, FilerInv', SessionInv,
         \/ HandOver \/ Restart \/ Surrender \/ Begin \/ Scan \/ ClearFlag \/ Wake
         \/ StreamTest \/ StreamWrite \/ Flush
  PROVE  SessionInv'
  <1>1. CASE HandOver \/ Restart \/ Surrender \/ Begin \/ Scan \/ ClearFlag \/ Wake \/ Flush
    <2>1. UNCHANGED <<slot, client, job, got, ok, buf, card, clean, dirty>>
      BY <1>1 DEF HandOver, Restart, Surrender, Begin, Scan, ClearFlag, Wake, Flush, clientVars,
                  diskVars, history
    <2>2. /\ pc \notin {"work", "done", "notify"} /\ pc' \notin {"done", "notify"}
          /\ pc' = "work" => slot[at'].func # "NONE"
      BY <1>1 DEF HandOver, Restart, Surrender, Begin, Scan, NextSlot, ClearFlag, Wake, Flush,
                  filerVars
    <2> QED
      BY <2>1, <2>2, SessionRest
  <1>2. CASE StreamTest \/ StreamWrite
    <2>1. UNCHANGED <<client, job, got, ok, buf, card, clean, dirty>>
      BY <1>2 DEF StreamTest, StreamWrite, streamUnchanged, clientVars
    <2>2. \A s \in Slots \ {Stream} : slot'[s] = slot[s]
      <3>1. slot \in [Slots -> Slot] /\ at = Stream
        BY <1>2 DEF StreamTest, StreamWrite, FilerInv, TypeOK, Dealing
      <3>2. \/ slot' = [slot EXCEPT ![at].open = LogFile]
            \/ slot' = [slot EXCEPT ![at] = Shut(@)]
            \/ slot' = slot
        BY <1>2 DEF StreamTest, StreamWrite
      <3> QED
        BY <3>1, <3>2
    <2>3. pc \notin {"work", "done", "notify"} /\ pc' \notin {"work", "done", "notify"}
      BY <1>2 DEF StreamTest, StreamWrite, NextSlot
    <2> QED
      BY <2>1, <2>2, <2>3, SessionRest
  <1> QED
    BY <1>1, <1>2

LEMMA SessionNext == FilerInv /\ SessionInv /\ [Next]_vars => SessionInv'
  <1> SUFFICES ASSUME FilerInv, SessionInv, [Next]_vars PROVE SessionInv'
    OBVIOUS
  <1>1. CASE Host \/ Log
    <2>1. UNCHANGED <<slot, client, job, got, ok, buf, card, clean, dirty, at, pc>>
      BY <1>1 DEF Host, Unplug, EnableMSC, EjectMSC, hostUnchanged, Log, filerVars, diskVars,
                  clientVars, history
    <2> QED
      BY <2>1, SessionSame
  <1>2. CASE Client
    BY <1>2, SessionOpen, SessionAsk, SessionReturn, SessionFinish, SessionLeaves, SessionStop DEF Client
  <1>3. CASE Filer
    <2>1. FilerInv'
      BY InvStep
    <2> QED
      BY <1>3, <2>1, SessionFiler, SessionMount, SessionReads, SessionWrites, SessionClose,
         SessionDone, SessionNotify, SessionCloseFile DEF Filer
  <1>4. CASE UNCHANGED vars
    <2>1. UNCHANGED <<slot, client, job, got, ok, buf, card, clean, dirty, at, pc>>
      BY <1>4 DEF vars, filerVars, diskVars, clientVars, history
    <2> QED
      BY <2>1, SessionSame
  <1> QED
    BY <1>1, <1>2, <1>3, <1>4 DEF Next

\* A file that is said to be read was read from its beginning to its end, and one that
\* is said to be written holds every line, whatever the files, the failures and the
\* host's requests, as long as no restart comes in between (filer.c:158-236, 349-436).
THEOREM FilerSessions == Spec => []SessionTrue
  <1>1. FilerInv /\ SessionInv => SessionTrue
    <2> SUFFICES ASSUME FilerInv, SessionInv, client = "told", ok, clean
                 PROVE  IF job.how = "READ" THEN got = card[job.name] ELSE card[job.name] = NewLines
      BY DEF SessionTrue
    <2>1. Over /\ job.how \in {"READ", "WRITE"}
      BY DEF Over, FilerInv, TypeOK
    <2>2. CASE job.how = "READ"
      <3>1. Reading
        BY <2>2 DEF SessionInv, Announced
      <3> QED
        BY <2>1, <2>2, <3>1 DEF Reading
    <2>3. CASE job.how = "WRITE"
      <3>1. Writing
        BY <2>3 DEF SessionInv, Announced
      <3> QED
        BY <2>1, <2>3, <3>1 DEF Writing
    <2> QED
      BY <2>1, <2>2, <2>3
  <1> QED
    BY <1>1, SessionInit, SessionNext, InvAlways, PTL DEF Spec

===============================================================================
