-------------------------------- MODULE Filer --------------------------------
(***************************************************************************)
(* The file system task (filer.c) between a task that reads or writes a    *)
(* file, a log stream, and the USB host that takes the card.               *)
(*                                                                         *)
(* The filer task has the lowest priority: it runs only when its callers   *)
(* wait, so filerReadWrite() from the test of `initialized' to the wait is *)
(* one step, while the filer may be preempted at any of its own steps.     *)
(* One task at a time uses files (the start-up task, later comm); it is    *)
(* `the client'.  The stream is the logger's, whose producer stops when    *)
(* the file system is not available.                                       *)
(*                                                                         *)
(* File contents are sequences of chunks.  Reads and writes are sequential *)
(* (all callers pass seek = -1).  Any disk operation may fail.             *)
(***************************************************************************)
EXTENDS Integers, Sequences

CONSTANTS
  MaxFiles,    \* FILER_MAX_FILES
  Stream,      \* the slot of the log
  Names,       \* the files the client uses
  ParamFile,   \* the one it also writes
  NewLines,    \* and what it writes to it
  FirstCard,   \* what the files hold at start-up
  RingSize,    \* the length of the log buffer
  Enough,      \* length / FILER_FLUSH_THRESHOLD
  MaxErrors,   \* bound: disk operations that fail
  MaxLogged    \* bound: records logged

Slots == 0 .. MaxFiles - 1

\* A file that is not open, and one that is marked as open but was opened before the
\* file system was mounted again.
NoFile  == "none"
Stale   == "stale"
LogFile == "LOG"
Spoiled == <<0>>
Funcs   == {"NONE", "READ", "WRITE", "STREAM", "CLOSE"}

ASSUME FilerAssumption ==
  /\ MaxFiles \in Nat /\ Stream \in Slots
  /\ ParamFile \in Names /\ Names \cap {NoFile, Stale, LogFile} = {}
  /\ NewLines \in Seq(Nat) /\ NewLines # <<>>
  /\ FirstCard \in [Names -> Seq(Nat)]
  /\ RingSize \in Nat \ {0} /\ Enough \in 1 .. RingSize
  /\ MaxErrors \in Nat /\ MaxLogged \in Nat

VARIABLES
  pc,           \* where the filer task is
  at,           \* the slot it is dealing with
  size,         \* what it is writing of the stream
  initialized,
  msc,          \* mscState
  filerFlag,
  slot,         \* the file table
  head, tail,   \* of the stream
  usb,          \* the USB host is there
  card,         \* the contents of the files
  errors,       \* how many disk operations have failed
  client,       \* where the client is in its use of a file
  job,          \* which file, how, and its handle
  buf,          \* its buffer
  got,          \* what it has read, or how much it has written
  ok,           \* it has seen no error
  \* history
  lag,          \* records in the log buffer that are not on the card
  logged,       \* records logged
  clean,        \* no restart has come between the client and its file
  dirty,        \* a restart may have left a request in the slot
  broken        \* a failed write of the stream made the task restart

filerVars  == <<pc, at, size, initialized>>
diskVars   == <<card, errors>>
clientVars == <<client, job, buf, got, ok>>
logVars    == <<head, tail, lag, logged>>
history    == <<clean, dirty, broken>>
vars == <<filerVars, msc, filerFlag, slot, usb, diskVars, clientVars, logVars, history>>

\* A status is a number of bytes, nothing ("end": end of file, or closed) or an error.
Statuses == {"bytes", "end", "error"}

Slot == [alloc : BOOLEAN, name : Names \cup {NoFile}, open : Names \cup {NoFile, Stale, LogFile},
         pos : Nat, func : Funcs, status : Statuses, complete : BOOLEAN]

TypeOK ==
  /\ pc \in {"restart", "mount", "loop", "scan", "work", "done", "notify", "stream",
             "write", "flush", "close",
             "clear", "wait"}
  /\ at \in Slots /\ size \in 0 .. RingSize /\ initialized \in BOOLEAN
  /\ msc \in {"DISABLE", "EJECT", "REQUEST", "ACTIVE"}
  /\ filerFlag \in BOOLEAN /\ usb \in BOOLEAN
  /\ slot \in [Slots -> Slot]
  /\ head \in 0 .. RingSize - 1 /\ tail \in 0 .. RingSize - 1
  /\ card \in [Names -> Seq(Nat)] /\ errors \in 0 .. MaxErrors
  /\ client \in {"idle", "use", "wait", "end", "closing", "told"}
  /\ job \in [name : Names, how : {"READ", "WRITE"}, slot : Slots]
  /\ buf \in Nat /\ got \in Seq(Nat) /\ ok \in BOOLEAN
  /\ lag \in Nat /\ logged \in 0 .. MaxLogged
  /\ clean \in BOOLEAN /\ broken \in BOOLEAN /\ dirty \subseteq Slots

\* filerInit(), and the logger's filerGetHandle() and filerStream().
Init ==
  /\ pc = "restart" /\ at = 0 /\ size = 0 /\ initialized = FALSE
  /\ msc = "DISABLE" /\ filerFlag = FALSE /\ usb = TRUE
  /\ slot = [s \in Slots |->
               [alloc |-> s = Stream, name |-> NoFile, open |-> NoFile, pos |-> 0,
                func |-> IF s = Stream THEN "STREAM" ELSE "NONE",
                status |-> "end", complete |-> FALSE]]
  /\ head = 0 /\ tail = 0 /\ lag = 0 /\ logged = 0
  /\ card = FirstCard /\ errors = 0
  /\ client = "idle" /\ job = [name |-> ParamFile, how |-> "READ", slot |-> Stream]
  /\ buf = 0 /\ got = <<>> /\ ok = FALSE
  /\ clean = TRUE /\ dirty = {} /\ broken = FALSE

-------------------------------------------------------------------------------
(***************************************************************************)
(* The USB host (interrupts) and the logger (a task of higher priority).   *)
(* The cable is plugged in at start-up and may be pulled.                  *)
(***************************************************************************)

Owned == msc \in {"REQUEST", "ACTIVE"}

hostUnchanged == UNCHANGED <<filerVars, filerFlag, slot, diskVars, clientVars, logVars, history>>

\* At another time it makes no difference.
Unplug == usb /\ Owned /\ usb' = FALSE /\ UNCHANGED msc /\ hostUnchanged

EnableMSC ==
  /\ usb /\ msc = "DISABLE" /\ msc' = "REQUEST"
  /\ UNCHANGED usb /\ hostUnchanged

EjectMSC ==
  /\ usb /\ msc = "ACTIVE" /\ msc' = "EJECT"
  /\ UNCHANGED usb /\ hostUnchanged

\* A mutant: the head and tail do not wrap.
WrapNot(n) == n

\* n % RingSize, for the n there are: below twice the length.
Wrap(n) == IF n < RingSize THEN n ELSE n - RingSize

\* loggerDo(); the card keeps up with it.  Records count only when the filer comes
\* to look at the head, so they are logged there.
Log ==
  /\ pc \in {"stream", "write", "flush", "close"}
  /\ initialized /\ lag + 1 < RingSize /\ logged < MaxLogged
  /\ head' = Wrap(head + 1) /\ lag' = lag + 1 /\ logged' = logged + 1
  /\ UNCHANGED <<filerVars, msc, filerFlag, slot, tail, usb, diskVars, clientVars, history>>

-------------------------------------------------------------------------------
(***************************************************************************)
(* The client: configReadFile(), configWriteFile(), esc32ReadFile()        *)
(***************************************************************************)

handle == slot[job.slot]
Shut(f) == [f EXCEPT !.open = NoFile, !.pos = 0]
Set(s, f) == slot' = [slot EXCEPT ![s] = f]

clientUnchanged == UNCHANGED <<filerVars, msc, usb, diskVars, logVars, broken>>

\* filerGetHandle(): the first slot that is free or has that name.
Fit(s, n)   == ~slot[s].alloc \/ slot[s].name = n
First(s, n) == Fit(s, n) /\ \A o \in Slots : Fit(o, n) => s <= o

Open ==
  /\ client = "idle" /\ client' = "use"
  /\ \E n \in Names, how \in {"READ", "WRITE"}, s \in Slots :
       /\ First(s, n) /\ (how = "WRITE" => n = ParamFile)
       /\ job' = [name |-> n, how |-> how, slot |-> s]
       /\ Set(s, [slot[s] EXCEPT !.alloc = TRUE, !.name = n, !.complete = FALSE])
       /\ clean' = (s \notin dirty)
  /\ buf' = 0 /\ got' = <<>> /\ ok' = TRUE
  /\ UNCHANGED <<filerFlag, dirty>> /\ clientUnchanged

\* A mutant: the completion of the request before is still signalled.
RequestedStale(f, func) == [f EXCEPT !.func = func]

\* The completion flag is cleared before the wait.
Requested(f, func) == [f EXCEPT !.func = func, !.complete = FALSE]

\* filerReadWrite(), with the next line in the buffer if it writes.
Ask ==
  /\ client = "use"
  /\ job.how = "WRITE" => Len(got) < Len(NewLines)
  /\ IF initialized
     THEN /\ client' = "wait" /\ filerFlag' = TRUE
          /\ Set(job.slot, Requested(handle, job.how))
          /\ buf' = IF job.how = "WRITE" THEN NewLines[Len(got) + 1] ELSE buf
          /\ UNCHANGED ok
     ELSE /\ client' = "end" /\ ok' = FALSE
          /\ UNCHANGED <<filerFlag, slot, buf>>
  /\ UNCHANGED <<job, got, clean, dirty>> /\ clientUnchanged

\* The wait is over: bytes are parsed, or counted as written, and more are asked
\* for; the end of the file ends a read, and is an error of a write.  What is read
\* after a restart is not told apart.
Return ==
  /\ client = "wait" /\ handle.complete
  /\ IF handle.status = "bytes"
     THEN /\ client' = "use" /\ UNCHANGED ok
          /\ got' = IF clean \/ job.how = "WRITE" THEN Append(got, buf) ELSE got
     ELSE /\ client' = "end" /\ UNCHANGED got
          /\ ok' = (job.how = "READ" /\ handle.status = "end")
  /\ UNCHANGED <<job, buf, filerFlag, slot, clean, dirty>> /\ clientUnchanged

\* All has been written, or what was read cannot be parsed.
Finish ==
  /\ client = "use" /\ client' = "end"
  /\ IF job.how = "WRITE" THEN Len(got) >= Len(NewLines) /\ UNCHANGED ok ELSE ok' = FALSE
  /\ UNCHANGED <<job, buf, got, filerFlag, slot, clean, dirty>> /\ clientUnchanged

\* filerClose(): a file that is not open is let go at once.
Close ==
  /\ client = "end"
  /\ IF handle.open # NoFile
     THEN /\ client' = "closing" /\ filerFlag' = TRUE
          /\ Set(job.slot, Requested(handle, "CLOSE"))
          /\ UNCHANGED buf
     ELSE /\ client' = "told" /\ buf' = 0
          /\ Set(job.slot, [handle EXCEPT !.alloc = FALSE])
          /\ UNCHANGED filerFlag
  /\ UNCHANGED <<job, got, ok, clean, dirty>> /\ clientUnchanged

\* A request of the slot is still to be dealt with, or its file has stayed open.
Pending(s) == slot[s].func # "NONE" \/ slot[s].open # NoFile \/ (at = s /\ pc \in {"work", "done", "notify"})

\* The buffer is freed and the outcome announced.
Closed ==
  /\ client = "closing" /\ handle.complete
  /\ client' = "told" /\ buf' = 0
  /\ Set(job.slot, [handle EXCEPT !.alloc = FALSE])
  /\ dirty' = IF Pending(job.slot) THEN dirty ELSE dirty \ {job.slot}
  /\ UNCHANGED <<job, got, ok, filerFlag, clean>> /\ clientUnchanged

Rest ==
  /\ client = "told" /\ client' = "idle"
  /\ got' = <<>> /\ ok' = FALSE
  /\ UNCHANGED <<job, buf, filerFlag, slot, clean, dirty>> /\ clientUnchanged

-------------------------------------------------------------------------------
(***************************************************************************)
(* The filer task: restart and the loop                                    *)
(***************************************************************************)

Fails == errors < MaxErrors /\ errors' = errors + 1
Works == UNCHANGED errors

\* While USB wants or has the card.  A suspended bus gives it back.
HandOver ==
  /\ pc = "restart" /\ Owned
  /\ \/ /\ Works
        /\ msc' = IF usb THEN "ACTIVE" ELSE "DISABLE"
     \/ /\ msc = "REQUEST" /\ Fails
        /\ msc' = IF usb THEN msc ELSE "DISABLE"
  /\ UNCHANGED <<filerVars, filerFlag, slot, usb, card, clientVars, logVars, history>>

Restart ==
  /\ pc = "restart" /\ ~Owned
  /\ pc' = "mount" /\ initialized' = FALSE
  /\ UNCHANGED <<at, size, msc, filerFlag, slot, usb, diskVars, clientVars, logVars, history>>

\* The file table is reset, and whoever waits for a file is let go.  Slots that are
\* not allocated are passed over, although a request left over may have opened one.
ResetTable ==
  [s \in Slots |-> CASE slot[s].alloc -> [Shut(slot[s]) EXCEPT !.complete = TRUE]
                     [] ~slot[s].alloc /\ slot[s].open = NoFile -> slot[s]
                     [] OTHER -> [Shut(slot[s]) EXCEPT !.open = Stale]]

Mount ==
  /\ pc = "mount" /\ pc' = "loop"
  /\ slot' = ResetTable
  /\ clean' = (client = "idle")
  /\ dirty' = dirty \cup {s \in Slots \ {Stream} : slot[s].alloc}
  /\ broken' = FALSE
  /\ UNCHANGED <<at, size, initialized, msc, filerFlag, usb, diskVars, clientVars, logVars>>

\* A request of USB for the card: all files are to be closed.
Surrender ==
  /\ pc = "loop" /\ msc = "REQUEST"
  /\ pc' = IF initialized THEN "flush" ELSE "restart"
  /\ at' = 0
  /\ UNCHANGED <<size, initialized, msc, filerFlag, slot, usb, diskVars, clientVars, logVars,
                 history>>

\* filerInitFS(), if need be, before the file table is scanned.
Begin ==
  /\ pc = "loop" /\ msc # "REQUEST" /\ at' = 0
  /\ \/ /\ pc' = "scan" /\ initialized' = TRUE
        /\ Works /\ UNCHANGED msc
     \/ /\ ~initialized /\ Fails
        /\ pc' = "restart" /\ msc' = "DISABLE"
        /\ UNCHANGED initialized
  /\ UNCHANGED <<size, filerFlag, slot, usb, card, clientVars, logVars, history>>

\* A mutant: the last slot is left out.
NextSlotShort ==
  IF at + 2 \in Slots
  THEN pc' = "scan" /\ at' = at + 1
  ELSE pc' = "clear" /\ UNCHANGED at

\* On to the next slot.
NextSlot ==
  IF at + 1 \in Slots
  THEN pc' = "scan" /\ at' = at + 1
  ELSE pc' = "clear" /\ UNCHANGED at

\* A look at the function of the slot.
Scan ==
  /\ pc = "scan"
  /\ CASE slot[at].func = "NONE"   -> NextSlot
       [] slot[at].func = "STREAM" -> pc' = "stream" /\ UNCHANGED at
       [] OTHER                    -> pc' = "work" /\ UNCHANGED at
  /\ UNCHANGED <<size, initialized, msc, filerFlag, slot, usb, diskVars, clientVars, logVars, history>>

\* All slots have been seen to.
ClearFlag ==
  /\ pc = "clear" /\ pc' = "wait" /\ filerFlag' = FALSE
  /\ UNCHANGED <<at, size, initialized, msc, slot, usb, diskVars, clientVars, logVars, history>>

\* The wait ends with the flag, or after 5 ms: a flag that was set while the slots
\* were looked at has just been cleared.
Wake ==
  /\ pc = "wait"
  /\ pc' = "loop"
  /\ UNCHANGED <<at, size, initialized, msc, filerFlag, slot, usb, diskVars, clientVars, logVars,
                 history>>

-------------------------------------------------------------------------------
(***************************************************************************)
(* Requests                                                                *)
(***************************************************************************)

workUnchanged ==
  UNCHANGED <<at, size, initialized, msc, filerFlag, usb, client, job, got, ok, logVars, broken>>

Work(func) == pc = "work" /\ slot[at].func = func /\ pc' = "done"

Valid == slot[at].open # Stale

\* A failed operation marks the file as not open.
Failed ==
  /\ IF Valid THEN Fails ELSE Works
  /\ Set(at, [Shut(slot[at]) EXCEPT !.status = "error"])
  /\ UNCHANGED <<card, buf>>

\* A file that is open keeps its place; another is opened at its start.
Place == IF slot[at].open = NoFile THEN 0 ELSE slot[at].pos
File  == IF slot[at].open = NoFile THEN slot[at].name ELSE slot[at].open

ProcessRead ==
  /\ Work("READ")
  /\ \/ /\ Valid /\ Works
        /\ LET more == Place < Len(card[File]) IN
             /\ Set(at, [slot[at] EXCEPT !.open = File,
                                         !.pos = IF more THEN Place + 1 ELSE Place,
                                         !.status = IF more THEN "bytes" ELSE "end"])
             /\ buf' = IF more THEN card[File][Place + 1] ELSE buf
        /\ UNCHANGED card
     \/ Failed
  /\ UNCHANGED <<clean, dirty>> /\ workUnchanged

\* A file opened for writing is emptied first.  What requests made before a restart
\* leave in it, from a buffer that may be in other use, is not told apart, nor is a
\* gap behind its end.
Written ==
  IF at \in dirty \/ Place > Len(card[File])
  THEN Spoiled
  ELSE Append(SubSeq(card[File], 1, Place), buf)

ProcessWrite ==
  /\ Work("WRITE")
  /\ \/ /\ Valid /\ Works
        /\ Set(at, [slot[at] EXCEPT !.open = File, !.pos = Len(Written), !.status = "bytes"])
        /\ card' = [card EXCEPT ![File] = Written]
        /\ UNCHANGED buf
     \/ Failed
  /\ UNCHANGED <<clean, dirty>> /\ workUnchanged

\* If f_close() fails what was written may be lost; the client does not look.
ProcessClose ==
  /\ Work("CLOSE")
  /\ \/ /\ Valid /\ Works /\ UNCHANGED clean
        /\ Set(at, [Shut(slot[at]) EXCEPT !.status = "end"])
        /\ UNCHANGED <<card, buf>>
     \/ slot[at].open # NoFile /\ Failed /\ clean' = FALSE
  /\ UNCHANGED dirty /\ workUnchanged

\* The request is marked as done, then its completion is signalled.
Done ==
  /\ pc = "done" /\ pc' = "notify"
  /\ Set(at, [slot[at] EXCEPT !.func = "NONE"])
  /\ UNCHANGED <<at, size, initialized, msc, filerFlag, usb, diskVars, clientVars, logVars,
                 history>>

Notify ==
  /\ pc = "notify"
  /\ Set(at, [slot[at] EXCEPT !.complete = TRUE])
  /\ NextSlot
  /\ UNCHANGED <<size, initialized, msc, filerFlag, usb, diskVars, clientVars, logVars, history>>

-------------------------------------------------------------------------------
(***************************************************************************)
(* The stream                                                              *)
(***************************************************************************)

streamUnchanged == UNCHANGED <<initialized, msc, filerFlag, usb, card, clientVars, clean, dirty>>

EnoughNew == tail > head \/ head - tail >= Enough

\* A mutant: always to the end of the buffer.
ChunkToEnd == RingSize - tail

\* Up to the head, or to the end of the buffer.
Chunk == IF head > tail THEN head - tail ELSE RingSize - tail

\* filerProcessStream(), one turn of its loop; after the last one the file may be
\* synced, and nobody looks at how that went.
StreamTest ==
  /\ pc = "stream"
  /\ \/ /\ EnoughNew /\ Works
        /\ pc' = "write" /\ size' = Chunk
        /\ slot' = [slot EXCEPT ![at].open = LogFile]
        /\ UNCHANGED <<at, broken>>
     \/ /\ ~EnoughNew
        /\ \/ Works /\ slot' = [slot EXCEPT ![at].open = LogFile]
           \/ Fails /\ slot' = [slot EXCEPT ![at] = Shut(@)]
        /\ NextSlot /\ UNCHANGED <<size, broken>>
     \/ /\ slot[at].open = NoFile /\ Fails
        /\ pc' = "restart" /\ broken' = TRUE
        /\ UNCHANGED <<at, slot, size>>
  /\ UNCHANGED logVars /\ streamUnchanged

\* The tail moves by what was written, which on an error may be less.
StreamWrite ==
  /\ pc = "write" /\ size' = 0
  /\ \E bytes \in 0 .. size :
       /\ \/ bytes = size /\ Works /\ pc' = "stream" /\ UNCHANGED broken
          \/ Fails /\ pc' = "restart" /\ broken' = TRUE
       /\ tail' = Wrap(tail + bytes) /\ lag' = lag - bytes
  /\ UNCHANGED <<at, slot, head, logged>> /\ streamUnchanged

-------------------------------------------------------------------------------
(***************************************************************************)
(* USB wants the card: what is left of the stream is written and each file *)
(* closed; the head and tail of each are reset.                            *)
(***************************************************************************)

Flush ==
  /\ pc = "flush" /\ pc' = "close"
  /\ IF at = Stream
     THEN \/ Works /\ tail' = head /\ lag' = 0
          \/ Fails /\ \E bytes \in 0 .. lag : tail' = Wrap(tail + bytes) /\ lag' = lag - bytes
     ELSE UNCHANGED <<errors, tail, lag>>
  /\ UNCHANGED <<at, size, initialized, msc, filerFlag, slot, usb, card, clientVars, head, logged,
                 history>>

\* A mutant: only the streams are closed.
ClosedStream(f) == IF f.func = "STREAM" THEN Shut(f) ELSE f

\* filerProcessClose()
ClosedFile(f) == Shut(f)

CloseFile ==
  /\ pc = "close"
  /\ slot' = [slot EXCEPT ![at] = ClosedFile(@)]
  /\ IF at = Stream THEN head' = 0 /\ tail' = 0 /\ lag' = 0 ELSE UNCHANGED <<head, tail, lag>>
  /\ IF at + 1 \in Slots
     THEN pc' = "flush" /\ at' = at + 1 /\ UNCHANGED initialized
     ELSE pc' = "restart" /\ initialized' = FALSE /\ UNCHANGED at
  /\ clean' = (clean /\ ~slot[at].alloc)
  /\ dirty' = IF slot[at].alloc /\ at # Stream THEN dirty \cup {at} ELSE dirty
  /\ UNCHANGED <<size, msc, filerFlag, usb, diskVars, clientVars, logged, broken>>

-------------------------------------------------------------------------------

Host   == Unplug \/ EnableMSC \/ EjectMSC
Client == Open \/ Ask \/ Return \/ Finish \/ Close \/ Closed \/ Rest
Filer  == HandOver \/ Restart \/ Mount \/ Surrender \/ Begin \/ Scan \/ ClearFlag \/ Wake
          \/ ProcessRead \/ ProcessWrite \/ ProcessClose \/ Done \/ Notify
          \/ StreamTest \/ StreamWrite \/ Flush \/ CloseFile

Next == Host \/ Log \/ Client \/ Filer

Spec == Init /\ [][Next]_vars

\* The filer task gets its time, a client that is woken goes on, and the host gives
\* the card back.
FairSpec == Spec /\ WF_vars(Filer) /\ WF_vars(Return \/ Closed) /\ WF_vars(EjectMSC)

-------------------------------------------------------------------------------
(***************************************************************************)
(* Properties                                                              *)
(***************************************************************************)

\* What the client announces is so: a file said to be read has been read from its
\* beginning to its end, in order and from that file, and a file said to be written
\* holds every line -- unless a restart of the file system came in between (which
\* lets go of a waiting client with the status of an earlier request, and carries
\* out what it asked for later) or the close that nobody looks at failed.
SessionTrue ==
  client = "told" /\ ok /\ clean =>
    IF job.how = "READ" THEN got = card[job.name] ELSE card[job.name] = NewLines

\* The records between the tail and the head of the log buffer are those that have
\* not been written: none is written twice or passed over when the buffer wraps,
\* while more are logged, when a write fails half way, or when the card is given
\* away and comes back.
StreamInStep == lag \in 0 .. RingSize - 1 /\ head = Wrap(tail + lag)

\* The card is given to the USB host with all files closed, unless it asks while
\* the task restarts after an error of the stream.
HandedOverClosed ==
  [][msc' = "ACTIVE" /\ msc # "ACTIVE" =>
       broken \/ \A s \in Slots : slot[s].open \in {NoFile, Stale}]_vars

\* A client that waits for a file does not wait for ever, although its wakeup of
\* the filer may be cleared unseen, the stream may fail and the host may come for
\* the card.
Answered == client \in {"wait", "closing"} ~> client \notin {"wait", "closing"}

===============================================================================
