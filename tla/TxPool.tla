-------------------------------- MODULE TxPool --------------------------------
(***************************************************************************)
(* What the transmit buffers of comm.c promise their users, without the    *)
(* mutex, the stacks, the reference counts and the interrupts.             *)
(*                                                                         *)
(* A buffer is free, held by one task that writes it, or handed over to a  *)
(* set of ports.  Every one of those ports sends it once, in the order in  *)
(* which it was given its buffers, and the buffer is free again only when  *)
(* the last of them has sent it.                                           *)
(***************************************************************************)
EXTENDS Naturals, Sequences

CONSTANTS Tasks, Bufs, Ports,
          NoBuf         \* the null pointer

VARIABLES
  free,    \* the free buffers
  holds,   \* the buffer each task is writing
  coming,  \* the ports a buffer was handed to that do not know of it yet
  queue    \* the buffers each port has to send, oldest first

vars == <<free, holds, coming, queue>>

Init ==
  /\ free = Bufs
  /\ holds = [t \in Tasks |-> NoBuf]
  /\ coming = [b \in Bufs |-> {}]
  /\ queue = [p \in Ports |-> <<>>]

Queues(b, p) == \E i \in DOMAIN queue[p] : queue[p][i] = b

\* No port has b to send.
Done(b) == coming[b] = {} /\ \A p \in Ports : ~Queues(b, p)

\* t is given a buffer to write.
Take(t) ==
  /\ holds[t] = NoBuf
  /\ \E b \in free :
       /\ holds' = [holds EXCEPT ![t] = b]
       /\ free' = free \ {b}
  /\ UNCHANGED <<coming, queue>>

\* t hands its buffer to the ports in to,
Hand(t, to) ==
  /\ holds[t] # NoBuf
  /\ to # {}
  /\ holds' = [holds EXCEPT ![t] = NoBuf]
  /\ coming' = [coming EXCEPT ![holds[t]] = to]
  /\ UNCHANGED <<free, queue>>

\* or has it discarded.
Discard(t) ==
  /\ holds[t] # NoBuf
  /\ holds' = [holds EXCEPT ![t] = NoBuf]
  /\ free' = free \cup {holds[t]}
  /\ UNCHANGED <<coming, queue>>

\* A port learns of a buffer.
Publish(b, p) ==
  /\ p \in coming[b]
  /\ coming' = [coming EXCEPT ![b] = @ \ {p}]
  /\ queue' = [queue EXCEPT ![p] = Append(@, b)]
  /\ UNCHANGED <<free, holds>>

\* A port has sent the first buffer of its queue; if no other port still has
\* it to send, it is freed at once, or a little later.
Finish(b, p) ==
  /\ queue[p] # <<>>
  /\ b = Head(queue[p])
  /\ queue' = [queue EXCEPT ![p] = Tail(@)]
  /\ \/ UNCHANGED free
     \/ Done(b)' /\ free' = free \cup {b}
  /\ UNCHANGED <<holds, coming>>

Free(b) ==
  /\ b \notin free
  /\ free' = free \cup {b}
  /\ Done(b)
  /\ \A t \in Tasks : holds[t] # b
  /\ UNCHANGED <<holds, coming, queue>>

Next ==
  \/ \E t \in Tasks : Take(t) \/ Discard(t) \/ \E to \in SUBSET Ports : Hand(t, to)
  \/ \E b \in Bufs : Free(b) \/ \E p \in Ports : Publish(b, p) \/ Finish(b, p)

Spec == Init /\ [][Next]_vars
===============================================================================
