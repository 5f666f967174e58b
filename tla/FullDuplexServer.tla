-------------------------- MODULE FullDuplexServer -------------------------
(***************************************************************************)
(* asio/async/03_full_duplex_server: a session always reads, and queues    *)
(* what it has to send, so that at most one async_write is outstanding.    *)
(* No lambda of an operation owns the session: each holds `this` and calls *)
(* shared_from_this() when it runs.  The only shared_ptr is in sessions_.  *)
(*                                                                         *)
(* send_mtx_ is left out: main runs ioc.run() on one thread.               *)
(***************************************************************************)
EXTENDS CServer, SequencesExt

CONSTANT
  UninitLen    (* values MsgNode::max_len_, which nothing sets, may have   *)

ASSUME UninitLenAssumption == UninitLen \subseteq Nat /\ UninitLen # {}

VARIABLES
  queue,       (* queue[s]: send_queue_, the data_ of each MsgNode         *)
  wbuf         (* wbuf[s]: what the async_write was given, "data" for the  *)
               (* session's data_, "node" for the head of the queue        *)

vars == <<sockVars, serverVars, queue, wbuf>>

(* What an over-read finds behind the array of a node. *)
Garbage == MaxBytes + 1

TypeOK ==
  /\ ServerTypeOK
  /\ queue \in [Session -> Seq(Seq(Byte))]
  /\ wbuf \in [Session -> {"data", "node"}]

Init ==
  /\ ServerInit
  /\ queue = [s \in Session |-> <<>>]
  /\ wbuf = [s \in Session |-> "data"]

Alive(s) == ServerOwns(s)

(* Bound: an address is not reused while a handler of its last session is  *)
(* still to run.                                                           *)
Free == {s \in Session : ~Alive(s) /\ ~HasHandler(s)}

(* The bytes behind the buffer of the outstanding async_write. *)
Content(s) ==
  IF wbuf[s] = "data" THEN data[s]
  ELSE [i \in 1..write[s].len |->
          IF i <= Len(Head(queue[s])) THEN Head(queue[s])[i] ELSE Garbage]
-----------------------------------------------------------------------------
Accept ==
  \/ AcceptCompletes(Free) /\ UNCHANGED <<queue, wbuf>>
  \/ \E t \in Free :
       /\ HandleAccept(t) \/ HandleAcceptError(t)
       /\ queue' = [queue EXCEPT ![t] = <<>>]
       /\ UNCHANGED wbuf

(* Send(data_, len): queue a copy; with nothing queued before, async_write *)
(* the caller's own array, of which the socket may take n bytes at once.   *)
SendDropsPending(s, len) ==
  \/ /\ queue[s] # <<>>
     /\ UNCHANGED <<queue, write, wbuf, echoed>>
  \/ /\ queue[s] = <<>>
     /\ queue' = [queue EXCEPT ![s] = Append(@, SubSeq(data[s], 1, len))]
     /\ write' = [write EXCEPT ![s] = Writing(len)]
     /\ wbuf' = [wbuf EXCEPT ![s] = "data"]
     /\ UNCHANGED echoed
Send(s, len) ==
  /\ queue' = [queue EXCEPT ![s] = Append(@, SubSeq(data[s], 1, len))]
  /\ \/ /\ queue[s] # <<>>
        /\ UNCHANGED <<write, wbuf, echoed>>
     \/ /\ queue[s] = <<>>
        /\ \E n \in 0..len :
             /\ write' = [write EXCEPT ![s] = Sent(Writing(len), n)]
             /\ echoed' = [echoed EXCEPT ![s] = @ \o SubSeq(data[s], 1, n)]
        /\ wbuf' = [wbuf EXCEPT ![s] = "data"]

(* HandleRead without error: Send what was read, memset data_, read again. *)
HandleReadNoMemset(s) ==
  /\ running
  /\ read[s].st = "ok"
  /\ Alive(s)
  /\ Send(s, read[s].len)
  /\ read' = [read EXCEPT ![s] = Reading]
  /\ UNCHANGED <<data, received, serverVars>>
HandleReadOnce(s) ==
  /\ running
  /\ read[s].st = "ok"
  /\ Alive(s)
  /\ Send(s, read[s].len)
  /\ data' = [data EXCEPT ![s] = Cleared]
  /\ read' = [read EXCEPT ![s] = NoRead]
  /\ UNCHANGED <<received, serverVars>>
HandleRead(s) ==
  /\ running
  /\ read[s].st = "ok"
  /\ Alive(s)
  /\ Send(s, read[s].len)
  /\ data' = [data EXCEPT ![s] = Cleared]
  /\ read' = [read EXCEPT ![s] = Reading]
  /\ UNCHANGED <<received, serverVars>>

(* HandleRead with an error: ClearSession destroys the session, and with   *)
(* it the socket and an async_write that is still outstanding.             *)
HandleReadError(s) ==
  /\ running
  /\ read[s].st = "error"
  /\ Alive(s)
  /\ ClearSession(s)
  /\ read' = [read EXCEPT ![s] = NoRead]
  /\ write' = [write EXCEPT ![s] = Aborted(@)]
  /\ UNCHANGED <<data, received, echoed, accept, running, queue, wbuf>>

(* HandleWrite without error: pop the head; if there is another node,      *)
(* async_write max_len_ bytes of it.                                       *)
HandleWriteStops(s) ==
  /\ running
  /\ write[s].st = "ok"
  /\ Alive(s)
  /\ queue' = [queue EXCEPT ![s] = Tail(@)]
  /\ write' = [write EXCEPT ![s] = NoWrite]
  /\ UNCHANGED <<data, read, received, echoed, serverVars, wbuf>>
HandleWrite(s) ==
  /\ running
  /\ write[s].st = "ok"
  /\ Alive(s)
  /\ queue' = [queue EXCEPT ![s] = Tail(@)]
  /\ \/ /\ Tail(queue[s]) = <<>>
        /\ write' = [write EXCEPT ![s] = NoWrite]
        /\ UNCHANGED wbuf
     \/ /\ Tail(queue[s]) # <<>>
        /\ \E len \in UninitLen : write' = [write EXCEPT ![s] = Writing(len)]
        /\ wbuf' = [wbuf EXCEPT ![s] = "node"]
  /\ UNCHANGED <<data, read, received, echoed, serverVars>>

(* HandleWrite with an error: ClearSession destroys the session while its  *)
(* async_read_some is outstanding.                                         *)
HandleWriteError(s) ==
  /\ running
  /\ write[s].st = "error"
  /\ Alive(s)
  /\ ClearSession(s)
  /\ write' = [write EXCEPT ![s] = NoWrite]
  /\ read' = [read EXCEPT ![s] = Aborted(@)]
  /\ UNCHANGED <<data, received, echoed, accept, running, queue, wbuf>>

(* A lambda calls shared_from_this() on a session that is gone: undefined. *)
(* The destroyed weak_ptr usually reads as expired, and bad_weak_ptr (or a *)
(* crash) ends the server; or the stale memory passes for a session, whose *)
(* uuid ClearSession no longer finds, and nothing comes of it.             *)
StaleHandler(s) ==
  /\ running
  /\ ~Alive(s)
  /\ \/ /\ read[s].st \in {"ok", "error"}
        /\ read' = [read EXCEPT ![s] = NoRead]
        /\ UNCHANGED write
     \/ /\ write[s].st \in {"ok", "error"}
        /\ write' = [write EXCEPT ![s] = NoWrite]
        /\ UNCHANGED read
  /\ running' \in BOOLEAN
  /\ UNCHANGED <<data, received, echoed, accept, sessions, queue, wbuf>>
-----------------------------------------------------------------------------
Network(s) ==
  /\ running
  /\ \/ ReadSome(s)
     \/ ReadFails(s)
     \/ WriteSome(s, Content(s))
     \/ WriteFails(s)
  /\ UNCHANGED <<serverVars, queue, wbuf>>

ReadHandler(s) == HandleRead(s) \/ HandleReadError(s)
WriteHandler(s) == HandleWrite(s) \/ HandleWriteError(s)

Next ==
  \/ Accept
  \/ \E s \in Session :
       Network(s) \/ ReadHandler(s) \/ WriteHandler(s) \/ StaleHandler(s)

Spec == Init /\ [][Next]_vars

(* ioc.run() runs the handler of every completed operation, and TCP moves  *)
(* the bytes of a write or reports a failure.                              *)
Fairness ==
  \A s \in Session :
     /\ WF_vars(ReadHandler(s))
     /\ WF_vars(WriteHandler(s))
     /\ WF_vars(StaleHandler(s))
     /\ WF_vars(running /\ (WriteSome(s, Content(s)) \/ WriteFails(s))
                /\ UNCHANGED <<serverVars, queue, wbuf>>)

FairSpec == Spec /\ Fairness
-----------------------------------------------------------------------------
(* How many received bytes HandleRead has passed to Send. *)
Handled(s) == received[s] - (IF read[s].st = "ok" THEN read[s].len ELSE 0)

(* While a session is served, an async_write is outstanding exactly when   *)
(* send_queue_ is not empty: no message waits with nobody to send it, and  *)
(* HandleWrite never pops an empty queue.                                  *)
QueueDiscipline ==
  \A s \in sessions : queue[s] # <<>> <=> write[s].st # "idle"

(* A message that is a run of consecutive bytes of the client, the last of *)
(* them the one before next.                                               *)
Run(message, next) ==
  /\ message # <<>>
  /\ message[1] >= 1
  /\ \A i \in DOMAIN message : message[i] = message[1] + (i - 1)
  /\ message[1] + Len(message) = next

(* Each message in q goes on where the one before it ends, and the last    *)
(* one ends with byte end.                                                 *)
Runs(q, end) ==
  \A k \in DOMAIN q : Run(q[k], IF k = Len(q) THEN end + 1 ELSE q[k + 1][1])

(* send_queue_ holds, message by message, the newest bytes of the client,  *)
(* each once and in order: whatever goes out on the socket, the copies a   *)
(* write could be restarted from are right.                                *)
QueueHoldsNewest == \A s \in sessions : Runs(queue[s], Handled(s))

(* csession.cpp:72: while it sends, a session also listens for the read    *)
(* event.  Sending never delays reading, so a client that only sends is    *)
(* never throttled, and the queue has no bound.                            *)
AlwaysReading == \A s \in sessions : read[s].st # "idle"

(* Every message handed to Send is in the end popped from the queue, or    *)
(* the session or the server ends.                                         *)
QueueDrains ==
  \A s \in Session : \A n \in 1..MaxBytes :
     (s \in sessions /\ Handled(s) >= n)
        ~> \/ s \notin sessions
           \/ ~running
           \/ Handled(s) - Len(FlattenSeq(queue[s])) >= n

(* csession.cpp:24 and every lambda: shared_from_this() is called, instead *)
(* of making a shared_ptr of `this`; it needs a session that still exists. *)
HandlerOwnsLiveSession ==
  \A s \in Session : ~Alive(s) =>
     /\ read[s].st \notin {"ok", "error"}
     /\ write[s].st \notin {"ok", "error"}

(* csession.cpp:51: HandleWrite is called because the head of the queue    *)
(* has been sent in full: it is what the last bytes sent are.              *)
HeadIsSent ==
  \A s \in sessions : write[s].st = "ok" =>
     LET head == Head(queue[s])
         end == Len(echoed[s])
     IN  /\ end >= Len(head)
         /\ SubSeq(echoed[s], end - Len(head) + 1, end) = head
=============================================================================
