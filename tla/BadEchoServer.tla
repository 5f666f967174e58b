--------------------------- MODULE BadEchoServer ---------------------------
(***************************************************************************)
(* asio/async/01_bad_echo_server: sessions are raw pointers.  A session    *)
(* reads, then writes what it read back, then reads again; the lambda of   *)
(* its one outstanding operation holds `this`, and whichever handler gets  *)
(* an error deletes the object.                                            *)
(***************************************************************************)
EXTENDS EchoSockets

VARIABLES
  heap,        (* heap[s]: is there a CSession object at address s         *)
  accept       (* the outstanding async_accept and the session it is for   *)

vars == <<sockVars, heap, accept>>

Accepting(s) == [st |-> "pending", session |-> s]

TypeOK ==
  /\ SockTypeOK
  /\ heap \in [Session -> {"free", "live"}]
  /\ accept \in [st : {"pending", "ok", "error"}, session : Session]

Free == {s \in Session : heap[s] = "free"}

(* CServer::CServer calls StartAccept, which makes the first session. *)
Init ==
  /\ SockInit
  /\ \E s \in Session :
       /\ heap = [t \in Session |-> IF t = s THEN "live" ELSE "free"]
       /\ accept = Accepting(s)

(* A client connects, or the accept fails.  Bound: clients connect only    *)
(* while an address is left for the next session object.                   *)
AcceptCompletes ==
  /\ accept.st = "pending"
  /\ \/ Free # {} /\ accept' = [accept EXCEPT !.st = "ok"]
     \/ accept' = [accept EXCEPT !.st = "error"]
  /\ UNCHANGED <<sockVars, heap>>
-----------------------------------------------------------------------------
(* StartAccept: new CSession at t, async_accept into its socket.  heapNow  *)
(* and readNow are what the rest of the handler made of heap and read.     *)
StartAccept(t, heapNow, readNow) ==
  /\ heap' = [heapNow EXCEPT ![t] = "live"]
  /\ accept' = Accepting(t)
  /\ data' = [data EXCEPT ![t] = Cleared]
  /\ read' = [readNow EXCEPT ![t] = NoRead]
  /\ write' = [write EXCEPT ![t] = NoWrite]
  /\ received' = [received EXCEPT ![t] = 0]
  /\ echoed' = [echoed EXCEPT ![t] = <<>>]

(* HandleAccept without error: new_session->Start(), then StartAccept(). *)
HandleAccept ==
  /\ accept.st = "ok"
  /\ \E t \in Free :
       StartAccept(t, heap, [read EXCEPT ![accept.session] = Reading])

(* HandleAccept with an error: delete new_session, then StartAccept(). *)
HandleAcceptError ==
  /\ accept.st = "error"
  /\ \E t \in Free \union {accept.session} :
       StartAccept(t, [heap EXCEPT ![accept.session] = "free"], read)

(* How many bytes of data_ are sent back: bytes_transfered. *)
EchoLenWholeBuffer(s) == BufLen
EchoLen(s) == read[s].len

(* HandleRead without error: async_write what was read. *)
HandleReadFullDuplex(s) ==
  /\ read[s].st = "ok"
  /\ write' = [write EXCEPT ![s] = Writing(EchoLen(s))]
  /\ read' = [read EXCEPT ![s] = Reading]
  /\ UNCHANGED <<data, received, echoed, heap, accept>>
HandleReadNoEcho(s) ==
  /\ read[s].st = "ok"
  /\ read' = [read EXCEPT ![s] = Reading]
  /\ UNCHANGED <<data, write, received, echoed, heap, accept>>
HandleRead(s) ==
  /\ read[s].st = "ok"
  /\ write' = [write EXCEPT ![s] = Writing(EchoLen(s))]
  /\ read' = [read EXCEPT ![s] = NoRead]
  /\ UNCHANGED <<data, received, echoed, heap, accept>>

(* HandleRead with an error: delete this, which closes the socket. *)
HandleReadError(s) ==
  /\ read[s].st = "error"
  /\ heap' = [heap EXCEPT ![s] = "free"]
  /\ read' = [read EXCEPT ![s] = NoRead]
  /\ write' = [write EXCEPT ![s] = Aborted(@)]
  /\ UNCHANGED <<data, received, echoed, accept>>

(* HandleWrite without error: memset data_ and read again. *)
HandleWriteNoMemset(s) ==
  /\ write[s].st = "ok"
  /\ write' = [write EXCEPT ![s] = NoWrite]
  /\ read' = [read EXCEPT ![s] = Reading]
  /\ UNCHANGED <<data, received, echoed, heap, accept>>
HandleWrite(s) ==
  /\ write[s].st = "ok"
  /\ data' = [data EXCEPT ![s] = Cleared]
  /\ write' = [write EXCEPT ![s] = NoWrite]
  /\ read' = [read EXCEPT ![s] = Reading]
  /\ UNCHANGED <<received, echoed, heap, accept>>

(* HandleWrite with an error: delete this. *)
HandleWriteErrorLeaks(s) ==
  /\ write[s].st = "error"
  /\ write' = [write EXCEPT ![s] = NoWrite]
  /\ UNCHANGED <<data, read, received, echoed, heap, accept>>
HandleWriteError(s) ==
  /\ write[s].st = "error"
  /\ heap' = [heap EXCEPT ![s] = "free"]
  /\ write' = [write EXCEPT ![s] = NoWrite]
  /\ read' = [read EXCEPT ![s] = Aborted(@)]
  /\ UNCHANGED <<data, received, echoed, accept>>
-----------------------------------------------------------------------------
(* The network and the clients. *)
Environment ==
  \/ AcceptCompletes
  \/ \E s \in Session :
       /\ \/ ReadSome(s)
          \/ ReadFails(s)
          \/ WriteSome(s, data[s])
          \/ WriteFails(s)
       /\ UNCHANGED <<heap, accept>>

(* ioc.run() runs the handler of a completed operation. *)
SessionHandler(s) ==
  \/ HandleRead(s)
  \/ HandleReadError(s)
  \/ HandleWrite(s)
  \/ HandleWriteError(s)

Next ==
  \/ Environment
  \/ HandleAccept
  \/ HandleAcceptError
  \/ \E s \in Session : SessionHandler(s)

Spec == Init /\ [][Next]_vars

(* ioc.run() returns only when there is no work, and there always is: each *)
(* completed operation gets its handler run.  TCP moves the bytes of a     *)
(* write or reports a failure.  Nothing makes a client connect or send.    *)
Fairness ==
  /\ WF_vars(HandleAccept \/ HandleAcceptError)
  /\ \A s \in Session :
       /\ WF_vars(SessionHandler(s))
       /\ WF_vars((WriteSome(s, data[s]) \/ WriteFails(s))
                  /\ UNCHANGED <<heap, accept>>)

FairSpec == Spec /\ Fairness
-----------------------------------------------------------------------------
Abstract == INSTANCE EchoService

(* The operations whose handler holds a raw pointer to s. *)
Handlers(s) ==
  {op \in {"accept", "read", "write"} :
     \/ op = "accept" /\ accept.session = s
     \/ op = "read" /\ read[s].st # "idle"
     \/ op = "write" /\ write[s].st # "idle"}

(* No handler is left that holds a pointer to a deleted session: neither a *)
(* second delete nor any other use of the freed object can happen.  The    *)
(* comment at session.cpp:10-13 fears it does; with one operation at a     *)
(* time per session it does not.                                           *)
NoDanglingHandler == \A s \in Session : heap[s] = "free" => Handlers(s) = {}

(* Every live session is held by exactly one outstanding operation: were   *)
(* there none, nothing could ever delete the object; were there two, the   *)
(* error of both would delete it twice.                                    *)
OneHandlerPerSession ==
  \A s \in Session : heap[s] = "live" => \E op \in Handlers(s) : Handlers(s) = {op}

(* The five phases of a session object, and what data_ and the bytes sent  *)
(* back so far are in each: the inductive invariant of the server.         *)
LastReceived(s, n) ==
  \A i \in 1..BufLen :
     data[s][i] = IF i <= n THEN received[s] - n + i ELSE 0

IsFree(s) ==
  /\ heap[s] = "free"
  /\ accept.session # s
  /\ read[s].st = "idle"
  /\ write[s].st = "idle"

IsAccepting(s) ==
  /\ heap[s] = "live"
  /\ accept.session = s
  /\ read[s].st = "idle"
  /\ write[s].st = "idle"
  /\ data[s] = Cleared
  /\ received[s] = 0
  /\ echoed[s] = <<>>

IsReading(s) ==
  /\ heap[s] = "live"
  /\ accept.session # s
  /\ read[s].st \in {"pending", "error"}
  /\ write[s].st = "idle"
  /\ data[s] = Cleared
  /\ echoed[s] = Abstract!Stream(received[s])

HasRead(s) ==
  /\ heap[s] = "live"
  /\ accept.session # s
  /\ read[s].st = "ok"
  /\ read[s].len \in 1..received[s]
  /\ write[s].st = "idle"
  /\ LastReceived(s, read[s].len)
  /\ echoed[s] = Abstract!Stream(received[s] - read[s].len)

IsWriting(s) ==
  /\ heap[s] = "live"
  /\ accept.session # s
  /\ read[s].st = "idle"
  /\ write[s].st # "idle"
  /\ write[s].len \in 1..BufLen
  /\ write[s].len <= received[s]
  /\ write[s].done <= write[s].len
  /\ write[s].st = "pending" => write[s].done < write[s].len
  /\ write[s].st = "ok" => write[s].done = write[s].len
  /\ LastReceived(s, write[s].len)
  /\ echoed[s] = Abstract!Stream(received[s] - write[s].len + write[s].done)

(* Each session object goes round accept, read, handle, write, read and is *)
(* never in two phases; in each, data_ holds exactly the bytes not yet     *)
(* sent back, followed by zeros.                                           *)
HalfDuplexInv ==
  /\ TypeOK
  /\ \A s \in Session :
       \/ IsFree(s) \/ IsAccepting(s) \/ IsReading(s)
       \/ HasRead(s) \/ IsWriting(s)

(* The server implements the abstract echo service: what HandleRead sends  *)
(* back is what was read, although data_ is reused for every message.      *)
IsEchoService == Abstract!Spec

(* Every byte taken from a client is sent back, unless the session ends. *)
EveryByteAnswered ==
  \A s \in Session : \A n \in 1..MaxBytes :
     (heap[s] = "live" /\ received[s] >= n)
        ~> (heap[s] = "free" \/ Len(echoed[s]) >= n)
=============================================================================
