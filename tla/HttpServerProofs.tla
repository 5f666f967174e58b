-------------------------- MODULE HttpServerProofs -------------------------
(***************************************************************************)
(* Theorems about HttpServer, for every set of connections and requests    *)
(* and every RespLen.  One lemma per action shows what becomes of its      *)
(* connection; ConnFrame says that the others stay as they are.            *)
(***************************************************************************)
EXTENDS HttpServer, TLAPS

(* The reasons for which a connection may go without a whole response. *)
Done(c) ==
  reply[c].parts = RespLen \/ c \in lost \/ expired[c] \/ c \in caught

(* The life of a connection: it reads, and nothing else; then it writes,   *)
(* if at all, what the request asks for, on an open socket and under the   *)
(* deadline; when the write has ended, or there is none, it is done.       *)
ConnInv(c) ==
  /\ read[c] # "idle" =>
       /\ write[c].st = "idle"
       /\ wait[c] = "idle"
       /\ sock[c] = "open"
       /\ reply[c] = NoReply
  /\ read[c] \in {"pending", "error"} => request[c] = NoRequest
  /\ write[c].st = "pending" =>
       /\ sock[c] = "open"
       /\ request[c].method = "get"
       /\ reply[c].parts < RespLen
       /\ write[c].status = StatusFor(request[c])
       /\ wait[c] # "idle" \/ c \in caught
  /\ wait[c] = "ok" => expired[c]
  /\ wait[c] = "error" => write[c].st = "idle"
  /\ (request[c].method = "get" /\ read[c] = "idle" /\ write[c].st # "pending")
       => Done(c)

IInv == TypeOK /\ \A c \in Conn : ConnInv(c)

(* Nothing of c changes. *)
Same(c) ==
  /\ sock'[c] = sock[c]
  /\ read'[c] = read[c]
  /\ request'[c] = request[c]
  /\ write'[c] = write[c]
  /\ reply'[c] = reply[c]
  /\ wait'[c] = wait[c]
  /\ expired'[c] = expired[c]
  /\ (c \in lost') = (c \in lost)
  /\ (c \in caught') = (c \in caught)

LEMMA ConnFrame ==
  ASSUME NEW c, ConnInv(c), Same(c)
  PROVE  ConnInv(c)'
BY DEF ConnInv, Same, Done

(* What is left to show of an action that touches c only. *)
LEMMA OneConn ==
  ASSUME IInv, NEW c \in Conn, TypeOK', ConnInv(c)',
         \A d \in Conn \ {c} : Same(d)
  PROVE  IInv'
<1>1. ASSUME NEW d \in Conn PROVE ConnInv(d)'
  <2>1. CASE d = c
    BY <2>1
  <2>2. CASE d # c
    <3>1. ConnInv(d) /\ Same(d)
      BY <2>2 DEF IInv
    <3>. QED BY <3>1, ConnFrame
  <2>. QED BY <2>1, <2>2
<1>. QED BY <1>1 DEF IInv

(* And of one that touches none. *)
LEMMA NoConn ==
  ASSUME IInv, TypeOK', \A d \in Conn : Same(d)
  PROVE  IInv'
BY ConnFrame DEF IInv

LEMMA InitInv == Init => IInv
<1>. SUFFICES ASSUME Init PROVE IInv
  OBVIOUS
<1>1. TypeOK
  BY RespLenAssumption DEF Init, TypeOK, OpState, NoRequest, NoReply, NoWrite
<1>2. ASSUME NEW c \in Conn PROVE ConnInv(c)
  BY DEF Init, ConnInv, Done, NoRequest, NoReply, NoWrite
<1>. QED BY <1>1, <1>2 DEF IInv
-----------------------------------------------------------------------------
LEMMA NewConnectionInv ==
  ASSUME IInv, NEW c \in Free, NewConnection(c), UNCHANGED running,
         accept' \in {"none", "pending", "ok", "error"}
  PROVE  IInv'
<1>. c \in Conn
  BY DEF Free
<1>1. TypeOK'
  BY RespLenAssumption DEF IInv, TypeOK, NewConnection, OpState, NoRequest, NoReply
<1>2. ConnInv(c)'
  BY DEF IInv, TypeOK, ConnInv, Done, NewConnection, Free, Alive, NoRequest, NoReply
<1>3. \A d \in Conn \ {c} : Same(d)
  BY DEF IInv, TypeOK, NewConnection, Same
<1>. QED BY <1>1, <1>2, <1>3, OneConn

LEMMA AcceptInv ==
  ASSUME IInv, AcceptCompletes \/ AcceptHandler, UNCHANGED running
  PROVE  IInv'
<1>1. CASE \E c \in Free : NewConnection(c) /\ accept' \in {"none", "pending"}
  BY <1>1, NewConnectionInv
<1>2. CASE UNCHANGED <<sock, read, request, write, reply, wait, expired, lost, caught>>
           /\ accept' \in {"none", "pending", "ok", "error"}
  <2>1. TypeOK'
    BY <1>2 DEF IInv, TypeOK
  <2>2. \A d \in Conn : Same(d)
    BY <1>2 DEF Same
  <2>. QED BY <2>1, <2>2, NoConn
<1>. QED
  BY <1>1, <1>2 DEF AcceptCompletes, AcceptHandler, HandleAccept,
                    HandleAcceptError, HandleAcceptThrows

LEMMA HandleReqInv ==
  ASSUME IInv, NEW c \in Conn, HandleReq(c)
  PROVE  IInv'
<1>1. TypeOK'
  BY DEF IInv, TypeOK, HandleReq, Respond, CheckDeadline, StatusFor, OpState
<1>2. ConnInv(c)'
  BY RespLenAssumption
  DEF IInv, TypeOK, ConnInv, Done, HandleReq, Respond, CheckDeadline, StatusFor, NoReply
<1>3. \A d \in Conn \ {c} : Same(d)
  BY DEF IInv, TypeOK, HandleReq, Respond, CheckDeadline, Same
<1>. QED BY <1>1, <1>2, <1>3, OneConn

LEMMA HandleReqThrowsInv ==
  ASSUME IInv, NEW c \in Conn, HandleReqThrows(c)
  PROVE  IInv'
<1>1. TypeOK'
  BY DEF IInv, TypeOK, HandleReqThrows, Respond, StatusFor, OpState
<1>2. ConnInv(c)'
  BY RespLenAssumption
  DEF IInv, TypeOK, ConnInv, Done, HandleReqThrows, Respond, StatusFor, NoReply
<1>3. \A d \in Conn \ {c} : Same(d)
  BY DEF IInv, TypeOK, HandleReqThrows, Respond, Same
<1>. QED BY <1>1, <1>2, <1>3, OneConn

LEMMA HandleReadErrorInv ==
  ASSUME IInv, NEW c \in Conn, HandleReadError(c)
  PROVE  IInv'
<1>1. TypeOK'
  BY DEF IInv, TypeOK, HandleReadError, OpState
<1>2. ConnInv(c)'
  BY DEF IInv, TypeOK, ConnInv, Done, HandleReadError, NoRequest
<1>3. \A d \in Conn \ {c} : Same(d)
  BY DEF IInv, TypeOK, HandleReadError, Same
<1>. QED BY <1>1, <1>2, <1>3, OneConn

LEMMA HandleWriteInv ==
  ASSUME IInv, NEW c \in Conn, HandleWrite(c)
  PROVE  IInv'
<1>1. TypeOK'
  BY DEF IInv, TypeOK, HandleWrite, OpState, NoWrite
<1>2. ConnInv(c)'
  BY DEF IInv, TypeOK, ConnInv, Done, HandleWrite, NoWrite
<1>3. \A d \in Conn \ {c} : Same(d)
  BY DEF IInv, TypeOK, HandleWrite, Same
<1>. QED BY <1>1, <1>2, <1>3, OneConn

LEMMA HandleDeadlineInv ==
  ASSUME IInv, NEW c \in Conn, HandleDeadline(c)
  PROVE  IInv'
<1>1. TypeOK'
  BY DEF IInv, TypeOK, HandleDeadline, OpState
<1>2. ConnInv(c)'
  <2>1. /\ wait'[c] = "idle"
        /\ read'[c] = read[c] /\ request'[c] = request[c] /\ reply'[c] = reply[c]
        /\ expired' = expired /\ lost' = lost /\ caught' = caught
    BY DEF IInv, TypeOK, HandleDeadline
  <2>2. CASE wait[c] = "ok"
    <3>1. sock'[c] = "closed" /\ write'[c].st # "pending"
      BY <2>2 DEF IInv, TypeOK, HandleDeadline, OpState
    <3>2. expired[c] /\ read[c] = "idle"
      BY <2>2 DEF IInv, ConnInv
    <3>. QED BY <2>1, <3>1, <3>2 DEF ConnInv, Done
  <2>3. CASE wait[c] = "error"
    <3>1. sock' = sock /\ write' = write
      BY <2>3 DEF HandleDeadline
    <3>2. read[c] = "idle"
      BY <2>3 DEF IInv, ConnInv
    <3>3. write[c].st = "idle"
      BY <2>3 DEF IInv, ConnInv
    <3>. QED BY <2>1, <3>1, <3>2, <3>3 DEF IInv, ConnInv, Done
  <2>. QED BY <2>2, <2>3 DEF HandleDeadline
<1>3. \A d \in Conn \ {c} : Same(d)
  BY DEF IInv, TypeOK, HandleDeadline, Same
<1>. QED BY <1>1, <1>2, <1>3, OneConn
-----------------------------------------------------------------------------
LEMMA RequestArrivesInv ==
  ASSUME IInv, NEW c \in Conn, RequestArrives(c), UNCHANGED running
  PROVE  IInv'
<1>1. TypeOK'
  BY DEF IInv, TypeOK, RequestArrives, OpState
<1>2. ConnInv(c)'
  BY DEF IInv, TypeOK, ConnInv, Done, RequestArrives
<1>3. \A d \in Conn \ {c} : Same(d)
  BY DEF IInv, TypeOK, RequestArrives, Same
<1>. QED BY <1>1, <1>2, <1>3, OneConn

LEMMA ReadFailsInv ==
  ASSUME IInv, NEW c \in Conn, ReadFails(c), UNCHANGED running
  PROVE  IInv'
<1>1. TypeOK'
  BY DEF IInv, TypeOK, ReadFails, OpState
<1>2. ConnInv(c)'
  BY DEF IInv, TypeOK, ConnInv, Done, ReadFails
<1>3. \A d \in Conn \ {c} : Same(d)
  BY DEF IInv, TypeOK, ReadFails, Same
<1>. QED BY <1>1, <1>2, <1>3, OneConn

LEMMA WriteSomeInv ==
  ASSUME IInv, NEW c \in Conn, WriteSome(c), UNCHANGED running
  PROVE  IInv'
<1>0. reply[c].parts + 1 \in 0..RespLen
  BY RespLenAssumption DEF IInv, TypeOK, ConnInv, WriteSome
<1>1. TypeOK'
  BY <1>0 DEF IInv, TypeOK, WriteSome, OpState
<1>2. ConnInv(c)'
  BY <1>0, RespLenAssumption
  DEF IInv, TypeOK, ConnInv, Done, WriteSome, StatusFor
<1>3. \A d \in Conn \ {c} : Same(d)
  BY DEF IInv, TypeOK, WriteSome, Same
<1>. QED BY <1>1, <1>2, <1>3, OneConn

LEMMA WriteFailsInv ==
  ASSUME IInv, NEW c \in Conn, WriteFails(c), UNCHANGED running
  PROVE  IInv'
<1>1. TypeOK'
  BY DEF IInv, TypeOK, WriteFails, OpState
<1>2. ConnInv(c)'
  BY DEF IInv, TypeOK, ConnInv, Done, WriteFails
<1>3. \A d \in Conn \ {c} : Same(d)
  BY DEF IInv, TypeOK, WriteFails, Same
<1>. QED BY <1>1, <1>2, <1>3, OneConn

LEMMA ExpireInv ==
  ASSUME IInv, NEW c \in Conn, Expire(c), UNCHANGED running
  PROVE  IInv'
<1>1. TypeOK'
  BY DEF IInv, TypeOK, Expire, OpState
<1>2. ConnInv(c)'
  BY DEF IInv, TypeOK, ConnInv, Done, Expire
<1>3. \A d \in Conn \ {c} : Same(d)
  BY DEF IInv, TypeOK, Expire, Same
<1>. QED BY <1>1, <1>2, <1>3, OneConn

(* The loop ends and nothing else changes. *)
LEMMA StopInv ==
  ASSUME IInv, running' = FALSE,
         UNCHANGED <<accept, sock, read, request, write, reply, wait, expired,
                     lost, caught>>
  PROVE  IInv'
<1>1. TypeOK'
  BY DEF IInv, TypeOK
<1>2. \A d \in Conn : Same(d)
  BY DEF Same
<1>. QED BY <1>1, <1>2, NoConn

(* IInv is inductive. *)
LEMMA StepInv == IInv /\ [Next]_vars => IInv'
<1>. SUFFICES ASSUME IInv, [Next]_vars PROVE IInv'
  OBVIOUS
<1>1. CASE (AcceptCompletes \/ AcceptHandler) /\ UNCHANGED running
  BY <1>1, AcceptInv
<1>2. ASSUME NEW c \in Conn, ConnectionHandler(c) PROVE IInv'
  <2>1. CASE HandleReq(c)
    BY <2>1, HandleReqInv
  <2>2. CASE HandleReqThrows(c)
    BY <2>2, HandleReqThrowsInv
  <2>3. CASE HandleReqAborts(c)
    BY <2>3, StopInv DEF HandleReqAborts
  <2>4. CASE HandleReadError(c)
    BY <2>4, HandleReadErrorInv
  <2>5. CASE HandleWrite(c)
    BY <2>5, HandleWriteInv
  <2>6. CASE HandleDeadline(c)
    BY <2>6, HandleDeadlineInv
  <2>. QED BY <1>2, <2>1, <2>2, <2>3, <2>4, <2>5, <2>6 DEF ConnectionHandler
<1>3. ASSUME NEW c \in Conn, Network(c) \/ Expire(c), UNCHANGED running
      PROVE  IInv'
  BY <1>3, RequestArrivesInv, ReadFailsInv, WriteSomeInv, WriteFailsInv, ExpireInv
  DEF Network
<1>4. CASE Signal
  BY <1>4, StopInv DEF Signal
<1>5. CASE UNCHANGED vars
  <2>1. TypeOK'
    BY <1>5 DEF IInv, TypeOK, vars
  <2>2. \A d \in Conn : Same(d)
    BY <1>5 DEF Same, vars
  <2>. QED BY <2>1, <2>2, NoConn
<1>. QED BY <1>1, <1>2, <1>3, <1>4, <1>5 DEF Next

(* The inductive invariant of the server: the life of a connection. *)
THEOREM Invariance == Spec => []IInv
BY InitInv, StepInv, PTL DEF Spec

(* Every variable has its type; a response never has more parts than it    *)
(* should.                                                                 *)
THEOREM TypeCorrect == Spec => []TypeOK
<1>1. IInv => TypeOK
  BY DEF IInv
<1>. QED BY <1>1, Invariance, PTL

(* A response is written under the deadline, a request read without it:    *)
(* CheckDeadline comes after WriteResponse in the same handler.            *)
THEOREM DeadlineTheorem == Spec => []DeadlineGuardsWrite
<1>1. IInv => DeadlineGuardsWrite
  BY DEF IInv, ConnInv, DeadlineGuardsWrite
<1>. QED BY <1>1, Invariance, PTL

(* No connection ends under a response still going out, save for the three *)
(* reasons of AnswerIsWhole: the write lambda shuts the socket, and the    *)
(* wait lambda closes it, only then.                                       *)
THEOREM AnswerTheorem == Spec => []AnswerIsWhole
<1>1. IInv => AnswerIsWhole
  BY DEF IInv, ConnInv, Done, AnswerIsWhole, Ended, Alive
<1>. QED BY <1>1, Invariance, PTL
-----------------------------------------------------------------------------
EndedFn == [c \in Conn |-> Ended(c)]

(* Ended as a value, which a formula is only when known to be Boolean. *)
LEMMA EndedUpdate ==
  ASSUME NEW c \in Conn, NEW b \in BOOLEAN, Ended(c)' <=> b,
         \A d \in Conn \ {c} : Ended(d)' <=> Ended(d)
  PROVE  EndedFn' = [EndedFn EXCEPT ![c] = b]
<1>1. \A d \in Conn : Ended(d) \in BOOLEAN /\ Ended(d)' \in BOOLEAN
  BY DEF Ended
<1>2. \A d \in Conn \ {c} : Ended(d)' = Ended(d)
  BY <1>1
<1>3. Ended(c)' = b
  BY <1>1
<1>4. EndedFn' = [d \in Conn |-> Ended(d)']
  BY DEF EndedFn
<1>5. [EndedFn EXCEPT ![c] = b] = [d \in Conn |-> IF d = c THEN b ELSE Ended(d)]
  BY DEF EndedFn
<1>. QED BY <1>2, <1>3, <1>4, <1>5

LEMMA EndedSame ==
  ASSUME \A d \in Conn : Ended(d)' <=> Ended(d)
  PROVE  EndedFn' = EndedFn
<1>1. \A d \in Conn : Ended(d) \in BOOLEAN /\ Ended(d)' \in BOOLEAN
  BY DEF Ended
<1>2. \A d \in Conn : Ended(d)' = Ended(d)
  BY <1>1
<1>. QED BY <1>2 DEF EndedFn

LEMMA SameEnded ==
  ASSUME NEW c, Same(c)
  PROVE  Ended(c)' <=> Ended(c)
BY DEF Same, Ended, Alive

(* A step that reads no request and sends nothing maps to the end of the   *)
(* connection, or to no step.                                              *)
LEMMA EndOrStutter ==
  ASSUME NEW c \in Conn, \A d \in Conn \ {c} : Same(d),
         Ended(c) => Ended(c)', UNCHANGED <<request, reply>>
  PROVE  [Abstract!Next]_(Abstract!serviceVars)
<1>1. \A d \in Conn \ {c} : Ended(d)' <=> Ended(d)
  BY SameEnded
<1>2. CASE Ended(c)'
  <2>1. EndedFn' = [EndedFn EXCEPT ![c] = TRUE]
    BY <1>1, <1>2, EndedUpdate
  <2>2. Abstract!End(c)
    BY <2>1 DEF Abstract!End, EndedFn
  <2>. QED BY <2>2 DEF Abstract!Next
<1>3. CASE ~Ended(c)'
  <2>1. EndedFn' = EndedFn
    <3>1. Ended(c)' <=> Ended(c)
      BY <1>3
    <3>. QED BY <1>1, <3>1, EndedSame
  <2>. QED BY <2>1 DEF Abstract!serviceVars, EndedFn
<1>. QED BY <1>2, <1>3

LEMMA AllSameStutter ==
  ASSUME \A d \in Conn : Same(d), UNCHANGED <<request, reply>>
  PROVE  [Abstract!Next]_(Abstract!serviceVars)
<1>1. EndedFn' = EndedFn
  BY SameEnded, EndedSame
<1>. QED BY <1>1 DEF Abstract!serviceVars, EndedFn

LEMMA NewConnectionIsAccept ==
  ASSUME IInv, NEW c \in Free, NewConnection(c)
  PROVE  Abstract!Next
<1>1. c \in Conn /\ Ended(c) /\ ~Ended(c)'
  BY DEF IInv, TypeOK, Free, Ended, Alive, NewConnection
<1>2. \A d \in Conn \ {c} : Ended(d)' <=> Ended(d)
  BY DEF IInv, TypeOK, NewConnection, Ended, Alive
<1>3. EndedFn' = [EndedFn EXCEPT ![c] = FALSE]
  BY <1>1, <1>2, EndedUpdate
<1>4. EndedFn[c]
  BY <1>1 DEF EndedFn
<1>5. Abstract!Accept(c)
  BY <1>3, <1>4
  DEF NewConnection, Abstract!Accept, EndedFn, NoRequest, NoReply,
      Abstract!NoRequest, Abstract!NoReply
<1>. QED BY <1>1, <1>5 DEF Abstract!Next

LEMMA RequestArrivesIsTake ==
  ASSUME IInv, NEW c \in Conn, RequestArrives(c)
  PROVE  Abstract!Next
<1>1. ~Ended(c) /\ ~Ended(c)' /\ request[c] = NoRequest
  BY DEF IInv, TypeOK, ConnInv, Ended, Alive, RequestArrives
<1>2. \A d \in Conn \ {c} : Ended(d)' <=> Ended(d)
  BY DEF IInv, TypeOK, RequestArrives, Ended, Alive
<1>3. EndedFn' = EndedFn /\ ~EndedFn[c]
  <2>1. \A d \in Conn : Ended(d)' <=> Ended(d)
    BY <1>1, <1>2
  <2>2. EndedFn' = EndedFn
    BY <2>1, EndedSame
  <2>. QED BY <1>1, <2>2 DEF EndedFn
<1>4. Abstract!Take(c)
  BY <1>1, <1>3
  DEF RequestArrives, Abstract!Take, EndedFn, NoRequest, Abstract!NoRequest
<1>. QED BY <1>4 DEF Abstract!Next

LEMMA WriteSomeIsAnswer ==
  ASSUME IInv, NEW c \in Conn, WriteSome(c)
  PROVE  [Abstract!Next]_(Abstract!serviceVars)
<1>1. /\ sock[c] = "open" /\ sock' = sock
      /\ request[c].method = "get" /\ reply[c].parts < RespLen
      /\ write[c].status = StatusFor(request[c])
  BY DEF IInv, ConnInv, WriteSome
<1>2. write[c].st # "idle" /\ write'[c].st # "idle"
  BY DEF IInv, TypeOK, WriteSome
<1>3. ~Ended(c) /\ ~Ended(c)'
  BY <1>1, <1>2 DEF Ended, Alive
<1>4. \A d \in Conn \ {c} : Ended(d)' <=> Ended(d)
  BY DEF IInv, TypeOK, WriteSome, Ended, Alive
<1>5. EndedFn' = EndedFn /\ ~EndedFn[c]
  <2>1. \A d \in Conn : Ended(d)' <=> Ended(d)
    BY <1>3, <1>4
  <2>2. EndedFn' = EndedFn
    BY <2>1, EndedSame
  <2>. QED BY <1>3, <2>2 DEF EndedFn
<1>6. Abstract!Answer(c)
  BY <1>1, <1>5 DEF WriteSome, Abstract!Answer, EndedFn, StatusFor
<1>. QED BY <1>6 DEF Abstract!Next

LEMMA HandlerIsEnd ==
  ASSUME IInv, NEW c \in Conn, ConnectionHandler(c)
  PROVE  [Abstract!Next]_(Abstract!serviceVars)
<1>1. UNCHANGED <<request, reply>>
  BY DEF ConnectionHandler, HandleReq, HandleReqThrows, HandleReqAborts,
         HandleReadError, HandleWrite, HandleDeadline
<1>2. ASSUME NEW d \in Conn \ {c} PROVE Same(d)
  BY DEF IInv, TypeOK, ConnectionHandler, HandleReq, HandleReqThrows,
         HandleReqAborts, HandleReadError, HandleWrite, HandleDeadline,
         Respond, CheckDeadline, Same
<1>3. ASSUME Ended(c) PROVE Ended(c)'
  <2>1. CASE HandleReq(c) \/ HandleReqThrows(c) \/ HandleReqAborts(c)
             \/ HandleReadError(c)
    <3>1. read[c] # "idle" /\ sock[c] = "open"
      BY <2>1 DEF HandleReq, HandleReqThrows, HandleReqAborts, HandleReadError,
                  IInv, ConnInv
    <3>. QED BY <1>3, <3>1 DEF Ended, Alive
  <2>2. CASE HandleWrite(c)
    <3>1. sock'[c] # "open"
      BY <2>2 DEF HandleWrite, IInv, TypeOK
    <3>. QED BY <3>1 DEF Ended
  <2>3. CASE HandleDeadline(c)
    <3>1. sock[c] # "open"
      BY <2>3, <1>3 DEF HandleDeadline, Ended, Alive
    <3>2. sock'[c] # "open"
      BY <2>3, <3>1 DEF HandleDeadline, IInv, TypeOK
    <3>. QED BY <3>2 DEF Ended
  <2>. QED BY <2>1, <2>2, <2>3 DEF ConnectionHandler
<1>. QED BY <1>1, <1>2, <1>3, EndOrStutter

LEMMA RefinementInit == Init => Abstract!Init
<1>. SUFFICES ASSUME Init PROVE Abstract!Init
  OBVIOUS
<1>1. \A c \in Conn : Ended(c)
  BY DEF Init, Ended, Alive
<1>2. EndedFn = [c \in Conn |-> TRUE]
  BY <1>1 DEF EndedFn
<1>. QED
  BY <1>2 DEF Init, Abstract!Init, EndedFn, NoRequest, NoReply,
              Abstract!NoRequest, Abstract!NoReply

LEMMA RefinementStep ==
  IInv /\ [Next]_vars => [Abstract!Next]_(Abstract!serviceVars)
<1>. SUFFICES ASSUME IInv, [Next]_vars
              PROVE  [Abstract!Next]_(Abstract!serviceVars)
  OBVIOUS
<1>1. CASE AcceptCompletes \/ AcceptHandler
  <2>1. CASE \E c \in Free : NewConnection(c)
    BY <2>1, NewConnectionIsAccept
  <2>2. CASE UNCHANGED <<sock, read, request, write, reply, wait, expired, lost,
                         caught>>
    <3>1. \A d \in Conn : Same(d)
      BY <2>2 DEF Same
    <3>. QED BY <2>2, <3>1, AllSameStutter
  <2>. QED
    BY <1>1, <2>1, <2>2 DEF AcceptCompletes, AcceptHandler, HandleAccept,
                            HandleAcceptError, HandleAcceptThrows
<1>2. ASSUME NEW c \in Conn, ConnectionHandler(c)
      PROVE  [Abstract!Next]_(Abstract!serviceVars)
  BY <1>2, HandlerIsEnd
<1>3. ASSUME NEW c \in Conn, RequestArrives(c) \/ WriteSome(c)
      PROVE  [Abstract!Next]_(Abstract!serviceVars)
  BY <1>3, RequestArrivesIsTake, WriteSomeIsAnswer
<1>4. ASSUME NEW c \in Conn, ReadFails(c) \/ WriteFails(c) \/ Expire(c)
      PROVE  [Abstract!Next]_(Abstract!serviceVars)
  <2>1. \A d \in Conn \ {c} : Same(d)
    BY <1>4 DEF IInv, TypeOK, ReadFails, WriteFails, Expire, Same
  <2>2. Ended(c) => Ended(c)'
    BY <1>4 DEF IInv, TypeOK, ReadFails, WriteFails, Expire, Ended, Alive
  <2>3. UNCHANGED <<request, reply>>
    BY <1>4 DEF ReadFails, WriteFails, Expire
  <2>. QED BY <2>1, <2>2, <2>3, EndOrStutter
<1>5. CASE Signal \/ UNCHANGED vars
  <2>1. UNCHANGED <<sock, read, request, write, reply, wait, expired, lost, caught>>
    BY <1>5 DEF Signal, vars
  <2>2. \A d \in Conn : Same(d)
    BY <2>1 DEF Same
  <2>. QED BY <2>1, <2>2, AllSameStutter
<1>. QED BY <1>1, <1>2, <1>3, <1>4, <1>5 DEF Next, Network

(* The server implements HttpService: HandleReq and WriteResponse answer   *)
(* each request at most once and as it deserves, and nothing goes out once *)
(* the write lambda or the deadline has shut the socket.                   *)
THEOREM Refinement == Spec => IsHttpService
<1>1. Spec => []IInv
  BY Invariance
<1>. QED
  BY <1>1, RefinementInit, RefinementStep, PTL DEF Spec, IsHttpService, Abstract!Spec
=============================================================================
