------------------------ MODULE GoodEchoServerProofs -----------------------
(* Proofs about GoodEchoServer, for every number of sessions, every buffer *)
(* size, every length of the clients' streams, and both builds.            *)
EXTENDS GoodEchoServer, EchoSocketsProofs

(* The session that is being accepted has a fresh socket; one in sessions_ *)
(* reads, has read or writes; of any other nothing is left, not even a     *)
(* self_shared in a lambda.                                                *)
Served(s) == SockReading(s) \/ SockHasRead(s) \/ SockWriting(s)

Gone(s) == self[s] = {} /\ read[s].st = "idle" /\ write[s].st = "idle"

SessionInv(s) ==
  /\ accept.session = s => s \notin sessions /\ SockFresh(s)
  /\ s \in sessions => Served(s)
  /\ s \notin sessions => Gone(s)

ServerInv ==
  /\ TypeOK
  /\ \A s \in Session : SessionInv(s)

LEMMA ServerInvTypes ==
  ASSUME ServerInv
  PROVE  /\ SockTypeOK
         /\ accept.session \in Session
         /\ accept \in [st : {"pending", "ok", "error"}, session : Session]
         /\ sessions \subseteq Session
BY DEF ServerInv, TypeOK, ServerTypeOK

(* A session whose socket, entry in sessions_ and self_shared stay as they *)
(* are keeps its part of the invariant.                                    *)
LEMMA SessionFrame ==
  ASSUME NEW s, SessionInv(s), SameSocket(s), self'[s] = self[s],
         s \in sessions' <=> s \in sessions,
         accept'.session = s => accept.session = s
  PROVE  SessionInv(s)'
<1>1. /\ SockFresh(s)' <=> SockFresh(s)
      /\ Served(s)' <=> Served(s)
  BY SameSocketSamePhase DEF Served
<1>2. Gone(s)' <=> Gone(s)
  BY DEF Gone, SameSocket
<1>3. QED
  BY <1>1, <1>2 DEF SessionInv

(* What is left to show of a step that concerns the session s only. *)
LEMMA OneSession ==
  ASSUME ServerInv, NEW s \in Session, TypeOK', SessionInv(s)', OnlyTouches(s),
         accept'.session = accept.session,
         \A t \in Session \ {s} : self'[t] = self[t] /\ (t \in sessions' <=> t \in sessions)
  PROVE  ServerInv'
<1>1. ASSUME NEW t \in Session, t # s PROVE SessionInv(t)'
  BY <1>1, SessionFrame DEF ServerInv, OnlyTouches
<1>2. QED
  BY <1>1 DEF ServerInv

(* A step that changes neither the sockets nor who owns the sessions. *)
LEMMA NothingTouched ==
  ASSUME ServerInv, UNCHANGED <<sockVars, sessions, self>>,
         accept'.session = accept.session, TypeOK'
  PROVE  ServerInv'
<1>1. ASSUME NEW t \in Session PROVE SessionInv(t)'
  <2>1. SameSocket(t)
    BY DEF SameSocket, sockVars
  <2>2. QED
    BY <2>1, SessionFrame DEF ServerInv
<1>2. QED
  BY <1>1 DEF ServerInv

LEMMA InitInv == Init => ServerInv
<1> SUFFICES ASSUME Init PROVE ServerInv
  OBVIOUS
<1>1. SockTypeOK /\ \A s \in Session : SockFresh(s)
  BY InitTypes DEF Init, ServerInit
<1>2. TypeOK
  BY <1>1 DEF Init, ServerInit, TypeOK, ServerTypeOK, Accepting
<1>3. ASSUME NEW s \in Session PROVE SessionInv(s)
  BY <1>1 DEF SessionInv, Gone, SockFresh, Init, ServerInit
<1>4. QED
  BY <1>2, <1>3 DEF ServerInv
-----------------------------------------------------------------------------
(* An accept completes. *)
LEMMA AcceptCompletesInv ==
  ASSUME ServerInv, AcceptCompletes(Free), UNCHANGED <<self, publicBase>>
  PROVE  ServerInv' /\ UNCHANGED Abstract!echoVars
<1>1. PICK st \in {"ok", "error"} : accept' = [accept EXCEPT !.st = st]
  BY DEF AcceptCompletes
<1>2. /\ accept' \in [st : {"pending", "ok", "error"}, session : Session]
      /\ accept'.session = accept.session
  BY <1>1, ServerInvTypes
<1>3. TypeOK'
  BY <1>2 DEF ServerInv, TypeOK, ServerTypeOK, SockTypeOK, AcceptCompletes, sockVars
<1>4. ServerInv'
  BY <1>2, <1>3, NothingTouched DEF AcceptCompletes
<1>5. QED
  BY <1>4 DEF AcceptCompletes, sockVars, Abstract!echoVars

(* HandleAccept puts the session in sessions_ and starts its first read,   *)
(* or an error lets go of it; the next session is fresh.                   *)
LEMMA HandleAcceptInv ==
  ASSUME ServerInv, NEW t \in Free, HandleAccept(t) \/ HandleAcceptError(t),
         UNCHANGED <<self, publicBase>>
  PROVE  ServerInv' /\ Abstract!Connect(t)
<1>1. t \in Session /\ t \notin sessions /\ t # accept.session /\ self[t] = {}
  BY DEF Free, Alive, ServerOwns
<1>2. PICK now \in [Session -> ReadOp] :
        /\ StartAccept(t, now)
        /\ \/ /\ now = [read EXCEPT ![accept.session] = Reading]
              /\ sessions' = sessions \union {accept.session}
           \/ now = read /\ sessions' = sessions
  <2>1. read \in [Session -> ReadOp]
    BY ServerInvTypes DEF SockTypeOK, ReadOp
  <2>2. [read EXCEPT ![accept.session] = Reading] \in [Session -> ReadOp]
    BY <2>1, OpTypes
  <2>3. QED
    BY <2>1, <2>2 DEF HandleAccept, HandleAcceptError
<1>3. /\ SockTypeOK'
      /\ SockFresh(t)'
      /\ \A u \in Session \ {t} :
           /\ read'[u] = now[u]
           /\ data'[u] = data[u] /\ write'[u] = write[u]
           /\ received'[u] = received[u] /\ echoed'[u] = echoed[u]
  BY <1>1, <1>2, NewSessionStep, ServerInvTypes DEF StartAccept
<1>4. accept' = Accepting(t) /\ accept'.session = t
  BY <1>2 DEF StartAccept, Accepting
<1>5. TypeOK'
  <2>1. sessions' \subseteq Session /\ running' = running
    BY <1>2, ServerInvTypes DEF HandleAccept, HandleAcceptError
  <2>2. accept' \in [st : {"pending", "ok", "error"}, session : Session]
    BY <1>1, <1>4 DEF Accepting
  <2>3. QED
    BY <1>3, <2>1, <2>2 DEF ServerInv, TypeOK, ServerTypeOK
<1>6. SessionInv(t)'
  BY <1>1, <1>2, <1>3 DEF SessionInv, Gone, SockFresh
<1>7. ASSUME NEW u \in Session, u # t, u # accept.session
      PROVE  SessionInv(u)'
  <2>1. now[u] = read[u] /\ (u \in sessions' <=> u \in sessions)
    BY <1>2, <1>7
  <2>2. SameSocket(u)
    BY <1>3, <1>7, <2>1 DEF SameSocket
  <2>3. QED
    BY <1>4, <1>7, <2>1, <2>2, SessionFrame DEF ServerInv
<1>8. PICK a \in Session : a = accept.session /\ a # t
  BY <1>1, ServerInvTypes
<1>9. SessionInv(a)'
  <2>1. SessionInv(a) /\ a \notin sessions /\ SockFresh(a)
    BY <1>8 DEF ServerInv, SessionInv
  <2>2. CASE now = [read EXCEPT ![a] = Reading] /\ sessions' = sessions \union {a}
    <3>1. read'[a] = Reading
      BY <1>3, <1>8, <2>2, ServerInvTypes DEF SockTypeOK
    <3>2. SockReading(a)'
      BY <1>3, <1>8, <2>1, <3>1, StartStep
    <3>3. QED
      BY <1>4, <1>8, <2>2, <3>2 DEF SessionInv, Served
  <2>3. CASE now = read /\ sessions' = sessions
    <3>1. SameSocket(a)
      BY <1>3, <1>8, <2>3 DEF SameSocket
    <3>2. QED
      BY <1>4, <1>8, <2>1, <2>3, <3>1, SessionFrame
  <2>4. QED
    BY <1>2, <1>8, <2>2, <2>3
<1>10. ServerInv'
  BY <1>5, <1>6, <1>7, <1>8, <1>9 DEF ServerInv
<1>11. QED
  BY <1>2, <1>10 DEF StartAccept, Abstract!Connect
-----------------------------------------------------------------------------
(* Only a session in sessions_ has an operation outstanding, in one of its *)
(* three phases: the state of the operation says which.                    *)
LEMMA PhaseOf ==
  ASSUME ServerInv, NEW s \in Session
  PROVE  /\ HasHandler(s) => s \in sessions /\ s # accept.session /\ Served(s)
         /\ read[s].st \in {"pending", "error"} => SockReading(s)
         /\ read[s].st = "ok" => SockHasRead(s)
         /\ write[s].st # "idle" => SockWriting(s)
<1>1. SessionInv(s)
  BY DEF ServerInv
<1>2. HasHandler(s) => s \in sessions /\ s # accept.session /\ Served(s)
  BY <1>1 DEF SessionInv, Gone, HasHandler
<1>3. QED
  BY <1>2 DEF HasHandler, Served, SockReading, SockHasRead, SockWriting

(* What the network does. *)
LEMMA NetworkInv ==
  ASSUME ServerInv, NEW s \in Session, Network(s), UNCHANGED publicBase
  PROVE  ServerInv' /\ [Abstract!Next]_(Abstract!echoVars)
<1>1. HasHandler(s)
  BY DEF Network, ReadSome, ReadFails, WriteSome, WriteFails, HasHandler
<1>2. SockTypeOK /\ SessionInv(s) /\ s \in sessions /\ s # accept.session
  BY <1>1, PhaseOf, ServerInvTypes DEF ServerInv
<1>3. UNCHANGED <<accept, sessions, running, self>>
  BY DEF Network, serverVars
<1>4. /\ SockTypeOK' /\ OnlyTouches(s) /\ Served(s)'
      /\ [Abstract!Next]_(Abstract!echoVars)
  <2>1. CASE ReadSome(s)
    <3>1. SockReading(s)
      BY <2>1, PhaseOf DEF ReadSome
    <3>2. /\ SockTypeOK' /\ OnlyTouches(s)
          /\ SockHasRead(s)'
          /\ received'[s] \in Nat /\ received'[s] > received[s]
          /\ received' = [received EXCEPT ![s] = received'[s]]
          /\ UNCHANGED echoed
      BY <1>2, <2>1, <3>1, ReadSomeStep
    <3>3. Abstract!Receive(s)
      BY <3>2 DEF Abstract!Receive
    <3>4. QED
      BY <3>2, <3>3 DEF Served, Abstract!Next
  <2>2. CASE ReadFails(s)
    <3>1. SockReading(s)
      BY <2>2, PhaseOf DEF ReadFails
    <3>2. /\ SockTypeOK' /\ OnlyTouches(s) /\ SockReading(s)'
          /\ UNCHANGED <<received, echoed>>
      BY <1>2, <2>2, <3>1, ReadFailsStep
    <3>3. QED
      BY <3>2 DEF Served, Abstract!echoVars
  <2>3. CASE WriteSome(s, data[s])
    <3>1. SockWriting(s)
      BY <2>3, PhaseOf DEF WriteSome
    <3>2. /\ SockTypeOK' /\ OnlyTouches(s) /\ SockWriting(s)'
          /\ \E m \in (Len(echoed[s]) + 1)..received[s] :
               echoed' = [echoed EXCEPT ![s] = Upto(m)]
          /\ UNCHANGED received
      BY <1>2, <2>3, <3>1, WriteSomeStep
    <3>3. Abstract!Echo(s)
      BY <3>2 DEF Abstract!Echo, Abstract!Stream, Upto
    <3>4. QED
      BY <3>2, <3>3 DEF Served, Abstract!Next
  <2>4. CASE WriteFails(s)
    <3>1. SockWriting(s)
      BY <2>4, PhaseOf DEF WriteFails
    <3>2. /\ SockTypeOK' /\ OnlyTouches(s) /\ SockWriting(s)'
          /\ UNCHANGED <<received, echoed>>
      BY <1>2, <2>4, <3>1, WriteFailsStep
    <3>3. QED
      BY <3>2 DEF Served, Abstract!echoVars
  <2>5. QED
    BY <2>1, <2>2, <2>3, <2>4 DEF Network
<1>5. TypeOK'
  BY <1>3, <1>4 DEF ServerInv, TypeOK, ServerTypeOK
<1>6. SessionInv(s)'
  BY <1>2, <1>3, <1>4 DEF SessionInv
<1>7. ServerInv'
  BY <1>3, <1>4, <1>5, <1>6, OneSession
<1>8. QED
  BY <1>4, <1>7

(* The handlers of a session that go on: HandleRead and HandleWrite. *)
LEMMA GoesOnInv ==
  ASSUME ServerInv, NEW s \in Session, HandleRead(s) \/ HandleWrite(s), UNCHANGED publicBase
  PROVE  ServerInv' /\ UNCHANGED Abstract!echoVars
<1>1. HasHandler(s)
  BY DEF HandleRead, HandleWrite, HasHandler
<1>2. SockTypeOK /\ s \in sessions /\ s # accept.session
  BY <1>1, PhaseOf, ServerInvTypes
<1>3. UNCHANGED <<accept, sessions, running, received, echoed>>
  BY DEF HandleRead, HandleWrite, serverVars
<1>4. SockTypeOK' /\ OnlyTouches(s) /\ Served(s)'
  <2>1. CASE HandleRead(s)
    <3>1. SockHasRead(s)
      BY <2>1, PhaseOf DEF HandleRead
    <3>2. QED
      BY <1>2, <2>1, <3>1, EchoStep DEF HandleRead, Served
  <2>2. CASE HandleWrite(s)
    <3>1. SockWriting(s)
      BY <2>2, PhaseOf DEF HandleWrite
    <3>2. QED
      BY <1>2, <2>2, <3>1, ReadAgainStep DEF HandleWrite, Served
  <2>3. QED
    BY <2>1, <2>2
<1>5. self' \in [Session -> SUBSET {"read", "write"}] /\ \A t \in Session \ {s} : self'[t] = self[t]
  BY DEF ServerInv, TypeOK, HandleRead, HandleWrite
<1>6. TypeOK'
  BY <1>3, <1>4, <1>5 DEF ServerInv, TypeOK, ServerTypeOK
<1>7. SessionInv(s)'
  BY <1>2, <1>3, <1>4 DEF SessionInv
<1>8. ServerInv'
  BY <1>3, <1>4, <1>5, <1>6, <1>7, OneSession
<1>9. QED
  BY <1>3, <1>8 DEF Abstract!echoVars

(* The handlers that end it: the entry in sessions_, the last self_shared  *)
(* and the outstanding operation go together.                              *)
LEMMA EndsInv ==
  ASSUME ServerInv, NEW s \in Session, HandleReadError(s) \/ HandleWriteError(s),
         UNCHANGED publicBase
  PROVE  ServerInv' /\ UNCHANGED Abstract!echoVars
<1>1. HasHandler(s)
  BY DEF HandleReadError, HandleWriteError, HasHandler
<1>2. SockTypeOK /\ s \in sessions /\ s # accept.session
  BY <1>1, PhaseOf, ServerInvTypes
<1>3. /\ UNCHANGED <<accept, running, data, received, echoed>>
      /\ sessions' = sessions \ {s}
      /\ self' = [self EXCEPT ![s] = {}]
  BY DEF HandleReadError, HandleWriteError, ClearSession
<1>4. SockTypeOK' /\ OnlyTouches(s) /\ read'[s].st = "idle" /\ write'[s].st = "idle"
  <2>1. /\ data[s] \in [1..BufLen -> Byte] /\ read[s] \in ReadOp /\ write[s] \in WriteOp
        /\ received[s] \in 0..MaxBytes /\ echoed[s] \in Seq(Byte)
    BY <1>2, SockTypes
  <2>2. CASE HandleReadError(s)
    <3>1. read' = [read EXCEPT ![s] = NoRead] /\ write' = write
      BY <2>2 DEF HandleReadError
    <3>2. write[s].st = "idle"
      BY <2>2, PhaseOf DEF HandleReadError, SockReading
    <3>3. SockTypeOK' /\ OnlyTouches(s)
      BY <1>2, <1>3, <2>1, <3>1, OpTypes, SockTypesKept
    <3>4. QED
      BY <1>2, <3>1, <3>2, <3>3 DEF SockTypeOK, NoRead
  <2>3. CASE HandleWriteError(s)
    <3>1. write' = [write EXCEPT ![s] = NoWrite] /\ read' = read
      BY <2>3 DEF HandleWriteError
    <3>2. read[s].st = "idle"
      BY <2>3, PhaseOf DEF HandleWriteError, SockWriting
    <3>3. SockTypeOK' /\ OnlyTouches(s)
      BY <1>2, <1>3, <2>1, <3>1, OpTypes, SockTypesKept
    <3>4. QED
      BY <1>2, <3>1, <3>2, <3>3 DEF SockTypeOK, NoWrite
  <2>4. QED
    BY <2>2, <2>3
<1>5. self' \in [Session -> SUBSET {"read", "write"}] /\ \A t \in Session \ {s} : self'[t] = self[t]
  BY <1>3 DEF ServerInv, TypeOK
<1>6. TypeOK'
  BY <1>3, <1>4, <1>5, ServerInvTypes DEF ServerInv, TypeOK, ServerTypeOK
<1>7. SessionInv(s)'
  <2>1. self'[s] = {}
    BY <1>3 DEF ServerInv, TypeOK
  <2>2. QED
    BY <1>2, <1>3, <1>4, <2>1 DEF SessionInv, Gone
<1>8. ServerInv'
  BY <1>3, <1>4, <1>5, <1>6, <1>7, OneSession
<1>9. QED
  BY <1>3, <1>8 DEF Abstract!echoVars

(* std::bad_weak_ptr ends the loop, and touches nothing else. *)
LEMMA ReadThrowsInv ==
  ASSUME ServerInv, NEW s \in Session, ReadThrows(s), UNCHANGED publicBase
  PROVE  ServerInv' /\ UNCHANGED Abstract!echoVars
<1>1. TypeOK'
  BY DEF ServerInv, TypeOK, ServerTypeOK, SockTypeOK, ReadThrows, sockVars
<1>2. ServerInv'
  BY <1>1, NothingTouched DEF ReadThrows
<1>3. QED
  BY <1>2 DEF ReadThrows, sockVars, Abstract!echoVars
-----------------------------------------------------------------------------
LEMMA NextInv ==
  ASSUME ServerInv, [Next]_vars
  PROVE  ServerInv' /\ [Abstract!Next]_(Abstract!echoVars)
<1>1. CASE UNCHANGED vars
  <2>1. TypeOK'
    BY <1>1 DEF ServerInv, TypeOK, ServerTypeOK, SockTypeOK, vars, sockVars, serverVars
  <2>2. ServerInv'
    BY <1>1, <2>1, NothingTouched DEF vars, serverVars
  <2>3. QED
    BY <1>1, <2>2 DEF vars, sockVars, Abstract!echoVars
<1>2. CASE Accept /\ UNCHANGED publicBase
  <2>1. CASE AcceptCompletes(Free) /\ UNCHANGED self
    BY <1>2, <2>1, AcceptCompletesInv
  <2>2. ASSUME NEW t \in Free, HandleAccept(t) \/ HandleAcceptError(t), UNCHANGED self
        PROVE  ServerInv' /\ Abstract!Next
    <3>1. ServerInv' /\ Abstract!Connect(t)
      BY <1>2, <2>2, HandleAcceptInv
    <3>2. QED
      BY <3>1 DEF Abstract!Next, Free
  <2>3. QED
    BY <1>2, <2>1, <2>2 DEF Accept
<1>3. ASSUME NEW s \in Session, Network(s) \/ SessionHandler(s), UNCHANGED publicBase
      PROVE  ServerInv' /\ [Abstract!Next]_(Abstract!echoVars)
  BY <1>3, NetworkInv, GoesOnInv, EndsInv, ReadThrowsInv DEF SessionHandler
<1>4. QED
  BY <1>1, <1>2, <1>3 DEF Next

(* Every session is being accepted, or served and in one phase, or gone:   *)
(* the inductive invariant of the server.                                  *)
THEOREM Invariance == Spec => []ServerInv
<1>1. ServerInv /\ [Next]_vars => ServerInv'
  BY NextInv
<1>2. QED
  BY <1>1, InitInv, PTL DEF Spec

(* Type correctness: what goes out on a socket are bytes that came in.     *)
THEOREM TypeCorrect == Spec => []TypeOK
<1>1. ServerInv => TypeOK
  BY DEF ServerInv
<1>2. QED
  BY <1>1, Invariance, PTL

(* A lambda that waits to run finds its session: sessions_ keeps the one   *)
(* of Start alive although it holds only this, in both builds.             *)
THEOREM LambdasFindTheirSession == Spec => []NoDanglingHandler
<1>1. ServerInv => NoDanglingHandler
  BY PhaseOf DEF NoDanglingHandler, Alive, ServerOwns
<1>2. QED
  BY <1>1, Invariance, PTL

(* sessions_ is exactly the set of sessions with an operation outstanding, *)
(* and none has two.                                                       *)
THEOREM MapIsExact == Spec => []SessionsAreServed
<1>1. ServerInv => SessionsAreServed
  <2> SUFFICES ASSUME ServerInv, NEW s \in Session
               PROVE  /\ s \in sessions <=> HasHandler(s)
                      /\ read[s].st = "idle" \/ write[s].st = "idle"
    BY DEF SessionsAreServed
  <2>1. SessionInv(s)
    BY DEF ServerInv
  <2>2. QED
    BY <2>1 DEF SessionInv, Served, Gone, HasHandler, SockReading, SockHasRead, SockWriting
<1>2. QED
  BY <1>1, Invariance, PTL

(* Whatever owns the sessions, and wherever the exception ends the server, *)
(* what a client gets back is what it sent.                                *)
THEOREM Refinement == Spec => IsEchoService
<1>1. Init => Abstract!Init
  BY DEF Init, ServerInit, SockInit, Abstract!Init
<1>2. ServerInv /\ [Next]_vars => [Abstract!Next]_(Abstract!echoVars)
  BY NextInv
<1>3. QED
  BY <1>1, <1>2, Invariance, PTL DEF Spec, IsEchoService, Abstract!Spec
=============================================================================
