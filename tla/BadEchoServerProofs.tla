------------------------ MODULE BadEchoServerProofs ------------------------
(* Proofs about BadEchoServer, for every number of sessions, every buffer  *)
(* size and every length of the clients' streams.                          *)
EXTENDS BadEchoServer, EchoSocketsProofs

(* A phase of a session object is one of its socket, and who points to the *)
(* object: the heap, and perhaps the outstanding accept.                   *)
Phase(s) ==
  IsFree(s) \/ IsAccepting(s) \/ IsReading(s) \/ HasRead(s) \/ IsWriting(s)

Served(s) == SockReading(s) \/ SockHasRead(s) \/ SockWriting(s)

LEMMA Phases ==
  ASSUME NEW s
  PROVE  /\ IsAccepting(s) <=> heap[s] = "live" /\ accept.session = s /\ SockFresh(s)
         /\ IsReading(s) <=> heap[s] = "live" /\ accept.session # s /\ SockReading(s)
         /\ HasRead(s) <=> heap[s] = "live" /\ accept.session # s /\ SockHasRead(s)
         /\ IsWriting(s) <=> heap[s] = "live" /\ accept.session # s /\ SockWriting(s)
<1>1. IsAccepting(s) <=> heap[s] = "live" /\ accept.session = s /\ SockFresh(s)
  BY DEF IsAccepting, SockFresh
<1>2. \A n : Abstract!Stream(n) = Upto(n) /\ (LastReceived(s, n) <=> LastRead(s, n))
  BY DEF Abstract!Stream, Upto, LastReceived, LastRead
<1>3. IsReading(s) <=> heap[s] = "live" /\ accept.session # s /\ SockReading(s)
  BY <1>2 DEF IsReading, SockReading
<1>4. HasRead(s) <=> heap[s] = "live" /\ accept.session # s /\ SockHasRead(s)
  BY <1>2 DEF HasRead, SockHasRead
<1>5. IsWriting(s) <=> heap[s] = "live" /\ accept.session # s /\ SockWriting(s)
  BY <1>2 DEF IsWriting, SockWriting
<1>6. QED
  BY <1>1, <1>3, <1>4, <1>5

(* The same of the next state. *)
LEMMA NextPhases ==
  ASSUME NEW s
  PROVE  /\ heap'[s] = "live" /\ accept'.session = s /\ SockFresh(s)' => Phase(s)'
         /\ heap'[s] = "live" /\ accept'.session # s /\ Served(s)' => Phase(s)'
<1>1. heap'[s] = "live" /\ accept'.session = s /\ SockFresh(s)' => IsAccepting(s)'
  BY DEF IsAccepting, SockFresh
<1>2. \A n : Abstract!Stream(n) = Upto(n)
  BY DEF Abstract!Stream, Upto
<1>3. \A n : LastRead(s, n)' => LastReceived(s, n)'
  BY DEF LastReceived, LastRead
<1>4. heap'[s] = "live" /\ accept'.session # s /\ SockReading(s)' => IsReading(s)'
  BY <1>2 DEF IsReading, SockReading
<1>5. heap'[s] = "live" /\ accept'.session # s /\ SockHasRead(s)' => HasRead(s)'
  BY <1>2, <1>3 DEF HasRead, SockHasRead
<1>6. heap'[s] = "live" /\ accept'.session # s /\ SockWriting(s)' => IsWriting(s)'
  BY <1>2, <1>3 DEF IsWriting, SockWriting
<1>7. QED
  BY <1>1, <1>4, <1>5, <1>6 DEF Served, Phase

(* A step that leaves everything about a session alone leaves its phase. *)
LEMMA PhaseFrame ==
  ASSUME NEW s \in Session, Phase(s), SameSocket(s), heap'[s] = heap[s],
         (accept'.session = s) <=> (accept.session = s)
  PROVE  Phase(s)'
BY DEF Phase, SameSocket, IsFree, IsAccepting, IsReading, HasRead, IsWriting, LastReceived

(* A session with an operation outstanding is live, and in the phase the   *)
(* state of the operation says.                                            *)
LEMMA PhaseOf ==
  ASSUME HalfDuplexInv, NEW s \in Session
  PROVE  /\ SockTypeOK /\ Phase(s)
         /\ read[s].st # "idle" \/ write[s].st # "idle" =>
              heap[s] = "live" /\ accept.session # s
         /\ read[s].st \in {"pending", "error"} => SockReading(s)
         /\ read[s].st = "ok" => SockHasRead(s)
         /\ write[s].st # "idle" => SockWriting(s)
<1>1. SockTypeOK /\ Phase(s)
  BY DEF HalfDuplexInv, TypeOK, Phase
<1>2. QED
  BY <1>1, Phases DEF Phase, IsFree, SockFresh, SockReading, SockHasRead, SockWriting

(* What is left to show of a step that concerns the session s only. *)
LEMMA OneSession ==
  ASSUME HalfDuplexInv, NEW s \in Session, SockTypeOK', Phase(s)', OnlyTouches(s),
         heap' \in [Session -> {"free", "live"}], accept' = accept,
         \A t \in Session \ {s} : heap'[t] = heap[t]
  PROVE  HalfDuplexInv'
<1>1. ASSUME NEW t \in Session, t # s PROVE Phase(t)'
  BY <1>1, PhaseOf, PhaseFrame DEF OnlyTouches
<1>2. TypeOK'
  BY DEF HalfDuplexInv, TypeOK
<1>3. QED
  BY <1>1, <1>2 DEF HalfDuplexInv, Phase

(* The server starts in the first phase: one session, being accepted. *)
LEMMA InitInv == Init => HalfDuplexInv
<1> SUFFICES ASSUME Init PROVE HalfDuplexInv
  OBVIOUS
<1>1. PICK s0 \in Session :
        /\ heap = [t \in Session |-> IF t = s0 THEN "live" ELSE "free"]
        /\ accept = Accepting(s0)
  BY DEF Init
<1>2. SockTypeOK /\ \A s \in Session : SockFresh(s)
  BY InitTypes DEF Init
<1>3. TypeOK
  BY <1>1, <1>2 DEF TypeOK, Accepting
<1>4. ASSUME NEW s \in Session
      PROVE  IsFree(s) \/ IsAccepting(s)
  BY <1>1, <1>2 DEF SockFresh, Accepting, IsFree, IsAccepting
<1>5. QED
  BY <1>3, <1>4 DEF HalfDuplexInv
-----------------------------------------------------------------------------
(* The environment's steps. *)
LEMMA AcceptCompletesInv ==
  ASSUME HalfDuplexInv, AcceptCompletes
  PROVE  HalfDuplexInv' /\ UNCHANGED Abstract!echoVars
<1>1. accept' \in [st : {"pending", "ok", "error"}, session : Session]
      /\ accept'.session = accept.session
  BY DEF HalfDuplexInv, TypeOK, AcceptCompletes
<1>2. TypeOK'
  BY <1>1 DEF HalfDuplexInv, TypeOK, SockTypeOK, sockVars, AcceptCompletes
<1>3. ASSUME NEW t \in Session PROVE Phase(t)'
  BY <1>1, PhaseOf, PhaseFrame DEF AcceptCompletes, sockVars, SameSocket
<1>4. QED
  BY <1>2, <1>3 DEF HalfDuplexInv, Phase, AcceptCompletes, sockVars, Abstract!echoVars

LEMMA NetworkInv ==
  ASSUME HalfDuplexInv, NEW s \in Session,
         ReadSome(s) \/ ReadFails(s) \/ WriteSome(s, data[s]) \/ WriteFails(s),
         UNCHANGED <<heap, accept>>
  PROVE  HalfDuplexInv' /\ [Abstract!Next]_(Abstract!echoVars)
<1>1. SockTypeOK /\ heap[s] = "live" /\ accept.session # s
  BY PhaseOf DEF ReadSome, ReadFails, WriteSome, WriteFails
<1>2. /\ SockTypeOK' /\ OnlyTouches(s) /\ Served(s)'
      /\ [Abstract!Next]_(Abstract!echoVars)
  <2>1. CASE ReadSome(s)
    <3>1. SockReading(s)
      BY <2>1, PhaseOf DEF ReadSome
    <3>2. /\ SockTypeOK' /\ OnlyTouches(s)
          /\ SockHasRead(s)'
          /\ received'[s] \in Nat /\ received'[s] > received[s]
          /\ received' = [received EXCEPT ![s] = received'[s]]
          /\ UNCHANGED echoed
      BY <1>1, <2>1, <3>1, ReadSomeStep
    <3>3. Abstract!Receive(s)
      BY <3>2 DEF Abstract!Receive
    <3>4. QED
      BY <3>2, <3>3 DEF Served, Abstract!Next
  <2>2. CASE ReadFails(s)
    <3>1. SockReading(s)
      BY <2>2, PhaseOf DEF ReadFails
    <3>2. /\ SockTypeOK' /\ OnlyTouches(s) /\ SockReading(s)'
          /\ UNCHANGED <<received, echoed>>
      BY <1>1, <2>2, <3>1, ReadFailsStep
    <3>3. QED
      BY <3>2 DEF Served, Abstract!echoVars
  <2>3. CASE WriteSome(s, data[s])
    <3>1. SockWriting(s)
      BY <2>3, PhaseOf DEF WriteSome
    <3>2. /\ SockTypeOK' /\ OnlyTouches(s) /\ SockWriting(s)'
          /\ \E m \in (Len(echoed[s]) + 1)..received[s] :
               echoed' = [echoed EXCEPT ![s] = Upto(m)]
          /\ UNCHANGED received
      BY <1>1, <2>3, <3>1, WriteSomeStep
    <3>3. Abstract!Echo(s)
      BY <3>2 DEF Abstract!Echo, Abstract!Stream, Upto
    <3>4. QED
      BY <3>2, <3>3 DEF Served, Abstract!Next
  <2>4. CASE WriteFails(s)
    <3>1. SockWriting(s)
      BY <2>4, PhaseOf DEF WriteFails
    <3>2. /\ SockTypeOK' /\ OnlyTouches(s) /\ SockWriting(s)'
          /\ UNCHANGED <<received, echoed>>
      BY <1>1, <2>4, <3>1, WriteFailsStep
    <3>3. QED
      BY <3>2 DEF Served, Abstract!echoVars
  <2>5. QED
    BY <2>1, <2>2, <2>3, <2>4
<1>3. heap' = heap /\ accept' = accept /\ heap \in [Session -> {"free", "live"}]
  BY DEF HalfDuplexInv, TypeOK
<1>4. Phase(s)'
  BY <1>1, <1>2, <1>3, NextPhases
<1>5. HalfDuplexInv'
  BY <1>2, <1>3, <1>4, OneSession
<1>6. QED
  BY <1>2, <1>5
-----------------------------------------------------------------------------
(* The handlers of a session that go on: HandleRead and HandleWrite. *)
LEMMA GoesOnInv ==
  ASSUME HalfDuplexInv, NEW s \in Session, HandleRead(s) \/ HandleWrite(s)
  PROVE  HalfDuplexInv' /\ UNCHANGED Abstract!echoVars
<1>1. SockTypeOK /\ heap[s] = "live" /\ accept.session # s
  BY PhaseOf DEF HandleRead, HandleWrite
<1>2. UNCHANGED <<heap, accept, received, echoed>>
  BY DEF HandleRead, HandleWrite
<1>3. SockTypeOK' /\ OnlyTouches(s) /\ Served(s)'
  <2>1. CASE HandleRead(s)
    <3>1. SockHasRead(s)
      BY <2>1, PhaseOf DEF HandleRead
    <3>2. QED
      BY <1>1, <2>1, <3>1, EchoStep DEF HandleRead, EchoLen, Served
  <2>2. CASE HandleWrite(s)
    <3>1. SockWriting(s)
      BY <2>2, PhaseOf DEF HandleWrite
    <3>2. QED
      BY <1>1, <2>2, <3>1, ReadAgainStep DEF HandleWrite, Served
  <2>3. QED
    BY <2>1, <2>2
<1>4. heap' = heap /\ accept' = accept /\ heap \in [Session -> {"free", "live"}]
  BY <1>2 DEF HalfDuplexInv, TypeOK
<1>5. Phase(s)'
  BY <1>1, <1>3, <1>4, NextPhases
<1>6. HalfDuplexInv'
  BY <1>3, <1>4, <1>5, OneSession
<1>7. QED
  BY <1>2, <1>6 DEF Abstract!echoVars

(* The handlers that delete the session: nothing is outstanding on it. *)
LEMMA DeleteInv ==
  ASSUME HalfDuplexInv, NEW s \in Session, HandleReadError(s) \/ HandleWriteError(s)
  PROVE  HalfDuplexInv' /\ UNCHANGED Abstract!echoVars
<1>1. SockTypeOK /\ accept.session # s
  BY PhaseOf DEF HandleReadError, HandleWriteError
<1>2. /\ UNCHANGED <<accept, data, received, echoed>>
      /\ heap' = [heap EXCEPT ![s] = "free"]
  BY DEF HandleReadError, HandleWriteError
<1>3. SockTypeOK' /\ OnlyTouches(s) /\ read'[s].st = "idle" /\ write'[s].st = "idle"
  <2>1. /\ data[s] \in [1..BufLen -> Byte] /\ read[s] \in ReadOp /\ write[s] \in WriteOp
        /\ received[s] \in 0..MaxBytes /\ echoed[s] \in Seq(Byte)
    BY <1>1, SockTypes
  <2>2. CASE HandleReadError(s)
    <3>1. read' = [read EXCEPT ![s] = NoRead] /\ write' = [write EXCEPT ![s] = write[s]]
      <4>1. write[s].st = "idle"
        BY <2>2, PhaseOf DEF HandleReadError, SockReading
      <4>2. Aborted(write[s]) = write[s]
        BY <2>1, <4>1, AbortedIdle
      <4>3. QED
        BY <2>2, <4>2 DEF HandleReadError
    <3>2. write[s].st = "idle"
      BY <2>2, PhaseOf DEF HandleReadError, SockReading
    <3>3. SockTypeOK' /\ OnlyTouches(s)
      BY <1>1, <1>2, <2>1, <3>1, OpTypes, SockTypesKept
    <3>4. QED
      BY <1>1, <3>1, <3>2, <3>3 DEF SockTypeOK, NoRead
  <2>3. CASE HandleWriteError(s)
    <3>1. write' = [write EXCEPT ![s] = NoWrite] /\ read' = [read EXCEPT ![s] = read[s]]
      <4>1. read[s].st = "idle"
        BY <2>3, PhaseOf DEF HandleWriteError, SockWriting
      <4>2. Aborted(read[s]) = read[s]
        BY <2>1, <4>1, AbortedIdle
      <4>3. QED
        BY <2>3, <4>2 DEF HandleWriteError
    <3>2. read[s].st = "idle"
      BY <2>3, PhaseOf DEF HandleWriteError, SockWriting
    <3>3. SockTypeOK' /\ OnlyTouches(s)
      BY <1>1, <1>2, <2>1, <3>1, OpTypes, SockTypesKept
    <3>4. QED
      BY <1>1, <3>1, <3>2, <3>3 DEF SockTypeOK, NoWrite
  <2>4. QED
    BY <2>2, <2>3
<1>4. /\ heap' \in [Session -> {"free", "live"}] /\ heap'[s] = "free"
      /\ \A t \in Session \ {s} : heap'[t] = heap[t]
  BY <1>2 DEF HalfDuplexInv, TypeOK
<1>5. Phase(s)'
  BY <1>1, <1>2, <1>3, <1>4 DEF Phase, IsFree
<1>6. HalfDuplexInv'
  BY <1>2, <1>3, <1>4, <1>5, OneSession
<1>7. QED
  BY <1>2, <1>6 DEF Abstract!echoVars
-----------------------------------------------------------------------------
(* What StartAccept does to the session it makes and to the others: those  *)
(* must be in a phase after what the rest of the handler made of them.     *)
LEMMA StartAcceptInv ==
  ASSUME HalfDuplexInv, NEW t \in Session,
         NEW heapNow \in [Session -> {"free", "live"}],
         NEW readNow \in [Session -> ReadOp],
         StartAccept(t, heapNow, readNow)
  PROVE  /\ TypeOK'
         /\ Phase(t)'
         /\ \A u \in Session \ {t} :
              /\ heap'[u] = heapNow[u]
              /\ read'[u] = readNow[u]
              /\ data'[u] = data[u]
              /\ write'[u] = write[u]
              /\ received'[u] = received[u]
              /\ echoed'[u] = echoed[u]
              /\ accept'.session # u
<1>1. /\ SockTypeOK'
      /\ SockFresh(t)'
      /\ \A u \in Session \ {t} :
           /\ read'[u] = readNow[u]
           /\ data'[u] = data[u] /\ write'[u] = write[u]
           /\ received'[u] = received[u] /\ echoed'[u] = echoed[u]
  BY NewSessionStep DEF StartAccept, HalfDuplexInv, TypeOK
<1>2. /\ heap' = [heapNow EXCEPT ![t] = "live"]
      /\ accept' = Accepting(t) /\ accept'.session = t
  BY DEF StartAccept, Accepting
<1>3. TypeOK'
  BY <1>1, <1>2 DEF TypeOK, Accepting
<1>4. Phase(t)'
  BY <1>1, <1>2, NextPhases
<1>5. QED
  BY <1>1, <1>2, <1>3, <1>4

LEMMA HandleAcceptInv ==
  ASSUME HalfDuplexInv, HandleAccept
  PROVE  HalfDuplexInv' /\ Abstract!Next
<1>1. PICK s \in Session : s = accept.session
  BY DEF HalfDuplexInv, TypeOK
<1>2. PICK readNow : readNow = [read EXCEPT ![s] = Reading]
  OBVIOUS
<1>3. PICK t \in Free : StartAccept(t, heap, readNow)
  BY <1>1, <1>2 DEF HandleAccept
<1>4. /\ readNow \in [Session -> ReadOp]
      /\ readNow[s] = Reading
      /\ \A u \in Session \ {s} : readNow[u] = read[u]
  <2>1. read \in [Session -> ReadOp]
    BY DEF HalfDuplexInv, TypeOK, SockTypeOK, ReadOp
  <2>2. QED
    BY <1>2, <2>1, OpTypes
<1>5. t \in Session /\ heap[t] = "free" /\ heap \in [Session -> {"free", "live"}]
  BY DEF Free, HalfDuplexInv, TypeOK
<1>6. heap[s] = "live" /\ SockFresh(s)
  BY <1>1, PhaseOf, Phases DEF Phase, IsFree
<1>7. /\ TypeOK'
      /\ Phase(t)'
      /\ \A u \in Session \ {t} :
           /\ heap'[u] = heap[u]
           /\ read'[u] = readNow[u]
           /\ data'[u] = data[u]
           /\ write'[u] = write[u]
           /\ received'[u] = received[u]
           /\ echoed'[u] = echoed[u]
           /\ accept'.session # u
  BY <1>3, <1>4, <1>5, StartAcceptInv
<1>8. Phase(s)'
  <2>1. s # t
    BY <1>5, <1>6
  <2>2. SockReading(s)'
    BY <1>4, <1>6, <1>7, <2>1, StartStep
  <2>3. QED
    BY <1>6, <1>7, <2>1, <2>2, NextPhases DEF Served
<1>9. ASSUME NEW u \in Session, u # s, u # t
      PROVE  Phase(u)'
  <2>1. SameSocket(u)
    BY <1>4, <1>7, <1>9 DEF SameSocket
  <2>2. QED
    BY <1>1, <1>7, <1>9, <2>1, PhaseOf, PhaseFrame
<1>10. HalfDuplexInv'
  BY <1>7, <1>8, <1>9 DEF HalfDuplexInv, Phase
<1>11. QED
  BY <1>3, <1>5, <1>10 DEF StartAccept, Abstract!Connect, Abstract!Next

LEMMA HandleAcceptErrorInv ==
  ASSUME HalfDuplexInv, HandleAcceptError
  PROVE  HalfDuplexInv' /\ Abstract!Next
<1>1. PICK s \in Session : s = accept.session
  BY DEF HalfDuplexInv, TypeOK
<1>2. PICK heapNow : heapNow = [heap EXCEPT ![s] = "free"]
  OBVIOUS
<1>3. PICK t \in Free \union {s} : StartAccept(t, heapNow, read)
  BY <1>1, <1>2 DEF HandleAcceptError
<1>4. /\ heapNow \in [Session -> {"free", "live"}]
      /\ heapNow[s] = "free"
      /\ \A u \in Session \ {s} : heapNow[u] = heap[u]
      /\ read \in [Session -> ReadOp]
      /\ t \in Session
  BY <1>2 DEF HalfDuplexInv, TypeOK, SockTypeOK, ReadOp, Free
<1>5. SockFresh(s)
  BY <1>1, PhaseOf, Phases DEF Phase, IsFree
<1>6. /\ TypeOK'
      /\ Phase(t)'
      /\ \A u \in Session \ {t} :
           /\ heap'[u] = heapNow[u]
           /\ read'[u] = read[u]
           /\ data'[u] = data[u]
           /\ write'[u] = write[u]
           /\ received'[u] = received[u]
           /\ echoed'[u] = echoed[u]
           /\ accept'.session # u
  BY <1>3, <1>4, StartAcceptInv
<1>7. ASSUME s # t
      PROVE  Phase(s)'
  BY <1>4, <1>5, <1>6, <1>7 DEF Phase, IsFree, SockFresh
<1>8. ASSUME NEW u \in Session, u # s, u # t
      PROVE  Phase(u)'
  <2>1. SameSocket(u)
    BY <1>6, <1>8 DEF SameSocket
  <2>2. QED
    BY <1>1, <1>4, <1>6, <1>8, <2>1, PhaseOf, PhaseFrame
<1>9. HalfDuplexInv'
  BY <1>6, <1>7, <1>8 DEF HalfDuplexInv, Phase
<1>10. QED
  BY <1>3, <1>4, <1>9 DEF StartAccept, Abstract!Connect, Abstract!Next
-----------------------------------------------------------------------------
(* Every step keeps the invariant, and is a step of the echo service or a  *)
(* stutter.                                                                *)
LEMMA NextInv ==
  ASSUME HalfDuplexInv, [Next]_vars
  PROVE  HalfDuplexInv' /\ [Abstract!Next]_(Abstract!echoVars)
<1>1. CASE Environment
  BY <1>1, AcceptCompletesInv, NetworkInv DEF Environment
<1>2. CASE HandleAccept \/ HandleAcceptError
  BY <1>2, HandleAcceptInv, HandleAcceptErrorInv
<1>3. ASSUME NEW s \in Session, SessionHandler(s)
      PROVE  HalfDuplexInv' /\ UNCHANGED Abstract!echoVars
  BY <1>3, GoesOnInv, DeleteInv DEF SessionHandler
<1>4. CASE UNCHANGED vars
  <2>1. TypeOK'
    BY <1>4 DEF HalfDuplexInv, TypeOK, SockTypeOK, vars, sockVars
  <2>2. ASSUME NEW t \in Session PROVE Phase(t)'
    BY <1>4, PhaseOf, PhaseFrame DEF vars, sockVars, SameSocket
  <2>3. QED
    BY <1>4, <2>1, <2>2 DEF HalfDuplexInv, Phase, vars, sockVars, Abstract!echoVars
<1>5. QED
  BY <1>1, <1>2, <1>3, <1>4 DEF Next

(* The protocol of a session object, for every Session, BufLen and         *)
(* MaxBytes: one phase at a time, and data_ holds what is not yet sent.    *)
THEOREM Invariance == Spec => []HalfDuplexInv
<1>1. HalfDuplexInv /\ [Next]_vars => HalfDuplexInv'
  BY NextInv
<1>2. QED
  BY <1>1, InitInv, PTL DEF Spec

(* Every variable always has its type. *)
THEOREM TypeCorrect == Spec => []TypeOK
<1>1. HalfDuplexInv => TypeOK
  BY DEF HalfDuplexInv
<1>2. QED
  BY <1>1, Invariance, PTL

(* Memory safety of `delete this`: no handler outlives its session.        *)
THEOREM MemorySafety == Spec => []NoDanglingHandler
<1>1. HalfDuplexInv => NoDanglingHandler
  BY DEF HalfDuplexInv, NoDanglingHandler, Handlers, IsFree, IsAccepting, IsReading,
         HasRead, IsWriting
<1>2. QED
  BY <1>1, Invariance, PTL

(* No session outlives its handlers, nor is deleted by two of them.        *)
THEOREM OneOwner == Spec => []OneHandlerPerSession
<1>1. HalfDuplexInv => OneHandlerPerSession
  <2> SUFFICES ASSUME HalfDuplexInv, NEW s \in Session, heap[s] = "live"
               PROVE  \E op \in Handlers(s) : Handlers(s) = {op}
    BY DEF OneHandlerPerSession
  <2>1. CASE IsAccepting(s)
    <3>1. Handlers(s) = {"accept"}
      BY <2>1 DEF Handlers, IsAccepting
    <3>2. QED
      BY <3>1
  <2>2. CASE IsReading(s) \/ HasRead(s)
    <3>1. Handlers(s) = {"read"}
      BY <2>2 DEF Handlers, IsReading, HasRead
    <3>2. QED
      BY <3>1
  <2>3. CASE IsWriting(s)
    <3>1. Handlers(s) = {"write"}
      BY <2>3 DEF Handlers, IsWriting
    <3>2. QED
      BY <3>1
  <2>4. QED
    BY <2>1, <2>2, <2>3 DEF HalfDuplexInv, IsFree
<1>2. QED
  BY <1>1, Invariance, PTL

(* What HandleRead prints ends where the message ends: the memset in       *)
(* HandleWrite leaves nothing of an earlier message behind it.             *)
THEOREM NoStaleTailTheorem == Spec => []NoStaleTail
<1>1. HalfDuplexInv => NoStaleTail
  <2> SUFFICES ASSUME HalfDuplexInv, NEW s \in Session, read[s].st = "ok",
                      NEW i \in (read[s].len + 1)..BufLen
               PROVE  data[s][i] = 0
    BY DEF NoStaleTail
  <2>1. SockHasRead(s)
    BY PhaseOf
  <2>2. read[s].len \in Nat
    BY PhaseOf, SockTypes DEF ReadOp
  <2>3. i \in 1..BufLen /\ ~(i <= read[s].len)
    BY <2>2, BufLenAssumption
  <2>4. QED
    BY <2>1, <2>3 DEF SockHasRead, LastRead
<1>2. QED
  BY <1>1, Invariance, PTL

(* The server implements the abstract echo service. *)
THEOREM Refinement == Spec => IsEchoService
<1>1. Init => Abstract!Init
  BY DEF Init, SockInit, Abstract!Init
<1>2. HalfDuplexInv /\ [Next]_vars => [Abstract!Next]_(Abstract!echoVars)
  BY NextInv
<1>3. QED
  BY <1>1, <1>2, Invariance, PTL DEF Spec, IsEchoService, Abstract!Spec
=============================================================================
