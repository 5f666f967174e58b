----------------------- MODULE FullDuplexServerProofs ----------------------
(* Proofs about FullDuplexServer, for every number of sessions, every      *)
(* buffer size and whatever max_len_ holds.                                *)
EXTENDS FullDuplexServer, EchoSocketsProofs

(* The messages in q are sequences of bytes. *)
Queue == Seq(Seq(Byte))

(* What HandleRead is to find in data_ when a read has completed. *)
NewBytes(s) ==
  /\ read[s].len \in 1..received[s]
  /\ \A i \in 1..read[s].len : data[s][i] = (received[s] - read[s].len) + i

(* What holds of a session that is being accepted, of one in sessions_, of *)
(* one whose read has completed, and of one that sends: the array the      *)
(* async_write was given is as long as the write, or is a node and the     *)
(* queue has one.                                                          *)
SessionInv(s) ==
  /\ accept.session = s =>
       s \notin sessions /\ queue[s] = <<>> /\ read[s].st = "idle" /\ write[s].st = "idle"
  /\ s \in sessions =>
       /\ queue[s] # <<>> <=> write[s].st # "idle"
       /\ read[s].st # "idle"
       /\ Runs(queue[s], Handled(s))
  /\ read[s].st = "ok" => NewBytes(s)
  /\ write[s].st = "pending" => s \in sessions /\ (wbuf[s] = "data" => write[s].len <= BufLen)

ServerInv ==
  /\ TypeOK
  /\ \A s \in Session : SessionInv(s)

LEMMA ServerInvTypes ==
  ASSUME ServerInv, NEW s \in Session
  PROVE  /\ SockTypeOK
         /\ SessionInv(s)
         /\ accept.session \in Session
         /\ sessions \subseteq Session
         /\ queue[s] \in Queue
BY DEF ServerInv, TypeOK, ServerTypeOK, Queue

(* A session whose socket, queue and entry in sessions_ stay as they are   *)
(* keeps its part of the invariant.                                        *)
LEMMA SessionFrame ==
  ASSUME NEW s, SessionInv(s), SameSocket(s),
         queue'[s] = queue[s], wbuf'[s] = wbuf[s],
         s \in sessions' <=> s \in sessions,
         accept'.session = s => accept.session = s
  PROVE  SessionInv(s)'
<1>1. Handled(s)' = Handled(s)
  BY DEF Handled, SameSocket
<1>2. Runs(queue[s], Handled(s)) => Runs(queue[s], Handled(s))'
  BY <1>1
<1>3. NewBytes(s)' <=> NewBytes(s)
  BY DEF NewBytes, SameSocket
<1>4. QED
  BY <1>2, <1>3 DEF SessionInv, SameSocket

(* What is left to show of a step that concerns the session s only. *)
LEMMA OneSession ==
  ASSUME ServerInv, NEW s \in Session, TypeOK', SessionInv(s)', OnlyTouches(s),
         accept'.session = accept.session,
         \A t \in Session \ {s} :
            queue'[t] = queue[t] /\ wbuf'[t] = wbuf[t] /\ (t \in sessions' <=> t \in sessions)
  PROVE  ServerInv'
<1>1. ASSUME NEW t \in Session, t # s PROVE SessionInv(t)'
  BY <1>1, SessionFrame DEF ServerInv, OnlyTouches
<1>2. QED
  BY <1>1 DEF ServerInv
-----------------------------------------------------------------------------
(* The next n bytes are a run; queueing them, and popping a message, leaves*)
(* the newest bytes in the queue.                                          *)
LEMMA NextRun ==
  ASSUME NEW a \in Nat, NEW n \in Nat \ {0}, NEW m \in Seq(Byte),
         Len(m) = n, \A i \in 1..n : m[i] = a + i
  PROVE  m[1] = a + 1 /\ Run(m, (a + n) + 1)
<1>1. m # <<>> /\ DOMAIN m = 1..n /\ m[1] = a + 1
  BY EmptySeq, LenProperties
<1>2. a + 1 >= 1 /\ (a + 1) + n = (a + n) + 1
  OBVIOUS
<1>3. ASSUME NEW i \in 1..n PROVE m[i] = (a + 1) + (i - 1)
  <2>1. PICK j \in Nat : j = i /\ j >= 1
    OBVIOUS
  <2>2. a + j = (a + 1) + (j - 1)
    BY <2>1
  <2>3. QED
    BY <2>1, <2>2
<1>4. QED
  BY <1>1, <1>2, <1>3 DEF Run

LEMMA RunsAppend ==
  ASSUME NEW q \in Queue, NEW a \in Nat, NEW b \in Nat, NEW m \in Seq(Byte),
         m[1] = a + 1, Run(m, b + 1), Runs(q, a)
  PROVE  Append(q, m) \in Queue /\ Append(q, m) # <<>> /\ Runs(Append(q, m), b)
<1>1. PICK n \in Nat : n = Len(q) /\ DOMAIN q = 1..n
  BY LenProperties DEF Queue
<1>2. PICK r \in Queue :
        /\ r = Append(q, m) /\ r # <<>>
        /\ Len(r) = n + 1 /\ DOMAIN r = 1..(n + 1)
        /\ \A k \in 1..n : r[k] = q[k]
        /\ r[n + 1] = m
  <2>1. /\ Append(q, m) \in Seq(Seq(Byte)) /\ Append(q, m) # <<>>
        /\ Len(Append(q, m)) = Len(q) + 1
        /\ \A k \in 1..Len(q) : Append(q, m)[k] = q[k]
        /\ Append(q, m)[Len(q) + 1] = m
    BY AppendProperties DEF Queue
  <2>2. DOMAIN Append(q, m) = 1..Len(Append(q, m))
    BY <2>1, LenProperties
  <2>3. QED
    BY <1>1, <2>1, <2>2 DEF Queue
<1>3. ASSUME NEW k \in 1..(n + 1)
      PROVE  Run(r[k], IF k = n + 1 THEN b + 1 ELSE r[k + 1][1])
  <2>1. CASE k = n + 1
    BY <1>2, <2>1
  <2>2. CASE k = n /\ k # n + 1
    <3>1. Run(q[n], a + 1)
      BY <1>1, <2>2 DEF Runs
    <3>2. r[k] = q[n] /\ r[k + 1][1] = a + 1
      BY <1>2, <2>2
    <3>3. QED
      BY <2>2, <3>1, <3>2
  <2>3. CASE k # n /\ k # n + 1
    <3>1. k \in 1..n /\ k + 1 \in 1..n
      BY <2>3
    <3>2. Run(q[k], q[k + 1][1])
      BY <1>1, <2>3, <3>1 DEF Runs
    <3>3. r[k] = q[k] /\ r[k + 1] = q[k + 1]
      BY <1>2, <3>1
    <3>4. QED
      BY <2>3, <3>2, <3>3
  <2>4. QED
    BY <2>1, <2>2, <2>3
<1>4. Runs(r, b)
  BY <1>2, <1>3 DEF Runs
<1>5. QED
  BY <1>2, <1>4

LEMMA RunsTail ==
  ASSUME NEW q \in Queue, q # <<>>, NEW a \in Nat, Runs(q, a)
  PROVE  Tail(q) \in Queue /\ Runs(Tail(q), a)
<1>1. PICK n \in Nat : n = Len(q) /\ DOMAIN q = 1..n
  BY LenProperties DEF Queue
<1>2. PICK r \in Queue :
        /\ r = Tail(q)
        /\ Len(r) = n - 1 /\ DOMAIN r = 1..(n - 1)
        /\ \A k \in 1..(n - 1) : r[k] = q[k + 1]
  <2>1. /\ Tail(q) \in Seq(Seq(Byte))
        /\ Len(Tail(q)) = Len(q) - 1
        /\ \A k \in 1..Len(Tail(q)) : Tail(q)[k] = q[k + 1]
    BY HeadTailProperties DEF Queue
  <2>2. DOMAIN Tail(q) = 1..Len(Tail(q))
    BY <2>1, LenProperties
  <2>3. QED
    BY <1>1, <2>1, <2>2 DEF Queue
<1>3. ASSUME NEW k \in 1..(n - 1)
      PROVE  Run(r[k], IF k = n - 1 THEN a + 1 ELSE r[k + 1][1])
  <2>1. k + 1 \in 1..n /\ (k = n - 1 <=> k + 1 = n) /\ (k # n - 1 => k + 1 \in 1..(n - 1))
    OBVIOUS
  <2>2. Run(q[k + 1], IF k + 1 = n THEN a + 1 ELSE q[(k + 1) + 1][1])
    BY <1>1, <2>1 DEF Runs
  <2>3. r[k] = q[k + 1]
    BY <1>2
  <2>4. CASE k = n - 1
    BY <2>1, <2>2, <2>3, <2>4
  <2>5. CASE k # n - 1
    <3>1. r[k + 1] = q[(k + 1) + 1]
      BY <1>2, <2>1, <2>5
    <3>2. QED
      BY <2>1, <2>2, <2>3, <2>5, <3>1
  <2>6. QED
    BY <2>4, <2>5
<1>4. Runs(r, a)
  BY <1>2, <1>3 DEF Runs
<1>5. QED
  BY <1>2, <1>4

LEMMA RunsEmpty == <<>> \in Queue /\ \A a : Runs(<<>>, a)
<1>1. <<>> \in Queue /\ Len(<<>>) = 0
  BY EmptySeq DEF Queue
<1>2. DOMAIN <<>> = {}
  BY <1>1, LenProperties DEF Queue
<1>3. QED
  BY <1>1, <1>2 DEF Runs

(* The copy a MsgNode makes of what was read, and a part of it, are bytes. *)
LEMMA CopyType ==
  ASSUME NEW d \in [1..BufLen -> Byte], NEW len \in 0..BufLen
  PROVE  /\ SubSeq(d, 1, len) \in Seq(Byte)
         /\ Len(SubSeq(d, 1, len)) = len
         /\ \A i \in 1..len : SubSeq(d, 1, len)[i] = d[i]
<1>1. len \in Nat /\ \A i \in 1..len : i \in 1..BufLen /\ d[i] \in Byte
  BY BufLenAssumption
<1>2. /\ SubSeq(d, 1, len) \in Seq(Byte)
      /\ Len(SubSeq(d, 1, len)) = IF 1 <= len THEN len - 1 + 1 ELSE 0
      /\ \A i \in 1..(len - 1 + 1) : SubSeq(d, 1, len)[i] = d[1 + i - 1]
  BY <1>1, SubSeqProperties
<1>3. PICK n \in Nat : n = len
  BY <1>1
<1>4. (IF 1 <= n THEN n - 1 + 1 ELSE 0) = n /\ n - 1 + 1 = n
  OBVIOUS
<1>5. ASSUME NEW i \in 1..n PROVE 1 + i - 1 = i
  OBVIOUS
<1>6. QED
  BY <1>2, <1>3, <1>4, <1>5
-----------------------------------------------------------------------------
LEMMA InitInv == Init => ServerInv
<1> SUFFICES ASSUME Init PROVE ServerInv
  OBVIOUS
<1>1. SockTypeOK /\ \A s \in Session : SockFresh(s)
  BY InitTypes DEF Init, ServerInit
<1>2. TypeOK
  <2>1. <<>> \in Seq(Seq(Byte))
    BY EmptySeq
  <2>2. QED
    BY <1>1, <2>1 DEF Init, ServerInit, TypeOK, ServerTypeOK, Accepting
<1>3. ASSUME NEW s \in Session PROVE SessionInv(s)
  BY <1>1 DEF SessionInv, SockFresh, Init, ServerInit
<1>4. QED
  BY <1>2, <1>3 DEF ServerInv

(* A step that leaves the sockets and the sessions alone. *)
LEMMA NothingTouched ==
  ASSUME ServerInv, UNCHANGED <<sockVars, sessions, queue, wbuf>>,
         accept'.session = accept.session, TypeOK'
  PROVE  ServerInv'
<1>1. ASSUME NEW t \in Session PROVE SessionInv(t)'
  <2>1. SameSocket(t)
    BY DEF SameSocket, sockVars
  <2>2. QED
    BY <2>1, SessionFrame DEF ServerInv
<1>2. QED
  BY <1>1 DEF ServerInv

LEMMA AcceptCompletesInv ==
  ASSUME ServerInv, AcceptCompletes(Free), UNCHANGED <<queue, wbuf>>
  PROVE  ServerInv'
<1>1. PICK st \in {"ok", "error"} : accept' = [accept EXCEPT !.st = st]
  BY DEF AcceptCompletes
<1>2. /\ accept' \in [st : {"pending", "ok", "error"}, session : Session]
      /\ accept'.session = accept.session
  BY <1>1 DEF ServerInv, TypeOK, ServerTypeOK
<1>3. TypeOK'
  BY <1>2 DEF ServerInv, TypeOK, ServerTypeOK, SockTypeOK, AcceptCompletes, sockVars
<1>4. QED
  BY <1>2, <1>3, NothingTouched DEF AcceptCompletes

(* A session that is put in sessions_ has an empty queue, sends nothing,   *)
(* and reads.                                                              *)
LEMMA HandleAcceptInv ==
  ASSUME ServerInv, NEW t \in Free, HandleAccept(t) \/ HandleAcceptError(t),
         queue' = [queue EXCEPT ![t] = <<>>], UNCHANGED wbuf
  PROVE  ServerInv'
<1>1. t \in Session /\ t \notin sessions /\ t # accept.session
  BY DEF Free, Alive, ServerOwns
<1>2. PICK now \in [Session -> ReadOp] :
        /\ StartAccept(t, now)
        /\ \/ /\ now = [read EXCEPT ![accept.session] = Reading]
              /\ sessions' = sessions \union {accept.session}
           \/ now = read /\ sessions' = sessions
  <2>1. read \in [Session -> ReadOp]
    BY DEF ServerInv, TypeOK, ServerTypeOK, SockTypeOK, ReadOp
  <2>2. [read EXCEPT ![accept.session] = Reading] \in [Session -> ReadOp]
    BY <2>1, OpTypes
  <2>3. QED
    BY <2>1, <2>2 DEF HandleAccept, HandleAcceptError
<1>3. /\ SockTypeOK'
      /\ SockFresh(t)'
      /\ \A u \in Session \ {t} :
           /\ read'[u] = now[u]
           /\ data'[u] = data[u] /\ write'[u] = write[u]
           /\ received'[u] = received[u] /\ echoed'[u] = echoed[u]
  BY <1>1, <1>2, NewSessionStep DEF StartAccept, ServerInv, TypeOK, ServerTypeOK
<1>4. accept' = Accepting(t) /\ accept'.session = t
  BY <1>2 DEF StartAccept, Accepting
<1>5. /\ queue' \in [Session -> Queue] /\ queue'[t] = <<>>
      /\ \A u \in Session \ {t} : queue'[u] = queue[u]
  BY <1>1, RunsEmpty DEF ServerInv, TypeOK, Queue
<1>6. PICK a \in Session : a = accept.session /\ a # t
  BY <1>1, ServerInvTypes
<1>7. TypeOK'
  <2>1. sessions' \subseteq Session /\ running' = running
    BY <1>1, <1>2, ServerInvTypes DEF HandleAccept, HandleAcceptError
  <2>2. accept' \in [st : {"pending", "ok", "error"}, session : Session]
    BY <1>1, <1>4 DEF Accepting
  <2>3. QED
    BY <1>3, <1>5, <2>1, <2>2 DEF ServerInv, TypeOK, ServerTypeOK, Queue
<1>8. SessionInv(t)'
  BY <1>1, <1>2, <1>3, <1>5 DEF SessionInv, SockFresh
<1>9. ASSUME NEW u \in Session, u # t, u # a
      PROVE  SessionInv(u)'
  <2>1. now[u] = read[u] /\ (u \in sessions' <=> u \in sessions)
    BY <1>2, <1>6, <1>9
  <2>2. SameSocket(u)
    BY <1>3, <1>9, <2>1 DEF SameSocket
  <2>3. QED
    BY <1>4, <1>5, <1>9, <2>1, <2>2, SessionFrame DEF ServerInv
<1>10. SessionInv(a)'
  <2>1. /\ SessionInv(a) /\ a \notin sessions
        /\ queue[a] = <<>> /\ read[a].st = "idle" /\ write[a].st = "idle"
    BY <1>6 DEF ServerInv, SessionInv
  <2>2. CASE now = [read EXCEPT ![a] = Reading] /\ sessions' = sessions \union {a}
    <3>1. read'[a] = Reading
      BY <1>3, <1>6, <2>2 DEF ServerInv, TypeOK, ServerTypeOK, SockTypeOK
    <3>2. read'[a].st = "pending" /\ write'[a].st = "idle" /\ queue'[a] = <<>>
      BY <1>3, <1>5, <1>6, <2>1, <3>1 DEF Reading
    <3>3. Runs(queue[a], Handled(a))'
      BY <3>2, RunsEmpty
    <3>4. QED
      BY <1>4, <1>6, <2>2, <3>2, <3>3 DEF SessionInv
  <2>3. CASE now = read /\ sessions' = sessions
    <3>1. SameSocket(a)
      BY <1>3, <1>6, <2>3 DEF SameSocket
    <3>2. QED
      BY <1>4, <1>5, <1>6, <2>1, <2>3, <3>1, SessionFrame
  <2>4. QED
    BY <1>2, <1>6, <2>2, <2>3
<1>11. QED
  BY <1>6, <1>7, <1>8, <1>9, <1>10 DEF ServerInv
-----------------------------------------------------------------------------
(* A completed operation of a session that still exists is one of a        *)
(* session in sessions_.                                                   *)
LEMMA HandlerIsOfSession ==
  ASSUME ServerInv, NEW s \in Session, Alive(s),
         read[s].st # "idle" \/ write[s].st # "idle"
  PROVE  s \in sessions /\ s # accept.session
BY DEF ServerInv, SessionInv, Alive, ServerOwns

(* What is left to show of a handler of the session s: its socket and its  *)
(* queue are typed, and it is either still served or gone.                 *)
LEMMA HandlerKeeps ==
  ASSUME ServerInv, NEW s \in Session, s # accept.session,
         SockTypeOK', OnlyTouches(s), SessionInv(s)', UNCHANGED accept,
         sessions' \in {sessions, sessions \ {s}}, running' \in BOOLEAN,
         NEW q \in Queue, queue' = [queue EXCEPT ![s] = q] \/ queue' = queue,
         NEW b \in {"data", "node"}, wbuf' = [wbuf EXCEPT ![s] = b] \/ wbuf' = wbuf
  PROVE  ServerInv'
<1>1. queue' \in [Session -> Queue] /\ \A t \in Session \ {s} : queue'[t] = queue[t]
  BY DEF ServerInv, TypeOK, Queue
<1>2. /\ wbuf' \in [Session -> {"data", "node"}]
      /\ \A t \in Session \ {s} : wbuf'[t] = wbuf[t]
  BY DEF ServerInv, TypeOK
<1>3. sessions' \subseteq Session /\ \A t \in Session \ {s} : t \in sessions' <=> t \in sessions
  BY DEF ServerInv, TypeOK, ServerTypeOK
<1>4. TypeOK'
  BY <1>1, <1>2, <1>3 DEF ServerInv, TypeOK, ServerTypeOK, Queue
<1>5. QED
  BY <1>1, <1>2, <1>3, <1>4, OneSession

(* What was read goes on where the newest message of the queue ends; with  *)
(* nothing queued before, a write of as many bytes is started.             *)
LEMMA HandleReadInv ==
  ASSUME ServerInv, NEW s \in Session, HandleRead(s)
  PROVE  ServerInv'
<1>1. s \in sessions /\ s # accept.session /\ SessionInv(s) /\ SockTypeOK /\ queue[s] \in Queue
  BY HandlerIsOfSession, ServerInvTypes DEF HandleRead
<1>2. PICK len, r, a \in Nat :
        /\ len = read[s].len /\ r = received[s] /\ a = r - len
        /\ len # 0 /\ len \in 0..BufLen /\ a + len = r
  <2>1. read[s].len \in 0..BufLen /\ received[s] \in Nat /\ BufLen \in Nat
    BY <1>1, SockTypes DEF ReadOp
  <2>2. read[s].len \in 1..received[s]
    BY <1>1 DEF SessionInv, NewBytes, HandleRead
  <2>3. PICK n, m \in Nat : n = read[s].len /\ m = received[s] /\ n \in 1..m
    BY <2>1, <2>2
  <2>4. m - n \in Nat /\ (m - n) + n = m /\ n # 0
    BY <2>3
  <2>5. QED
    BY <2>1, <2>3, <2>4
<1>3. PICK copy \in Seq(Byte) :
        /\ copy = SubSeq(data[s], 1, len)
        /\ copy[1] = a + 1 /\ Run(copy, r + 1)
  <2>1. data[s] \in [1..BufLen -> Byte]
    BY <1>1, SockTypes
  <2>2. /\ SubSeq(data[s], 1, len) \in Seq(Byte)
        /\ Len(SubSeq(data[s], 1, len)) = len
        /\ \A i \in 1..len : SubSeq(data[s], 1, len)[i] = data[s][i]
    BY <1>2, <2>1, CopyType
  <2>3. \A i \in 1..len : data[s][i] = a + i
    BY <1>1, <1>2 DEF SessionInv, NewBytes, HandleRead
  <2>4. PICK m \in Seq(Byte) :
          m = SubSeq(data[s], 1, len) /\ Len(m) = len /\ \A i \in 1..len : m[i] = a + i
    BY <2>2, <2>3
  <2>5. m[1] = a + 1 /\ Run(m, (a + len) + 1)
    BY <1>2, <2>4, NextRun
  <2>6. QED
    BY <1>2, <2>4, <2>5
<1>4. PICK q \in Queue :
        q = Append(queue[s], copy) /\ q # <<>> /\ Runs(q, r)
  <2>1. Handled(s) = a
    BY <1>2 DEF Handled, HandleRead
  <2>2. Runs(queue[s], a)
    BY <1>1, <2>1 DEF SessionInv
  <2>3. QED
    BY <1>1, <1>3, <2>2, RunsAppend
<1>5. /\ data' = [data EXCEPT ![s] = Cleared]
      /\ read' = [read EXCEPT ![s] = Reading]
      /\ queue' = [queue EXCEPT ![s] = q]
      /\ UNCHANGED <<received, accept, sessions, running>>
  BY <1>2, <1>3, <1>4 DEF HandleRead, Send, serverVars
<1>6. PICK w \in WriteOp, e \in Seq(Byte), b \in {"data", "node"} :
        /\ write' = [write EXCEPT ![s] = w]
        /\ echoed' = [echoed EXCEPT ![s] = e]
        /\ wbuf' = [wbuf EXCEPT ![s] = b]
        /\ w.st # "idle"
        /\ w.st = "pending" => (b = "data" => w.len <= BufLen)
  <2>1. write[s] \in WriteOp /\ echoed[s] \in Seq(Byte) /\ wbuf[s] \in {"data", "node"}
    BY <1>1, SockTypes DEF ServerInv, TypeOK
  <2>2. CASE queue[s] # <<>>
    <3>1. /\ write' = [write EXCEPT ![s] = write[s]]
          /\ echoed' = [echoed EXCEPT ![s] = echoed[s]]
          /\ wbuf' = [wbuf EXCEPT ![s] = wbuf[s]]
      BY <2>2 DEF HandleRead, Send, ServerInv, TypeOK, ServerTypeOK, SockTypeOK
    <3>2. /\ write[s].st # "idle"
          /\ write[s].st = "pending" => (wbuf[s] = "data" => write[s].len <= BufLen)
      BY <1>1, <2>2 DEF SessionInv
    <3>3. QED
      BY <2>1, <3>1, <3>2
  <2>3. CASE queue[s] = <<>>
    <3>1. PICK n \in 0..len :
            /\ write' = [write EXCEPT ![s] = Sent(Writing(len), n)]
            /\ echoed' = [echoed EXCEPT ![s] = echoed[s] \o SubSeq(data[s], 1, n)]
            /\ wbuf' = [wbuf EXCEPT ![s] = "data"]
      BY <1>2, <2>3 DEF HandleRead, Send
    <3>2. PICK k \in Nat : k = n /\ k \in 0..BufLen
      <4>1. PICK l, m \in Nat : l = len /\ m = BufLen /\ l <= m /\ n \in 0..l
        BY <1>2, <3>1, BufLenAssumption
      <4>2. QED
        BY <4>1
    <3>3. Writing(len) \in WriteOp /\ Writing(len).len = len
      BY StartedWrite
    <3>4. /\ Sent(Writing(len), k) \in WriteOp
          /\ Sent(Writing(len), k).st # "idle"
          /\ Sent(Writing(len), k).len = len
      BY <3>3, SentWrite
    <3>5. SubSeq(data[s], 1, k) \in Seq(Byte)
      BY <1>1, <3>2, SockTypes, CopyType
    <3>6. echoed[s] \o SubSeq(data[s], 1, k) \in Seq(Byte)
      BY <2>1, <3>5, ConcatProperties
    <3>7. len <= BufLen
      BY <1>2
    <3>8. QED
      BY <3>1, <3>2, <3>4, <3>6, <3>7
  <2>4. QED
    BY <2>2, <2>3
<1>7. SockTypeOK' /\ OnlyTouches(s)
  <2>1. received[s] \in 0..MaxBytes
    BY <1>1, SockTypes
  <2>2. QED
    BY <1>1, <1>5, <1>6, <2>1, ClearedType, OpTypes, SockTypesKept
<1>8. /\ read'[s].st = "pending" /\ write'[s] = w /\ queue'[s] = q /\ wbuf'[s] = b
      /\ received'[s] = r
  BY <1>2, <1>5, <1>6 DEF Reading, ServerInv, TypeOK, ServerTypeOK, SockTypeOK
<1>9. Runs(queue[s], Handled(s))'
  <2>1. Handled(s)' = r
    BY <1>2, <1>8 DEF Handled
  <2>2. QED
    BY <1>4, <1>8, <2>1
<1>10. SessionInv(s)'
  BY <1>1, <1>4, <1>5, <1>6, <1>8, <1>9 DEF SessionInv
<1>11. sessions' \in {sessions, sessions \ {s}} /\ running' \in BOOLEAN
  BY <1>5 DEF ServerInv, TypeOK, ServerTypeOK
<1>12. QED
  BY <1>1, <1>5, <1>6, <1>7, <1>10, <1>11, HandlerKeeps

(* The message that was sent leaves the queue, and a write of the next one *)
(* is started if there is one.                                             *)
LEMMA HandleWriteInv ==
  ASSUME ServerInv, NEW s \in Session, HandleWrite(s)
  PROVE  ServerInv'
<1>1. s \in sessions /\ s # accept.session /\ SessionInv(s) /\ SockTypeOK /\ queue[s] \in Queue
  BY HandlerIsOfSession, ServerInvTypes DEF HandleWrite
<1>2. queue[s] # <<>> /\ Runs(queue[s], Handled(s)) /\ read[s].st # "idle"
  BY <1>1 DEF SessionInv, HandleWrite
<1>3. PICK q \in Queue : q = Tail(queue[s]) /\ Runs(q, Handled(s))
  <2>1. Handled(s) \in Nat
    <3>1. received[s] \in Nat /\ read[s].len \in Nat
      BY <1>1, SockTypes DEF ReadOp
    <3>2. CASE read[s].st = "ok"
      <4>1. read[s].len \in 1..received[s]
        BY <1>1, <3>2 DEF SessionInv, NewBytes
      <4>2. received[s] - read[s].len \in Nat
        BY <3>1, <4>1
      <4>3. QED
        BY <3>2, <4>2 DEF Handled
    <3>3. CASE read[s].st # "ok"
      BY <3>1, <3>3 DEF Handled
    <3>4. QED
      BY <3>2, <3>3
  <2>2. QED
    BY <1>1, <1>2, <2>1, RunsTail
<1>4. /\ queue' = [queue EXCEPT ![s] = q]
      /\ UNCHANGED <<data, read, received, echoed, accept, sessions, running>>
  BY <1>3 DEF HandleWrite, serverVars
<1>5. PICK w \in WriteOp, b \in {"data", "node"} :
        /\ write' = [write EXCEPT ![s] = w]
        /\ wbuf' = [wbuf EXCEPT ![s] = b]
        /\ q # <<>> <=> w.st # "idle"
        /\ w.st = "pending" => b # "data"
  <2>1. CASE q = <<>>
    <3>1. write' = [write EXCEPT ![s] = NoWrite] /\ wbuf' = [wbuf EXCEPT ![s] = wbuf[s]]
      BY <1>3, <2>1 DEF HandleWrite, ServerInv, TypeOK
    <3>2. NoWrite \in WriteOp /\ NoWrite.st = "idle" /\ wbuf[s] \in {"data", "node"}
      BY OpTypes DEF NoWrite, ServerInv, TypeOK
    <3>3. QED
      BY <2>1, <3>1, <3>2
  <2>2. CASE q # <<>>
    <3>1. PICK len \in UninitLen : write' = [write EXCEPT ![s] = Writing(len)]
      BY <1>3, <2>2 DEF HandleWrite
    <3>2. Writing(len) \in WriteOp /\ Writing(len).st # "idle"
      BY UninitLenAssumption, StartedWrite
    <3>3. wbuf' = [wbuf EXCEPT ![s] = "node"]
      BY <1>3, <2>2 DEF HandleWrite
    <3>4. QED
      BY <2>2, <3>1, <3>2, <3>3
  <2>3. QED
    BY <2>1, <2>2
<1>6. SockTypeOK' /\ OnlyTouches(s)
  <2>1. /\ data[s] \in [1..BufLen -> Byte] /\ read[s] \in ReadOp
        /\ received[s] \in 0..MaxBytes /\ echoed[s] \in Seq(Byte)
    BY <1>1, SockTypes
  <2>2. QED
    BY <1>1, <1>4, <1>5, <2>1, SockTypesKept
<1>7. write'[s] = w /\ queue'[s] = q /\ wbuf'[s] = b
  BY <1>4, <1>5 DEF ServerInv, TypeOK, ServerTypeOK, SockTypeOK
<1>8. /\ Runs(queue[s], Handled(s))'
      /\ NewBytes(s)' <=> NewBytes(s)
  <2>1. Handled(s)' = Handled(s)
    BY <1>4 DEF Handled
  <2>2. QED
    BY <1>3, <1>4, <1>7, <2>1 DEF NewBytes
<1>9. SessionInv(s)'
  BY <1>1, <1>2, <1>4, <1>5, <1>7, <1>8 DEF SessionInv
<1>10. sessions' \in {sessions, sessions \ {s}} /\ running' \in BOOLEAN
  BY <1>4 DEF ServerInv, TypeOK, ServerTypeOK
<1>11. QED
  BY <1>1, <1>4, <1>5, <1>6, <1>9, <1>10, HandlerKeeps

(* A session that is no longer in sessions_ has no write outstanding: the  *)
(* one there was is aborted with the socket.                               *)
LEMMA GoneInv ==
  ASSUME NEW s, s \notin sessions', s # accept'.session,
         read'[s].st = "ok" => NewBytes(s)', write'[s].st # "pending"
  PROVE  SessionInv(s)'
BY DEF SessionInv

LEMMA ErrorInv ==
  ASSUME ServerInv, NEW s \in Session, HandleReadError(s) \/ HandleWriteError(s)
  PROVE  ServerInv'
<1>1. s \in sessions /\ s # accept.session /\ SessionInv(s) /\ SockTypeOK /\ queue[s] \in Queue
  BY HandlerIsOfSession, ServerInvTypes DEF HandleReadError, HandleWriteError
<1>2. /\ UNCHANGED <<data, received, echoed, accept, running, queue, wbuf>>
      /\ sessions' = sessions \ {s}
  BY DEF HandleReadError, HandleWriteError, ClearSession
<1>3. PICK w \in WriteOp, r \in ReadOp :
        /\ write' = [write EXCEPT ![s] = w] /\ read' = [read EXCEPT ![s] = r]
        /\ w.st # "pending"
        /\ r.st = "ok" => r = read[s]
  <2>1. /\ write[s] \in WriteOp /\ Aborted(write[s]) \in WriteOp
        /\ Aborted(write[s]).st # "pending"
        /\ read[s] \in ReadOp /\ Aborted(read[s]) \in ReadOp
        /\ NoRead \in ReadOp /\ NoWrite \in WriteOp
    BY <1>1, SockTypes, OpTypes, AbortedIdle
  <2>2. NoRead.st # "ok" /\ NoWrite.st # "pending"
    BY DEF NoRead, NoWrite
  <2>3. Aborted(read[s]).st = "ok" => Aborted(read[s]) = read[s]
    BY <2>1 DEF Aborted, ReadOp, OpState
  <2>4. CASE HandleReadError(s)
    BY <2>1, <2>2, <2>4 DEF HandleReadError
  <2>5. CASE HandleWriteError(s)
    BY <2>1, <2>2, <2>3, <2>5 DEF HandleWriteError
  <2>6. QED
    BY <2>4, <2>5
<1>4. SockTypeOK' /\ OnlyTouches(s)
  <2>1. /\ data[s] \in [1..BufLen -> Byte]
        /\ received[s] \in 0..MaxBytes /\ echoed[s] \in Seq(Byte)
    BY <1>1, SockTypes
  <2>2. QED
    BY <1>1, <1>2, <1>3, <2>1, SockTypesKept
<1>5. write'[s] = w /\ read'[s] = r
  BY <1>1, <1>3 DEF SockTypeOK
<1>6. read'[s].st = "ok" => NewBytes(s)'
  BY <1>1, <1>2, <1>3, <1>5 DEF NewBytes, SessionInv
<1>7. SessionInv(s)'
  BY <1>1, <1>2, <1>3, <1>5, <1>6, GoneInv
<1>8. wbuf[s] \in {"data", "node"}
  BY DEF ServerInv, TypeOK
<1>9. sessions' \in {sessions, sessions \ {s}} /\ running' \in BOOLEAN
  BY <1>2 DEF ServerInv, TypeOK, ServerTypeOK
<1>10. QED
  BY <1>1, <1>2, <1>4, <1>7, <1>8, <1>9, HandlerKeeps

LEMMA StaleInv ==
  ASSUME ServerInv, NEW s \in Session, StaleHandler(s)
  PROVE  ServerInv'
<1>1. /\ s \notin sessions /\ s # accept.session
      /\ SessionInv(s) /\ SockTypeOK /\ queue[s] \in Queue
  BY ServerInvTypes DEF StaleHandler, Alive, ServerOwns
<1>2. /\ UNCHANGED <<data, received, echoed, accept, sessions, queue, wbuf>>
      /\ running' \in BOOLEAN
  BY DEF StaleHandler
<1>3. PICK w \in WriteOp, r \in ReadOp :
        /\ write' = [write EXCEPT ![s] = w] /\ read' = [read EXCEPT ![s] = r]
        /\ w \in {write[s], NoWrite} /\ r \in {read[s], NoRead}
  <2>1. write[s] \in WriteOp /\ read[s] \in ReadOp /\ NoRead \in ReadOp /\ NoWrite \in WriteOp
    BY <1>1, SockTypes, OpTypes
  <2>2. write = [write EXCEPT ![s] = write[s]] /\ read = [read EXCEPT ![s] = read[s]]
    BY <1>1 DEF SockTypeOK
  <2>3. QED
    BY <2>1, <2>2 DEF StaleHandler
<1>4. SockTypeOK' /\ OnlyTouches(s)
  <2>1. /\ data[s] \in [1..BufLen -> Byte]
        /\ received[s] \in 0..MaxBytes /\ echoed[s] \in Seq(Byte)
    BY <1>1, SockTypes
  <2>2. QED
    BY <1>1, <1>2, <1>3, <2>1, SockTypesKept
<1>5. write'[s] = w /\ read'[s] = r
  BY <1>1, <1>3 DEF SockTypeOK
<1>6. write'[s].st # "pending"
  BY <1>1, <1>3, <1>5 DEF SessionInv, NoWrite
<1>7. read'[s].st = "ok" => NewBytes(s)'
  BY <1>1, <1>2, <1>3, <1>5 DEF NewBytes, SessionInv, NoRead
<1>8. SessionInv(s)'
  BY <1>1, <1>2, <1>6, <1>7, GoneInv
<1>9. wbuf[s] \in {"data", "node"}
  BY DEF ServerInv, TypeOK
<1>10. QED
  BY <1>1, <1>2, <1>4, <1>8, <1>9, HandlerKeeps
-----------------------------------------------------------------------------
(* What the network takes of the buffer of a write are bytes, whatever     *)
(* max_len_ holds.                                                         *)
LEMMA ContentBytes ==
  ASSUME ServerInv, NEW s \in Session, write[s].st = "pending",
         NEW skip \in Nat, NEW n \in Nat, skip + n <= write[s].len
  PROVE  Slice(Content(s), skip, n) \in Seq(Byte)
<1>1. PICK len, b, m \in Nat : len = write[s].len /\ b = BufLen /\ m = MaxBytes
  BY ServerInvTypes, SockTypes DEF WriteOp
<1>2. ASSUME NEW i \in 1..n PROVE Content(s)[skip + i] \in Byte
  <2>1. PICK k \in 1..len : k = skip + i
    <3>1. skip + i \in 1..len
      BY <1>1
    <3>2. QED
      BY <3>1
  <2>2. CASE wbuf[s] = "data"
    <3>1. k \in 1..BufLen
      <4>1. len <= b
        BY <1>1, <2>2, ServerInvTypes DEF SessionInv
      <4>2. k \in 1..b
        BY <4>1
      <4>3. QED
        BY <1>1, <4>2
    <3>2. data[s][k] \in Byte
      BY <3>1, ServerInvTypes, SockTypes
    <3>3. QED
      BY <2>1, <2>2, <3>2 DEF Content
  <2>3. CASE wbuf[s] # "data"
    <3>1. PICK head \in Seq(Byte) : head = Head(queue[s])
      <4>1. queue[s] \in Seq(Seq(Byte)) /\ queue[s] # <<>>
        BY ServerInvTypes DEF SessionInv, Queue
      <4>2. QED
        BY <4>1, HeadTailProperties
    <3>2. Content(s)[k] = IF k <= Len(head) THEN head[k] ELSE Garbage
      BY <1>1, <2>3, <3>1 DEF Content
    <3>3. Garbage \in Byte
      <4>1. m + 1 \in Nat
        OBVIOUS
      <4>2. QED
        BY <1>1, <4>1 DEF Garbage, Byte
    <3>4. k <= Len(head) => head[k] \in Byte
      <4>1. k \in Nat /\ k >= 1 /\ Len(head) \in Nat
        BY LenProperties
      <4>2. k <= Len(head) => k \in 1..Len(head)
        BY <4>1
      <4>3. QED
        BY <4>2, ElementOfSeq
    <3>5. QED
      BY <2>1, <3>2, <3>3, <3>4
  <2>4. QED
    BY <2>2, <2>3
<1>3. [i \in 1..n |-> Content(s)[skip + i]] \in [1..n -> Byte]
  BY <1>2
<1>4. QED
  BY <1>3, SeqDef DEF Slice

(* What is left to show of a step of the network on the socket of s: no    *)
(* operation starts and none is forgotten.                                 *)
LEMMA NetworkKeeps ==
  ASSUME ServerInv, NEW s \in Session, SockTypeOK', OnlyTouches(s),
         UNCHANGED <<serverVars, queue, wbuf>>,
         read[s].st = "idle" <=> read'[s].st = "idle",
         write[s].st = "idle" <=> write'[s].st = "idle",
         write'[s].st = "pending" => write[s].st = "pending" /\ write'[s].len = write[s].len,
         read'[s].st = "ok" => NewBytes(s)',
         s \in sessions => Handled(s)' = Handled(s)
  PROVE  ServerInv'
<1>1. UNCHANGED <<accept, sessions, running, queue, wbuf>>
  BY DEF serverVars
<1>2. SessionInv(s)
  BY DEF ServerInv
<1>3. s \in sessions => Runs(queue[s], Handled(s))'
  BY <1>1, <1>2 DEF SessionInv
<1>4. SessionInv(s)'
  BY <1>1, <1>2, <1>3 DEF SessionInv
<1>5. TypeOK'
  BY <1>1 DEF ServerInv, TypeOK, ServerTypeOK
<1>6. QED
  BY <1>1, <1>4, <1>5, OneSession

LEMMA ReadSomeInv ==
  ASSUME ServerInv, NEW s \in Session, ReadSome(s), UNCHANGED <<serverVars, queue, wbuf>>
  PROVE  ServerInv'
<1>1. SockTypeOK /\ UNCHANGED <<write, echoed>> /\ read[s].st = "pending"
  BY ServerInvTypes DEF ReadSome
<1>2. PICK n \in 1..BufLen :
        /\ received[s] + n <= MaxBytes
        /\ data' = [data EXCEPT ![s] =
                      [i \in 1..BufLen |->
                         IF i <= n THEN received[s] + i ELSE data[s][i]]]
        /\ received' = [received EXCEPT ![s] = received[s] + n]
        /\ read' = [read EXCEPT ![s] = [st |-> "ok", len |-> n]]
  BY DEF ReadSome, ReadSizes
<1>3. PICK a, b, m, k \in Nat :
        /\ a = received[s] /\ b = BufLen /\ m = MaxBytes /\ k = n
        /\ a + k <= m /\ k >= 1 /\ k <= b
  BY <1>1, <1>2, SockTypes
<1>4. /\ a + k \in 0..m /\ k \in 0..b /\ k \in 1..b /\ k \in 1..(a + k) /\ (a + k) - k = a
      /\ \A i \in 1..k : i \in 1..b
  BY <1>3
<1>5. PICK d \in [1..BufLen -> Byte] :
        /\ d = [i \in 1..BufLen |-> IF i <= n THEN a + i ELSE data[s][i]]
        /\ \A i \in 1..k : d[i] = a + i
  <2>1. data[s] \in [1..BufLen -> Byte]
    BY <1>1, SockTypes
  <2>2. ASSUME NEW i \in 1..BufLen PROVE (IF i <= n THEN a + i ELSE data[s][i]) \in Byte
    BY <1>3, <2>1 DEF Byte
  <2>3. ASSUME NEW i \in 1..k PROVE i \in 1..BufLen /\ i <= n
    BY <1>3, <1>4
  <2>4. PICK d \in [1..BufLen -> Byte] :
          d = [i \in 1..BufLen |-> IF i <= n THEN a + i ELSE data[s][i]]
    BY <2>2
  <2>5. \A i \in 1..k : d[i] = a + i
    BY <2>3, <2>4
  <2>6. QED
    BY <2>4, <2>5
<1>6. [st |-> "ok", len |-> n] \in ReadOp
  BY <1>3, <1>4 DEF ReadOp, OpState
<1>7. SockTypeOK' /\ OnlyTouches(s)
  <2>1. a + n \in 0..MaxBytes /\ write[s] \in WriteOp /\ echoed[s] \in Seq(Byte)
    BY <1>1, <1>3, <1>4, SockTypes
  <2>2. QED
    BY <1>1, <1>2, <1>3, <1>5, <1>6, <2>1, SockTypesKept
<1>8. /\ received'[s] = a + k /\ read'[s].st = "ok" /\ read'[s].len = k /\ data'[s] = d
      /\ write'[s] = write[s]
  BY <1>1, <1>2, <1>3, <1>5 DEF SockTypeOK
<1>9. NewBytes(s)'
  <2>1. read'[s].len \in 1..received'[s] /\ received'[s] - read'[s].len = a
    BY <1>4, <1>8
  <2>2. ASSUME NEW i \in 1..read'[s].len
        PROVE  data'[s][i] = (received'[s] - read'[s].len) + i
    BY <1>5, <1>8, <2>1
  <2>3. QED
    BY <2>1, <2>2 DEF NewBytes
<1>10. Handled(s)' = Handled(s)
  <2>1. Handled(s) = a
    <3>1. a - 0 = a
      BY <1>3
    <3>2. QED
      BY <1>1, <1>3, <3>1 DEF Handled
  <2>2. Handled(s)' = a
    BY <1>4, <1>8 DEF Handled
  <2>3. QED
    BY <2>1, <2>2
<1>11. QED
  BY <1>1, <1>7, <1>8, <1>9, <1>10, NetworkKeeps

LEMMA ReadFailsInv ==
  ASSUME ServerInv, NEW s \in Session, ReadFails(s), UNCHANGED <<serverVars, queue, wbuf>>
  PROVE  ServerInv'
<1>1. /\ SockTypeOK /\ read[s].st = "pending"
      /\ read' = [read EXCEPT ![s] = [read[s] EXCEPT !.st = "error"]]
      /\ UNCHANGED <<data, write, received, echoed>>
  BY ServerInvTypes DEF ReadFails
<1>2. /\ [read[s] EXCEPT !.st = "error"] \in ReadOp
      /\ [read[s] EXCEPT !.st = "error"].st = "error"
  BY <1>1, SockTypes, FailedTypes
<1>3. SockTypeOK' /\ OnlyTouches(s)
  <2>1. /\ data[s] \in [1..BufLen -> Byte] /\ write[s] \in WriteOp
        /\ received[s] \in 0..MaxBytes /\ echoed[s] \in Seq(Byte)
    BY <1>1, SockTypes
  <2>2. QED
    BY <1>1, <1>2, <2>1, SockTypesKept
<1>4. read'[s].st = "error"
  BY <1>1, <1>2 DEF SockTypeOK
<1>5. Handled(s)' = Handled(s)
  BY <1>1, <1>4 DEF Handled
<1>6. QED
  BY <1>1, <1>3, <1>4, <1>5, NetworkKeeps

LEMMA WriteSomeInv ==
  ASSUME ServerInv, NEW s \in Session, WriteSome(s, Content(s)),
         UNCHANGED <<serverVars, queue, wbuf>>
  PROVE  ServerInv'
<1>1. SockTypeOK /\ UNCHANGED <<data, read, received>> /\ write[s].st = "pending"
  BY ServerInvTypes DEF WriteSome
<1>2. PICK n \in 1..(write[s].len - write[s].done) :
        /\ echoed' = [echoed EXCEPT ![s] = echoed[s] \o Slice(Content(s), write[s].done, n)]
        /\ write' = [write EXCEPT ![s] = Sent(write[s], n)]
  BY DEF WriteSome
<1>3. PICK k, done, len \in Nat :
        k = n /\ done = write[s].done /\ len = write[s].len /\ done + k <= len
  <2>1. write[s].len \in Nat /\ write[s].done \in Nat
    BY <1>1, SockTypes DEF WriteOp
  <2>2. PICK d, l \in Nat : d = write[s].done /\ l = write[s].len /\ n \in 1..(l - d)
    BY <1>2, <2>1
  <2>3. n \in Nat /\ d + n <= l
    BY <2>2
  <2>4. QED
    BY <2>2, <2>3
<1>4. echoed[s] \o Slice(Content(s), write[s].done, n) \in Seq(Byte)
  <2>1. Slice(Content(s), done, k) \in Seq(Byte) /\ echoed[s] \in Seq(Byte)
    BY <1>1, <1>3, SockTypes, ContentBytes
  <2>2. QED
    BY <1>3, <2>1, ConcatProperties
<1>5. /\ Sent(write[s], n) \in WriteOp /\ Sent(write[s], n).st # "idle"
      /\ Sent(write[s], n).len = write[s].len
  BY <1>1, <1>3, SockTypes, SentWrite
<1>6. SockTypeOK' /\ OnlyTouches(s)
  <2>1. /\ data[s] \in [1..BufLen -> Byte] /\ read[s] \in ReadOp
        /\ received[s] \in 0..MaxBytes
    BY <1>1, SockTypes
  <2>2. QED
    BY <1>1, <1>2, <1>4, <1>5, <2>1, SockTypesKept
<1>7. write'[s] = Sent(write[s], n)
  BY <1>1, <1>2 DEF SockTypeOK
<1>8. (NewBytes(s)' <=> NewBytes(s)) /\ Handled(s)' = Handled(s)
  BY <1>1 DEF NewBytes, Handled
<1>9. read[s].st = "ok" => NewBytes(s)
  BY DEF ServerInv, SessionInv
<1>10. QED
  BY <1>1, <1>5, <1>6, <1>7, <1>8, <1>9, NetworkKeeps

LEMMA WriteFailsInv ==
  ASSUME ServerInv, NEW s \in Session, WriteFails(s), UNCHANGED <<serverVars, queue, wbuf>>
  PROVE  ServerInv'
<1>1. /\ SockTypeOK /\ write[s].st = "pending"
      /\ write' = [write EXCEPT ![s] = [write[s] EXCEPT !.st = "error"]]
      /\ UNCHANGED <<data, read, received, echoed>>
  BY ServerInvTypes DEF WriteFails
<1>2. /\ [write[s] EXCEPT !.st = "error"] \in WriteOp
      /\ [write[s] EXCEPT !.st = "error"].st = "error"
  BY <1>1, SockTypes, FailedTypes
<1>3. SockTypeOK' /\ OnlyTouches(s)
  <2>1. /\ data[s] \in [1..BufLen -> Byte] /\ read[s] \in ReadOp
        /\ received[s] \in 0..MaxBytes /\ echoed[s] \in Seq(Byte)
    BY <1>1, SockTypes
  <2>2. QED
    BY <1>1, <1>2, <2>1, SockTypesKept
<1>4. write'[s].st = "error"
  BY <1>1, <1>2 DEF SockTypeOK
<1>5. (NewBytes(s)' <=> NewBytes(s)) /\ Handled(s)' = Handled(s)
  BY <1>1 DEF NewBytes, Handled
<1>6. read[s].st = "ok" => NewBytes(s)
  BY DEF ServerInv, SessionInv
<1>7. QED
  BY <1>1, <1>3, <1>4, <1>5, <1>6, NetworkKeeps
-----------------------------------------------------------------------------
LEMMA NextInv == ServerInv /\ [Next]_vars => ServerInv'
<1> SUFFICES ASSUME ServerInv, [Next]_vars PROVE ServerInv'
  OBVIOUS
<1>1. CASE Accept
  <2>1. CASE AcceptCompletes(Free) /\ UNCHANGED <<queue, wbuf>>
    BY <2>1, AcceptCompletesInv
  <2>2. ASSUME NEW t \in Free, HandleAccept(t) \/ HandleAcceptError(t),
               queue' = [queue EXCEPT ![t] = <<>>], UNCHANGED wbuf
        PROVE  ServerInv'
    BY <2>2, HandleAcceptInv
  <2>3. QED
    BY <1>1, <2>1, <2>2 DEF Accept
<1>2. ASSUME NEW s \in Session, Network(s) PROVE ServerInv'
  BY <1>2, ReadSomeInv, ReadFailsInv, WriteSomeInv, WriteFailsInv DEF Network
<1>3. ASSUME NEW s \in Session, ReadHandler(s) \/ WriteHandler(s) \/ StaleHandler(s)
      PROVE  ServerInv'
  BY <1>3, HandleReadInv, HandleWriteInv, ErrorInv, StaleInv DEF ReadHandler, WriteHandler
<1>4. CASE UNCHANGED vars
  <2>1. TypeOK'
    BY <1>4 DEF ServerInv, TypeOK, ServerTypeOK, SockTypeOK, vars, sockVars, serverVars
  <2>2. QED
    BY <1>4, <2>1, NothingTouched DEF vars, serverVars
<1>5. QED
  BY <1>1, <1>2, <1>3, <1>4 DEF Next

(* The inductive invariant of the server: what a session's queue, socket   *)
(* and place in sessions_ have to do with each other.                      *)
THEOREM Invariance == Spec => []ServerInv
<1>1. QED
  BY InitInv, NextInv, PTL DEF Spec

(* Type correctness.  That what goes out on a socket are bytes needs that  *)
(* a write from data_ is no longer than data_, and that a write of a node  *)
(* finds one at the head of the queue, whatever max_len_ holds.            *)
THEOREM TypeCorrect == Spec => []TypeOK
<1>1. ServerInv => TypeOK
  BY DEF ServerInv
<1>2. QED
  BY <1>1, Invariance, PTL

(* Send and HandleWrite keep their protocol whatever the network does, and *)
(* whatever max_len_ holds: no message waits in a queue nobody empties,    *)
(* and no empty queue is popped.                                           *)
THEOREM QueueProtocol == Spec => []QueueDiscipline
<1>1. ServerInv => QueueDiscipline
  BY DEF ServerInv, SessionInv, QueueDiscipline, TypeOK, ServerTypeOK
<1>2. QED
  BY <1>1, Invariance, PTL

(* Reads that complete while a write is outstanding, and writes that       *)
(* complete while a read is, never lose, repeat or reorder a message in    *)
(* the queue, however many bytes of the array a write goes on to send.     *)
THEOREM NewestQueued == Spec => []QueueHoldsNewest
<1>1. ServerInv => QueueHoldsNewest
  BY DEF ServerInv, SessionInv, QueueHoldsNewest, TypeOK, ServerTypeOK
<1>2. QED
  BY <1>1, Invariance, PTL

(* A session in sessions_ always listens for the read event, even while a  *)
(* write or its handler is due.                                            *)
THEOREM ReadsAlways == Spec => []AlwaysReading
<1>1. ServerInv => AlwaysReading
  BY DEF ServerInv, SessionInv, AlwaysReading, TypeOK, ServerTypeOK
<1>2. QED
  BY <1>1, Invariance, PTL
=============================================================================
