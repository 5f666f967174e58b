-------------------------- MODULE SessionApiProofs -------------------------
(***************************************************************************)
(* Proofs about SessionApi, for all lengths and numbers of messages and    *)
(* every kRecvSize.  The receive path stands alone.  On top of it and of   *)
(* the types: the queue that is written from while no read has completed;  *)
(* send_node_; and the application that waits for each write.              *)
(***************************************************************************)
EXTENDS SessionApi, SequenceTheorems, TLAPS

(* A message in send_queue_, and an async_write_some: within the bytes the *)
(* application wrote, and at most sent in full.                            *)
Message ==
  {node \in [first : 0..MaxBytes, len : 0..MaxBytes, cur : 0..MaxBytes] :
     node.first + node.len <= MaxBytes /\ node.cur <= node.len}

Op ==
  {op \in [first : 0..MaxBytes, len : 0..MaxBytes,
           from : {"caller", "queue", "node", "bound"}, st : OpState, n : 0..MaxBytes] :
     /\ op.first + op.len <= MaxBytes
     /\ op.n <= op.len
     /\ op.st # "ok" => op.n = 0}

TypeInv ==
  /\ queue \in Seq(Message)
  /\ writes \in Seq(Op)
  /\ sendNode \in [first : 0..MaxBytes, len : 0..MaxBytes]
  /\ sendNode.first + sendNode.len <= MaxBytes
  /\ submitted \in 0..MaxBytes
  /\ messages \in 0..MaxMsgs
  /\ wire \in Seq(Byte)
  /\ sendPending \in BOOLEAN /\ failed \in BOOLEAN /\ running \in BOOLEAN
  /\ keeps \in BOOLEAN /\ usesNode \in BOOLEAN /\ waits \in BOOLEAN

(* A read is outstanding until the node is full, and never asks for more   *)
(* than is free in it.                                                     *)
RecvNodeFills ==
  /\ read.st # "idle" <=> recvPending /\ recv < RecvSize
  /\ read.st = "ok" => recv + read.n <= RecvSize

(* A read that failed has read nothing, nor has a session that never       *)
(* started one.                                                            *)
ReadInv ==
  /\ read \in [st : OpState, n : 0..RecvSize]
  /\ recv \in 0..RecvSize
  /\ recvPending \in BOOLEAN
  /\ RecvNodeFills
  /\ read.st = "error" => read.n = 0
  /\ ~recvPending => recv = 0

(* The messages in q follow one another up to byte end, and only the first *)
(* may be sent in part.                                                    *)
Chain(q, end) ==
  \A k \in 1..Len(q) :
     /\ q[k].first + q[k].len = IF k = Len(q) THEN end ELSE q[k + 1].first
     /\ q[k].first + q[k].len <= end
     /\ k # 1 => q[k].cur = 0

(* op sends what is left of the first message, and the peer has what comes *)
(* before it.                                                              *)
SendsHead(op) ==
  /\ queue # <<>>
  /\ op.from \in {"caller", "queue"}
  /\ op.first = queue[1].first + queue[1].cur
  /\ op.len = queue[1].len - queue[1].cur
  /\ Len(wire) = op.first + op.n

InOrder == \A i \in 1..Len(wire) : wire[i] = i \/ (~keeps /\ wire[i] = Garbage)

(* send_pending_ tells whether messages are queued; at most one write is   *)
(* outstanding, one is unless a write has failed, none is when one has, and *)
(* the peer has all the bytes before it, in order.                         *)
Sound ==
  /\ sendPending <=> queue # <<>>
  /\ Chain(queue, submitted)
  /\ Len(writes) <= 1
  /\ writes # <<>> => SendsHead(writes[1])
  /\ writes = <<>> /\ queue = <<>> => Len(wire) = submitted
  /\ writes = <<>> => queue = <<>> \/ failed
  /\ failed => writes = <<>> /\ queue # <<>>
  /\ Len(wire) <= submitted
  /\ InOrder

QueueInv == ~usesNode /\ ~ReadDone => Sound

(* Write k is the newest of ws that is not complete. *)
LastPending(ws, k) ==
  /\ ws[k].st = "pending"
  /\ \A j \in (k + 1)..Len(ws) : ws[j].st # "pending"

FromNode(ws) == \A k \in 1..Len(ws) : ws[k].from \in {"node", "bound"}

Newest(ws, node) ==
  node.len > 0 =>
     \A k \in 1..Len(ws) :
        LastPending(ws, k) => ws[k].first = node.first /\ ws[k].len = node.len

(* Every write is of send_node_ as it was at some time; the newest that is *)
(* not complete of send_node_ as it is, unless that is empty.              *)
NodeInv ==
  usesNode => keeps /\ FromNode(writes) /\ Newest(writes, sendNode)

(* The last byte the peer got. *)
Reached == IF wire = <<>> THEN 0 ELSE wire[Len(wire)]

Climbs ==
  /\ wire # <<>> => wire[1] = 1
  /\ \A i \in 2..Len(wire) : wire[i] \in 1..(wire[i - 1] + 1)

(* The application that waits: send_node_ is the last message, its write   *)
(* is the only one, no byte before it is missing, and a write that is      *)
(* complete has sent up to the last byte the peer got.                     *)
Waiting ==
  /\ Len(writes) <= 1
  /\ sendNode.first + sendNode.len = submitted
  /\ sendNode.first <= Reached
  /\ writes = <<>> => Reached = submitted
  /\ writes # <<>> => writes[1].first = sendNode.first /\ writes[1].len = sendNode.len
  /\ writes # <<>> /\ writes[1].st = "ok" => Reached = writes[1].first + writes[1].n
  /\ Climbs

WaitInv == (waits => usesNode) /\ (waits /\ ~failed => Waiting)
-----------------------------------------------------------------------------

(* Sequences. *)
LEMMA FirstAndRest ==
  ASSUME NEW S, NEW q \in Seq(S), q # <<>>
  PROVE  /\ Len(q) \in Nat \ {0} /\ DOMAIN q = 1..Len(q)
         /\ Head(q) = q[1] /\ q[1] \in S
         /\ Tail(q) \in Seq(S) /\ Len(Tail(q)) = Len(q) - 1
         /\ Tail(q) = <<>> <=> Len(q) = 1
         /\ \A k \in 1..(Len(q) - 1) : Tail(q)[k] = q[k + 1]
<1>1. Len(q) \in Nat \ {0} /\ DOMAIN q = 1..Len(q)
  BY EmptySeq, LenProperties
<1>2. Head(q) = q[1] /\ q[1] \in S
  <2>1. 1 \in 1..Len(q)
    BY <1>1
  <2>2. q[1] \in S
    BY <2>1, ElementOfSeq
  <2>3. QED
    BY <2>2
<1>3. /\ Tail(q) \in Seq(S) /\ Len(Tail(q)) = Len(q) - 1
      /\ \A k \in 1..Len(Tail(q)) : Tail(q)[k] = q[k + 1]
  BY HeadTailProperties
<1>4. Tail(q) = <<>> <=> Len(q) = 1
  <2>1. PICK n, m \in Nat : n = Len(q) /\ m = Len(Tail(q)) /\ m = n - 1 /\ n # 0
    BY <1>1, <1>3, LenProperties
  <2>2. m = 0 <=> n = 1
    BY <2>1
  <2>3. Tail(q) = <<>> <=> m = 0
    BY <1>3, <2>1, EmptySeq
  <2>4. QED
    BY <2>1, <2>2, <2>3
<1>5. QED
  BY <1>1, <1>2, <1>3, <1>4

LEMMA Appended ==
  ASSUME NEW S, NEW q \in Seq(S), NEW x \in S
  PROVE  /\ Append(q, x) \in Seq(S) /\ Append(q, x) # <<>>
         /\ Len(q) \in Nat /\ Len(Append(q, x)) = Len(q) + 1
         /\ Append(q, x)[Len(q) + 1] = x
         /\ \A k \in 1..Len(q) : Append(q, x)[k] = q[k]
BY AppendProperties, LenProperties

(* One element taken out. *)
LEMMA Removed ==
  ASSUME NEW S, NEW q \in Seq(S), NEW k \in 1..Len(q)
  PROVE  /\ Len(q) \in Nat \ {0} /\ q # <<>> /\ q[k] \in S
         /\ RemoveAt(q, k) \in Seq(S) /\ Len(RemoveAt(q, k)) = Len(q) - 1
         /\ \A j \in 1..(Len(q) - 1) :
              RemoveAt(q, k)[j] = IF j < k THEN q[j] ELSE q[j + 1]
<1>1. PICK n \in Nat : n = Len(q) /\ k \in 1..n
  BY LenProperties
<1>2. n # 0 /\ q # <<>> /\ q[k] \in S /\ \A i \in 1..n : q[i] \in S
  <2>1. n # 0 /\ Len(<<>>) = 0
    BY <1>1
  <2>2. QED
    BY <1>1, <2>1, ElementOfSeq
<1>3. PICK a \in Seq(S) :
        /\ a = SubSeq(q, 1, k - 1) /\ Len(a) = k - 1
        /\ \A i \in 1..(k - 1) : a[i] = q[i]
  <2>1. 1 \in Int /\ k - 1 \in Int /\ \A i \in 1..(k - 1) : q[i] \in S
    BY <1>1, <1>2
  <2>2. /\ SubSeq(q, 1, k - 1) \in Seq(S)
        /\ Len(SubSeq(q, 1, k - 1)) = IF 1 <= k - 1 THEN (k - 1) - 1 + 1 ELSE 0
        /\ \A i \in 1..((k - 1) - 1 + 1) : SubSeq(q, 1, k - 1)[i] = q[1 + i - 1]
    BY <2>1, SubSeqProperties
  <2>3. /\ (IF 1 <= k - 1 THEN (k - 1) - 1 + 1 ELSE 0) = k - 1
        /\ \A i \in 1..(k - 1) : i \in 1..((k - 1) - 1 + 1) /\ 1 + i - 1 = i
    BY <1>1
  <2>4. QED
    BY <2>2, <2>3
<1>4. PICK b \in Seq(S) :
        /\ b = SubSeq(q, k + 1, n) /\ Len(b) = n - k
        /\ \A i \in 1..(n - k) : b[i] = q[k + i]
  <2>1. k + 1 \in Int /\ n \in Int /\ \A i \in (k + 1)..n : q[i] \in S
    BY <1>1, <1>2
  <2>2. /\ SubSeq(q, k + 1, n) \in Seq(S)
        /\ Len(SubSeq(q, k + 1, n)) = IF k + 1 <= n THEN n - (k + 1) + 1 ELSE 0
        /\ \A i \in 1..(n - (k + 1) + 1) : SubSeq(q, k + 1, n)[i] = q[(k + 1) + i - 1]
    BY <2>1, SubSeqProperties
  <2>3. /\ (IF k + 1 <= n THEN n - (k + 1) + 1 ELSE 0) = n - k
        /\ \A i \in 1..(n - k) : i \in 1..(n - (k + 1) + 1) /\ (k + 1) + i - 1 = k + i
    BY <1>1
  <2>4. QED
    BY <2>2, <2>3
<1>5. /\ a \o b \in Seq(S)
      /\ Len(a \o b) = (k - 1) + (n - k)
      /\ \A j \in 1..((k - 1) + (n - k)) :
           (a \o b)[j] = IF j <= k - 1 THEN a[j] ELSE b[j - (k - 1)]
  <2>1. /\ a \o b \in Seq(S)
        /\ Len(a \o b) = Len(a) + Len(b)
        /\ \A j \in 1..(Len(a) + Len(b)) :
             (a \o b)[j] = IF j <= Len(a) THEN a[j] ELSE b[j - Len(a)]
    BY ConcatProperties
  <2>2. QED
    BY <1>3, <1>4, <2>1
<1>6. ASSUME NEW j \in 1..(n - 1)
      PROVE  (a \o b)[j] = IF j < k THEN q[j] ELSE q[j + 1]
  <2>1. j \in 1..((k - 1) + (n - k))
    BY <1>1
  <2>2. CASE j < k
    <3>1. j <= k - 1 /\ j \in 1..(k - 1)
      BY <1>1, <2>2
    <3>2. QED
      BY <1>3, <1>5, <2>1, <2>2, <3>1
  <2>3. CASE ~(j < k)
    <3>1. /\ ~(j <= k - 1) /\ j - (k - 1) \in 1..(n - k)
          /\ k + (j - (k - 1)) = j + 1
      BY <1>1, <2>3
    <3>2. QED
      BY <1>4, <1>5, <2>1, <2>3, <3>1
  <2>4. QED
    BY <2>2, <2>3
<1>7. RemoveAt(q, k) = a \o b /\ (k - 1) + (n - k) = n - 1
  <2>1. (k - 1) + (n - k) = n - 1
    BY <1>1
  <2>2. QED
    BY <1>1, <1>3, <1>4, <2>1 DEF RemoveAt
<1>8. QED
  BY <1>1, <1>2, <1>5, <1>6, <1>7

LEMMA WiderSeq ==
  ASSUME NEW S, NEW T, S \subseteq T, NEW q \in Seq(S)
  PROVE  q \in Seq(T)
BY SeqDef

(* The first element replaced. *)
LEMMA FirstReplaced ==
  ASSUME NEW S, NEW q \in Seq(S), q # <<>>, NEW x \in S
  PROVE  /\ <<x>> \o Tail(q) \in Seq(S) /\ <<x>> \o Tail(q) # <<>>
         /\ Len(<<x>> \o Tail(q)) = Len(q)
         /\ (<<x>> \o Tail(q))[1] = x
         /\ \A k \in 2..Len(q) : (<<x>> \o Tail(q))[k] = q[k]
<1>1. PICK n \in Nat : n = Len(q) /\ n # 0
  BY EmptySeq
<1>2. PICK t \in Seq(S) : t = Tail(q) /\ Len(t) = n - 1 /\ \A k \in 1..(n - 1) : t[k] = q[k + 1]
  <2>1. /\ Tail(q) \in Seq(S) /\ Len(Tail(q)) = Len(q) - 1
        /\ \A k \in 1..(Len(q) - 1) : Tail(q)[k] = q[k + 1]
    BY FirstAndRest
  <2>2. QED
    BY <1>1, <2>1
<1>3. <<x>> \in Seq(S) /\ Len(<<x>>) = 1 /\ <<x>>[1] = x
  OBVIOUS
<1>4. /\ <<x>> \o t \in Seq(S)
      /\ Len(<<x>> \o t) = 1 + (n - 1)
      /\ \A k \in 1..(1 + (n - 1)) :
           (<<x>> \o t)[k] = IF k <= 1 THEN <<x>>[k] ELSE t[k - 1]
  BY <1>2, <1>3, ConcatProperties
<1>5. 1 + (n - 1) = n /\ 1 \in 1..n
  BY <1>1
<1>6. ASSUME NEW k \in 2..n PROVE (<<x>> \o t)[k] = q[k]
  <2>1. k \in 1..n /\ ~(k <= 1) /\ k - 1 \in 1..(n - 1) /\ (k - 1) + 1 = k
    BY <1>1
  <2>2. QED
    BY <1>2, <1>4, <1>5, <2>1
<1>7. PICK r \in Seq(S) :
        /\ r = <<x>> \o t /\ Len(r) = n /\ r[1] = x
        /\ \A k \in 2..n : r[k] = q[k]
  <2>1. (<<x>> \o t)[1] = x /\ Len(<<x>> \o t) = n
    BY <1>3, <1>4, <1>5
  <2>2. QED
    BY <1>4, <1>6, <2>1
<1>8. r # <<>>
  BY <1>1, <1>7, EmptySeq
<1>9. QED
  BY <1>1, <1>2, <1>7, <1>8

(* n more elements. *)
LEMMA Extended ==
  ASSUME NEW S, NEW q \in Seq(S), NEW n \in Nat, NEW e \in [1..n -> S]
  PROVE  /\ q \o e \in Seq(S)
         /\ Len(q) \in Nat /\ Len(q \o e) = Len(q) + n
         /\ \A i \in 1..Len(q) : (q \o e)[i] = q[i]
         /\ \A i \in 1..n : (q \o e)[Len(q) + i] = e[i]
<1>1. PICK m \in Nat : m = Len(q)
  BY LenProperties
<1>2. e \in Seq(S)
  BY SeqDef
<1>3. Len(e) = n
  BY <1>2, LenProperties
<1>4. /\ q \o e \in Seq(S)
      /\ Len(q \o e) = m + n
      /\ \A i \in 1..(m + n) : (q \o e)[i] = IF i <= m THEN q[i] ELSE e[i - m]
  <2>1. /\ q \o e \in Seq(S)
        /\ Len(q \o e) = Len(q) + Len(e)
        /\ \A i \in 1..(Len(q) + Len(e)) :
             (q \o e)[i] = IF i <= Len(q) THEN q[i] ELSE e[i - Len(q)]
    BY <1>2, ConcatProperties
  <2>2. QED
    BY <1>1, <1>3, <2>1
<1>5. ASSUME NEW i \in 1..m PROVE (q \o e)[i] = q[i]
  <2>1. i \in 1..(m + n) /\ i <= m
    OBVIOUS
  <2>2. QED
    BY <1>4, <2>1
<1>6. ASSUME NEW i \in 1..n PROVE (q \o e)[m + i] = e[i]
  <2>1. m + i \in 1..(m + n) /\ ~(m + i <= m) /\ (m + i) - m = i
    OBVIOUS
  <2>2. QED
    BY <1>4, <2>1
<1>7. QED
  BY <1>1, <1>4, <1>5, <1>6
-----------------------------------------------------------------------------
(* Messages, operations, and what becomes of an operation.                 *)
LEMMA MessageTypes ==
  ASSUME NEW node \in Message
  PROVE  /\ node.first \in Nat /\ node.len \in Nat /\ node.cur \in Nat /\ MaxBytes \in Nat
         /\ node.first + node.len <= MaxBytes /\ node.cur <= node.len
BY SizesAssumption DEF Message

LEMMA OpTypes ==
  ASSUME NEW op \in Op
  PROVE  /\ op.first \in Nat /\ op.len \in Nat /\ op.n \in Nat /\ MaxBytes \in Nat
         /\ op.first + op.len <= MaxBytes /\ op.n <= op.len
         /\ op.st # "ok" => op.n = 0
BY SizesAssumption DEF Op

LEMMA NewNode ==
  ASSUME NEW first \in Nat, NEW len \in Nat, first + len <= MaxBytes
  PROVE  /\ Node(first, len) \in Message
         /\ Node(first, len).first = first /\ Node(first, len).len = len
         /\ Node(first, len).cur = 0
<1>1. PICK m \in Nat : m = MaxBytes
  BY SizesAssumption
<1>2. first \in 0..m /\ len \in 0..m /\ 0 \in 0..m /\ 0 <= len
  BY <1>1
<1>3. QED
  BY <1>1, <1>2 DEF Node, Message

LEMMA Partial ==
  ASSUME NEW first \in Nat, NEW len \in Nat, NEW c \in Nat, NEW m \in Nat,
         first + len <= m, c < len
  PROVE  c <= len /\ first + c \in Nat /\ len - c \in Nat /\ (first + c) + (len - c) <= m
OBVIOUS

LEMMA AdvancedNode ==
  ASSUME NEW node \in Message, NEW cur \in Nat, cur <= node.len
  PROVE  /\ [node EXCEPT !.cur = cur] \in Message
         /\ [node EXCEPT !.cur = cur].first = node.first
         /\ [node EXCEPT !.cur = cur].len = node.len
         /\ [node EXCEPT !.cur = cur].cur = cur
<1>1. PICK first, len, m \in Nat :
        first = node.first /\ len = node.len /\ m = MaxBytes /\ first + len <= m /\ cur <= len
  BY MessageTypes
<1>2. cur \in 0..m
  BY <1>1
<1>3. QED
  BY <1>1, <1>2 DEF Message

LEMMA NewOp ==
  ASSUME NEW first \in Nat, NEW len \in Nat, first + len <= MaxBytes,
         NEW from \in {"caller", "queue", "node", "bound"}
  PROVE  /\ Writing(first, len, from) \in Op
         /\ Writing(first, len, from).first = first
         /\ Writing(first, len, from).len = len
         /\ Writing(first, len, from).from = from
         /\ Writing(first, len, from).n = 0
         /\ Writing(first, len, from).st = IF len = 0 THEN "ok" ELSE "pending"
<1>1. PICK m \in Nat : m = MaxBytes
  BY SizesAssumption
<1>2. first \in 0..m /\ len \in 0..m /\ 0 \in 0..m /\ 0 <= len
  BY <1>1
<1>3. QED
  BY <1>1, <1>2 DEF Writing, Op, OpState

LEMMA CompletedOp ==
  ASSUME NEW op \in Op, NEW n \in 1..op.len
  PROVE  /\ [op EXCEPT !.st = "ok", !.n = n] \in Op
         /\ [op EXCEPT !.st = "ok", !.n = n].first = op.first
         /\ [op EXCEPT !.st = "ok", !.n = n].len = op.len
         /\ [op EXCEPT !.st = "ok", !.n = n].from = op.from
         /\ [op EXCEPT !.st = "ok", !.n = n].n = n
         /\ [op EXCEPT !.st = "ok", !.n = n].st = "ok"
<1>1. PICK first, len, m \in Nat :
        first = op.first /\ len = op.len /\ m = MaxBytes /\ first + len <= m /\ n \in 1..len
  BY OpTypes
<1>2. n \in 0..m /\ n <= len
  BY <1>1
<1>3. QED
  BY <1>1, <1>2 DEF Op, OpState

FailedOp(op) == [op EXCEPT !.st = IF @ = "pending" THEN "error" ELSE @]

LEMMA FailedOpTypes ==
  ASSUME NEW op \in Op
  PROVE  /\ FailedOp(op) \in Op
         /\ FailedOp(op).first = op.first /\ FailedOp(op).len = op.len
         /\ FailedOp(op).from = op.from /\ FailedOp(op).n = op.n
         /\ FailedOp(op).st = "ok" <=> op.st = "ok"
         /\ FailedOp(op).st # "pending"
BY DEF FailedOp, Op, OpState

(* What TCP takes of an operation are bytes of the application, or not.    *)
LEMMA PieceTypes ==
  ASSUME NEW op \in Op, NEW n \in 1..op.len
  PROVE  /\ n \in Nat /\ op.first + n <= MaxBytes
         /\ [i \in 1..n |-> op.first + i] \in [1..n -> Byte]
         /\ [i \in 1..n |-> Garbage] \in [1..n -> Byte]
<1>1. PICK first, len, m \in Nat :
        first = op.first /\ len = op.len /\ m = MaxBytes /\ first + len <= m /\ n \in 1..len
  BY OpTypes
<1>2. n \in Nat /\ first + n <= m /\ \A i \in 1..n : first + i \in 1..m
  BY <1>1
<1>3. \A i \in 1..n : op.first + i \in Byte
  BY <1>1, <1>2 DEF Byte
<1>4. Garbage \in Byte
  BY DEF Byte
<1>5. QED
  BY <1>1, <1>2, <1>3, <1>4
-----------------------------------------------------------------------------
LEMMA ReadSteps ==
  ASSUME [Next]_vars
  PROVE  StartRead \/ ReadCallBack \/ ReadCompletes \/ UNCHANGED recvVars
<1>1. UNCHANGED vars => UNCHANGED recvVars
  BY DEF vars
<1>2. Next => StartRead \/ ReadCallBack \/ ReadCompletes \/ UNCHANGED recvVars
  BY DEF Next, WriteHandler, WriteToSocket, WriteAllToSocket, Submit, WriteToSocketErr,
         WriteCallBack, WriteCallBackEmpty, WriteCallBackErr, WriteCallBackError,
         ReadFromSocket, ReadAllFromSocket, WriteSome, WritesFail
<1>3. QED
  BY <1>1, <1>2

(* A read goes on until its node is full, and none is started after that.  *)
LEMMA ReadStep ==
  ASSUME ReadInv, [Next]_vars
  PROVE  ReadInv' /\ (ReadDone => ReadDone') /\ RecvSize \in Nat
<1>1. PICK c, n, size \in Nat :
        /\ c = recv /\ n = read.n /\ size = RecvSize /\ c <= size /\ size # 0
        /\ read.st \in OpState
        /\ read.st # "idle" <=> recvPending /\ c < size
        /\ read.st = "ok" => c + n <= size
        /\ read.st = "error" => n = 0
  BY SizesAssumption DEF ReadInv, RecvNodeFills
<1>2. ReadDone <=> recvPending /\ c = size
  BY <1>1 DEF ReadDone
<1>3. CASE StartRead
  <2>1. ~recvPending /\ recv' = 0 /\ read' = Reading /\ recvPending' = TRUE
    BY <1>3 DEF StartRead
  <2>2. 0 \in 0..size /\ 0 < size
    BY <1>1
  <2>3. ReadInv'
    BY <1>1, <2>1, <2>2 DEF ReadInv, RecvNodeFills, Reading, OpState
  <2>4. QED
    BY <1>1, <1>2, <2>1, <2>3
<1>4. CASE ReadCallBack
  <2>1. /\ read.st \in {"ok", "error"} /\ recvPending /\ recvPending' = recvPending
        /\ recv' = c + n
        /\ \/ c + n < size /\ read' = Reading
           \/ c + n >= size /\ read' = NoRead
    BY <1>1, <1>4 DEF ReadCallBack, ReadInv
  <2>2. c < size /\ c + n <= size /\ c + n \in 0..size /\ 0 \in 0..size
    BY <1>1, <2>1
  <2>3. ReadInv'
    <3>1. CASE c + n < size /\ read' = Reading
      BY <1>1, <2>1, <2>2, <3>1 DEF ReadInv, RecvNodeFills, Reading, OpState
    <3>2. CASE c + n >= size /\ read' = NoRead
      <4>1. ~(c + n < size)
        BY <3>2
      <4>2. QED
        BY <1>1, <2>1, <2>2, <3>2, <4>1 DEF ReadInv, RecvNodeFills, NoRead, OpState
    <3>3. QED
      BY <2>1, <3>1, <3>2
  <2>4. ~ReadDone
    BY <1>2, <2>2
  <2>5. QED
    BY <1>1, <2>3, <2>4
<1>5. CASE ReadCompletes
  <2>1. read.st = "pending" /\ UNCHANGED <<recvPending, recv>>
    BY <1>5 DEF ReadCompletes
  <2>2. PICK m \in Nat :
          /\ c + m <= size /\ m <= size
          /\ \/ read' = [st |-> "ok", n |-> m]
             \/ read' = [st |-> "error", n |-> 0]
    <3>1. CASE \E k \in 1..(RecvSize - recv) : read' = [st |-> "ok", n |-> k]
      <4>1. PICK k \in 1..(size - c) : read' = [st |-> "ok", n |-> k]
        BY <1>1, <3>1
      <4>2. k \in Nat /\ c + k <= size /\ k <= size
        BY <4>1
      <4>3. QED
        BY <4>1, <4>2
    <3>2. CASE read' = [st |-> "error", n |-> 0]
      <4>1. c + 0 <= size /\ 0 <= size
        BY <1>1
      <4>2. QED
        BY <3>2, <4>1
    <3>3. QED
      BY <1>5, <3>1, <3>2 DEF ReadCompletes
  <2>3. m \in 0..size /\ 0 \in 0..size
    BY <2>2
  <2>4. ReadInv'
    BY <1>1, <2>1, <2>2, <2>3 DEF ReadInv, RecvNodeFills, OpState
  <2>5. QED
    BY <1>1, <2>1, <2>4 DEF ReadDone
<1>6. CASE UNCHANGED recvVars
  BY <1>1, <1>6 DEF recvVars, ReadInv, RecvNodeFills, ReadDone
<1>7. QED
  BY <1>3, <1>4, <1>5, <1>6, ReadSteps
(* What was read stays, and a full node is the end of reading.             *)
LEMMA ReadMonotone ==
  ASSUME ReadInv, [Next]_vars
  PROVE  recv' >= recv /\ (recv = RecvSize => UNCHANGED <<recv, read>>)
<1>1. PICK c, n, size \in Nat :
        /\ c = recv /\ n = read.n /\ size = RecvSize /\ c <= size /\ size # 0
        /\ read.st # "idle" <=> recvPending /\ c < size
        /\ ~recvPending => c = 0
  BY SizesAssumption DEF ReadInv, RecvNodeFills
<1>2. CASE StartRead
  <2>1. ~recvPending /\ recv' = 0
    BY <1>2 DEF StartRead
  <2>2. c = 0
    BY <1>1, <2>1
  <2>3. QED
    BY <1>1, <2>1, <2>2
<1>3. CASE ReadCallBack
  <2>1. c < size /\ recv' = c + n
    BY <1>1, <1>3 DEF ReadCallBack
  <2>2. c + n >= c /\ c # size
    BY <1>1, <2>1
  <2>3. QED
    BY <1>1, <2>1, <2>2
<1>4. CASE ReadCompletes
  <2>1. read.st = "pending" /\ recv' = c
    BY <1>1, <1>4 DEF ReadCompletes
  <2>2. c < size
    BY <1>1, <2>1
  <2>3. c >= c /\ c # size
    BY <2>2
  <2>4. QED
    BY <1>1, <2>1, <2>3
<1>5. CASE UNCHANGED <<recvPending, recv, read>>
  <2>1. c >= c
    OBVIOUS
  <2>2. QED
    BY <1>1, <1>5, <2>1
<1>6. StartRead \/ ReadCallBack \/ ReadCompletes \/ UNCHANGED <<recvPending, recv, read>>
  BY ReadSteps DEF recvVars
<1>7. QED
  BY <1>2, <1>3, <1>4, <1>5, <1>6
-----------------------------------------------------------------------------
(* What each step does to send_queue_, the outstanding writes and the      *)
(* bytes the peer gets.                                                    *)
LEMMA SubmitStep ==
  ASSUME TypeInv, NEW len \in MsgLen, Submit(len)
  PROVE  /\ submitted \in Nat /\ len \in Nat /\ submitted' = submitted + len
         /\ submitted' \in 0..MaxBytes /\ messages' \in 0..MaxMsgs
         /\ \E x \in Message :
               /\ queue' = Append(queue, x)
               /\ x.first = submitted /\ x.len = len /\ x.cur = 0
         /\ \/ sendPending /\ writes' = writes
            \/ /\ ~sendPending
               /\ \E w \in Op :
                    /\ writes' = Append(writes, w)
                    /\ w.first = submitted /\ w.len = len /\ w.n = 0 /\ w.from = "caller"
         /\ sendPending' = TRUE
         /\ UNCHANGED <<sendNode, failed, recvVars, wire, application, running>>
<1>1. PICK a, m, k, c \in Nat :
        a = submitted /\ m = MaxBytes /\ k = MaxMsgs /\ c = messages /\ a + len <= m /\ c < k
  BY SizesAssumption DEF TypeInv, Submit
<1>2. len \in Nat /\ a + len \in 0..m /\ c + 1 \in 0..k
  BY <1>1, SizesAssumption
<1>3. /\ Node(a, len) \in Message /\ Node(a, len).first = a /\ Node(a, len).len = len
      /\ Node(a, len).cur = 0
  BY <1>1, <1>2, NewNode
<1>4. /\ Writing(a, len, "caller") \in Op
      /\ Writing(a, len, "caller").first = a /\ Writing(a, len, "caller").len = len
      /\ Writing(a, len, "caller").n = 0 /\ Writing(a, len, "caller").from = "caller"
  BY <1>1, <1>2, NewOp
<1>5. QED
  BY <1>1, <1>2, <1>3, <1>4 DEF Submit

(* The callback of write k, which was of the first message. *)
CallBackOf(k) ==
  /\ k \in 1..Len(writes) /\ writes[k].st = "ok" /\ writes[k] \in Op
  /\ queue # <<>> /\ queue[1] \in Message
  /\ \/ /\ queue[1].cur + writes[k].n < queue[1].len
        /\ \E x \in Message, w \in Op :
             /\ queue' = <<x>> \o Tail(queue)
             /\ x.first = queue[1].first /\ x.len = queue[1].len
             /\ x.cur = queue[1].cur + writes[k].n
             /\ writes' = Append(RemoveAt(writes, k), w)
             /\ w.first = x.first + x.cur /\ w.len = x.len - x.cur
             /\ w.n = 0 /\ w.from = "queue"
        /\ sendPending' = sendPending
     \/ /\ queue[1].cur + writes[k].n >= queue[1].len
        /\ queue' = Tail(queue) /\ Tail(queue) = <<>>
        /\ writes' = RemoveAt(writes, k)
        /\ sendPending' = FALSE
     \/ /\ queue[1].cur + writes[k].n >= queue[1].len
        /\ queue' = Tail(queue) /\ Tail(queue) # <<>>
        /\ 2 \in 1..Len(queue)
        /\ \E w \in Op :
             /\ writes' = Append(RemoveAt(writes, k), w)
             /\ w.first = queue[2].first /\ w.len = queue[2].len
             /\ w.n = 0 /\ w.from = "queue"
        /\ sendPending' = sendPending
  /\ UNCHANGED <<sendNode, submitted, messages, failed, recvVars, wire, application, running>>

LEMMA WriteCallBackStep ==
  ASSUME TypeInv, WriteCallBack
  PROVE  \E k \in 1..Len(writes) : CallBackOf(k)
<1>1. /\ queue # <<>> /\ Head(queue) = queue[1] /\ queue[1] \in Message
      /\ writes \in Seq(Op) /\ DOMAIN writes = 1..Len(writes)
  BY FirstAndRest, LenProperties DEF TypeInv, WriteCallBack
<1>2. PICK k \in 1..Len(writes) :
        /\ writes[k].st = "ok"
        /\ \/ /\ queue[1].cur + writes[k].n < queue[1].len
              /\ queue' = <<[queue[1] EXCEPT !.cur = queue[1].cur + writes[k].n]>> \o Tail(queue)
              /\ writes' = Append(RemoveAt(writes, k),
                                  WriteRest(queue[1], queue[1].cur + writes[k].n))
              /\ sendPending' = sendPending
           \/ /\ queue[1].cur + writes[k].n >= queue[1].len
              /\ queue' = Tail(queue)
              /\ \/ /\ Tail(queue) = <<>>
                    /\ sendPending' = FALSE
                    /\ writes' = RemoveAt(writes, k)
                 \/ /\ Tail(queue) # <<>>
                    /\ writes' = Append(RemoveAt(writes, k), WriteRest(queue[2], 0))
                    /\ sendPending' = sendPending
  BY <1>1 DEF WriteCallBack
<1>3. writes[k] \in Op
  BY <1>1, ElementOfSeq
<1>4. PICK first, len, c, m \in Nat :
        /\ first = queue[1].first /\ len = queue[1].len
        /\ c = queue[1].cur + writes[k].n /\ m = MaxBytes /\ first + len <= m
  <2>1. queue[1].cur + writes[k].n \in Nat
    <3>1. queue[1].cur \in Nat /\ writes[k].n \in Nat
      BY <1>1, <1>3, MessageTypes, OpTypes
    <3>2. QED
      BY <3>1
  <2>2. QED
    BY <1>1, <2>1, MessageTypes
<1>5. UNCHANGED <<sendNode, submitted, messages, failed, recvVars, wire, application, running>>
  BY DEF WriteCallBack
<1>6. CASE /\ c < len
           /\ queue' = <<[queue[1] EXCEPT !.cur = c]>> \o Tail(queue)
           /\ writes' = Append(RemoveAt(writes, k), WriteRest(queue[1], c))
           /\ sendPending' = sendPending
  <2>1. c <= len /\ first + c \in Nat /\ len - c \in Nat /\ (first + c) + (len - c) <= m
    <3>1. c < len
      BY <1>6, Zenon
    <3>2. first + len <= m
      BY <1>4, Zenon
    <3>3. QED
      BY <3>1, <3>2, Partial
  <2>2. PICK x \in Message :
          /\ x = [queue[1] EXCEPT !.cur = c]
          /\ x.first = first /\ x.len = len /\ x.cur = c
    BY <1>1, <1>4, <2>1, AdvancedNode
  <2>3. WriteRest(queue[1], c) = Writing(first + c, len - c, "queue")
    BY <1>4 DEF WriteRest
  <2>4. PICK w \in Op :
          /\ w = WriteRest(queue[1], c)
          /\ w.first = first + c /\ w.len = len - c
          /\ w.n = 0 /\ w.from = "queue"
    <3>1. first + c \in Nat /\ len - c \in Nat /\ (first + c) + (len - c) <= MaxBytes
      <4>1. m = MaxBytes
        BY <1>4, Zenon
      <4>2. QED
        BY <2>1, <4>1
    <3>2. QED
      BY <2>3, <3>1, NewOp
  <2>5. QED
    BY <1>1, <1>2, <1>3, <1>4, <1>5, <1>6, <2>2, <2>4 DEF CallBackOf
<1>7. CASE /\ c >= len
           /\ queue' = Tail(queue) /\ Tail(queue) = <<>>
           /\ writes' = RemoveAt(writes, k)
           /\ sendPending' = FALSE
  BY <1>1, <1>2, <1>3, <1>4, <1>5, <1>7 DEF CallBackOf
<1>8. CASE /\ c >= len
           /\ queue' = Tail(queue) /\ Tail(queue) # <<>>
           /\ writes' = Append(RemoveAt(writes, k), WriteRest(queue[2], 0))
           /\ sendPending' = sendPending
  <2>1. 2 \in 1..Len(queue) /\ queue[2] \in Message
    <3>1. PICK l \in Nat : l = Len(queue) /\ l # 0 /\ l # 1
      BY <1>1, <1>8, FirstAndRest DEF TypeInv
    <3>2. 2 \in 1..l
      BY <3>1
    <3>3. QED
      BY <3>1, <3>2, ElementOfSeq DEF TypeInv
  <2>2. PICK f, l \in Nat : f = queue[2].first /\ l = queue[2].len /\ f + l <= m
    BY <1>4, <2>1, MessageTypes
  <2>3. f + 0 = f /\ l - 0 = l
    BY <2>2
  <2>4. WriteRest(queue[2], 0) = Writing(f, l, "queue")
    BY <2>2, <2>3 DEF WriteRest
  <2>5. PICK w \in Op :
          w = WriteRest(queue[2], 0) /\ w.first = f /\ w.len = l /\ w.n = 0 /\ w.from = "queue"
    <3>1. f \in Nat /\ l \in Nat /\ f + l <= MaxBytes
      <4>1. m = MaxBytes
        BY <1>4, Zenon
      <4>2. QED
        BY <2>2, <4>1, Zenon
    <3>2. QED
      BY <2>4, <3>1, NewOp
  <2>6. queue[1].cur + writes[k].n >= queue[1].len
    <3>1. c >= len
      BY <1>8, Zenon
    <3>2. c = queue[1].cur + writes[k].n /\ len = queue[1].len
      BY <1>4, Zenon
    <3>3. QED
      BY <3>1, <3>2
  <2>7. \E v \in Op :
          /\ writes' = Append(RemoveAt(writes, k), v)
          /\ v.first = queue[2].first /\ v.len = queue[2].len
          /\ v.n = 0 /\ v.from = "queue"
    BY <1>8, <2>2, <2>5, Zenon
  <2>8. k \in 1..Len(writes) /\ writes[k].st = "ok"
    BY <1>2, Zenon
  <2>9. QED
    BY <1>1, <1>3, <1>5, <1>8, <2>1, <2>6, <2>7, <2>8, Zenon DEF CallBackOf
<1>9. QED
  BY <1>2, <1>4, <1>6, <1>7, <1>8

LEMMA WriteSomeStep ==
  ASSUME TypeInv, WriteSome
  PROVE  \E k \in 1..Len(writes) : \E n \in 1..writes[k].len :
           /\ writes[k] \in Op /\ writes[k].st = "pending"
           /\ \A j \in 1..(k - 1) : writes[j].st # "pending"
           /\ writes' \in Seq(Op) /\ Len(writes') = Len(writes)
           /\ writes'[k].first = writes[k].first /\ writes'[k].len = writes[k].len
           /\ writes'[k].from = writes[k].from
           /\ writes'[k].n = n /\ writes'[k].st = "ok"
           /\ \A j \in 1..Len(writes) : j # k => writes'[j] = writes[j]
           /\ wire' \in Seq(Byte) /\ Len(wire') = Len(wire) + n
           /\ \A i \in 1..Len(wire) : wire'[i] = wire[i]
           /\ \/ \A i \in 1..n : wire'[Len(wire) + i] = writes[k].first + i
              \/ /\ Dangling(writes[k])
                 /\ \A i \in 1..n : wire'[Len(wire) + i] = Garbage
           /\ UNCHANGED <<queue, sendPending, sendNode, submitted, messages, failed,
                          recvVars, application, running>>
<1>1. writes \in Seq(Op) /\ wire \in Seq(Byte) /\ DOMAIN writes = 1..Len(writes)
  BY LenProperties DEF TypeInv
<1>2. PICK k \in 1..Len(writes) :
        /\ writes[k].st = "pending"
        /\ \A j \in 1..(k - 1) : writes[j].st # "pending"
        /\ \E n \in 1..writes[k].len :
             /\ writes' = [writes EXCEPT ![k].st = "ok", ![k].n = n]
             /\ \/ wire' = wire \o [i \in 1..n |-> writes[k].first + i]
                \/ /\ Dangling(writes[k])
                   /\ wire' = wire \o [i \in 1..n |-> Garbage]
  BY <1>1 DEF WriteSome
<1>3. PICK n \in 1..writes[k].len :
        /\ writes' = [writes EXCEPT ![k].st = "ok", ![k].n = n]
        /\ \/ wire' = wire \o [i \in 1..n |-> writes[k].first + i]
           \/ /\ Dangling(writes[k])
              /\ wire' = wire \o [i \in 1..n |-> Garbage]
  BY <1>2
<1>4. PICK op \in Op : op = writes[k]
  BY <1>1, ElementOfSeq
<1>5. PICK w \in Op :
        /\ w = [op EXCEPT !.st = "ok", !.n = n]
        /\ w.first = op.first /\ w.len = op.len /\ w.from = op.from /\ w.n = n /\ w.st = "ok"
  <2>1. n \in 1..op.len
    BY <1>4
  <2> DEFINE v == [op EXCEPT !.st = "ok", !.n = n]
  <2>2. /\ v \in Op
        /\ v.first = op.first /\ v.len = op.len /\ v.from = op.from /\ v.n = n /\ v.st = "ok"
    BY <2>1, CompletedOp
  <2>3. QED
    BY <2>2
<1>6. writes' = [writes EXCEPT ![k] = w]
  BY <1>1, <1>3, <1>4, <1>5
<1>7. /\ writes' \in Seq(Op) /\ Len(writes') = Len(writes)
      /\ writes'[k] = w
      /\ \A j \in 1..Len(writes) : j # k => writes'[j] = writes[j]
  BY <1>1, <1>6, ExceptSeq
<1>8. PICK e \in [1..n -> Byte] :
        /\ wire' = wire \o e
        /\ \/ \A i \in 1..n : e[i] = op.first + i
           \/ Dangling(op) /\ \A i \in 1..n : e[i] = Garbage
  <2>1. /\ [i \in 1..n |-> op.first + i] \in [1..n -> Byte]
        /\ [i \in 1..n |-> Garbage] \in [1..n -> Byte]
    BY <1>4, PieceTypes
  <2>2. CASE wire' = wire \o [i \in 1..n |-> op.first + i]
    BY <2>1, <2>2
  <2>3. CASE Dangling(op) /\ wire' = wire \o [i \in 1..n |-> Garbage]
    BY <2>1, <2>3
  <2>4. QED
    BY <1>3, <1>4, <2>2, <2>3
<1>9. /\ wire' \in Seq(Byte) /\ Len(wire') = Len(wire) + n
      /\ \A i \in 1..Len(wire) : wire'[i] = wire[i]
      /\ \A i \in 1..n : wire'[Len(wire) + i] = e[i]
  <2>1. n \in Nat
    BY <1>4, PieceTypes
  <2>2. QED
    BY <1>1, <1>8, <2>1, Extended
<1>10. UNCHANGED <<queue, sendPending, sendNode, submitted, messages, failed,
                   recvVars, application, running>>
  BY DEF WriteSome
<1>11. /\ writes[k] \in Op
       /\ writes'[k].first = writes[k].first /\ writes'[k].len = writes[k].len
       /\ writes'[k].from = writes[k].from
       /\ writes'[k].n = n /\ writes'[k].st = "ok"
  BY <1>4, <1>5, <1>7
<1>12. \/ \A i \in 1..n : wire'[Len(wire) + i] = writes[k].first + i
       \/ /\ Dangling(writes[k])
          /\ \A i \in 1..n : wire'[Len(wire) + i] = Garbage
  BY <1>4, <1>8, <1>9
<1>13. QED
  BY <1>2, <1>7, <1>9, <1>10, <1>11, <1>12

LEMMA WritesFailStep ==
  ASSUME TypeInv, WritesFail
  PROVE  /\ writes' \in Seq(Op) /\ Len(writes') = Len(writes)
         /\ \A k \in 1..Len(writes) : writes[k] \in Op /\ writes'[k] = FailedOp(writes[k])
         /\ UNCHANGED <<queue, sendPending, sendNode, submitted, messages, failed, recvVars,
                        wire, application, running>>
<1>1. /\ Len(writes) \in Nat /\ DOMAIN writes = 1..Len(writes)
      /\ \A k \in 1..Len(writes) : writes[k] \in Op
  BY LenProperties, ElementOfSeq DEF TypeInv
<1>2. writes' = [k \in 1..Len(writes) |-> FailedOp(writes[k])]
  BY <1>1 DEF WritesFail, FailedOp
<1>3. \A k \in 1..Len(writes) : FailedOp(writes[k]) \in Op
  BY <1>1, FailedOpTypes
<1>4. writes' \in [1..Len(writes) -> Op]
  BY <1>2, <1>3
<1>5. writes' \in Seq(Op)
  BY <1>1, <1>4, SeqDef
<1>6. Len(writes') = Len(writes)
  BY <1>1, <1>4, <1>5, LenProperties
<1>7. QED
  BY <1>1, <1>2, <1>5, <1>6 DEF WritesFail

LEMMA WriteToSocketErrStep ==
  ASSUME TypeInv, WriteToSocketErr
  PROVE  /\ submitted \in Nat
         /\ waits => writes = <<>>
         /\ submitted' \in 0..MaxBytes /\ messages' \in 0..MaxMsgs
         /\ \E w \in Op :
               /\ writes' = Append(writes, w)
               /\ w.first = submitted /\ submitted' = submitted + w.len
               /\ sendNode' = [first |-> w.first, len |-> w.len]
               /\ w.n = 0 /\ w.from = "node"
               /\ w.len # 0 => w.st = "pending"
         /\ UNCHANGED <<queue, sendPending, failed, recvVars, wire, application, running>>
<1>1. PICK len \in MsgLen :
        /\ submitted + len <= MaxBytes
        /\ sendNode' = [first |-> submitted, len |-> len]
        /\ writes' = Append(writes, Writing(submitted, len, "node"))
        /\ submitted' = submitted + len
  BY DEF WriteToSocketErr
<1>2. PICK a, m, k, c \in Nat :
        a = submitted /\ m = MaxBytes /\ k = MaxMsgs /\ c = messages /\ a + len <= m /\ c < k
  BY <1>1, SizesAssumption DEF TypeInv, WriteToSocketErr
<1>3. len \in Nat /\ a + len \in 0..m /\ c + 1 \in 0..k
  BY <1>2, SizesAssumption
<1>4. PICK w \in Op :
        /\ w = Writing(a, len, "node")
        /\ w.first = a /\ w.len = len /\ w.n = 0 /\ w.from = "node"
        /\ len # 0 => w.st = "pending"
  BY <1>2, <1>3, NewOp
<1>5. messages' = c + 1 /\ (waits => writes = <<>>)
  BY <1>2 DEF WriteToSocketErr
<1>6. UNCHANGED <<queue, sendPending, failed, recvVars, wire, application, running>>
  BY DEF WriteToSocketErr
<1>7. QED
  BY <1>1, <1>2, <1>3, <1>4, <1>5, <1>6

(* The callback of write k, one of send_node_. *)
CallBackErrOf(k) ==
  /\ k \in 1..Len(writes) /\ writes[k].st = "ok" /\ writes[k] \in Op
  /\ \/ /\ writes[k].n < sendNode.len
        /\ \E w \in Op :
             /\ writes' = Append(RemoveAt(writes, k), w)
             /\ w.first = sendNode.first /\ w.len = sendNode.len
             /\ w.st = "pending" /\ w.from = "bound"
     \/ /\ writes[k].n >= sendNode.len
        /\ writes' = RemoveAt(writes, k)
  /\ UNCHANGED <<queue, sendPending, sendNode, submitted, messages, failed, recvVars,
                 wire, application, running>>

LEMMA WriteCallBackErrStep ==
  ASSUME TypeInv, WriteCallBackErr
  PROVE  \E k \in 1..Len(writes) : CallBackErrOf(k)
<1>1. writes \in Seq(Op) /\ DOMAIN writes = 1..Len(writes)
  BY LenProperties DEF TypeInv
<1>2. PICK k \in 1..Len(writes) :
        /\ writes[k].st = "ok"
        /\ \/ /\ writes[k].n < sendNode.len
              /\ writes' = Append(RemoveAt(writes, k),
                                  Writing(sendNode.first, sendNode.len, "bound"))
           \/ /\ writes[k].n >= sendNode.len
              /\ writes' = RemoveAt(writes, k)
  BY <1>1 DEF WriteCallBackErr
<1>3. writes[k] \in Op
  BY <1>1, ElementOfSeq
<1>4. PICK n, first, len \in Nat :
        n = writes[k].n /\ first = sendNode.first /\ len = sendNode.len /\ first + len <= MaxBytes
  BY <1>3, OpTypes, SizesAssumption DEF TypeInv
<1>5. UNCHANGED <<queue, sendPending, sendNode, submitted, messages, failed, recvVars,
                  wire, application, running>>
  BY DEF WriteCallBackErr
<1>6. CASE n < len /\ writes' = Append(RemoveAt(writes, k), Writing(first, len, "bound"))
  <2>1. len # 0
    BY <1>4, <1>6
  <2>2. PICK w \in Op :
          /\ w = Writing(first, len, "bound")
          /\ w.first = first /\ w.len = len /\ w.st = "pending" /\ w.from = "bound"
    BY <1>4, <2>1, NewOp
  <2>3. QED
    BY <1>2, <1>3, <1>4, <1>5, <1>6, <2>2 DEF CallBackErrOf
<1>7. CASE n >= len /\ writes' = RemoveAt(writes, k)
  BY <1>2, <1>3, <1>4, <1>5, <1>7 DEF CallBackErrOf
<1>8. QED
  BY <1>2, <1>4, <1>6, <1>7

LEMMA WriteCallBackErrorStep ==
  ASSUME TypeInv, WriteCallBackError
  PROVE  /\ \E k \in 1..Len(writes) : writes[k].st = "error" /\ writes' = RemoveAt(writes, k)
         /\ failed' = TRUE
         /\ UNCHANGED <<queue, sendPending, sendNode, submitted, messages, recvVars, wire,
                        application, running>>
BY LenProperties DEF WriteCallBackError, TypeInv

(* The steps that only receive, or only end the model, leave the rest.     *)
LEMMA OtherSteps ==
  ASSUME ReadInv, [Next]_vars
  PROVE  \/ ~usesNode /\ \E len \in MsgLen : Submit(len)
         \/ ~usesNode /\ WriteCallBack
         \/ usesNode /\ (WriteToSocketErr \/ WriteCallBackErr)
         \/ WriteCallBackError \/ WriteSome \/ WritesFail
         \/ /\ UNCHANGED <<queue, writes, sendNode, submitted, messages, failed, wire,
                           application>>
            /\ running' \in {running, FALSE}
            /\ sendPending' = sendPending \/ (sendPending' = FALSE /\ ReadDone')
<1>1. CASE ReadCallBack
  <2>1. PICK c, n, size \in Nat :
          /\ c = recv /\ n = read.n /\ size = RecvSize
          /\ recvPending /\ c + n <= size
    <3>1. recv \in Nat /\ read.n \in Nat /\ RecvSize \in Nat
      BY SizesAssumption DEF ReadInv
    <3>2. recvPending /\ recv + read.n <= RecvSize
      <4>1. read.st \in {"ok", "error"}
        BY <1>1 DEF ReadCallBack
      <4>2. CASE read.st = "ok"
        BY <4>2 DEF ReadInv, RecvNodeFills
      <4>3. CASE read.st = "error"
        <5>1. PICK c, size \in Nat : c = recv /\ size = RecvSize /\ recvPending /\ c < size
          BY <3>1, <4>3 DEF ReadInv, RecvNodeFills
        <5>2. c + 0 <= size
          BY <5>1
        <5>3. QED
          BY <4>3, <5>1, <5>2 DEF ReadInv
      <4>4. QED
        BY <4>1, <4>2, <4>3
    <3>3. QED
      BY <3>1, <3>2
  <2>2. /\ UNCHANGED <<queue, writes, sendNode, submitted, messages, failed, wire,
                       application, running>>
        /\ recvPending' = recvPending /\ recv' = c + n
        /\ \/ sendPending' = sendPending
           \/ c + n >= size /\ sendPending' = FALSE
    BY <1>1, <2>1 DEF ReadCallBack
  <2>3. c + n >= size => c + n = size
    BY <2>1
  <2>4. QED
    BY <2>1, <2>2, <2>3 DEF ReadDone
<1>2. CASE StartRead \/ ReadCompletes \/ WriteCallBackEmpty \/ UNCHANGED vars
  BY <1>2 DEF StartRead, ReadCompletes, WriteCallBackEmpty, vars, sendVars
<1>3. QED
  BY <1>1, <1>2 DEF Next, WriteHandler, WriteToSocket, WriteAllToSocket, ReadFromSocket,
                    ReadAllFromSocket
-----------------------------------------------------------------------------
LEMMA TypeStep ==
  ASSUME TypeInv, ReadInv, [Next]_vars
  PROVE  TypeInv' /\ UNCHANGED application
<1>1. ASSUME NEW len \in MsgLen, Submit(len) PROVE TypeInv' /\ UNCHANGED application
  <2>1. PICK x \in Message : queue' = Append(queue, x)
    BY <1>1, SubmitStep
  <2>2. queue' \in Seq(Message)
    BY <2>1, Appended DEF TypeInv
  <2>3. writes' \in Seq(Op)
    <3>1. CASE writes' = writes
      BY <3>1 DEF TypeInv
    <3>2. ASSUME NEW w \in Op, writes' = Append(writes, w) PROVE writes' \in Seq(Op)
      BY <3>2, Appended DEF TypeInv
    <3>3. QED
      BY <1>1, <3>1, <3>2, SubmitStep
  <2>4. /\ submitted' \in 0..MaxBytes /\ messages' \in 0..MaxMsgs /\ sendPending' = TRUE
        /\ UNCHANGED <<sendNode, failed, recvVars, wire, application, running>>
    BY <1>1, SubmitStep
  <2>5. QED
    BY <2>2, <2>3, <2>4 DEF TypeInv, application
<1>2. CASE WriteCallBack
  <2>1. PICK k \in 1..Len(writes) : CallBackOf(k)
    BY <1>2, WriteCallBackStep
  <2>2. /\ queue \in Seq(Message) /\ Tail(queue) \in Seq(Message)
        /\ \A x \in Message : <<x>> \o Tail(queue) \in Seq(Message)
    BY <2>1, FirstAndRest, FirstReplaced DEF TypeInv, CallBackOf
  <2>3. /\ RemoveAt(writes, k) \in Seq(Op)
        /\ \A w \in Op : Append(RemoveAt(writes, k), w) \in Seq(Op)
    BY <2>1, Removed, Appended DEF TypeInv
  <2>4. queue' \in Seq(Message) /\ writes' \in Seq(Op) /\ sendPending' \in BOOLEAN
    BY <2>1, <2>2, <2>3 DEF TypeInv, CallBackOf
  <2>5. UNCHANGED <<sendNode, submitted, messages, failed, wire, application, running>>
    BY <2>1 DEF CallBackOf
  <2>6. QED
    BY <2>4, <2>5 DEF TypeInv, application
<1>3. CASE WriteToSocketErr
  <2>1. PICK w \in Op :
          /\ writes' = Append(writes, w)
          /\ sendNode' = [first |-> w.first, len |-> w.len]
    BY <1>3, WriteToSocketErrStep
  <2>2. writes' \in Seq(Op)
    BY <2>1, Appended DEF TypeInv
  <2>3. /\ sendNode' \in [first : 0..MaxBytes, len : 0..MaxBytes]
        /\ sendNode'.first + sendNode'.len <= MaxBytes
    BY <2>1 DEF Op
  <2>4. QED
    BY <1>3, <2>2, <2>3, WriteToSocketErrStep DEF TypeInv, application
<1>4. CASE WriteCallBackErr
  <2>1. PICK k \in 1..Len(writes) : CallBackErrOf(k)
    BY <1>4, WriteCallBackErrStep
  <2>2. /\ RemoveAt(writes, k) \in Seq(Op)
        /\ \A w \in Op : Append(RemoveAt(writes, k), w) \in Seq(Op)
    BY <2>1, Removed, Appended DEF TypeInv
  <2>3. writes' \in Seq(Op)
    BY <2>1, <2>2 DEF CallBackErrOf
  <2>4. UNCHANGED <<queue, sendPending, sendNode, submitted, messages, failed,
                    wire, application, running>>
    BY <2>1 DEF CallBackErrOf
  <2>5. QED
    BY <2>3, <2>4 DEF TypeInv, application
<1>5. CASE WriteCallBackError
  <2>1. writes' \in Seq(Op)
    BY <1>5, WriteCallBackErrorStep, Removed DEF TypeInv
  <2>2. QED
    BY <1>5, <2>1, WriteCallBackErrorStep DEF TypeInv, application
<1>6. CASE WriteSome
  <2>1. /\ writes' \in Seq(Op) /\ wire' \in Seq(Byte)
        /\ UNCHANGED <<queue, sendPending, sendNode, submitted, messages, failed,
                       application, running>>
    BY <1>6, WriteSomeStep
  <2>2. QED
    BY <2>1 DEF TypeInv, application
<1>7. CASE WritesFail
  <2>1. /\ writes' \in Seq(Op)
        /\ UNCHANGED <<queue, sendPending, sendNode, submitted, messages, failed,
                       wire, application, running>>
    BY <1>7, WritesFailStep
  <2>2. QED
    BY <2>1 DEF TypeInv, application
<1>8. CASE /\ UNCHANGED <<queue, writes, sendNode, submitted, messages, failed, wire,
                          application>>
           /\ running' \in {running, FALSE}
           /\ sendPending' = sendPending \/ (sendPending' = FALSE /\ ReadDone')
  BY <1>8 DEF TypeInv, application
<1>9. QED
  BY <1>1, <1>2, <1>3, <1>4, <1>5, <1>6, <1>7, <1>8, OtherSteps
-----------------------------------------------------------------------------
(* send_pending_ and the queue.                                            *)
LEMMA ChainAppend ==
  ASSUME NEW q \in Seq(Message), NEW a \in Nat, NEW len \in Nat, NEW x \in Message,
         x.first = a, x.len = len, x.cur = 0, Chain(q, a)
  PROVE  Chain(Append(q, x), a + len)
<1>1. PICK n \in Nat : n = Len(q)
  BY LenProperties
<1>2. PICK r \in Seq(Message) :
        r = Append(q, x) /\ Len(r) = n + 1 /\ r[n + 1] = x /\ \A k \in 1..n : r[k] = q[k]
  <2>1. /\ Append(q, x) \in Seq(Message)
        /\ Len(Append(q, x)) = Len(q) + 1
        /\ Append(q, x)[Len(q) + 1] = x
        /\ \A k \in 1..Len(q) : Append(q, x)[k] = q[k]
    BY Appended
  <2>2. QED
    BY <1>1, <2>1
<1>3. ASSUME NEW k \in 1..(n + 1)
      PROVE  /\ r[k].first + r[k].len = IF k = n + 1 THEN a + len ELSE r[k + 1].first
             /\ r[k].first + r[k].len <= a + len
             /\ k # 1 => r[k].cur = 0
  <2>1. CASE k = n + 1
    BY <1>2, <2>1
  <2>2. CASE k # n + 1
    <3>1. k \in 1..n /\ (k # n => k + 1 \in 1..n)
      BY <2>2
    <3>2. PICK e \in Nat :
            /\ e = q[k].first + q[k].len /\ e <= a
            /\ e = IF k = n THEN a ELSE q[k + 1].first
            /\ k # 1 => q[k].cur = 0
      <4>1. q[k].first \in Nat /\ q[k].len \in Nat
        BY <1>1, <3>1, ElementOfSeq, MessageTypes
      <4>2. QED
        BY <1>1, <3>1, <4>1 DEF Chain
    <3>3. r[k + 1].first = IF k = n THEN a ELSE q[k + 1].first
      BY <1>2, <3>1
    <3>4. e <= a + len
      BY <3>2
    <3>5. QED
      BY <1>2, <2>2, <3>1, <3>2, <3>3, <3>4
  <2>3. QED
    BY <2>1, <2>2
<1>4. QED
  BY <1>2, <1>3 DEF Chain

LEMMA ChainAdvance ==
  ASSUME NEW q \in Seq(Message), q # <<>>, NEW a \in Nat, NEW x \in Message,
         x.first = q[1].first, x.len = q[1].len, Chain(q, a)
  PROVE  Chain(<<x>> \o Tail(q), a)
<1>1. PICK n \in Nat : n = Len(q)
  BY LenProperties
<1>2. PICK r \in Seq(Message) :
        r = <<x>> \o Tail(q) /\ Len(r) = n /\ r[1] = x /\ \A k \in 2..n : r[k] = q[k]
  <2>1. /\ <<x>> \o Tail(q) \in Seq(Message)
        /\ Len(<<x>> \o Tail(q)) = Len(q)
        /\ (<<x>> \o Tail(q))[1] = x
        /\ \A k \in 2..Len(q) : (<<x>> \o Tail(q))[k] = q[k]
    BY FirstReplaced
  <2>2. QED
    BY <1>1, <2>1
<1>3. ASSUME NEW k \in 1..n
      PROVE  /\ r[k].first = q[k].first /\ r[k].len = q[k].len
             /\ k # 1 => r[k].cur = q[k].cur
             /\ k # n => r[k + 1].first = q[k + 1].first
  <2>1. (k # 1 => k \in 2..n) /\ (k # n => k + 1 \in 2..n)
    OBVIOUS
  <2>2. QED
    BY <1>2, <2>1
<1>4. QED
  BY <1>1, <1>2, <1>3 DEF Chain

LEMMA ChainTail ==
  ASSUME NEW q \in Seq(Message), q # <<>>, NEW a \in Nat, Chain(q, a)
  PROVE  /\ Chain(Tail(q), a)
         /\ q[1].first + q[1].len = IF Tail(q) = <<>> THEN a ELSE q[2].first
         /\ Tail(q) # <<>> => Tail(q)[1] = q[2] /\ q[2].cur = 0
         /\ q[1].first + q[1].len <= a
<1>1. PICK n \in Nat : n = Len(q) /\ n # 0 /\ (Tail(q) = <<>> <=> n = 1)
  BY FirstAndRest
<1>2. PICK r \in Seq(Message) :
        r = Tail(q) /\ Len(r) = n - 1 /\ \A k \in 1..(n - 1) : r[k] = q[k + 1]
  <2>1. /\ Tail(q) \in Seq(Message) /\ Len(Tail(q)) = Len(q) - 1
        /\ \A k \in 1..(Len(q) - 1) : Tail(q)[k] = q[k + 1]
    BY FirstAndRest
  <2>2. QED
    BY <1>1, <2>1
<1>3. ASSUME NEW k \in 1..(n - 1)
      PROVE  /\ r[k].first + r[k].len = IF k = n - 1 THEN a ELSE r[k + 1].first
             /\ r[k].first + r[k].len <= a
             /\ r[k].cur = 0
  <2>1. /\ k + 1 \in 1..n /\ k + 1 # 1
        /\ k = n - 1 <=> k + 1 = n
        /\ k # n - 1 => k + 1 \in 1..(n - 1)
    OBVIOUS
  <2>2. /\ q[k + 1].first + q[k + 1].len = IF k + 1 = n THEN a ELSE q[(k + 1) + 1].first
        /\ q[k + 1].first + q[k + 1].len <= a
        /\ q[k + 1].cur = 0
    BY <1>1, <2>1 DEF Chain
  <2>3. r[k] = q[k + 1]
    BY <1>2
  <2>4. CASE k = n - 1
    BY <2>1, <2>2, <2>3, <2>4
  <2>5. CASE k # n - 1
    <3>1. r[k + 1] = q[(k + 1) + 1]
      BY <1>2, <2>1, <2>5
    <3>2. QED
      BY <2>1, <2>2, <2>3, <2>5, <3>1
  <2>6. QED
    BY <2>4, <2>5
<1>4. Chain(r, a)
  BY <1>2, <1>3 DEF Chain
<1>5. /\ 1 \in 1..n /\ 1 + 1 = 2
      /\ n # 1 => 2 \in 1..n /\ 1 \in 1..(n - 1)
  BY <1>1
<1>6. /\ q[1].first + q[1].len = IF n = 1 THEN a ELSE q[2].first
      /\ q[1].first + q[1].len <= a
      /\ n # 1 => q[2].cur = 0
  BY <1>1, <1>5 DEF Chain
<1>7. n # 1 => r[1] = q[2]
  BY <1>2, <1>5
<1>8. QED
  BY <1>1, <1>2, <1>4, <1>6, <1>7

LEMMA ChainEmpty == \A a : Chain(<<>>, a)
<1>1. Len(<<>>) = 0 /\ 1..0 = {}
  OBVIOUS
<1>2. QED
  BY <1>1 DEF Chain

(* With one write outstanding, its callback leaves at most the next one.   *)
LEMMA OnlyOne ==
  ASSUME NEW w \in Seq(Op), Len(w) <= 1, NEW k \in 1..Len(w)
  PROVE  /\ k = 1 /\ Len(w) = 1 /\ w # <<>> /\ RemoveAt(w, k) = <<>>
         /\ \A x \in Op : /\ Append(RemoveAt(w, k), x) # <<>>
                          /\ Len(Append(RemoveAt(w, k), x)) = 1
                          /\ Append(RemoveAt(w, k), x)[1] = x
<1>1. PICK n \in Nat : n = Len(w) /\ n # 0 /\ n <= 1 /\ k \in 1..n
  BY Removed
<1>2. n = 1 /\ k = 1
  BY <1>1
<1>3. RemoveAt(w, k) = <<>>
  <2>1. RemoveAt(w, k) \in Seq(Op) /\ Len(RemoveAt(w, k)) = 0
    <3>1. n - 1 = 0
      BY <1>2
    <3>2. QED
      BY <1>1, <3>1, Removed
  <2>2. QED
    BY <2>1, EmptySeq
<1>4. <<>> \in Seq(Op) /\ Len(<<>>) = 0
  BY EmptySeq
<1>5. ASSUME NEW x \in Op
      PROVE  /\ Append(<<>>, x) # <<>>
             /\ Len(Append(<<>>, x)) = 1 /\ Append(<<>>, x)[1] = x
  BY <1>4, Appended
<1>6. QED
  BY <1>1, <1>2, <1>3, <1>5, Removed
-----------------------------------------------------------------------------
LEMMA SubmitSound ==
  ASSUME TypeInv, Sound, NEW len \in MsgLen, Submit(len)
  PROVE  Sound'
<1>1. PICK x \in Message, a, l \in Nat :
        /\ a = submitted /\ l = len /\ submitted' = a + l
        /\ queue' = Append(queue, x)
        /\ x.first = a /\ x.len = l /\ x.cur = 0
  <2>1. submitted \in Nat /\ len \in Nat /\ submitted' = submitted + len
    BY SubmitStep
  <2>2. PICK x \in Message :
          queue' = Append(queue, x) /\ x.first = submitted /\ x.len = len /\ x.cur = 0
    BY SubmitStep
  <2>3. QED
    BY <2>1, <2>2
<1>2. PICK n, m \in Nat : n = Len(queue) /\ m = Len(wire) /\ m <= a
  BY <1>1, LenProperties DEF TypeInv, Sound
<1>3. /\ queue' # <<>>
      /\ Chain(queue, submitted)'
  <2>1. queue \in Seq(Message) /\ Chain(queue, a)
    BY <1>1 DEF TypeInv, Sound
  <2>2. Chain(Append(queue, x), a + l) /\ Append(queue, x) # <<>>
    BY <1>1, <2>1, ChainAppend, Appended
  <2>3. QED
    BY <1>1, <2>2 DEF Chain
<1>4. m <= a + l
  BY <1>2
<1>5. InOrder' /\ UNCHANGED <<wire, failed>>
  BY SubmitStep DEF Sound, InOrder, application
<1>6. sendPending' = TRUE
  BY SubmitStep
<1>7. /\ Len(writes') <= 1 /\ (writes' # <<>> => SendsHead(writes[1])')
      /\ writes' = <<>> <=> failed
  <2>1. CASE sendPending /\ writes' = writes
    <3>1. queue # <<>> /\ (writes = <<>> <=> failed)
      BY <2>1 DEF Sound
    <3>2. queue'[1] = queue[1]
      <4>1. 1 \in 1..Len(queue) /\ queue \in Seq(Message)
        BY <3>1, EmptySeq DEF TypeInv
      <4>2. QED
        BY <1>1, <4>1, Appended
    <3>3. QED
      BY <1>3, <1>5, <2>1, <3>1, <3>2 DEF Sound, SendsHead
  <2>2. ASSUME ~sendPending, NEW w \in Op, writes' = Append(writes, w),
               w.first = a, w.len = l, w.n = 0, w.from = "caller"
        PROVE  Len(writes') <= 1 /\ writes' # <<>> /\ SendsHead(writes[1])' /\ ~failed
    <3>1. queue = <<>> /\ writes = <<>> /\ m = a /\ ~failed
      BY <1>1, <1>2, <2>2 DEF Sound, SendsHead
    <3>2. writes' # <<>> /\ Len(writes') = 1 /\ writes'[1] = w
      <4>1. <<>> \in Seq(Op) /\ Len(<<>>) = 0
        BY EmptySeq
      <4>2. QED
        BY <2>2, <3>1, <4>1, Appended
    <3>3. queue'[1] = x
      <4>1. <<>> \in Seq(Message) /\ Len(<<>>) = 0
        BY EmptySeq
      <4>2. QED
        BY <1>1, <3>1, <4>1, Appended
    <3>4. a = a + 0 /\ l = l - 0
      OBVIOUS
    <3>5. QED
      BY <1>1, <1>2, <1>3, <1>5, <2>2, <3>1, <3>2, <3>3, <3>4 DEF SendsHead
  <2>3. \/ sendPending /\ writes' = writes
        \/ /\ ~sendPending
           /\ \E w \in Op :
                /\ writes' = Append(writes, w)
                /\ w.first = submitted /\ w.len = len /\ w.n = 0 /\ w.from = "caller"
    BY SubmitStep
  <2>4. CASE /\ ~sendPending
             /\ \E w \in Op :
                  /\ writes' = Append(writes, w)
                  /\ w.first = a /\ w.len = l /\ w.n = 0 /\ w.from = "caller"
    BY <2>2, <2>4
  <2>5. QED
    BY <1>1, <2>1, <2>3, <2>4
<1>8. QED
  BY <1>1, <1>2, <1>3, <1>4, <1>5, <1>6, <1>7 DEF Sound

LEMMA WriteCallBackSound ==
  ASSUME TypeInv, Sound, WriteCallBack
  PROVE  Sound'
<1>1. PICK k \in 1..Len(writes) : CallBackOf(k)
  BY WriteCallBackStep
<1>2. /\ k = 1 /\ writes # <<>> /\ queue # <<>> /\ writes[1].st = "ok"
      /\ writes[1] \in Op /\ queue[1] \in Message
      /\ UNCHANGED <<sendNode, submitted, messages, failed, recvVars, wire, application, running>>
  <2>1. k = 1 /\ writes # <<>>
    BY OnlyOne DEF TypeInv, Sound
  <2>2. QED
    BY <1>1, <2>1 DEF CallBackOf
<1>3. PICK first, len, cur, n, a, m \in Nat :
        /\ first = queue[1].first /\ len = queue[1].len /\ cur = queue[1].cur
        /\ n = writes[1].n /\ a = submitted /\ m = Len(wire)
        /\ m = (first + cur) + n /\ n <= len - cur /\ cur <= len
  <2>1. submitted \in Nat /\ Len(wire) \in Nat
    BY SizesAssumption, LenProperties DEF TypeInv
  <2>2. /\ Len(wire) = writes[1].first + writes[1].n
        /\ writes[1].first = queue[1].first + queue[1].cur
        /\ writes[1].len = queue[1].len - queue[1].cur
    BY <1>2 DEF Sound, SendsHead
  <2>3. PICK first, len, cur, n \in Nat :
          /\ first = queue[1].first /\ len = queue[1].len /\ cur = queue[1].cur
          /\ n = writes[1].n /\ cur <= len
    BY <1>2, MessageTypes, OpTypes
  <2>4. n <= len - cur /\ Len(wire) = (first + cur) + n
    BY <1>2, <2>2, <2>3, OpTypes
  <2>5. QED
    BY <2>1, <2>3, <2>4
<1>4. /\ queue \in Seq(Message) /\ Chain(queue, a)
      /\ writes \in Seq(Op) /\ Len(writes) <= 1
      /\ sendPending = TRUE
  BY <1>2, <1>3 DEF TypeInv, Sound
<1>5. /\ InOrder' /\ m <= a /\ Len(wire') <= submitted' /\ Len(wire') = m /\ submitted' = a
      /\ ~failed'
  BY <1>2, <1>3 DEF Sound, InOrder, application
<1>6. CASE cur + n < len
  <2>1. PICK x \in Message, w \in Op :
          /\ queue' = <<x>> \o Tail(queue)
          /\ x.first = first /\ x.len = len /\ x.cur = cur + n
          /\ writes' = Append(RemoveAt(writes, 1), w)
          /\ w.first = x.first + x.cur /\ w.len = x.len - x.cur
          /\ w.n = 0 /\ w.from = "queue"
          /\ sendPending' = sendPending
    <3>1. ~(cur + n >= len)
      BY <1>6
    <3>2. QED
      BY <1>1, <1>2, <1>3, <3>1 DEF CallBackOf
  <2>2. queue' # <<>> /\ queue'[1] = x /\ Chain(queue, submitted)'
    <3>1. <<x>> \o Tail(queue) # <<>> /\ (<<x>> \o Tail(queue))[1] = x
      BY <1>2, <1>4, FirstReplaced
    <3>2. Chain(<<x>> \o Tail(queue), a)
      BY <1>2, <1>3, <1>4, <2>1, ChainAdvance
    <3>3. QED
      BY <1>2, <1>3, <2>1, <3>1, <3>2 DEF Chain
  <2>3. writes' # <<>> /\ Len(writes') = 1 /\ writes'[1] = w
    BY <1>2, <1>4, <2>1, OnlyOne
  <2>4. m = w.first + w.n
    <3>1. (first + cur) + n = (first + (cur + n)) + 0
      OBVIOUS
    <3>2. QED
      BY <1>3, <2>1, <3>1
  <2>5. SendsHead(writes[1])'
    BY <1>2, <1>3, <2>1, <2>2, <2>3, <2>4 DEF SendsHead
  <2>6. Len(writes') <= 1 /\ sendPending' = TRUE
    BY <1>4, <2>1, <2>3
  <2>7. Chain(queue, submitted)' /\ queue' # <<>> /\ writes' # <<>>
    BY <2>2, <2>3
  <2>8. QED
    BY <1>5, <2>5, <2>6, <2>7 DEF Sound
<1>7. CASE cur + n >= len
  <2>1. ~(cur + n < len) /\ first + len = m
    <3>1. m = (first + cur) + n /\ n <= len - cur
      BY <1>3, Zenon
    <3>2. QED
      BY <1>7, <3>1
  <2>2. /\ Chain(Tail(queue), a)
        /\ first + len = IF Tail(queue) = <<>> THEN a ELSE queue[2].first
        /\ Tail(queue) # <<>> => Tail(queue)[1] = queue[2] /\ queue[2].cur = 0
    BY <1>2, <1>3, <1>4, ChainTail
  <2>3. queue' = Tail(queue)
    BY <1>1, <1>2, <1>3, <2>1 DEF CallBackOf
  <2>4. Chain(queue, submitted)'
    BY <1>2, <1>3, <2>2, <2>3 DEF Chain
  <2>5. CASE Tail(queue) = <<>>
    <3>1. writes' = RemoveAt(writes, 1) /\ sendPending' = FALSE
      BY <1>1, <1>2, <1>3, <2>1, <2>5 DEF CallBackOf
    <3>2. writes' = <<>> /\ Len(writes') = 0
      BY <1>2, <1>4, <3>1, OnlyOne
    <3>3. m = a
      BY <2>1, <2>2, <2>5
    <3>4. queue' = <<>> /\ Len(writes') <= 1
      BY <2>3, <2>5, <3>2
    <3>5. QED
      BY <1>5, <2>4, <3>1, <3>2, <3>3, <3>4 DEF Sound
  <2>6. CASE Tail(queue) # <<>>
    <3>1. PICK w \in Op :
            /\ writes' = Append(RemoveAt(writes, 1), w)
            /\ w.first = queue[2].first /\ w.len = queue[2].len
            /\ w.n = 0 /\ w.from = "queue"
            /\ sendPending' = sendPending
      BY <1>1, <1>2, <1>3, <2>1, <2>6 DEF CallBackOf
    <3>2. writes' # <<>> /\ Len(writes') = 1 /\ writes'[1] = w
      BY <1>2, <1>4, <3>1, OnlyOne
    <3>3. queue'[1] = queue[2] /\ queue'[1].cur = 0 /\ queue'[1].first = m
      BY <2>1, <2>2, <2>3, <2>6
    <3>4. m = m + 0 /\ w.len = w.len - 0
      BY OpTypes
    <3>5. SendsHead(writes[1])'
      BY <1>2, <1>3, <2>3, <2>6, <3>1, <3>2, <3>3, <3>4 DEF SendsHead
    <3>6. queue' # <<>> /\ Len(writes') <= 1 /\ sendPending' = TRUE
      BY <1>4, <2>3, <2>6, <3>1, <3>2
    <3>7. QED
      BY <1>5, <2>4, <3>2, <3>5, <3>6 DEF Sound
  <2>7. QED
    BY <2>5, <2>6
<1>8. cur + n < len \/ cur + n >= len
  OBVIOUS
<1>9. QED
  BY <1>6, <1>7, <1>8, Zenon

(* A write that is not complete is of the bytes the peer gets next; they   *)
(* are gone only if the application dropped its string.                    *)
LEMMA HeadIsNext ==
  ASSUME TypeInv, Sound, NEW k \in 1..Len(writes), writes[k].st = "pending",
         NEW n \in 1..writes[k].len
  PROVE  /\ k = 1 /\ writes # <<>> /\ Len(writes) = 1
         /\ SendsHead(writes[1]) /\ queue # <<>>
         /\ \E first, len, m, a \in Nat :
              /\ first = writes[1].first /\ len = writes[1].len
              /\ m = Len(wire) /\ m = first /\ a = submitted /\ first + len <= a
         /\ Dangling(writes[1]) => ~keeps
         /\ ~failed
<1>1. k = 1 /\ writes # <<>> /\ Len(writes) = 1
  <2>1. PICK l \in Nat : l = Len(writes) /\ l <= 1 /\ k \in 1..l
    BY LenProperties DEF TypeInv, Sound
  <2>2. k = 1 /\ l = 1
    BY <2>1
  <2>3. Len(<<>>) = 0
    OBVIOUS
  <2>4. writes # <<>>
    <3>1. Len(writes) = 1 /\ 1 # 0
      BY <2>1, <2>2
    <3>2. QED
      BY <2>3, <3>1
  <2>5. QED
    BY <2>1, <2>2, <2>4
<1>2. writes[1] \in Op /\ writes[1].st = "pending" /\ writes[1].n = 0
  <2>1. writes[1] \in Op
    BY <1>1, FirstAndRest DEF TypeInv
  <2>2. QED
    BY <1>1, <2>1 DEF Op
<1>3. SendsHead(writes[1]) /\ queue # <<>>
  BY <1>1 DEF Sound, SendsHead
<1>4. \E first, len, m, a \in Nat :
        /\ first = writes[1].first /\ len = writes[1].len
        /\ m = Len(wire) /\ m = first /\ a = submitted /\ first + len <= a
  <2>1. submitted \in Nat /\ Len(wire) \in Nat
    BY SizesAssumption, LenProperties DEF TypeInv
  <2>2. PICK f, l \in Nat : f = writes[1].first /\ l = writes[1].len /\ writes[1].n = 0
    BY <1>2, OpTypes
  <2>3. Len(wire) = f
    <3>1. f + 0 = f
      OBVIOUS
    <3>2. QED
      BY <1>3, <2>2, <3>1 DEF SendsHead
  <2>4. f + l <= submitted
    <3>1. PICK x \in Message : x = queue[1]
      BY <1>3, FirstAndRest DEF TypeInv
    <3>2. PICK qf, qc, ql \in Nat : qf = x.first /\ qc = x.cur /\ ql = x.len /\ qc <= ql
      BY MessageTypes
    <3>3. f = qf + qc /\ l = ql - qc
      BY <1>3, <2>2, <3>1, <3>2 DEF SendsHead
    <3>4. f + l = qf + ql
      <4>1. (qf + qc) + (ql - qc) = qf + ql
        OBVIOUS
      <4>2. f + l = (qf + qc) + (ql - qc)
        BY <3>3
      <4>3. QED
        BY <4>1, <4>2
    <3>5. qf + ql <= submitted
      <4>1. queue \in Seq(Message) /\ Chain(queue, submitted)
        BY DEF TypeInv, Sound
      <4>2. PICK q \in Seq(Message), b \in Nat :
              q = queue /\ q # <<>> /\ b = submitted /\ Chain(q, b)
        BY <1>3, <2>1, <4>1
      <4>3. q[1].first + q[1].len <= b
        BY <4>2, ChainTail
      <4>4. QED
        BY <3>1, <3>2, <4>2, <4>3
    <3>6. QED
      BY <3>4, <3>5
  <2>5. QED
    BY <2>1, <2>2, <2>3, <2>4
<1>5. Dangling(writes[1]) => ~keeps
  <2>1. PICK x \in Message : x = queue[1] /\ 1 \in DOMAIN queue
    <3>1. /\ Len(queue) \in Nat \ {0} /\ DOMAIN queue = 1..Len(queue)
          /\ queue[1] \in Message
      BY <1>3, FirstAndRest DEF TypeInv
    <3>2. 1 \in 1..Len(queue)
      BY <3>1
    <3>3. QED
      BY <3>1, <3>2
  <2>2. PICK f, l, qf, qc, ql \in Nat :
          /\ f = writes[1].first /\ l = writes[1].len /\ n \in 1..l
          /\ qf = x.first /\ qc = x.cur /\ ql = x.len /\ qc <= ql
    BY <1>1, <1>2, OpTypes, MessageTypes
  <2>3. f = qf + qc /\ l = ql - qc
    BY <1>3, <2>1, <2>2 DEF SendsHead
  <2>4. f \in qf..(qf + ql - 1)
    <3>1. l > 0
      BY <2>2
    <3>2. qc < ql
      BY <2>3, <3>1
    <3>3. QED
      BY <2>3, <3>2
  <2>5. writes[1].first \in queue[1].first..(queue[1].first + queue[1].len - 1)
    BY <2>1, <2>2, <2>4
  <2>6. QED
    BY <1>3, <2>1, <2>5 DEF Dangling, SendsHead
<1>6. QED
  BY <1>1, <1>3, <1>4, <1>5 DEF Sound

LEMMA WriteSomeSound ==
  ASSUME TypeInv, Sound, WriteSome, ~usesNode
  PROVE  Sound'
<1>1. PICK k \in 1..Len(writes) : \E n \in 1..writes[k].len :
         /\ writes[k] \in Op /\ writes[k].st = "pending"
         /\ writes' \in Seq(Op) /\ Len(writes') = Len(writes)
         /\ writes'[k].first = writes[k].first /\ writes'[k].len = writes[k].len
         /\ writes'[k].from = writes[k].from
         /\ writes'[k].n = n /\ writes'[k].st = "ok"
         /\ wire' \in Seq(Byte) /\ Len(wire') = Len(wire) + n
         /\ \A i \in 1..Len(wire) : wire'[i] = wire[i]
         /\ \/ \A i \in 1..n : wire'[Len(wire) + i] = writes[k].first + i
            \/ /\ Dangling(writes[k])
               /\ \A i \in 1..n : wire'[Len(wire) + i] = Garbage
         /\ UNCHANGED <<queue, sendPending, sendNode, submitted, messages, failed,
                        recvVars, application, running>>
  BY WriteSomeStep
<1>2. PICK n \in 1..writes[k].len :
         /\ writes[k] \in Op /\ writes[k].st = "pending"
         /\ writes' \in Seq(Op) /\ Len(writes') = Len(writes)
         /\ writes'[k].first = writes[k].first /\ writes'[k].len = writes[k].len
         /\ writes'[k].from = writes[k].from
         /\ writes'[k].n = n /\ writes'[k].st = "ok"
         /\ wire' \in Seq(Byte) /\ Len(wire') = Len(wire) + n
         /\ \A i \in 1..Len(wire) : wire'[i] = wire[i]
         /\ \/ \A i \in 1..n : wire'[Len(wire) + i] = writes[k].first + i
            \/ /\ Dangling(writes[k])
               /\ \A i \in 1..n : wire'[Len(wire) + i] = Garbage
         /\ UNCHANGED <<queue, sendPending, sendNode, submitted, messages, failed,
                        recvVars, application, running>>
  BY <1>1
<1>3. /\ k = 1 /\ writes # <<>> /\ Len(writes) = 1
      /\ SendsHead(writes[1]) /\ queue # <<>>
      /\ Dangling(writes[1]) => ~keeps
      /\ ~failed
  BY <1>2, HeadIsNext
<1>4. PICK first, len, m, a \in Nat :
        /\ first = writes[1].first /\ len = writes[1].len
        /\ m = Len(wire) /\ m = first /\ a = submitted /\ first + len <= a
        /\ n \in 1..len
  BY <1>2, <1>3, HeadIsNext
<1>5. n \in Nat /\ n > 0 /\ m + n <= a
  BY <1>4
<1>6. /\ Len(wire') = m + n /\ submitted' = a
      /\ queue' = queue /\ sendPending' = sendPending /\ keeps' = keeps
  BY <1>2, <1>4 DEF application
<1>7. writes' # <<>> /\ Len(writes') <= 1
  BY <1>2, <1>3, EmptySeq
<1>8. SendsHead(writes[1])'
  BY <1>2, <1>3, <1>4, <1>6 DEF SendsHead
<1>9. InOrder'
  <2>1. ASSUME NEW i \in 1..(m + n) PROVE wire'[i] = i \/ (~keeps /\ wire'[i] = Garbage)
    <3>1. CASE i <= m
      <4>1. i \in 1..m
        BY <3>1
      <4>2. wire'[i] = wire[i]
        BY <1>2, <1>4, <4>1
      <4>3. QED
        BY <1>4, <4>1, <4>2 DEF Sound, InOrder
    <3>2. CASE ~(i <= m)
      <4>1. PICK j \in 1..n : j = i - m /\ m + j = i
        <5>1. i - m \in 1..n /\ m + (i - m) = i
          BY <1>5, <3>2
        <5>2. QED
          BY <5>1
      <4>2. Dangling(writes[1]) => ~keeps
        BY <1>3
      <4>3. \/ wire'[i] = first + j
            \/ ~keeps /\ wire'[i] = Garbage
        BY <1>2, <1>3, <1>4, <4>1, <4>2
      <4>4. QED
        BY <1>4, <4>1, <4>3
    <3>3. QED
      BY <3>1, <3>2
  <2>2. QED
    BY <1>6, <2>1 DEF InOrder
<1>10. Chain(queue, submitted)' /\ (sendPending' <=> queue' # <<>>)
  BY <1>4, <1>6 DEF Chain, Sound
<1>11. Len(wire') <= submitted'
  BY <1>5, <1>6
<1>12. ~failed'
  BY <1>2, <1>3 DEF Sound
<1>13. QED
  BY <1>7, <1>8, <1>9, <1>10, <1>11, <1>12 DEF Sound

LEMMA WritesFailSound ==
  ASSUME TypeInv, Sound, WritesFail
  PROVE  Sound'
<1>1. /\ queue' = queue /\ sendPending' = sendPending /\ submitted' = submitted
      /\ wire' = wire /\ keeps' = keeps /\ failed' = failed
      /\ Len(writes') = Len(writes) /\ writes' \in Seq(Op) /\ writes \in Seq(Op)
  BY WritesFailStep DEF application, TypeInv
<1>2. writes' = <<>> <=> writes = <<>>
  BY <1>1, EmptySeq
<1>3. writes # <<>> => SendsHead(writes[1])'
  <2>1. SUFFICES ASSUME writes # <<>> PROVE SendsHead(writes[1])'
    OBVIOUS
  <2>2. 1 \in 1..Len(writes)
    BY <1>1, <2>1, EmptySeq
  <2>3. writes[1] \in Op /\ writes'[1] = FailedOp(writes[1])
    BY <2>2, WritesFailStep
  <2>4. /\ writes'[1].first = writes[1].first /\ writes'[1].len = writes[1].len
        /\ writes'[1].from = writes[1].from /\ writes'[1].n = writes[1].n
    BY <2>3, FailedOpTypes
  <2>5. QED
    BY <1>1, <2>1, <2>4 DEF Sound, SendsHead
<1>4. InOrder' /\ Chain(queue, submitted)'
  BY <1>1 DEF Sound, InOrder, Chain
<1>5. QED
  BY <1>1, <1>2, <1>3, <1>4 DEF Sound

LEMMA WriteCallBackErrorSound ==
  ASSUME TypeInv, Sound, WriteCallBackError
  PROVE  Sound'
<1>1. PICK k \in 1..Len(writes) :
        /\ queue' = queue /\ sendPending' = sendPending /\ submitted' = submitted
        /\ wire' = wire /\ keeps' = keeps /\ failed' = TRUE
        /\ writes' = RemoveAt(writes, k)
  BY WriteCallBackErrorStep DEF application
<1>2. writes # <<>> /\ writes' = <<>>
  BY <1>1, OnlyOne DEF Sound, TypeInv
<1>3. Len(writes') <= 1 /\ queue # <<>>
  <2>1. Len(<<>>) <= 1
    BY EmptySeq
  <2>2. QED
    BY <1>2, <2>1 DEF Sound, SendsHead
<1>4. InOrder' /\ Chain(queue, submitted)'
  BY <1>1 DEF Sound, InOrder, Chain
<1>5. QED
  BY <1>1, <1>2, <1>3, <1>4 DEF Sound

(* As long as no read has completed, every step of an application that     *)
(* uses the queue keeps it sound.                                          *)
LEMMA QueueStep ==
  ASSUME TypeInv, ReadInv, QueueInv, [Next]_vars
  PROVE  QueueInv'
<1> SUFFICES ASSUME ~usesNode', ~ReadDone' PROVE Sound'
  BY DEF QueueInv
<1>1. ~usesNode /\ ~ReadDone /\ Sound
  BY TypeStep, ReadStep DEF QueueInv, application
<1>2. CASE /\ UNCHANGED <<queue, writes, sendNode, submitted, messages, failed, wire,
                          application>>
           /\ sendPending' = sendPending
  <2>1. /\ queue' = queue /\ writes' = writes /\ submitted' = submitted /\ wire' = wire
        /\ failed' = failed /\ keeps' = keeps
    BY <1>2 DEF application
  <2>2. InOrder' /\ Chain(queue, submitted)' /\ (SendsHead(writes[1])' <=> SendsHead(writes[1]))
    BY <1>1, <2>1 DEF Sound, InOrder, Chain, SendsHead
  <2>3. QED
    BY <1>1, <1>2, <2>1, <2>2 DEF Sound
<1>3. QED
  BY <1>1, <1>2, OtherSteps, SubmitSound, WriteCallBackSound, WriteSomeSound, WritesFailSound,
     WriteCallBackErrorSound
-----------------------------------------------------------------------------
(* send_node_.  A callback takes its write out, and adds one of send_node_ *)
(* when it restarts.                                                       *)
LEMMA NodeRemoved ==
  ASSUME NEW ws \in Seq(Op), NEW i \in 1..Len(ws), ws[i].st # "pending",
         NEW node, FromNode(ws), Newest(ws, node)
  PROVE  /\ RemoveAt(ws, i) \in Seq(Op)
         /\ FromNode(RemoveAt(ws, i)) /\ Newest(RemoveAt(ws, i), node)
<1>1. PICK n \in Nat, r \in Seq(Op) :
        /\ n = Len(ws) /\ i \in 1..n /\ r = RemoveAt(ws, i) /\ Len(r) = n - 1
        /\ \A j \in 1..(n - 1) : r[j] = IF j < i THEN ws[j] ELSE ws[j + 1]
  <2>1. /\ Len(ws) \in Nat /\ RemoveAt(ws, i) \in Seq(Op)
        /\ Len(RemoveAt(ws, i)) = Len(ws) - 1
        /\ \A j \in 1..(Len(ws) - 1) :
             RemoveAt(ws, i)[j] = IF j < i THEN ws[j] ELSE ws[j + 1]
    BY Removed
  <2>2. QED
    BY <2>1
<1>2. FromNode(r)
  <2>1. \A j \in 1..(n - 1) : j \in 1..n /\ j + 1 \in 1..n
    OBVIOUS
  <2>2. QED
    BY <1>1, <2>1 DEF FromNode
<1>3. ASSUME node.len > 0, NEW k \in 1..(n - 1), LastPending(r, k)
      PROVE  r[k].first = node.first /\ r[k].len = node.len
  <2>1. PICK p \in 1..n : p = (IF k < i THEN k ELSE k + 1) /\ r[k] = ws[p]
    <3>1. (IF k < i THEN k ELSE k + 1) \in 1..n
      OBVIOUS
    <3>2. QED
      BY <1>1, <3>1
  <2>2. ASSUME NEW j \in (p + 1)..n PROVE ws[j].st # "pending"
    <3>1. CASE j < i
      <4>1. j \in (k + 1)..(n - 1) /\ j \in 1..(n - 1)
        BY <1>1, <2>1, <3>1
      <4>2. r[j] = ws[j]
        BY <1>1, <3>1, <4>1
      <4>3. QED
        BY <1>1, <1>3, <4>1, <4>2 DEF LastPending
    <3>2. CASE j = i
      BY <3>2
    <3>3. CASE j > i
      <4>1. /\ j - 1 \in (k + 1)..(n - 1) /\ j - 1 \in 1..(n - 1)
            /\ ~(j - 1 < i) /\ (j - 1) + 1 = j
        BY <1>1, <2>1, <3>3
      <4>2. r[j - 1] = ws[j]
        BY <1>1, <4>1
      <4>3. QED
        BY <1>1, <1>3, <4>1, <4>2 DEF LastPending
    <3>4. QED
      BY <1>1, <3>1, <3>2, <3>3
  <2>3. LastPending(ws, p)
    BY <1>1, <1>3, <2>1, <2>2 DEF LastPending
  <2>4. QED
    BY <1>1, <1>3, <2>1, <2>3 DEF Newest
<1>4. QED
  BY <1>1, <1>2, <1>3 DEF Newest

LEMMA NodeAppended ==
  ASSUME NEW ws \in Seq(Op), FromNode(ws), NEW w \in Op, w.from \in {"node", "bound"},
         NEW node, w.first = node.first, w.len = node.len, w.len # 0 => w.st = "pending"
  PROVE  FromNode(Append(ws, w)) /\ Newest(Append(ws, w), node)
<1>1. PICK m \in Nat, r \in Seq(Op) :
        /\ m = Len(ws) /\ r = Append(ws, w)
        /\ Len(r) = m + 1 /\ r[m + 1] = w
        /\ \A k \in 1..m : r[k] = ws[k]
  <2>1. /\ Append(ws, w) \in Seq(Op) /\ Len(ws) \in Nat
        /\ Len(Append(ws, w)) = Len(ws) + 1
        /\ Append(ws, w)[Len(ws) + 1] = w
        /\ \A k \in 1..Len(ws) : Append(ws, w)[k] = ws[k]
    BY Appended
  <2>2. QED
    BY <2>1
<1>2. ASSUME NEW k \in 1..(m + 1) PROVE k = m + 1 \/ (k \in 1..m /\ m + 1 \in (k + 1)..(m + 1))
  OBVIOUS
<1>3. FromNode(r)
  BY <1>1, <1>2 DEF FromNode
<1>4. ASSUME node.len > 0, NEW k \in 1..(m + 1), LastPending(r, k) PROVE k = m + 1
  <2>1. w.st = "pending"
    <3>1. ~(0 > 0)
      OBVIOUS
    <3>2. w.len # 0
      BY <1>4, <3>1
    <3>3. QED
      BY <3>2
  <2>2. QED
    BY <1>1, <1>2, <1>4, <2>1 DEF LastPending
<1>5. QED
  BY <1>1, <1>3, <1>4 DEF Newest

(* TCP takes from the oldest write that is not complete, so the newest     *)
(* stays the newest.                                                       *)
LEMMA NodeAdvanced ==
  ASSUME NEW ws \in Seq(Op), NEW vs \in Seq(Op), Len(vs) = Len(ws),
         \A j \in 1..Len(ws) :
            /\ vs[j].first = ws[j].first /\ vs[j].len = ws[j].len /\ vs[j].from = ws[j].from,
         NEW k \in 1..Len(ws), vs[k].st # "pending",
         \A j \in 1..(k - 1) : ws[j].st # "pending",
         \A j \in 1..Len(ws) : j # k => vs[j] = ws[j],
         NEW node, FromNode(ws), Newest(ws, node)
  PROVE  FromNode(vs) /\ Newest(vs, node)
<1>1. PICK n \in Nat : n = Len(ws) /\ k \in 1..n
  BY LenProperties
<1>2. FromNode(vs)
  BY DEF FromNode
<1>3. ASSUME NEW m \in 1..n, LastPending(vs, m) PROVE LastPending(ws, m)
  <2>1. m # k /\ vs[m] = ws[m] /\ ws[m].st = "pending"
    BY <1>1, <1>3 DEF LastPending
  <2>2. m > k
    <3>1. m < k => m \in 1..(k - 1)
      BY <1>1
    <3>2. ~(m < k)
      BY <2>1, <3>1
    <3>3. QED
      BY <1>1, <2>1, <3>2
  <2>3. ASSUME NEW j \in (m + 1)..n PROVE ws[j].st # "pending"
    <3>1. j \in 1..n /\ j # k
      BY <1>1, <2>2
    <3>2. QED
      BY <1>1, <1>3, <3>1 DEF LastPending
  <2>4. QED
    BY <1>1, <2>1, <2>3 DEF LastPending
<1>4. QED
  BY <1>1, <1>2, <1>3 DEF Newest

LEMMA NodeStep ==
  ASSUME TypeInv, ReadInv, NodeInv, [Next]_vars
  PROVE  NodeInv'
<1>1. SUFFICES ASSUME usesNode' PROVE NodeInv'
  BY DEF NodeInv
<1>2. /\ usesNode /\ keeps /\ keeps' = keeps
      /\ FromNode(writes) /\ Newest(writes, sendNode)
      /\ writes \in Seq(Op)
  BY <1>1, TypeStep DEF NodeInv, TypeInv, application
<1>3. SUFFICES FromNode(writes') /\ Newest(writes', sendNode')
  BY <1>2 DEF NodeInv, FromNode, Newest, LastPending
<1>4. CASE WriteToSocketErr
  <2>1. PICK w \in Op :
          /\ writes' = Append(writes, w) /\ w.from = "node"
          /\ sendNode' = [first |-> w.first, len |-> w.len]
          /\ w.len # 0 => w.st = "pending"
    BY <1>4, WriteToSocketErrStep
  <2>2. w.first = sendNode'.first /\ w.len = sendNode'.len
    BY <2>1
  <2>3. QED
    BY <1>2, <2>1, <2>2, NodeAppended
<1>5. CASE WriteCallBackErr
  <2>1. PICK k \in 1..Len(writes) : CallBackErrOf(k)
    BY <1>5, WriteCallBackErrStep
  <2>2. /\ RemoveAt(writes, k) \in Seq(Op) /\ sendNode' = sendNode
        /\ FromNode(RemoveAt(writes, k)) /\ Newest(RemoveAt(writes, k), sendNode)
    BY <1>2, <2>1, NodeRemoved DEF CallBackErrOf
  <2>3. ASSUME NEW w \in Op, writes' = Append(RemoveAt(writes, k), w), w.st = "pending",
               w.first = sendNode.first, w.len = sendNode.len, w.from = "bound"
        PROVE  FromNode(writes') /\ Newest(writes', sendNode')
    BY <2>2, <2>3, NodeAppended
  <2>4. QED
    BY <2>1, <2>2, <2>3 DEF CallBackErrOf
<1>6. CASE WriteCallBackError
  <2>1. PICK k \in 1..Len(writes) :
          writes[k].st = "error" /\ writes' = RemoveAt(writes, k) /\ sendNode' = sendNode
    BY <1>6, WriteCallBackErrorStep
  <2>2. QED
    BY <1>2, <2>1, NodeRemoved
<1>7. CASE WriteSome
  <2>1. PICK k \in 1..Len(writes) :
          /\ \A j \in 1..(k - 1) : writes[j].st # "pending"
          /\ writes' \in Seq(Op) /\ Len(writes') = Len(writes)
          /\ writes'[k].first = writes[k].first /\ writes'[k].len = writes[k].len
          /\ writes'[k].from = writes[k].from /\ writes'[k].st = "ok"
          /\ \A j \in 1..Len(writes) : j # k => writes'[j] = writes[j]
          /\ sendNode' = sendNode
    BY <1>7, WriteSomeStep
  <2>2. \A j \in 1..Len(writes) :
           /\ writes'[j].first = writes[j].first /\ writes'[j].len = writes[j].len
           /\ writes'[j].from = writes[j].from
    BY <2>1
  <2>3. writes'[k].st # "pending"
    BY <2>1
  <2>4. QED
    BY <1>2, <2>1, <2>2, <2>3, NodeAdvanced
<1>8. CASE WritesFail
  <2>1. /\ Len(writes') = Len(writes)
        /\ \A j \in 1..Len(writes) :
             writes'[j].from = writes[j].from /\ writes'[j].st # "pending"
    BY <1>8, WritesFailStep, FailedOpTypes
  <2>2. QED
    BY <1>2, <2>1 DEF FromNode, Newest, LastPending
<1>9. CASE UNCHANGED <<queue, writes, sendNode, submitted, messages, failed, wire,
                       application>>
  BY <1>2, <1>9
<1>10. QED
  BY <1>2, <1>4, <1>5, <1>6, <1>7, <1>8, <1>9, OtherSteps
-----------------------------------------------------------------------------
(* The application that waits for each write of send_node_.                *)
LEMMA OneWrite ==
  ASSUME TypeInv, NodeInv, usesNode, Waiting, writes # <<>>
  PROVE  /\ Len(writes) = 1 /\ writes \in Seq(Op) /\ writes[1] \in Op
         /\ writes[1].first = sendNode.first /\ writes[1].len = sendNode.len
         /\ writes[1].from \in {"node", "bound"}
         /\ ~Dangling(writes[1])
<1>1. writes \in Seq(Op) /\ Len(writes) <= 1
  BY DEF TypeInv, Waiting
<1>2. Len(writes) = 1
  <2>1. PICK n \in Nat : n = Len(writes) /\ n # 0 /\ n <= 1
    BY <1>1, FirstAndRest
  <2>2. n = 1
    BY <2>1
  <2>3. QED
    BY <2>1, <2>2
<1>3. writes[1] \in Op
  BY <1>1, FirstAndRest
<1>4. 1 \in 1..Len(writes)
  BY <1>2
<1>5. /\ keeps /\ writes[1].from \in {"node", "bound"}
      /\ writes[1].first = sendNode.first /\ writes[1].len = sendNode.len
  BY <1>2, <1>4 DEF NodeInv, FromNode, Waiting
<1>6. QED
  BY <1>1, <1>2, <1>3, <1>5 DEF Dangling

LEMMA ReachedType ==
  ASSUME TypeInv
  PROVE  /\ Reached \in Nat
         /\ \A i \in 1..Len(wire) : wire[i] \in Nat
<1>1. Byte \subseteq Nat
  BY SizesAssumption DEF Byte, Garbage
<1>2. \A i \in 1..Len(wire) : wire[i] \in Nat
  BY <1>1, ElementOfSeq DEF TypeInv
<1>3. wire # <<>> => Len(wire) \in 1..Len(wire)
  <2>1. SUFFICES ASSUME wire # <<>> PROVE Len(wire) \in 1..Len(wire)
    OBVIOUS
  <2>2. PICK n \in Nat : n = Len(wire) /\ n # 0
    BY <2>1, EmptySeq DEF TypeInv
  <2>3. n \in 1..n
    BY <2>2
  <2>4. QED
    BY <2>2, <2>3
<1>4. QED
  BY <1>2, <1>3 DEF Reached

(* v is w, of m bytes up to byte r, and then n bytes from first + 1.       *)
JoinsOn(w, v, m, n, first, r) ==
  /\ n > 0 /\ first <= r
  /\ m # 0 => w[1] = 1 /\ r = w[m]
  /\ m = 0 => r = 0
  /\ \A i \in 2..m : w[i] \in 1..(w[i - 1] + 1)
  /\ \A i \in 1..m : v[i] = w[i]
  /\ \A i \in 1..n : v[m + i] = first + i

LEMMA ClimbsOn ==
  ASSUME NEW m \in Nat, NEW n \in Nat, NEW first \in Nat, NEW r \in Nat,
         NEW w, NEW v, JoinsOn(w, v, m, n, first, r)
  PROVE  /\ v[1] = 1
         /\ \A i \in 2..(m + n) : v[i] \in 1..(v[i - 1] + 1)
<1> USE DEF JoinsOn
<1>1. v[1] = 1
  <2>1. CASE m = 0
    <3>1. first = 0 /\ 1 \in 1..n
      BY <2>1
    <3>2. v[m + 1] = first + 1
      BY <3>1
    <3>3. QED
      BY <2>1, <3>1, <3>2
  <2>2. CASE m # 0
    <3>1. 1 \in 1..m
      BY <2>2
    <3>2. QED
      BY <2>2, <3>1
  <2>3. QED
    BY <2>1, <2>2
<1>2. ASSUME NEW i \in 2..(m + n) PROVE v[i] \in 1..(v[i - 1] + 1)
  <2>1. CASE i <= m
    <3>1. i \in 2..m /\ i \in 1..m /\ i - 1 \in 1..m
      BY <2>1
    <3>2. QED
      BY <3>1
  <2>2. CASE i = m + 1
    <3>1. m # 0 /\ m \in 1..m /\ 1 \in 1..n /\ i - 1 = m
      BY <2>2
    <3>2. v[i] = first + 1 /\ v[i - 1] = r
      BY <2>2, <3>1
    <3>3. first + 1 \in 1..(r + 1)
      OBVIOUS
    <3>4. QED
      BY <3>2, <3>3
  <2>3. CASE i > m + 1
    <3>1. PICK j \in 1..n : m + j = i /\ j - 1 \in 1..n /\ m + (j - 1) = i - 1
      <4>1. /\ i - m \in 1..n /\ m + (i - m) = i
            /\ (i - m) - 1 \in 1..n /\ m + ((i - m) - 1) = i - 1
        BY <2>3
      <4>2. QED
        BY <4>1
    <3>2. v[i] = first + j /\ v[i - 1] = first + (j - 1)
      BY <3>1
    <3>3. first + j \in 1..((first + (j - 1)) + 1)
      OBVIOUS
    <3>4. QED
      BY <3>2, <3>3
  <2>4. QED
    BY <2>1, <2>2, <2>3
<1>3. QED
  BY <1>1, <1>2

LEMMA WriteSomeWaiting ==
  ASSUME TypeInv, NodeInv, usesNode, Waiting, WriteSome
  PROVE  Waiting'
<1>1. PICK k \in 1..Len(writes) : \E n \in 1..writes[k].len :
         /\ writes' \in Seq(Op) /\ Len(writes') = Len(writes)
         /\ writes'[k].first = writes[k].first /\ writes'[k].len = writes[k].len
         /\ writes'[k].n = n /\ writes'[k].st = "ok"
         /\ wire' \in Seq(Byte) /\ Len(wire') = Len(wire) + n
         /\ \A i \in 1..Len(wire) : wire'[i] = wire[i]
         /\ \/ \A i \in 1..n : wire'[Len(wire) + i] = writes[k].first + i
            \/ Dangling(writes[k])
         /\ sendNode' = sendNode /\ submitted' = submitted
  BY WriteSomeStep
<1>2. PICK n \in 1..writes[k].len :
         /\ writes' \in Seq(Op) /\ Len(writes') = Len(writes)
         /\ writes'[k].first = writes[k].first /\ writes'[k].len = writes[k].len
         /\ writes'[k].n = n /\ writes'[k].st = "ok"
         /\ wire' \in Seq(Byte) /\ Len(wire') = Len(wire) + n
         /\ \A i \in 1..Len(wire) : wire'[i] = wire[i]
         /\ \/ \A i \in 1..n : wire'[Len(wire) + i] = writes[k].first + i
            \/ Dangling(writes[k])
         /\ sendNode' = sendNode /\ submitted' = submitted
  BY <1>1
<1>3. writes # <<>>
  <2>1. PICK l \in Nat : l = Len(writes) /\ k \in 1..l
    BY LenProperties DEF TypeInv
  <2>2. l # 0 /\ Len(<<>>) = 0
    BY <2>1
  <2>3. QED
    BY <2>1, <2>2
<1>4. /\ k = 1 /\ Len(writes) = 1 /\ ~Dangling(writes[1])
      /\ writes[1] \in Op
      /\ writes[1].first = sendNode.first /\ writes[1].len = sendNode.len
  <2>1. Len(writes) = 1
    BY <1>3, OneWrite
  <2>2. k \in 1..1
    BY <2>1
  <2>3. k = 1
    BY <2>2
  <2>4. QED
    BY <1>3, <2>3, OneWrite
<1>5. PICK m, first, r, p \in Nat :
        /\ m = Len(wire) /\ first = sendNode.first /\ r = Reached /\ p = n
        /\ first <= r /\ p > 0
  <2>1. Len(wire) \in Nat /\ sendNode.first \in Nat /\ Reached \in Nat
    BY SizesAssumption, LenProperties, ReachedType DEF TypeInv
  <2>2. n \in Nat /\ n > 0
    <3>1. PICK l \in Nat : l = writes[1].len /\ n \in 1..l
      BY <1>2, <1>4, OpTypes
    <3>2. QED
      BY <3>1
  <2>3. QED
    BY <2>1, <2>2 DEF Waiting
<1>6. /\ wire' \in Seq(Byte) /\ Len(wire') = m + p
      /\ \A i \in 1..m : wire'[i] = wire[i]
      /\ \A i \in 1..p : wire'[m + i] = first + i
  BY <1>2, <1>4, <1>5
<1>7. /\ m # 0 => wire[1] = 1
      /\ m = 0 => r = 0
      /\ m # 0 => r = wire[m]
      /\ \A i \in 2..m : wire[i] \in 1..(wire[i - 1] + 1)
  <2>1. m = 0 <=> wire = <<>>
    BY <1>5, EmptySeq DEF TypeInv
  <2>2. QED
    BY <1>5, <2>1 DEF Waiting, Climbs, Reached
<1>8. wire'[1] = 1 /\ \A i \in 2..(m + p) : wire'[i] \in 1..(wire'[i - 1] + 1)
  <2>1. PICK w, v : w = wire /\ v = wire'
    OBVIOUS
  <2>2. JoinsOn(w, v, m, p, first, r)
    BY <1>5, <1>6, <1>7, <2>1 DEF JoinsOn
  <2>3. QED
    BY <2>1, <2>2, ClimbsOn
<1>9. Climbs'
  BY <1>6, <1>8 DEF Climbs
<1>10. Reached' = first + p
  <2>1. p \in 1..p /\ m + p # 0
    BY <1>5
  <2>2. wire'[m + p] = first + p
    BY <1>6, <2>1
  <2>3. wire' # <<>>
    BY <1>6, <2>1, EmptySeq
  <2>4. QED
    BY <1>6, <2>2, <2>3 DEF Reached
<1>11. first <= first + p
  OBVIOUS
<1>12. /\ Len(writes') = 1 /\ writes' # <<>>
       /\ writes'[1].first = first /\ writes'[1].n = p
       /\ writes'[1].first = sendNode'.first /\ writes'[1].len = sendNode'.len
  <2>1. /\ writes' \in Seq(Op) /\ Len(writes') = 1
        /\ writes'[1].first = first /\ writes'[1].n = p
        /\ writes'[1].first = sendNode'.first /\ writes'[1].len = sendNode'.len
    BY <1>2, <1>4, <1>5
  <2>2. 1 # 0 /\ Len(<<>>) = 0
    OBVIOUS
  <2>3. QED
    BY <2>1, <2>2
<1>13. /\ Len(writes') <= 1
       /\ sendNode'.first + sendNode'.len = submitted'
       /\ sendNode'.first <= Reached'
  BY <1>2, <1>5, <1>10, <1>11, <1>12 DEF Waiting
<1>14. QED
  BY <1>9, <1>10, <1>12, <1>13 DEF Waiting

LEMMA WaitStep ==
  ASSUME TypeInv, ReadInv, NodeInv, WaitInv, [Next]_vars
  PROVE  WaitInv'
<1>1. UNCHANGED application
  BY TypeStep
<1> SUFFICES ASSUME waits', ~failed' PROVE Waiting'
  BY <1>1 DEF WaitInv, application
<1>2. waits /\ usesNode
  BY <1>1 DEF WaitInv, application
<1>3. ~failed => Waiting
  BY <1>2 DEF WaitInv
<1>4. CASE WriteToSocketErr
  <2>1. PICK w \in Op, a \in Nat :
          /\ a = submitted
          /\ writes' = Append(writes, w) /\ w.first = a /\ submitted' = a + w.len
          /\ sendNode' = [first |-> w.first, len |-> w.len]
          /\ w.n = 0
    <3>1. submitted \in Nat
      BY <1>4, WriteToSocketErrStep
    <3>2. PICK w \in Op :
            /\ writes' = Append(writes, w)
            /\ w.first = submitted /\ submitted' = submitted + w.len
            /\ sendNode' = [first |-> w.first, len |-> w.len]
            /\ w.n = 0
      BY <1>4, WriteToSocketErrStep
    <3>3. QED
      BY <3>1, <3>2
  <2>2. writes = <<>> /\ wire' = wire /\ failed' = failed
    BY <1>2, <1>4, WriteToSocketErrStep
  <2>3. Waiting /\ Reached = a
    BY <1>3, <2>1, <2>2 DEF Waiting
  <2>4. writes' # <<>> /\ Len(writes') = 1 /\ writes'[1] = w
    <3>1. <<>> \in Seq(Op) /\ Len(<<>>) = 0
      BY EmptySeq
    <3>2. QED
      BY <2>1, <2>2, <3>1, Appended
  <2>5. Reached' = a /\ Climbs'
    BY <2>2, <2>3 DEF Reached, Climbs, Waiting
  <2>6. a + 0 = a /\ a <= a
    OBVIOUS
  <2>7. /\ sendNode'.first + sendNode'.len = submitted'
        /\ sendNode'.first <= Reached' /\ Len(writes') <= 1
        /\ writes'[1].first = sendNode'.first /\ writes'[1].len = sendNode'.len
    BY <2>1, <2>4, <2>5, <2>6
  <2>8. QED
    BY <2>1, <2>4, <2>5, <2>6, <2>7 DEF Waiting
<1>5. CASE WriteCallBackErr
  <2>1. PICK k \in 1..Len(writes) : CallBackErrOf(k)
    BY <1>5, WriteCallBackErrStep
  <2>2. sendNode' = sendNode /\ submitted' = submitted /\ wire' = wire /\ failed' = failed
    BY <2>1 DEF CallBackErrOf
  <2>3. Waiting
    BY <1>3, <2>2
  <2>4. Reached' = Reached /\ Climbs'
    BY <2>2, <2>3 DEF Reached, Climbs, Waiting
  <2>5. /\ k = 1 /\ writes # <<>> /\ RemoveAt(writes, 1) = <<>>
        /\ \A x \in Op : /\ Append(RemoveAt(writes, 1), x) # <<>>
                         /\ Len(Append(RemoveAt(writes, 1), x)) = 1
                         /\ Append(RemoveAt(writes, 1), x)[1] = x
    BY <2>3, OnlyOne DEF TypeInv, Waiting
  <2>6. /\ writes[1] \in Op /\ writes[1].st = "ok"
        /\ writes[1].first = sendNode.first /\ writes[1].len = sendNode.len
    BY <2>1, <2>3, <2>5 DEF CallBackErrOf, Waiting
  <2>7. ASSUME NEW w \in Op, writes' = Append(RemoveAt(writes, 1), w), w.st = "pending",
               w.first = sendNode.first, w.len = sendNode.len
        PROVE  Waiting'
    <3>1. writes' # <<>> /\ Len(writes') = 1 /\ writes'[1] = w
      BY <2>5, <2>7
    <3>2. QED
      BY <2>2, <2>3, <2>4, <2>7, <3>1 DEF Waiting
  <2>8. CASE writes[1].n >= sendNode.len /\ writes' = RemoveAt(writes, 1)
    <3>1. writes' = <<>> /\ Len(writes') <= 1
      <4>1. Len(<<>>) <= 1
        OBVIOUS
      <4>2. QED
        BY <2>5, <2>8, <4>1
    <3>2. writes[1].n = sendNode.len
      <4>1. PICK n, l \in Nat : n = writes[1].n /\ l = sendNode.len /\ n <= l /\ n >= l
        BY <2>6, <2>8, OpTypes
      <4>2. n = l
        BY <4>1
      <4>3. QED
        BY <4>1, <4>2
    <3>3. Reached = submitted
      BY <2>3, <2>5, <2>6, <3>2 DEF Waiting
    <3>4. QED
      BY <2>2, <2>3, <2>4, <3>1, <3>3 DEF Waiting
  <2>9. QED
    BY <2>1, <2>5, <2>7, <2>8 DEF CallBackErrOf
<1>6. CASE WriteCallBackError
  BY <1>6, WriteCallBackErrorStep
<1>7. CASE WriteSome
  <2>1. failed' = failed
    BY <1>7, WriteSomeStep
  <2>2. QED
    BY <1>2, <1>3, <1>7, <2>1, WriteSomeWaiting
<1>8. CASE WritesFail
  <2>1. /\ writes' \in Seq(Op) /\ writes \in Seq(Op) /\ Len(writes') = Len(writes)
        /\ sendNode' = sendNode /\ submitted' = submitted /\ wire' = wire /\ failed' = failed
    BY <1>8, WritesFailStep DEF TypeInv
  <2>2. Waiting
    BY <1>3, <2>1
  <2>3. Reached' = Reached /\ Climbs'
    BY <2>1, <2>2 DEF Reached, Climbs, Waiting
  <2>4. writes' = <<>> <=> writes = <<>>
    BY <2>1, EmptySeq
  <2>5. writes # <<>> =>
          /\ writes'[1].first = writes[1].first /\ writes'[1].len = writes[1].len
          /\ writes'[1].n = writes[1].n
          /\ writes'[1].st = "ok" <=> writes[1].st = "ok"
    <3>1. SUFFICES ASSUME writes # <<>>
                   PROVE  /\ writes'[1].first = writes[1].first
                          /\ writes'[1].len = writes[1].len
                          /\ writes'[1].n = writes[1].n
                          /\ writes'[1].st = "ok" <=> writes[1].st = "ok"
      OBVIOUS
    <3>2. 1 \in 1..Len(writes)
      BY <1>2, <2>2, <3>1, OneWrite
    <3>3. QED
      BY <1>8, <3>2, WritesFailStep, FailedOpTypes
  <2>6. QED
    BY <2>1, <2>2, <2>3, <2>4, <2>5 DEF Waiting
<1>9. CASE UNCHANGED <<queue, writes, sendNode, submitted, messages, failed, wire,
                       application>>
  <2>1. Reached' = Reached /\ (Climbs' <=> Climbs)
    BY <1>9 DEF Reached, Climbs
  <2>2. QED
    BY <1>3, <1>9, <2>1 DEF Waiting
<1>10. QED
  BY <1>2, <1>4, <1>5, <1>6, <1>7, <1>8, <1>9, OtherSteps
-----------------------------------------------------------------------------
(* No queue, no write, no byte sent. *)
LEMMA NothingYet ==
  ASSUME Init
  PROVE  /\ <<>> \in Seq(Message) /\ <<>> \in Seq(Op) /\ <<>> \in Seq(Byte)
         /\ queue = <<>> /\ writes = <<>> /\ wire = <<>> /\ submitted = 0
BY EmptySeq DEF Init

LEMMA InitTypes == Init => TypeInv /\ ReadInv
<1> SUFFICES ASSUME Init PROVE TypeInv /\ ReadInv
  OBVIOUS
<1>1. PICK b, m, size \in Nat : b = MaxBytes /\ m = MaxMsgs /\ size = RecvSize /\ size # 0
  BY SizesAssumption
<1>2. 0 \in 0..b /\ 0 \in 0..m /\ 0 \in 0..size /\ 0 + 0 <= b /\ 0 < size
  BY <1>1
<1>3. sendNode = [first |-> 0, len |-> 0] /\ messages = 0 /\ read = NoRead /\ recv = 0
  BY DEF Init
<1>4. sendNode \in [first : 0..MaxBytes, len : 0..MaxBytes]
  BY <1>1, <1>2, <1>3
<1>5. sendNode.first + sendNode.len <= MaxBytes
  BY <1>1, <1>2, <1>3
<1>6. TypeInv
  <2>1. submitted \in 0..MaxBytes /\ messages \in 0..MaxMsgs
    BY <1>1, <1>2, <1>3, NothingYet
  <2>2. queue \in Seq(Message) /\ writes \in Seq(Op) /\ wire \in Seq(Byte)
    BY NothingYet
  <2>3. /\ sendPending \in BOOLEAN /\ failed \in BOOLEAN /\ running \in BOOLEAN
        /\ keeps \in BOOLEAN /\ usesNode \in BOOLEAN /\ waits \in BOOLEAN
    BY DEF Init
  <2>4. QED
    BY <1>4, <1>5, <2>1, <2>2, <2>3 DEF TypeInv
<1>7. ReadInv
  <2>1. read \in [st : OpState, n : 0..RecvSize] /\ recv \in 0..RecvSize
    BY <1>1, <1>2, <1>3 DEF NoRead, OpState
  <2>2. read.st = "idle" /\ recvPending = FALSE
    BY <1>3 DEF NoRead, Init
  <2>3. QED
    BY <1>3, <2>1, <2>2 DEF ReadInv, RecvNodeFills
<1>8. QED
  BY <1>6, <1>7

LEMMA InitSound == Init => QueueInv /\ NodeInv /\ WaitInv
<1> SUFFICES ASSUME Init PROVE QueueInv /\ NodeInv /\ WaitInv
  OBVIOUS
<1>1. /\ queue = <<>> /\ writes = <<>> /\ wire = <<>> /\ submitted = 0
      /\ sendPending = FALSE
      /\ sendNode = [first |-> 0, len |-> 0]
      /\ usesNode => keeps
      /\ waits => usesNode
      /\ ~failed
  BY DEF Init
<1>2. Len(<<>>) = 0 /\ 0 <= 0 /\ 0 <= 1 /\ 0 + 0 = 0 /\ 1..0 = {} /\ 2..0 = {}
  OBVIOUS
<1>3. Sound
  <2>1. Chain(queue, submitted)
    BY <1>1, ChainEmpty
  <2>2. InOrder
    BY <1>1, <1>2 DEF InOrder
  <2>3. QED
    BY <1>1, <1>2, <2>1, <2>2 DEF Sound
<1>4. NodeInv
  BY <1>1, <1>2 DEF NodeInv, FromNode, Newest
<1>5. Waiting
  <2>1. Reached = 0 /\ Climbs
    BY <1>1, <1>2 DEF Reached, Climbs
  <2>2. sendNode.first = 0 /\ sendNode.len = 0
    BY <1>1
  <2>3. QED
    BY <1>1, <1>2, <2>1, <2>2 DEF Waiting
<1>6. QED
  BY <1>1, <1>3, <1>4, <1>5 DEF QueueInv, WaitInv

IInv == TypeInv /\ ReadInv /\ QueueInv /\ NodeInv /\ WaitInv

(* The inductive invariant of a session: the types, the receive path, and  *)
(* for each way of writing what keeps it in step with its callbacks.       *)
THEOREM Invariance == Spec => []IInv
<1>1. Init => IInv
  BY InitTypes, InitSound DEF IInv
<1>2. IInv /\ [Next]_vars => IInv'
  <2>1. SUFFICES ASSUME IInv, [Next]_vars PROVE IInv'
    OBVIOUS
  <2>2. TypeInv /\ ReadInv /\ QueueInv /\ NodeInv /\ WaitInv
    BY <2>1 DEF IInv
  <2>3. TypeInv' /\ ReadInv'
    BY <2>1, <2>2, TypeStep, ReadStep
  <2>4. QueueInv' /\ NodeInv' /\ WaitInv'
    BY <2>1, <2>2, QueueStep, NodeStep, WaitStep
  <2>5. QED
    BY <2>3, <2>4 DEF IInv
<1>3. QED
  BY <1>1, <1>2, PTL DEF Spec

(* Type correctness: no message, no write and no rest of a message reaches *)
(* beyond the bytes the application wrote, whatever the lengths.           *)
THEOREM TypeCorrect == Spec => []TypeOK
<1>1. TypeInv /\ ReadInv => TypeOK
  <2> SUFFICES ASSUME TypeInv, ReadInv PROVE TypeOK
    OBVIOUS
  <2> DEFINE AnyMessage == [first : 0..MaxBytes, len : 0..MaxBytes, cur : 0..MaxBytes]
             AnyOp == [first : 0..MaxBytes, len : 0..MaxBytes,
                       from : {"caller", "queue", "node", "bound"},
                       st : OpState, n : 0..MaxBytes]
  <2>1. queue \in Seq(AnyMessage)
    <3>1. Message \subseteq AnyMessage
      BY DEF Message
    <3>2. queue \in Seq(Message)
      BY DEF TypeInv
    <3>3. QED
      BY <3>1, <3>2, WiderSeq
  <2>2. writes \in Seq(AnyOp)
    <3>1. Op \subseteq AnyOp
      BY DEF Op
    <3>2. writes \in Seq(Op)
      BY DEF TypeInv
    <3>3. QED
      BY <3>1, <3>2, WiderSeq
  <2>3. /\ {sendPending, recvPending, failed, running} \subseteq BOOLEAN
        /\ {keeps, usesNode, waits} \subseteq BOOLEAN
    BY Zenon DEF TypeInv, ReadInv
  <2>4. QED
    BY <2>1, <2>2, <2>3 DEF TypeOK, TypeInv, ReadInv
<1>2. IInv => TypeOK
  BY <1>1 DEF IInv
<1>3. QED
  BY <1>2, Invariance, PTL

(* The receive path: whatever read callbacks, arrivals and errors do, in   *)
(* any order with the writes, what was read stays, and once the node is    *)
(* full nothing ever starts a read again.                                  *)
THEOREM ReadPath == Spec => ReceivesOneNode
<1>1. ASSUME IInv, [Next]_vars
      PROVE  recv' >= recv /\ (recv = RecvSize => UNCHANGED <<recv, read>>)
  BY <1>1, ReadMonotone DEF IInv
<1>2. QED
  BY <1>1, Invariance, PTL DEF Spec, ReceivesOneNode

(* The write path over the queue, however TCP cuts the writes: until a     *)
(* read completes, one write is outstanding, and it is of exactly what is  *)
(* left of the first message.                                              *)
THEOREM WritePath == Spec => []WritePathSound
<1>1. IInv => WritePathSound
  <2> SUFFICES ASSUME IInv, ~ReadDone, ~usesNode
               PROVE  /\ SendPendingIsQueue
                      /\ Len(writes) <= 1
                      /\ writes = <<>> => queue = <<>> \/ failed
                      /\ writes # <<>> =>
                           /\ queue # <<>>
                           /\ Head(writes).first = Head(queue).first + Head(queue).cur
                           /\ Head(writes).len = Head(queue).len - Head(queue).cur
    BY DEF WritePathSound
  <2>1. Sound
    BY DEF IInv, QueueInv
  <2>2. SendPendingIsQueue
    BY <2>1 DEF Sound, SendPendingIsQueue
  <2>3. /\ writes # <<>> => Head(writes) = writes[1]
        /\ queue # <<>> => Head(queue) = queue[1]
    BY FirstAndRest DEF IInv, TypeInv
  <2>4. writes # <<>> =>
          /\ queue # <<>>
          /\ writes[1].first = queue[1].first + queue[1].cur
          /\ writes[1].len = queue[1].len - queue[1].cur
    BY <2>1 DEF Sound, SendsHead
  <2>5. QED
    BY <2>1, <2>2, <2>3, <2>4 DEF Sound
<1>2. QED
  BY <1>1, Invariance, PTL

(* What the peer gets from the queue is what the application wrote, byte   *)
(* for byte, for messages of any length, cut at any place.                 *)
THEOREM PeerInOrder ==
  Spec => [](~usesNode /\ ~ReadDone => Len(wire) <= submitted /\ InOrder)
<1>1. IInv => (~usesNode /\ ~ReadDone => Len(wire) <= submitted /\ InOrder)
  BY DEF IInv, QueueInv, Sound
<1>2. QED
  BY <1>1, Invariance, PTL

(* The delivered piece of the stream.                                      *)
LEMMA WriteSomeDelivers ==
  ASSUME TypeInv, Sound, WriteSome, ~usesNode, ~ReadDone
  PROVE  Stream!Deliver
<1>1. writes \in Seq(Op) /\ DOMAIN writes = 1..Len(writes)
  BY LenProperties DEF TypeInv
<1>2. PICK k \in 1..Len(writes) :
        /\ writes[k].st = "pending"
        /\ \E n \in 1..writes[k].len :
             \/ wire' = wire \o [i \in 1..n |-> writes[k].first + i]
             \/ /\ Dangling(writes[k])
                /\ wire' = wire \o [i \in 1..n |-> Garbage]
  BY <1>1 DEF WriteSome
<1>3. PICK n \in 1..writes[k].len :
        \/ wire' = wire \o [i \in 1..n |-> writes[k].first + i]
        \/ /\ Dangling(writes[k])
           /\ wire' = wire \o [i \in 1..n |-> Garbage]
  BY <1>2
<1>4. /\ k = 1 /\ ~failed
      /\ Dangling(writes[1]) => ~keeps
  BY <1>2, HeadIsNext
<1>5. PICK first, len, m, a \in Nat :
        /\ first = writes[1].first /\ len = writes[1].len
        /\ m = Len(wire) /\ m = first /\ a = submitted /\ first + len <= a
        /\ n \in 1..len
  BY <1>2, <1>4, HeadIsNext
<1>6. \/ wire' = wire \o [i \in 1..n |-> Len(wire) + i]
      \/ ~keeps /\ wire' = wire \o [i \in 1..n |-> Garbage]
  <2>1. writes[k].first = Len(wire)
    BY <1>4, <1>5
  <2>2. QED
    BY <1>3, <1>4, <2>1
<1>7. n \in 1..(submitted - Len(wire))
  <2>1. n \in 1..(a - m)
    BY <1>5
  <2>2. QED
    BY <1>5, <2>1
<1>8. UNCHANGED <<submitted, failed, keeps>> /\ UNCHANGED <<usesNode, recvPending, recv>>
  BY DEF WriteSome, application, recvVars
<1>9. UNCHANGED ReadDone
  BY <1>8 DEF ReadDone
<1>10. QED
  BY <1>4, <1>6, <1>7, <1>8, <1>9 DEF Stream!Deliver

LEMMA InitStream == Init => Stream!Init
<1>1. SUFFICES ASSUME Init PROVE Stream!Init
  OBVIOUS
<1>2. submitted = 0 /\ wire = <<>>
  BY <1>1, NothingYet
<1>3. keeps \in BOOLEAN /\ failed = FALSE
  <2>1. failed = FALSE
    BY <1>1 DEF Init
  <2>2. QED
    BY <1>1, <2>1, InitTypes DEF TypeInv
<1>4. (~ReadDone /\ ~usesNode) \in BOOLEAN
  OBVIOUS
<1>5. QED
  BY <1>2, <1>3, <1>4 DEF Stream!Init

(* Every step of a session is one of the stream or leaves it alone.        *)
LEMMA StreamStep ==
  ASSUME IInv, [Next]_vars
  PROVE  [Stream!Next]_Stream!streamVars
<1>1. TypeInv /\ ReadInv /\ QueueInv
  BY DEF IInv
<1>2. /\ TypeInv' /\ UNCHANGED application
      /\ ReadDone => ReadDone'
  BY <1>1, TypeStep, ReadStep
<1>3. usesNode' = usesNode /\ keeps' = keeps
  BY <1>2 DEF application
<1>4. CASE usesNode \/ ReadDone
  <2>1. ~(~ReadDone /\ ~usesNode) /\ ~(~ReadDone /\ ~usesNode)'
    BY <1>2, <1>3, <1>4
  <2>2. Stream!Afterwards
    BY <1>3, <2>1 DEF Stream!Afterwards
  <2>3. QED
    BY <2>2 DEF Stream!Next
<1>5. CASE ~usesNode /\ ~ReadDone
  <2>1. Sound
    BY <1>1, <1>5 DEF QueueInv
  <2>2. ASSUME UNCHANGED recvVars PROVE UNCHANGED ReadDone
    BY <2>2 DEF recvVars, ReadDone
  <2>3. ASSUME NEW len \in MsgLen, Submit(len) PROVE Stream!Write
    <3>1. submitted \in Nat /\ len \in Nat /\ submitted' = submitted + len
      BY <1>1, <2>3, SubmitStep
    <3>2. submitted' \in Nat /\ submitted' >= submitted
      BY <3>1
    <3>3. UNCHANGED <<wire, failed>> /\ UNCHANGED recvVars
      BY <2>3 DEF Submit
    <3>4. UNCHANGED ReadDone
      BY <2>2, <3>3
    <3>5. QED
      BY <1>3, <1>5, <3>2, <3>3, <3>4 DEF Stream!Write
  <2>4. ASSUME WriteCallBack \/ WritesFail PROVE UNCHANGED Stream!streamVars
    <3>1. UNCHANGED <<submitted, wire, failed>> /\ UNCHANGED recvVars
      BY <2>4 DEF WriteCallBack, WritesFail
    <3>2. UNCHANGED ReadDone
      BY <2>2, <3>1
    <3>3. QED
      BY <1>3, <3>1, <3>2 DEF Stream!streamVars
  <2>5. ASSUME WriteCallBackError PROVE Stream!Break
    <3>1. UNCHANGED <<submitted, wire>> /\ failed' = TRUE /\ UNCHANGED recvVars
      BY <2>5 DEF WriteCallBackError
    <3>2. UNCHANGED ReadDone
      BY <2>2, <3>1
    <3>3. QED
      BY <1>3, <1>5, <3>1, <3>2 DEF Stream!Break
  <2>6. ASSUME UNCHANGED <<queue, writes, sendNode, submitted, messages, failed, wire,
                           application>>
        PROVE  Stream!Lapse \/ UNCHANGED Stream!streamVars
    <3>1. UNCHANGED <<submitted, wire, failed>>
      BY <2>6
    <3>2. CASE ReadDone'
      <4>1. ~(~ReadDone /\ ~usesNode)'
        BY <3>2
      <4>2. QED
        BY <1>3, <3>1, <4>1 DEF Stream!Lapse
    <3>3. CASE ~ReadDone'
      <4>1. UNCHANGED ReadDone
        BY <1>5, <3>3 DEF ReadDone
      <4>2. QED
        BY <1>3, <3>1, <4>1 DEF Stream!streamVars
    <3>4. QED
      BY <3>2, <3>3
  <2>7. ASSUME WriteSome PROVE Stream!Deliver
    BY <1>1, <1>5, <2>1, <2>7, WriteSomeDelivers
  <2>8. QED
    BY <1>1, <1>5, <2>3, <2>4, <2>5, <2>6, <2>7, OtherSteps DEF Stream!Next
<1>6. QED
  BY <1>4, <1>5

(* Until a read completes, the send queue is a pipe, whatever the lengths  *)
(* of the messages and wherever they are cut: it implements ByteStream.    *)
THEOREM Refinement == Spec => IsByteStream
<1>1. Init => Stream!Init
  BY InitStream
<1>2. IInv /\ [Next]_vars => [Stream!Next]_Stream!streamVars
  BY StreamStep
<1>3. QED
  BY <1>1, <1>2, Invariance, PTL DEF Spec, IsByteStream, Stream!Spec

(* However many writes of send_node_ are outstanding, and in whatever      *)
(* order their callbacks run, the newest that is not complete is of        *)
(* send_node_ as it is, which nobody has freed, unless that is empty.      *)
THEOREM NewestLives == Spec => []NewestWriteLives
<1>1. IInv => NewestWriteLives
  <2>1. SUFFICES ASSUME IInv, usesNode, sendNode.len > 0, NEW k \in DOMAIN writes,
                        writes[k].st = "pending",
                        \A j \in (k + 1)..Len(writes) : writes[j].st # "pending"
                 PROVE  /\ <<writes[k].first, writes[k].len>>
                             = <<sendNode.first, sendNode.len>>
                        /\ ~Dangling(writes[k])
    BY DEF NewestWriteLives
  <2>2. k \in 1..Len(writes) /\ LastPending(writes, k)
    BY <2>1, LenProperties DEF IInv, TypeInv, LastPending
  <2>3. /\ writes[k].from \in {"node", "bound"}
        /\ writes[k].first = sendNode.first /\ writes[k].len = sendNode.len
    BY <2>1, <2>2 DEF IInv, NodeInv, FromNode, Newest
  <2>4. ~Dangling(writes[k])
    BY <2>3 DEF Dangling
  <2>5. QED
    BY <2>3, <2>4
<1>2. QED
  BY <1>1, Invariance, PTL

(* An application that waits for each write of send_node_ loses nothing,   *)
(* though a write that sent only a part is started again from the start.   *)
THEOREM WaitingWorks == Spec => []WaitingLosesNothing
<1>1. IInv => WaitingLosesNothing
  <2> SUFFICES ASSUME IInv, waits, ~failed PROVE WaitingLosesNothing
    BY DEF WaitingLosesNothing
  <2>1. Waiting
    BY DEF IInv, WaitInv
  <2>2. ASSUME writes = <<>>, submitted > 0
        PROVE  wire # <<>> /\ wire[Len(wire)] = submitted
    <3>1. Reached = submitted
      BY <2>1, <2>2 DEF Waiting
    <3>2. ~(0 > 0)
      OBVIOUS
    <3>3. wire # <<>>
      BY <2>2, <3>1, <3>2 DEF Reached
    <3>4. QED
      BY <3>1, <3>3 DEF Reached
  <2>3. QED
    BY <2>1, <2>2 DEF Waiting, Climbs, WaitingLosesNothing
<1>2. QED
  BY <1>1, Invariance, PTL
=============================================================================
