------------------------- MODULE EchoSocketsProofs -------------------------
(***************************************************************************)
(* What the proofs about the asynchronous echo servers share: the types of *)
(* the operations on a socket, and the way a session that reads and writes *)
(* in turn goes, whoever owns it (01 and 02).                              *)
(***************************************************************************)
EXTENDS EchoSockets, SequenceTheorems, TLAPS

ReadOp == [st : OpState, len : 0..BufLen]
WriteOp == [st : OpState, len : Nat, done : Nat]

(* The first n bytes a client sends. *)
Upto(n) == [i \in 1..n |-> i]

(* A socket, and every socket but that of s, is left alone. *)
SameSocket(s) ==
  /\ data'[s] = data[s]
  /\ read'[s] = read[s]
  /\ write'[s] = write[s]
  /\ received'[s] = received[s]
  /\ echoed'[s] = echoed[s]

OnlyTouches(s) == \A t \in Session \ {s} : SameSocket(t)
-----------------------------------------------------------------------------
(* The phases of a session that has one operation outstanding at a time:   *)
(* what data_ and the bytes sent back so far are in each.                  *)
LastRead(s, n) ==
  \A i \in 1..BufLen :
     data[s][i] = IF i <= n THEN received[s] - n + i ELSE 0

SockFresh(s) ==
  /\ read[s].st = "idle" /\ write[s].st = "idle"
  /\ data[s] = Cleared
  /\ received[s] = 0
  /\ echoed[s] = <<>>

SockReading(s) ==
  /\ read[s].st \in {"pending", "error"} /\ write[s].st = "idle"
  /\ data[s] = Cleared
  /\ echoed[s] = Upto(received[s])

SockHasRead(s) ==
  /\ read[s].st = "ok" /\ write[s].st = "idle"
  /\ read[s].len \in 1..received[s]
  /\ LastRead(s, read[s].len)
  /\ echoed[s] = Upto(received[s] - read[s].len)

SockWriting(s) ==
  /\ read[s].st = "idle" /\ write[s].st # "idle"
  /\ write[s].len \in 1..BufLen
  /\ write[s].len <= received[s]
  /\ write[s].done <= write[s].len
  /\ write[s].st = "pending" => write[s].done < write[s].len
  /\ write[s].st = "ok" => write[s].done = write[s].len
  /\ LastRead(s, write[s].len)
  /\ echoed[s] = Upto(received[s] - write[s].len + write[s].done)

LEMMA SameSocketSamePhase ==
  ASSUME NEW s, SameSocket(s)
  PROVE  /\ SockFresh(s)' <=> SockFresh(s)
         /\ SockReading(s)' <=> SockReading(s)
         /\ SockHasRead(s)' <=> SockHasRead(s)
         /\ SockWriting(s)' <=> SockWriting(s)
<1>1. SockFresh(s)' <=> SockFresh(s)
  BY DEF SameSocket, SockFresh
<1>2. SockReading(s)' <=> SockReading(s)
  BY DEF SameSocket, SockReading
<1>3. \A n : LastRead(s, n)' <=> LastRead(s, n)
  BY DEF SameSocket, LastRead
<1>4. SockHasRead(s)' <=> SockHasRead(s)
  BY <1>3 DEF SameSocket, SockHasRead
<1>5. SockWriting(s)' <=> SockWriting(s)
  BY <1>3 DEF SameSocket, SockWriting
<1>6. QED
  BY <1>1, <1>2, <1>4, <1>5
-----------------------------------------------------------------------------
(* The operations handlers start, and what becomes of one that is closed,  *)
(* fails, or goes on, are operations.                                      *)
LEMMA OpTypes ==
  /\ NoRead \in ReadOp /\ Reading \in ReadOp /\ NoWrite \in WriteOp
  /\ \A op \in ReadOp : Aborted(op) \in ReadOp
  /\ \A op \in WriteOp : Aborted(op) \in WriteOp
<1>1. NoRead \in ReadOp /\ Reading \in ReadOp /\ NoWrite \in WriteOp
  BY BufLenAssumption DEF NoRead, Reading, NoWrite, ReadOp, WriteOp, OpState
<1>2. ASSUME NEW op \in ReadOp PROVE Aborted(op) \in ReadOp
  BY DEF Aborted, ReadOp, OpState
<1>3. ASSUME NEW op \in WriteOp PROVE Aborted(op) \in WriteOp
  BY DEF Aborted, WriteOp, OpState
<1>4. QED
  BY <1>1, <1>2, <1>3

LEMMA AbortedIdle ==
  /\ \A op \in ReadOp : op.st = "idle" => Aborted(op) = op
  /\ \A op \in WriteOp : op.st = "idle" => Aborted(op) = op
  /\ \A op \in ReadOp \union WriteOp : Aborted(op).st # "pending"
<1>1. \A op \in ReadOp : op.st = "idle" => Aborted(op) = op
  BY DEF Aborted, ReadOp, OpState
<1>2. \A op \in WriteOp : op.st = "idle" => Aborted(op) = op
  BY DEF Aborted, WriteOp, OpState
<1>3. \A op \in ReadOp \union WriteOp : Aborted(op).st # "pending"
  BY DEF Aborted, ReadOp, WriteOp, OpState
<1>4. QED
  BY <1>1, <1>2, <1>3

LEMMA FailedTypes ==
  /\ \A op \in ReadOp : /\ [op EXCEPT !.st = "error"] \in ReadOp
                        /\ [op EXCEPT !.st = "error"].st = "error"
  /\ \A op \in WriteOp : /\ [op EXCEPT !.st = "error"] \in WriteOp
                         /\ [op EXCEPT !.st = "error"].st = "error"
                         /\ [op EXCEPT !.st = "error"].len = op.len
                         /\ [op EXCEPT !.st = "error"].done = op.done
BY DEF ReadOp, WriteOp, OpState

(* A write that is started, or has sent some bytes, is not idle. *)
LEMMA StartedWrite ==
  ASSUME NEW len \in Nat
  PROVE  /\ Writing(len) \in WriteOp
         /\ Writing(len).st = IF len = 0 THEN "ok" ELSE "pending"
         /\ Writing(len).done = 0 /\ Writing(len).len = len
BY DEF Writing, WriteOp, OpState

LEMMA SentWrite ==
  ASSUME NEW w \in WriteOp, NEW n \in Nat
  PROVE  /\ Sent(w, n) \in WriteOp
         /\ Sent(w, n).st = IF w.done + n = w.len THEN "ok" ELSE "pending"
         /\ Sent(w, n).len = w.len
         /\ Sent(w, n).done = w.done + n
<1>1. w = [st |-> w.st, len |-> w.len, done |-> w.done]
  BY DEF WriteOp
<1>2. Sent(w, n) = [st |-> IF w.done + n = w.len THEN "ok" ELSE "pending",
                    len |-> w.len, done |-> w.done + n]
  <2> DEFINE st == IF w.done + n = w.len THEN "ok" ELSE "pending"
  <2>1. Sent(w, n) = [w EXCEPT !.done = w.done + n, !.st = st]
    BY DEF Sent
  <2> HIDE DEF st
  <2>2. Sent(w, n) = [st |-> st, len |-> w.len, done |-> w.done + n]
    BY <1>1, <2>1
  <2>3. QED
    BY <2>2 DEF st
<1>3. w.len \in Nat /\ w.done + n \in Nat
  BY DEF WriteOp
<1>4. QED
  BY <1>2, <1>3 DEF WriteOp, OpState

LEMMA ClearedType == Cleared \in [1..BufLen -> Byte]
BY DEF Cleared, Byte

(* The variables of one socket, as SockTypeOK types them. *)
LEMMA SockTypes ==
  ASSUME SockTypeOK, NEW s \in Session
  PROVE  /\ data[s] \in [1..BufLen -> Byte]
         /\ read[s] \in ReadOp
         /\ write[s] \in WriteOp
         /\ received[s] \in Nat /\ received[s] <= MaxBytes
         /\ echoed[s] \in Seq(Byte)
         /\ BufLen \in Nat \ {0} /\ MaxBytes \in Nat
BY BufLenAssumption, MaxBytesAssumption DEF SockTypeOK, ReadOp, WriteOp

(* What keeps SockTypeOK when only the socket of s changes. *)
LEMMA SockTypesKept ==
  ASSUME SockTypeOK, NEW s \in Session,
         NEW d, NEW r, NEW w, NEW n, NEW e,
         data' = [data EXCEPT ![s] = d] \/ data' = data,
         read' = [read EXCEPT ![s] = r] \/ read' = read,
         write' = [write EXCEPT ![s] = w] \/ write' = write,
         received' = [received EXCEPT ![s] = n] \/ received' = received,
         echoed' = [echoed EXCEPT ![s] = e] \/ echoed' = echoed,
         d \in [1..BufLen -> Byte], r \in ReadOp, w \in WriteOp,
         n \in 0..MaxBytes, e \in Seq(Byte)
  PROVE  SockTypeOK' /\ OnlyTouches(s)
<1>1. data' \in [Session -> [1..BufLen -> Byte]] /\ \A t \in Session \ {s} : data'[t] = data[t]
  BY DEF SockTypeOK
<1>2. read' \in [Session -> ReadOp] /\ \A t \in Session \ {s} : read'[t] = read[t]
  BY DEF SockTypeOK, ReadOp
<1>3. write' \in [Session -> WriteOp] /\ \A t \in Session \ {s} : write'[t] = write[t]
  BY DEF SockTypeOK, WriteOp
<1>4. /\ received' \in [Session -> 0..MaxBytes]
      /\ \A t \in Session \ {s} : received'[t] = received[t]
  BY DEF SockTypeOK
<1>5. echoed' \in [Session -> Seq(Byte)] /\ \A t \in Session \ {s} : echoed'[t] = echoed[t]
  BY DEF SockTypeOK
<1>6. QED
  BY <1>1, <1>2, <1>3, <1>4, <1>5 DEF SockTypeOK, OnlyTouches, SameSocket, ReadOp, WriteOp

LEMMA InitTypes ==
  ASSUME SockInit
  PROVE  /\ SockTypeOK
         /\ \A s \in Session : SockFresh(s)
<1>1. <<>> \in Seq(Byte) /\ 0 \in 0..MaxBytes
  BY EmptySeq, MaxBytesAssumption
<1>2. SockTypeOK
  BY <1>1, OpTypes, ClearedType DEF SockInit, SockTypeOK, ReadOp, WriteOp
<1>3. QED
  BY <1>2 DEF SockInit, SockFresh, NoRead, NoWrite
-----------------------------------------------------------------------------
(* The first n bytes of a client are a sequence of bytes. *)
LEMMA UptoIsSeq ==
  ASSUME NEW n \in Nat
  PROVE  /\ Upto(n) \in Seq(Byte)
         /\ Len(Upto(n)) = n
         /\ \A i \in 1..n : Upto(n)[i] = i
<1>1. Upto(n) \in [1..n -> Byte]
  BY DEF Upto, Byte
<1>2. Upto(n) \in Seq(Byte)
  BY <1>1, SeqDef
<1>3. QED
  BY <1>1, <1>2, LenProperties DEF Upto

(* Sending back the next n bytes of a stream of which a were sent. *)
LEMMA UptoExtends ==
  ASSUME NEW a \in Nat, NEW n \in Nat, NEW piece \in [1..n -> Byte],
         \A i \in 1..n : piece[i] = a + i
  PROVE  Upto(a) \o piece = Upto(a + n)
<1>1. piece \in Seq(Byte) /\ Len(piece) = n
  <2>1. piece \in Seq(Byte)
    BY SeqDef
  <2>2. QED
    BY <2>1, LenProperties
<1>2. /\ Upto(a) \in Seq(Byte)
      /\ Len(Upto(a)) = a
      /\ \A i \in 1..a : Upto(a)[i] = i
  BY UptoIsSeq
<1>3. /\ a + n \in Nat
      /\ Upto(a + n) \in Seq(Byte)
      /\ Len(Upto(a + n)) = a + n
      /\ \A i \in 1..(a + n) : Upto(a + n)[i] = i
  BY UptoIsSeq
<1>4. /\ Upto(a) \o piece \in Seq(Byte)
      /\ Len(Upto(a) \o piece) = a + n
      /\ \A i \in 1..(a + n) :
           (Upto(a) \o piece)[i] = IF i <= a THEN Upto(a)[i] ELSE piece[i - a]
  <2>1. /\ Upto(a) \o piece \in Seq(Byte)
        /\ Len(Upto(a) \o piece) = Len(Upto(a)) + Len(piece)
        /\ \A i \in 1..(Len(Upto(a)) + Len(piece)) :
             (Upto(a) \o piece)[i] =
                IF i <= Len(Upto(a)) THEN Upto(a)[i] ELSE piece[i - Len(Upto(a))]
    BY <1>1, <1>2, ConcatProperties, Zenon
  <2>2. QED
    BY <1>1, <1>2, <2>1
<1>5. ASSUME NEW i \in 1..(a + n)
      PROVE  (Upto(a) \o piece)[i] = Upto(a + n)[i]
  <2>1. CASE i <= a
    BY <1>2, <1>3, <1>4, <2>1
  <2>2. CASE ~(i <= a)
    <3>1. i - a \in 1..n
      BY <2>2
    <3>2. piece[i - a] = i
      BY <3>1
    <3>3. QED
      BY <1>3, <1>4, <2>2, <3>2
  <2>3. QED
    BY <2>1, <2>2
<1>6. QED
  BY <1>3, <1>4, <1>5, SeqEqual
-----------------------------------------------------------------------------
(* What the network does to the socket of a session in each phase. *)
LEMMA ReadSomeStep ==
  ASSUME SockTypeOK, NEW s \in Session, SockReading(s), ReadSome(s)
  PROVE  /\ SockTypeOK' /\ OnlyTouches(s)
         /\ SockHasRead(s)'
         /\ received'[s] \in Nat /\ received'[s] > received[s]
         /\ received' = [received EXCEPT ![s] = received'[s]]
         /\ UNCHANGED echoed
<1>1. PICK n \in 1..BufLen :
        /\ received[s] + n <= MaxBytes
        /\ data' = [data EXCEPT ![s] =
                      [i \in 1..BufLen |->
                         IF i <= n THEN received[s] + i ELSE data[s][i]]]
        /\ received' = [received EXCEPT ![s] = received[s] + n]
        /\ read' = [read EXCEPT ![s] = [st |-> "ok", len |-> n]]
  BY DEF ReadSome, ReadSizes
<1>2. PICK a, b, m \in Nat :
        a = received[s] /\ b = BufLen /\ m = MaxBytes /\ a + n <= m /\ n \in 1..b
  BY <1>1, SockTypes
<1>3. n \in Nat /\ n > 0 /\ a + n \in 0..m /\ a + n > a /\ n \in 0..b /\ n \in 1..(a + n)
      /\ (a + n) - n = a
  BY <1>2
<1>4. [i \in 1..BufLen |-> IF i <= n THEN a + i ELSE data[s][i]] \in [1..BufLen -> Byte]
  <2>1. data[s] \in [1..BufLen -> Byte]
    BY SockTypes
  <2>2. ASSUME NEW i \in 1..BufLen PROVE (IF i <= n THEN a + i ELSE data[s][i]) \in Byte
    BY <1>2, <2>1 DEF Byte
  <2>3. QED
    BY <2>2
<1>5. [st |-> "ok", len |-> n] \in ReadOp
  BY <1>2, <1>3 DEF ReadOp, OpState
<1>6. SockTypeOK' /\ OnlyTouches(s)
  <2>1. a + n \in 0..MaxBytes /\ UNCHANGED <<write, echoed>>
    BY <1>2, <1>3 DEF ReadSome
  <2>2. write[s] \in WriteOp /\ echoed[s] \in Seq(Byte)
    BY SockTypes
  <2>3. QED
    BY <1>1, <1>2, <1>4, <1>5, <2>1, <2>2, SockTypesKept
<1>7. /\ received'[s] = a + n
      /\ read'[s] = [st |-> "ok", len |-> n]
      /\ data'[s] = [i \in 1..BufLen |-> IF i <= n THEN a + i ELSE data[s][i]]
      /\ UNCHANGED <<write, echoed>>
  BY <1>1, <1>2 DEF SockTypeOK, ReadSome
<1>8. SockHasRead(s)'
  <2>1. ASSUME NEW i \in 1..BufLen
        PROVE  data'[s][i] = IF i <= n THEN received'[s] - n + i ELSE 0
    <3>1. data[s][i] = 0
      BY DEF SockReading, Cleared
    <3>2. data'[s][i] = IF i <= n THEN a + i ELSE 0
      BY <1>7, <3>1
    <3>3. PICK j \in Nat : j = i
      BY <1>2
    <3>4. (a + n) - n + j = a + j
      BY <1>3
    <3>5. QED
      BY <1>7, <3>2, <3>3, <3>4
  <2>2. LastRead(s, n)'
    BY <2>1 DEF LastRead
  <2>3. LastRead(s, read[s].len)'
    BY <1>7, <2>2 DEF LastRead
  <2>4. echoed'[s] = Upto(received'[s] - n)
    BY <1>2, <1>3, <1>7 DEF SockReading
  <2>5. QED
    BY <1>3, <1>7, <2>3, <2>4 DEF SockHasRead, SockReading
<1>9. received' = [received EXCEPT ![s] = received'[s]]
  BY <1>1, <1>2, <1>7
<1>10. received'[s] \in Nat /\ received'[s] > received[s]
  BY <1>2, <1>3, <1>7
<1>11. QED
  BY <1>6, <1>7, <1>8, <1>9, <1>10

LEMMA ReadFailsStep ==
  ASSUME SockTypeOK, NEW s \in Session, SockReading(s), ReadFails(s)
  PROVE  /\ SockTypeOK' /\ OnlyTouches(s)
         /\ SockReading(s)'
         /\ UNCHANGED <<received, echoed>>
<1>1. /\ read' = [read EXCEPT ![s] = [read[s] EXCEPT !.st = "error"]]
      /\ UNCHANGED <<data, write, received, echoed>>
  BY DEF ReadFails
<1>2. /\ [read[s] EXCEPT !.st = "error"] \in ReadOp
      /\ [read[s] EXCEPT !.st = "error"].st = "error"
  BY SockTypes, FailedTypes
<1>3. SockTypeOK' /\ OnlyTouches(s)
  <2>1. /\ data[s] \in [1..BufLen -> Byte] /\ read[s] \in ReadOp /\ write[s] \in WriteOp
        /\ received[s] \in 0..MaxBytes /\ echoed[s] \in Seq(Byte)
    BY SockTypes
  <2>2. QED
    BY <1>1, <1>2, <2>1, SockTypesKept
<1>4. read'[s].st = "error"
  BY <1>1, <1>2 DEF SockTypeOK
<1>5. QED
  BY <1>1, <1>3, <1>4 DEF SockReading

LEMMA WriteFailsStep ==
  ASSUME SockTypeOK, NEW s \in Session, SockWriting(s), WriteFails(s)
  PROVE  /\ SockTypeOK' /\ OnlyTouches(s)
         /\ SockWriting(s)'
         /\ UNCHANGED <<received, echoed>>
<1>1. /\ write' = [write EXCEPT ![s] = [write[s] EXCEPT !.st = "error"]]
      /\ UNCHANGED <<data, read, received, echoed>>
  BY DEF WriteFails
<1>2. /\ [write[s] EXCEPT !.st = "error"] \in WriteOp
      /\ [write[s] EXCEPT !.st = "error"].st = "error"
      /\ [write[s] EXCEPT !.st = "error"].len = write[s].len
      /\ [write[s] EXCEPT !.st = "error"].done = write[s].done
  BY SockTypes, FailedTypes
<1>3. SockTypeOK' /\ OnlyTouches(s)
  <2>1. /\ data[s] \in [1..BufLen -> Byte] /\ read[s] \in ReadOp /\ write[s] \in WriteOp
        /\ received[s] \in 0..MaxBytes /\ echoed[s] \in Seq(Byte)
    BY SockTypes
  <2>2. QED
    BY <1>1, <1>2, <2>1, SockTypesKept
<1>4. write'[s].st = "error" /\ write'[s].len = write[s].len /\ write'[s].done = write[s].done
  BY <1>1, <1>2 DEF SockTypeOK
<1>5. LastRead(s, write[s].len)'
  BY <1>1, <1>4 DEF SockWriting, LastRead
<1>6. QED
  BY <1>1, <1>3, <1>4, <1>5 DEF SockWriting

(* The bytes the network takes are the next bytes of the client's stream. *)
LEMMA WriteSomeStep ==
  ASSUME SockTypeOK, NEW s \in Session, SockWriting(s), WriteSome(s, data[s])
  PROVE  /\ SockTypeOK' /\ OnlyTouches(s)
         /\ SockWriting(s)'
         /\ \E m \in (Len(echoed[s]) + 1)..received[s] :
               echoed' = [echoed EXCEPT ![s] = Upto(m)]
         /\ UNCHANGED received
<1>1. PICK n \in 1..(write[s].len - write[s].done) :
        /\ echoed' = [echoed EXCEPT ![s] = echoed[s] \o Slice(data[s], write[s].done, n)]
        /\ write' = [write EXCEPT ![s] = Sent(write[s], n)]
  BY DEF WriteSome
<1>2. PICK len, done, r, b \in Nat :
        /\ len = write[s].len /\ done = write[s].done /\ r = received[s] /\ b = BufLen
        /\ n \in 1..(len - done) /\ len <= b /\ len <= r /\ done <= len
  <2>1. write[s].len \in Nat /\ write[s].done \in Nat
    BY SockTypes DEF WriteOp
  <2>2. QED
    BY <1>1, <2>1, SockTypes DEF SockWriting
<1>3. /\ n \in Nat /\ n > 0 /\ done + n <= len
      /\ (r - len) + done \in Nat
      /\ ((r - len) + done) + n \in (((r - len) + done) + 1)..r
      /\ (r - len) + (done + n) = ((r - len) + done) + n
  BY <1>2
<1>4. PICK a \in Nat : a = r - len + done
  BY <1>2, <1>3
<1>5. a + n \in (a + 1)..r /\ a + n \in Nat
  BY <1>2, <1>3, <1>4
<1>6. ASSUME NEW i \in 1..n
      PROVE  data[s][done + i] = a + i
  <2>1. done + i \in 1..b /\ done + i <= len
    BY <1>2, <1>3
  <2>2. data[s][done + i] = received[s] - len + (done + i)
    BY <1>2, <2>1 DEF SockWriting, LastRead
  <2>3. r - len + (done + i) = a + i
    BY <1>2, <1>3, <1>4
  <2>4. QED
    BY <1>2, <2>2, <2>3
<1>7. PICK piece \in [1..n -> Byte] :
        piece = Slice(data[s], done, n) /\ \A i \in 1..n : piece[i] = a + i
  <2>1. \A i \in 1..n : a + i \in Byte
    BY <1>3 DEF Byte
  <2>2. \A i \in 1..n : data[s][done + i] = a + i
    BY <1>6
  <2>3. Slice(data[s], done, n) = [i \in 1..n |-> data[s][done + i]]
    BY DEF Slice
  <2>4. Slice(data[s], done, n) = [i \in 1..n |-> a + i]
    BY <2>2, <2>3
  <2>5. QED
    BY <2>1, <2>4
<1>8. echoed[s] = Upto(a) /\ Len(echoed[s]) = a
  BY <1>2, <1>4, UptoIsSeq DEF SockWriting
<1>9. echoed[s] \o Slice(data[s], write[s].done, n) = Upto(a + n)
  <2>1. Upto(a) \o piece = Upto(a + n)
    BY <1>3, <1>7, UptoExtends
  <2>2. QED
    BY <1>2, <1>7, <1>8, <2>1
<1>10. /\ Sent(write[s], n) \in WriteOp
       /\ Sent(write[s], n).st = IF done + n = len THEN "ok" ELSE "pending"
       /\ Sent(write[s], n).len = len
       /\ Sent(write[s], n).done = done + n
  BY <1>2, <1>3, SockTypes, SentWrite
<1>11. SockTypeOK' /\ OnlyTouches(s)
  <2>1. UNCHANGED <<data, read, received>> /\ Upto(a + n) \in Seq(Byte)
    BY <1>5, UptoIsSeq DEF WriteSome
  <2>2. data[s] \in [1..BufLen -> Byte] /\ read[s] \in ReadOp /\ received[s] \in 0..MaxBytes
    BY SockTypes
  <2>3. QED
    BY <1>1, <1>9, <1>10, <2>1, <2>2, SockTypesKept
<1>12. /\ write'[s].st = IF done + n = len THEN "ok" ELSE "pending"
       /\ write'[s].len = len /\ write'[s].done = done + n
       /\ echoed'[s] = Upto(a + n)
       /\ UNCHANGED <<data, read, received>>
  BY <1>1, <1>9, <1>10 DEF SockTypeOK, WriteSome
<1>13. SockWriting(s)'
  <2>1. LastRead(s, write[s].len)'
    BY <1>2, <1>12 DEF SockWriting, LastRead
  <2>2. echoed'[s] = Upto(received'[s] - write'[s].len + write'[s].done)
    <3>1. r - len + (done + n) = a + n
      BY <1>2, <1>3, <1>4
    <3>2. received'[s] = r /\ write'[s].len = len /\ write'[s].done = done + n
      BY <1>2, <1>12
    <3>3. QED
      <4>1. received'[s] - write'[s].len + write'[s].done = a + n
        BY <3>1, <3>2
      <4>2. QED
        BY <1>12, <4>1
  <2>3. done + n # len => done + n < len
    <3>1. PICK k \in Nat : k = n /\ done + k <= len
      BY <1>3
    <3>2. done + k # len => done + k < len
      BY <3>1
    <3>3. QED
      BY <3>1, <3>2
  <2>4. /\ read'[s].st = "idle" /\ write'[s].st # "idle"
        /\ write'[s].len \in 1..BufLen /\ write'[s].len <= received'[s]
    BY <1>2, <1>12 DEF SockWriting
  <2>5. /\ write'[s].done <= write'[s].len
        /\ write'[s].st = "pending" => write'[s].done < write'[s].len
        /\ write'[s].st = "ok" => write'[s].done = write'[s].len
    BY <1>3, <1>12, <2>3
  <2>6. QED
    BY <2>1, <2>2, <2>4, <2>5 DEF SockWriting
<1>14. QED
  <2>1. echoed' = [echoed EXCEPT ![s] = Upto(a + n)]
    BY <1>1, <1>9
  <2>2. a + n \in (Len(echoed[s]) + 1)..received[s]
    BY <1>2, <1>5, <1>8
  <2>3. QED
    BY <1>11, <1>12, <1>13, <2>1, <2>2
-----------------------------------------------------------------------------
(* What the handlers of a session do to its socket: HandleRead writes back *)
(* what was read, and HandleWrite clears data_ and reads again.            *)
LEMMA EchoStep ==
  ASSUME SockTypeOK, NEW s \in Session, SockHasRead(s),
         write' = [write EXCEPT ![s] = Writing(read[s].len)],
         read' = [read EXCEPT ![s] = NoRead],
         UNCHANGED <<data, received, echoed>>
  PROVE  SockTypeOK' /\ OnlyTouches(s) /\ SockWriting(s)'
<1>1. PICK n, r, b \in Nat :
        n = read[s].len /\ r = received[s] /\ b = BufLen /\ n \in 1..r /\ n <= b
  <2>1. read[s].len \in 0..BufLen
    BY SockTypes DEF ReadOp
  <2>2. read[s].len \in 1..received[s]
    BY DEF SockHasRead
  <2>3. QED
    BY <2>1, <2>2, SockTypes
<1>2. n > 0 /\ n # 0 /\ n \in 1..b /\ r - n + 0 = r - n
  BY <1>1
<1>3. /\ Writing(n) \in WriteOp /\ Writing(n).st = "pending"
      /\ Writing(n).len = n /\ Writing(n).done = 0
  BY <1>2, StartedWrite
<1>4. SockTypeOK' /\ OnlyTouches(s)
  <2>1. /\ data[s] \in [1..BufLen -> Byte] /\ received[s] \in 0..MaxBytes
        /\ echoed[s] \in Seq(Byte)
    BY SockTypes
  <2>2. QED
    BY <1>1, <1>3, <2>1, OpTypes, SockTypesKept
<1>5. /\ read'[s].st = "idle"
      /\ write'[s].st = "pending" /\ write'[s].len = n /\ write'[s].done = 0
  BY <1>1, <1>3 DEF SockTypeOK, NoRead
<1>6. LastRead(s, write[s].len)'
  BY <1>1, <1>5 DEF SockHasRead, LastRead
<1>7. echoed'[s] = Upto(received'[s] - write'[s].len + write'[s].done)
  <2>1. received'[s] - write'[s].len + write'[s].done = r - n
    BY <1>1, <1>2, <1>5
  <2>2. echoed'[s] = Upto(r - n)
    BY <1>1 DEF SockHasRead
  <2>3. QED
    BY <2>1, <2>2
<1>8. /\ write'[s].len \in 1..BufLen /\ write'[s].len <= received'[s]
      /\ write'[s].done <= write'[s].len /\ write'[s].done < write'[s].len
  BY <1>1, <1>2, <1>5
<1>9. SockWriting(s)'
  BY <1>5, <1>6, <1>7, <1>8 DEF SockWriting
<1>10. QED
  BY <1>4, <1>9

LEMMA ReadAgainStep ==
  ASSUME SockTypeOK, NEW s \in Session, SockWriting(s), write[s].st = "ok",
         data' = [data EXCEPT ![s] = Cleared],
         write' = [write EXCEPT ![s] = NoWrite],
         read' = [read EXCEPT ![s] = Reading],
         UNCHANGED <<received, echoed>>
  PROVE  SockTypeOK' /\ OnlyTouches(s) /\ SockReading(s)'
<1>1. SockTypeOK' /\ OnlyTouches(s)
  <2>1. received[s] \in 0..MaxBytes /\ echoed[s] \in Seq(Byte)
    BY SockTypes
  <2>2. QED
    BY <2>1, ClearedType, OpTypes, SockTypesKept
<1>2. /\ read'[s].st = "pending" /\ write'[s].st = "idle" /\ data'[s] = Cleared
      /\ UNCHANGED <<received, echoed>>
  BY DEF SockTypeOK, Reading, NoWrite
<1>3. echoed[s] = Upto(received[s])
  <2>1. PICK r, n \in Nat : r = received[s] /\ n = write[s].len
    BY SockTypes DEF WriteOp
  <2>2. echoed[s] = Upto(r - n + n)
    BY <2>1 DEF SockWriting
  <2>3. r - n + n = r
    BY <2>1
  <2>4. QED
    BY <2>1, <2>2, <2>3
<1>4. QED
  BY <1>1, <1>2, <1>3 DEF SockReading

(* StartAccept makes a session at t; now is what the rest of the handler   *)
(* has made of read.                                                       *)
LEMMA NewSessionStep ==
  ASSUME SockTypeOK, NEW t \in Session, NEW now \in [Session -> ReadOp],
         data' = [data EXCEPT ![t] = Cleared],
         read' = [now EXCEPT ![t] = NoRead],
         write' = [write EXCEPT ![t] = NoWrite],
         received' = [received EXCEPT ![t] = 0],
         echoed' = [echoed EXCEPT ![t] = <<>>]
  PROVE  /\ SockTypeOK'
         /\ SockFresh(t)'
         /\ \A u \in Session \ {t} :
              /\ read'[u] = now[u]
              /\ data'[u] = data[u] /\ write'[u] = write[u]
              /\ received'[u] = received[u] /\ echoed'[u] = echoed[u]
<1>1. <<>> \in Seq(Byte) /\ 0 \in 0..MaxBytes
  BY EmptySeq, MaxBytesAssumption
<1>2. SockTypeOK'
  BY <1>1, OpTypes, ClearedType DEF SockTypeOK, ReadOp, WriteOp
<1>3. SockFresh(t)'
  BY DEF SockTypeOK, SockFresh, NoRead, NoWrite
<1>4. QED
  BY <1>2, <1>3 DEF SockTypeOK

(* Start, on a session that was accepted, starts its first read. *)
LEMMA StartStep ==
  ASSUME NEW s, SockFresh(s),
         read'[s] = Reading,
         data'[s] = data[s], write'[s] = write[s],
         received'[s] = received[s], echoed'[s] = echoed[s]
  PROVE  SockReading(s)'
<1>1. Upto(0) = <<>>
  BY UptoIsSeq, EmptySeq
<1>2. QED
  BY <1>1 DEF SockFresh, SockReading, Reading
=============================================================================
