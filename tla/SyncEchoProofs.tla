--------------------------- MODULE SyncEchoProofs --------------------------
(***************************************************************************)
(* Theorems about SyncEcho, for every set of clients, every MaxLength, and *)
(* whatever TCP may hold that CapsAssumption admits.  One lemma per action *)
(* shows what becomes of its client; ClientFrame, that the others stay as  *)
(* they are.                                                               *)
(***************************************************************************)
EXTENDS SyncEcho, FiniteSetTheorems, TLAPS

(* n bytes of a line, from the one behind byte a on. *)
From(a, n) == [i \in 1..n |-> a + i]

(* How many bytes have been echoed, for short. *)
Out(c) == Len(echoed[c])

(* A line on its way, in the places it passes: typed, sent, taken by the   *)
(* thread, echoed, read back.  What lies between two of them is in a TCP   *)
(* buffer, or in data.                                                     *)
Places(c) ==
  /\ sent[c] <= line[c]
  /\ taken[c] <= sent[c]
  /\ Out(c) <= taken[c]
  /\ replied[c] <= Out(c)
  /\ sent[c] - taken[c] <= cap.up
  /\ Out(c) - replied[c] <= cap.down

(* What has been echoed is the line up to there, and left is what comes    *)
(* next, up to what has been taken.                                        *)
Contents(c) ==
  /\ echoed[c] = From(0, Out(c))
  /\ left[c] = From(Out(c), taken[c] - Out(c))

(* What a thread does, and why it does no more. *)
Phase(c) ==
  /\ client[c] = "off" => sent[c] = 0
  /\ session[c] \in {"none", "reading"} => Out(c) = taken[c]
  /\ session[c] = "writing" => Out(c) < taken[c]
  /\ session[c] = "ended" => c \in broken \/ ClientClosed(c)
  /\ session[c] = "dropped" => main # "accepting"
  /\ client[c] = "failed" => c \in broken \/ main # "accepting"

ClientInv(c) == Places(c) /\ Contents(c) /\ Phase(c)

LinesInv == TypeOK /\ \A c \in Client : ClientInv(c)

(* Why the loop was left: of the threads that a failed std::thread leaves  *)
(* no room beside, each was started for a client.                          *)
MainInv ==
  /\ main # "accepting" => exception # "none"
  /\ IsFiniteSet(Served)
  /\ exception = "thread" => Cardinality(Served) >= limit

IInv == LinesInv /\ MainInv

(* Nothing of c changes, and nothing of the rest that would matter to it. *)
Same(c) ==
  /\ client'[c] = client[c]
  /\ line'[c] = line[c]
  /\ sent'[c] = sent[c]
  /\ replied'[c] = replied[c]
  /\ session'[c] = session[c]
  /\ taken'[c] = taken[c]
  /\ left'[c] = left[c]
  /\ echoed'[c] = echoed[c]

Onward ==
  /\ cap' = cap
  /\ broken \subseteq broken'
  /\ main # "accepting" => main' # "accepting"

LEMMA ClientFrame ==
  ASSUME NEW c, ClientInv(c), Same(c), Onward
  PROVE  ClientInv(c)'
<1>1. Out(c)' = Out(c)
  BY DEF Same, Out
<1>2. Places(c)'
  BY <1>1 DEF ClientInv, Places, Same, Onward
<1>3. Contents(c)'
  BY <1>1 DEF ClientInv, Contents, Same, From
<1>4. Phase(c)'
  BY <1>1 DEF ClientInv, Phase, Same, Onward, ClientClosed
<1>5. QED
  BY <1>2, <1>3, <1>4 DEF ClientInv

(* What is left to show of an action that touches c only. *)
LEMMA OneClient ==
  ASSUME LinesInv, NEW c \in Client, TypeOK', ClientInv(c)', Onward,
         \A d \in Client \ {c} : Same(d)
  PROVE  LinesInv'
<1>1. ASSUME NEW d \in Client PROVE ClientInv(d)'
  <2>1. CASE d = c
    BY <2>1
  <2>2. CASE d # c
    <3>1. ClientInv(d) /\ Same(d)
      BY <2>2 DEF LinesInv
    <3>2. QED
      BY <3>1, ClientFrame
  <2>3. QED
    BY <2>1, <2>2
<1>2. QED
  BY <1>1 DEF LinesInv

(* The numbers of c, and those of its connection. *)
LEMMA Numbers ==
  ASSUME LinesInv, NEW c \in Client
  PROVE  /\ line[c] \in 0..(MaxLength - 1)
         /\ sent[c] \in 0..(MaxLength - 1)
         /\ taken[c] \in 0..(MaxLength - 1)
         /\ Out(c) \in 0..(MaxLength - 1)
         /\ replied[c] \in 0..(MaxLength - 1)
         /\ MaxLength \in Nat \ {0}
         /\ cap.up \in Nat /\ cap.down \in Nat
         /\ MaxLength <= cap.up + cap.down + 2
         /\ echoed[c] \in Seq(0..(MaxLength - 1))
         /\ left[c] \in Seq(0..(MaxLength - 1))
         /\ ClientInv(c)
<1>1. MaxLength \in Nat \ {0}
  BY SizesAssumption
<1>2. cap.up \in Nat /\ cap.down \in Nat /\ MaxLength <= cap.up + cap.down + 2
  BY CapsAssumption DEF LinesInv, TypeOK
<1>3. /\ echoed[c] \in Seq(0..(MaxLength - 1))
      /\ left[c] \in Seq(0..(MaxLength - 1))
      /\ {line[c], sent[c], taken[c], replied[c]} \subseteq 0..(MaxLength - 1)
      /\ ClientInv(c)
  BY DEF LinesInv, TypeOK
<1>4. Out(c) \in Nat
  BY <1>3 DEF Out
<1>5. Out(c) \in 0..(MaxLength - 1)
  BY <1>1, <1>3, <1>4 DEF ClientInv, Places
<1>6. QED
  BY <1>1, <1>2, <1>3, <1>5

LEMMA Naturals ==
  ASSUME LinesInv, NEW c \in Client
  PROVE  /\ line[c] \in Nat /\ sent[c] \in Nat /\ taken[c] \in Nat
         /\ Out(c) \in Nat /\ replied[c] \in Nat
         /\ cap.up \in Nat /\ cap.down \in Nat /\ MaxLength \in Nat
BY Numbers

(* The bytes that follow. *)
LEMMA FromIsSeq ==
  ASSUME NEW a \in Nat, NEW n \in Nat, NEW m \in Nat, a + n <= m
  PROVE  From(a, n) \in Seq(0..m) /\ Len(From(a, n)) = n
<1>1. From(a, n) \in [1..n -> 0..m]
  BY DEF From
<1>2. QED
  BY <1>1

LEMMA FromSplits ==
  ASSUME NEW a \in Nat, NEW n \in Nat, NEW k \in 1..n
  PROVE  /\ SubSeq(From(a, n), 1, k) = From(a, k)
         /\ SubSeq(From(a, n), k + 1, Len(From(a, n))) = From(a + k, n - k)
<1>0. a + n \in Nat /\ a + n <= a + n
  OBVIOUS
<1>1. From(a, n) \in Seq(0..(a + n)) /\ Len(From(a, n)) = n
  BY <1>0, FromIsSeq
<1>2. SubSeq(From(a, n), 1, k) = From(a, k)
  BY <1>1 DEF From
<1>3. SubSeq(From(a, n), k + 1, n) = From(a + k, n - k)
  BY <1>1 DEF From
<1>4. QED
  BY <1>1, <1>2, <1>3

LEMMA FromJoins ==
  ASSUME NEW a \in Nat, NEW n \in Nat
  PROVE  From(0, a) \o From(a, n) = From(0, a + n)
<1>0. a + n \in Nat /\ 0 + a <= a + n /\ a + n <= a + n
  OBVIOUS
<1>1. From(0, a) \in Seq(0..(a + n)) /\ Len(From(0, a)) = a
  BY <1>0, FromIsSeq
<1>2. From(a, n) \in Seq(0..(a + n)) /\ Len(From(a, n)) = n
  BY <1>0, FromIsSeq
<1>3. QED
  BY <1>1, <1>2 DEF From
-----------------------------------------------------------------------------

(* A client connects, with a line of which nothing is sent. *)
LEMMA ConnectKeeps ==
  ASSUME LinesInv, NEW c \in Client, Connect(c), UNCHANGED world
  PROVE  LinesInv'
<1>1. ClientInv(c)
  BY DEF LinesInv
<1>2. PICK n \in Typed : line' = [line EXCEPT ![c] = RequestLength(n)]
  BY DEF Connect
<1>3. RequestLength(n) \in 0..(MaxLength - 1)
  <2>1. n \in Nat /\ MaxLength \in Nat \ {0}
    BY SizesAssumption
  <2>2. QED
    BY <2>1 DEF RequestLength
<1>4. /\ Onward
      /\ \A d \in Client \ {c} : Same(d)
  BY DEF LinesInv, TypeOK, Connect, Onward, Same, world, serverVars, clientVars
<1>5. TypeOK'
  <2>1. line' \in [Client -> 0..(MaxLength - 1)]
    BY <1>2, <1>3 DEF LinesInv, TypeOK
  <2>2. client' \in [Client -> {"off", "open", "refused", "failed", "gone"}]
    BY DEF LinesInv, TypeOK, Connect
  <2>3. QED
    BY <2>1, <2>2 DEF LinesInv, TypeOK, Connect, world, serverVars
<1>6. /\ Out(c)' = Out(c)
      /\ line'[c] = RequestLength(n)
      /\ client'[c] = "open" /\ client[c] = "off"
  BY <1>2 DEF LinesInv, TypeOK, Connect, Out, serverVars
<1>7. Places(c)'
  <2>1. sent' = sent /\ replied' = replied /\ taken' = taken /\ cap' = cap
    BY DEF Connect, world, serverVars
  <2>2. sent[c] = 0
    BY <1>1, <1>6 DEF ClientInv, Phase
  <2>3. sent[c] <= line'[c]
    BY <1>3, <1>6, <2>2, SizesAssumption
  <2>4. QED
    BY <1>1, <1>6, <2>1, <2>3 DEF ClientInv, Places
<1>8. Contents(c)' /\ Phase(c)'
  BY <1>1, <1>6
     DEF ClientInv, Contents, Phase, From, Connect, ClientClosed, world, serverVars
<1>9. QED
  BY <1>4, <1>5, <1>7, <1>8, OneClient DEF ClientInv

(* A client that is refused has nothing on its way. *)
LEMMA ConnectFailsKeeps ==
  ASSUME LinesInv, NEW c \in Client, ConnectFails(c), UNCHANGED world
  PROVE  LinesInv'
<1>1. ClientInv(c) /\ c \in Client
  BY DEF LinesInv
<1>2. TypeOK'
  BY Numbers DEF LinesInv, TypeOK, ConnectFails, world, serverVars, clientVars
<1>3. /\ Onward
      /\ \A d \in Client \ {c} : Same(d)
  BY DEF LinesInv, TypeOK, ConnectFails, Onward, Same, world, serverVars, clientVars
<1>4. Out(c)' = Out(c) /\ cap' = cap
  BY DEF ConnectFails, Out, world, serverVars
<1>5. Places(c)' /\ Contents(c)' /\ Phase(c)'
  BY <1>1, <1>4, Numbers
     DEF ClientInv, Places, Contents, Phase, From, LinesInv, TypeOK, ConnectFails, ClientClosed,
         ServerClosed, Waiting, world, serverVars, clientVars
<1>6. QED
  BY <1>2, <1>3, <1>5, OneClient DEF ClientInv

(* The client writes on, as far as TCP has room. *)
LEMMA ClientWriteKeeps ==
  ASSUME LinesInv, NEW c \in Client, ClientWrite(c), UNCHANGED world
  PROVE  LinesInv'
<1>1. ClientInv(c)
  BY DEF LinesInv
<1>2. PICK n \in (sent[c] + 1)..line[c] :
        n - taken[c] <= cap.up /\ sent' = [sent EXCEPT ![c] = n]
  BY DEF ClientWrite
<1>3. n \in 0..(MaxLength - 1)
  BY Numbers
<1>4. /\ Onward
      /\ \A d \in Client \ {c} : Same(d)
  BY DEF LinesInv, TypeOK, ClientWrite, Onward, Same, world, serverVars, clientVars
<1>5. TypeOK'
  <2>1. sent' \in [Client -> 0..(MaxLength - 1)]
    BY <1>2, <1>3 DEF LinesInv, TypeOK
  <2>2. QED
    BY <2>1 DEF LinesInv, TypeOK, ClientWrite, world, serverVars
<1>6. Out(c)' = Out(c) /\ sent'[c] = n
  BY <1>2 DEF LinesInv, TypeOK, ClientWrite, Out, serverVars
<1>7. Places(c)'
  <2>1. line' = line /\ replied' = replied /\ taken' = taken /\ cap' = cap
    BY DEF ClientWrite, world, serverVars
  <2>2. sent[c] \in Nat /\ taken[c] \in Nat /\ line[c] \in Nat
    BY Numbers
  <2>3. n \in Nat /\ n <= line[c] /\ sent[c] < n
    BY <1>2, <2>2
  <2>4. taken[c] <= n
    <3>1. taken[c] <= sent[c]
      BY <1>1 DEF ClientInv, Places
    <3>2. QED
      BY <2>2, <2>3, <3>1
  <2>5. QED
    BY <1>1, <1>2, <1>6, <2>1, <2>3, <2>4 DEF ClientInv, Places
<1>8. Contents(c)' /\ Phase(c)'
  BY <1>1, <1>6
     DEF ClientInv, Contents, Phase, From, ClientWrite, ClientClosed, world, serverVars
<1>9. QED
  BY <1>4, <1>5, <1>7, <1>8, OneClient DEF ClientInv

(* The client reads what has come back. *)
LEMMA ClientReadKeeps ==
  ASSUME LinesInv, NEW c \in Client, ClientRead(c), UNCHANGED world
  PROVE  LinesInv'
<1>1. ClientInv(c)
  BY DEF LinesInv
<1>2. PICK n \in (replied[c] + 1)..line[c] :
        n <= Out(c) /\ replied' = [replied EXCEPT ![c] = n]
  BY DEF ClientRead, Out
<1>3. n \in 0..(MaxLength - 1)
  BY Numbers
<1>4. /\ Onward
      /\ \A d \in Client \ {c} : Same(d)
  BY DEF LinesInv, TypeOK, ClientRead, Onward, Same, world, serverVars, clientVars
<1>5. TypeOK'
  <2>1. replied' \in [Client -> 0..(MaxLength - 1)]
    BY <1>2, <1>3 DEF LinesInv, TypeOK
  <2>2. QED
    BY <2>1 DEF LinesInv, TypeOK, ClientRead, world, serverVars
<1>6. Out(c)' = Out(c) /\ replied'[c] = n
  BY <1>2 DEF LinesInv, TypeOK, ClientRead, Out, serverVars
<1>7. Places(c)'
  <2>1. line' = line /\ sent' = sent /\ taken' = taken /\ cap' = cap
    BY DEF ClientRead, world, serverVars
  <2>2. n \in Nat /\ n <= Out(c)
    BY <1>2, <1>3
  <2>3. Out(c) \in Nat /\ cap.down \in Nat
    BY Numbers
  <2>4. replied[c] \in Nat /\ replied[c] < n
    BY <1>2, Numbers
  <2>5. Out(c) - n <= cap.down
    <3>1. Out(c) - replied[c] <= cap.down
      BY <1>1 DEF ClientInv, Places
    <3>2. QED
      BY <2>2, <2>3, <2>4, <3>1
  <2>6. QED
    BY <1>1, <1>6, <2>1, <2>2, <2>5 DEF ClientInv, Places
<1>8. Contents(c)' /\ Phase(c)'
  BY <1>1, <1>6
     DEF ClientInv, Contents, Phase, From, ClientRead, ClientClosed, world, serverVars
<1>9. QED
  BY <1>4, <1>5, <1>7, <1>8, OneClient DEF ClientInv

(* The client is cut off. *)
LEMMA ClientThrowsKeeps ==
  ASSUME LinesInv, NEW c \in Client, ClientThrows(c), UNCHANGED world
  PROVE  LinesInv'
<1>1. ClientInv(c) /\ c \in Client
  BY DEF LinesInv
<1>2. TypeOK'
  BY Numbers DEF LinesInv, TypeOK, ClientThrows, world, serverVars, clientVars
<1>3. /\ Onward
      /\ \A d \in Client \ {c} : Same(d)
  BY DEF LinesInv, TypeOK, ClientThrows, Onward, Same, world, serverVars, clientVars
<1>4. Out(c)' = Out(c) /\ cap' = cap
  BY DEF ClientThrows, Out, world, serverVars
<1>5. Places(c)' /\ Contents(c)' /\ Phase(c)'
  BY <1>1, <1>4, Numbers
     DEF ClientInv, Places, Contents, Phase, From, LinesInv, TypeOK, ClientThrows, ClientClosed,
         ServerClosed, Waiting, world, serverVars, clientVars
<1>6. QED
  BY <1>2, <1>3, <1>5, OneClient DEF ClientInv

(* The client leaves, or is killed. *)
LEMMA ClientLeavesKeeps ==
  ASSUME LinesInv, NEW c \in Client, ClientLeaves(c), UNCHANGED world
  PROVE  LinesInv'
<1>1. ClientInv(c) /\ c \in Client
  BY DEF LinesInv
<1>2. TypeOK'
  BY Numbers DEF LinesInv, TypeOK, ClientLeaves, world, serverVars, clientVars
<1>3. /\ Onward
      /\ \A d \in Client \ {c} : Same(d)
  BY DEF LinesInv, TypeOK, ClientLeaves, Onward, Same, world, serverVars, clientVars
<1>4. Out(c)' = Out(c) /\ cap' = cap
  BY DEF ClientLeaves, Out, world, serverVars
<1>5. Places(c)' /\ Contents(c)' /\ Phase(c)'
  BY <1>1, <1>4, Numbers
     DEF ClientInv, Places, Contents, Phase, From, LinesInv, TypeOK, ClientLeaves, ClientClosed,
         ServerClosed, Waiting, world, serverVars, clientVars
<1>6. QED
  BY <1>2, <1>3, <1>5, OneClient DEF ClientInv

(* A thread starts with nothing read. *)
LEMMA AcceptKeeps ==
  ASSUME LinesInv, NEW c \in Client, Accept(c), UNCHANGED world
  PROVE  LinesInv'
<1>1. ClientInv(c) /\ c \in Client
  BY DEF LinesInv
<1>2. TypeOK'
  BY Numbers DEF LinesInv, TypeOK, Accept, world, serverVars, clientVars
<1>3. /\ Onward
      /\ \A d \in Client \ {c} : Same(d)
  BY DEF LinesInv, TypeOK, Accept, Onward, Same, world, serverVars, clientVars
<1>4. Out(c)' = Out(c) /\ cap' = cap
  BY DEF Accept, Out, world, serverVars
<1>5. Places(c)' /\ Contents(c)' /\ Phase(c)'
  BY <1>1, <1>4, Numbers
     DEF ClientInv, Places, Contents, Phase, From, LinesInv, TypeOK, Accept, ClientClosed,
         ServerClosed, Waiting, world, serverVars, clientVars
<1>6. QED
  BY <1>2, <1>3, <1>5, OneClient DEF ClientInv

(* A connection is dropped, and the loop is left. *)
LEMMA ThreadFailsKeeps ==
  ASSUME LinesInv, NEW c \in Client, ThreadFails(c), UNCHANGED world
  PROVE  LinesInv'
<1>1. ClientInv(c) /\ c \in Client
  BY DEF LinesInv
<1>2. TypeOK'
  BY Numbers DEF LinesInv, TypeOK, ThreadFails, world, serverVars, clientVars
<1>3. /\ Onward
      /\ \A d \in Client \ {c} : Same(d)
  BY DEF LinesInv, TypeOK, ThreadFails, Onward, Same, world, serverVars, clientVars
<1>4. Out(c)' = Out(c) /\ cap' = cap
  BY DEF ThreadFails, Out, world, serverVars
<1>5. Places(c)' /\ Contents(c)' /\ Phase(c)'
  BY <1>1, <1>4, Numbers
     DEF ClientInv, Places, Contents, Phase, From, LinesInv, TypeOK, ThreadFails, ClientClosed,
         ServerClosed, Waiting, world, serverVars, clientVars
<1>6. QED
  BY <1>2, <1>3, <1>5, OneClient DEF ClientInv

(* A thread ends behind its client. *)
LEMMA SessionEofKeeps ==
  ASSUME LinesInv, NEW c \in Client, SessionEof(c), UNCHANGED world
  PROVE  LinesInv'
<1>1. ClientInv(c) /\ c \in Client
  BY DEF LinesInv
<1>2. TypeOK'
  BY Numbers DEF LinesInv, TypeOK, SessionEof, world, serverVars, clientVars
<1>3. /\ Onward
      /\ \A d \in Client \ {c} : Same(d)
  BY DEF LinesInv, TypeOK, SessionEof, Onward, Same, world, serverVars, clientVars
<1>4. Out(c)' = Out(c) /\ cap' = cap
  BY DEF SessionEof, Out, world, serverVars
<1>5. Places(c)' /\ Contents(c)' /\ Phase(c)'
  BY <1>1, <1>4, Numbers
     DEF ClientInv, Places, Contents, Phase, From, LinesInv, TypeOK, SessionEof, ClientClosed,
         ServerClosed, Waiting, world, serverVars, clientVars
<1>6. QED
  BY <1>2, <1>3, <1>5, OneClient DEF ClientInv

(* A thread ends, with what it had still to write. *)
LEMMA SessionThrowsKeeps ==
  ASSUME LinesInv, NEW c \in Client, SessionThrows(c), UNCHANGED world
  PROVE  LinesInv'
<1>1. ClientInv(c) /\ c \in Client
  BY DEF LinesInv
<1>2. TypeOK'
  BY Numbers DEF LinesInv, TypeOK, SessionThrows, world, serverVars, clientVars
<1>3. /\ Onward
      /\ \A d \in Client \ {c} : Same(d)
  BY DEF LinesInv, TypeOK, SessionThrows, Onward, Same, world, serverVars, clientVars
<1>4. Out(c)' = Out(c) /\ cap' = cap
  BY DEF SessionThrows, Out, world, serverVars
<1>5. Places(c)' /\ Contents(c)' /\ Phase(c)'
  BY <1>1, <1>4, Numbers
     DEF ClientInv, Places, Contents, Phase, From, LinesInv, TypeOK, SessionThrows, ClientClosed,
         ServerClosed, Waiting, world, serverVars, clientVars
<1>6. QED
  BY <1>2, <1>3, <1>5, OneClient DEF ClientInv

(* A connection breaks. *)
LEMMA BreaksKeeps ==
  ASSUME LinesInv, NEW c \in Client, Breaks(c), UNCHANGED world
  PROVE  LinesInv'
<1>1. ClientInv(c) /\ c \in Client
  BY DEF LinesInv
<1>2. TypeOK'
  BY Numbers DEF LinesInv, TypeOK, Breaks, world, serverVars, clientVars
<1>3. /\ Onward
      /\ \A d \in Client \ {c} : Same(d)
  BY DEF LinesInv, TypeOK, Breaks, Onward, Same, world, serverVars, clientVars
<1>4. Out(c)' = Out(c) /\ cap' = cap
  BY DEF Breaks, Out, world, serverVars
<1>5. Places(c)' /\ Contents(c)' /\ Phase(c)'
  BY <1>1, <1>4, Numbers
     DEF ClientInv, Places, Contents, Phase, From, LinesInv, TypeOK, Breaks, ClientClosed,
         ServerClosed, Waiting, world, serverVars, clientVars
<1>6. QED
  BY <1>2, <1>3, <1>5, OneClient DEF ClientInv

(* read_some takes the next n bytes of the line into data. *)
LEMMA SessionReadKeeps ==
  ASSUME LinesInv, NEW c \in Client, SessionRead(c), UNCHANGED world
  PROVE  LinesInv' /\ Abstract!Receive(c)
<1>1. ClientInv(c)
  BY DEF LinesInv
<1>2. PICK n \in 1..MaxLength :
        /\ taken[c] + n <= sent[c]
        /\ taken' = [taken EXCEPT ![c] = @ + n]
        /\ left' = [left EXCEPT ![c] = Echo(c, n)]
  BY DEF SessionRead
<1>3. taken[c] + n \in 0..(MaxLength - 1)
  BY <1>2, Numbers
<1>4. /\ Onward
      /\ \A d \in Client \ {c} : Same(d)
  BY <1>2 DEF LinesInv, TypeOK, SessionRead, Onward, Same, world, clientVars
<1>5. Echo(c, n) = From(taken[c], n)
  BY DEF Echo, From
<1>6. Echo(c, n) \in Seq(0..(MaxLength - 1))
  <2>1. /\ taken[c] \in Nat /\ n \in Nat /\ MaxLength - 1 \in Nat
        /\ taken[c] + n <= MaxLength - 1
    BY <1>3, Numbers
  <2>2. QED
    BY <1>5, <2>1, FromIsSeq
<1>7. TypeOK'
  <2>1. taken' \in [Client -> 0..(MaxLength - 1)]
    BY <1>2, <1>3 DEF LinesInv, TypeOK
  <2>2. left' \in [Client -> Seq(0..(MaxLength - 1))]
    BY <1>2, <1>6 DEF LinesInv, TypeOK
  <2>3. session' \in [Client -> {"none", "reading", "writing", "ended", "dropped"}]
    BY DEF LinesInv, TypeOK, SessionRead
  <2>4. QED
    BY <2>1, <2>2, <2>3 DEF LinesInv, TypeOK, SessionRead, world, clientVars
<1>8. /\ Out(c)' = Out(c)
      /\ taken'[c] = taken[c] + n
      /\ left'[c] = From(taken[c], n)
      /\ session'[c] = "writing"
      /\ Out(c) = taken[c]
  BY <1>1, <1>2, <1>5 DEF LinesInv, TypeOK, SessionRead, Out, ClientInv, Phase
<1>9. Places(c)'
  <2>1. /\ line'[c] = line[c] /\ sent'[c] = sent[c]
        /\ replied'[c] = replied[c] /\ cap' = cap
    BY DEF SessionRead, world, clientVars
  <2>2. PICK s, t, up, d \in Nat : s = sent[c] /\ t = taken[c] /\ up = cap.up /\ d = n
    BY <1>2, Naturals
  <2>3. t <= t + d /\ s - (t + d) <= up
    <3>1. s - t <= up
      BY <1>1, <2>2 DEF ClientInv, Places
    <3>2. QED
      BY <3>1
  <2>4. QED
    BY <1>1, <1>2, <1>8, <2>1, <2>2, <2>3 DEF ClientInv, Places
<1>10. Contents(c)'
  <2>1. (taken[c] + n) - Out(c) = n
    BY <1>8, Numbers
  <2>2. left'[c] = From(Out(c)', taken'[c] - Out(c)')
    BY <1>8, <2>1
  <2>3. echoed'[c] = From(0, Out(c)')
    BY <1>1, <1>8 DEF ClientInv, Contents, SessionRead
  <2>4. QED
    BY <2>2, <2>3 DEF Contents, From
<1>11. Phase(c)'
  BY <1>1, <1>8, Numbers DEF ClientInv, Phase, SessionRead, clientVars, ClientClosed
<1>12. Abstract!Receive(c)
  <2>1. n \in Nat \ {0}
    BY <1>2, Naturals
  <2>2. QED
    BY <1>2, <1>8, <2>1 DEF Abstract!Receive, SessionRead, LinesInv, TypeOK
<1>13. QED
  BY <1>4, <1>7, <1>9, <1>10, <1>11, <1>12, OneClient DEF ClientInv

(* write puts the next n bytes of data behind those echoed. *)
LEMMA SessionWriteKeeps ==
  ASSUME LinesInv, NEW c \in Client, SessionWrite(c), UNCHANGED world
  PROVE  LinesInv' /\ Abstract!Echo(c)
<1>1. ClientInv(c)
  BY DEF LinesInv
<1>2. PICK o, k, t, m \in Nat :
        /\ o = Out(c) /\ t = taken[c] /\ o + k = t /\ m = MaxLength - 1 /\ t <= m
        /\ left[c] = From(o, k)
        /\ echoed[c] = From(0, o)
  <2>1. PICK o, t, m \in Nat : o = Out(c) /\ t = taken[c] /\ m = MaxLength - 1 /\ t <= m
    BY Numbers
  <2>2. o <= t
    BY <1>1, <2>1 DEF ClientInv, Places
  <2>3. t - o \in Nat /\ o + (t - o) = t
    BY <2>2
  <2>4. left[c] = From(o, t - o) /\ echoed[c] = From(0, o)
    BY <1>1, <2>1 DEF ClientInv, Contents
  <2>5. QED
    BY <2>1, <2>3, <2>4
<1>3. k \in Nat /\ o + k <= m /\ Len(left[c]) = k
  BY <1>2, FromIsSeq
<1>4. PICK n \in 1..k :
        /\ o + n - replied[c] <= cap.down
        /\ echoed' = [echoed EXCEPT ![c] = @ \o SubSeq(left[c], 1, n)]
        /\ left' = [left EXCEPT ![c] = SubSeq(@, n + 1, Len(@))]
        /\ session' = [session EXCEPT ![c] = IF n < k THEN @ ELSE "reading"]
  BY <1>2, <1>3 DEF SessionWrite, Out
<1>5. /\ n \in Nat /\ 0 < n /\ n <= k /\ o + n \in Nat /\ k - n \in Nat
      /\ o + n <= t /\ 0 + (o + n) <= m /\ (o + n) + (k - n) <= m
      /\ k - n = t - (o + n)
      /\ n < k <=> o + n < t
      /\ o + n \in (o + 1)..t
  BY <1>2
<1>6. echoed'[c] = From(0, o + n)
  <2>1. echoed'[c] = echoed[c] \o SubSeq(left[c], 1, n)
    BY <1>4 DEF LinesInv, TypeOK
  <2>2. SubSeq(From(o, k), 1, n) = From(o, n)
    BY FromSplits
  <2>3. From(0, o) \o From(o, n) = From(0, o + n)
    BY <1>5, FromJoins
  <2>4. QED
    BY <1>2, <2>1, <2>2, <2>3
<1>7. left'[c] = From(o + n, k - n)
  <2>1. left'[c] = SubSeq(left[c], n + 1, Len(left[c]))
    BY <1>4 DEF LinesInv, TypeOK
  <2>2. SubSeq(From(o, k), n + 1, Len(From(o, k))) = From(o + n, k - n)
    BY FromSplits
  <2>3. QED
    BY <1>2, <2>1, <2>2
<1>8. Len(echoed'[c]) = o + n /\ echoed'[c] \in Seq(0..(MaxLength - 1))
  <2>1. From(0, o + n) \in Seq(0..m) /\ Len(From(0, o + n)) = o + n
    BY <1>5, FromIsSeq
  <2>2. QED
    BY <1>2, <1>6, <2>1
<1>9. left'[c] \in Seq(0..(MaxLength - 1))
  <2>1. From(o + n, k - n) \in Seq(0..m)
    BY <1>5, FromIsSeq
  <2>2. QED
    BY <1>2, <1>7, <2>1
<1>10. Out(c)' = o + n
  BY <1>8 DEF Out
<1>11. /\ Onward
       /\ \A d \in Client \ {c} : Same(d)
  BY <1>4 DEF LinesInv, TypeOK, SessionWrite, Onward, Same, world, clientVars
<1>12. TypeOK'
  <2>1. echoed' \in [Client -> Seq(0..(MaxLength - 1))]
    BY <1>4, <1>8 DEF LinesInv, TypeOK
  <2>2. left' \in [Client -> Seq(0..(MaxLength - 1))]
    BY <1>4, <1>9 DEF LinesInv, TypeOK
  <2>3. session' \in [Client -> {"none", "reading", "writing", "ended", "dropped"}]
    BY <1>4 DEF LinesInv, TypeOK
  <2>4. QED
    BY <2>1, <2>2, <2>3 DEF LinesInv, TypeOK, SessionWrite, world, clientVars
<1>13. Places(c)'
  <2>1. /\ line'[c] = line[c] /\ sent'[c] = sent[c] /\ taken'[c] = taken[c]
        /\ replied'[c] = replied[c] /\ cap' = cap
    BY DEF SessionWrite, world, clientVars
  <2>2. PICK r \in Nat : r = replied[c]
    BY Naturals
  <2>3. r <= o
    BY <1>1, <1>2, <2>2 DEF ClientInv, Places
  <2>4. r <= o + n
    BY <1>5, <2>3
  <2>5. QED
    <3>1. /\ sent[c] <= line[c] /\ taken[c] <= sent[c] /\ sent[c] - taken[c] <= cap.up
      BY <1>1 DEF ClientInv, Places
    <3>2. o + n <= taken[c] /\ replied[c] <= o + n
      BY <1>2, <1>5, <2>2, <2>4
    <3>3. (o + n) - replied[c] <= cap.down
      <4>1. PICK d \in Nat : d = n
        BY <1>5
      <4>2. o + d - replied[c] = (o + d) - replied[c]
        BY <2>2
      <4>3. QED
        BY <1>4, <4>1, <4>2
    <3>4. QED
      BY <1>10, <2>1, <3>1, <3>2, <3>3 DEF Places
<1>14. Contents(c)'
  <2>1. taken'[c] = t
    BY <1>2 DEF SessionWrite
  <2>2. left'[c] = From(Out(c)', taken'[c] - Out(c)')
    BY <1>5, <1>7, <1>10, <2>1
  <2>3. echoed'[c] = From(0, Out(c)')
    BY <1>6, <1>10
  <2>4. QED
    BY <2>2, <2>3 DEF Contents, From
<1>15. session[c] = "writing" /\ session'[c] = IF n < k THEN "writing" ELSE "reading"
  BY <1>4 DEF SessionWrite, LinesInv, TypeOK
<1>16. Phase(c)'
  <2>1. IF session'[c] = "writing" THEN o + n < t ELSE session'[c] = "reading" /\ o + n = t
    BY <1>5, <1>15
  <2>2. taken'[c] = t /\ client' = client /\ sent' = sent
    BY <1>2 DEF SessionWrite, clientVars
  <2>3. (client[c] = "off" => sent[c] = 0) /\ (client[c] = "failed" => c \in broken \/ main # "accepting")
    BY <1>1 DEF ClientInv, Phase
  <2>4. QED
    BY <1>10, <2>1, <2>2, <2>3 DEF Phase, SessionWrite
<1>17. Abstract!Echo(c)
  <2>1. o + n \in (Len(echoed[c]) + 1)..taken[c]
    BY <1>2, <1>5 DEF Out
  <2>2. echoed' = [echoed EXCEPT ![c] = Abstract!Stream(o + n)]
    <3>1. From(0, o + n) = Abstract!Stream(o + n)
      BY <1>5 DEF Abstract!Stream, From
    <3>2. QED
      BY <1>4, <1>6, <3>1 DEF LinesInv, TypeOK
  <2>3. QED
    BY <2>1, <2>2 DEF Abstract!Echo, SessionWrite
<1>18. QED
  BY <1>11, <1>12, <1>13, <1>14, <1>16, <1>17, OneClient DEF ClientInv

(* The main thread leaves its loop, and the process ends. *)
LEMMA MainKeeps ==
  ASSUME LinesInv, AcceptFails \/ ProcessEnds, UNCHANGED world
  PROVE  LinesInv'
<1>1. TypeOK'
  BY DEF LinesInv, TypeOK, AcceptFails, ProcessEnds, world, clientVars
<1>2. Onward /\ \A d \in Client : Same(d)
  BY DEF AcceptFails, ProcessEnds, Onward, Same, world, clientVars
<1>3. QED
  BY <1>1, <1>2, ClientFrame DEF LinesInv
-----------------------------------------------------------------------------
(* No client that got a thread is forgotten, so that there are never fewer. *)
LEMMA ServedStay ==
  ASSUME MainInv, UNCHANGED <<main, exception, limit>>, limit \in Nat,
         NEW c, Served' = Served \/ Served' = Served \union {c}
  PROVE  MainInv'
<1>1. CASE Served' = Served
  BY <1>1 DEF MainInv
<1>2. CASE Served' = Served \union {c}
  <2>1. /\ IsFiniteSet(Served)
        /\ IsFiniteSet(Served')
    BY <1>2, FS_AddElement DEF MainInv
  <2>2. Cardinality(Served) <= Cardinality(Served')
    <3>1. Served \subseteq Served'
      BY <1>2
    <3>2. QED
      BY <2>1, <3>1, FS_Subset
  <2>3. Cardinality(Served) \in Nat /\ Cardinality(Served') \in Nat
    BY <2>1, FS_CardinalityType
  <2>4. exception' = "thread" => Cardinality(Served') >= limit'
    BY <2>2, <2>3 DEF MainInv
  <2>5. QED
    BY <2>1, <2>4 DEF MainInv
<1>3. QED
  BY <1>1, <1>2

(* std::thread throws beside as many threads as the system grants. *)
LEMMA ThreadFailsMain ==
  ASSUME TypeOK, MainInv, NEW c \in Client, ThreadFails(c), UNCHANGED world
  PROVE  MainInv'
<1>1. Served' = Served
  BY DEF TypeOK, ThreadFails, Waiting, Served
<1>2. IsFiniteSet(Served) /\ ThreadsHeld \subseteq Served
  BY DEF MainInv, ThreadsHeld, Served
<1>3. Cardinality(ThreadsHeld) <= Cardinality(Served)
  BY <1>2, FS_Subset
<1>4. Cardinality(Served) \in Nat
  BY <1>2, FS_CardinalityType
<1>5. limit \in Nat /\ limit' = limit /\ Cardinality(ThreadsHeld) = limit
  BY SizesAssumption DEF TypeOK, ThreadFails, world
<1>6. Cardinality(Served) >= limit
  BY <1>3, <1>4, <1>5
<1>7. exception' = "thread"
  BY DEF ThreadFails
<1>8. QED
  BY <1>1, <1>2, <1>5, <1>6, <1>7 DEF MainInv

(* The loop is left by an exception, and std::thread throws no other way. *)
LEMMA MainStep ==
  ASSUME TypeOK, MainInv, [Next]_vars
  PROVE  MainInv'
<1>1. limit \in Nat
  BY SizesAssumption DEF TypeOK
<1>2. CASE UNCHANGED vars
  BY <1>1, <1>2 DEF MainInv, Served, vars, world, serverVars
<1>3. CASE (AcceptFails \/ ProcessEnds) /\ UNCHANGED world
  <2>1. Served' = Served /\ limit' = limit
    BY <1>3 DEF AcceptFails, ProcessEnds, Served, world
  <2>2. IF main = "accepting" THEN exception' = "accept" ELSE exception' = exception
    BY <1>3 DEF AcceptFails, ProcessEnds
  <2>3. QED
    BY <2>1, <2>2 DEF MainInv
<1>4. ASSUME NEW c \in Client, UNCHANGED world,
             Connect(c) \/ ConnectFails(c) \/ ClientStep(c) \/ ClientLeaves(c) \/ Breaks(c)
      PROVE  MainInv'
  <2>1. UNCHANGED <<main, exception, limit, session>>
    BY <1>4 DEF Connect, ConnectFails, ClientStep, ClientWrite, ClientRead, ClientThrows,
                ClientLeaves, Breaks, serverVars, world
  <2>2. QED
    BY <1>1, <2>1, ServedStay DEF Served
<1>5. ASSUME NEW c \in Client, UNCHANGED world, Accept(c) \/ SessionStep(c)
      PROVE  MainInv'
  <2>1. UNCHANGED <<main, exception, limit>>
    BY <1>5 DEF Accept, SessionStep, SessionRead, SessionWrite, SessionEof, SessionThrows, world
  <2>2. CASE Accept(c)
    <3>1. Served' = Served \union {c}
      BY <2>2 DEF TypeOK, Accept, Served
    <3>2. QED
      BY <1>1, <2>1, <3>1, ServedStay
  <2>3. CASE SessionStep(c)
    <3>1. PICK phase \in {"reading", "writing", "ended"} :
            session' = [session EXCEPT ![c] = phase]
      BY <2>3 DEF TypeOK, SessionStep, SessionRead, SessionWrite, SessionEof, SessionThrows
    <3>2. session[c] \in {"reading", "writing"}
      BY <2>3 DEF SessionStep, SessionRead, SessionWrite, SessionEof, SessionThrows
    <3>3. Served' = Served
      BY <3>1, <3>2 DEF TypeOK, Served
    <3>4. QED
      BY <1>1, <2>1, <3>3, ServedStay
  <2>4. QED
    BY <1>5, <2>2, <2>3
<1>6. QED
  BY <1>2, <1>3, <1>4, <1>5, ThreadFailsMain DEF Next, AcceptStep
-----------------------------------------------------------------------------
LEMMA InitHolds == Init => IInv
<1> SUFFICES ASSUME Init PROVE IInv
  OBVIOUS
<1>1. MaxLength \in Nat \ {0}
  BY SizesAssumption
<1>2. <<>> \in Seq(0..(MaxLength - 1)) /\ Len(<<>>) = 0
  OBVIOUS
<1>3. TypeOK
  BY <1>1, <1>2 DEF Init, TypeOK
<1>4. ASSUME NEW c \in Client PROVE ClientInv(c)
  <2>1. cap.up \in Nat /\ cap.down \in Nat
    BY CapsAssumption DEF Init
  <2>2. Out(c) = 0 /\ echoed[c] = <<>> /\ left[c] = <<>> /\ taken[c] = 0
    BY DEF Init, Out
  <2>3. From(0, 0) = <<>>
    BY DEF From
  <2>4. Places(c)
    BY <2>1, <2>2 DEF Init, Places
  <2>5. Contents(c)
    BY <2>2, <2>3 DEF Contents
  <2>6. Phase(c)
    BY <2>2 DEF Init, Phase
  <2>7. QED
    BY <2>4, <2>5, <2>6 DEF ClientInv
<1>5. MainInv
  <2>1. Served = {}
    BY DEF Init, Served
  <2>2. QED
    BY <2>1, FS_EmptySet DEF Init, MainInv
<1>6. QED
  BY <1>3, <1>4, <1>5 DEF LinesInv, IInv

(* Every step keeps the invariant, and is a step of the abstract service,  *)
(* or leaves what it speaks of alone.                                      *)
LEMMA LinesStep ==
  ASSUME LinesInv, [Next]_vars
  PROVE  LinesInv' /\ [Abstract!Next]_(Abstract!echoVars)
<1>1. CASE UNCHANGED vars
  <2>1. TypeOK' /\ Onward /\ \A d \in Client : Same(d)
    BY <1>1 DEF LinesInv, TypeOK, Onward, Same, vars, world, serverVars, clientVars
  <2>2. UNCHANGED Abstract!echoVars
    BY <1>1 DEF vars, serverVars, Abstract!echoVars
  <2>3. QED
    BY <2>1, <2>2, ClientFrame DEF LinesInv
<1>2. CASE (AcceptFails \/ ProcessEnds) /\ UNCHANGED world
  <2>1. UNCHANGED Abstract!echoVars
    BY <1>2 DEF AcceptFails, ProcessEnds, Abstract!echoVars
  <2>2. QED
    BY <1>2, <2>1, MainKeeps
<1>3. ASSUME NEW c \in Client, UNCHANGED world, ClientStep(c) \/ Connect(c) \/ ConnectFails(c)
             \/ ClientLeaves(c) \/ Breaks(c)
      PROVE  LinesInv' /\ UNCHANGED Abstract!echoVars
  <2>1. LinesInv'
    BY <1>3, ConnectKeeps, ConnectFailsKeeps, ClientWriteKeeps, ClientReadKeeps,
       ClientThrowsKeeps, ClientLeavesKeeps, BreaksKeeps DEF ClientStep
  <2>2. UNCHANGED Abstract!echoVars
    BY <1>3 DEF ClientStep, Connect, ConnectFails, ClientWrite, ClientRead, ClientThrows,
                ClientLeaves, Breaks, serverVars, Abstract!echoVars
  <2>3. QED
    BY <2>1, <2>2
<1>4. ASSUME NEW c \in Client, UNCHANGED world,
             AcceptStep(c) \/ SessionEof(c) \/ SessionThrows(c)
      PROVE  LinesInv' /\ UNCHANGED Abstract!echoVars
  <2>1. LinesInv'
    BY <1>4, AcceptKeeps, ThreadFailsKeeps, SessionEofKeeps, SessionThrowsKeeps
       DEF AcceptStep
  <2>2. UNCHANGED Abstract!echoVars
    BY <1>4 DEF AcceptStep, Accept, ThreadFails, SessionEof, SessionThrows, Abstract!echoVars
  <2>3. QED
    BY <2>1, <2>2
<1>5. ASSUME NEW c \in Client, UNCHANGED world, SessionRead(c) \/ SessionWrite(c)
      PROVE  LinesInv' /\ Abstract!Next
  BY <1>5, SessionReadKeeps, SessionWriteKeeps DEF Abstract!Next
<1>6. QED
  BY <1>1, <1>2, <1>3, <1>4, <1>5 DEF Next, SessionStep

(* And it keeps the rest of the invariant. *)
LEMMA StepHolds ==
  ASSUME IInv, [Next]_vars
  PROVE  IInv' /\ [Abstract!Next]_(Abstract!echoVars)
BY LinesStep, MainStep DEF IInv, LinesInv

(* Where the bytes of every line are, what they are, what every thread     *)
(* does, and why the server left its loop: the inductive invariant of the  *)
(* blocking programs.                                                      *)
THEOREM Invariance == Spec => []IInv
<1>1. IInv /\ [Next]_vars => IInv'
  BY StepHolds
<1>2. QED
  BY <1>1, InitHolds, PTL DEF Spec

(* Type correctness: in particular, no piece that is read fills data, so   *)
(* that the print of sync_server.cpp:30 ends in it.                        *)
THEOREM TypeCorrect == Spec => []TypeOK
<1>1. IInv => TypeOK
  BY DEF IInv, LinesInv
<1>2. QED
  BY <1>1, Invariance, PTL

(* A client in write and its thread in write never wait for each other,    *)
(* whatever TCP may hold, if it is as much as CapsAssumption asks:         *)
(* both buffers and the byte in the thread's data would be full of a line  *)
(* of which the client still has a byte.                                   *)
THEOREM NoDeadlock == Spec => []NeverBothBlocked
<1>1. IInv => NeverBothBlocked
  <2> SUFFICES ASSUME IInv, NEW c \in Client,
                      sent[c] < line[c],
                      sent[c] - taken[c] = cap.up,
                      session[c] = "writing",
                      Len(echoed[c]) - replied[c] = cap.down
               PROVE  FALSE
    BY DEF NeverBothBlocked
  <2>1. PICK l, s, t, o, r, up, down, m \in Nat :
          /\ l = line[c] /\ s = sent[c] /\ t = taken[c] /\ o = Out(c) /\ r = replied[c]
          /\ up = cap.up /\ down = cap.down /\ m = MaxLength
    BY Naturals DEF IInv
  <2>2. o < t
    BY <2>1 DEF IInv, LinesInv, ClientInv, Phase
  <2>3. s < l /\ s - t = up /\ o - r = down
    BY <2>1 DEF Out
  <2>4. l <= m - 1 /\ m <= up + down + 2
    BY <2>1, Numbers DEF IInv
  <2>5. QED
    BY <2>2, <2>3, <2>4
<1>2. QED
  BY <1>1, Invariance, PTL

(* A client is cut off only when its connection breaks, when accept fails, *)
(* or when std::thread throws, after as many clients as the system grants  *)
(* threads have got one.                                                   *)
THEOREM Isolation == Spec => []FailsOnlyWithServer
<1>1. IInv => FailsOnlyWithServer
  <2> SUFFICES ASSUME IInv, NEW c \in Client, client[c] = "failed", c \notin broken
               PROVE  \/ exception = "accept"
                      \/ exception = "thread" /\ Cardinality(Served) >= limit
    BY DEF FailsOnlyWithServer
  <2>1. main # "accepting"
    BY DEF IInv, LinesInv, ClientInv, Phase
  <2>2. exception \in {"accept", "thread"}
    BY <2>1 DEF IInv, LinesInv, MainInv, TypeOK
  <2>3. QED
    BY <2>2 DEF IInv, MainInv
<1>2. QED
  BY <1>1, Invariance, PTL

(* The thread of each client implements the abstract echo service.         *)
THEOREM Refinement == Spec => IsEchoService
<1>1. Init => Abstract!Init
  BY DEF Init, Abstract!Init
<1>2. IInv /\ [Next]_vars => [Abstract!Next]_(Abstract!echoVars)
  BY StepHolds
<1>3. QED
  BY <1>1, <1>2, Invariance, PTL DEF Spec, IsEchoService, Abstract!Spec
=============================================================================
