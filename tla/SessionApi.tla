----------------------------- MODULE SessionApi ----------------------------
(***************************************************************************)
(* asio/async/00_session_api: a client session whose application writes    *)
(* and reads when it likes.  Messages wait in send_queue_ as copies, with  *)
(* the length already sent in cur_len_; one async_write_some at a time     *)
(* sends what it can of the first.  WriteToSocketErr has one send_node_    *)
(* instead of the queue.  A read fills one node of kRecvSize bytes.        *)
(* ioc.run() and the application share one thread, so a call or a callback *)
(* is one step.  TCP takes the bytes of the writes in the order they were  *)
(* started; their callbacks run in any order.                              *)
(*                                                                         *)
(* An application uses the queue or send_node_, not both.  Not modelled:   *)
(* WriteAllCallBack and ReadAllCallBack, which nothing ever passes on.     *)
(***************************************************************************)
EXTENDS Integers, Sequences, SequencesExt

CONSTANTS
  MsgLen,      (* lengths of the messages the application writes           *)
  MaxBytes,    (* bound: how many bytes it ever writes                     *)
  MaxMsgs,     (* bound: how many messages it ever writes                  *)
  RecvSize,    (* kRecvSize                                                *)
  MaxWire      (* bound: bytes sent by the application that uses the node  *)

ASSUME SizesAssumption ==
  /\ MsgLen \subseteq Nat
  /\ MaxBytes \in Nat
  /\ MaxMsgs \in Nat
  /\ RecvSize \in Nat \ {0}
  /\ MaxWire \in Nat

VARIABLES
  queue,       (* send_queue_: [first, len, cur], a message being the      *)
               (* bytes first + 1 .. first + len of all the application    *)
               (* writes, cur its cur_len_                                 *)
  sendPending, (* send_pending_                                            *)
  writes,      (* the outstanding async_write_some, in the order started:  *)
               (* of bytes first + 1 .. first + len, n sent when complete  *)
  sendNode,    (* send_node_: bytes first + 1 .. first + len               *)
  recvPending, (* recv_pending_                                            *)
  recv,        (* cur_len_ of recv_node_                                   *)
  read,        (* the outstanding async_read_some: state and bytes read    *)
  submitted,   (* how many bytes the application wrote                     *)
  messages,    (* how many messages it wrote                               *)
  wire,        (* what the peer gets; byte i of the application is i       *)
  keeps,       (* does the application keep each string it passes to a     *)
               (* write alive until it is sent                             *)
  usesNode,    (* does it use WriteToSocketErr                             *)
  waits,       (* does it write again only when no write is outstanding    *)
  failed,      (* has a write failed                                       *)
  running      (* FALSE once front() of an empty queue was used            *)

sendVars == <<queue, sendPending, writes, sendNode, submitted, messages, failed>>
recvVars == <<recvPending, recv, read>>
application == <<keeps, usesNode, waits>>
vars == <<sendVars, recvVars, wire, application, running>>

(* A byte read from a string that is gone. *)
Garbage == 0
Byte == {Garbage} \union 1..MaxBytes

OpState == {"idle", "pending", "ok", "error"}
NoRead == [st |-> "idle", n |-> 0]
Reading == [st |-> "pending", n |-> 0]

(* async_write_some of bytes first + 1 .. first + len: of the caller's     *)
(* string, of a node in the queue, or of a send_node_, which its callback, *)
(* made by bind, may own.  One of no bytes completes at once.              *)
Writing(first, len, from) ==
  [first |-> first, len |-> len, from |-> from,
   st |-> IF len = 0 THEN "ok" ELSE "pending", n |-> 0]

Node(first, len) == [first |-> first, len |-> len, cur |-> 0]

TypeOK ==
  /\ queue \in Seq([first : 0..MaxBytes, len : 0..MaxBytes, cur : 0..MaxBytes])
  /\ writes \in Seq([first : 0..MaxBytes, len : 0..MaxBytes,
                     from : {"caller", "queue", "node", "bound"},
                     st : OpState, n : 0..MaxBytes])
  /\ sendNode \in [first : 0..MaxBytes, len : 0..MaxBytes]
  /\ read \in [st : OpState, n : 0..RecvSize]
  /\ recv \in 0..RecvSize
  /\ submitted \in 0..MaxBytes
  /\ messages \in 0..MaxMsgs
  /\ wire \in Seq(Byte)
  /\ {sendPending, recvPending, failed, running} \subseteq BOOLEAN
  /\ {keeps, usesNode, waits} \subseteq BOOLEAN

Init ==
  /\ queue = <<>>
  /\ sendPending = FALSE
  /\ writes = <<>>
  /\ recvPending = FALSE
  /\ recv = 0
  /\ read = NoRead
  /\ submitted = 0
  /\ messages = 0
  /\ wire = <<>>
  /\ sendNode = [first |-> 0, len |-> 0]
  /\ usesNode \in BOOLEAN
  /\ keeps \in BOOLEAN /\ (usesNode => keeps)
  /\ waits \in BOOLEAN /\ (waits => usesNode)
  /\ failed = FALSE
  /\ running = TRUE
-----------------------------------------------------------------------------
(* The application writes the next len bytes: queue a copy; unless a send  *)
(* is pending, write from the application's own string.                    *)
SubmitAlwaysStarts(len) ==
  /\ running
  /\ messages < MaxMsgs
  /\ submitted + len <= MaxBytes
  /\ messages' = messages + 1
  /\ submitted' = submitted + len
  /\ queue' = Append(queue, Node(submitted, len))
  /\ writes' = Append(writes, Writing(submitted, len, "caller"))
  /\ sendPending' = TRUE
  /\ UNCHANGED <<sendNode, failed, recvVars, wire, application, running>>
Submit(len) ==
  /\ running
  /\ messages < MaxMsgs
  /\ submitted + len <= MaxBytes
  /\ messages' = messages + 1
  /\ submitted' = submitted + len
  /\ queue' = Append(queue, Node(submitted, len))
  /\ \/ sendPending /\ UNCHANGED writes
     \/ ~sendPending /\ writes' = Append(writes, Writing(submitted, len, "caller"))
  /\ sendPending' = TRUE
  /\ UNCHANGED <<sendNode, failed, recvVars, wire, application, running>>

WriteToSocket == \E len \in MsgLen : Submit(len)

(* The same with async_send, which on a TCP socket also sends only what it *)
(* can; and the callback is the same.                                      *)
WriteAllToSocket == \E len \in MsgLen : Submit(len)

(* async_write_some of what is left of a message when cur bytes are sent. *)
WriteRestOverread(node, cur) == Writing(node.first + cur, node.len, "queue")
WriteRest(node, cur) == Writing(node.first + cur, node.len - cur, "queue")

(* The callback of any write that succeeded: the rest of the first         *)
(* message, or the next one, or nothing more to send.                      *)
WriteCallBackStops ==
  /\ running
  /\ queue # <<>>
  /\ \E k \in DOMAIN writes :
       /\ writes[k].st = "ok"
       /\ writes' = RemoveAt(writes, k)
  /\ queue' = Tail(queue)
  /\ sendPending' = (Tail(queue) # <<>>)
  /\ UNCHANGED <<sendNode, submitted, messages, failed, recvVars, wire, application,
                 running>>
WriteCallBack ==
  /\ running
  /\ queue # <<>>
  /\ \E k \in DOMAIN writes :
       LET node == Head(queue)
           cur == node.cur + writes[k].n
           others == RemoveAt(writes, k)
       IN  /\ writes[k].st = "ok"
           /\ \/ /\ cur < node.len
                 /\ queue' = <<[node EXCEPT !.cur = cur]>> \o Tail(queue)
                 /\ writes' = Append(others, WriteRest(node, cur))
                 /\ UNCHANGED sendPending
              \/ /\ cur >= node.len
                 /\ queue' = Tail(queue)
                 /\ \/ /\ Tail(queue) = <<>>
                       /\ sendPending' = FALSE
                       /\ writes' = others
                    \/ /\ Tail(queue) # <<>>
                       /\ writes' = Append(others, WriteRest(queue[2], 0))
                       /\ UNCHANGED sendPending
  /\ UNCHANGED <<sendNode, submitted, messages, failed, recvVars, wire, application,
                 running>>

(* front() of an empty queue: undefined, and nothing is modelled after it. *)
WriteCallBackEmpty ==
  /\ running
  /\ \E k \in DOMAIN writes : writes[k].st = "ok"
  /\ queue = <<>>
  /\ running' = FALSE
  /\ UNCHANGED <<sendVars, recvVars, wire, application>>

(* The callback of a write that failed only prints; send_pending_ stays    *)
(* TRUE, so nothing is ever written again.                                 *)
WriteCallBackErrorReleases ==
  /\ running
  /\ \E k \in DOMAIN writes :
       /\ writes[k].st = "error"
       /\ writes' = RemoveAt(writes, k)
  /\ sendPending' = FALSE
  /\ failed' = TRUE
  /\ UNCHANGED <<queue, sendNode, submitted, messages, recvVars, wire, application, running>>
WriteCallBackError ==
  /\ running
  /\ \E k \in DOMAIN writes :
       /\ writes[k].st = "error"
       /\ writes' = RemoveAt(writes, k)
  /\ failed' = TRUE
  /\ UNCHANGED <<queue, sendPending, sendNode, submitted, messages, recvVars, wire,
                 application, running>>
-----------------------------------------------------------------------------
(* The application writes with WriteToSocketErr: send_node_ becomes a copy *)
(* of the message, and the write starts at once.                           *)
WriteToSocketErrOldNode ==
  /\ running
  /\ messages < MaxMsgs
  /\ waits => writes = <<>>
  /\ \E len \in MsgLen :
       /\ submitted + len <= MaxBytes
       /\ sendNode' = [first |-> submitted, len |-> len]
       /\ writes' = Append(writes, Writing(sendNode.first, sendNode.len, "node"))
       /\ submitted' = submitted + len
  /\ messages' = messages + 1
  /\ UNCHANGED <<queue, sendPending, failed, recvVars, wire, application, running>>
WriteToSocketErr ==
  /\ running
  /\ messages < MaxMsgs
  /\ waits => writes = <<>>
  /\ \E len \in MsgLen :
       /\ submitted + len <= MaxBytes
       /\ sendNode' = [first |-> submitted, len |-> len]
       /\ writes' = Append(writes, Writing(submitted, len, "node"))
       /\ submitted' = submitted + len
  /\ messages' = messages + 1
  /\ UNCHANGED <<queue, sendPending, failed, recvVars, wire, application, running>>

(* Its callback: if the write sent less than send_node_, as it now is, is  *)
(* long, write send_node_ again, from its start, for cur_len_ stays 0.     *)
WriteCallBackErrStops ==
  /\ running
  /\ \E k \in DOMAIN writes :
       /\ writes[k].st = "ok"
       /\ writes' = RemoveAt(writes, k)
  /\ UNCHANGED <<queue, sendPending, sendNode, submitted, messages, failed, recvVars,
                 wire, application, running>>
WriteCallBackErr ==
  /\ running
  /\ \E k \in DOMAIN writes :
       LET others == RemoveAt(writes, k) IN
       /\ writes[k].st = "ok"
       /\ \/ /\ writes[k].n < sendNode.len
             /\ writes' = Append(others, Writing(sendNode.first, sendNode.len, "bound"))
          \/ /\ writes[k].n >= sendNode.len
             /\ writes' = others
  /\ UNCHANGED <<queue, sendPending, sendNode, submitted, messages, failed, recvVars,
                 wire, application, running>>
-----------------------------------------------------------------------------
StartRead ==
  /\ running
  /\ ~recvPending
  /\ recv' = 0
  /\ read' = Reading
  /\ recvPending' = TRUE
  /\ UNCHANGED <<sendVars, wire, application, running>>

ReadFromSocket == StartRead

(* The same with async_receive, which also reads only what has arrived. *)
ReadAllFromSocket == StartRead

(* The read callback, which does not look at the error code: go on until   *)
(* the node is full; then it resets send_pending_.                         *)
ReadCallBackResets ==
  /\ running
  /\ read.st \in {"ok", "error"}
  /\ recv' = recv + read.n
  /\ \/ /\ recv' < RecvSize
        /\ read' = Reading
        /\ UNCHANGED recvPending
     \/ /\ recv' >= RecvSize
        /\ read' = NoRead
        /\ recvPending' = FALSE
  /\ UNCHANGED <<sendVars, wire, application, running>>
ReadCallBack ==
  /\ running
  /\ read.st \in {"ok", "error"}
  /\ recv' = recv + read.n
  /\ \/ /\ recv' < RecvSize
        /\ read' = Reading
        /\ UNCHANGED sendPending
     \/ /\ recv' >= RecvSize
        /\ read' = NoRead
        /\ sendPending' = FALSE
  /\ UNCHANGED <<queue, writes, sendNode, submitted, messages, failed, recvPending,
                 wire, application, running>>
-----------------------------------------------------------------------------
(* What the write takes its bytes from may be gone: a string the caller    *)
(* dropped, a node the callback of another write popped, or one that is no *)
(* longer send_node_ and no callback owns.                                 *)
Dangling(op) ==
  \/ op.from = "caller" /\ ~keeps
  \/ /\ op.from = "queue"
     /\ \A k \in DOMAIN queue :
          op.first \notin queue[k].first..(queue[k].first + queue[k].len - 1)
  \/ /\ op.from = "node"
     /\ op.first # sendNode.first
     /\ \A k \in DOMAIN writes : writes[k].from = "bound" => writes[k].first # op.first

(* TCP takes n bytes of the oldest write that is not complete, in one go.  *)
(* If they come from memory that is gone, they can be anything.            *)
WriteSome ==
  /\ running
  /\ \E k \in DOMAIN writes :
       LET op == writes[k] IN
       /\ op.st = "pending"
       /\ \A j \in 1..(k - 1) : writes[j].st # "pending"
       /\ \E n \in 1..op.len :
            /\ usesNode => Len(wire) + n <= MaxWire
            /\ writes' = [writes EXCEPT ![k].st = "ok", ![k].n = n]
            /\ \/ wire' = wire \o [i \in 1..n |-> op.first + i]
               \/ /\ Dangling(op)
                  /\ wire' = wire \o [i \in 1..n |-> Garbage]
  /\ UNCHANGED <<queue, sendPending, sendNode, submitted, messages, failed, recvVars,
                 application, running>>

(* The connection breaks: every outstanding write fails. *)
WritesFail ==
  /\ running
  /\ \E k \in DOMAIN writes : writes[k].st = "pending"
  /\ writes' = [k \in DOMAIN writes |->
                  [writes[k] EXCEPT !.st = IF @ = "pending" THEN "error" ELSE @]]
  /\ UNCHANGED <<queue, sendPending, sendNode, submitted, messages, failed, recvVars,
                 wire, application, running>>

(* Bytes arrive, or the read fails. *)
ReadCompletes ==
  /\ running
  /\ read.st = "pending"
  /\ \/ \E n \in 1..(RecvSize - recv) : read' = [st |-> "ok", n |-> n]
     \/ read' = [st |-> "error", n |-> 0]
  /\ UNCHANGED <<sendVars, recvPending, recv, wire, application, running>>
-----------------------------------------------------------------------------
WriteHandler ==
  \/ ~usesNode /\ (WriteCallBack \/ WriteCallBackEmpty)
  \/ usesNode /\ WriteCallBackErr
  \/ WriteCallBackError

Next ==
  \/ ~usesNode /\ (WriteToSocket \/ WriteAllToSocket)
  \/ usesNode /\ WriteToSocketErr
  \/ WriteHandler
  \/ ReadFromSocket
  \/ ReadAllFromSocket
  \/ ReadCallBack
  \/ WriteSome
  \/ WritesFail
  \/ ReadCompletes

Spec == Init /\ [][Next]_vars

(* ioc.run() runs the callbacks of completed operations; TCP sends or      *)
(* fails.  The application need not call anything, nor the peer send.      *)
Fairness ==
  /\ WF_vars(WriteHandler)
  /\ WF_vars(ReadCallBack)
  /\ WF_vars(WriteSome \/ WritesFail)

FairSpec == Spec /\ Fairness
-----------------------------------------------------------------------------
(* A read has filled its node. *)
ReadDone == recvPending /\ recv = RecvSize

(* session_api.h:75: send_pending_ says whether the queue holds messages. *)
SendPendingIsQueue == sendPending <=> queue # <<>>

(* As long as no read has completed, send_pending_ does what it is for: it *)
(* tells whether messages are queued, at most one write is outstanding,    *)
(* one is unless a write has failed, and its bytes are the next of the     *)
(* first message.                                                          *)
WritePathSound ==
  ~ReadDone /\ ~usesNode =>
     /\ SendPendingIsQueue
     /\ Len(writes) <= 1
     /\ writes = <<>> => queue = <<>> \/ failed
     /\ writes # <<>> =>
          /\ queue # <<>>
          /\ Head(writes).first = Head(queue).first + Head(queue).cur
          /\ Head(writes).len = Head(queue).len - Head(queue).cur

(* Until a read completes, the queue is a stream: the steps of the session *)
(* are those of ByteStream, each partial write the next piece of what the  *)
(* application wrote, and after a write that failed there is none.         *)
Stream == INSTANCE ByteStream WITH
  written <- submitted, arrived <- wire, broken <- failed,
  promised <- ~ReadDone /\ ~usesNode, kept <- keeps
IsByteStream == Stream!Spec

(* Every byte written is sent, unless a write fails or a read completes. *)
AllSent ==
  \A n \in 1..MaxBytes :
     ~usesNode /\ submitted >= n ~> (Len(wire) >= n \/ failed \/ ReadDone)

(* session_api.cpp:39: the lambda of WriteToSocketErr does not own the     *)
(* node, so every write but the newest may have lost the one it sends.     *)
(* The newest that is not complete never has, nor sends another than       *)
(* send_node_, whatever the order of the callbacks; unless the last        *)
(* message is empty, for its write is complete at once, and the newest of  *)
(* the others may be of a node that is gone.                               *)
NewestWriteLives ==
  usesNode /\ sendNode.len > 0 =>
     \A k \in DOMAIN writes :
        /\ writes[k].st = "pending"
        /\ \A j \in (k + 1)..Len(writes) : writes[j].st # "pending"
        => /\ <<writes[k].first, writes[k].len>> = <<sendNode.first, sendNode.len>>
           /\ ~Dangling(writes[k])

(* An application that uses WriteToSocketErr and waits for each write gets *)
(* every byte across: the peer may get the start of a message again and    *)
(* again, but no byte before the one that precedes it, and when nothing is *)
(* outstanding the last byte it got is the last that was written.          *)
WaitingLosesNothing ==
  waits /\ ~failed =>
     /\ wire # <<>> => wire[1] = 1
     /\ \A i \in 2..Len(wire) : wire[i] \in 1..(wire[i - 1] + 1)
     /\ writes = <<>> /\ submitted > 0 => wire # <<>> /\ wire[Len(wire)] = submitted

(* A session receives one node of bytes: recv_pending_ is never reset, so  *)
(* what was read is never dropped for a new node, and once the node is     *)
(* full no read is ever started again, although the comment at             *)
(* session_api.cpp:165-167 has the callback reset recv_pending_.           *)
ReceivesOneNode ==
  [][/\ recv' >= recv
     /\ recv = RecvSize => UNCHANGED <<recv, read>>]_vars
=============================================================================
