------------------------------ MODULE SyncEcho -----------------------------
(***************************************************************************)
(* The blocking echo programs, asio/sync and basic/blocking_tcp_echo_*: a  *)
(* server that gives each connection a thread of its own, and clients that *)
(* send one line and read as many bytes back.  The two pairs differ in     *)
(* what becomes of a thread: basic detaches it, asio/sync keeps it in      *)
(* thread_set.  A call that blocks is an action that is not enabled.       *)
(*                                                                         *)
(* TCP holds a bounded number of bytes each way.  Byte i of a line is i.   *)
(***************************************************************************)
EXTENDS Integers, Sequences, FiniteSets

CONSTANTS
  Client,      (* client processes, each run once                          *)
  Typed,       (* lengths of the lines typed at a client                   *)
  MaxLength,   (* max_length: data, request and reply have this size       *)
  MaxThreads,  (* bound on the number of threads the system grants         *)
  Caps         (* what TCP may hold: bytes to the server, to the client    *)

ASSUME SizesAssumption ==
  Typed \subseteq Nat /\ MaxLength \in Nat \ {0} /\ MaxThreads \in Nat \ {0}

(* The buffers of TCP hold, between them, a line and its echo: max_length  *)
(* is 1024, and no system has socket buffers as small as that.             *)
ASSUME CapsAssumption ==
  /\ Caps # {}
  /\ \A c \in Caps : /\ c \in [up : Nat \ {0}, down : Nat \ {0}]
                     /\ MaxLength <= c.up + c.down + 2

VARIABLES
  detached,    (* TRUE for basic, FALSE for asio/sync                      *)
  limit,       (* how many threads the system grants                       *)
  cap,         (* what TCP holds                                           *)
  main,        (* the server's main thread: in its loop, leaving it by an  *)
               (* exception, or the process has ended                      *)
  exception,   (* what threw the one that main catches, or "none"          *)
  session,     (* session[c]: the thread that serves c; "dropped" if the   *)
               (* server could not start it                                *)
  taken,       (* taken[c]: bytes read_some has read from c                *)
  left,        (* left[c]: what write has still to write of data           *)
  echoed,      (* echoed[c]: bytes written for c                           *)
  client,      (* client[c]: the process                                   *)
  line,        (* line[c]: request_length                                  *)
  sent,        (* sent[c]: bytes of the request written                    *)
  replied,     (* replied[c]: bytes of the reply read                      *)
  broken       (* connections TCP has given up                             *)

world == <<detached, limit, cap>>
serverVars == <<main, exception, session, taken, left, echoed>>
clientVars == <<client, line, sent, replied>>
vars == <<world, serverVars, clientVars, broken>>

(* A line, and so every piece of it that is read, is shorter than data:    *)
(* sync_server.cpp:30 prints data up to its first zero, and there is one.  *)
TypeOK ==
  /\ detached \in BOOLEAN
  /\ limit \in 1..MaxThreads
  /\ cap \in Caps
  /\ main \in {"accepting", "unwinding", "ended"}
  /\ exception \in {"none", "accept", "thread"}
  /\ session \in [Client -> {"none", "reading", "writing", "ended", "dropped"}]
  /\ client \in [Client -> {"off", "open", "refused", "failed", "gone"}]
  /\ line \in [Client -> 0..(MaxLength - 1)]
  /\ left \in [Client -> Seq(0..(MaxLength - 1))]
  /\ echoed \in [Client -> Seq(0..(MaxLength - 1))]
  /\ {sent, taken, replied} \subseteq [Client -> 0..(MaxLength - 1)]

Init ==
  /\ detached \in BOOLEAN
  /\ limit \in 1..MaxThreads
  /\ cap \in Caps
  /\ main = "accepting"
  /\ exception = "none"
  /\ session = [c \in Client |-> "none"]
  /\ taken = [c \in Client |-> 0]
  /\ left = [c \in Client |-> <<>>]
  /\ echoed = [c \in Client |-> <<>>]
  /\ client = [c \in Client |-> "off"]
  /\ line = [c \in Client |-> 0]
  /\ sent = [c \in Client |-> 0]
  /\ replied = [c \in Client |-> 0]
  /\ broken = {}
-----------------------------------------------------------------------------
(* getline keeps at most MAX_LENGTH - 1 characters of a line. *)
RequestLengthWhole(n) == n
RequestLength(n) == IF n < MaxLength THEN n ELSE MaxLength - 1

HasReply(c) == client[c] = "open" /\ sent[c] = line[c] /\ replied[c] = line[c]

(* The server's end of the connection is closed. *)
ServerClosed(c) ==
  \/ session[c] \in {"ended", "dropped"}
  \/ main = "unwinding" /\ session[c] = "none"
  \/ main = "ended"

(* connect, answered by the listening socket before accept returns; then a *)
(* line is read from cin.                                                  *)
Connect(c) ==
  /\ client[c] = "off"
  /\ main = "accepting"
  /\ client' = [client EXCEPT ![c] = "open"]
  /\ \E n \in Typed : line' = [line EXCEPT ![c] = RequestLength(n)]
  /\ UNCHANGED <<sent, replied, serverVars, broken>>

ConnectFails(c) ==
  /\ client[c] = "off"
  /\ main # "accepting"
  /\ client' = [client EXCEPT ![c] = "refused"]
  /\ UNCHANGED <<line, sent, replied, serverVars, broken>>

(* write: blocks while TCP has no room, until the whole request is in. *)
ClientWrite(c) ==
  /\ client[c] = "open"
  /\ \E n \in (sent[c] + 1)..line[c] :
       /\ n - taken[c] <= cap.up
       /\ sent' = [sent EXCEPT ![c] = n]
  /\ UNCHANGED <<client, line, replied, serverVars, broken>>

(* read: blocks until request_length bytes of the reply are there. *)
ClientRead(c) ==
  /\ client[c] = "open"
  /\ sent[c] = line[c]
  /\ \E n \in (replied[c] + 1)..line[c] :
       /\ n <= Len(echoed[c])
       /\ replied' = [replied EXCEPT ![c] = n]
  /\ UNCHANGED <<client, line, sent, serverVars, broken>>

(* write or read throws: main prints it and returns. *)
ClientThrows(c) ==
  /\ client[c] = "open"
  /\ ~HasReply(c)
  /\ c \in broken \/ ServerClosed(c)
  /\ client' = [client EXCEPT ![c] = "failed"]
  /\ UNCHANGED <<line, sent, replied, serverVars, broken>>

(* The client prints the reply and returns, or it is killed before. *)
ClientLeaves(c) ==
  /\ client[c] = "open"
  /\ client' = [client EXCEPT ![c] = "gone"]
  /\ UNCHANGED <<line, sent, replied, serverVars, broken>>

ClientClosed(c) == client[c] \in {"failed", "gone"}
-----------------------------------------------------------------------------
(* The threads that cost the system something: those that run, and those   *)
(* that have ended and are not joined, for thread_set keeps them.          *)
ThreadsHeld ==
  {c \in Client : session[c] \in {"reading", "writing"}
                  \/ (~detached /\ session[c] = "ended")}

(* A connection the listening socket has made and accept has not taken. *)
Waiting(c) == client[c] \notin {"off", "refused"} /\ session[c] = "none"

(* accept, and a thread for the connection. *)
Accept(c) ==
  /\ main = "accepting"
  /\ Waiting(c)
  /\ Cardinality(ThreadsHeld) < limit
  /\ session' = [session EXCEPT ![c] = "reading"]
  /\ UNCHANGED <<main, exception, taken, left, echoed, clientVars, broken>>

(* std::thread throws, and the connection is closed; or accept does.  Only *)
(* main catches it: the loop is left for ever.                             *)
ThreadFails(c) ==
  /\ main = "accepting"
  /\ Waiting(c)
  /\ Cardinality(ThreadsHeld) = limit
  /\ main' = "unwinding"
  /\ exception' = "thread"
  /\ session' = [session EXCEPT ![c] = "dropped"]
  /\ UNCHANGED <<taken, left, echoed, clientVars, broken>>
AcceptFails ==
  /\ main = "accepting"
  /\ main' = "unwinding"
  /\ exception' = "accept"
  /\ UNCHANGED <<session, taken, left, echoed, clientVars, broken>>

(* main returns, which ends the process with every thread in it: asio/sync *)
(* through std::terminate, if thread_set has a thread, for none is joined. *)
ProcessEnds ==
  /\ main = "unwinding"
  /\ main' = "ended"
  /\ UNCHANGED <<exception, session, taken, left, echoed, clientVars, broken>>
-----------------------------------------------------------------------------
(* What is written back of a data of which n bytes were read. *)
EchoWholeBuffer(c, n) ==
  [i \in 1..MaxLength |-> IF i <= n THEN taken[c] + i ELSE 0]
Echo(c, n) == [i \in 1..n |-> taken[c] + i]

(* read_some: blocks until there is something. *)
SessionRead(c) ==
  /\ session[c] = "reading"
  /\ \E n \in 1..MaxLength :
       /\ taken[c] + n <= sent[c]
       /\ taken' = [taken EXCEPT ![c] = @ + n]
       /\ left' = [left EXCEPT ![c] = Echo(c, n)]
  /\ session' = [session EXCEPT ![c] = "writing"]
  /\ UNCHANGED <<main, exception, echoed, clientVars, broken>>

(* write: blocks while TCP has no room, until all is in. *)
SessionWriteSome(c) ==
  /\ session[c] = "writing"
  /\ \E n \in 1..Len(left[c]) :
       /\ Len(echoed[c]) + n - replied[c] <= cap.down
       /\ echoed' = [echoed EXCEPT ![c] = @ \o SubSeq(left[c], 1, n)]
       /\ left' = [left EXCEPT ![c] = <<>>]
       /\ session' = [session EXCEPT ![c] = "reading"]
  /\ UNCHANGED <<main, exception, taken, clientVars, broken>>
SessionWrite(c) ==
  /\ session[c] = "writing"
  /\ \E n \in 1..Len(left[c]) :
       /\ Len(echoed[c]) + n - replied[c] <= cap.down
       /\ echoed' = [echoed EXCEPT ![c] = @ \o SubSeq(left[c], 1, n)]
       /\ left' = [left EXCEPT ![c] = SubSeq(@, n + 1, Len(@))]
       /\ session' = [session EXCEPT ![c] = IF n < Len(left[c]) THEN @ ELSE "reading"]
  /\ UNCHANGED <<main, exception, taken, clientVars, broken>>

(* read_some finds the end of the stream: the thread returns. *)
SessionEof(c) ==
  /\ session[c] = "reading"
  /\ ClientClosed(c)
  /\ sent[c] = taken[c]
  /\ session' = [session EXCEPT ![c] = "ended"]
  /\ UNCHANGED <<main, exception, taken, left, echoed, clientVars, broken>>

(* read_some or write fails: the exception is caught, the thread returns. *)
SessionThrowsReading(c) ==
  /\ session[c] = "reading"
  /\ c \in broken \/ ClientClosed(c)
  /\ session' = [session EXCEPT ![c] = "ended"]
  /\ UNCHANGED <<main, exception, taken, left, echoed, clientVars, broken>>
SessionThrowsUncaught(c) ==
  /\ session[c] \in {"reading", "writing"}
  /\ c \in broken \/ ClientClosed(c)
  /\ session' = [session EXCEPT ![c] = "ended"]
  /\ main' = "ended"
  /\ UNCHANGED <<exception, taken, left, echoed, clientVars, broken>>
SessionThrows(c) ==
  /\ session[c] \in {"reading", "writing"}
  /\ c \in broken \/ ClientClosed(c)
  /\ session' = [session EXCEPT ![c] = "ended"]
  /\ UNCHANGED <<main, exception, taken, left, echoed, clientVars, broken>>

(* The connection breaks. *)
Breaks(c) ==
  /\ client[c] = "open"
  /\ broken' = broken \union {c}
  /\ UNCHANGED <<serverVars, clientVars>>
-----------------------------------------------------------------------------
ClientStep(c) == ClientWrite(c) \/ ClientRead(c) \/ ClientThrows(c)

AcceptStep(c) == Accept(c) \/ ThreadFails(c)

SessionStep(c) ==
  /\ main # "ended"
  /\ SessionRead(c) \/ SessionWrite(c) \/ SessionEof(c) \/ SessionThrows(c)

Next ==
  /\ \/ AcceptFails \/ ProcessEnds
     \/ \E c \in Client :
          \/ Connect(c) \/ ConnectFails(c) \/ ClientStep(c) \/ ClientLeaves(c)
          \/ AcceptStep(c) \/ SessionStep(c) \/ Breaks(c)
  /\ UNCHANGED world

Spec == Init /\ [][Next]_vars

(* Every process and thread runs when it can.  Nobody need start a client  *)
(* or end it: asio/sync waits in getchar, with the connection open.        *)
Fairness ==
  /\ WF_vars(ProcessEnds /\ UNCHANGED world)
  /\ \A c \in Client :
       /\ WF_vars(ClientStep(c) /\ UNCHANGED world)
       /\ WF_vars(AcceptStep(c) /\ UNCHANGED world)
       /\ WF_vars(SessionStep(c) /\ UNCHANGED world)

FairSpec == Spec /\ Fairness
-----------------------------------------------------------------------------
Abstract == INSTANCE EchoService WITH Session <- Client, received <- taken

(* Each thread implements the abstract echo service of the asynchronous    *)
(* servers: the loop of read_some and write sends back what it was sent.   *)
IsEchoService == Abstract!Spec

(* The client writes its whole request before it reads, and the thread     *)
(* writes each piece before it reads on: they would wait for each other    *)
(* for ever, each with the other's buffer full.  A line is too short.      *)
NeverBothBlocked ==
  \A c \in Client :
     ~ /\ client[c] = "open"
       /\ sent[c] < line[c]
       /\ sent[c] - taken[c] = cap.up
       /\ session[c] = "writing"
       /\ Len(echoed[c]) - replied[c] = cap.down

(* The clients that got a thread, whether or not it still runs. *)
Served == {c \in Client : session[c] \notin {"none", "dropped"}}

(* An exception in a session ends that session only, and a failed accept   *)
(* or std::thread all of them: a client that is cut off has lost its own   *)
(* connection, or accept has failed, or std::thread has.  The last is what *)
(* other clients can do to it, but as many of them have got a thread as    *)
(* the system grants; in asio/sync also those count that are long gone,    *)
(* for thread_set keeps their threads (sync_server.cpp:48).                *)
FailsOnlyWithServer ==
  \A c \in Client :
     client[c] = "failed" =>
        \/ c \in broken
        \/ exception = "accept"
        \/ exception = "thread" /\ Cardinality(Served) >= limit

(* Every client that connects gets its reply or is cut off, or leaves. *)
Answered == \A c \in Client : (client[c] = "open") ~> (HasReply(c) \/ client[c] # "open")

(* When its client is gone a thread ends, also one that waits in write. *)
ThreadsEnd ==
  \A c \in Client :
     (ClientClosed(c) /\ session[c] \in {"reading", "writing"})
       ~> (session[c] = "ended" \/ main = "ended")
=============================================================================
