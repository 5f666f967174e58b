----------------------------- MODULE HttpServer ----------------------------
(***************************************************************************)
(* beast/http_server: the accept loop, and one HttpConnection for each     *)
(* client, which reads one request, answers it and shuts the connection,   *)
(* with a deadline of 60 seconds.  Every lambda holds a shared_ptr to its  *)
(* object, so an object exists as long as an operation of it is            *)
(* outstanding.  main runs ioc.run() on one thread: a handler is one step. *)
(*                                                                         *)
(* A request is abstracted to its method, whether its url is registered,   *)
(* and whether each % of its query is followed by two hex digits.  Any     *)
(* call may throw std::bad_alloc: each catch block is modelled with where  *)
(* in its try block the exception can leave what half done.                *)
(***************************************************************************)
EXTENDS Integers

CONSTANTS
  Conn,        (* connection objects                                       *)
  Requests,    (* the requests clients send                                *)
  RespLen      (* bound: the pieces in which TCP takes a response          *)

ASSUME RequestsAssumption ==
  Requests \subseteq [method : {"get", "other"}, url : {"known", "unknown"},
                      query : {"good", "bad"}]
ASSUME RespLenAssumption == RespLen \in Nat \ {0}

VARIABLES
  running,     (* FALSE when ioc.run() has returned or the process aborted *)
  accept,      (* async_accept; "none" when the server is destroyed        *)
  sock,        (* sock[c]: "open", "shut" (for sending) or "closed"        *)
  read,        (* read[c]: http::async_read of the request                 *)
  request,     (* request[c]: request_                                     *)
  write,       (* write[c]: http::async_write of response_                 *)
  reply,       (* reply[c]: what TCP has taken of the response             *)
  wait,        (* wait[c]: async_wait on deadline_                         *)
  expired,     (* expired[c]: 60 s have passed since c was made            *)
  lost,        (* connections TCP has given up                             *)
  caught       (* connections whose read lambda was left by an exception   *)

vars == <<running, accept, sock, read, request, write, reply, wait, expired,
          lost, caught>>

OpState == {"idle", "pending", "ok", "error"}
NoRequest == [method |-> "none", url |-> "none", query |-> "none"]
NoReply == [status |-> 0, parts |-> 0]
NoWrite == [st |-> "idle", status |-> 0]

TypeOK ==
  /\ running \in BOOLEAN
  /\ accept \in {"none", "pending", "ok", "error"}
  /\ sock \in [Conn -> {"open", "shut", "closed"}]
  /\ read \in [Conn -> OpState]
  /\ request \in [Conn -> Requests \union {NoRequest}]
  /\ write \in [Conn -> [st : OpState, status : {0, 200, 404}]]
  /\ reply \in [Conn -> [status : {0, 200, 404}, parts : 0..RespLen]]
  /\ wait \in [Conn -> OpState]
  /\ expired \in [Conn -> BOOLEAN]
  /\ lost \subseteq Conn
  /\ caught \subseteq Conn

(* main starts the server and runs the loop. *)
Init ==
  /\ running = TRUE
  /\ accept = "pending"
  /\ sock = [c \in Conn |-> "closed"]
  /\ read = [c \in Conn |-> "idle"]
  /\ request = [c \in Conn |-> NoRequest]
  /\ write = [c \in Conn |-> NoWrite]
  /\ reply = [c \in Conn |-> NoReply]
  /\ wait = [c \in Conn |-> "idle"]
  /\ expired = [c \in Conn |-> FALSE]
  /\ lost = {}
  /\ caught = {}

(* Some lambda holds self: the object exists. *)
Alive(c) == read[c] # "idle" \/ write[c].st # "idle" \/ wait[c] # "idle"

Free == {c \in Conn : ~Alive(c)}
-----------------------------------------------------------------------------
(* A client connects, or the accept fails.  Bound: clients connect only    *)
(* while an object is left for the connection.                             *)
AcceptCompletes ==
  /\ accept = "pending"
  /\ Free # {}
  /\ accept' \in {"ok", "error"}
  /\ UNCHANGED <<sock, read, request, write, reply, wait, expired, lost, caught>>

(* make_shared<HttpConnection>(...)->Start(): the deadline counts from     *)
(* here, and the request is read.                                          *)
NewConnectionKeepsReply(c) ==
  /\ sock' = [sock EXCEPT ![c] = "open"]
  /\ read' = [read EXCEPT ![c] = "pending"]
  /\ request' = [request EXCEPT ![c] = NoRequest]
  /\ expired' = [expired EXCEPT ![c] = FALSE]
  /\ lost' = lost \ {c}
  /\ caught' = caught \ {c}
  /\ UNCHANGED <<write, reply, wait>>
NewConnection(c) ==
  /\ sock' = [sock EXCEPT ![c] = "open"]
  /\ read' = [read EXCEPT ![c] = "pending"]
  /\ request' = [request EXCEPT ![c] = NoRequest]
  /\ reply' = [reply EXCEPT ![c] = NoReply]
  /\ expired' = [expired EXCEPT ![c] = FALSE]
  /\ lost' = lost \ {c}
  /\ caught' = caught \ {c}
  /\ UNCHANGED <<write, wait>>

(* The accept lambda: a connection for the client, and accept the next. *)
HandleAccept ==
  /\ accept = "ok"
  /\ \E c \in Free : NewConnection(c)
  /\ accept' = "pending"

HandleAcceptError ==
  /\ accept = "error"
  /\ accept' = "pending"
  /\ UNCHANGED <<sock, read, request, write, reply, wait, expired, lost, caught>>

(* The accept lambda throws before or after the connection is started: the *)
(* exception is caught and accept not called again, which was the last     *)
(* owner of the server.                                                    *)
HandleAcceptThrows ==
  /\ accept \in {"ok", "error"}
  /\ accept' = "none"
  /\ \/ accept = "ok" /\ \E c \in Free : NewConnection(c)
     \/ UNCHANGED <<sock, read, request, write, reply, wait, expired, lost, caught>>
-----------------------------------------------------------------------------
(* HandleGet finds a handler for the url, or HandleReq answers not_found. *)
StatusFor(r) == IF r.url = "known" THEN 200 ELSE 404

(* HandleReq up to WriteResponse: only a GET is answered. *)
AnswerEveryMethod(c) ==
  write' = [write EXCEPT ![c] = [st |-> "pending", status |-> StatusFor(request[c])]]
Respond(c) ==
  write' = [write EXCEPT ![c] =
              IF request[c].method = "get"
              THEN [st |-> "pending", status |-> StatusFor(request[c])] ELSE @]

(* async_wait on deadline_: complete at once if the deadline has passed. *)
CheckDeadlineUnset(c) == wait' = [wait EXCEPT ![c] = "ok"]
CheckDeadlineForgotten(c) == UNCHANGED wait
CheckDeadline(c) ==
  wait' = [wait EXCEPT ![c] = IF expired[c] THEN "ok" ELSE "pending"]

(* UrlDecode asserts that each % of the query is followed by hex digits. *)
AssertFails(r) == r.method = "get" /\ r.query = "bad"

(* The read lambda on success: HandleReq, then CheckDeadline. *)
HandleReq(c) ==
  /\ read[c] = "ok"
  /\ ~AssertFails(request[c])
  /\ read' = [read EXCEPT ![c] = "idle"]
  /\ Respond(c)
  /\ CheckDeadline(c)
  /\ UNCHANGED <<running, accept, sock, request, reply, expired, lost, caught>>

(* It throws, with the response started or not, but not the deadline. *)
HandleReqThrows(c) ==
  /\ read[c] = "ok"
  /\ read' = [read EXCEPT ![c] = "idle"]
  /\ caught' = caught \union {c}
  /\ \/ ~AssertFails(request[c]) /\ Respond(c)
     \/ UNCHANGED write
  /\ UNCHANGED <<running, accept, sock, request, reply, wait, expired, lost>>

(* A failed assert aborts the process. *)
HandleReqAborts(c) ==
  /\ read[c] = "ok"
  /\ AssertFails(request[c])
  /\ running' = FALSE
  /\ UNCHANGED <<accept, sock, read, request, write, reply, wait, expired, lost,
                 caught>>

(* The read lambda on an error only prints: nothing holds the connection.  *)
HandleReadError(c) ==
  /\ read[c] = "error"
  /\ read' = [read EXCEPT ![c] = "idle"]
  /\ UNCHANGED <<running, accept, sock, request, write, reply, wait, expired,
                 lost, caught>>

(* The write lambda, which does not look at the error code: shut the       *)
(* socket for sending and cancel the wait, too late if it has completed.   *)
HandleWrite(c) ==
  /\ write[c].st \in {"ok", "error"}
  /\ write' = [write EXCEPT ![c] = NoWrite]
  /\ sock' = [sock EXCEPT ![c] = IF @ = "open" THEN "shut" ELSE @]
  /\ wait' = [wait EXCEPT ![c] = IF @ = "pending" THEN "error" ELSE @]
  /\ UNCHANGED <<running, accept, read, request, reply, expired, lost, caught>>

(* The wait lambda: at the deadline, close the socket, which aborts the    *)
(* write; nothing when the wait was cancelled.                             *)
HandleDeadlineNoClose(c) ==
  /\ wait[c] \in {"ok", "error"}
  /\ wait' = [wait EXCEPT ![c] = "idle"]
  /\ UNCHANGED <<running, accept, sock, read, request, write, reply, expired, lost,
                 caught>>
HandleDeadline(c) ==
  /\ wait' = [wait EXCEPT ![c] = "idle"]
  /\ \/ /\ wait[c] = "ok"
        /\ sock' = [sock EXCEPT ![c] = "closed"]
        /\ write' = [write EXCEPT ![c].st = IF @ = "pending" THEN "error" ELSE @]
     \/ /\ wait[c] = "error"
        /\ UNCHANGED <<sock, write>>
  /\ UNCHANGED <<running, accept, read, request, reply, expired, lost, caught>>
-----------------------------------------------------------------------------
(* A whole request arrives. *)
RequestArrives(c) ==
  /\ read[c] = "pending"
  /\ read' = [read EXCEPT ![c] = "ok"]
  /\ \E r \in Requests : request' = [request EXCEPT ![c] = r]
  /\ UNCHANGED <<accept, sock, write, reply, wait, expired, lost, caught>>

(* The client leaves, or sends what is not a request. *)
ReadFails(c) ==
  /\ read[c] = "pending"
  /\ read' = [read EXCEPT ![c] = "error"]
  /\ UNCHANGED <<accept, sock, request, write, reply, wait, expired, lost, caught>>

(* TCP takes the next piece of the response. *)
WriteSome(c) ==
  /\ write[c].st = "pending"
  /\ reply' = [reply EXCEPT ![c] = [status |-> write[c].status,
                                    parts |-> @.parts + 1]]
  /\ write' = [write EXCEPT ![c].st =
                 IF reply'[c].parts = RespLen THEN "ok" ELSE "pending"]
  /\ UNCHANGED <<accept, sock, read, request, wait, expired, lost, caught>>

(* The connection breaks. *)
WriteFails(c) ==
  /\ write[c].st = "pending"
  /\ write' = [write EXCEPT ![c].st = "error"]
  /\ lost' = lost \union {c}
  /\ UNCHANGED <<accept, sock, read, request, reply, wait, expired, caught>>

(* The 60 seconds of deadline_ are over. *)
Expire(c) ==
  /\ Alive(c)
  /\ ~expired[c]
  /\ expired' = [expired EXCEPT ![c] = TRUE]
  /\ wait' = [wait EXCEPT ![c] = IF @ = "pending" THEN "ok" ELSE @]
  /\ UNCHANGED <<accept, sock, read, request, write, reply, lost, caught>>

(* SIGINT or SIGTERM: the lambda in main stops the loop. *)
Signal ==
  /\ running' = FALSE
  /\ UNCHANGED <<accept, sock, read, request, write, reply, wait, expired, lost,
                 caught>>
-----------------------------------------------------------------------------
AcceptHandler == HandleAccept \/ HandleAcceptError \/ HandleAcceptThrows

ConnectionHandler(c) ==
  \/ HandleReq(c)
  \/ HandleReqThrows(c)
  \/ HandleReqAborts(c)
  \/ HandleReadError(c)
  \/ HandleWrite(c)
  \/ HandleDeadline(c)

Network(c) == RequestArrives(c) \/ ReadFails(c) \/ WriteSome(c) \/ WriteFails(c)

Next ==
  /\ running
  /\ \/ (AcceptCompletes \/ AcceptHandler) /\ UNCHANGED running
     \/ \E c \in Conn : ConnectionHandler(c)
     \/ \E c \in Conn : (Network(c) \/ Expire(c)) /\ UNCHANGED running
     \/ Signal

Spec == Init /\ [][Next]_vars

(* ioc.run() runs the handlers of a connection that are ready, and time    *)
(* passes.  Nothing is asked of TCP or the client: it may stop taking what *)
(* is sent.                                                                *)
Fairness ==
  \A c \in Conn :
     /\ WF_vars(running /\ (HandleReq(c) \/ HandleReqThrows(c)
                             \/ HandleReqAborts(c) \/ HandleReadError(c)))
     /\ WF_vars(running /\ HandleWrite(c))
     /\ WF_vars(running /\ HandleDeadline(c))
     /\ WF_vars(running /\ Expire(c) /\ UNCHANGED running)

FairSpec == Spec /\ Fairness
-----------------------------------------------------------------------------
(* Nothing more can be sent to the client of c. *)
Ended(c) == ~Alive(c) \/ sock[c] # "open"

Abstract == INSTANCE HttpService WITH ended <- [c \in Conn |-> Ended(c)]

(* Each client gets at most the one response its request asks for. *)
IsHttpService == Abstract!Spec

(* http_connection.cpp:23: while a response is being written, the deadline *)
(* is counting or about to close the socket, unless an exception came in   *)
(* between; while the request is being read it is not, so a client that    *)
(* never sends one is never cut off.                                       *)
DeadlineGuardsWrite ==
  \A c \in Conn :
     /\ write[c].st = "pending" => wait[c] # "idle" \/ c \in caught
     /\ read[c] # "idle" => wait[c] = "idle"

(* A GET that was read is answered in full before its connection ends,     *)
(* unless TCP gave up, the deadline passed or an exception was caught: a   *)
(* connection is never shut under a response that is still going out.      *)
AnswerIsWhole ==
  \A c \in Conn :
     (request[c].method = "get" /\ Ended(c)) =>
        reply[c].parts = RespLen \/ c \in lost \/ expired[c] \/ c \in caught

(* Once its request is read, a connection is released, whatever its client *)
(* does and however slowly it takes the response, for there is a deadline; *)
(* unless an exception came before it, or the whole server has stopped.    *)
ConnectionEnds ==
  \A c \in Conn : (read[c] = "ok") ~> (~Alive(c) \/ c \in caught \/ ~running)
=============================================================================
