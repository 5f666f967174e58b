------------------------------ MODULE CServer ------------------------------
(***************************************************************************)
(* The CServer class that asio/async/02 and 03 share: it accepts one       *)
(* connection after another and keeps a shared_ptr to every session in the *)
(* map sessions_, keyed by a random uuid that never collides.              *)
(*                                                                         *)
(* A session object exists as long as a shared_ptr to it does.  One is in  *)
(* the lambda of the outstanding async_accept and one in sessions_; what   *)
(* else owns a session depends on the lambdas of the session class.        *)
(***************************************************************************)
EXTENDS EchoSockets

VARIABLES
  accept,      (* the outstanding async_accept and the session it is for   *)
  sessions,    (* the sessions in the map sessions_                        *)
  running      (* FALSE once an exception has left ioc.run(): main catches *)
               (* it and returns                                           *)

serverVars == <<accept, sessions, running>>

Accepting(s) == [st |-> "pending", session |-> s]

ServerTypeOK ==
  /\ SockTypeOK
  /\ accept \in [st : {"pending", "ok", "error"}, session : Session]
  /\ sessions \subseteq Session
  /\ running \in BOOLEAN

(* CServer::CServer calls StartAccept, which makes the first session. *)
ServerInit ==
  /\ SockInit
  /\ \E s \in Session : accept = Accepting(s)
  /\ sessions = {}
  /\ running = TRUE

(* The server holds a shared_ptr to s. *)
ServerOwns(s) == s \in sessions \/ accept.session = s

HasHandler(s) == read[s].st # "idle" \/ write[s].st # "idle"

(* A client connects, or the accept fails.  Bound: only while an address   *)
(* is left for the next session object.                                    *)
AcceptCompletes(free) ==
  /\ running
  /\ accept.st = "pending"
  /\ free # {}
  /\ \E st \in {"ok", "error"} : accept' = [accept EXCEPT !.st = st]
  /\ UNCHANGED <<sockVars, sessions, running>>

(* StartAccept: make_shared<CSession> at t, async_accept into its socket.  *)
(* readNow is what the rest of the handler made of read.  The session of   *)
(* the last accept still exists, so t is another address.                  *)
StartAccept(t, readNow) ==
  /\ accept' = Accepting(t)
  /\ data' = [data EXCEPT ![t] = Cleared]
  /\ read' = [readNow EXCEPT ![t] = NoRead]
  /\ write' = [write EXCEPT ![t] = NoWrite]
  /\ received' = [received EXCEPT ![t] = 0]
  /\ echoed' = [echoed EXCEPT ![t] = <<>>]

(* HandleAccept without error: Start() the session, put it in sessions_,   *)
(* and accept the next one.                                                *)
HandleAcceptForgets(t) ==
  /\ running
  /\ accept.st = "ok"
  /\ sessions' = sessions
  /\ StartAccept(t, [read EXCEPT ![accept.session] = Reading])
  /\ UNCHANGED running
HandleAccept(t) ==
  /\ running
  /\ accept.st = "ok"
  /\ sessions' = sessions \union {accept.session}
  /\ StartAccept(t, [read EXCEPT ![accept.session] = Reading])
  /\ UNCHANGED running

(* HandleAccept with an error: accept the next one. *)
HandleAcceptError(t) ==
  /\ running
  /\ accept.st = "error"
  /\ StartAccept(t, read)
  /\ UNCHANGED <<sessions, running>>

(* ClearSession: erase s from sessions_. *)
ClearSessionNothing(s) == sessions' = sessions
ClearSession(s) == sessions' = sessions \ {s}
=============================================================================
