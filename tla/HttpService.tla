---------------------------- MODULE HttpService ----------------------------
(***************************************************************************)
(* What the HTTP server promises on one connection: nothing is sent before *)
(* a whole request is read, a GET is answered with the status its url      *)
(* deserves, at most once, another method is not answered, and after the   *)
(* end of the connection nothing is sent.  A connection may end any time.  *)
(***************************************************************************)
EXTENDS Integers

CONSTANTS
  Conn,        (* connections, one client after another                    *)
  Requests,    (* the requests a client may send                           *)
  RespLen      (* parts a response goes out in                             *)

VARIABLES
  request,     (* request[c]: the request read, or NoRequest               *)
  reply,       (* reply[c]: status and number of parts sent to the client  *)
  ended        (* ended[c]: nothing more will be sent                      *)

serviceVars == <<request, reply, ended>>

NoRequest == [method |-> "none", url |-> "none", query |-> "none"]
NoReply == [status |-> 0, parts |-> 0]

Init ==
  /\ request = [c \in Conn |-> NoRequest]
  /\ reply = [c \in Conn |-> NoReply]
  /\ ended = [c \in Conn |-> TRUE]

Accept(c) ==
  /\ ended[c]
  /\ request' = [request EXCEPT ![c] = NoRequest]
  /\ reply' = [reply EXCEPT ![c] = NoReply]
  /\ ended' = [ended EXCEPT ![c] = FALSE]

Take(c) ==
  /\ ~ended[c]
  /\ request[c] = NoRequest
  /\ \E r \in Requests : request' = [request EXCEPT ![c] = r]
  /\ UNCHANGED <<reply, ended>>

Answer(c) ==
  /\ ~ended[c]
  /\ request[c].method = "get"
  /\ reply[c].parts < RespLen
  /\ reply' = [reply EXCEPT
        ![c] = [status |-> IF request[c].url = "known" THEN 200 ELSE 404,
                parts |-> @.parts + 1]]
  /\ UNCHANGED <<request, ended>>

End(c) ==
  /\ ended' = [ended EXCEPT ![c] = TRUE]
  /\ UNCHANGED <<request, reply>>

Next == \E c \in Conn : Accept(c) \/ Take(c) \/ Answer(c) \/ End(c)

Spec == Init /\ [][Next]_serviceVars
=============================================================================
