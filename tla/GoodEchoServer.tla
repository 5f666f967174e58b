--------------------------- MODULE GoodEchoServer --------------------------
(***************************************************************************)
(* asio/async/02_good_echo_server: the session of 01, now owned by         *)
(* shared_ptrs.  After the first read, the lambda of the one outstanding   *)
(* operation holds self_shared; the lambda in Start holds only `this` and  *)
(* makes self_shared when it runs, with shared_from_this().                *)
(*                                                                         *)
(* shared_from_this() works only if make_shared found a public base class  *)
(* enable_shared_from_this.  session.h:13 derives from it privately, so as *)
(* built publicBase is FALSE and the call throws std::bad_weak_ptr out of  *)
(* ioc.run().  With publicBase TRUE (the one word 03 adds) the module says *)
(* what the handlers do when the call succeeds.                            *)
(***************************************************************************)
EXTENDS CServer

CONSTANT
  PublicBases  (* the builds: is enable_shared_from_this a public base     *)

ASSUME PublicBasesAssumption == PublicBases \subseteq BOOLEAN

VARIABLES
  publicBase,  (* which of them runs                                       *)
  self         (* self[s]: the operations whose lambda holds self_shared   *)

vars == <<sockVars, serverVars, self, publicBase>>

TypeOK ==
  /\ ServerTypeOK
  /\ publicBase \in PublicBases
  /\ self \in [Session -> SUBSET {"read", "write"}]

Init ==
  /\ ServerInit
  /\ publicBase \in PublicBases
  /\ self = [s \in Session |-> {}]

(* A shared_ptr to s exists: the object does. *)
Alive(s) == ServerOwns(s) \/ self[s] # {}

Free == {s \in Session : ~Alive(s) /\ ~HasHandler(s)}
-----------------------------------------------------------------------------
Accept ==
  \/ AcceptCompletes(Free) /\ UNCHANGED self
  \/ \E t \in Free : (HandleAccept(t) \/ HandleAcceptError(t)) /\ UNCHANGED self

(* HandleRead's third argument is a shared_ptr: the lambda has it, or      *)
(* shared_from_this() makes it.                                            *)
GetsSharedAlways(s) == TRUE
GetsShared(s) == "read" \in self[s] \/ publicBase

(* The read lambda throws std::bad_weak_ptr. *)
ReadThrows(s) ==
  /\ running
  /\ read[s].st \in {"ok", "error"}
  /\ ~GetsShared(s)
  /\ running' = FALSE
  /\ UNCHANGED <<sockVars, accept, sessions, self>>

(* HandleRead without error: async_write what was read; the lambda holds   *)
(* self_shared.                                                            *)
HandleReadWholeBuffer(s) ==
  /\ running
  /\ read[s].st = "ok"
  /\ GetsShared(s)
  /\ write' = [write EXCEPT ![s] = Writing(BufLen)]
  /\ read' = [read EXCEPT ![s] = NoRead]
  /\ self' = [self EXCEPT ![s] = {"write"}]
  /\ UNCHANGED <<data, received, echoed, serverVars>>
HandleReadDrops(s) ==
  /\ running
  /\ read[s].st = "ok"
  /\ GetsShared(s)
  /\ read' = [read EXCEPT ![s] = Reading]
  /\ self' = [self EXCEPT ![s] = {"read"}]
  /\ UNCHANGED <<data, write, received, echoed, serverVars>>
HandleRead(s) ==
  /\ running
  /\ read[s].st = "ok"
  /\ GetsShared(s)
  /\ write' = [write EXCEPT ![s] = Writing(read[s].len)]
  /\ read' = [read EXCEPT ![s] = NoRead]
  /\ self' = [self EXCEPT ![s] = {"write"}]
  /\ UNCHANGED <<data, received, echoed, serverVars>>

(* HandleRead with an error: ClearSession. *)
HandleReadError(s) ==
  /\ running
  /\ read[s].st = "error"
  /\ GetsShared(s)
  /\ ClearSession(s)
  /\ read' = [read EXCEPT ![s] = NoRead]
  /\ self' = [self EXCEPT ![s] = {}]
  /\ UNCHANGED <<data, write, received, echoed, accept, running>>

(* HandleWrite without error: memset data_, read again. *)
HandleWriteNoMemset(s) ==
  /\ running
  /\ write[s].st = "ok"
  /\ write' = [write EXCEPT ![s] = NoWrite]
  /\ read' = [read EXCEPT ![s] = Reading]
  /\ self' = [self EXCEPT ![s] = {"read"}]
  /\ UNCHANGED <<data, received, echoed, serverVars>>
HandleWrite(s) ==
  /\ running
  /\ write[s].st = "ok"
  /\ data' = [data EXCEPT ![s] = Cleared]
  /\ write' = [write EXCEPT ![s] = NoWrite]
  /\ read' = [read EXCEPT ![s] = Reading]
  /\ self' = [self EXCEPT ![s] = {"read"}]
  /\ UNCHANGED <<received, echoed, serverVars>>

(* HandleWrite with an error: ClearSession. *)
HandleWriteError(s) ==
  /\ running
  /\ write[s].st = "error"
  /\ ClearSession(s)
  /\ write' = [write EXCEPT ![s] = NoWrite]
  /\ self' = [self EXCEPT ![s] = {}]
  /\ UNCHANGED <<data, read, received, echoed, accept, running>>
-----------------------------------------------------------------------------
Network(s) ==
  /\ running
  /\ \/ ReadSome(s)
     \/ ReadFails(s)
     \/ WriteSome(s, data[s])
     \/ WriteFails(s)
  /\ UNCHANGED <<serverVars, self>>

SessionHandler(s) ==
  \/ ReadThrows(s)
  \/ HandleRead(s)
  \/ HandleReadError(s)
  \/ HandleWrite(s)
  \/ HandleWriteError(s)

Next ==
  /\ Accept \/ \E s \in Session : Network(s) \/ SessionHandler(s)
  /\ UNCHANGED publicBase

Spec == Init /\ [][Next]_vars

(* ioc.run() runs the handler of every completed operation; TCP moves the  *)
(* bytes of a write or reports a failure.                                  *)
Fairness ==
  \A s \in Session :
     /\ WF_vars(SessionHandler(s) /\ UNCHANGED publicBase)
     /\ WF_vars(running /\ (WriteSome(s, data[s]) \/ WriteFails(s))
                /\ UNCHANGED <<serverVars, self, publicBase>>)

FairSpec == Spec /\ Fairness
-----------------------------------------------------------------------------
Abstract == INSTANCE EchoService

(* No lambda waits to run on a session that no longer exists: what the     *)
(* lambda in Start, with its bare `this`, owes to sessions_, and the       *)
(* others to their self_shared.                                            *)
NoDanglingHandler == \A s \in Session : HasHandler(s) => Alive(s)

(* sessions_ holds exactly the sessions being served, and each has exactly *)
(* one outstanding operation: no entry is left behind for a dead           *)
(* connection, and no connection is served that ClearSession forgot.       *)
SessionsAreServed ==
  \A s \in Session :
     /\ s \in sessions <=> HasHandler(s)
     /\ read[s].st = "idle" \/ write[s].st = "idle"

(* The handlers implement the abstract echo service. *)
IsEchoService == Abstract!Spec

(* When shared_from_this() works: every byte taken from a client is sent   *)
(* back, unless the session ends.                                          *)
EveryByteAnswered ==
  \A s \in Session : \A n \in 1..MaxBytes :
     (publicBase /\ s \in sessions /\ received[s] >= n)
        ~> (s \notin sessions \/ Len(echoed[s]) >= n)

(* As built: whichever session is the first to receive data, or to lose    *)
(* its client, ends the server for every client.                           *)
FirstReadEndsServer ==
  \A s \in Session : (~publicBase /\ read[s].st \in {"ok", "error"}) ~> ~running

(* session.cpp:18-19 and 29-30: data that arrives is handed to HandleRead, *)
(* which sends it back.                                                    *)
ArrivedDataIsHandled ==
  \A s \in Session : (read[s].st = "ok") ~> (write[s].st # "idle")
=============================================================================
