---------------------------- MODULE EchoSockets ----------------------------
(***************************************************************************)
(* What the asynchronous echo servers (asio/async/01, 02, 03) stand on:    *)
(* the data_ array of each session object and the outstanding operations   *)
(* on its socket.  Boost.Asio and TCP are outside the repository; they are *)
(* modelled as the servers use them.                                       *)
(*                                                                         *)
(* An asynchronous operation is started by a handler, makes progress while *)
(* no handler runs, and completes with success or an error.  Its handler   *)
(* then waits until ioc.run() gets to it: between the completion and the   *)
(* handler other handlers may run.  The buffer an operation was given is   *)
(* read, or written, when the operation makes progress, not when it is     *)
(* started.  main() calls ioc.run() on one thread, so a handler is one     *)
(* step; Asio promises no order between handlers of different operations.  *)
(***************************************************************************)
EXTENDS Integers, Sequences

CONSTANTS
  Session,     (* addresses a session object can be allocated at           *)
  BufLen,      (* max_length, the size of data_                            *)
  MaxBytes     (* bound: how many bytes one client ever sends              *)

ASSUME BufLenAssumption == BufLen \in Nat \ {0}
ASSUME MaxBytesAssumption == MaxBytes \in Nat

VARIABLES
  data,        (* data[s]: the array data_                                 *)
  read,        (* read[s]: the async_read_some outstanding on the socket   *)
  write,       (* write[s]: the async_write outstanding on the socket      *)
  received,    (* received[s]: number of bytes taken from the client       *)
  echoed       (* echoed[s]: bytes handed to TCP for the client            *)

sockVars == <<data, read, write, received, echoed>>

(* The i-th byte of a client is i; 0 is the byte memset writes. *)
Byte == Nat

(* "ok" and "error": complete, the handler is queued. *)
OpState == {"idle", "pending", "ok", "error"}

NoRead == [st |-> "idle", len |-> 0]
Reading == [st |-> "pending", len |-> 0]
NoWrite == [st |-> "idle", len |-> 0, done |-> 0]

(* async_write of len bytes; an empty buffer completes at once. *)
Writing(len) == [st |-> IF len = 0 THEN "ok" ELSE "pending",
                 len |-> len, done |-> 0]

(* The write after n more of its bytes went out. *)
Sent(w, n) == [w EXCEPT !.done = @ + n,
                        !.st = IF w.done + n = w.len THEN "ok" ELSE "pending"]

(* Closing a socket completes what is pending on it with operation_aborted. *)
Aborted(op) == [op EXCEPT !.st = IF @ = "pending" THEN "error" ELSE @]

(* data_ of a new object, and after memset(data_, 0, max_length). *)
Cleared == [i \in 1..BufLen |-> 0]

(* n bytes of content after the first skip ones. *)
Slice(content, skip, n) == [i \in 1..n |-> content[skip + i]]

SockTypeOK ==
  /\ data \in [Session -> [1..BufLen -> Byte]]
  /\ read \in [Session -> [st : OpState, len : 0..BufLen]]
  /\ write \in [Session -> [st : OpState, len : Nat, done : Nat]]
  /\ received \in [Session -> 0..MaxBytes]
  /\ echoed \in [Session -> Seq(Byte)]

SockInit ==
  /\ data = [s \in Session |-> Cleared]
  /\ read = [s \in Session |-> NoRead]
  /\ write = [s \in Session |-> NoWrite]
  /\ received = [s \in Session |-> 0]
  /\ echoed = [s \in Session |-> <<>>]
-----------------------------------------------------------------------------
(* How much async_read_some(buffer(data_, max_length)) may deliver. *)
ReadSizesOverrun == 1..(BufLen + 1)
ReadSizes == 1..BufLen

(* Bytes arrive and are copied to the front of data_. *)
ReadSome(s) ==
  /\ read[s].st = "pending"
  /\ \E n \in ReadSizes :
       /\ received[s] + n <= MaxBytes
       /\ data' = [data EXCEPT ![s] =
                     [i \in 1..BufLen |->
                        IF i <= n THEN received[s] + i ELSE data[s][i]]]
       /\ received' = [received EXCEPT ![s] = @ + n]
       /\ read' = [read EXCEPT ![s] = [st |-> "ok", len |-> n]]
  /\ UNCHANGED <<write, echoed>>

(* The client closes (eof) or the connection breaks. *)
ReadFails(s) ==
  /\ read[s].st = "pending"
  /\ read' = [read EXCEPT ![s].st = "error"]
  /\ UNCHANGED <<data, write, received, echoed>>

(* TCP takes some more bytes of the buffer the write was given. *)
WriteSome(s, content) ==
  /\ write[s].st = "pending"
  /\ \E n \in 1..(write[s].len - write[s].done) :
       /\ echoed' = [echoed EXCEPT ![s] =
                       @ \o Slice(content, write[s].done, n)]
       /\ write' = [write EXCEPT ![s] = Sent(@, n)]
  /\ UNCHANGED <<data, read, received>>

(* The connection breaks, at any point of the write. *)
WriteFails(s) ==
  /\ write[s].st = "pending"
  /\ write' = [write EXCEPT ![s].st = "error"]
  /\ UNCHANGED <<data, read, received, echoed>>
-----------------------------------------------------------------------------
(* What HandleRead prints is only what it was given: past the bytes of the *)
(* completed read, data_ is zero, so no byte of an earlier, longer message *)
(* is still there (the memset before each async_read_some).                *)
NoStaleTail ==
  \A s \in Session :
     read[s].st = "ok" => \A i \in (read[s].len + 1)..BufLen : data[s][i] = 0
=============================================================================
