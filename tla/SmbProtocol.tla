---------------------------- MODULE SmbProtocol ----------------------------
(***************************************************************************)
(* libavformat/libsmb2.c, reading a file: every operation sends a request  *)
(* with libsmb2 and then polls in wait_for_reply until its callback has    *)
(* run.  The callbacks run inside smb2_service, on the same thread, in the *)
(* order in which the replies come.  libsmb2 and the server are external.  *)
(***************************************************************************)
EXTENDS Url, Sequences

CONSTANT MaxRequests   \* bound: requests that are sent before the file is closed

ASSUME SmbAssumption == MaxRequests \in Nat

VARIABLES
  s,        \* LIBSMB2Context, the operation under way, and whether it waits
  requests, \* the requests without a reply; history: how many there were
  gaveUp    \* history: an operation has ended without its reply

smb == <<s, requests, gaveUp>>

SmbInit ==
  /\ s = [op |-> "connect", pc |-> "send", status |-> 0, is_finished |-> FALSE,
          fh |-> FALSE, connected |-> FALSE, bytes_read |-> [of |-> 0, n |-> 0], returned |-> [by |-> 0, of |-> 0]]
  /\ requests = [pending |-> <<>>, sent |-> 0]
  /\ gaveUp = FALSE

(* libsmb2_close: close the file, then the connection, if there is one. *)
Closing(c) == CASE c.fh -> "close" [] ~c.fh /\ c.connected -> "disconnect" [] OTHER -> "closed"

(* What an operation does when its reply has come.  For read it is the     *)
(* return of libsmb2_read.                                                 *)
SmbSucceeds(c) ==
  CASE c.op = "connect" -> [c EXCEPT !.connected = TRUE, !.op = "open"]
    [] c.op = "open" -> [c EXCEPT !.op = "fstat"]
    [] c.op = "fstat" -> [c EXCEPT !.op = "ready"]
    [] c.op = "read" -> [c EXCEPT !.op = "ready", 
                                !.returned = [by |-> requests.sent, of |-> c.bytes_read.of]]
    [] c.op = "close" -> [c EXCEPT !.op = Closing([c EXCEPT !.fh = FALSE]), !.fh = FALSE]
    [] c.op = "disconnect" -> [c EXCEPT !.op = "closed", !.connected = FALSE]

(* A failure closes the file when it was being opened; a failed close goes *)
(* on with the next step.                                                  *)
SmbFails(c) ==
  CASE c.op = "read" -> [c EXCEPT !.op = "ready"]
    [] c.op \in {"connect", "open", "fstat"} -> [c EXCEPT !.op = Closing(c)]
    [] OTHER -> SmbSucceeds(c)

(* The operation ends; a read returns to the retry loop. *)
SmbEnds(c, ret) ==
  /\ s' = [c EXCEPT !.pc = "send"]
  /\ IF s.op = "read" THEN UrlTransferred(ret) ELSE UNCHANGED h

(* It ends with an error, perhaps before its reply has come. *)
SmbErrs(ret) ==
  /\ SmbEnds(SmbFails(s), ret)
  /\ gaveUp' = (gaveUp \/ requests.pending # <<>>)
  /\ UNCHANGED requests

SmbStart ==
  /\ UrlTransfers("smb") /\ s.op = "ready"
  /\ s' = [s EXCEPT !.op = "read"]
  /\ UNCHANGED <<h, requests, gaveUp>>

(* Mutant of Waiting: what the last operation left is not reset. *)
WaitingStill(c) == [c EXCEPT !.pc = "wait"]

(* The start of wait_for_reply. *)
Waiting(c) == [c EXCEPT !.pc = "wait", !.is_finished = FALSE]

InOperation == s.op \notin {"ready", "closed"}

(* smb2_..._async queues a request or fails; libsmb2_close waits anyway. *)
SmbSend ==
  LET request == [op |-> s.op, no |-> requests.sent + 1,
                  size |-> IF s.op = "read" THEN UrlRoom ELSE 0]
  IN
  /\ InOperation /\ s.pc = "send"
  /\ \/ /\ requests' = [pending |-> Append(requests.pending, request), sent |-> request.no]
        /\ s' = Waiting(s) /\ UNCHANGED <<h, gaveUp>>
     \/ /\ s.op \in {"close", "disconnect"}
        /\ s' = Waiting(s) /\ UNCHANGED <<h, gaveUp, requests>>
     \/ /\ s.op \notin {"close", "disconnect"}
        /\ SmbErrs(Ret("EIO", 0))

(* The reply to the first request: the callback notes an error for good,   *)
(* or that a reply has come, and its data.                                 *)
Callback(c, request, reply) ==
  IF reply < 0 THEN [c EXCEPT !.status = reply]
  ELSE [c EXCEPT !.is_finished = TRUE,
                 !.fh = @ \/ request.op = "open",
                 !.bytes_read = IF request.op = "read" THEN [of |-> request.no, n |-> reply] ELSE @]

(* wait_for_reply goes around: poll says that something came, and          *)
(* smb2_service runs the callbacks of one reply or more, ...               *)
SmbService ==
  /\ s.pc \in {"wait", "service"} /\ requests.pending # <<>>
  /\ s.pc = "wait" => s.status = 0 /\ ~s.is_finished
  /\ LET request == Head(requests.pending) IN
     \E reply \in -1 .. request.size :
       s' = [Callback(s, request, reply) EXCEPT !.pc = "service"]
  /\ requests' = [requests EXCEPT !.pending = Tail(@)]
  /\ UNCHANGED <<h, gaveUp>>

SmbServed ==
  /\ s.pc = "service" /\ s' = [s EXCEPT !.pc = "wait"]
  /\ UNCHANGED <<h, requests, gaveUp>>

Unanswered == s.pc = "wait" /\ s.status = 0 /\ ~s.is_finished

(* ... or poll or smb2_service fail, the latter perhaps after a callback, ... *)
SmbBreaks == (Unanswered \/ s.pc = "service") /\ SmbErrs(Ret("EIO", 0))

(* ... or the time is over, ... *)
SmbTimesOut == Unanswered /\ h.o.timeout /\ SmbErrs(Ret("ETIMEDOUT", 0))

(* ... or the loop has ended. *)
SmbReply ==
  /\ s.pc = "wait"
  /\ \/ s.status # 0 /\ SmbErrs(Ret("EIO", 0))
     \/ /\ s.status = 0 /\ s.is_finished
        /\ SmbEnds(SmbSucceeds(s), IF s.bytes_read.n > 0 THEN Ret("data", s.bytes_read.n)
                                   ELSE Ret("EOF", 0))
        /\ UNCHANGED <<requests, gaveUp>>

(* libsmb2_close, by the user. *)
SmbClose ==
  /\ UrlOther /\ s.op = "ready"
  /\ s' = [s EXCEPT !.op = Closing(s)]
  /\ UNCHANGED <<requests, gaveUp>>

SmbStep == SmbStart \/ SmbSend \/ SmbServed \/ SmbTimesOut \/ SmbReply
-----------------------------------------------------------------------------
(* A read that returns data returns that of its own reply, and a file is   *)
(* opened on a connection, unless an operation has ended before its reply  *)
(* (see there): the flag and the number by which callbacks answer are      *)
(* shared by all operations.                                               *)
OwnReply ==
  ~gaveUp => /\ s.returned.by = s.returned.of
             /\ s.op \in {"ready", "read"} => s.connected /\ s.fh
             /\ s.op \in {"ready", "closed"} => requests.pending = <<>>
=============================================================================
