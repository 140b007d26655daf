-------------------------------- MODULE Url --------------------------------
(***************************************************************************)
(* libavformat/avio.c: the loop by which ffurl_read and                    *)
(* ffurl_read_complete retry the url_read of a protocol.  A protocol       *)
(* answers with data, the end, an error, or, as url.h asks it to, with     *)
(* EAGAIN when nothing came for a while; interrupts, retries and the       *)
(* time-out are left to this loop.                                         *)
(*                                                                         *)
(* What the caller does between two calls of url_read is one step.  A read *)
(* is counted, not stored: which bytes it returns is up to the protocol.   *)
(***************************************************************************)
EXTENDS Integers

CONSTANTS
  UrlOptions,   \* how URLs are opened
  MaxSize       \* bound: bytes asked for by a read

(* prot is h->prot, nonblock is AVIO_FLAG_NONBLOCK and rw_timeout tells    *)
(* whether it is set.  The others are options of the protocols:            *)
(* fifo_size of udp (is there a circular buffer?) and overrun_nonfatal,    *)
(* and timeout of smb (is it set?).                                        *)
UrlOption == [prot : {"async", "udp", "smb"}, nonblock : BOOLEAN, rw_timeout : BOOLEAN,
              fifo : BOOLEAN, overrun_nonfatal : BOOLEAN, timeout : BOOLEAN]

ASSUME UrlAssumption == UrlOptions \subseteq UrlOption /\ MaxSize \in Nat \ {0}

VARIABLE h   \* URLContext, and the call that its user has made

FAST_RETRIES == 5

Ret(kind, count) == [kind |-> kind, count |-> count]

NoCall == [pc |-> "idle", size |-> 0, size_min |-> 0, len |-> 0, fast_retries |-> 0,
           wait_since |-> "unset"]

(* asked, ended and handed are history: how many bytes the call is to      *)
(* return at least, whether the protocol has said, in this call, that it   *)
(* is at its end, and how many bytes it has handed over.                   *)
UrlInit(o) == h = [o |-> o, call |-> NoCall, ret |-> Ret("none", 0),
                   asked |-> 0, ended |-> FALSE, handed |-> 0]

UrlIdle == h.call.pc = "idle"
UrlReturn(ret) == h' = [h EXCEPT !.call = NoCall, !.ret = ret]

(* Another call (ffurl_seek, ffurl_close), which goes straight to the protocol. *)
UrlOther == UrlIdle /\ h' = [h EXCEPT !.ret = Ret("none", 0), !.asked = 0,
                                       !.ended = FALSE, !.handed = 0]

(* ffurl_read (size_min = 1) and ffurl_read_complete (size_min = size). *)
UrlRead(size, size_min) ==
  /\ UrlIdle
  /\ h' = [h EXCEPT !.call = [NoCall EXCEPT !.pc = "loop", !.size = size, !.size_min = size_min,
                                            !.fast_retries = FAST_RETRIES],
                    !.ret = Ret("none", 0), !.asked = size_min, !.ended = FALSE, !.handed = 0]

(* The top of the loop, up to the call of url_read. *)
UrlLoop(stop) ==
  /\ h.call.pc = "loop"
  /\ IF stop THEN UrlReturn(Ret("EXIT", 0)) ELSE h' = [h EXCEPT !.call.pc = "transfer"]

UrlTransfers(prot) == h.o.prot = prot /\ h.call.pc = "transfer"
UrlRoom == h.call.size - h.call.len

(* EAGAIN: a few retries at once; then the first starts the clock, and one *)
(* that comes when rw_timeout has passed gives up.                         *)
Retry ==
  LET c == h.call IN
  IF c.fast_retries > 0
  THEN h' = [h EXCEPT !.call.pc = "loop", !.call.fast_retries = @ - 1]
  ELSE IF h.o.rw_timeout /\ c.wait_since = "expired"
  THEN UrlReturn(Ret("EIO", 0))
  ELSE h' = [h EXCEPT !.call.pc = "loop",
                      !.call.wait_since = IF h.o.rw_timeout /\ @ = "unset" THEN "set" ELSE @]

(* Mutant of Advance: any bytes at all end the read. *)
AdvanceOnce(n) ==
  LET len == h.call.len + n IN
  h' = [h EXCEPT !.handed = @ + n,
                 !.call = IF len = 0 THEN [@ EXCEPT !.pc = "loop"] ELSE NoCall,
                 !.ret = IF len = 0 THEN @ ELSE Ret("data", len)]

(* Bytes have come; a read of no bytes leaves the retries as they are. *)
Advance(n) ==
  LET len == h.call.len + n
      c == IF n = 0 THEN h.call
           ELSE [h.call EXCEPT !.wait_since = "unset",
                               !.fast_retries = IF @ > 2 THEN @ ELSE 2]
  IN h' = [h EXCEPT !.handed = @ + n,
                    !.call = IF len < c.size_min THEN [c EXCEPT !.pc = "loop", !.len = len] ELSE NoCall,
                    !.ret = IF len < c.size_min THEN @ ELSE Ret("data", len)]

AtEnd == h' = [h EXCEPT !.call = NoCall, !.ended = TRUE,
                        !.ret = IF h.call.len > 0 THEN Ret("data", h.call.len) ELSE Ret("EOF", 0)]

(* url_read has returned ret. *)
UrlTransferred(ret) ==
  CASE ret.kind = "EINTR" -> h' = [h EXCEPT !.call.pc = "loop"]
    [] ret.kind # "EINTR" /\ h.o.nonblock ->
         h' = [h EXCEPT !.call = NoCall, !.ret = ret, !.handed = @ + ret.count,
                        !.ended = ret.kind = "EOF"]
    [] ret.kind = "EAGAIN" /\ ~h.o.nonblock -> Retry
    [] ret.kind = "EOF" /\ ~h.o.nonblock -> AtEnd
    [] ret.kind = "data" /\ ~h.o.nonblock -> Advance(ret.count)
    [] OTHER -> UrlReturn(ret)

(* rw_timeout passes: av_gettime_relative() > wait_since + rw_timeout. *)
TimeoutPasses == h.call.wait_since = "set" /\ h' = [h EXCEPT !.call.wait_since = "expired"]
-----------------------------------------------------------------------------
(* A read that returns data returns all the bytes the protocol has handed  *)
(* over, those before the end included, and fewer than it was to return at *)
(* least only if the protocol has come to its end, or the caller asked not *)
(* to wait.  Nor is there an end of file as long as there are bytes to     *)
(* return.                                                                 *)
ShortOnlyAtEnd ==
  UrlIdle /\ h.ret.kind \in {"data", "EOF"} =>
    /\ h.ret.count = h.handed
    /\ h.ret.count < h.asked => h.ended \/ h.o.nonblock
    /\ h.ret.kind = "EOF" => h.ended
=============================================================================
