------------------------- MODULE UrlProtocolsProofs -------------------------
(***************************************************************************)
(* Theorems about UrlProtocols for resources, rings and datagrams of any   *)
(* size and any set of URLs: what async keeps in its ring, that it is a    *)
(* stream of bytes, what the retry loop returns, whose replies smb takes,  *)
(* and that udp hands over whole datagrams in order.                       *)
(***************************************************************************)
EXTENDS UrlProtocols, FiniteSetTheorems, SequenceTheorems, TLAPS

(* async.  Its thread is at the top of the loop, or fills the ring, with   *)
(* or without success.                                                     *)
Filling == {"fill", "filled", "EOF", "EIO", "EXIT"}
Results == [kind : {"none", "data", "EOF", "error", "at"}, first : Int, count : Nat]

FlagsOK ==
  c \in [seek_request : BOOLEAN, seek_pos : Int, seek_completed : BOOLEAN, seek_ret : Int,
         io_error : {"none", "EOF", "EIO", "EXIT"}, io_eof_reached : BOOLEAN,
         logical_pos : Int, abort_request : BOOLEAN]
MainOK ==
  m \in [pc : {"user", "reading", "seek", "seeking", "join", "closed"},
         call : {"none", "read", "seek", "close"}, target : Nat, to_read : Int, seen : Int,
         result : Results]
AsyncTypeOK ==
  /\ ring \in [data : Seq(Int), read_pos : Int]
  /\ FlagsOK /\ MainOK
  /\ b \in Filling \cup {"top", "dead"}
  /\ inner_pos \in 0 .. Size

(* The call under way.  A read that skips what a seek forwards leaps over  *)
(* has as far to go as the seek.                                           *)
CallInv ==
  /\ m.pc = "user" => m.call = "none" /\ m.target = 0
  /\ m.pc \in {"seek", "seeking"} => m.call = "seek"
  /\ m.pc = "reading" => m.call \in {"read", "seek"}
  /\ m.pc = "reading" /\ m.call = "seek" => m.target = c.logical_pos + m.to_read /\ m.to_read > 0
  /\ m.result.kind = "EOF" => m.result.count = 0

(* A request to seek is that of the call under way, until it is answered   *)
(* or the protocol is aborted.                                             *)
SeekInv ==
  ~c.abort_request =>
    /\ c.seek_request => m.pc = "seeking" /\ ~c.seek_completed
    /\ m.pc = "seeking" => c.seek_pos = m.target /\ c.seek_pos \in 0 .. Size
    /\ m.pc = "seeking" /\ c.seek_completed => c.seek_ret \in {m.target, -1}

(* The end of the file is where the inner protocol is. *)
EofInv ==
  /\ b \in Filling => ~c.io_eof_reached
  /\ b = "EOF" => inner_pos = Size
  /\ c.io_eof_reached => c.io_error # "none"
  /\ c.io_eof_reached /\ c.io_error = "EOF" => inner_pos = Size

AsyncInv == AsyncTypeOK /\ CallInv /\ SeekInv /\ EofInv /\ DataAtPosition

(* The retry loop.  What the protocol has handed over in this call is what *)
(* the loop has counted.                                                   *)
RetKinds == {"none", "data", "EOF", "EIO", "EINTR", "EAGAIN", "EXIT", "ETIMEDOUT", "error", "at"}
Calls == [pc : {"idle", "loop", "transfer", "transferring"}, size : Int, size_min : Int,
          len : Nat, fast_retries : Int, wait_since : {"unset", "set", "expired"}]
Rets == [kind : RetKinds, count : Int]
LoopInv ==
  /\ h \in [o : UrlOption, call : Calls, ret : Rets, asked : Int, ended : BOOLEAN, handed : Int]
  /\ UrlIdle => h.call.len = 0
  /\ ~UrlIdle => h.handed = h.call.len /\ h.call.len < h.call.size_min
                 /\ h.call.size_min <= h.call.size /\ h.asked = h.call.size_min
  /\ h.o.nonblock => h.call.len = 0
  /\ ShortOnlyAtEnd

(* udp and smb serve a read while the loop waits for them. *)
Serving ==
  /\ reader.pc # "user" => h.call.pc = "transfer" /\ Using("udp") /\ h.o.fifo
  /\ s.op = "read" => h.call.pc = "transfer" /\ Using("smb")

(* udp: whatever is read as the length is a number. *)
Byte == Int \X Int
Fifos == [buffer : [0 .. FifoBytes - 1 -> Byte], wptr : Int, rptr : Int, wndx : Int, rndx : Int]
UdpTypeOK ==
  /\ fifo \in Fifos
  /\ t \in [pc : {"loop", "recv", "store", "end", "dead"}, left : Int, len : Nat]
  /\ reader \in [pc : {"user", "lock", "header", "data", "drain"}, tmp : Int, buf : Seq(Byte)]
  /\ circular_buffer_error \in {"none", "EIO", "EINTR"}
  /\ net \in [datagrams : Int, signals : Int]

(* smb, until an operation gives up: at most the request of the operation  *)
(* under way is without a reply, and what the flag and the number say is   *)
(* about that request.                                                     *)
Operations == {"connect", "open", "fstat", "ready", "read", "close", "disconnect", "closed"}
Contexts == [op : Operations, pc : {"send", "wait", "service"}, status : Int, is_finished : BOOLEAN,
             fh : BOOLEAN, connected : BOOLEAN, bytes_read : [of : Int, n : Int],
             returned : [by : Int, of : Int]]
Requests == [op : Operations, no : Int, size : Int]
SmbTypeOK ==
  /\ s \in Contexts /\ requests \in [pending : Seq(Requests), sent : Int] /\ gaveUp \in BOOLEAN
  /\ s.op \in {"ready", "closed"} => s.pc = "send"

RequestInv ==
  LET pending == requests.pending IN
  /\ s.pc = "send" => pending = <<>>
  /\ pending # <<>> => /\ Len(pending) = 1 /\ ~s.is_finished
                       /\ pending[1].op = s.op /\ pending[1].no = requests.sent
  /\ s.is_finished /\ s.pc # "send" => /\ s.op = "open" => s.fh
                                       /\ s.op = "read" => s.bytes_read.of = requests.sent

(* A file is open on a connection, in the operations that need them. *)
FileInv ==
  /\ s.returned.by = s.returned.of
  /\ s.op \notin {"connect", "closed"} => s.connected
  /\ s.op \in {"fstat", "ready", "read"} => s.fh
  /\ s.fh => s.connected /\ s.op # "disconnect"

SmbInv == SmbTypeOK /\ (~gaveUp => RequestInv /\ FileInv)
-----------------------------------------------------------------------------
LEMMA Numbers ==
  /\ Size \in Nat /\ Short \in Nat /\ ReadBack \in Nat /\ Capacity \in Nat /\ Capacity > 0
  /\ Chunk \in Nat /\ Chunk > 0 /\ MaxSize \in Nat /\ MaxSize > 0
  /\ FifoBytes \in Nat /\ FifoBytes > 0 /\ MaxLen \in Nat /\ Modulus \in Nat /\ Modulus > 0
BY AsyncAssumption, UrlAssumption, UdpAssumption DEF AsyncAssumption, UrlAssumption, UdpAssumption

(* The parts of the invariant of async, and the numbers in it. *)
LEMMA AsyncFacts ==
  ASSUME AsyncInv
  PROVE  /\ AsyncTypeOK /\ CallInv /\ SeekInv /\ EofInv /\ DataAtPosition
         /\ Stored \in Nat /\ ring.read_pos \in 0 .. Stored /\ RingSize \in 0 .. Stored
         /\ ring.read_pos <= ReadBack /\ RingSpace \in Nat /\ inner_pos \in Nat /\ inner_pos <= Size
         /\ c.logical_pos \in Int /\ m.target \in Nat /\ m.to_read \in Int
<1>1. AsyncTypeOK /\ CallInv /\ SeekInv /\ EofInv /\ DataAtPosition
  BY DEF AsyncInv
<1>2. Stored \in Nat /\ c.logical_pos \in Int /\ m.target \in Nat /\ m.to_read \in Int
  BY <1>1 DEF AsyncTypeOK, FlagsOK, MainOK, Stored
<1>3. ring.read_pos \in 0 .. Stored /\ ring.read_pos <= ReadBack
  BY <1>1, <1>2, Numbers DEF DataAtPosition, Least
<1>4. RingSize \in 0 .. Stored /\ RingSpace \in Nat
  BY <1>1, <1>2, <1>3, Numbers DEF DataAtPosition, RingSize, RingSpace
<1>5. inner_pos \in Nat /\ inner_pos <= Size
  BY <1>1, Numbers DEF AsyncTypeOK, FlagsOK, MainOK
<1> QED BY <1>1, <1>2, <1>3, <1>4, <1>5

LEMMA AsyncStays ==
  ASSUME AsyncInv, ring' = ring, c' = c, m' = m, b' = b, inner_pos' = inner_pos
  PROVE  AsyncInv'
<1>1. AsyncTypeOK' /\ CallInv'
  BY DEF AsyncInv, AsyncTypeOK, FlagsOK, MainOK, CallInv
<1>2. SeekInv' /\ EofInv'
  BY DEF AsyncInv, SeekInv, EofInv
<1>3. DataAtPosition'
  BY DEF AsyncInv, DataAtPosition, Answer, Stored, RingSize, RingSpace
<1> QED BY <1>1, <1>2, <1>3 DEF AsyncInv

LEMMA AsyncStarts ==
  ASSUME Init PROVE AsyncInv
<1>1. AsyncTypeOK
  BY Numbers DEF Init, AsyncTypeOK, FlagsOK, MainOK, EmptyRing, Result, Results, Filling
<1>2. CallInv /\ SeekInv /\ EofInv
  BY DEF Init, CallInv, SeekInv, EofInv, Filling, Result
<1>3. DataAtPosition
  BY Numbers DEF Init, DataAtPosition, Answer, Stored, RingSize, RingSpace, Least, EmptyRing
<1> QED BY <1>1, <1>2, <1>3 DEF AsyncInv

(* A call that returns leaves what a request to seek says as it is. *)
LEMMA ReturnedIs ==
  ASSUME AsyncInv, NEW r \in Results, m' = Returned(r), r.kind = "EOF" => r.count = 0,
         b' = b, inner_pos' = inner_pos, c'.io_error = c.io_error,
         c'.io_eof_reached = c.io_eof_reached,
         c'.abort_request \/ (~c.abort_request /\ ~c'.seek_request)
           \/ (c'.abort_request = c.abort_request /\ c'.seek_request = c.seek_request
                /\ m.pc # "seeking")
  PROVE  /\ m'.pc = "user" /\ m'.call = "none" /\ m'.target = 0 /\ m'.to_read = 0
         /\ m'.result = r /\ m' \in [pc : {"user"}, call : {"none"}, target : {0}, to_read : {0},
                                    seen : {0}, result : Results]
         /\ MainOK' /\ CallInv' /\ SeekInv' /\ EofInv'
<1>1. AsyncTypeOK /\ CallInv /\ SeekInv /\ EofInv
  BY AsyncFacts
<1>2. /\ m'.pc = "user" /\ m'.call = "none" /\ m'.target = 0 /\ m'.to_read = 0
      /\ m'.result = r /\ m' \in [pc : {"user"}, call : {"none"}, target : {0}, to_read : {0},
                                 seen : {0}, result : Results]
  BY <1>1 DEF AsyncTypeOK, FlagsOK, MainOK, Returned
<1>3. CallInv' /\ EofInv'
  BY <1>1, <1>2 DEF CallInv, EofInv
<1>4. SeekInv'
  BY <1>1, <1>2 DEF SeekInv
<1>5. MainOK'
  BY <1>2 DEF MainOK
<1> QED BY <1>2, <1>3, <1>4, <1>5

(* The steps of Main that leave the ring alone. *)
LEMMA SeekRingStays ==
  ASSUME AsyncInv, ring' = ring, inner_pos' = inner_pos,
         c'.abort_request \/ (~c.abort_request /\
           (IF Answer' THEN c'.seek_ret ELSE c'.logical_pos)
             = (IF Answer THEN c.seek_ret ELSE c.logical_pos))
  PROVE  DataAtPosition'
BY AsyncFacts DEF DataAtPosition, Stored, RingSize, RingSpace

LEMMA CallStep ==
  ASSUME AsyncInv, (\E size : ReadCall(size) /\ size \in Int)
                   \/ (\E to \in 0 .. Size + 1 : SeekCall(to)) \/ CloseCall \/ Join
  PROVE  AsyncInv'
<1>1. AsyncTypeOK /\ CallInv /\ SeekInv /\ EofInv /\ RingSize \in Int
  BY AsyncFacts
<1>2. CASE \E size : ReadCall(size) /\ size \in Int
  <2>1. PICK size \in Int : ReadCall(size)
    BY <1>2
  <2>2. /\ m.pc = "user" /\ m' = [m EXCEPT !.pc = "reading", !.call = "read", !.to_read = size]
        /\ c' = c /\ b' = b /\ ring' = ring /\ inner_pos' = inner_pos
    BY <2>1 DEF ReadCall
  <2>3. AsyncTypeOK' /\ CallInv' /\ SeekInv' /\ EofInv'
    BY <1>1, <2>2 DEF AsyncTypeOK, FlagsOK, MainOK, CallInv, SeekInv, EofInv
  <2>4. ~Answer /\ ~Answer'
    BY <1>1, <2>2 DEF Answer, AsyncTypeOK, FlagsOK, MainOK
  <2> QED BY <2>2, <2>3, <2>4, SeekRingStays DEF AsyncInv
<1>3. CASE \E to \in 0 .. Size + 1 : SeekCall(to)
  <2>1. PICK to \in 0 .. Size + 1 : SeekCall(to)
    BY <1>3
  <2>2. /\ m.pc = "user"
        /\ m' = [m EXCEPT !.pc = "seek", !.call = "seek", !.target = to, !.seen = RingSize]
        /\ c' = c /\ b' = b /\ ring' = ring /\ inner_pos' = inner_pos /\ to \in Nat
    <3>1. to \in Nat
      BY Numbers
    <3> QED BY <2>1, <3>1 DEF SeekCall
  <2>3. AsyncTypeOK' /\ CallInv' /\ SeekInv' /\ EofInv'
    BY <1>1, <2>2 DEF AsyncTypeOK, FlagsOK, MainOK, CallInv, SeekInv, EofInv
  <2>4. ~Answer /\ ~Answer'
    BY <1>1, <2>2 DEF Answer, AsyncTypeOK, FlagsOK, MainOK
  <2> QED BY <2>2, <2>3, <2>4, SeekRingStays DEF AsyncInv
<1>4. CASE CloseCall \/ Join
  <2>1. b' = b /\ ring' = ring /\ inner_pos' = inner_pos
    BY <1>4 DEF CloseCall, Join
  <2>2. AsyncTypeOK' /\ CallInv' /\ SeekInv' /\ EofInv'
    <3>1. /\ m' \in {[m EXCEPT !.pc = "join", !.call = "close"], [m EXCEPT !.pc = "closed"]}
          /\ c' \in {c, [c EXCEPT !.abort_request = TRUE]}
      BY <1>4 DEF CloseCall, Join
    <3>2. FlagsOK' /\ c'.io_eof_reached = c.io_eof_reached /\ c'.io_error = c.io_error
          /\ (c'.abort_request \/ c' = c)
      BY <1>1, <3>1 DEF AsyncTypeOK, FlagsOK
    <3>3. /\ MainOK' /\ m'.pc \in {"join", "closed"} /\ m'.result = m.result
          /\ m.pc \in {"user", "join"}
      BY <1>1, <1>4, <3>1 DEF CloseCall, Join, AsyncTypeOK, MainOK
    <3>4. CallInv' /\ SeekInv'
      BY <1>1, <3>2, <3>3 DEF CallInv, SeekInv
    <3>5. EofInv'
      BY <1>1, <2>1, <3>2 DEF EofInv
    <3> QED BY <1>1, <2>1, <3>2, <3>3, <3>4, <3>5 DEF AsyncTypeOK
  <2>3. ~Answer /\ ~Answer'
    BY <1>1, <1>4 DEF Answer, AsyncTypeOK, FlagsOK, MainOK, CloseCall, Join
  <2>4. c'.abort_request \/ c' = c
    BY <1>1, <1>4 DEF AsyncTypeOK, FlagsOK, MainOK, CloseCall, Join
  <2> QED BY <2>1, <2>2, <2>3, <2>4, SeekRingStays DEF AsyncInv
<1> QED BY <1>2, <1>3, <1>4

LEMMA SeekStep ==
  ASSUME AsyncInv, SeekHere \/ SeekForward \/ SeekBackward \/ SeekRefused PROVE AsyncInv'
<1>1. AsyncTypeOK /\ CallInv /\ SeekInv /\ EofInv
  BY AsyncFacts
<1>2. CASE SeekHere \/ SeekForward \/ SeekRefused
  <2>1. c' = c /\ b' = b /\ ring' = ring /\ inner_pos' = inner_pos /\ m.pc = "seek"
    BY <1>2 DEF SeekHere, SeekForward, SeekRefused
  <2>2. \/ m' = [m EXCEPT !.pc = "reading", !.to_read = m.target - c.logical_pos]
           /\ m.target > c.logical_pos
        \/ \E r \in Results : m' = Returned(r) /\ r.kind # "EOF"
    <3>1. CASE SeekForward
      BY <3>1 DEF SeekForward
    <3>2. CASE SeekHere \/ SeekRefused
      <4>1. \A k \in {"at", "error"} : /\ Result(k, c.logical_pos, 0) \in Results
                                       /\ Result(k, c.logical_pos, 0).kind # "EOF"
        BY <1>1 DEF Result, Results, AsyncTypeOK, FlagsOK, MainOK
      <4>2. Error \in Results /\ Error.kind # "EOF"
        BY DEF Error, Result, Results
      <4> QED BY <3>2, <4>1, <4>2 DEF SeekHere, SeekRefused
    <3> QED BY <1>2, <3>1, <3>2
  <2>3. AsyncTypeOK' /\ CallInv' /\ SeekInv' /\ EofInv'
    <3>1. CASE m' = [m EXCEPT !.pc = "reading", !.to_read = m.target - c.logical_pos]
                 /\ m.target > c.logical_pos
      <4>1. m.target - c.logical_pos \in Int
        BY AsyncFacts
      <4>2. MainOK' /\ m'.pc = "reading" /\ m'.call = m.call /\ m'.target = m.target
            /\ m'.to_read = m.target - c.logical_pos /\ m'.result = m.result
        BY <1>1, <3>1, <4>1 DEF AsyncTypeOK, MainOK
      <4>3. AsyncTypeOK' /\ SeekInv' /\ EofInv'
        BY <1>1, <2>1, <4>2 DEF AsyncTypeOK, FlagsOK, SeekInv, EofInv
      <4>4. CallInv'
        BY <1>1, <2>1, <3>1, <4>2, AsyncFacts DEF CallInv
      <4> QED BY <4>3, <4>4
    <3>2. CASE \E r \in Results : m' = Returned(r) /\ r.kind # "EOF"
      <4>1. PICK r \in Results : m' = Returned(r) /\ r.kind # "EOF"
        BY <3>2
      <4>2. MainOK' /\ CallInv' /\ SeekInv' /\ EofInv'
        BY <1>1, <2>1, <4>1, ReturnedIs
      <4> QED BY <1>1, <2>1, <4>2 DEF AsyncTypeOK, FlagsOK
    <3> QED BY <2>2, <3>1, <3>2
  <2>4. ~Answer /\ ~Answer'
    BY <1>1, <2>1, <2>2 DEF Answer, AsyncTypeOK, FlagsOK, MainOK, Returned
  <2> QED BY <2>1, <2>3, <2>4, SeekRingStays DEF AsyncInv
<1>3. CASE SeekBackward
  <2>1. /\ ring' = [ring EXCEPT !.read_pos = ring.read_pos + (m.target - c.logical_pos)]
        /\ c' = [c EXCEPT !.logical_pos = m.target]
        /\ m' = Returned(Result("at", m.target, 0))
        /\ m.pc = "seek" /\ b' = b /\ inner_pos' = inner_pos
        /\ m.target >= c.logical_pos - ring.read_pos /\ m.target < c.logical_pos
    BY <1>1, <1>3 DEF SeekBackward, Near, AsyncTypeOK, FlagsOK, MainOK
  <2>2. Result("at", m.target, 0) \in Results /\ Result("at", m.target, 0).kind # "EOF"
    BY <1>1 DEF Result, Results, AsyncTypeOK, FlagsOK, MainOK
  <2>3. /\ c'.io_error = c.io_error /\ c'.io_eof_reached = c.io_eof_reached
        /\ c'.seek_request = c.seek_request /\ c'.abort_request = c.abort_request
    BY <1>1, <2>1 DEF AsyncTypeOK, FlagsOK, MainOK
  <2>8. MainOK' /\ CallInv' /\ SeekInv' /\ EofInv'
    BY <1>1, <2>1, <2>2, <2>3, ReturnedIs
  <2>7. AsyncTypeOK'
    <3>1. m.target \in Int /\ ring.read_pos + (m.target - c.logical_pos) \in Int
      BY AsyncFacts
    <3>2. FlagsOK'
      BY <1>1, <2>1, <3>1 DEF AsyncTypeOK, FlagsOK
    <3> QED BY <1>1, <2>1, <2>8, <3>1, <3>2 DEF AsyncTypeOK
  <2>4. ~Answer /\ ~Answer'
    BY <1>1, <2>1 DEF Answer, AsyncTypeOK, FlagsOK, MainOK, Returned
  <2>5. /\ ring'.data = ring.data /\ ring'.read_pos = ring.read_pos + (m.target - c.logical_pos)
        /\ Stored' = Stored /\ c'.logical_pos = m.target /\ c'.abort_request = c.abort_request
    BY <1>1, <2>1 DEF AsyncTypeOK, FlagsOK, MainOK, Stored
  <2>6. DataAtPosition'
    BY <2>1, <2>4, <2>5, AsyncFacts, Numbers DEF DataAtPosition, RingSize, RingSpace, Least
  <2> QED BY <2>6, <2>7, <2>8 DEF AsyncInv
<1> QED BY <1>2, <1>3

(* Results of calls. *)
LEMMA ErrorIs == Error \in Results /\ Error.kind = "error" /\ Error.count = 0
BY DEF Error, Result, Results

LEMMA AtIs ==
  \A x \in Int : /\ Result("at", x, 0) \in Results /\ Result("at", x, 0).kind = "at"
                 /\ Result("at", x, 0).first = x /\ Result("at", x, 0).count = 0
BY DEF Result, Results

LEMMA SeekRequestStep ==
  ASSUME AsyncInv, SeekRequest PROVE AsyncInv'
<1>1. AsyncTypeOK /\ CallInv /\ SeekInv /\ EofInv /\ m.target \in Nat
  BY AsyncFacts
<1>2. /\ m.pc = "seek" /\ m.target <= Size /\ ring' = ring /\ b' = b /\ inner_pos' = inner_pos
      /\ c' = [c EXCEPT !.seek_request = TRUE, !.seek_pos = m.target, !.seek_completed = FALSE,
                        !.seek_ret = 0, !.abort_request = Interrupted]
      /\ IF Interrupted THEN m' = Returned(Error) ELSE m' = [m EXCEPT !.pc = "seeking"]
  BY DEF SeekRequest
<1>3. c.abort_request => Interrupted
  BY DEF Interrupted
<1>4. PICK i \in BOOLEAN : i = Interrupted
  BY DEF Interrupted
<1>5. /\ c'.abort_request = i /\ c'.seek_completed = FALSE /\ c'.seek_pos = m.target
      /\ c'.io_error = c.io_error /\ c'.io_eof_reached = c.io_eof_reached
      /\ c'.logical_pos = c.logical_pos /\ FlagsOK'
  <2>1. c' = [c EXCEPT !.seek_request = TRUE, !.seek_pos = m.target, !.seek_completed = FALSE,
                       !.seek_ret = 0, !.abort_request = i]
    BY <1>2, <1>4
  <2>2. m.target \in Int
    BY <1>1
  <2>3. FlagsOK
    BY <1>1 DEF AsyncTypeOK
  <2>4. 0 \in Int /\ TRUE \in BOOLEAN /\ FALSE \in BOOLEAN
    OBVIOUS
  <2>5. FlagsOK'
    BY <2>1, <2>2, <2>3, <2>4 DEF FlagsOK
  <2>6. /\ c'.abort_request = i /\ c'.seek_completed = FALSE /\ c'.seek_pos = m.target
        /\ c'.io_error = c.io_error /\ c'.io_eof_reached = c.io_eof_reached
        /\ c'.logical_pos = c.logical_pos
    BY <2>1, <2>3 DEF FlagsOK
  <2> QED BY <2>5, <2>6
<1>6. CASE i
  <2>1. MainOK' /\ CallInv' /\ SeekInv' /\ EofInv'
    BY <1>1, <1>2, <1>4, <1>5, <1>6, ErrorIs, ReturnedIs
  <2>2. DataAtPosition'
    BY <1>2, <1>5, <1>6, SeekRingStays
  <2> QED BY <1>1, <1>2, <1>5, <2>1, <2>2 DEF AsyncInv, AsyncTypeOK
<1>7. CASE ~i
  <2>1. MainOK' /\ m'.pc = "seeking" /\ m'.call = m.call /\ m'.target = m.target
        /\ m'.result = m.result
    BY <1>1, <1>2, <1>4, <1>7 DEF AsyncTypeOK, MainOK
  <2>2. CallInv' /\ EofInv' /\ SeekInv'
    BY <1>1, <1>2, <1>5, <2>1, Numbers DEF CallInv, EofInv, SeekInv
  <2>3. ~Answer /\ ~Answer' /\ ~c.abort_request
    BY <1>2, <1>3, <1>4, <1>5, <1>7 DEF Answer
  <2>4. DataAtPosition'
    BY <1>2, <1>5, <2>3, SeekRingStays
  <2> QED BY <1>1, <1>2, <1>5, <2>1, <2>2, <2>4 DEF AsyncInv, AsyncTypeOK
<1> QED BY <1>6, <1>7

LEMMA SeekAnsweredStep ==
  ASSUME AsyncInv, SeekAnswered PROVE AsyncInv'
<1>1. AsyncTypeOK /\ CallInv /\ SeekInv /\ EofInv /\ m.target \in Nat
  BY AsyncFacts
<1>2. m.pc = "seeking" /\ ring' = ring /\ b' = b /\ inner_pos' = inner_pos
  BY DEF SeekAnswered
<1>3. c.abort_request => Interrupted
  BY DEF Interrupted
<1>4. CASE Interrupted
  <2>1. c' = [c EXCEPT !.abort_request = TRUE] /\ m' = Returned(Error)
    BY <1>4 DEF SeekAnswered
  <2>2. /\ c'.abort_request /\ c'.io_error = c.io_error /\ c'.io_eof_reached = c.io_eof_reached
        /\ FlagsOK'
    BY <1>1, <2>1 DEF AsyncTypeOK, FlagsOK
  <2>3. MainOK' /\ CallInv' /\ SeekInv' /\ EofInv'
    BY <1>1, <1>2, <2>1, <2>2, ErrorIs, ReturnedIs
  <2>4. DataAtPosition'
    BY <1>2, <2>2, SeekRingStays
  <2> QED BY <1>1, <1>2, <2>2, <2>3, <2>4 DEF AsyncInv, AsyncTypeOK
<1>5. CASE ~Interrupted /\ c.seek_completed /\ c.seek_ret >= 0
  <2>1. c' = [c EXCEPT !.logical_pos = c.seek_ret] /\ m' = Returned(Result("at", c.seek_ret, 0))
    BY <1>5 DEF SeekAnswered
  <2>2. /\ c'.abort_request = c.abort_request /\ c'.io_error = c.io_error
        /\ c'.io_eof_reached = c.io_eof_reached /\ FlagsOK' /\ c.seek_ret \in Int
        /\ c'.logical_pos = c.seek_ret /\ c'.seek_request = c.seek_request
    BY <1>1, <2>1 DEF AsyncTypeOK, FlagsOK
  <2>3. ~c.abort_request /\ ~c'.seek_request
    BY <1>1, <1>2, <1>3, <1>5, <2>2 DEF SeekInv
  <2>4. MainOK' /\ CallInv' /\ SeekInv' /\ EofInv' /\ m'.pc = "user"
    BY <1>1, <1>2, <2>1, <2>2, <2>3, AtIs, ReturnedIs
  <2>5. Answer /\ ~Answer'
    BY <1>2, <1>5, <2>4 DEF Answer
  <2>6. DataAtPosition'
    BY <1>2, <2>2, <2>3, <2>5, SeekRingStays
  <2> QED BY <1>1, <1>2, <2>2, <2>4, <2>6 DEF AsyncInv, AsyncTypeOK
<1>6. CASE ~Interrupted /\ c.seek_completed /\ ~(c.seek_ret >= 0)
  <2>1. c' = c /\ m' = Returned(Error)
    BY <1>6 DEF SeekAnswered
  <2>2. ~c.abort_request /\ ~c'.seek_request
    BY <1>1, <1>2, <1>3, <1>6, <2>1 DEF SeekInv
  <2>3. MainOK' /\ CallInv' /\ SeekInv' /\ EofInv' /\ m'.pc = "user"
    BY <1>1, <1>2, <2>1, <2>2, ErrorIs, ReturnedIs
  <2>4. ~Answer /\ ~Answer'
    BY <1>6, <2>3 DEF Answer
  <2>5. DataAtPosition'
    BY <1>2, <2>1, <2>2, <2>4, SeekRingStays
  <2> QED BY <1>1, <1>2, <2>1, <2>3, <2>5 DEF AsyncInv, AsyncTypeOK, FlagsOK
<1>7. CASE ~Interrupted /\ ~c.seek_completed
  BY <1>2, <1>7, AsyncStays DEF SeekAnswered
<1> QED BY <1>4, <1>5, <1>6, <1>7

(* A read that ends. *)
LEMMA ReadEndsIs ==
  ASSUME AsyncInv, NEW r \in Results, m.pc = "reading", ReadEnds(r), r.kind = "EOF" => r.count = 0,
         FlagsOK', b' = b, inner_pos' = inner_pos, c'.io_error = c.io_error,
         c'.io_eof_reached = c.io_eof_reached, c'.seek_request = c.seek_request,
         c'.abort_request \/ c'.abort_request = c.abort_request
  PROVE  /\ m'.pc = "user" /\ m'.call = "none" /\ m'.target = 0
         /\ m'.result = IF m.call = "seek" THEN Result("at", c'.logical_pos, 0) ELSE r
         /\ MainOK' /\ CallInv' /\ SeekInv' /\ EofInv' /\ ~Answer /\ ~Answer'
<1> DEFINE e == IF m.call = "seek" THEN Result("at", c'.logical_pos, 0) ELSE r
<1>1. c'.logical_pos \in Int
  BY DEF FlagsOK
<1>2. e \in Results /\ (e.kind = "EOF" => e.count = 0)
  BY <1>1, AtIs
<1>3. m' = Returned(e)
  BY DEF ReadEnds, Complete
<1> HIDE DEF e
<1>4. /\ m'.pc = "user" /\ m'.call = "none" /\ m'.target = 0 /\ m'.result = e
      /\ MainOK' /\ CallInv' /\ SeekInv' /\ EofInv'
  BY <1>2, <1>3, ReturnedIs
<1>5. ~Answer /\ ~Answer'
  BY <1>4 DEF Answer
<1> QED BY <1>4, <1>5 DEF e

LEMMA ReadStep ==
  ASSUME AsyncInv, ReadInterrupted \/ ReadEnd \/ ReadWait PROVE AsyncInv'
<1>1. AsyncTypeOK /\ CallInv /\ SeekInv /\ EofInv
  BY AsyncFacts
<1>2. CASE ReadWait
  BY <1>2, AsyncStays DEF ReadWait
<1>3. CASE ReadInterrupted
  <2>1. /\ m.pc = "reading" /\ ring' = ring /\ b' = b /\ inner_pos' = inner_pos
        /\ c' = [c EXCEPT !.abort_request = TRUE] /\ ReadEnds(Error)
    BY <1>3 DEF ReadInterrupted
  <2>2. /\ c'.abort_request /\ c'.io_error = c.io_error /\ c'.io_eof_reached = c.io_eof_reached
        /\ c'.seek_request = c.seek_request /\ FlagsOK'
    BY <1>1, <2>1 DEF AsyncTypeOK, FlagsOK
  <2>3. MainOK' /\ CallInv' /\ SeekInv' /\ EofInv'
    BY <2>1, <2>2, ErrorIs, ReadEndsIs
  <2>4. DataAtPosition'
    BY <2>1, <2>2, SeekRingStays
  <2> QED BY <1>1, <2>1, <2>2, <2>3, <2>4 DEF AsyncInv, AsyncTypeOK
<1>4. CASE ReadEnd
  <2> DEFINE r == IF c.io_error \in {"none", "EOF"} THEN Result("EOF", 0, 0) ELSE Error
  <2>1. /\ m.pc = "reading" /\ ring' = ring /\ b' = b /\ inner_pos' = inner_pos
        /\ c' = c /\ ReadEnds(r) /\ ~Interrupted
    BY <1>4 DEF ReadEnd
  <2>2. r \in Results /\ (r.kind = "EOF" => r.count = 0)
    BY ErrorIs DEF Result, Results
  <2>3. FlagsOK' /\ ~c.abort_request
    BY <1>1, <2>1 DEF AsyncTypeOK, FlagsOK, Interrupted
  <2> HIDE DEF r
  <2>4. MainOK' /\ CallInv' /\ SeekInv' /\ EofInv' /\ ~Answer /\ ~Answer'
    BY <2>1, <2>2, <2>3, ReadEndsIs
  <2>5. DataAtPosition'
    BY <2>1, <2>3, <2>4, SeekRingStays
  <2> QED BY <1>1, <2>1, <2>3, <2>4, <2>5 DEF AsyncInv, AsyncTypeOK
<1> QED BY <1>2, <1>3, <1>4

(* The ring holds consecutive bytes, up to some position: some are dropped *)
(* from its front, or some follow at its back.                             *)
Consecutive(data, end) == \A i \in 1 .. Len(data) : data[i] = end - Len(data) + i - 1

LEMMA DroppedIs ==
  ASSUME NEW data \in Seq(Int), NEW end \in Int, NEW drop \in Nat, drop <= Len(data),
         Consecutive(data, end), NEW d, d = SubSeq(data, drop + 1, Len(data))
  PROVE  d \in Seq(Int) /\ Len(d) = Len(data) - drop /\ Consecutive(d, end)
<1>1. d \in Seq(Int) /\ Len(d) = Len(data) - drop
  OBVIOUS
<1>2. ASSUME NEW i \in 1 .. Len(d) PROVE d[i] = end - Len(d) + i - 1
  <2>1. drop + i \in 1 .. Len(data) /\ Len(data) \in Nat /\ i \in Nat
    BY <1>1
  <2>2. data[drop + i] = end - Len(data) + (drop + i) - 1
    BY <2>1 DEF Consecutive
  <2>3. d[i] = data[drop + i]
    <3>1. Len(data) \in Int /\ drop + 1 \in Int /\ \A j \in drop + 1 .. Len(data) : data[j] \in Int
      OBVIOUS
    <3>2. d[i] = data[(drop + 1) + i - 1]
      <4>1. i \in 1 .. Len(data) - (drop + 1) + 1
        BY <1>1, <3>1
      <4> QED BY <3>1, <4>1, SubSeqProperties
    <3> QED BY <2>1, <3>2
  <2>4. end - Len(data) + (drop + i) - 1 = end - Len(d) + i - 1
    <3>1. \A x, y \in Int : end - x + (y + i) - 1 = end - (x - y) + i - 1
      BY <2>1
    <3>2. Len(data) \in Int /\ drop \in Int
      OBVIOUS
    <3>3. end - Len(data) + (drop + i) - 1 = end - (Len(data) - drop) + i - 1
      BY <3>1, <3>2
    <3> QED BY <1>1, <3>3, Zenon
  <2> QED BY <2>2, <2>3, <2>4
<1> QED BY <1>1, <1>2 DEF Consecutive

(* The n bytes of the file from the position end on. *)
Block(end, n) == [i \in 1 .. n |-> end + i - 1]

LEMMA AppendedIs ==
  ASSUME NEW data \in Seq(Int), NEW end \in Int, NEW n \in Nat, Consecutive(data, end),
         NEW d, d = data \o Block(end, n)
  PROVE  d \in Seq(Int) /\ Len(d) = Len(data) + n /\ Consecutive(d, end + n)
<1>1. PICK e \in Seq(Int) :
        /\ e = Block(end, n)
        /\ Len(e) = n /\ \A i \in 1 .. n : e[i] = end + i - 1
  <2>1. /\ Block(end, n) \in Seq(Int) /\ Len(Block(end, n)) = n
        /\ \A i \in 1 .. n : Block(end, n)[i] = end + i - 1
    BY DEF Block
  <2> QED BY <2>1
<1>2. d = data \o e
  BY <1>1
<1>3. /\ d \in Seq(Int) /\ Len(d) = Len(data) + n
      /\ \A i \in 1 .. Len(d) : d[i] = IF i <= Len(data) THEN data[i] ELSE e[i - Len(data)]
  BY <1>1, <1>2
<1>4. ASSUME NEW i \in 1 .. Len(d) PROVE d[i] = end + n - Len(d) + i - 1
  <2>1. Len(data) \in Nat /\ i \in Nat /\ 1 <= i /\ i <= Len(data) + n
    BY <1>3
  <2>2. CASE i <= Len(data)
    <3>1. data[i] = end - Len(data) + i - 1
      BY <2>1, <2>2 DEF Consecutive
    <3> QED BY <1>3, <2>1, <2>2, <3>1
  <2>3. CASE ~(i <= Len(data))
    <3>1. i - Len(data) \in 1 .. n
      BY <2>1, <2>3
    <3>2. e[i - Len(data)] = end + (i - Len(data)) - 1
      BY <1>1, <3>1
    <3> QED BY <1>3, <2>1, <2>3, <3>2
  <2> QED BY <2>2, <2>3
<1> QED BY <1>3, <1>4 DEF Consecutive

(* What ring_generic_read leaves in the ring. *)
LEMMA ConsumedIs ==
  ASSUME AsyncInv, NEW n \in 1 .. RingSize
  PROVE  /\ Consumed(n) \in [data : Seq(Int), read_pos : Int]
         /\ Len(Consumed(n).data) - Consumed(n).read_pos = RingSize - n
         /\ Consumed(n).read_pos \in 0 .. Least(ReadBack, Len(Consumed(n).data))
         /\ Len(Consumed(n).data) <= Stored
         /\ \A i \in 1 .. Len(Consumed(n).data) :
              Consumed(n).data[i] = inner_pos - Len(Consumed(n).data) + i - 1
<1>1. /\ ring.data \in Seq(Int) /\ Len(ring.data) = Stored /\ Stored \in Nat
      /\ RingSize = Stored - ring.read_pos /\ ring.read_pos \in 0 .. Stored
      /\ ring.read_pos <= ReadBack /\ inner_pos \in Int /\ ReadBack \in Nat
      /\ Consecutive(ring.data, inner_pos)
  BY AsyncFacts, Numbers DEF AsyncTypeOK, Stored, RingSize, DataAtPosition, Consecutive
<1>2. n \in Nat /\ 1 <= n /\ n <= Stored - ring.read_pos
  BY <1>1
<1>3. PICK at : at = ring.read_pos + n
  OBVIOUS
<1>4. at \in Nat /\ at <= Stored
  <2>1. PICK past, kept : past = ring.read_pos /\ kept = Stored
    OBVIOUS
  <2>2. kept \in Nat /\ past \in 0 .. kept
    BY <1>1, <2>1
  <2>3. n <= kept - past /\ at = past + n
    BY <1>2, <1>3, <2>1
  <2>4. at \in Nat /\ at <= kept
    BY <1>2, <2>2, <2>3
  <2> QED BY <2>1, <2>4
<1>5. PICK drop : drop = IF at > ReadBack THEN at - ReadBack ELSE 0
  OBVIOUS
<1>6. drop \in Nat /\ drop <= at /\ at - drop <= ReadBack
  BY <1>1, <1>4, <1>5
<1>7. PICK d : d = SubSeq(ring.data, drop + 1, Len(ring.data))
  OBVIOUS
<1>8. d \in Seq(Int) /\ Len(d) = Stored - drop /\ Consecutive(d, inner_pos)
  <2>1. PICK data \in Seq(Int) : data = ring.data
    BY <1>1
  <2>2. /\ drop \in Nat /\ drop <= Len(data) /\ inner_pos \in Int /\ Consecutive(data, inner_pos)
        /\ Len(data) = Stored
    BY <1>1, <1>4, <1>6, <2>1
  <2>3. d = SubSeq(data, drop + 1, Len(data))
    BY <1>7, <2>1
  <2>4. d \in Seq(Int) /\ Len(d) = Len(data) - drop /\ Consecutive(d, inner_pos)
    BY <2>2, <2>3, DroppedIs
  <2> QED BY <2>2, <2>4
<1>9. Consumed(n) = [data |-> d, read_pos |-> at - drop]
  BY <1>1, <1>3, <1>5, <1>7, Zenon DEF Consumed, Stored
<1>10. Len(d) - (at - drop) = RingSize - n /\ at - drop \in 0 .. Least(ReadBack, Len(d))
       /\ Len(d) <= Stored /\ at - drop \in Int
  <2>1. Len(d) = Stored - drop
    BY <1>8
  <2>2. ring.read_pos \in Nat
    BY <1>1
  <2>3. at - drop \in Nat /\ Len(d) \in Nat /\ Len(d) <= Stored /\ at - drop <= Len(d)
    BY <1>1, <1>4, <1>6, <2>1
  <2>4. Len(d) - (at - drop) = Stored - at
    BY <1>1, <1>4, <1>6, <2>1
  <2>5. Stored - at = RingSize - n
    BY <1>1, <1>2, <1>3, <2>2
  <2>6. at - drop \in 0 .. Least(ReadBack, Len(d))
    BY <1>1, <1>6, <2>3 DEF Least
  <2> QED BY <2>3, <2>4, <2>5, <2>6
<1> QED BY <1>8, <1>9, <1>10 DEF Consecutive

LEMMA ReadDataStep ==
  ASSUME AsyncInv, ReadData PROVE AsyncInv'
<1>1. AsyncTypeOK /\ CallInv /\ SeekInv /\ EofInv
  BY AsyncFacts
<1> DEFINE n == Least(m.to_read, RingSize)
<1>2. /\ m.pc = "reading" /\ ring' = Consumed(n) /\ c' = [c EXCEPT !.logical_pos = c.logical_pos + n]
      /\ b' = b /\ inner_pos' = inner_pos /\ n > 0 /\ ~c.abort_request
      /\ IF n = m.to_read \/ ~Complete
         THEN ReadEnds(Result("data", ring.data[ring.read_pos + 1], n))
         ELSE m' = [m EXCEPT !.to_read = m.to_read - n]
  BY <1>1 DEF ReadData, Interrupted, AsyncTypeOK, FlagsOK, MainOK
<1>3. n \in 1 .. RingSize /\ n \in Nat /\ n <= m.to_read /\ m.to_read \in Int
  BY <1>2, AsyncFacts DEF Least
<1> HIDE DEF n
<1>4. ring.data[ring.read_pos + 1] \in Int
  <2>1. ring.read_pos + 1 \in 1 .. Stored
    BY <1>3, AsyncFacts DEF RingSize
  <2> QED BY <1>1, <2>1 DEF AsyncTypeOK, Stored
<1>5. /\ FlagsOK' /\ c'.io_error = c.io_error /\ c'.io_eof_reached = c.io_eof_reached
      /\ c'.seek_request = c.seek_request /\ c'.abort_request = c.abort_request
      /\ c'.logical_pos = c.logical_pos + n
  <2>1. c.logical_pos + n \in Int
    BY <1>3, AsyncFacts
  <2> QED BY <1>1, <1>2, <2>1 DEF AsyncTypeOK, FlagsOK
<1>6. MainOK' /\ CallInv' /\ SeekInv' /\ EofInv' /\ ~Answer /\ ~Answer'
  <2>1. CASE n = m.to_read \/ ~Complete
    <3> DEFINE r == Result("data", ring.data[ring.read_pos + 1], n)
    <3>1. r \in Results /\ r.kind # "EOF"
      BY <1>3, <1>4 DEF Result, Results
    <3> HIDE DEF r
    <3>2. ReadEnds(r)
      BY <1>2, <2>1 DEF r
    <3> QED BY <1>2, <1>5, <3>1, <3>2, ReadEndsIs
  <2>2. CASE ~(n = m.to_read \/ ~Complete)
    <3>1. m.to_read - n \in Int /\ m.to_read - n > 0 /\ m.call = "seek"
      BY <1>3, <2>2 DEF Complete
    <3>2. /\ MainOK' /\ m'.pc = "reading" /\ m'.call = m.call /\ m'.target = m.target
          /\ m'.to_read = m.to_read - n /\ m'.result = m.result
      BY <1>1, <1>2, <2>2, <3>1 DEF AsyncTypeOK, MainOK
    <3>3. CallInv'
      BY <1>1, <1>2, <1>3, <1>5, <3>1, <3>2, AsyncFacts DEF CallInv
    <3>4. SeekInv' /\ EofInv' /\ ~Answer /\ ~Answer'
      BY <1>1, <1>2, <1>5, <3>2 DEF SeekInv, EofInv, Answer
    <3> QED BY <3>2, <3>3, <3>4
  <2> QED BY <2>1, <2>2
<1>7. DataAtPosition'
  <2>1. inner_pos - RingSize = c.logical_pos /\ RingSpace >= 0
    BY <1>1, <1>2, <1>6, AsyncFacts DEF DataAtPosition
  <2>2. /\ Len(ring'.data) - ring'.read_pos = RingSize - n
        /\ ring'.read_pos \in 0 .. Least(ReadBack, Len(ring'.data))
        /\ Len(ring'.data) <= Stored
        /\ \A i \in 1 .. Len(ring'.data) : ring'.data[i] = inner_pos - Len(ring'.data) + i - 1
        /\ Len(ring'.data) \in Nat
    BY <1>2, <1>3, ConsumedIs
  <2>3. RingSize' = RingSize - n /\ Stored' = Len(ring'.data) /\ RingSpace' >= 0
    BY <2>1, <2>2, AsyncFacts, Numbers DEF RingSize, Stored, RingSpace
  <2>4. inner_pos' - RingSize' = c'.logical_pos
    BY <1>2, <1>3, <1>5, <2>1, <2>3, AsyncFacts
  <2> QED BY <1>2, <1>6, <2>2, <2>3, <2>4 DEF DataAtPosition
<1> QED BY <1>1, <1>2, <1>3, <1>5, <1>6, <1>7, ConsumedIs DEF AsyncInv, AsyncTypeOK

(* The steps of the background thread. *)
LEMMA BackStopsStep ==
  ASSUME AsyncInv, Aborts \/ Rest \/ Work \/ FillInterrupted \/ Filled PROVE AsyncInv'
<1>1. AsyncTypeOK /\ CallInv /\ SeekInv /\ EofInv
  BY AsyncFacts
<1>2. /\ ring' = ring /\ m' = m /\ inner_pos' = inner_pos /\ FlagsOK'
      /\ c'.seek_request = c.seek_request /\ c'.seek_pos = c.seek_pos
      /\ c'.seek_completed = c.seek_completed /\ c'.seek_ret = c.seek_ret
      /\ c'.logical_pos = c.logical_pos
      /\ c'.abort_request = c.abort_request \/ c'.abort_request
      /\ b' \in Filling \cup {"top", "dead"}
  <2>1. ring' = ring /\ m' = m /\ inner_pos' = inner_pos /\ b' \in Filling \cup {"top", "dead"}
    BY DEF Aborts, Rest, Work, FillInterrupted, Filled, Filling, AsyncInv, AsyncTypeOK
  <2>2. \/ c' = c
        \/ c' = [c EXCEPT !.abort_request = TRUE]
        \/ \E error \in {"EOF", "EIO", "EXIT"} :
             \/ c' = [c EXCEPT !.io_eof_reached = TRUE, !.io_error = error, !.abort_request = TRUE]
             \/ c' = [c EXCEPT !.io_eof_reached = TRUE, !.io_error = error]
    BY DEF Aborts, Rest, Work, FillInterrupted, Filled
  <2>3. FlagsOK
    BY <1>1 DEF AsyncTypeOK
  <2>4. CASE c' = c
    BY <2>1, <2>3, <2>4 DEF FlagsOK
  <2>5. CASE c' = [c EXCEPT !.abort_request = TRUE]
    BY <2>1, <2>3, <2>5 DEF FlagsOK
  <2>6. CASE \E error \in {"EOF", "EIO", "EXIT"} :
          c' = [c EXCEPT !.io_eof_reached = TRUE, !.io_error = error, !.abort_request = TRUE]
    BY <2>1, <2>3, <2>6 DEF FlagsOK
  <2>7. CASE \E error \in {"EOF", "EIO", "EXIT"} :
          c' = [c EXCEPT !.io_eof_reached = TRUE, !.io_error = error]
    BY <2>1, <2>3, <2>7 DEF FlagsOK
  <2> QED BY <2>2, <2>4, <2>5, <2>6, <2>7
<1>3. AsyncTypeOK'
  BY <1>1, <1>2 DEF AsyncTypeOK, MainOK
<1>4. CallInv' /\ SeekInv'
  BY <1>1, <1>2 DEF CallInv, SeekInv
<1>5. EofInv'
  BY <1>1 DEF AsyncTypeOK, FlagsOK, EofInv, Filling, Aborts, Rest, Work, FillInterrupted, Filled
<1>6. DataAtPosition'
  <2>1. Answer' <=> Answer
    BY <1>2 DEF Answer
  <2> QED BY <1>1, <1>2, <2>1, SeekRingStays DEF AsyncTypeOK, FlagsOK
<1> QED BY <1>3, <1>4, <1>5, <1>6 DEF AsyncInv

LEMMA ServeSeekStep ==
  ASSUME AsyncInv, ServeSeek PROVE AsyncInv'
<1>1. AsyncTypeOK /\ CallInv /\ SeekInv /\ EofInv
  BY AsyncFacts
<1>2. b = "top" /\ b' = b /\ m' = m /\ c.seek_request /\ ~c.abort_request
  BY DEF ServeSeek, Interrupted
<1>3. /\ m.pc = "seeking" /\ ~c.seek_completed /\ c.seek_pos = m.target
      /\ c.seek_pos \in 0 .. Size /\ m.target \in Nat
  BY <1>1, <1>2, AsyncFacts DEF SeekInv
<1>4. CASE inner_pos' = c.seek_pos /\ ring' = EmptyRing /\ c' = SeekDone
  <2>1. /\ c'.io_eof_reached = FALSE /\ c'.seek_completed = TRUE /\ c'.seek_ret = c.seek_pos
        /\ c'.seek_request = FALSE /\ c'.seek_pos = c.seek_pos
        /\ c'.abort_request = c.abort_request /\ FlagsOK'
    BY <1>1, <1>4 DEF SeekDone, AsyncTypeOK, FlagsOK
  <2>2. ring' \in [data : Seq(Int), read_pos : Int] /\ ring'.read_pos = 0 /\ Len(ring'.data) = 0
    BY <1>4 DEF EmptyRing
  <2>3. AsyncTypeOK' /\ CallInv' /\ SeekInv' /\ EofInv'
    BY <1>1, <1>2, <1>3, <1>4, <2>1, <2>2
       DEF AsyncTypeOK, MainOK, CallInv, SeekInv, EofInv, Filling
  <2>4. Answer' /\ Stored' = 0 /\ RingSize' = 0 /\ RingSpace' >= 0
    BY <1>2, <1>3, <2>1, <2>2, Numbers DEF Answer, Stored, RingSize, RingSpace
  <2>5. DataAtPosition'
    BY <1>3, <1>4, <2>1, <2>2, <2>4, Numbers DEF DataAtPosition, Least
  <2> QED BY <2>3, <2>5 DEF AsyncInv
<1>5. CASE /\ c' = [c EXCEPT !.seek_completed = TRUE, !.seek_ret = -1, !.seek_request = FALSE]
           /\ inner_pos' = inner_pos /\ ring' = ring
  <2>1. /\ c'.io_eof_reached = c.io_eof_reached /\ c'.io_error = c.io_error
        /\ c'.seek_completed = TRUE /\ c'.seek_ret = -1
        /\ c'.seek_request = FALSE /\ c'.seek_pos = c.seek_pos /\ c'.logical_pos = c.logical_pos
        /\ c'.abort_request = c.abort_request /\ FlagsOK'
    <3>1. -1 \in Int
      OBVIOUS
    <3>2. PICK no : no = -1
      OBVIOUS
    <3>3. c' = [c EXCEPT !.seek_completed = TRUE, !.seek_ret = no, !.seek_request = FALSE] /\ no \in Int
      BY <1>5, <3>1, <3>2
    <3>4. FlagsOK
      BY <1>1 DEF AsyncTypeOK
    <3> QED BY <3>2, <3>3, <3>4 DEF FlagsOK
  <2>2. AsyncTypeOK' /\ CallInv' /\ SeekInv' /\ EofInv'
    BY <1>1, <1>2, <1>3, <1>5, <2>1 DEF AsyncTypeOK, MainOK, CallInv, SeekInv, EofInv, Filling
  <2>3. ~Answer /\ ~Answer'
    BY <1>3, <2>1 DEF Answer
  <2>4. DataAtPosition'
    BY <1>2, <1>5, <2>1, <2>3, SeekRingStays
  <2> QED BY <2>2, <2>4 DEF AsyncInv
<1> QED BY <1>4, <1>5 DEF ServeSeek

LEMMA FillStep ==
  ASSUME AsyncInv, Fill PROVE AsyncInv'
<1>1. AsyncTypeOK /\ CallInv /\ SeekInv /\ EofInv
  BY AsyncFacts
<1>2. b = "fill" /\ c' = c /\ m' = m
  BY DEF Fill
<1>3. PICK n \in 0 .. Least(Least(Chunk, RingSpace), Size - inner_pos) :
        /\ ring' = [ring EXCEPT !.data = ring.data \o [i \in 1 .. n |-> inner_pos + i - 1]]
        /\ inner_pos' = inner_pos + n
        /\ \/ n > 0 /\ b' = "filled"
           \/ n = 0 /\ inner_pos = Size /\ b' = "EOF"
           \/ n = 0 /\ b' = "EIO"
  <2>1. ring = [ring EXCEPT !.data = ring.data]
    BY <1>1 DEF AsyncTypeOK
  <2> QED BY DEF Fill
<1>4. n \in Nat /\ n <= RingSpace /\ n <= Size - inner_pos
  <2>1. Least(Least(Chunk, RingSpace), Size - inner_pos) \in Int
    BY AsyncFacts, Numbers DEF Least
  <2>2. n \in Nat /\ n <= Least(Least(Chunk, RingSpace), Size - inner_pos)
    BY <2>1
  <2>3. \A x, y \in Int : n <= Least(x, y) => n <= x /\ n <= y
    BY <2>2 DEF Least
  <2>4. Least(Chunk, RingSpace) \in Int /\ RingSpace \in Int /\ Chunk \in Int
        /\ Size - inner_pos \in Int
    BY AsyncFacts, Numbers DEF Least
  <2> HIDE DEF Least
  <2> QED BY <2>2, <2>3, <2>4
<1>5. PICK d : d = ring.data \o [i \in 1 .. n |-> inner_pos + i - 1]
  OBVIOUS
<1>6. /\ ring.data \in Seq(Int) /\ inner_pos \in Int /\ Len(ring.data) = Stored
      /\ Consecutive(ring.data, inner_pos)
  BY AsyncFacts DEF AsyncTypeOK, Stored, DataAtPosition, Consecutive
<1>7. d \in Seq(Int) /\ Len(d) = Stored + n /\ Consecutive(d, inner_pos + n)
  <2>1. PICK data \in Seq(Int) : data = ring.data
    BY <1>6
  <2>2. Consecutive(data, inner_pos) /\ Len(data) = Stored
    BY <1>6, <2>1
  <2>3. d = data \o [i \in 1 .. n |-> inner_pos + i - 1]
    BY <1>5, <2>1
  <2>4. PICK end \in Int : end = inner_pos
    BY <1>6
  <2>5. n \in Nat /\ Consecutive(data, end)
    BY <1>4, <2>2, <2>4
  <2>6. d = data \o Block(end, n)
    BY <2>3, <2>4 DEF Block
  <2>7. data \in Seq(Int) /\ end \in Int
    BY <2>1, <2>4
  <2>8. d \in Seq(Int) /\ Len(d) = Len(data) + n /\ Consecutive(d, end + n)
    BY <2>5, <2>6, <2>7, AppendedIs
  <2> QED BY <2>2, <2>4, <2>8
<1>8. ring' \in [data : Seq(Int), read_pos : Int] /\ ring'.data = d /\ ring'.read_pos = ring.read_pos
  <2>1. ring' = [ring EXCEPT !.data = d]
    BY <1>3, <1>5
  <2> QED BY <1>1, <1>7, <2>1 DEF AsyncTypeOK
<1>9. inner_pos' \in 0 .. Size /\ inner_pos' = inner_pos + n
  <2>1. inner_pos \in Nat /\ Size \in Nat
    BY AsyncFacts, Numbers
  <2>2. inner_pos' = inner_pos + n
    BY <1>3
  <2> QED BY <1>4, <2>1, <2>2
<1>10. AsyncTypeOK' /\ CallInv' /\ SeekInv'
  BY <1>1, <1>2, <1>3, <1>8, <1>9 DEF AsyncTypeOK, FlagsOK, MainOK, CallInv, SeekInv, Filling
<1>11. EofInv'
  <2>1. ~c.io_eof_reached
    BY <1>1, <1>2 DEF EofInv, Filling
  <2>2. b' = "EOF" => inner_pos' = Size
    BY <1>3, <1>9, AsyncFacts
  <2> QED BY <1>2, <2>1, <2>2 DEF EofInv
<1>12. Stored' = Stored + n /\ RingSize' = RingSize + n /\ RingSpace' = RingSpace - n
  <2>1. Stored' = Stored + n
    BY <1>7, <1>8 DEF Stored
  <2>2. Stored \in Nat /\ ring.read_pos \in Int
    BY AsyncFacts
  <2> QED BY <1>4, <1>8, <2>1, <2>2, Numbers DEF RingSize, RingSpace
<1>13. \A i \in 1 .. Stored' : ring'.data[i] = inner_pos' - Stored' + i - 1
  BY <1>7, <1>8, <1>9, <1>12 DEF Consecutive
<1>14. DataAtPosition'
  <2>1. Answer' <=> Answer
    BY <1>2 DEF Answer
  <2>2. ring'.read_pos \in 0 .. Least(ReadBack, Stored')
    <3>1. Stored \in Nat /\ ring.read_pos \in 0 .. Stored /\ ring.read_pos <= ReadBack
      BY AsyncFacts
    <3>2. Stored' = Stored + n /\ ring'.read_pos = ring.read_pos /\ ReadBack \in Nat
      BY <1>8, <1>12, Numbers
    <3> QED BY <1>4, <3>1, <3>2 DEF Least
  <2>3. inner_pos' - RingSize' = inner_pos - RingSize
    BY <1>4, <1>9, <1>12, AsyncFacts
  <2>4. RingSpace' >= 0
    BY <1>4, <1>12, AsyncFacts
  <2> QED BY <1>2, <1>13, <2>1, <2>2, <2>3, <2>4, AsyncFacts DEF DataAtPosition
<1> QED BY <1>10, <1>11, <1>14 DEF AsyncInv
-----------------------------------------------------------------------------
(* The steps of the loop.  A protocol hands over a number of bytes. *)
LEMMA LoopFacts ==
  ASSUME LoopInv
  PROVE  /\ h.o \in UrlOption /\ h.call \in Calls /\ h.ret \in Rets /\ h.ended \in BOOLEAN
         /\ h.handed \in Int /\ h.asked \in Int /\ h.call.len \in Nat /\ UrlRoom \in Int
         /\ h.call.pc \in {"idle", "loop", "transfer", "transferring"}
         /\ h.o.nonblock \in BOOLEAN
         /\ ~UrlIdle => UrlRoom > 0
BY DEF LoopInv, Calls, UrlRoom, UrlOption

(* The record of the loop with a new call, answer and history. *)
LEMMA LoopAsks ==
  ASSUME LoopInv, NEW call \in Calls, NEW ret \in Rets, NEW asked \in Int, NEW ended \in BOOLEAN,
         NEW handed \in Int,
         h' = [h EXCEPT !.call = call, !.ret = ret, !.asked = asked, !.ended = ended, !.handed = handed],
         call.pc = "idle" =>
           call.len = 0 /\ (ret.kind \in {"data", "EOF"} =>
                              /\ ret.count = handed /\ (ret.kind = "EOF" => ended)
                              /\ handed < asked => ended \/ h.o.nonblock),
         call.pc # "idle" => handed = call.len /\ call.len < call.size_min
                             /\ call.size_min <= call.size /\ asked = call.size_min,
         h.o.nonblock => call.len = 0
  PROVE  LoopInv' /\ h'.o = h.o /\ h'.call = call
<1>1. /\ h' \in [o : UrlOption, call : Calls, ret : Rets, asked : Int, ended : BOOLEAN, handed : Int]
      /\ h'.o = h.o /\ h'.call = call /\ h'.ret = ret /\ h'.asked = asked /\ h'.ended = ended
      /\ h'.handed = handed
  BY DEF LoopInv
<1> QED BY <1>1 DEF LoopInv, UrlIdle, ShortOnlyAtEnd

LEMMA LoopIs ==
  ASSUME LoopInv, NEW call \in Calls, NEW ret \in Rets, NEW ended \in BOOLEAN, NEW handed \in Int,
         h' = [h EXCEPT !.call = call, !.ret = ret, !.ended = ended, !.handed = handed],
         call.pc = "idle" =>
           call.len = 0 /\ (ret.kind \in {"data", "EOF"} =>
                              /\ ret.count = handed /\ (ret.kind = "EOF" => ended)
                              /\ handed < h.asked => ended \/ h.o.nonblock),
         call.pc # "idle" => handed = call.len /\ call.len < call.size_min
                             /\ call.size_min <= call.size /\ h.asked = call.size_min,
         h.o.nonblock => call.len = 0
  PROVE  LoopInv' /\ h'.o = h.o /\ h'.call = call
<1>1. /\ h' \in [o : UrlOption, call : Calls, ret : Rets, asked : Int, ended : BOOLEAN, handed : Int]
      /\ h'.o = h.o /\ h'.call = call /\ h'.ret = ret /\ h'.asked = h.asked /\ h'.ended = ended
      /\ h'.handed = handed
  BY DEF LoopInv
<1> QED BY <1>1 DEF LoopInv, UrlIdle, ShortOnlyAtEnd

LEMMA NoCallIs ==
  NoCall \in Calls /\ NoCall.pc = "idle" /\ NoCall.len = 0
BY DEF NoCall, Calls

LEMMA RetIs ==
  ASSUME NEW k \in RetKinds, NEW n \in Int
  PROVE  Ret(k, n) \in Rets /\ Ret(k, n).kind = k /\ Ret(k, n).count = n
BY DEF Ret, Rets

(* The loop goes around, or on, with the same bytes. *)
LEMMA SameBytes ==
  ASSUME LoopInv, NEW call \in Calls, h' = [h EXCEPT !.call = call], ~UrlIdle, call.pc # "idle",
         call.len = h.call.len, call.size = h.call.size, call.size_min = h.call.size_min
  PROVE  LoopInv' /\ h'.o = h.o /\ h'.call = call
<1>1. /\ h' \in [o : UrlOption, call : Calls, ret : Rets, asked : Int, ended : BOOLEAN, handed : Int]
      /\ h'.o = h.o /\ h'.call = call /\ h'.handed = h.handed /\ h'.asked = h.asked
  BY DEF LoopInv
<1>2. /\ h.handed = call.len /\ call.len < call.size_min /\ call.size_min <= call.size
      /\ h.o.nonblock => call.len = 0
      /\ h.asked = call.size_min
  BY DEF LoopInv
<1>3. ~UrlIdle' /\ ShortOnlyAtEnd'
  BY <1>1 DEF UrlIdle, ShortOnlyAtEnd
<1> QED BY <1>1, <1>2, <1>3 DEF LoopInv

LEMMA ReturnsOther ==
  ASSUME LoopInv, NEW k \in RetKinds, NEW n \in Int, k \notin {"data", "EOF"}, UrlReturn(Ret(k, n))
  PROVE  LoopInv' /\ h'.o = h.o /\ h'.call = NoCall
<1>1. PICK r \in Rets : r = Ret(k, n) /\ r.kind = k
  BY RetIs
<1>2. h' = [h EXCEPT !.call = NoCall, !.ret = r, !.ended = h.ended, !.handed = h.handed]
  BY <1>1 DEF UrlReturn, LoopInv
<1> QED BY <1>1, <1>2, LoopFacts, NoCallIs, LoopIs

(* UrlTransferred, answer by answer. *)
LEMMA InterruptedStep ==
  ASSUME LoopInv, ~UrlIdle, h' = [h EXCEPT !.call.pc = "loop"]
  PROVE  LoopInv' /\ h'.o = h.o
<1>1. PICK call : call = [h.call EXCEPT !.pc = "loop"]
  OBVIOUS
<1>2. /\ call \in Calls /\ call.pc = "loop" /\ call.len = h.call.len /\ call.size = h.call.size
      /\ call.size_min = h.call.size_min
  BY <1>1, LoopFacts DEF Calls
<1>3. h' = [h EXCEPT !.call = call]
  BY <1>1
<1> QED BY <1>2, <1>3, SameBytes

LEMMA RetryStep ==
  ASSUME LoopInv, ~UrlIdle, Retry
  PROVE  LoopInv' /\ h'.o = h.o
<1>1. CASE h.call.fast_retries > 0
  <2>4. h.call.fast_retries - 1 \in Int
    BY LoopFacts DEF Calls
  <2>5. PICK fast \in Int : fast = h.call.fast_retries - 1
    BY <2>4
  <2>1. PICK call : call = [h.call EXCEPT !.pc = "loop", !.fast_retries = fast]
    OBVIOUS
  <2>2. /\ call \in Calls /\ call.pc = "loop" /\ call.len = h.call.len /\ call.size = h.call.size
        /\ call.size_min = h.call.size_min
    BY <2>1, LoopFacts DEF Calls
  <2>3. h' = [h EXCEPT !.call = call]
    BY <1>1, <2>1, <2>5 DEF Retry
  <2> QED BY <2>2, <2>3, SameBytes
<1>2. CASE ~(h.call.fast_retries > 0) /\ h.o.rw_timeout /\ h.call.wait_since = "expired"
  <2>1. UrlReturn(Ret("EIO", 0))
    BY <1>2 DEF Retry
  <2> QED BY <2>1, ReturnsOther DEF RetKinds
<1>3. CASE ~(h.call.fast_retries > 0) /\ ~(h.o.rw_timeout /\ h.call.wait_since = "expired")
  <2>1. PICK since : since = IF h.o.rw_timeout /\ h.call.wait_since = "unset" THEN "set"
                             ELSE h.call.wait_since
    OBVIOUS
  <2>2. PICK call : call = [h.call EXCEPT !.pc = "loop", !.wait_since = since]
    OBVIOUS
  <2>3. since \in {"unset", "set", "expired"}
    BY <2>1, LoopFacts DEF Calls
  <2>4. /\ call \in Calls /\ call.pc = "loop" /\ call.len = h.call.len /\ call.size = h.call.size
        /\ call.size_min = h.call.size_min
    BY <2>2, <2>3, LoopFacts DEF Calls
  <2>5. h' = [h EXCEPT !.call = call]
    BY <1>3, <2>1, <2>2 DEF Retry
  <2> QED BY <2>4, <2>5, SameBytes
<1> QED BY <1>1, <1>2, <1>3

LEMMA AtEndStep ==
  ASSUME LoopInv, ~UrlIdle, AtEnd
  PROVE  LoopInv' /\ h'.o = h.o
<1>1. PICK ret : ret = IF h.call.len > 0 THEN Ret("data", h.call.len) ELSE Ret("EOF", 0)
  OBVIOUS
<1>2. h.call.len \in Nat /\ h.handed = h.call.len /\ h.handed \in Int
  BY LoopFacts DEF LoopInv
<1>3. ret \in Rets /\ ret.count = h.handed
  BY <1>1, <1>2, RetIs DEF RetKinds
<1>4. PICK handed \in Int, ended \in BOOLEAN : handed = h.handed /\ ended = TRUE
  BY <1>2
<1>5. h' = [h EXCEPT !.call = NoCall, !.ret = ret, !.ended = ended, !.handed = handed]
  BY <1>1, <1>4 DEF AtEnd, LoopInv
<1> QED BY <1>3, <1>4, <1>5, NoCallIs, LoopIs

LEMMA AdvanceStep ==
  ASSUME LoopInv, ~UrlIdle, ~h.o.nonblock, NEW n \in Nat, Advance(n)
  PROVE  LoopInv' /\ h'.o = h.o
<1>1. PICK fast : fast = IF h.call.fast_retries > 2 THEN h.call.fast_retries ELSE 2
  OBVIOUS
<1>2. PICK c2 : c2 = IF n = 0 THEN h.call
                     ELSE [h.call EXCEPT !.wait_since = "unset", !.fast_retries = fast]
  OBVIOUS
<1>3. fast \in Int
  BY <1>1, LoopFacts DEF Calls
<1>4. c2 \in Calls /\ c2.size = h.call.size /\ c2.size_min = h.call.size_min
  BY <1>2, <1>3, LoopFacts DEF Calls
<1>5. PICK len \in Nat, handed \in Int : len = h.call.len + n /\ handed = h.handed + n
  BY LoopFacts
<1>6. handed = len /\ h.call.size_min <= h.call.size /\ h.asked = h.call.size_min
      /\ h.asked \in Int
  BY <1>5, LoopFacts DEF LoopInv
<1>7. CASE len < c2.size_min
  <2>1. PICK call : call = [c2 EXCEPT !.pc = "loop", !.len = len]
    OBVIOUS
  <2>2. call \in Calls /\ call.pc = "loop" /\ call.len = len /\ call.size = c2.size
        /\ call.size_min = c2.size_min
    BY <1>4, <2>1 DEF Calls
  <2>3. PICK ret \in Rets, ended \in BOOLEAN : ret = h.ret /\ ended = h.ended
    BY LoopFacts
  <2>4. h' = [h EXCEPT !.call = call, !.ret = ret, !.ended = ended, !.handed = handed]
    BY <1>1, <1>2, <1>5, <1>7, <2>1, <2>3 DEF Advance, LoopInv
  <2> QED BY <1>4, <1>6, <1>7, <2>2, <2>4, LoopIs
<1>8. CASE ~(len < c2.size_min)
  <2>1. PICK ret : ret = Ret("data", len)
    OBVIOUS
  <2>2. ret \in Rets /\ ret.count = len /\ ret.kind = "data"
    BY <2>1, RetIs DEF RetKinds
  <2>3. PICK ended \in BOOLEAN : ended = h.ended
    BY LoopFacts
  <2>4. h' = [h EXCEPT !.call = NoCall, !.ret = ret, !.ended = ended, !.handed = handed]
    BY <1>1, <1>2, <1>5, <1>8, <2>1, <2>3 DEF Advance, LoopInv
  <2>5. ~(handed < h.asked)
    BY <1>4, <1>6, <1>8
  <2> QED BY <1>6, <2>2, <2>4, <2>5, NoCallIs, LoopIs
<1> QED BY <1>7, <1>8

LEMMA TransferredStep ==
  ASSUME LoopInv, ~UrlIdle, NEW k \in RetKinds, NEW n \in Int, k = "data" => n >= 0,
         UrlTransferred(Ret(k, n))
  PROVE  LoopInv' /\ h'.o = h.o
<1>1. Ret(k, n) \in Rets /\ Ret(k, n).kind = k /\ Ret(k, n).count = n
  BY RetIs
<1>2. CASE k = "EINTR"
  BY <1>1, <1>2, InterruptedStep DEF UrlTransferred
<1>3. CASE k # "EINTR" /\ h.o.nonblock
  <2>4. PICK ended \in BOOLEAN : ended = (k = "EOF")
    OBVIOUS
  <2>5. h.handed + n \in Int
    BY LoopFacts
  <2>1. PICK ret \in Rets, handed \in Int : ret = Ret(k, n) /\ handed = h.handed + n
    BY <1>1, <2>5
  <2>2. h' = [h EXCEPT !.call = NoCall, !.ret = ret, !.ended = ended, !.handed = handed]
    <3>1. h' = [h EXCEPT !.call = NoCall, !.ret = ret, !.handed = handed, !.ended = ended]
      BY <1>1, <1>3, <2>1, <2>4 DEF UrlTransferred
    <3> QED BY <3>1 DEF LoopInv
  <2>3. ret.kind = k /\ ret.count = handed
    BY <1>1, <1>3, <2>1 DEF LoopInv
  <2> QED BY <1>3, <2>1, <2>2, <2>3, <2>4, NoCallIs, LoopIs
<1>4. CASE k # "EINTR" /\ ~h.o.nonblock
  <2>1. CASE k = "EAGAIN"
    BY <1>1, <1>4, <2>1, RetryStep DEF UrlTransferred
  <2>2. CASE k = "EOF"
    BY <1>1, <1>4, <2>2, AtEndStep DEF UrlTransferred
  <2>3. CASE k = "data"
    <3>1. n \in Nat /\ Advance(n)
      BY <1>1, <1>4, <2>3 DEF UrlTransferred
    <3> QED BY <1>4, <3>1, AdvanceStep
  <2>4. CASE k \notin {"EAGAIN", "EOF", "data"}
    <3>1. UrlReturn(Ret(k, n))
      BY <1>1, <1>4, <2>4 DEF UrlTransferred
    <3> QED BY <2>4, <3>1, ReturnsOther
  <2> QED BY <2>1, <2>2, <2>3, <2>4
<1> QED BY <1>2, <1>3, <1>4

(* The steps of the loop between the calls of a protocol. *)
LEMMA CallerStep ==
  ASSUME LoopInv,
         \/ UrlOther
         \/ \E size \in 1 .. MaxSize : UrlRead(size, 1) \/ UrlRead(size, size)
  PROVE  LoopInv' /\ h'.o = h.o /\ UrlIdle
<1>1. CASE UrlOther
  <2>1. PICK call \in Calls, ret \in Rets : call = h.call /\ ret = Ret("none", 0)
    BY LoopFacts, RetIs DEF RetKinds
  <2>2. ret.kind = "none"
    BY <2>1, RetIs DEF RetKinds
  <2>3. h' = [h EXCEPT !.call = call, !.ret = ret, !.asked = 0, !.ended = FALSE, !.handed = 0]
    BY <1>1, <2>1 DEF UrlOther, LoopInv
  <2>4. UrlIdle /\ call.pc = "idle" /\ call.len = 0
    BY <1>1, <2>1 DEF UrlOther, UrlIdle, LoopInv
  <2>5. FALSE \in BOOLEAN /\ 0 \in Int
    OBVIOUS
  <2> QED BY <2>2, <2>3, <2>4, <2>5, LoopAsks
<1>2. CASE \E size \in 1 .. MaxSize : UrlRead(size, 1) \/ UrlRead(size, size)
  <2>0. PICK size \in 1 .. MaxSize : UrlRead(size, 1) \/ UrlRead(size, size)
    BY <1>2
  <2>1. PICK size_min \in {1, size} : UrlRead(size, size_min)
    BY <2>0
  <2>2. size \in Nat /\ 0 < size_min /\ size_min <= size /\ size_min \in Nat
    BY <2>0, <2>1, Numbers
  <2>3. PICK call : call = [NoCall EXCEPT !.pc = "loop", !.size = size, !.size_min = size_min,
                                          !.fast_retries = FAST_RETRIES]
    OBVIOUS
  <2>4. call \in Calls /\ call.pc = "loop" /\ call.len = 0 /\ call.size = size
        /\ call.size_min = size_min
    <3>1. NoCall \in Calls /\ NoCall.len = 0 /\ FAST_RETRIES \in Int
      BY DEF NoCall, FAST_RETRIES, Calls
    <3>2. size \in Int /\ size_min \in Int
      BY <2>2
    <3> QED BY <2>3, <3>1, <3>2 DEF Calls
  <2>5. PICK ret \in Rets : ret = Ret("none", 0)
    BY RetIs DEF RetKinds
  <2>6. h' = [h EXCEPT !.call = call, !.ret = ret, !.asked = size_min, !.ended = FALSE, !.handed = 0]
    BY <2>1, <2>3, <2>5 DEF UrlRead, LoopInv
  <2>7. UrlIdle
    BY <2>1 DEF UrlRead
  <2>8. FALSE \in BOOLEAN /\ 0 \in Int /\ size_min \in Int
    BY <2>2
  <2>9. call.len < call.size_min /\ call.size_min <= call.size
    BY <2>2, <2>4
  <2> QED BY <2>4, <2>6, <2>7, <2>8, <2>9, LoopAsks
<1> QED BY <1>1, <1>2

LEMMA LoopStep ==
  ASSUME LoopInv, (\E stop : UrlLoop(stop)) \/ TimeoutPasses
                  \/ (~UrlIdle /\ h' = [h EXCEPT !.call.pc = "transferring"])
  PROVE  LoopInv' /\ h'.o = h.o
<1>1. ASSUME NEW pc \in {"transfer", "transferring"}, ~UrlIdle, h' = [h EXCEPT !.call.pc = pc]
      PROVE  LoopInv' /\ h'.o = h.o
  <2>1. PICK call : call = [h.call EXCEPT !.pc = pc]
    OBVIOUS
  <2>2. /\ call \in Calls /\ call.pc # "idle" /\ call.len = h.call.len /\ call.size = h.call.size
        /\ call.size_min = h.call.size_min
    BY <2>1, LoopFacts DEF Calls
  <2>3. h' = [h EXCEPT !.call = call]
    BY <1>1, <2>1
  <2> QED BY <1>1, <2>2, <2>3, SameBytes
<1>2. CASE \E stop : UrlLoop(stop)
  <2>1. PICK stop : UrlLoop(stop)
    BY <1>2
  <2>2. ~UrlIdle
    BY <2>1 DEF UrlLoop, UrlIdle
  <2>3. CASE stop
    BY <2>1, <2>3, ReturnsOther DEF UrlLoop, RetKinds
  <2>4. CASE ~stop
    BY <1>1, <2>1, <2>2, <2>4 DEF UrlLoop
  <2> QED BY <2>3, <2>4
<1>3. CASE TimeoutPasses
  <2>1. PICK call : call = [h.call EXCEPT !.wait_since = "expired"]
    OBVIOUS
  <2>2. /\ call \in Calls /\ call.pc = h.call.pc /\ call.len = h.call.len
        /\ call.size = h.call.size /\ call.size_min = h.call.size_min
    BY <2>1, LoopFacts DEF Calls
  <2>3. h' = [h EXCEPT !.call = call]
    BY <1>3, <2>1 DEF TimeoutPasses
  <2>4. CASE ~UrlIdle
    BY <2>2, <2>3, <2>4, SameBytes DEF UrlIdle
  <2>5. CASE UrlIdle
    <3>1. PICK ret \in Rets, ended \in BOOLEAN, handed \in Int :
            ret = h.ret /\ ended = h.ended /\ handed = h.handed
      BY LoopFacts
    <3>2. h' = [h EXCEPT !.call = call, !.ret = ret, !.ended = ended, !.handed = handed]
      BY <2>3, <3>1 DEF LoopInv
    <3>3. call.pc = "idle" /\ call.len = 0
      BY <2>2, <2>5 DEF LoopInv, UrlIdle
    <3>4. ret.kind \in {"data", "EOF"} => /\ ret.count = handed /\ (ret.kind = "EOF" => ended)
                                          /\ handed < h.asked => ended \/ h.o.nonblock
      BY <2>5, <3>1 DEF LoopInv, ShortOnlyAtEnd
    <3> QED BY <2>2, <3>2, <3>3, <3>4, LoopIs
  <2> QED BY <2>4, <2>5
<1> QED BY <1>1, <1>2, <1>3
-----------------------------------------------------------------------------
(* smb.  Where an operation leads that has succeeded or failed. *)
LEMMA ClosingIs ==
  ASSUME NEW k \in Contexts
  PROVE  /\ Closing(k) \in {"close", "disconnect", "closed"}
         /\ Closing(k) = "close" => k.fh
         /\ Closing(k) = "disconnect" => k.connected /\ ~k.fh
         /\ Closing(k) = "closed" => ~k.fh
BY DEF Closing, Contexts

LEMMA SucceedsIs ==
  ASSUME SmbTypeOK, s.op \notin {"ready", "closed"}, NEW k, k = SmbSucceeds(s)
  PROVE  /\ k \in Contexts /\ k.op # "read"
         /\ ~gaveUp /\ FileInv /\ (s.op = "open" => s.fh)
               /\ (s.op = "read" => s.bytes_read.of = requests.sent)
            => /\ k.returned.by = k.returned.of
               /\ k.op \notin {"connect", "closed"} => k.connected
               /\ k.op \in {"fstat", "ready", "read"} => k.fh
               /\ k.fh => k.connected /\ k.op # "disconnect"
<1> USE DEF SmbTypeOK
<1>1. s \in Contexts /\ s.op \in Operations /\ requests.sent \in Int
  BY DEF Contexts
<1>2. CASE s.op = "connect"
  <2>1. k = [s EXCEPT !.connected = TRUE, !.op = "open"]
    BY <1>2 DEF SmbSucceeds
  <2> QED BY <1>1, <1>2, <2>1 DEF Contexts, Operations, FileInv
<1>3. CASE s.op = "open"
  <2>1. k = [s EXCEPT !.op = "fstat"]
    BY <1>3 DEF SmbSucceeds
  <2> QED BY <1>1, <1>3, <2>1 DEF Contexts, Operations, FileInv
<1>4. CASE s.op = "fstat"
  <2>1. k = [s EXCEPT !.op = "ready"]
    BY <1>4 DEF SmbSucceeds
  <2> QED BY <1>1, <1>4, <2>1 DEF Contexts, Operations, FileInv
<1>5. CASE s.op = "read"
  <2>1. PICK r : r = [by |-> requests.sent, of |-> s.bytes_read.of]
    OBVIOUS
  <2>2. r \in [by : Int, of : Int] /\ r.by = requests.sent /\ r.of = s.bytes_read.of
    BY <1>1, <2>1 DEF Contexts
  <2>3. k = [s EXCEPT !.op = "ready", !.returned = r]
    BY <1>5, <2>1 DEF SmbSucceeds
  <2>4. /\ k \in Contexts /\ k.op = "ready" /\ k.returned = r /\ k.fh = s.fh
        /\ k.connected = s.connected
    BY <1>1, <2>2, <2>3 DEF Contexts, Operations
  <2> QED BY <1>5, <2>2, <2>4 DEF FileInv
<1>6. CASE s.op = "close"
  <2>1. PICK k2 : k2 = [s EXCEPT !.fh = FALSE]
    OBVIOUS
  <2>2. k2 \in Contexts /\ k2.fh = FALSE /\ k2.connected = s.connected
    BY <1>1, <2>1 DEF Contexts
  <2>3. PICK op : op = Closing(k2)
    OBVIOUS
  <2>4. op \in {"disconnect", "closed"} /\ (op = "disconnect" => s.connected)
    BY <2>2, <2>3, ClosingIs
  <2>5. k = [s EXCEPT !.op = op, !.fh = FALSE]
    BY <1>6, <2>1, <2>3 DEF SmbSucceeds
  <2> QED BY <1>1, <1>6, <2>4, <2>5 DEF Contexts, Operations, FileInv
<1>7. CASE s.op = "disconnect"
  <2>1. k = [s EXCEPT !.op = "closed", !.connected = FALSE]
    BY <1>7 DEF SmbSucceeds
  <2> QED BY <1>1, <1>7, <2>1 DEF Contexts, Operations, FileInv
<1> QED BY <1>1, <1>2, <1>3, <1>4, <1>5, <1>6, <1>7 DEF Operations

LEMMA FailsIs ==
  ASSUME SmbTypeOK, s.op \notin {"ready", "closed"}, NEW k, k = SmbFails(s)
  PROVE  /\ k \in Contexts /\ k.op # "read"
         /\ ~gaveUp /\ FileInv
            => /\ k.returned.by = k.returned.of
               /\ k.op \notin {"connect", "closed"} => k.connected
               /\ k.op \in {"fstat", "ready", "read"} => k.fh
               /\ k.fh => k.connected /\ k.op # "disconnect"
<1>1. s \in Contexts /\ s.op \in Operations
  BY DEF SmbTypeOK, Contexts
<1>2. CASE s.op = "read"
  <2>1. k = [s EXCEPT !.op = "ready"]
    BY <1>2 DEF SmbFails
  <2> QED BY <1>1, <1>2, <2>1 DEF Contexts, Operations, FileInv
<1>3. CASE s.op \in {"connect", "open", "fstat"}
  <2>1. PICK op : op = Closing(s)
    OBVIOUS
  <2>2. /\ op \in {"close", "disconnect", "closed"}
        /\ op = "close" => s.fh
        /\ op = "disconnect" => s.connected /\ ~s.fh
    BY <1>1, <2>1, ClosingIs
  <2>3. k = [s EXCEPT !.op = op]
    BY <1>3, <2>1 DEF SmbFails
  <2>4. k \in Contexts /\ k.op = op /\ k.fh = s.fh /\ k.connected = s.connected
        /\ k.returned = s.returned
    BY <1>1, <2>2, <2>3 DEF Contexts, Operations
  <2>5. FileInv => s.returned.by = s.returned.of /\ (s.fh => s.connected)
    BY DEF FileInv
  <2> QED BY <2>2, <2>4, <2>5
<1>4. CASE s.op \in {"close", "disconnect"}
  <2>1. k = SmbSucceeds(s)
    BY <1>4 DEF SmbFails
  <2> QED BY <1>4, <2>1, SucceedsIs
<1> QED BY <1>1, <1>2, <1>3, <1>4 DEF Operations

(* An operation ends, without a request that is left behind, or it has     *)
(* given up.                                                               *)
LEMMA EndsIs ==
  ASSUME SmbInv, NEW k \in Contexts, k.op # "read", s' = [k EXCEPT !.pc = "send"],
         requests' = requests, gaveUp' \in BOOLEAN,
         ~gaveUp' =>
           /\ requests.pending = <<>> /\ k.returned.by = k.returned.of
           /\ k.op \notin {"connect", "closed"} => k.connected
           /\ k.op \in {"fstat", "ready", "read"} => k.fh
           /\ k.fh => k.connected /\ k.op # "disconnect"
  PROVE  SmbInv' /\ s'.op # "read"
<1>1. /\ s' \in Contexts /\ s'.op = k.op /\ s'.pc = "send" /\ s'.fh = k.fh
      /\ s'.connected = k.connected /\ s'.returned = k.returned
  BY DEF Contexts
<1>2. SmbTypeOK'
  BY <1>1 DEF SmbInv, SmbTypeOK
<1>3. ~gaveUp' => RequestInv' /\ FileInv'
  BY <1>1 DEF RequestInv, FileInv
<1> QED BY <1>1, <1>2, <1>3 DEF SmbInv

LEMMA ErrsStep ==
  ASSUME SmbInv, s.op \notin {"ready", "closed"}, NEW ret, SmbErrs(ret)
  PROVE  SmbInv' /\ s'.op # "read"
<1>1. PICK k : k = SmbFails(s)
  OBVIOUS
<1>2. s' = [k EXCEPT !.pc = "send"] /\ requests' = requests
      /\ gaveUp' = (gaveUp \/ requests.pending # <<>>)
  BY <1>1 DEF SmbErrs, SmbEnds
<1>3. SmbTypeOK /\ (~gaveUp => FileInv) /\ gaveUp \in BOOLEAN
  BY DEF SmbInv, SmbTypeOK
<1>4. gaveUp' \in BOOLEAN /\ (~gaveUp' => ~gaveUp /\ requests.pending = <<>>)
  BY <1>2, <1>3
<1> QED BY <1>1, <1>2, <1>3, <1>4, FailsIs, EndsIs

LEMMA SmbReplyStep ==
  ASSUME SmbInv, SmbReply
  PROVE  SmbInv' /\ s'.op # "read"
<1>1. s.pc = "wait" /\ s.op \notin {"ready", "closed"}
  BY DEF SmbReply, SmbInv, SmbTypeOK
<1>2. CASE \E ret : SmbErrs(ret)
  BY <1>1, <1>2, ErrsStep
<1>3. CASE /\ s.is_finished /\ s' = [SmbSucceeds(s) EXCEPT !.pc = "send"]
           /\ UNCHANGED <<requests, gaveUp>>
  <2>1. PICK k : k = SmbSucceeds(s)
    OBVIOUS
  <2>2. s' = [k EXCEPT !.pc = "send"] /\ requests' = requests /\ gaveUp' = gaveUp
    BY <1>3, <2>1
  <2>3. SmbTypeOK /\ gaveUp \in BOOLEAN /\ (~gaveUp => RequestInv /\ FileInv)
    BY DEF SmbInv, SmbTypeOK
  <2>4. ~gaveUp => /\ requests.pending = <<>> /\ (s.op = "open" => s.fh)
                   /\ s.op = "read" => s.bytes_read.of = requests.sent
    BY <1>1, <1>3, <2>3 DEF RequestInv
  <2> QED BY <1>1, <2>1, <2>2, <2>3, <2>4, SucceedsIs, EndsIs
<1> QED BY <1>2, <1>3 DEF SmbReply, SmbEnds

LEMMA SmbSendStep ==
  ASSUME SmbInv, SmbSend, UrlRoom \in Int
  PROVE  SmbInv' /\ (s'.op = "read" => s.op = "read" /\ h' = h)
<1>1. s.pc = "send" /\ s.op \notin {"ready", "closed"} /\ s \in Contexts /\ s.op \in Operations
  BY DEF SmbSend, InOperation, SmbInv, SmbTypeOK, Contexts
<1>2. CASE \E ret : SmbErrs(ret)
  BY <1>1, <1>2, ErrsStep
<1>3. CASE s' = Waiting(s) /\ UNCHANGED <<h, gaveUp>>
  <2>1. /\ s' \in Contexts /\ s'.pc = "wait" /\ s'.is_finished = FALSE /\ s'.op = s.op
        /\ s'.fh = s.fh /\ s'.connected = s.connected /\ s'.returned = s.returned
    BY <1>1, <1>3 DEF Waiting, Contexts
  <2>2. PICK size : size = IF s.op = "read" THEN UrlRoom ELSE 0
    OBVIOUS
  <2>3. PICK r : r = [op |-> s.op, no |-> requests.sent + 1, size |-> size]
    OBVIOUS
  <2>4. \/ requests' = requests
        \/ requests' = [pending |-> Append(requests.pending, r), sent |-> r.no]
    <3>1. r.no = requests.sent + 1
      BY <2>3
    <3>2. CASE \E ret : SmbErrs(ret)
      BY <3>2 DEF SmbErrs
    <3>3. CASE requests' = requests
      BY <3>3
    <3>4. CASE requests' = [pending |-> Append(requests.pending, r), sent |-> requests.sent + 1]
      BY <3>1, <3>4
    <3> QED BY <2>2, <2>3, <3>2, <3>3, <3>4 DEF SmbSend
  <2>5. r \in Requests /\ r.op = s.op /\ r.no \in Int
    BY <1>1, <2>2, <2>3 DEF Requests, SmbInv, SmbTypeOK
  <2>6. SmbTypeOK'
    BY <1>1, <1>3, <2>1, <2>4, <2>5 DEF SmbInv, SmbTypeOK
  <2>7. ~gaveUp => requests.pending = <<>> /\ FileInv
    BY <1>1 DEF SmbInv, RequestInv
  <2>8. ~gaveUp => FileInv'
    BY <2>1, <2>7 DEF FileInv
  <2>9. ~gaveUp => RequestInv'
    <3>1. CASE requests' = requests
      BY <2>1, <2>7, <3>1 DEF RequestInv
    <3>2. CASE requests' = [pending |-> Append(requests.pending, r), sent |-> r.no]
      <4>1. HAVE ~gaveUp
      <4>3. Append(<<>>, r) = <<r>>
        OBVIOUS
      <4>2. requests'.pending = <<r>> /\ requests'.sent = r.no
        BY <2>7, <3>2, <4>1, <4>3
      <4> QED BY <2>1, <2>5, <4>2 DEF RequestInv
    <3> QED BY <2>4, <3>1, <3>2
  <2> QED BY <1>3, <2>1, <2>6, <2>8, <2>9 DEF SmbInv
<1> QED BY <1>2, <1>3 DEF SmbSend

LEMMA SmbServiceStep ==
  ASSUME SmbInv, SmbService
  PROVE  SmbInv' /\ s'.op = s.op
<1>1. /\ s.pc # "send" /\ s.op \notin {"ready", "closed"} /\ s \in Contexts /\ SmbTypeOK
      /\ requests.pending \in Seq(Requests) /\ requests.pending # <<>> /\ gaveUp' = gaveUp
      /\ requests' = [requests EXCEPT !.pending = Tail(requests.pending)]
      /\ requests \in [pending : Seq(Requests), sent : Int]
  BY DEF SmbService, SmbInv, SmbTypeOK
<1>2. PICK r : r = Head(requests.pending)
  OBVIOUS
<1>3. r \in Requests /\ r = requests.pending[1] /\ r.size \in Int /\ r.no \in Int
  <2>1. r = requests.pending[1]
    BY <1>1, <1>2
  <2>2. Len(requests.pending) \in Nat /\ Len(requests.pending) >= 1
    BY <1>1
  <2>3. r \in Requests
    BY <1>1, <2>1, <2>2
  <2> QED BY <2>1, <2>3 DEF Requests
<1>4. PICK reply \in -1 .. r.size : s' = [Callback(s, r, reply) EXCEPT !.pc = "service"]
  BY <1>2 DEF SmbService
<1>5. reply \in Int
  BY <1>3, <1>4
<1>6. PICK k : k = Callback(s, r, reply)
  OBVIOUS
<1>7. /\ k \in Contexts /\ k.op = s.op /\ k.connected = s.connected /\ k.returned = s.returned
      /\ k.fh = s.fh \/ (k.fh /\ r.op = "open")
      /\ k.is_finished => s.is_finished \/ /\ r.op = "open" => k.fh
                                           /\ r.op = "read" => k.bytes_read.of = r.no
  <2>1. CASE reply < 0
    BY <1>1, <1>5, <1>6, <2>1 DEF Callback, Contexts
  <2>2. CASE ~(reply < 0)
    <3>1. PICK fh : fh = (s.fh \/ r.op = "open")
      OBVIOUS
    <3>2. PICK bytes : bytes = IF r.op = "read" THEN [of |-> r.no, n |-> reply] ELSE s.bytes_read
      OBVIOUS
    <3>3. fh \in BOOLEAN /\ bytes \in [of : Int, n : Int] /\ (r.op = "read" => bytes.of = r.no)
      BY <1>1, <1>3, <1>5, <3>1, <3>2 DEF Contexts
    <3>4. k = [s EXCEPT !.is_finished = TRUE, !.fh = fh, !.bytes_read = bytes]
      BY <1>6, <2>2, <3>1, <3>2 DEF Callback
    <3>5. /\ k \in Contexts /\ k.op = s.op /\ k.connected = s.connected /\ k.returned = s.returned
          /\ k.fh = fh /\ k.bytes_read = bytes
      BY <1>1, <3>3, <3>4 DEF Contexts
    <3>6. fh = s.fh \/ (fh /\ r.op = "open")
      BY <1>1, <3>1 DEF Contexts
    <3>7. r.op = "open" => fh
      BY <3>1
    <3> QED BY <3>3, <3>5, <3>6, <3>7
  <2> QED BY <2>1, <2>2
<1>8. /\ s' \in Contexts /\ s'.pc = "service" /\ s'.op = k.op /\ s'.fh = k.fh
      /\ s'.connected = k.connected /\ s'.returned = k.returned
      /\ s'.is_finished = k.is_finished /\ s'.bytes_read = k.bytes_read
  BY <1>4, <1>6, <1>7 DEF Contexts
<1>9. SmbTypeOK'
  <2>1. Tail(requests.pending) \in Seq(Requests)
    BY <1>1
  <2> QED BY <1>1, <1>7, <1>8, <2>1 DEF SmbTypeOK
<1>10. ~gaveUp => RequestInv' /\ FileInv'
  <2> HAVE ~gaveUp
  <2>1. /\ Len(requests.pending) = 1 /\ ~s.is_finished /\ r.op = s.op /\ r.no = requests.sent
        /\ FileInv
    BY <1>1, <1>3 DEF SmbInv, RequestInv
  <2>2. requests'.pending = <<>> /\ requests'.sent = requests.sent
    BY <1>1, <2>1
  <2>3. RequestInv'
    BY <1>7, <1>8, <2>1, <2>2 DEF RequestInv
  <2>4. FileInv'
    BY <1>7, <1>8, <2>1 DEF FileInv
  <2> QED BY <2>3, <2>4
<1> QED BY <1>1, <1>7, <1>8, <1>9, <1>10 DEF SmbInv

LEMMA SmbOtherStep ==
  ASSUME SmbInv, SmbStart \/ SmbServed \/ SmbClose
  PROVE  SmbInv' /\ (s'.op = "read" => s.op = "read" \/ SmbStart)
<1>1. SmbTypeOK /\ s \in Contexts /\ gaveUp' = gaveUp /\ requests' = requests
      /\ (~gaveUp => RequestInv /\ FileInv)
  BY DEF SmbStart, SmbServed, SmbClose, SmbInv, SmbTypeOK
<1>2. CASE SmbStart
  <2>1. s.op = "ready" /\ s.pc = "send" /\ s' = [s EXCEPT !.op = "read"]
    BY <1>1, <1>2 DEF SmbStart, SmbTypeOK
  <2> QED BY <1>1, <1>2, <2>1 DEF SmbInv, SmbTypeOK, Contexts, Operations, RequestInv, FileInv
<1>3. CASE SmbServed
  <2>1. s.pc = "service" /\ s' = [s EXCEPT !.pc = "wait"]
    BY <1>3 DEF SmbServed
  <2> QED BY <1>1, <2>1 DEF SmbInv, SmbTypeOK, Contexts, RequestInv, FileInv
<1>4. CASE SmbClose
  <2>1. PICK op : op = Closing(s)
    OBVIOUS
  <2>2. /\ op \in {"close", "disconnect", "closed"}
        /\ op = "close" => s.fh
        /\ op = "disconnect" => s.connected /\ ~s.fh
    BY <1>1, <2>1, ClosingIs
  <2>3. s.op = "ready" /\ s.pc = "send" /\ s' = [s EXCEPT !.op = op]
    BY <1>1, <1>4, <2>1 DEF SmbClose, SmbTypeOK
  <2>4. s' \in Contexts /\ s'.op = op /\ s'.pc = "send" /\ s'.fh = s.fh
        /\ s'.connected = s.connected /\ s'.returned = s.returned
    BY <1>1, <2>2, <2>3 DEF Contexts, Operations
  <2>5. SmbTypeOK'
    BY <1>1, <2>4 DEF SmbTypeOK
  <2>6. ~gaveUp => RequestInv' /\ FileInv'
    BY <1>1, <2>2, <2>3, <2>4 DEF RequestInv, FileInv
  <2> QED BY <1>1, <2>2, <2>4, <2>5, <2>6 DEF SmbInv
<1> QED BY <1>2, <1>3, <1>4
-----------------------------------------------------------------------------
(* udp.  The operations on a buffer of bytes. *)
LEMMA CellsIs ==
  ASSUME NEW f \in Fifos PROVE Cells(f) = FifoBytes
<1>1. DOMAIN f.buffer = 0 .. FifoBytes - 1
  BY DEF Fifos
<1>2. 0 \in Int /\ FifoBytes - 1 \in Int /\ FifoBytes \in Nat /\ FifoBytes > 0
  BY Numbers
<1>3. Cardinality(0 .. FifoBytes - 1) = IF 0 > FifoBytes - 1 THEN 0 ELSE FifoBytes - 1 - 0 + 1
  BY <1>2, FS_Interval
<1> QED BY <1>1, <1>2, <1>3 DEF Cells

LEMMA SizeIs ==
  ASSUME NEW f \in Fifos PROVE FifoSize(f) \in Int /\ FifoSpace(f) \in Int
<1>1. f.wndx - f.rndx \in Int
  BY DEF Fifos
<1>2. FifoSize(f) \in Int
  BY <1>1, Numbers DEF FifoSize
<1> QED BY <1>2, CellsIs, Numbers DEF FifoSpace

LEMMA PeekIs ==
  ASSUME NEW f \in Fifos, NEW n \in Int
  PROVE  FifoPeek(f, n) \in Seq(Byte) /\ (n > 0 => FifoPeek(f, n)[1] \in Byte)
<1> DEFINE e(j) == f.buffer[(f.rptr + j - 1) % FifoBytes]
<1>1. ASSUME NEW j \in Int PROVE e(j) \in Byte
  <2>1. f.rptr + j - 1 \in Int
    BY DEF Fifos
  <2>2. (f.rptr + j - 1) % FifoBytes \in 0 .. FifoBytes - 1
    BY <2>1, Numbers
  <2> QED BY <2>2 DEF Fifos
<1>2. FifoPeek(f, n) = [j \in 1 .. n |-> e(j)]
  BY CellsIs DEF FifoPeek
<1> HIDE DEF e
<1>3. FifoPeek(f, n) \in [1 .. n -> Byte]
  BY <1>1, <1>2
<1>4. CASE n > 0
  <2>1. n \in Nat /\ 1 \in 1 .. n
    BY <1>4
  <2> QED BY <1>3, <2>1
<1>5. CASE ~(n > 0)
  <2>1. 1 .. n = 1 .. 0 /\ 0 \in Nat
    BY <1>5
  <2>2. FifoPeek(f, n) \in [1 .. 0 -> Byte]
    BY <1>3, <2>1, Zenon
  <2>3. FifoPeek(f, n) \in Seq(Byte)
    BY <2>1, <2>2
  <2> QED BY <1>5, <2>3
<1> QED BY <1>4, <1>5

LEMMA DrainIs ==
  ASSUME NEW f \in Fifos, NEW n \in Int PROVE FifoDrain(f, n) \in Fifos
<1>1. PICK at : at = f.rptr + n
  OBVIOUS
<1>2. PICK rptr : rptr = IF at >= Cells(f) THEN at - Cells(f) ELSE at
  OBVIOUS
<1>3. PICK rndx : rndx = (f.rndx + n) % Modulus
  OBVIOUS
<1>4. FifoDrain(f, n) = [f EXCEPT !.rptr = rptr, !.rndx = rndx]
  BY <1>1, <1>2, <1>3 DEF FifoDrain, Fifos
<1>5. at \in Int
  BY <1>1 DEF Fifos
<1>6. rptr \in Int
  BY <1>2, <1>5, CellsIs, Numbers
<1>7. rndx \in Int
  <2>1. f.rndx + n \in Int
    BY DEF Fifos
  <2> QED BY <1>3, <2>1, Numbers
<1> QED BY <1>4, <1>6, <1>7 DEF Fifos

LEMMA WriteIs ==
  ASSUME NEW f \in Fifos, NEW src \in Seq(Byte) PROVE FifoWrite(f, src) \in Fifos
<1>1. PICK buffer : buffer = [k \in DOMAIN f.buffer |->
                                LET j == (k - f.wptr) % Cells(f) IN
                                IF j < Len(src) THEN src[j + 1] ELSE f.buffer[k]]
  OBVIOUS
<1>2. PICK wptr : wptr = (f.wptr + Len(src)) % Cells(f)
  OBVIOUS
<1>3. PICK wndx : wndx = (f.wndx + Len(src)) % Modulus
  OBVIOUS
<1>4. FifoWrite(f, src) = [f EXCEPT !.buffer = buffer, !.wptr = wptr, !.wndx = wndx]
  BY <1>1, <1>2, <1>3 DEF FifoWrite, Fifos
<1>5. f.wptr \in Int /\ f.wndx \in Int /\ f.buffer \in [0 .. FifoBytes - 1 -> Byte] /\ Len(src) \in Nat
  BY DEF Fifos
<1>6. wptr \in Int /\ wndx \in Int
  <2>1. f.wptr + Len(src) \in Int /\ f.wndx + Len(src) \in Int
    BY <1>5
  <2> QED BY <1>2, <1>3, <2>1, CellsIs, Numbers
<1>7. buffer \in [0 .. FifoBytes - 1 -> Byte]
  <2>1. ASSUME NEW k \in 0 .. FifoBytes - 1, NEW j, j = (k - f.wptr) % Cells(f)
        PROVE  (IF j < Len(src) THEN src[j + 1] ELSE f.buffer[k]) \in Byte
    <3>1. k - f.wptr \in Int
      BY <1>5, Numbers
    <3>2. j \in 0 .. FifoBytes - 1
      BY <2>1, <3>1, CellsIs, Numbers
    <3>3. CASE j < Len(src)
      <4>1. j + 1 \in 1 .. Len(src)
        BY <1>5, <3>2, <3>3, Numbers
      <4>2. src[j + 1] \in Byte
        BY <4>1
      <4> QED BY <3>3, <4>2
    <3>4. CASE ~(j < Len(src))
      BY <1>5, <3>4
    <3> QED BY <3>3, <3>4
  <2>2. DOMAIN f.buffer = 0 .. FifoBytes - 1
    BY <1>5
  <2> QED BY <1>1, <2>1, <2>2
<1> QED BY <1>4, <1>6, <1>7 DEF Fifos

LEMMA DatagramIs ==
  ASSUME NEW len \in Nat, NEW id \in Int, NEW at, NEW d, d = [id |-> id, len |-> len, at |-> at]
  PROVE  Wire(d) \in Seq(Byte)
<1>1. Header(d.len) \in Seq(Byte)
  <2>1. \A k \in 1 .. 4 : <<d.len, -k>> \in Byte
    BY DEF Byte
  <2>2. Header(d.len) \in [1 .. 4 -> Byte] /\ 4 \in Nat
    BY <2>1 DEF Header, HEADER
  <2>3. \A n \in Nat : \A e \in [1 .. n -> Byte] : e \in Seq(Byte)
    OBVIOUS
  <2> QED BY <2>2, <2>3, Zenon
<1>2. Datagram(d) \in Seq(Byte)
  <2>1. \A k \in 1 .. len : <<d.id, k>> \in Byte
    BY DEF Byte
  <2>2. Datagram(d) \in [1 .. len -> Byte]
    BY <2>1 DEF Datagram
  <2> QED BY <2>2
<1> QED BY <1>1, <1>2 DEF Wire

LEMMA UdpFacts ==
  ASSUME UdpTypeOK
  PROVE  /\ fifo \in Fifos /\ t.pc \in {"loop", "recv", "store", "end", "dead"} /\ t.left \in Int
         /\ t.len \in Nat /\ reader.tmp \in Int /\ reader.buf \in Seq(Byte) /\ Len(reader.buf) \in Nat
         /\ net.datagrams \in Int /\ net.signals \in Int
BY DEF UdpTypeOK

(* The thread, and what it leaves alone of the reader. *)
LEMMA UdpThreadStep ==
  ASSUME UdpTypeOK, (\E stop : UdpTask(stop) \/ UdpSelect(stop)) \/ UdpSpurious
  PROVE  UdpTypeOK' /\ reader' = reader /\ h' = h
<1>1. CASE \E stop : UdpInterrupted(stop) \/ UdpSelect(stop)
  BY <1>1, UdpFacts, SizeIs DEF UdpTypeOK, UdpInterrupted, UdpSelect
<1>2. CASE UdpReceive
  <2>1. /\ fifo' = fifo /\ reader' = reader /\ h' = h
        /\ circular_buffer_error' \in {circular_buffer_error, "EIO"}
    BY <1>2 DEF UdpReceive
  <2>2. /\ net' = net \/ net' = [net EXCEPT !.datagrams = net.datagrams + 1]
        /\ \/ \E pc \in {"loop", "end"} : t' = [t EXCEPT !.pc = pc]
           \/ \E len \in 0 .. MaxLen : t' = [t EXCEPT !.pc = "store", !.len = len]
    BY <1>2, UdpFacts DEF UdpReceive, UdpTypeOK
  <2>3. net' \in [datagrams : Int, signals : Int]
    <3>1. net \in [datagrams : Int, signals : Int] /\ net.datagrams + 1 \in Int
      BY UdpFacts DEF UdpTypeOK
    <3>2. PICK n \in Int : n = net.datagrams + 1
      BY <3>1
    <3>3. net' = net \/ net' = [net EXCEPT !.datagrams = n]
      BY <2>2, <3>2
    <3> QED BY <3>1, <3>2, <3>3
  <2>4. t' \in [pc : {"loop", "recv", "store", "end", "dead"}, left : Int, len : Nat]
    <3>1. CASE \E pc \in {"loop", "end"} : t' = [t EXCEPT !.pc = pc]
      BY <3>1 DEF UdpTypeOK
    <3>2. CASE \E len \in 0 .. MaxLen : t' = [t EXCEPT !.pc = "store", !.len = len]
      <4>1. PICK len \in 0 .. MaxLen : t' = [t EXCEPT !.pc = "store", !.len = len]
        BY <3>2
      <4>2. len \in Nat
        BY <4>1, Numbers
      <4> QED BY <4>1, <4>2 DEF UdpTypeOK
    <3> QED BY <2>2, <3>1, <3>2
  <2> QED BY <2>1, <2>3, <2>4 DEF UdpTypeOK
<1>3. CASE UdpStore
  <2>1. PICK d : d = [id |-> net.datagrams, len |-> t.len, at |-> After(stored)]
    OBVIOUS
  <2>2. Wire(d) \in Seq(Byte)
    BY <2>1, UdpFacts, DatagramIs
  <2>3. /\ fifo' = FifoWrite(fifo, Wire(d)) /\ t' = [t EXCEPT !.pc = "loop"]
        /\ h' = h /\ reader' = reader /\ circular_buffer_error' = circular_buffer_error /\ net' = net
    BY <1>3, <2>1 DEF UdpStore
  <2>4. fifo' \in Fifos
    BY <2>2, <2>3, UdpFacts, WriteIs
  <2> QED BY <2>3, <2>4 DEF UdpTypeOK
<1>4. CASE UdpEnd \/ UdpSpurious
  BY <1>4 DEF UdpTypeOK, UdpEnd, UdpSpurious
<1> QED BY <1>1, <1>2, <1>3, <1>4 DEF UdpTask

(* The reader: it returns an answer of udp, or goes on with its call. *)
Answers == {"EIO", "EINTR", "EAGAIN", "data"}

LEMMA UdpReaderStep ==
  ASSUME UdpTypeOK, UdpReader, LoopInv
  PROVE  /\ UdpTypeOK'
         /\ \/ /\ h' = h /\ (reader'.pc # "user" => reader.pc # "user" \/ UdpEnter)
            \/ /\ (reader.pc # "user" /\ reader'.pc = "user") \/ UdpDirect
               /\ \E k \in Answers, n \in Nat : UrlTransferred(Ret(k, n))
<1>1. /\ t' = t /\ circular_buffer_error' = circular_buffer_error
  BY DEF UdpReader, UdpEnter, UdpDecide, UdpHeader, UdpData, UdpDrain, UdpDirect
<1>2. NoRead \in [pc : {"user", "lock", "header", "data", "drain"}, tmp : Int, buf : Seq(Byte)]
      /\ NoRead.pc = "user"
  <2>1. <<>> \in Seq(Byte)
    OBVIOUS
  <2> QED BY <2>1 DEF NoRead
<1>3. CASE UdpEnter
  BY <1>3 DEF UdpEnter, UdpTypeOK
<1>4. CASE UdpDecide
  <2>1. fifo' = fifo /\ net' = net /\ reader.pc = "lock"
    BY <1>4 DEF UdpDecide
  <2>2. \/ /\ h' = h
           /\ reader' = reader \/ reader' = [reader EXCEPT !.pc = "header"]
        \/ /\ reader' = NoRead
           /\ \E k \in Answers : UrlTransferred(Ret(k, 0))
    <3>1. circular_buffer_error # "none" => circular_buffer_error \in Answers
      BY DEF UdpTypeOK, Answers
    <3> QED BY <1>4, <3>1 DEF UdpDecide, UdpReturn, Answers
  <2>3. UdpTypeOK'
    BY <1>1, <1>2, <2>1, <2>2 DEF UdpTypeOK
  <2>4. CASE h' = h
    BY <2>1, <2>3, <2>4
  <2>5. CASE reader' = NoRead /\ \E k \in Answers : UrlTransferred(Ret(k, 0))
    <3>1. 0 \in Nat /\ reader'.pc = "user"
      BY <1>2, <2>5
    <3> QED BY <2>1, <2>3, <2>5, <3>1
  <2> QED BY <2>2, <2>4, <2>5
<1>5. CASE UdpHeader
  <2>1. PICK tmp : tmp = FifoPeek(fifo, HEADER)[1][1]
    OBVIOUS
  <2>2. tmp \in Int
    <3>1. HEADER \in Int /\ HEADER > 0
      BY DEF HEADER
    <3>2. FifoPeek(fifo, HEADER)[1] \in Byte
      BY <3>1, UdpFacts, PeekIs
    <3> QED BY <2>1, <3>2 DEF Byte
  <2>3. /\ h' = h /\ net' = net /\ reader' = [reader EXCEPT !.pc = "data", !.tmp = tmp]
        /\ fifo' = FifoDrain(fifo, HEADER) /\ reader.pc # "user"
    BY <1>5, <2>1 DEF UdpHeader
  <2>4. fifo' \in Fifos
    BY <2>3, UdpFacts, DrainIs DEF HEADER
  <2> QED BY <1>1, <2>2, <2>3, <2>4 DEF UdpTypeOK
<1>6. CASE UdpData
  <2>1. PICK avail : avail = Smaller(reader.tmp, UrlRoom)
    OBVIOUS
  <2>2. avail \in Int
    BY <2>1, UdpFacts, LoopFacts DEF Smaller
  <2>3. PICK buf : buf = FifoPeek(fifo, avail)
    OBVIOUS
  <2>4. buf \in Seq(Byte)
    BY <2>2, <2>3, UdpFacts, PeekIs
  <2>5. /\ h' = h /\ net' = net /\ reader' = [reader EXCEPT !.pc = "drain", !.buf = buf]
        /\ fifo' = FifoDrain(fifo, avail) /\ reader.pc # "user"
    BY <1>6, <2>1, <2>3 DEF UdpData
  <2>6. fifo' \in Fifos
    BY <2>2, <2>5, UdpFacts, DrainIs
  <2> QED BY <1>1, <2>4, <2>5, <2>6 DEF UdpTypeOK
<1>7. CASE UdpDrain
  <2>1. /\ fifo' = FifoDrain(fifo, Remainder) /\ reader' = NoRead /\ net' = net
        /\ UrlTransferred(Ret("data", Len(reader.buf))) /\ reader.pc # "user"
    BY <1>7 DEF UdpDrain, UdpReturn
  <2>2. Remainder \in Int
    BY UdpFacts DEF Remainder
  <2>3. fifo' \in Fifos
    BY <2>1, <2>2, UdpFacts, DrainIs
  <2>4. UdpTypeOK'
    BY <1>1, <1>2, <2>1, <2>3 DEF UdpTypeOK
  <2>5. Len(reader.buf) \in Nat /\ "data" \in Answers
    BY UdpFacts DEF Answers
  <2> QED BY <1>2, <2>1, <2>4, <2>5
<1>8. CASE UdpDirect
  <2>1. fifo' = fifo /\ reader' = reader /\ UrlTransfers("udp")
    BY <1>8 DEF UdpDirect
  <2>2. net' \in [datagrams : Int, signals : Int]
    BY <1>8, UdpFacts DEF UdpDirect, UdpTypeOK
  <2>3. ASSUME NEW len \in 0 .. MaxLen PROVE Smaller(len, UrlRoom) \in Nat
    <3>1. len \in Nat
      BY Numbers
    <3>2. UrlRoom \in Int /\ UrlRoom > 0
      BY <2>1, LoopFacts DEF UrlTransfers, UrlIdle
    <3> QED BY <3>1, <3>2 DEF Smaller
  <2>4. \E k \in Answers, n \in Nat : UrlTransferred(Ret(k, n))
    BY <1>8, <2>3 DEF UdpDirect, Answers
  <2> QED BY <1>1, <1>8, <2>1, <2>2, <2>4 DEF UdpTypeOK
<1> QED BY <1>3, <1>4, <1>5, <1>6, <1>7, <1>8 DEF UdpReader
-----------------------------------------------------------------------------
(* The protocols under the loop. *)
Inv == AsyncInv /\ LoopInv /\ Serving /\ UdpTypeOK /\ SmbInv

LEMMA Starts ==
  ASSUME AllInit PROVE Inv
<1>1. PICK o \in UrlOptions : UrlInit(o)
  BY DEF AllInit
<1>2. AsyncInv
  BY AsyncStarts DEF AllInit
<1>3. h = [o |-> o, call |-> NoCall, ret |-> Ret("none", 0), asked |-> 0, ended |-> FALSE, handed |-> 0]
  BY <1>1 DEF UrlInit
<1>4. LoopInv
  <2>1. o \in UrlOption
    BY <1>1, UrlAssumption DEF UrlAssumption
  <2>2. PICK ret \in Rets : ret = Ret("none", 0) /\ ret.kind = "none"
    BY RetIs DEF RetKinds
  <2>3. h = [o |-> o, call |-> NoCall, ret |-> ret, asked |-> 0, ended |-> FALSE, handed |-> 0]
    BY <1>3, <2>2
  <2> QED BY <2>1, <2>2, <2>3, NoCallIs DEF LoopInv, UrlIdle, ShortOnlyAtEnd
<1>5. UdpTypeOK
  <2>1. Junk \in Byte
    BY DEF Junk, Byte
  <2>2. fifo \in Fifos
    BY <2>1 DEF AllInit, UdpInit, Alloc, Fifos
  <2>3. <<>> \in Seq(Byte)
    OBVIOUS
  <2> QED BY <2>2, <2>3 DEF AllInit, UdpInit, UdpTypeOK, NoRead
<1>6. SmbInv
  <2>1. <<>> \in Seq(Requests)
    OBVIOUS
  <2>2. s \in Contexts
    BY DEF AllInit, SmbInit, Contexts, Operations
  <2>3. requests.pending = <<>> /\ requests \in [pending : Seq(Requests), sent : Int] /\ gaveUp = FALSE
    BY <2>1 DEF AllInit, SmbInit
  <2>4. /\ s.pc = "send" /\ s.op = "connect" /\ s.fh = FALSE /\ s.returned.by = s.returned.of
    BY DEF AllInit, SmbInit
  <2> QED BY <2>2, <2>3, <2>4 DEF SmbInv, SmbTypeOK, RequestInv, FileInv
<1>7. Serving
  BY DEF AllInit, UdpInit, SmbInit, NoRead, Serving
<1> QED BY <1>2, <1>4, <1>5, <1>6, <1>7 DEF Inv

LEMMA LoopStays == ASSUME LoopInv, h' = h PROVE LoopInv'
BY DEF LoopInv, UrlIdle, ShortOnlyAtEnd

LEMMA UdpStays == ASSUME UdpTypeOK, UNCHANGED udp PROVE UdpTypeOK' /\ reader' = reader
BY DEF UdpTypeOK, udp

LEMMA SmbStays == ASSUME SmbInv, UNCHANGED smb PROVE SmbInv' /\ s' = s
BY DEF SmbInv, SmbTypeOK, RequestInv, FileInv, smb

(* async. *)
LEMMA MainStepIs == ASSUME AsyncInv, MainStep PROVE AsyncInv'
BY CallStep, SeekStep, SeekRequestStep, SeekAnsweredStep, ReadStep, ReadDataStep DEF MainStep

LEMMA BackStepIs == ASSUME AsyncInv, BackStep PROVE AsyncInv'
BY BackStopsStep, ServeSeekStep, FillStep DEF BackStep

LEMMA AsyncNext ==
  ASSUME AsyncInv, LoopInv, [AllNext]_all PROVE AsyncInv'
<1>1. CASE UNCHANGED vars
  BY <1>1, AsyncStays DEF vars
<1>2. CASE SpuriousWake \/ Interrupt
  BY <1>2, AsyncStays DEF SpuriousWake, Interrupt
<1>3. CASE AsyncReader
  <2>1. CASE AsyncCalled
    BY <2>1, LoopFacts, CallStep DEF AsyncCalled
  <2>2. CASE AsyncReturned
    BY <1>1, <2>2 DEF AsyncReturned
  <2> QED BY <1>3, <2>1, <2>2, MainStepIs DEF AsyncReader
<1>4. CASE AsyncThread
  BY <1>4, BackStepIs DEF AsyncThread
<1>5. CASE AsyncUser
  BY <1>5, CallStep DEF AsyncUser
<1>6. \/ UNCHANGED vars \/ SpuriousWake \/ Interrupt \/ AsyncReader \/ AsyncThread \/ AsyncUser
  BY DEF AllNext, all, User, Clock, Reader, Thread, Loop, Async, Udp, Smb, Ended
<1> QED BY <1>1, <1>2, <1>3, <1>4, <1>5, <1>6

LEMMA AsyncLoopStep ==
  ASSUME Inv, Using("async"),
         \/ AsyncUser \/ AsyncReader \/ AsyncThread \/ (SpuriousWake /\ UNCHANGED h),
         UNCHANGED <<udp, smb>>
  PROVE  LoopInv' /\ Serving' /\ UdpTypeOK' /\ SmbInv' /\ h'.o = h.o
<1>1. UdpTypeOK' /\ SmbInv' /\ reader' = reader /\ s' = s
  BY UdpStays, SmbStays DEF Inv
<1>2. LoopInv' /\ h'.o = h.o
  <2>1. CASE h' = h
    BY <2>1, LoopStays DEF Inv
  <2>2. CASE UrlOther
    BY <2>2, CallerStep DEF Inv
  <2>3. CASE AsyncCalled
    BY <2>3, LoopStep DEF Inv, AsyncCalled, UrlTransfers, UrlIdle
  <2>4. CASE AsyncReturned
    <3>1. PICK k, n : k = m.result.kind /\ n = m.result.count
      OBVIOUS
    <3>2. k \in RetKinds /\ n \in Nat
      BY <3>1 DEF Inv, AsyncInv, AsyncTypeOK, MainOK, Results, RetKinds
    <3>3. ~UrlIdle /\ UrlTransferred(Ret(k, n))
      BY <2>4, <3>1 DEF AsyncReturned, UrlIdle
    <3> QED BY <3>2, <3>3, TransferredStep DEF Inv
  <2> QED BY <2>1, <2>2, <2>3, <2>4 DEF AsyncUser, AsyncReader, AsyncThread
<1>3. reader.pc = "user" /\ s.op # "read"
  BY DEF Inv, Serving, Using
<1> QED BY <1>1, <1>2, <1>3 DEF Serving

LEMMA UdpLoopStep ==
  ASSUME Inv, Using("udp"), UNCHANGED <<vars, smb>>,
         UdpReader \/ (\E stop : UdpTask(stop) \/ UdpSelect(stop)) \/ UdpSpurious
  PROVE  LoopInv' /\ Serving' /\ UdpTypeOK' /\ SmbInv'
<1>1. SmbInv' /\ s' = s /\ s.op # "read"
  BY SmbStays DEF Inv, Serving, Using
<1>2. CASE (\E stop : UdpTask(stop) \/ UdpSelect(stop)) \/ UdpSpurious
  <2>1. UdpTypeOK' /\ reader' = reader /\ h' = h
    BY <1>2, UdpThreadStep DEF Inv
  <2> QED BY <1>1, <2>1, LoopStays DEF Inv, Serving, Using
<1>3. CASE UdpReader
  <2>1. UdpTypeOK'
    BY <1>3, UdpReaderStep DEF Inv
  <2>2. CASE h' = h /\ (reader'.pc # "user" => reader.pc # "user" \/ UdpEnter)
    <3>1. UdpEnter => h.call.pc = "transfer" /\ h.o.fifo
      BY DEF UdpEnter, UrlTransfers
    <3> QED BY <1>1, <2>1, <2>2, <3>1, LoopStays DEF Inv, Serving, Using
  <2>3. CASE /\ (reader.pc # "user" /\ reader'.pc = "user") \/ UdpDirect
             /\ \E k \in Answers, n \in Nat : UrlTransferred(Ret(k, n))
    <3>1. ~UrlIdle
      BY <2>3 DEF Inv, Serving, UdpDirect, UrlTransfers, UrlIdle
    <3>2. PICK k \in Answers, n \in Nat : UrlTransferred(Ret(k, n))
      BY <2>3
    <3>3. k \in RetKinds /\ n \in Int /\ n >= 0
      BY <3>2 DEF Answers, RetKinds
    <3>4. LoopInv' /\ h'.o = h.o
      BY <3>1, <3>2, <3>3, TransferredStep DEF Inv
    <3>5. reader'.pc = "user"
      <4>1. UdpDirect => reader' = reader /\ ~h.o.fifo
        BY DEF UdpDirect
      <4> QED BY <2>3, <4>1 DEF Inv, Serving
    <3> QED BY <1>1, <2>1, <3>4, <3>5 DEF Serving
  <2> QED BY <1>3, <2>2, <2>3, UdpReaderStep DEF Inv
<1> QED BY <1>2, <1>3

LEMMA SmbEndsLoop ==
  ASSUME Inv, NEW k, NEW kind \in RetKinds, NEW n \in Int, kind = "data" => n >= 0,
         SmbEnds(k, Ret(kind, n))
  PROVE  LoopInv' /\ h'.o = h.o
<1>1. CASE s.op = "read"
  <2>1. UrlTransferred(Ret(kind, n)) /\ ~UrlIdle
    BY <1>1 DEF SmbEnds, Inv, Serving, UrlIdle
  <2> QED BY <2>1, TransferredStep DEF Inv
<1>2. CASE s.op # "read"
  BY <1>2, LoopStays DEF SmbEnds, Inv
<1> QED BY <1>1, <1>2

LEMMA SmbLoopStep ==
  ASSUME Inv, Using("smb"), UNCHANGED <<vars, udp>>,
         SmbStep \/ SmbService \/ SmbBreaks \/ SmbClose
  PROVE  LoopInv' /\ Serving' /\ UdpTypeOK' /\ SmbInv' /\ h'.o = h.o
<1>1. UdpTypeOK' /\ reader' = reader /\ reader.pc = "user"
  BY UdpStays DEF Inv, Serving, Using
<1>2. \A kind \in {"EIO", "ETIMEDOUT"} : SmbErrs(Ret(kind, 0)) => LoopInv' /\ h'.o = h.o
  BY SmbEndsLoop DEF SmbErrs, RetKinds
<1>3. CASE SmbBreaks \/ SmbTimesOut
  <2>1. \E kind \in {"EIO", "ETIMEDOUT"} : SmbErrs(Ret(kind, 0))
    BY <1>3 DEF SmbBreaks, SmbTimesOut
  <2>2. s.op \notin {"ready", "closed"}
    BY <1>3 DEF SmbBreaks, SmbTimesOut, Unanswered, Inv, SmbInv, SmbTypeOK
  <2>3. SmbInv' /\ s'.op # "read"
    BY <2>1, <2>2, ErrsStep DEF Inv
  <2> QED BY <1>1, <1>2, <2>1, <2>3 DEF Serving
<1>4. CASE SmbReply
  <2>1. SmbInv' /\ s'.op # "read"
    BY <1>4, SmbReplyStep DEF Inv
  <2>2. LoopInv' /\ h'.o = h.o
    <3>1. CASE SmbErrs(Ret("EIO", 0))
      BY <1>2, <3>1
    <3>2. CASE SmbEnds(SmbSucceeds(s), IF s.bytes_read.n > 0 THEN Ret("data", s.bytes_read.n)
                                       ELSE Ret("EOF", 0))
      <4>1. s.bytes_read.n \in Int
        BY DEF Inv, SmbInv, SmbTypeOK, Contexts
      <4>2. CASE s.bytes_read.n > 0
        <5>1. SmbEnds(SmbSucceeds(s), Ret("data", s.bytes_read.n)) /\ s.bytes_read.n >= 0
          BY <3>2, <4>1, <4>2
        <5> QED BY <4>1, <5>1, SmbEndsLoop DEF RetKinds
      <4>3. CASE ~(s.bytes_read.n > 0)
        BY <3>2, <4>3, SmbEndsLoop DEF RetKinds
      <4> QED BY <4>2, <4>3
    <3> QED BY <1>4, <3>1, <3>2 DEF SmbReply
  <2> QED BY <1>1, <2>1, <2>2 DEF Serving
<1>5. CASE SmbSend
  <2>1. SmbInv' /\ (s'.op = "read" => s.op = "read" /\ h' = h)
    BY <1>5, SmbSendStep, LoopFacts DEF Inv
  <2>2. LoopInv' /\ h'.o = h.o
    BY <1>2, <1>5, LoopStays DEF SmbSend, Inv
  <2> QED BY <1>1, <2>1, <2>2 DEF Inv, Serving, Using
<1>6. CASE SmbService
  <2>1. SmbInv' /\ s'.op = s.op /\ h' = h
    BY <1>6, SmbServiceStep DEF Inv, SmbService
  <2> QED BY <1>1, <2>1, LoopStays DEF Inv, Serving, Using
<1>7. CASE SmbStart \/ SmbServed
  <2>1. SmbInv' /\ h' = h /\ (s'.op = "read" => s.op = "read" \/ SmbStart)
    BY <1>7, SmbOtherStep DEF Inv, SmbStart, SmbServed
  <2>2. SmbStart => h.call.pc = "transfer"
    BY DEF SmbStart, UrlTransfers
  <2> QED BY <1>1, <2>1, <2>2, LoopStays DEF Inv, Serving, Using
<1>8. CASE SmbClose
  <2>1. SmbInv'
    BY <1>8, SmbOtherStep DEF Inv
  <2>2. LoopInv' /\ h'.o = h.o
    BY <1>8, CallerStep DEF Inv, SmbClose
  <2>3. s'.op # "read"
    <3>1. s \in Contexts /\ s' = [s EXCEPT !.op = Closing(s)]
      BY <1>8 DEF SmbClose, Inv, SmbInv, SmbTypeOK
    <3>2. Closing(s) # "read" /\ s'.op = Closing(s)
      BY <3>1, ClosingIs DEF Contexts
    <3> QED BY <3>2
  <2> QED BY <1>1, <2>1, <2>2, <2>3 DEF Serving
<1> QED BY <1>3, <1>4, <1>5, <1>6, <1>7, <1>8 DEF SmbStep

LEMMA Steps ==
  ASSUME Inv, [AllNext]_all PROVE Inv'
<1>1. AsyncInv'
  BY AsyncNext DEF Inv
<1>2. CASE UNCHANGED <<udp, smb>> /\ (UNCHANGED h \/ User \/ Loop \/ Clock)
  <2>1. UdpTypeOK' /\ SmbInv' /\ reader' = reader /\ s' = s
    BY <1>2, UdpStays, SmbStays DEF Inv
  <2>2. CASE UNCHANGED h
    BY <1>1, <2>1, <2>2, LoopStays DEF Inv, Serving, Using
  <2>3. CASE User
    <3>1. LoopInv' /\ UrlIdle
      BY <2>3, CallerStep DEF Inv, User
    <3> QED BY <1>1, <2>1, <3>1 DEF Inv, Serving, UrlIdle
  <2>4. CASE Loop
    <3>1. LoopInv' /\ h.call.pc = "loop"
      BY <2>4, LoopStep DEF Inv, Loop, UrlLoop
    <3> QED BY <1>1, <2>1, <3>1 DEF Inv, Serving
  <2>5. CASE Clock
    <3>1. LoopInv' /\ h'.o = h.o /\ h' = [h EXCEPT !.call.wait_since = "expired"]
      BY <2>5, LoopStep DEF Inv, Clock, TimeoutPasses
    <3>2. h'.call.pc = h.call.pc
      BY <3>1, LoopFacts DEF Inv, LoopInv, Calls
    <3> QED BY <1>1, <2>1, <3>1, <3>2 DEF Inv, Serving, Using
  <2> QED BY <1>2, <2>2, <2>3, <2>4, <2>5
<1>3. CASE \/ Async(AsyncReader) \/ Async(AsyncThread) \/ Async(AsyncUser)
           \/ Async(SpuriousWake /\ UNCHANGED h)
  BY <1>1, <1>3, AsyncLoopStep DEF Async, Inv
<1>4. CASE \/ Udp(UdpReader) \/ Udp(UdpTask(interrupted)) \/ Udp(UdpSelect(interrupted))
           \/ Udp(UdpSpurious)
  BY <1>1, <1>4, UdpLoopStep DEF Udp, Inv
<1>5. CASE Smb(SmbStep) \/ Smb(SmbService) \/ Smb(SmbBreaks) \/ Smb(SmbClose)
  BY <1>1, <1>5, SmbLoopStep DEF Smb, Inv
<1> QED BY <1>2, <1>3, <1>4, <1>5 DEF AllNext, User, Clock, Reader, Thread, Loop, Ended, all

(* The inductive invariant: the ring, its thread and the requests to seek  *)
(* of async, the counts of the retry loop, the types of udp and the reply  *)
(* that smb waits for.                                                     *)
THEOREM ProtocolsCorrect == AllSpec => []Inv
BY Starts, Steps, PTL DEF AllSpec

(* What is in the ring is what comes at the position (see AsyncProtocol). *)
THEOREM RingFollowsPosition == AllSpec => []DataAtPosition
<1>1. Inv => DataAtPosition
  BY DEF Inv, AsyncInv
<1> QED BY ProtocolsCorrect, <1>1, PTL

(* A read returns all it was given, less than it was to return at least    *)
(* only at the end or without waiting, and the end only at the end (see    *)
(* Url).                                                                   *)
THEOREM ReadsAreShortOnlyAtEnd == AllSpec => []ShortOnlyAtEnd
<1>1. Inv => ShortOnlyAtEnd
  BY DEF Inv, LoopInv
<1> QED BY ProtocolsCorrect, <1>1, PTL

(* Replies answer their own requests, unless smb has given up on one (see  *)
(* SmbProtocol).                                                           *)
THEOREM RepliesAreOwn == AllSpec => []OwnReply
<1>1. Inv => OwnReply
  BY DEF Inv, SmbInv, SmbTypeOK, RequestInv, FileInv, OwnReply
<1> QED BY ProtocolsCorrect, <1>1, PTL
-----------------------------------------------------------------------------
(* async is a stream of bytes: what its steps are to its user. *)
StreamStep == [Stream!Next]_(Stream!vars)

LEMMA SameResult == \A k, f, n : Stream!Result(k, f, n) = Result(k, f, n)
BY DEF Stream!Result, Result

LEMMA StreamStutters ==
  ASSUME c'.logical_pos = c.logical_pos, m'.call = m.call, m'.target = m.target,
         m'.result = m.result
  PROVE  StreamStep
BY DEF StreamStep, Stream!vars

LEMMA ReturnIs ==
  ASSUME AsyncInv, NEW r, m' = Returned(r)
  PROVE  m'.call = "none" /\ m'.target = 0 /\ m'.result = r
BY DEF AsyncInv, AsyncTypeOK, MainOK, Returned

(* A call that fails leaves the position; a seek ends where it was asked   *)
(* to, or short of it.                                                     *)
LEMMA FailIs ==
  ASSUME AsyncInv, m.call \in {"read", "seek"}, m' = Returned(Error),
         c'.logical_pos = c.logical_pos
  PROVE  StreamStep
<1>1. m'.call = "none" /\ m'.target = 0 /\ m'.result = Stream!Result("error", 0, 0)
  BY ReturnIs, SameResult DEF Error
<1> QED BY <1>1 DEF StreamStep, Stream!Next, Stream!Fail, Stream!Return

LEMMA SeekIs ==
  ASSUME AsyncInv, m.call = "seek", m' = Returned(Result("at", c'.logical_pos, 0)),
         \/ c'.logical_pos = m.target
         \/ c'.logical_pos = c.logical_pos /\ c.logical_pos < m.target
  PROVE  StreamStep
<1>1. m'.call = "none" /\ m'.target = 0 /\ m'.result = Stream!Result("at", c'.logical_pos, 0)
  BY ReturnIs, SameResult
<1> QED BY <1>1 DEF StreamStep, Stream!Next, Stream!Seek, Stream!Return

LEMMA CallIsStart ==
  ASSUME AsyncInv, (\E size : ReadCall(size)) \/ (\E to \in 0 .. Size + 1 : SeekCall(to)) \/ CloseCall
  PROVE  StreamStep
<1>1. m \in [pc : {"user", "reading", "seek", "seeking", "join", "closed"},
             call : {"none", "read", "seek", "close"}, target : Nat, to_read : Int, seen : Int,
             result : Results]
      /\ m.pc = "user" /\ m.call = "none" /\ m.target = 0 /\ FlagsOK
  BY DEF AsyncInv, AsyncTypeOK, MainOK, CallInv, ReadCall, SeekCall, CloseCall
<1>2. m'.result = m.result /\ c'.logical_pos = c.logical_pos
  <2>1. c'.logical_pos = c.logical_pos
    BY <1>1 DEF ReadCall, SeekCall, CloseCall, FlagsOK
  <2>2. \/ \E size : m' = [m EXCEPT !.pc = "reading", !.call = "read", !.to_read = size]
        \/ \E to, seen : m' = [m EXCEPT !.pc = "seek", !.call = "seek", !.target = to, !.seen = seen]
        \/ m' = [m EXCEPT !.pc = "join", !.call = "close"]
    BY DEF ReadCall, SeekCall, CloseCall
  <2>3. m'.result = m.result
    BY <1>1, <2>2
  <2> QED BY <2>1, <2>3
<1>3. \/ m'.call = "read" /\ m'.target = 0
      \/ m'.call = "seek" /\ m'.target \in Nat
      \/ m'.call = "close" /\ m'.target = 0
  <2>1. CASE (\E size : ReadCall(size)) \/ CloseCall
    BY <1>1, <2>1 DEF ReadCall, CloseCall
  <2>2. CASE \E to \in 0 .. Size + 1 : SeekCall(to)
    <3>1. PICK to \in 0 .. Size + 1 : SeekCall(to)
      BY <2>2
    <3>2. to \in Nat /\ m' = [m EXCEPT !.pc = "seek", !.call = "seek", !.target = to, !.seen = RingSize]
      <4>1. to \in Nat
        BY <3>1, Numbers
      <4> QED BY <3>1, <4>1 DEF SeekCall
    <3>3. m'.call = "seek" /\ m'.target = to
      BY <1>1, <3>2
    <3> QED BY <3>2, <3>3
  <2> QED BY <2>1, <2>2
<1> QED BY <1>1, <1>2, <1>3 DEF StreamStep, Stream!Next, Stream!Start

LEMMA SeekIsSeek ==
  ASSUME AsyncInv, SeekHere \/ SeekForward \/ SeekBackward \/ SeekRefused
  PROVE  StreamStep
<1>1. MainOK /\ FlagsOK /\ m.call = "seek"
  BY DEF AsyncInv, AsyncTypeOK, CallInv, SeekHere, SeekForward, SeekBackward, SeekRefused
<1>2. CASE SeekHere
  BY <1>1, <1>2, SeekIs DEF SeekHere
<1>3. CASE SeekForward
  BY <1>1, <1>3, StreamStutters DEF SeekForward, MainOK
<1>4. CASE SeekBackward
  <2>1. c'.logical_pos = m.target /\ m' = Returned(Result("at", m.target, 0))
    BY <1>1, <1>4 DEF SeekBackward, FlagsOK
  <2> QED BY <1>1, <2>1, SeekIs
<1>5. CASE SeekRefused
  BY <1>1, <1>5, FailIs DEF SeekRefused
<1> QED BY <1>2, <1>3, <1>4, <1>5

LEMMA RequestIsSeek ==
  ASSUME AsyncInv, SeekRequest \/ SeekAnswered
  PROVE  StreamStep
<1>1. MainOK /\ FlagsOK /\ m.call = "seek" /\ SeekInv /\ m.target \in Nat
  BY DEF AsyncInv, AsyncTypeOK, MainOK, CallInv, SeekRequest, SeekAnswered
<1>2. CASE SeekRequest
  <2>1. c'.logical_pos = c.logical_pos
    BY <1>1, <1>2 DEF SeekRequest, FlagsOK
  <2>2. CASE Interrupted
    BY <1>1, <1>2, <2>1, <2>2, FailIs DEF SeekRequest
  <2>3. CASE ~Interrupted
    <3>1. m' = [m EXCEPT !.pc = "seeking"]
      BY <1>2, <2>3 DEF SeekRequest
    <3>2. m'.call = m.call /\ m'.target = m.target /\ m'.result = m.result
      BY <1>1, <3>1 DEF MainOK
    <3> QED BY <2>1, <3>2, StreamStutters
  <2> QED BY <2>2, <2>3
<1>3. CASE SeekAnswered
  <2>1. m.pc = "seeking"
    BY <1>3 DEF SeekAnswered
  <2>2. CASE Interrupted
    <3>1. c' = [c EXCEPT !.abort_request = TRUE] /\ m' = Returned(Error)
      BY <1>3, <2>2 DEF SeekAnswered
    <3>2. c'.logical_pos = c.logical_pos
      BY <1>1, <3>1 DEF FlagsOK
    <3> QED BY <1>1, <3>1, <3>2, FailIs
  <2>3. CASE ~Interrupted /\ c.seek_completed /\ c.seek_ret >= 0
    <3>1. c.seek_ret = m.target
      BY <1>1, <2>1, <2>3 DEF SeekInv, Interrupted
    <3>2. c' = [c EXCEPT !.logical_pos = c.seek_ret] /\ m' = Returned(Result("at", c.seek_ret, 0))
      BY <1>3, <2>3 DEF SeekAnswered
    <3>3. c'.logical_pos = c.seek_ret
      BY <1>1, <3>2 DEF FlagsOK
    <3> QED BY <1>1, <3>1, <3>2, <3>3, SeekIs
  <2>4. CASE ~Interrupted /\ c.seek_completed /\ ~(c.seek_ret >= 0)
    BY <1>1, <1>3, <2>4, FailIs DEF SeekAnswered
  <2>5. CASE ~Interrupted /\ ~c.seek_completed
    BY <1>3, <2>5, StreamStutters DEF SeekAnswered
  <2> QED BY <2>2, <2>3, <2>4, <2>5
<1> QED BY <1>2, <1>3

LEMMA ReadEndsStep ==
  ASSUME AsyncInv, ReadInterrupted \/ ReadEnd \/ ReadWait
  PROVE  StreamStep
<1>1. FlagsOK /\ m.pc = "reading" /\ m.call \in {"read", "seek"}
      /\ (m.call = "seek" => c.logical_pos < m.target)
  BY AsyncFacts DEF AsyncTypeOK, CallInv, ReadInterrupted, ReadEnd, ReadWait
<1>2. CASE ReadWait
  BY <1>2, StreamStutters DEF ReadWait
<1>3. c'.logical_pos = c.logical_pos
  BY <1>1 DEF FlagsOK, ReadInterrupted, ReadEnd, ReadWait
<1>4. CASE ReadInterrupted
  BY <1>1, <1>3, <1>4, SeekIs, FailIs DEF ReadInterrupted, ReadEnds, Complete
<1>5. CASE ReadEnd
  <2>1. CASE m.call = "seek"
    BY <1>1, <1>3, <1>5, <2>1, SeekIs DEF ReadEnd, ReadEnds, Complete
  <2>2. CASE m.call = "read" /\ c.io_error \notin {"none", "EOF"}
    BY <1>1, <1>3, <1>5, <2>2, FailIs DEF ReadEnd, ReadEnds, Complete
  <2>3. CASE m.call = "read" /\ c.io_error \in {"none", "EOF"}
    <3>1. m' = Returned(Result("EOF", 0, 0))
      BY <1>5, <2>3 DEF ReadEnd, ReadEnds, Complete
    <3>2. m'.call = "none" /\ m'.target = 0 /\ m'.result = Stream!Result("EOF", 0, 0)
      BY <3>1, ReturnIs, SameResult
    <3>3. inner_pos = Size
      BY <1>5, <2>3, AsyncFacts DEF ReadEnd, EofInv
    <3>4. inner_pos - RingSize = c.logical_pos /\ RingSize = 0
      BY <1>1, <1>5, AsyncFacts DEF ReadEnd, Interrupted, DataAtPosition, Answer
    <3>5. c.logical_pos = Size
      BY <3>3, <3>4, Numbers
    <3> QED BY <1>3, <2>3, <3>2, <3>5
            DEF StreamStep, Stream!Next, Stream!EndOfFile, Stream!Return
  <2> QED BY <1>1, <2>1, <2>2, <2>3
<1> QED BY <1>2, <1>4, <1>5

LEMMA ReadDataIsData ==
  ASSUME AsyncInv, ReadData
  PROVE  StreamStep
<1> DEFINE n == Least(m.to_read, RingSize)
<1>1. /\ m.pc = "reading" /\ c' = [c EXCEPT !.logical_pos = c.logical_pos + n]
      /\ n > 0 /\ ~c.abort_request /\ MainOK /\ FlagsOK
      /\ IF n = m.to_read \/ ~Complete
         THEN ReadEnds(Result("data", ring.data[ring.read_pos + 1], n))
         ELSE m' = [m EXCEPT !.to_read = m.to_read - n]
  BY DEF ReadData, Interrupted, AsyncInv, AsyncTypeOK, FlagsOK, MainOK
<1>2. n \in 1 .. RingSize /\ n \in Nat /\ n <= m.to_read /\ m.to_read \in Int
  BY <1>1, AsyncFacts DEF Least
<1> HIDE DEF n
<1>3. c'.logical_pos = c.logical_pos + n
  BY <1>1 DEF FlagsOK
<1>4. m.call \in {"read", "seek"} /\ (m.call = "seek" => m.target = c.logical_pos + m.to_read)
  BY <1>1, AsyncFacts DEF CallInv
<1>5. c.logical_pos = inner_pos - RingSize
  BY <1>1, AsyncFacts DEF DataAtPosition, Answer
<1>6. c'.logical_pos \in c.logical_pos + 1 .. Size
  BY <1>2, <1>3, <1>5, AsyncFacts, Numbers
<1>7. CASE m.call = "read"
  <2>1. ring.data[ring.read_pos + 1] = c.logical_pos
    <3>1. ring.read_pos + 1 \in 1 .. Stored /\ RingSize = Stored - ring.read_pos
      BY <1>2, AsyncFacts DEF RingSize
    <3>2. ring.data[ring.read_pos + 1] = inner_pos - Stored + (ring.read_pos + 1) - 1
      BY <3>1, AsyncFacts DEF DataAtPosition
    <3>3. inner_pos - Stored + (ring.read_pos + 1) - 1 = inner_pos - RingSize
      BY <3>1, AsyncFacts
    <3> QED BY <1>5, <3>2, <3>3
  <2>2. m' = Returned(Result("data", c.logical_pos, n))
    BY <1>1, <1>7, <2>1 DEF ReadEnds, Complete
  <2>3. n = c'.logical_pos - c.logical_pos
    BY <1>2, <1>3, AsyncFacts
  <2>4. m'.call = "none" /\ m'.target = 0
        /\ m'.result = Stream!Result("data", c.logical_pos, c'.logical_pos - c.logical_pos)
    BY <2>2, <2>3, ReturnIs, SameResult
  <2> QED BY <1>6, <1>7, <2>4 DEF StreamStep, Stream!Next, Stream!Data, Stream!Return
<1>8. CASE m.call = "seek" /\ n = m.to_read
  <2>1. m' = Returned(Result("at", c'.logical_pos, 0))
    BY <1>1, <1>8 DEF ReadEnds, Complete
  <2>2. c'.logical_pos = m.target
    BY <1>3, <1>4, <1>8
  <2> QED BY <1>8, <2>1, <2>2, SeekIs
<1>9. CASE m.call = "seek" /\ n # m.to_read
  <2>1. m' = [m EXCEPT !.to_read = m.to_read - n]
    BY <1>1, <1>9 DEF Complete
  <2>2. m'.call = m.call /\ m'.target = m.target /\ m'.result = m.result
    BY <1>1, <2>1 DEF MainOK
  <2>3. c'.logical_pos <= m.target
    BY <1>2, <1>3, <1>4, <1>9, AsyncFacts
  <2> QED BY <1>6, <1>9, <2>2, <2>3 DEF StreamStep, Stream!Next, Stream!Skip
<1> QED BY <1>4, <1>7, <1>8, <1>9

LEMMA StepIsStreamStep ==
  ASSUME AsyncInv, [AllNext]_all PROVE StreamStep
<1>1. CASE c' = c /\ m' = m
  BY <1>1, StreamStutters
<1>2. CASE AsyncCalled \/ AsyncUser
  BY <1>2, CallIsStart DEF AsyncCalled, AsyncUser
<1>3. CASE MainStep
  <2>1. CASE Join
    <3>1. c' = c /\ m' = [m EXCEPT !.pc = "closed"]
      BY <2>1 DEF Join
    <3>2. m'.call = m.call /\ m'.target = m.target /\ m'.result = m.result
      BY <3>1 DEF AsyncInv, AsyncTypeOK, MainOK
    <3> QED BY <3>1, <3>2, StreamStutters
  <2> QED BY <1>3, <2>1, SeekIsSeek, RequestIsSeek, ReadEndsStep, ReadDataIsData DEF MainStep
<1>4. CASE BackStep
  <2>1. m' = m
    BY <1>4 DEF BackStep, Aborts, ServeSeek, Rest, Work, Fill, FillInterrupted, Filled
  <2>2. c'.logical_pos = c.logical_pos
    BY <1>4 DEF AsyncInv, AsyncTypeOK, FlagsOK, BackStep, Aborts, ServeSeek, SeekDone, Rest, Work,
                Fill, FillInterrupted, Filled
  <2> QED BY <2>1, <2>2, StreamStutters
<1>5. (c' = c /\ m' = m) \/ AsyncCalled \/ AsyncUser \/ MainStep \/ BackStep
  BY DEF AllNext, all, vars, User, Clock, Reader, Thread, Loop, Async, Udp, Smb, Ended, AsyncReader,
         AsyncReturned, AsyncThread, SpuriousWake, Interrupt
<1> QED BY <1>1, <1>2, <1>3, <1>4, <1>5

LEMMA StreamStarts == ASSUME AllInit PROVE Stream!Init
BY SameResult DEF AllInit, Init, Stream!Init

(* The protocol with its thread, its ring and its requests is the stream   *)
(* of bytes of the inner resource (see AsyncProtocol).                     *)
THEOREM AsyncIsStream == AllSpec => ImplementsStream
<1>1. Inv /\ [AllNext]_all => [Stream!Next]_(Stream!vars)
  BY StepIsStreamStep DEF Inv, StreamStep
<1> QED BY ProtocolsCorrect, StreamStarts, <1>1, PTL DEF AllSpec, ImplementsStream, Stream!Spec
-----------------------------------------------------------------------------
(* The buffer of udp byte by byte.  The j-th byte of a ring is the j-th    *)
(* that will be read; a ring is in order if its pointers and counters      *)
(* agree on what it holds.                                                 *)
RingOK(f) ==
  /\ f \in Fifos /\ f.rptr \in 0 .. FifoBytes - 1 /\ f.wndx \in 0 .. Modulus - 1
  /\ f.rndx \in 0 .. Modulus - 1 /\ FifoSize(f) \in 0 .. FifoBytes
  /\ f.wptr = (f.rptr + FifoSize(f)) % FifoBytes
ByteAt(f, j) == f.buffer[(f.rptr + j - 1) % FifoBytes]

(* Remainders of numbers that are off by at most one turn. *)
LEMMA Wrapped ==
  ASSUME NEW n \in Nat, n > 0, NEW a \in Int, -n <= a, a < 2 * n
  PROVE  /\ a % n \in 0 .. n - 1
         /\ a % n = IF a < 0 THEN a + n ELSE IF a < n THEN a ELSE a - n
<1>1. a % n \in 0 .. n - 1
  BY Z3
<1>2. a % n = IF a < 0 THEN a + n ELSE IF a < n THEN a ELSE a - n
  BY Z3
<1> QED BY <1>1, <1>2

LEMMA RingFacts ==
  ASSUME NEW f, RingOK(f)
  PROVE  /\ f \in Fifos /\ f.rptr \in Nat /\ f.rptr < FifoBytes /\ FifoSize(f) \in Nat
         /\ FifoSize(f) <= FifoBytes /\ FifoSpace(f) = FifoBytes - FifoSize(f)
         /\ f.wptr = IF f.rptr + FifoSize(f) < FifoBytes THEN f.rptr + FifoSize(f)
                     ELSE f.rptr + FifoSize(f) - FifoBytes
         /\ f.wptr \in Nat /\ f.wptr < FifoBytes
         /\ f.wndx \in Nat /\ f.wndx < Modulus /\ f.rndx \in Nat /\ f.rndx < Modulus
         /\ FifoSize(f) = IF f.wndx < f.rndx THEN f.wndx - f.rndx + Modulus ELSE f.wndx - f.rndx
<1>1. /\ f \in Fifos /\ f.rptr \in Nat /\ f.rptr < FifoBytes /\ FifoSize(f) \in Nat
      /\ FifoSize(f) <= FifoBytes /\ f.wptr = (f.rptr + FifoSize(f)) % FifoBytes
      /\ f.wndx \in Nat /\ f.wndx < Modulus /\ f.rndx \in Nat /\ f.rndx < Modulus
  BY Numbers DEF RingOK
<1>2. FifoSpace(f) = FifoBytes - FifoSize(f)
  BY <1>1, CellsIs DEF FifoSpace
<1>3. PICK a \in Int : a = f.rptr + FifoSize(f)
  BY <1>1
<1>4. f.wptr = (IF a < FifoBytes THEN a ELSE a - FifoBytes) /\ f.wptr \in 0 .. FifoBytes - 1
  BY <1>1, <1>3, Numbers, Wrapped
<1>5. PICK d \in Int : d = f.wndx - f.rndx
  BY <1>1
<1>6. FifoSize(f) = IF d < 0 THEN d + Modulus ELSE d
  <2>1. FifoSize(f) = d % Modulus
    BY <1>5 DEF FifoSize
  <2>2. -Modulus <= d /\ d < 2 * Modulus /\ d < Modulus
    BY <1>1, <1>5, Numbers
  <2> QED BY <2>1, <2>2, Numbers, Wrapped
<1>7. FifoSize(f) = IF f.wndx < f.rndx THEN f.wndx - f.rndx + Modulus ELSE f.wndx - f.rndx
  BY <1>1, <1>5, <1>6
<1>8. f.wptr = IF f.rptr + FifoSize(f) < FifoBytes THEN f.rptr + FifoSize(f)
               ELSE f.rptr + FifoSize(f) - FifoBytes
  <2>1. CASE a < FifoBytes
    BY <1>3, <1>4, <2>1
  <2>2. CASE ~(a < FifoBytes)
    BY <1>1, <1>3, <1>4, <2>2, Numbers
  <2> QED BY <2>1, <2>2
<1>9. f.wptr \in Nat /\ f.wptr < FifoBytes
  BY <1>4, Numbers
<1> QED BY <1>1, <1>2, <1>7, <1>8, <1>9

(* What is read, in terms of the bytes in the ring. *)
LEMMA PeeksAre ==
  ASSUME NEW f \in Fifos, NEW n \in Nat
  PROVE  /\ FifoPeek(f, n) \in Seq(Byte) /\ Len(FifoPeek(f, n)) = n
         /\ \A j \in 1 .. n : FifoPeek(f, n)[j] = ByteAt(f, j)
<1>1. FifoPeek(f, n) = [j \in 1 .. n |-> ByteAt(f, j)]
  BY CellsIs DEF FifoPeek, ByteAt
<1>2. FifoPeek(f, n) \in Seq(Byte)
  BY PeekIs
<1>3. DOMAIN FifoPeek(f, n) = 1 .. n
  BY <1>1
<1>4. Len(FifoPeek(f, n)) = n
  BY <1>2, <1>3
<1>5. \A j \in 1 .. n : FifoPeek(f, n)[j] = ByteAt(f, j)
  BY <1>1
<1> QED BY <1>2, <1>4, <1>5

LEMMA AllocIs ==
  /\ RingOK(Alloc(FifoBytes)) /\ FifoSize(Alloc(FifoBytes)) = 0
<1>1. PICK f : f = Alloc(FifoBytes)
  OBVIOUS
<1>2. /\ f.buffer = [k \in 0 .. FifoBytes - 1 |-> Junk] /\ f.wptr = 0 /\ f.rptr = 0
      /\ f.wndx = 0 /\ f.rndx = 0 /\ f \in Fifos
  BY <1>1 DEF Alloc, Fifos, Junk, Byte
<1>3. 0 % Modulus = 0 /\ 0 % FifoBytes = 0
  BY Numbers, Wrapped
<1>4. FifoSize(f) = 0
  BY <1>2, <1>3 DEF FifoSize
<1>5. f.wptr = (f.rptr + FifoSize(f)) % FifoBytes
  BY <1>2, <1>3, <1>4
<1> QED BY <1>1, <1>2, <1>4, <1>5, Numbers DEF RingOK

(* av_fifo_drain takes the first bytes away. *)
LEMMA Drained ==
  ASSUME NEW f, RingOK(f), NEW n \in Nat, n <= FifoSize(f), NEW g, g = FifoDrain(f, n)
  PROVE  /\ RingOK(g) /\ FifoSize(g) = FifoSize(f) - n
         /\ \A j \in 1 .. FifoSize(g) : ByteAt(g, j) = ByteAt(f, j + n)
<1> DEFINE size == FifoSize(f)
<1>1. PICK rptr : rptr = IF f.rptr + n >= FifoBytes THEN f.rptr + n - FifoBytes ELSE f.rptr + n
  OBVIOUS
<1>2. PICK rndx : rndx = (f.rndx + n) % Modulus
  OBVIOUS
<1>3. g = [f EXCEPT !.rptr = rptr, !.rndx = rndx] /\ f \in Fifos /\ g \in Fifos
  <2>1. f \in Fifos /\ Cells(f) = FifoBytes /\ g \in Fifos
    BY RingFacts, CellsIs, DrainIs
  <2>2. PICK at : at = f.rptr + n
    OBVIOUS
  <2>3. rptr = IF at >= Cells(f) THEN at - Cells(f) ELSE at
    <3>1. CASE at >= FifoBytes
      BY <1>1, <2>1, <2>2, <3>1, RingFacts, Numbers
    <3>2. CASE ~(at >= FifoBytes)
      BY <1>1, <2>1, <2>2, <3>2
    <3> QED BY <3>1, <3>2
  <2>4. g = [f EXCEPT !.rptr = rptr, !.rndx = rndx]
    BY <1>2, <2>1, <2>2, <2>3 DEF FifoDrain, Fifos
  <2> QED BY <2>1, <2>4
<1>4. g.buffer = f.buffer /\ g.wptr = f.wptr /\ g.wndx = f.wndx /\ g.rptr = rptr /\ g.rndx = rndx
  BY <1>3 DEF Fifos
<1>5. rptr \in 0 .. FifoBytes - 1 /\ rptr \in Nat
  BY <1>1, RingFacts, Numbers
<1>6. PICK a \in Int : a = f.rndx + n
  BY RingFacts
<1>7. Modulus > FifoBytes
  BY UdpAssumption DEF UdpAssumption
<1>8. rndx = (IF a < Modulus THEN a ELSE a - Modulus) /\ rndx \in 0 .. Modulus - 1
  <2>1. -Modulus <= a /\ a < 2 * Modulus /\ ~(a < 0)
    BY <1>6, <1>7, RingFacts, Numbers
  <2> QED BY <1>2, <1>6, <2>1, Numbers, Wrapped
<1>9. FifoSize(g) = size - n
  <2>1. PICK d \in Int : d = f.wndx - rndx
    BY <1>8, RingFacts
  <2>2. -Modulus <= d /\ d < 2 * Modulus
    BY <1>8, <2>1, RingFacts, Numbers
  <2>3. FifoSize(g) = IF d < 0 THEN d + Modulus ELSE IF d < Modulus THEN d ELSE d - Modulus
    BY <1>4, <2>1, <2>2, Numbers, Wrapped DEF FifoSize
  <2> QED BY <1>6, <1>7, <1>8, <2>1, <2>3, RingFacts, Numbers
<1>10. size - n \in 0 .. FifoBytes
  BY RingFacts, Numbers
<1>11. g.wptr = (g.rptr + FifoSize(g)) % FifoBytes
  <2>1. PICK e \in Int : e = rptr + (size - n)
    BY <1>5, <1>10
  <2>2. e % FifoBytes = IF e < FifoBytes THEN e ELSE e - FifoBytes
    BY <1>5, <1>10, <2>1, Numbers, Wrapped
  <2>3. f.wptr = IF e < FifoBytes THEN e ELSE e - FifoBytes
    BY <1>1, <2>1, RingFacts, Numbers
  <2> QED BY <1>4, <1>9, <2>1, <2>2, <2>3
<1>12. RingOK(g)
  BY <1>3, <1>4, <1>5, <1>8, <1>9, <1>10, <1>11 DEF RingOK
<1>13. ASSUME NEW j \in 1 .. FifoSize(g) PROVE ByteAt(g, j) = ByteAt(f, j + n)
  <2>1. j \in Nat /\ j >= 1 /\ j <= size - n
    BY <1>9, <1>10
  <2>2. PICK x \in Int : x = rptr + j - 1
    BY <1>5, <2>1
  <2>3. PICK y \in Int : y = f.rptr + (j + n) - 1
    BY <2>1, RingFacts
  <2>4. /\ x % FifoBytes = IF x < FifoBytes THEN x ELSE x - FifoBytes
        /\ y % FifoBytes = IF y < FifoBytes THEN y ELSE y - FifoBytes
    <3>1. -FifoBytes <= x /\ x < 2 * FifoBytes /\ ~(x < 0)
      BY <1>5, <1>10, <2>1, <2>2, Numbers
    <3>2. -FifoBytes <= y /\ y < 2 * FifoBytes /\ ~(y < 0)
      BY <2>1, <2>3, RingFacts, Numbers
    <3> QED BY <3>1, <3>2, Numbers, Wrapped
  <2>5. x % FifoBytes = y % FifoBytes
    BY <1>1, <2>1, <2>2, <2>3, <2>4, RingFacts, Numbers
  <2> QED BY <1>4, <2>2, <2>3, <2>5 DEF ByteAt
<1> QED BY <1>9, <1>12, <1>13

(* Counting n bytes more, of which there is room for, by a counter that    *)
(* wraps around at M.                                                      *)
Counting(M, rd, e, z, n, e2) ==
  /\ {M, rd, e, z, n, e2} \subseteq Nat
  /\ rd < M /\ e < M /\ z + n < M /\ z = (IF e < rd THEN e - rd + M ELSE e - rd)
  /\ e2 = IF e + n < M THEN e + n ELSE e + n - M

LEMMA CountsAhead ==
  ASSUME NEW M, NEW rd, NEW e, NEW z, NEW n, NEW e2, Counting(M, rd, e, z, n, e2)
  PROVE  (IF e2 < rd THEN e2 - rd + M ELSE e2 - rd) = z + n
BY SMT DEF Counting

(* Of a ring of N bytes that holds z from r on, p is behind the last, and  *)
(* there is room for n more.                                               *)
Behind(N, r, z, p, n) ==
  /\ {N, r, z, p, n} \subseteq Nat /\ z + n <= N
  /\ r < N /\ p < N /\ z <= N /\ (r + z < N => p = r + z) /\ (r + z >= N => p = r + z - N)

LEMMA EndAhead ==
  ASSUME NEW N, NEW r, NEW z, NEW p, NEW n, Behind(N, r, z, p, n)
  PROVE  (p + n) % N = (r + (z + n)) % N /\ N > 0
<1> {N, r, z, p, n} \subseteq Nat /\ N \in Nat
  BY DEF Behind
<1>1. PICK e \in Int : e = r + (z + n)
  OBVIOUS
<1>2. PICK x \in Int : x = p + n
  OBVIOUS
<1>3. ~(e < 0) /\ e < 2 * N /\ -N <= e /\ ~(x < 0) /\ x < 2 * N /\ -N <= x /\ N > 0
  BY <1>1, <1>2 DEF Behind
<1>4. e % N = (IF e < N THEN e ELSE e - N) /\ x % N = (IF x < N THEN x ELSE x - N)
  BY <1>3, Wrapped
<1>5. (IF e < N THEN e ELSE e - N) = (IF x < N THEN x ELSE x - N)
  BY <1>1, <1>2 DEF Behind
<1> QED BY <1>1, <1>2, <1>3, <1>4, <1>5

(* The j-th byte of the ring when n are written to the end of it: k is     *)
(* where it lies, and q how far behind the old end.                        *)
Placed(N, r, z, p, n, j, k, q) ==
  /\ Behind(N, r, z, p, n) /\ j \in Nat /\ j >= 1 /\ j <= z + n
  /\ k = (r + j - 1) % N /\ q = (k - p) % N

LEMMA PlacesAhead ==
  ASSUME NEW N, NEW r, NEW z, NEW p, NEW n, NEW j, NEW k, NEW q,
         Placed(N, r, z, p, n, j, k, q)
  PROVE  /\ k \in 0 .. N - 1 /\ q \in 0 .. N - 1
         /\ (j <= z => q >= n) /\ (j > z => q = j - z - 1)
<1> /\ {N, r, z, p, n, j} \subseteq Nat /\ N \in Nat /\ Behind(N, r, z, p, n)
    /\ j >= 1 /\ j <= z + n /\ k = (r + j - 1) % N /\ q = (k - p) % N
  BY DEF Placed, Behind
<1>1. PICK x \in Int : x = r + j - 1
  OBVIOUS
<1>2. ~(x < 0) /\ x < 2 * N /\ -N <= x /\ N > 0
  BY <1>1 DEF Behind
<1>3. k = (IF x < N THEN x ELSE x - N) /\ k \in 0 .. N - 1
  BY <1>1, <1>2, Wrapped
<1>4. PICK y \in Int : y = k - p
  BY <1>3
<1>5. -N <= y /\ y < 2 * N /\ y < N
  BY <1>3, <1>4 DEF Behind
<1>6. q = (IF y < 0 THEN y + N ELSE y) /\ q \in 0 .. N - 1
  BY <1>2, <1>4, <1>5, Wrapped
<1>7. (j <= z => q >= n) /\ (j > z => q = j - z - 1)
  BY <1>1, <1>3, <1>4, <1>6 DEF Behind
<1> QED BY <1>3, <1>6, <1>7

(* av_fifo_generic_write adds bytes at the end. *)
LEMMA Written ==
  ASSUME NEW f, RingOK(f), NEW src \in Seq(Byte), Len(src) <= FifoSpace(f),
         NEW g, g = FifoWrite(f, src)
  PROVE  /\ RingOK(g) /\ FifoSize(g) = FifoSize(f) + Len(src)
         /\ \A j \in 1 .. FifoSize(f) : ByteAt(g, j) = ByteAt(f, j)
         /\ \A j \in 1 .. Len(src) : ByteAt(g, FifoSize(f) + j) = src[j]
<1> DEFINE size == FifoSize(f)
<1>1. PICK n \in Nat : n = Len(src)
  OBVIOUS
<1>2. /\ f \in Fifos /\ Cells(f) = FifoBytes /\ DOMAIN f.buffer = 0 .. FifoBytes - 1
      /\ n <= FifoBytes - size /\ Modulus > FifoBytes
  BY <1>1, RingFacts, CellsIs, UdpAssumption DEF Fifos, UdpAssumption
<1>3. PICK buffer : buffer = [k \in 0 .. FifoBytes - 1 |->
                                LET j == (k - f.wptr) % FifoBytes IN
                                IF j < n THEN src[j + 1] ELSE f.buffer[k]]
  OBVIOUS
<1>4. PICK wptr : wptr = (f.wptr + n) % FifoBytes
  OBVIOUS
<1>5. PICK wndx : wndx = (f.wndx + n) % Modulus
  OBVIOUS
<1>6. g = [f EXCEPT !.buffer = buffer, !.wptr = wptr, !.wndx = wndx] /\ g \in Fifos
  <2>1. g \in Fifos
    BY <1>2, WriteIs
  <2>2. g = [f EXCEPT !.buffer = buffer, !.wptr = wptr, !.wndx = wndx]
    BY <1>1, <1>2, <1>3, <1>4, <1>5 DEF FifoWrite, Fifos
  <2> QED BY <2>1, <2>2
<1>7. g.buffer = buffer /\ g.wptr = wptr /\ g.wndx = wndx /\ g.rptr = f.rptr /\ g.rndx = f.rndx
  BY <1>2, <1>6 DEF Fifos
<1>8. PICK a \in Int : a = f.wndx + n
  BY RingFacts
<1>9. wndx = (IF a < Modulus THEN a ELSE a - Modulus) /\ wndx \in 0 .. Modulus - 1
  <2>1. -Modulus <= a /\ a < 2 * Modulus /\ ~(a < 0)
    BY <1>2, <1>8, RingFacts, Numbers
  <2> QED BY <1>5, <1>8, <2>1, Numbers, Wrapped
<1>10. FifoSize(g) = size + n
  <2>1. PICK d \in Int : d = wndx - f.rndx
    BY <1>9, RingFacts
  <2>2. -Modulus <= d /\ d < 2 * Modulus /\ d < Modulus
    BY <1>9, <2>1, RingFacts, Numbers
  <2>3. FifoSize(g) = d % Modulus
    BY <1>7, <2>1 DEF FifoSize
  <2>4. FifoSize(g) = IF d < 0 THEN d + Modulus ELSE d
    BY <2>2, <2>3, Numbers, Wrapped
  <2>5. PICK rd \in Nat, e \in Nat, z \in Nat, M \in Nat :
          /\ rd = f.rndx /\ e = f.wndx /\ z = size /\ M = Modulus /\ rd < M /\ e < M /\ z + n < M
          /\ z = IF e < rd THEN e - rd + M ELSE e - rd
    <3>1. /\ f.rndx \in Nat /\ f.wndx \in Nat /\ size \in Nat /\ f.rndx < Modulus
          /\ f.wndx < Modulus /\ FifoBytes \in Nat /\ Modulus \in Nat
      BY RingFacts, Numbers
    <3>2. size = IF f.wndx < f.rndx THEN f.wndx - f.rndx + Modulus ELSE f.wndx - f.rndx
      BY RingFacts
    <3>3. size + n < Modulus
      BY <1>1, <1>2, <3>1
    <3> HIDE DEF size
    <3> QED BY <3>1, <3>2, <3>3
  <2>6. PICK e2 \in Nat : e2 = wndx /\ e2 = (IF e + n < M THEN e + n ELSE e + n - M)
    BY <1>8, <1>9, <2>5, Numbers
  <2>7. (IF e2 < rd THEN e2 - rd + M ELSE e2 - rd) = z + n
    <3>1. Counting(M, rd, e, z, n, e2)
      BY <1>1, <2>5, <2>6 DEF Counting
    <3> QED BY <3>1, CountsAhead
  <2>8. d = e2 - rd
    BY <2>1, <2>5, <2>6
  <2>9. (IF d < 0 THEN d + M ELSE d) = z + n
    BY <2>7, <2>8
  <2> QED BY <2>4, <2>5, <2>9
<1>11. size + n \in 0 .. FifoBytes /\ size \in Nat /\ FifoBytes \in Nat
  BY <1>2, RingFacts, Numbers
<1> HIDE DEF size
<1>20. PICK r \in Nat, p \in Nat, N \in Nat :
         r = f.rptr /\ p = f.wptr /\ N = FifoBytes /\ size + n <= N /\ Behind(N, r, size, p, n)
  <2>1. /\ f.rptr \in Nat /\ f.wptr \in Nat /\ FifoBytes \in Nat /\ f.rptr < FifoBytes
        /\ f.wptr < FifoBytes
        /\ f.wptr = IF f.rptr + size < FifoBytes THEN f.rptr + size ELSE f.rptr + size - FifoBytes
    BY RingFacts, Numbers DEF size
  <2>2. size + n <= FifoBytes /\ size <= FifoBytes
    BY <1>11
  <2>3. /\ (f.rptr + size < FifoBytes => f.wptr = f.rptr + size)
        /\ (f.rptr + size >= FifoBytes => f.wptr = f.rptr + size - FifoBytes)
    BY <1>11, <2>1
  <2>4. Behind(FifoBytes, f.rptr, size, f.wptr, n)
    BY <1>1, <1>11, <2>1, <2>2, <2>3 DEF Behind
  <2> QED BY <2>1, <2>2, <2>4
<1>12. g.wptr = (g.rptr + FifoSize(g)) % FifoBytes
  <2>1. (p + n) % N = (r + (size + n)) % N
    BY <1>20, EndAhead
  <2> QED BY <1>4, <1>7, <1>10, <1>20, <2>1
<1>13. RingOK(g)
  BY <1>6, <1>7, <1>9, <1>10, <1>11, <1>12, RingFacts, Numbers DEF RingOK
<1>14. ASSUME NEW j \in Nat, j >= 1, j <= size + n
       PROVE  ByteAt(g, j) = IF j <= size THEN ByteAt(f, j) ELSE src[j - size]
  <2>1. PICK k : k = (r + j - 1) % N
    OBVIOUS
  <2>2. PICK q : q = (k - p) % N
    OBVIOUS
  <2>3. /\ k \in 0 .. N - 1 /\ q \in 0 .. N - 1
        /\ (j <= size => q >= n) /\ (j > size => q = j - size - 1)
    <3>1. Placed(N, r, size, p, n, j, k, q)
      BY <1>14, <1>20, <2>1, <2>2 DEF Placed
    <3> QED BY <3>1, PlacesAhead
  <2>4. q \in Int
    BY <2>3
  <2>5. ByteAt(g, j) = IF q < n THEN src[q + 1] ELSE f.buffer[k]
    BY <1>3, <1>7, <1>20, <2>1, <2>2, <2>3 DEF ByteAt
  <2>6. ByteAt(f, j) = f.buffer[k]
    BY <1>20, <2>1 DEF ByteAt
  <2>7. (j <= size => q >= n) /\ (j > size => q = j - size - 1)
    BY <2>3
  <2>8. CASE j <= size
    BY <2>4, <2>5, <2>6, <2>7, <2>8
  <2>9. CASE ~(j <= size)
    <3>1. q < n /\ q + 1 = j - size
      BY <1>11, <1>14, <2>7, <2>9
    <3> QED BY <2>5, <2>9, <3>1
  <2> QED BY <2>8, <2>9
<1>15. ASSUME NEW j \in 1 .. size PROVE ByteAt(g, j) = ByteAt(f, j)
  BY <1>11, <1>14
<1>16. ASSUME NEW j \in 1 .. n PROVE ByteAt(g, size + j) = src[j]
  <2>1. PICK i \in Nat : i = size + j /\ i >= 1 /\ i <= size + n /\ ~(i <= size) /\ i - size = j
    BY <1>1, <1>11
  <2> QED BY <1>14, <2>1
<1> QED BY <1>1, <1>10, <1>13, <1>15, <1>16 DEF size

(* A larger buffer holds what was stored, and has room for the rest. *)
LEMMA Reallocated ==
  ASSUME NEW f, RingOK(f), NEW n \in Nat, NEW new \in Nat, new > FifoBytes,
         new >= n + FifoSize(f), NEW g, g = Realloc(f, new)
  PROVE  Content(g) = Content(f) /\ FifoSpace(g) >= n
<1> DEFINE size == FifoSize(f)
<1>1. Cells(f) = FifoBytes /\ size \in Nat /\ size <= FifoBytes /\ f \in Fifos
      /\ FifoSpace(f) = FifoBytes - size
  BY RingFacts, CellsIs
<1>2. new \in Nat /\ new > FifoBytes /\ new >= n + size /\ new > size
  BY <1>1, Numbers
<1>3. g = Realloc(f, new)
  OBVIOUS
<1>4. PICK p : p = FifoPeek(f, size)
  OBVIOUS
<1>5. PICK buffer : buffer = [k \in 0 .. new - 1 |-> IF k < size THEN p[k + 1] ELSE Junk]
  OBVIOUS
<1>6. g = [buffer |-> buffer, wptr |-> size, rptr |-> 0, wndx |-> size, rndx |-> 0]
  <2>1. ~(Cells(f) >= new)
    BY <1>1, <1>2, Numbers
  <2>2. Realloc(f, new) = [buffer |-> buffer, wptr |-> size, rptr |-> 0, wndx |-> size, rndx |-> 0]
    BY <1>4, <1>5, <2>1 DEF Realloc
  <2> QED BY <1>3, <2>2
<1>7. g.buffer = buffer /\ g.rptr = 0 /\ g.wndx = size /\ g.rndx = 0
  BY <1>6
<1>8. Cells(g) = new
  <2>1. DOMAIN g.buffer = 0 .. new - 1 /\ 0 \in Int /\ new - 1 \in Int /\ ~(0 > new - 1)
    BY <1>1, <1>2, <1>5, <1>7
  <2>2. Cardinality(0 .. new - 1) = new - 1 - 0 + 1
    BY <2>1, FS_Interval
  <2> QED BY <1>2, <2>1, <2>2 DEF Cells
<1>9. FifoSize(g) = size
  <2>1. size < Modulus /\ ~(size < 0) /\ size - 0 = size /\ size \in Int
    BY <1>1, UdpAssumption, Numbers DEF UdpAssumption
  <2>2. size % Modulus = size
    BY <2>1, Numbers, Wrapped
  <2> QED BY <1>7, <2>1, <2>2 DEF FifoSize
<1>10. Content(g) = [j \in 1 .. size |-> g.buffer[(0 + j - 1) % new]]
  BY <1>7, <1>8, <1>9 DEF Content, FifoPeek
<1>11. ASSUME NEW j \in 1 .. size PROVE g.buffer[(0 + j - 1) % new] = p[j]
  <2>1. PICK k \in Nat : k = j - 1 /\ k < size /\ k < new /\ 0 + j - 1 = k /\ k + 1 = j
    BY <1>1, <1>2
  <2>2. k % new = k
    BY <1>2, <2>1, Wrapped
  <2>3. buffer[k] = p[k + 1]
    BY <1>2, <1>5, <2>1
  <2> QED BY <1>7, <2>1, <2>2, <2>3
<1>12. p \in Seq(Byte) /\ Len(p) = size /\ Content(f) = p
  BY <1>1, <1>4, PeeksAre DEF Content
<1>13. Content(g) = [j \in 1 .. size |-> p[j]]
  BY <1>10, <1>11
<1>14. p = [j \in 1 .. size |-> p[j]]
  BY <1>12
<1>15. FifoSpace(g) >= n
  BY <1>1, <1>2, <1>8, <1>9 DEF FifoSpace
<1> QED BY <1>12, <1>13, <1>14, <1>15

(* The sum of two numbers below n is right, or has wrapped around. *)
LEMMA SumWrapped ==
  ASSUME NEW mod \in Nat, NEW x \in 0 .. mod - 1, NEW y \in Nat, y < mod,
         NEW sum, sum = (x + y) % mod
  PROVE  sum \in Nat /\ (sum < x \/ sum = x + y)
<1>1. mod > 0 /\ -mod <= x + y /\ x + y < 2 * mod /\ x + y \in Int /\ ~(x + y < 0)
  OBVIOUS
<1>2. sum \in 0 .. mod - 1 /\ sum = IF x + y < mod THEN x + y ELSE x + y - mod
  BY <1>1, Wrapped
<1> QED BY <1>1, <1>2

(* av_fifo_grow keeps what is stored and makes room, or changes nothing. *)
LEMMA Grown ==
  ASSUME NEW f, RingOK(f), NEW n \in 0 .. Modulus - 1, NEW r \in Grow(f, n)
  PROVE  /\ Content(r.fifo) = Content(f)
         /\ IF r.ret = "ok" THEN FifoSpace(r.fifo) >= n ELSE r.fifo = f
<1>1. PICK size \in Nat : size = FifoSize(f) /\ size <= FifoBytes /\ FifoSpace(f) = FifoBytes - size
                          /\ Cells(f) = FifoBytes
  BY RingFacts, CellsIs
<1>2. PICK need : need = (n + size) % Modulus
  OBVIOUS
<1>3. PICK double : double = (2 * FifoBytes) % Modulus /\ double \in Int
  BY Numbers
<1>4. PICK new : new = IF need > double THEN need ELSE double
  OBVIOUS
<1>5. need \in Nat /\ (need < n \/ need = n + size)
  BY <1>1, <1>2, SumWrapped, Numbers, UdpAssumption DEF UdpAssumption
<1>6. r \in IF need < n THEN {[ret |-> "EINVAL", fifo |-> f]}
            ELSE IF FifoBytes >= need THEN {[ret |-> "ok", fifo |-> f]}
            ELSE {[ret |-> "ENOMEM", fifo |-> f], [ret |-> "ok", fifo |-> Realloc(f, new)]}
  BY <1>1, <1>2, <1>3, <1>4 DEF Grow
<1>7. CASE need < n
  BY <1>6, <1>7
<1>8. CASE ~(need < n) /\ FifoBytes >= need
  <2>1. r.ret = "ok" /\ r.fifo = f
    BY <1>6, <1>8
  <2> QED BY <1>1, <1>5, <1>8, <2>1, Numbers
<1>9. CASE ~(need < n) /\ ~(FifoBytes >= need)
  <2>1. CASE r = [ret |-> "ENOMEM", fifo |-> f]
    BY <2>1
  <2>2. CASE r = [ret |-> "ok", fifo |-> Realloc(f, new)]
    <3>1. PICK g : g = Realloc(f, new) /\ r.ret = "ok" /\ r.fifo = g
      BY <2>2
    <3>2. new \in Nat /\ new > FifoBytes /\ new >= n + FifoSize(f)
      BY <1>1, <1>3, <1>4, <1>5, <1>9, Numbers
    <3>3. Content(g) = Content(f)
      BY <3>1, <3>2, Reallocated
    <3>4. FifoSpace(g) >= n
      BY <3>1, <3>2, Reallocated
    <3> QED BY <3>1, <3>3, <3>4
  <2> QED BY <1>6, <1>9, <2>1, <2>2
<1> QED BY <1>7, <1>8, <1>9

-----------------------------------------------------------------------------
(* The datagrams in the buffer lie one behind the other in the stream of   *)
(* bytes.  From(ds, n) is where the first ends up when n of its bytes are  *)
(* taken.                                                                  *)
Sent == [id : Int, len : Nat, at : Int]
Chained(ds) ==
  /\ ds \in Seq(Sent)
  /\ \A i \in 1 .. Len(ds) :
       /\ i > 1 => ds[i].at = ds[i - 1].at + Extent(ds[i - 1])
       /\ ds[i].at + Extent(ds[i]) <= After(ds)
From(ds, n) == IF ds = <<>> THEN 0 ELSE ds[1].at + n

(* A ring holds the bytes of the datagrams that come after start. *)
Holds(f, ds, start) ==
  /\ FifoSize(f) = After(ds) - start
  /\ \A i \in 1 .. Len(ds), k \in Nat : 1 <= k /\ k <= Extent(ds[i]) /\ ds[i].at + k > start =>
       ByteAt(f, ds[i].at + k - start) = Wire(ds[i])[k]

RingInv == RingOK(fifo) /\ Chained(stored) /\ Holds(fifo, stored, From(stored, Taken))

(* A read takes the first datagram; what it copies is its beginning. *)
ReadInv ==
  /\ reader.pc \in {"header", "data", "drain"} => stored # <<>>
  /\ reader.pc \in {"data", "drain"} => reader.tmp = stored[1].len
  /\ reader.pc = "drain" => IsPrefix(reader.buf, Datagram(stored[1]))

(* The space that was measured is still there. *)
TaskInv ==
  /\ t.pc \in {"recv", "store"} => t.left <= FifoSpace(fifo)
  /\ t.pc = "store" => HEADER + t.len <= t.left
  /\ circular_buffer_error # "none" => t.pc \in {"end", "dead"}

(* An error that a read has returned is the end: nothing is stored.  The   *)
(* thread runs only when udp has its buffer.                               *)
Failed(r) == r.kind \in {"EIO", "EINTR"}
ErrorInv ==
  /\ stored # <<>> \/ t.pc # "loop" => Using("udp") /\ h.o.fifo
  /\ Using("udp") /\ h.o.fifo /\ Failed(h.ret) => stored = <<>> /\ circular_buffer_error # "none"

(* What is stored for a datagram. *)
LEMMA WireIs ==
  ASSUME NEW d \in Sent
  PROVE  /\ Wire(d) \in Seq(Byte) /\ Len(Wire(d)) = Extent(d) /\ Extent(d) = 4 + d.len
         /\ d.len \in Nat /\ d.at \in Int /\ Extent(d) \in Nat
         /\ Wire(d)[1] = <<d.len, -1>>
         /\ Datagram(d) \in Seq(Byte) /\ Len(Datagram(d)) = d.len
         /\ \A k \in 1 .. d.len : Wire(d)[4 + k] = Datagram(d)[k]
<1>1. d.len \in Nat /\ d.at \in Int /\ d.id \in Int
  BY DEF Sent
<1>2. PICK x : x = Header(d.len)
  OBVIOUS
<1>3. PICK y : y = Datagram(d)
  OBVIOUS
<1>4. x \in Seq(Byte) /\ Len(x) = 4 /\ x[1] = <<d.len, -1>>
  <2>1. x \in [1 .. 4 -> Byte]
    BY <1>1, <1>2 DEF Header, HEADER, Byte
  <2>2. 4 \in Nat /\ \A n \in Nat : \A e \in [1 .. n -> Byte] : e \in Seq(Byte)
    OBVIOUS
  <2>3. x \in Seq(Byte)
    BY <2>1, <2>2, Zenon
  <2>4. DOMAIN x = 1 .. 4
    BY <2>1
  <2>5. x[1] = <<d.len, -1>>
    BY <1>2 DEF Header, HEADER
  <2> QED BY <2>3, <2>4, <2>5
<1>5. y \in Seq(Byte) /\ Len(y) = d.len
  <2>1. y \in [1 .. d.len -> Byte]
    BY <1>1, <1>3 DEF Datagram, Byte
  <2>2. y \in Seq(Byte)
    BY <1>1, <2>1
  <2>3. DOMAIN y = 1 .. d.len
    BY <2>1
  <2> QED BY <1>1, <2>2, <2>3
<1>6. Wire(d) = x \o y
  BY <1>2, <1>3 DEF Wire
<1>7. PICK w : w = x \o y
  OBVIOUS
<1>8. w \in Seq(Byte) /\ Len(w) = 4 + d.len
      /\ \A i \in 1 .. 4 + d.len : w[i] = IF i <= 4 THEN x[i] ELSE y[i - 4]
  <2>1. /\ x \o y \in Seq(Byte) /\ Len(x \o y) = Len(x) + Len(y)
        /\ \A i \in 1 .. Len(x) + Len(y) :
             (x \o y)[i] = IF i <= Len(x) THEN x[i] ELSE y[i - Len(x)]
    BY <1>4, <1>5, ConcatProperties, Zenon
  <2> QED BY <1>4, <1>5, <1>7, <2>1, Zenon
<1>10. w[1] = x[1]
  <2>1. 1 \in 1 .. 4 + d.len
    BY <1>1
  <2> QED BY <1>8, <2>1
<1>11. ASSUME NEW k \in 1 .. d.len PROVE w[4 + k] = y[k]
  <2>1. PICK i \in 1 .. 4 + d.len : i = 4 + k /\ ~(i <= 4) /\ i - 4 = k
    BY <1>1
  <2> QED BY <1>8, <2>1
<1>9. Extent(d) = 4 + d.len
  BY DEF Extent, HEADER
<1>12. Wire(d) = w /\ Datagram(d) = y
  BY <1>3, <1>6, <1>7
<1>13. Extent(d) \in Nat
  BY <1>1, <1>9
<1>14. \A k \in 1 .. d.len : w[4 + k] = y[k]
  BY <1>11
<1>15. w \in Seq(Byte) /\ Len(w) = Extent(d) /\ w[1] = <<d.len, -1>>
  BY <1>4, <1>8, <1>9, <1>10, Zenon
<1> QED BY <1>1, <1>5, <1>9, <1>12, <1>13, <1>14, <1>15, Zenon

(* A chain of datagrams: one more, and one less. *)
LEMMA ChainIs ==
  ASSUME NEW ds, Chained(ds)
  PROVE  /\ ds \in Seq(Sent) /\ Len(ds) \in Nat /\ \A i \in 1 .. Len(ds) : ds[i] \in Sent
         /\ ds # <<>> => /\ Len(ds) >= 1 /\ ds[1] \in Sent
                         /\ After(ds) = ds[Len(ds)].at + Extent(ds[Len(ds)])
                         /\ ds[1].at + Extent(ds[1]) <= After(ds)
                         /\ \A n : From(ds, n) = ds[1].at + n
         /\ After(ds) \in Int
<1>1. ds \in Seq(Sent) /\ Len(ds) \in Nat /\ \A i \in 1 .. Len(ds) : ds[i] \in Sent
  BY DEF Chained
<1>2. CASE ds = <<>>
  BY <1>1, <1>2 DEF After
<1>3. CASE ds # <<>>
  <2>1. Len(ds) >= 1 /\ 1 \in 1 .. Len(ds) /\ Len(ds) \in 1 .. Len(ds)
    BY <1>1, <1>3
  <2>2. After(ds) = ds[Len(ds)].at + Extent(ds[Len(ds)])
    BY <1>3 DEF After, Last
  <2>3. ds[1].at + Extent(ds[1]) <= After(ds)
    BY <2>1 DEF Chained
  <2>4. After(ds) \in Int
    BY <1>1, <2>1, <2>2, WireIs
  <2>5. \A n : From(ds, n) = ds[1].at + n
    BY <1>3 DEF From
  <2> QED BY <1>1, <1>3, <2>1, <2>2, <2>3, <2>4, <2>5
<1> QED BY <1>2, <1>3

LEMMA ChainGrows ==
  ASSUME NEW ds, Chained(ds), NEW d \in Sent, d.at = After(ds), NEW es, es = Append(ds, d)
  PROVE  /\ Chained(es) /\ After(es) = After(ds) + Extent(d) /\ es # <<>>
         /\ Len(es) = Len(ds) + 1 /\ es[Len(ds) + 1] = d
         /\ \A i \in 1 .. Len(ds) : es[i] = ds[i]
         /\ From(es, 0) = From(ds, 0)
         /\ ds # <<>> => es[1] = ds[1] /\ \A n : From(es, n) = From(ds, n)
<1>1. PICK l \in Nat : l = Len(ds)
  BY ChainIs
<1>2. ds \in Seq(Sent) /\ Extent(d) \in Nat /\ After(ds) \in Int
  BY ChainIs, WireIs
<1>3. /\ es \in Seq(Sent) /\ Len(es) = l + 1 /\ es[l + 1] = d /\ es # <<>>
      /\ \A i \in 1 .. l : es[i] = ds[i]
  BY <1>1, <1>2
<1>4. After(es) = After(ds) + Extent(d)
  BY <1>3 DEF After, Last
<1>5. ASSUME NEW i \in 1 .. l + 1
      PROVE  /\ i > 1 => es[i].at = es[i - 1].at + Extent(es[i - 1])
             /\ es[i].at + Extent(es[i]) <= After(es)
  <2>1. CASE i \in 1 .. l
    <3>1. es[i] = ds[i] /\ ds[i].at + Extent(ds[i]) <= After(ds) /\ ds[i] \in Sent
      BY <1>1, <1>3, <2>1, ChainIs DEF Chained
    <3>2. ds[i].at + Extent(ds[i]) \in Int
      BY <3>1, WireIs
    <3>3. es[i].at + Extent(es[i]) <= After(es)
      BY <1>2, <1>4, <3>1, <3>2
    <3>4. i > 1 => i - 1 \in 1 .. l
      BY <1>1, <2>1
    <3>5. i > 1 => es[i].at = es[i - 1].at + Extent(es[i - 1])
      BY <1>1, <1>3, <2>1, <3>1, <3>4 DEF Chained
    <3> QED BY <3>3, <3>5
  <2>2. CASE i = l + 1
    <3>1. es[i] = d /\ d.at + Extent(d) <= After(es)
      BY <1>2, <1>3, <1>4, <2>2
    <3>2. CASE i > 1
      <4>1. ds # <<>> /\ l \in 1 .. l /\ i - 1 = l
        BY <1>1, <1>2, <2>2, <3>2
      <4>2. es[i - 1] = ds[l]
        BY <1>3, <4>1
      <4> QED BY <1>1, <3>1, <4>1, <4>2, ChainIs
    <3> QED BY <3>1, <3>2
  <2> QED BY <1>1, <2>1, <2>2
<1>6. Chained(es)
  BY <1>3, <1>5 DEF Chained
<1>7. ds # <<>> => es[1] = ds[1] /\ \A n : From(es, n) = From(ds, n)
  <2>1. ds # <<>> => 1 \in 1 .. l
    BY <1>1, <1>2
  <2> QED BY <1>3, <2>1 DEF From
<1>8. From(es, 0) = From(ds, 0)
  <2>1. CASE ds = <<>>
    <3>1. l = 0 /\ After(ds) = 0 /\ d.at = 0
      BY <1>1, <2>1 DEF After
    <3> QED BY <1>3, <2>1, <3>1 DEF From
  <2> QED BY <1>7, <2>1
<1> QED BY <1>1, <1>3, <1>4, <1>6, <1>7, <1>8

LEMMA ChainShrinks ==
  ASSUME NEW ds, Chained(ds), ds # <<>>, NEW es, es = Tail(ds)
  PROVE  /\ Chained(es) /\ Len(es) = Len(ds) - 1 /\ Len(es) \in Nat
         /\ \A i \in 1 .. Len(es) : es[i] = ds[i + 1]
         /\ After(es) - From(es, 0) = After(ds) - From(ds, Extent(ds[1]))
         /\ es # <<>> => From(es, 0) = From(ds, Extent(ds[1]))
<1>1. PICK l \in Nat : l + 1 = Len(ds)
  <2>1. Len(ds) \in Nat /\ Len(ds) >= 1
    BY ChainIs
  <2>2. Len(ds) - 1 \in Nat /\ (Len(ds) - 1) + 1 = Len(ds)
    BY <2>1
  <2> QED BY <2>2
<1>2. ds \in Seq(Sent)
  BY ChainIs
<1>3. es \in Seq(Sent) /\ Len(es) = l /\ \A i \in 1 .. l : es[i] = ds[i + 1]
  BY <1>1, <1>2
<1>4. From(ds, Extent(ds[1])) = ds[1].at + Extent(ds[1]) /\ ds[1].at + Extent(ds[1]) \in Int
  BY ChainIs, WireIs
<1>5. CASE l = 0
  <2>1. es = <<>>
    BY <1>3, <1>5
  <2>2. Chained(es)
    <3>1. ~\E i : i \in 1 .. Len(es)
      BY <1>3, <1>5
    <3> QED BY <1>3, <3>1 DEF Chained
  <2>4. After(es) = 0 /\ From(es, 0) = 0
    BY <2>1 DEF After, From
  <2>3. After(ds) = ds[1].at + Extent(ds[1])
    BY <1>1, <1>5, ChainIs
  <2>5. PICK a \in Int : a = ds[1].at + Extent(ds[1])
    BY <1>4
  <2>6. After(es) - From(es, 0) = After(ds) - From(ds, Extent(ds[1]))
    BY <1>4, <2>3, <2>4, <2>5
  <2> QED BY <1>1, <1>3, <2>1, <2>2, <2>6
<1>6. CASE l # 0
  <2>1. l >= 1 /\ 1 \in 1 .. l /\ l \in 1 .. l /\ 2 \in 1 .. l + 1
    BY <1>1, <1>6
  <2>2. es # <<>> /\ es[1] = ds[2] /\ es[l] = ds[l + 1]
    <3>1. es[1] = ds[1 + 1] /\ es[l] = ds[l + 1] /\ Len(es) >= 1
      BY <1>3, <2>1
    <3> QED BY <1>3, <3>1
  <2>3. After(es) = After(ds)
    BY <1>1, <1>3, <2>2, ChainIs DEF After, Last
  <2>4. From(es, 0) = From(ds, Extent(ds[1]))
    <3>1. ds[2].at = ds[1].at + Extent(ds[1])
      BY <1>1, <2>1 DEF Chained
    <3> QED BY <1>4, <2>2, <3>1 DEF From
  <2>5. ASSUME NEW i \in 1 .. l
        PROVE  /\ i > 1 => es[i].at = es[i - 1].at + Extent(es[i - 1])
               /\ es[i].at + Extent(es[i]) <= After(es)
    <3>1. i + 1 \in 1 .. l + 1 /\ i + 1 > 1 /\ (i + 1) - 1 = i
      BY <1>1
    <3>2. es[i] = ds[i + 1] /\ ds[i + 1].at = ds[i].at + Extent(ds[i])
      BY <1>1, <1>3, <3>1 DEF Chained
    <3>3. es[i].at + Extent(es[i]) <= After(es)
      BY <1>1, <2>3, <3>1, <3>2 DEF Chained
    <3>4. i > 1 => i - 1 \in 1 .. l /\ (i - 1) + 1 = i
      BY <1>1
    <3> QED BY <1>3, <3>2, <3>3, <3>4
  <2>6. Chained(es)
    BY <1>3, <2>5 DEF Chained
  <2> QED BY <1>1, <1>3, <2>2, <2>3, <2>4, <2>6
<1> QED BY <1>5, <1>6

(* A datagram is written to the buffer, ... *)
LEMMA HoldsMore ==
  ASSUME NEW f, RingOK(f), NEW ds, Chained(ds), NEW start \in Int, Holds(f, ds, start),
         NEW d \in Sent, d.at = After(ds), Extent(d) <= FifoSpace(f),
         NEW g, g = FifoWrite(f, Wire(d)), NEW es, es = Append(ds, d)
  PROVE  RingOK(g) /\ Holds(g, es, start)
<1>1. PICK src \in Seq(Byte), e \in Nat : src = Wire(d) /\ e = Extent(d) /\ Len(src) = e
  BY WireIs
<1>2. PICK size \in Nat : size = FifoSize(f)
  BY RingFacts
<1>3. PICK last \in Int : last = After(ds) /\ size = last - start
  BY <1>2, ChainIs DEF Holds
<1>4. /\ RingOK(g) /\ FifoSize(g) = size + e
      /\ \A j \in 1 .. size : ByteAt(g, j) = ByteAt(f, j)
      /\ \A j \in 1 .. e : ByteAt(g, size + j) = src[j]
  BY <1>1, <1>2, Written
<1>5. PICK l \in Nat : l = Len(ds)
  BY ChainIs
<1>6. /\ Len(es) = l + 1 /\ es[l + 1] = d /\ After(es) = last + e
      /\ \A i \in 1 .. l : es[i] = ds[i]
  <2>1. /\ Len(es) = Len(ds) + 1 /\ es[Len(ds) + 1] = d /\ After(es) = After(ds) + Extent(d)
        /\ \A i \in 1 .. Len(ds) : es[i] = ds[i]
    <3>1. Len(es) = Len(ds) + 1 /\ es[Len(ds) + 1] = d
      BY ChainGrows
    <3>2. After(es) = After(ds) + Extent(d)
      <4>1. es # <<>>
        BY ChainGrows
      <4> QED BY <3>1, <4>1 DEF After, Last
    <3>3. \A i \in 1 .. Len(ds) : es[i] = ds[i]
      BY ChainGrows
    <3> QED BY <3>1, <3>2, <3>3
  <2> QED BY <1>1, <1>3, <1>5, <2>1
<1>7. FifoSize(g) = After(es) - start
  BY <1>3, <1>4, <1>6
<1>8. ASSUME NEW i \in 1 .. Len(es), NEW k \in Nat, 1 <= k, k <= Extent(es[i]),
             es[i].at + k > start
      PROVE  ByteAt(g, es[i].at + k - start) = Wire(es[i])[k]
  <2>1. CASE i \in 1 .. l
    <3>1. PICK o \in Sent : o = ds[i] /\ es[i] = o
      BY <1>5, <1>6, <2>1, ChainIs
    <3>2. o.at \in Int /\ Extent(o) \in Nat /\ o.at + Extent(o) <= last
      BY <1>3, <1>5, <2>1, <3>1, WireIs DEF Chained
    <3>3. PICK j \in 1 .. size : j = o.at + k - start
      <4>1. k <= Extent(o) /\ o.at + k > start /\ size = last - start /\ k \in Nat
        BY <1>3, <1>8, <3>1
      <4>2. o.at + k - start \in 1 .. size
        <5>1. PICK x \in Int, y \in Nat : x = o.at /\ y = Extent(o) /\ x + y <= last
          BY <3>2
        <5>2. x + k - start >= 1
          BY <4>1, <5>1
        <5>3. x + k - start <= size
          BY <4>1, <5>1
        <5> QED BY <4>1, <5>1, <5>2, <5>3
      <4> QED BY <4>2
    <3>4. ByteAt(f, o.at + k - start) = Wire(o)[k]
      BY <1>5, <1>8, <2>1, <3>1 DEF Holds
    <3> QED BY <1>4, <3>1, <3>3, <3>4
  <2>2. CASE i = l + 1
    <3>1. es[i] = d /\ k \in 1 .. e
      BY <1>1, <1>6, <1>8, <2>2
    <3>2. d.at + k - start = size + k
      BY <1>3, <1>8
    <3> QED BY <1>1, <1>4, <3>1, <3>2
  <2> QED BY <1>5, <1>6, <2>1, <2>2
<1> QED BY <1>4, <1>7, <1>8 DEF Holds

(* ... bytes are taken out, ... *)
LEMMA HoldsLess ==
  ASSUME NEW f, RingOK(f), NEW ds, Chained(ds), NEW start \in Int, Holds(f, ds, start),
         NEW n \in Nat, n <= FifoSize(f), NEW g, g = FifoDrain(f, n)
  PROVE  RingOK(g) /\ Holds(g, ds, start + n) /\ FifoSpace(g) = FifoSpace(f) + n
<1>1. PICK size \in Nat : size = FifoSize(f) /\ FifoSpace(f) = FifoBytes - size
  BY RingFacts
<1>2. PICK last \in Int : last = After(ds) /\ size = last - start
  BY <1>1, ChainIs DEF Holds
<1>3. RingOK(g) /\ FifoSize(g) = size - n
      /\ \A j \in 1 .. size - n : ByteAt(g, j) = ByteAt(f, j + n)
  BY <1>1, Drained
<1>4. FifoSize(g) = After(ds) - (start + n)
  BY <1>2, <1>3
<1>5. FifoSpace(g) = FifoSpace(f) + n
  <2>1. FifoSpace(g) = FifoBytes - FifoSize(g)
    BY <1>3, RingFacts
  <2> QED BY <1>1, <1>3, <2>1, Numbers
<1>6. ASSUME NEW i \in 1 .. Len(ds), NEW k \in Nat, 1 <= k, k <= Extent(ds[i]),
             ds[i].at + k > start + n
      PROVE  ByteAt(g, ds[i].at + k - (start + n)) = Wire(ds[i])[k]
  <2>1. PICK o \in Sent : o = ds[i]
    BY ChainIs
  <2>2. o.at \in Int /\ Extent(o) \in Nat /\ o.at + Extent(o) <= last
    BY <1>2, <2>1, WireIs DEF Chained
  <2>3. PICK j \in 1 .. size - n : j = o.at + k - (start + n) /\ j + n = o.at + k - start
    <3>1. k <= Extent(o) /\ o.at + k > start + n /\ size = last - start /\ k \in Nat
      BY <1>2, <1>6, <2>1
    <3>2. /\ o.at + k - (start + n) \in 1 .. size - n
          /\ (o.at + k - (start + n)) + n = o.at + k - start
      <4>1. PICK x \in Int, y \in Nat : x = o.at /\ y = Extent(o) /\ x + y <= last
        BY <2>2
      <4>2. x + k - (start + n) >= 1
        BY <3>1, <4>1
      <4>3. x + k - (start + n) <= size - n
        BY <3>1, <4>1
      <4>4. (x + k - (start + n)) + n = x + k - start
        BY <3>1, <4>1
      <4> QED BY <3>1, <4>1, <4>2, <4>3, <4>4
    <3> QED BY <3>2
  <2>4. o.at + k > start
    BY <1>6, <2>1, <2>2
  <2>5. ByteAt(f, o.at + k - start) = Wire(o)[k]
    BY <1>6, <2>1, <2>4 DEF Holds
  <2> QED BY <1>3, <2>1, <2>3, <2>5
<1> QED BY <1>3, <1>4, <1>5, <1>6 DEF Holds

(* ... and when all of the first datagram has been, the second is first.   *)
LEMMA HoldsRest ==
  ASSUME NEW f, NEW ds, Chained(ds), ds # <<>>, Holds(f, ds, From(ds, Extent(ds[1]))),
         NEW es, es = Tail(ds)
  PROVE  Chained(es) /\ Holds(f, es, From(es, 0))
<1>1. /\ Chained(es) /\ Len(es) = Len(ds) - 1 /\ Len(es) \in Nat
      /\ \A i \in 1 .. Len(es) : es[i] = ds[i + 1]
      /\ After(es) - From(es, 0) = After(ds) - From(ds, Extent(ds[1]))
      /\ es # <<>> => From(es, 0) = From(ds, Extent(ds[1]))
  BY ChainShrinks
<1>2. ASSUME NEW i \in 1 .. Len(es), NEW k \in Nat, 1 <= k, k <= Extent(es[i]),
             es[i].at + k > From(es, 0)
      PROVE  ByteAt(f, es[i].at + k - From(es, 0)) = Wire(es[i])[k]
  <2>1. i + 1 \in 1 .. Len(ds) /\ es[i] = ds[i + 1]
    BY <1>1, ChainIs
  <2>2. es # <<>>
    <3>1. es = <<>> => Len(es) = 0
      OBVIOUS
    <3> QED BY <3>1
  <2>3. PICK from : from = From(ds, Extent(ds[1])) /\ from = From(es, 0)
    BY <1>1, <2>2
  <2> QED BY <1>2, <2>1, <2>3 DEF Holds
<1>3. FifoSize(f) = After(es) - From(es, 0)
  BY <1>1 DEF Holds
<1> QED BY <1>1, <1>2, <1>3 DEF Holds

(* What lies ahead of the reader that has taken n bytes of a datagram. *)
LEMMA FirstIs ==
  ASSUME NEW f, RingOK(f), NEW ds, Chained(ds), ds # <<>>, NEW n \in Nat,
         Holds(f, ds, From(ds, n))
  PROVE  /\ FifoSize(f) >= Extent(ds[1]) - n
         /\ \A j \in Nat : 1 <= j /\ n + j <= Extent(ds[1]) => ByteAt(f, j) = Wire(ds[1])[n + j]
<1>1. PICK d \in Sent : d = ds[1] /\ d.at + Extent(d) <= After(ds) /\ From(ds, n) = d.at + n
  BY ChainIs
<1>2. d.at \in Int /\ Extent(d) \in Nat /\ After(ds) \in Int /\ 1 \in 1 .. Len(ds)
  BY WireIs, ChainIs
<1>3. FifoSize(f) = After(ds) - (d.at + n)
  BY <1>1 DEF Holds
<1>4. ASSUME NEW j \in Nat, 1 <= j, n + j <= Extent(d) PROVE ByteAt(f, j) = Wire(d)[n + j]
  <2>1. PICK k \in Nat : k = n + j
    OBVIOUS
  <2>2. 1 <= k /\ k <= Extent(d) /\ d.at + k > d.at + n /\ d.at + k - (d.at + n) = j
    BY <1>2, <1>4, <2>1
  <2>3. ByteAt(f, d.at + k - (d.at + n)) = Wire(d)[k]
    BY <1>1, <1>2, <2>2 DEF Holds
  <2> QED BY <2>1, <2>2, <2>3
<1>5. FifoSize(f) >= Extent(d) - n
  BY <1>1, <1>2, <1>3
<1> QED BY <1>1, <1>4, <1>5

ReceiveInv == RingInv /\ ReadInv /\ TaskInv /\ ErrorInv

LEMMA TakenIs ==
  ASSUME UdpTypeOK
  PROVE  /\ Taken \in Nat
         /\ reader.pc = "data" => Taken = 4
         /\ reader.pc = "drain" => Taken = 4 + Len(reader.buf)
         /\ reader.pc \notin {"data", "drain"} => Taken = 0
BY UdpFacts DEF Taken, HEADER

LEMMA RingIs ==
  ASSUME UdpTypeOK, RingInv
  PROVE  /\ RingOK(fifo) /\ Chained(stored) /\ Holds(fifo, stored, From(stored, Taken))
         /\ From(stored, Taken) \in Int /\ FifoSpace(fifo) \in Int
<1>1. RingOK(fifo) /\ Chained(stored) /\ Holds(fifo, stored, From(stored, Taken))
  BY DEF RingInv
<1>2. From(stored, Taken) \in Int
  <2>1. CASE stored = <<>>
    BY <2>1 DEF From
  <2>2. CASE stored # <<>>
    <3>1. PICK x \in Int, y \in Nat : x = stored[1].at /\ y = Taken
      BY <1>1, <2>2, ChainIs, WireIs, TakenIs
    <3> QED BY <2>2, <3>1 DEF From
  <2> QED BY <2>1, <2>2
<1>3. FifoSpace(fifo) \in Int
  BY UdpFacts, SizeIs
<1> QED BY <1>1, <1>2, <1>3

(* Neither the buffer nor what has been taken of it changes. *)
LEMMA BufferStays ==
  ASSUME UdpTypeOK, UdpTypeOK', RingInv, fifo' = fifo, stored' = stored,
         reader' = reader \/ (reader.pc \notin {"data", "drain"} /\ reader'.pc \notin {"data", "drain"})
  PROVE  RingInv'
<1>1. Taken' = Taken
  <2>1. CASE reader' = reader
    BY <2>1 DEF Taken
  <2>2. CASE reader.pc \notin {"data", "drain"} /\ reader'.pc \notin {"data", "drain"}
    BY <2>2 DEF Taken
  <2> QED BY <2>1, <2>2
<1> QED BY <1>1 DEF RingInv

(* The thread. *)
LEMMA ThreadReceives ==
  ASSUME UdpTypeOK, UdpTypeOK', ReceiveInv, Using("udp"),
         (\E stop : UdpTask(stop) \/ UdpSelect(stop)) \/ UdpSpurious
  PROVE  ReceiveInv'
<1>1. RingInv /\ ReadInv /\ TaskInv /\ ErrorInv
  BY DEF ReceiveInv
<1>2. CASE UdpStore /\ h.o.fifo
  <2>1. PICK d : d = [id |-> net.datagrams, len |-> t.len, at |-> After(stored)]
    OBVIOUS
  <2>2. /\ fifo' = FifoWrite(fifo, Wire(d)) /\ t' = [t EXCEPT !.pc = "loop"] /\ h' = h
        /\ reader' = reader /\ circular_buffer_error' = circular_buffer_error
        /\ stored' = Append(stored, d) /\ t.pc = "store"
    BY <1>2, <2>1 DEF UdpStore
  <2>3. RingOK(fifo) /\ Chained(stored) /\ Holds(fifo, stored, From(stored, Taken))
        /\ From(stored, Taken) \in Int /\ FifoSpace(fifo) \in Int
    BY <1>1, RingIs
  <2>4. d \in Sent /\ d.at = After(stored) /\ d.len = t.len
    BY <2>1, <2>3, UdpFacts, ChainIs DEF Sent
  <2>5. Extent(d) <= FifoSpace(fifo)
    BY <1>1, <2>2, <2>3, <2>4, UdpFacts DEF TaskInv, Extent, HEADER
  <2>6. RingOK(fifo') /\ Holds(fifo', stored', From(stored, Taken))
    BY <2>2, <2>3, <2>4, <2>5, HoldsMore
  <2>7. /\ Chained(stored') /\ stored' # <<>> /\ From(stored', 0) = From(stored, 0)
        /\ stored # <<>> => stored'[1] = stored[1] /\ \A n : From(stored', n) = From(stored, n)
    <3>1. PICK ds, es : ds = stored /\ es = stored'
      OBVIOUS
    <3>2. Chained(ds) /\ es = Append(ds, d) /\ d.at = After(ds)
      BY <2>2, <2>3, <2>4, <3>1
    <3>3. Chained(es)
      BY <2>4, <3>2, ChainGrows
    <3>4. es # <<>>
      <4>1. ds \in Seq(Sent)
        BY <3>2, ChainIs
      <4> QED BY <2>4, <3>2, <4>1
    <3>5. From(es, 0) = From(ds, 0)
      BY <2>4, <3>2, ChainGrows
    <3>6. ds # <<>> => es[1] = ds[1] /\ \A n : From(es, n) = From(ds, n)
      <4>1. ds # <<>> => es[1] = ds[1]
        BY <2>4, <3>2, ChainGrows
      <4> QED BY <3>4, <4>1 DEF From
    <3> QED BY <3>1, <3>3, <3>4, <3>5, <3>6
  <2>8. RingInv'
    <3>1. Taken' = Taken
      BY <2>2 DEF Taken
    <3>2. stored = <<>> => Taken = 0
      BY <1>1, TakenIs DEF ReadInv
    <3>3. From(stored', Taken) = From(stored, Taken)
      BY <2>7, <3>2
    <3> QED BY <2>6, <2>7, <3>1, <3>3 DEF RingInv
  <2>9. ReadInv'
    BY <1>1, <2>2, <2>7 DEF ReadInv
  <2>10. t'.pc = "loop"
    BY <2>2 DEF UdpTypeOK
  <2>11. TaskInv'
    BY <1>1, <2>2, <2>10 DEF TaskInv
  <2>12. ErrorInv'
    BY <1>1, <1>2, <2>2 DEF ErrorInv, TaskInv, Using
  <2> QED BY <2>8, <2>9, <2>11, <2>12 DEF ReceiveInv
<1>3. CASE ~UdpStore
  <2>1. fifo' = fifo /\ stored' = stored /\ reader' = reader /\ h' = h
    BY <1>3 DEF UdpTask, UdpInterrupted, UdpSelect, UdpReceive, UdpEnd, UdpSpurious
  <2>2. RingInv' /\ ReadInv'
    BY <1>1, <2>1, BufferStays DEF ReadInv
  <2>3. TaskInv' /\ (circular_buffer_error # "none" => circular_buffer_error' # "none")
    <3>1. CASE \E stop : UdpInterrupted(stop)
      BY <1>1, <2>1, <3>1 DEF TaskInv, UdpInterrupted, UdpTypeOK
    <3>2. CASE \E stop : UdpSelect(stop)
      <4>1. t.pc = "loop" /\ circular_buffer_error = "none"
        BY <1>1, <3>2 DEF TaskInv, UdpSelect
      <4>2. CASE t' = [t EXCEPT !.pc = "recv", !.left = FifoSpace(fifo)]
                 /\ circular_buffer_error' = circular_buffer_error
        <5>1. t'.pc = "recv" /\ t'.left = FifoSpace(fifo) /\ FifoSpace(fifo) \in Int
          BY <1>1, <4>2, RingIs DEF UdpTypeOK
        <5> QED BY <2>1, <4>1, <4>2, <5>1 DEF TaskInv
      <4>3. CASE t' = [t EXCEPT !.pc = "end"]
        BY <4>1, <4>3 DEF TaskInv, UdpTypeOK
      <4> QED BY <3>2, <4>2, <4>3 DEF UdpSelect
    <3>3. CASE UdpReceive
      <4>1. t.pc = "recv" /\ circular_buffer_error = "none" /\ t.left <= FifoSpace(fifo)
        BY <1>1, <3>3 DEF TaskInv, UdpReceive
      <4>2. CASE \E len \in 0 .. MaxLen : Fits(t.left, len) /\ t' = [t EXCEPT !.pc = "store", !.len = len]
                                          /\ circular_buffer_error' = circular_buffer_error
        <5>1. PICK len \in 0 .. MaxLen : Fits(t.left, len) /\ t' = [t EXCEPT !.pc = "store", !.len = len]
                                         /\ circular_buffer_error' = circular_buffer_error
          BY <4>2
        <5>2. t'.pc = "store" /\ t'.len = len /\ t'.left = t.left /\ len \in Nat /\ t.left \in Int
          BY <5>1, Numbers DEF UdpTypeOK
        <5>3. HEADER + len <= t.left
          BY <5>1, <5>2 DEF Fits, HEADER
        <5> QED BY <2>1, <4>1, <5>1, <5>2, <5>3 DEF TaskInv
      <4>3. CASE t' = [t EXCEPT !.pc = "loop"] /\ circular_buffer_error' = circular_buffer_error
        BY <4>1, <4>3 DEF TaskInv, UdpTypeOK
      <4>4. CASE t' = [t EXCEPT !.pc = "end"]
        BY <4>1, <4>4 DEF TaskInv, UdpTypeOK
      <4> QED BY <3>3, <4>2, <4>3, <4>4 DEF UdpReceive
    <3>4. CASE UdpEnd
      BY <1>1, <2>1, <3>4 DEF TaskInv, UdpEnd, UdpTypeOK
    <3>5. CASE UdpSpurious
      BY <1>1, <2>1, <3>5 DEF TaskInv, UdpSpurious
    <3> QED BY <1>3, <3>1, <3>2, <3>3, <3>4, <3>5 DEF UdpTask
  <2>4. UdpSpurious \/ h.o.fifo
    BY DEF UdpTask, UdpSelect
  <2>5. ErrorInv'
    <3>1. UdpSpurious => t' = t
      BY DEF UdpSpurious
    <3> QED BY <1>1, <2>1, <2>3, <2>4, <3>1 DEF ErrorInv, Using
  <2> QED BY <2>2, <2>3, <2>5 DEF ReceiveInv
<1>4. UdpStore => h.o.fifo
  <2>1. UdpStore => t.pc = "store"
    BY DEF UdpStore
  <2> QED BY <1>1, <2>1 DEF ErrorInv
<1> QED BY <1>2, <1>3, <1>4

(* What the loop makes of an answer of udp: an error is returned only if   *)
(* udp has answered with one.                                              *)
LEMMA ErrorsReturned ==
  ASSUME LoopInv, NEW k \in Answers, NEW n, k = "EAGAIN" => h.o.nonblock, UrlTransferred(Ret(k, n))
  PROVE  h'.o = h.o /\ (Failed(h'.ret) => Failed(h.ret) \/ k = "EIO")
<1>1. PICK r : r = Ret(k, n) /\ r.kind = k
  BY DEF Ret
<1>2. h \in [o : UrlOption, call : Calls, ret : Rets, asked : Int, ended : BOOLEAN, handed : Int]
      /\ h.o.nonblock \in BOOLEAN
  BY LoopFacts DEF LoopInv
<1>3. CASE k = "EINTR"
  <2>1. h' = [h EXCEPT !.call.pc = "loop"]
    BY <1>1, <1>3 DEF UrlTransferred
  <2> QED BY <1>2, <2>1
<1>4. CASE k # "EINTR" /\ h.o.nonblock
  <2>1. h' = [h EXCEPT !.call = NoCall, !.ret = r, !.handed = h.handed + r.count,
                       !.ended = r.kind = "EOF"]
    BY <1>1, <1>2, <1>4 DEF UrlTransferred
  <2>2. h'.o = h.o /\ h'.ret = r
    BY <1>2, <2>1
  <2> QED BY <1>1, <1>4, <2>2 DEF Failed, Answers
<1>5. CASE k = "data" /\ ~h.o.nonblock
  <2>1. Advance(r.count)
    BY <1>1, <1>5 DEF UrlTransferred
  <2>2. h'.o = h.o /\ (h'.ret = h.ret \/ h'.ret.kind = "data")
    BY <1>2, <2>1 DEF Advance, Ret
  <2> QED BY <2>2 DEF Failed
<1>6. CASE k = "EIO" /\ ~h.o.nonblock
  <2>1. UrlReturn(r)
    BY <1>1, <1>6 DEF UrlTransferred
  <2>2. h'.o = h.o
    BY <1>2, <2>1 DEF UrlReturn
  <2> QED BY <1>6, <2>2
<1> QED BY <1>3, <1>4, <1>5, <1>6 DEF Answers

(* A step of the reader that takes n bytes of the first datagram. *)
LEMMA TakesBytes ==
  ASSUME UdpTypeOK, ReceiveInv, stored # <<>>, NEW n \in Nat, Taken + n <= Extent(stored[1]),
         fifo' = FifoDrain(fifo, n)
  PROVE  /\ RingOK(fifo') /\ Holds(fifo', stored, From(stored, Taken + n))
         /\ FifoSpace(fifo') >= FifoSpace(fifo)
<1>1. RingOK(fifo) /\ Chained(stored) /\ Holds(fifo, stored, From(stored, Taken))
      /\ From(stored, Taken) \in Int /\ FifoSpace(fifo) \in Int
  BY RingIs DEF ReceiveInv
<1>2. PICK k \in Nat : k = Taken
  BY TakenIs
<1>3. FifoSize(fifo) >= Extent(stored[1]) - k
  BY <1>1, <1>2, FirstIs
<1>4. PICK e \in Nat : e = Extent(stored[1])
  BY <1>1, ChainIs, WireIs
<1>5. PICK x \in Nat : x = FifoSize(fifo)
  BY <1>1, RingFacts
<1>6. n <= FifoSize(fifo)
  BY <1>2, <1>3, <1>4, <1>5
<1>7. /\ RingOK(fifo') /\ Holds(fifo', stored, From(stored, Taken) + n)
      /\ FifoSpace(fifo') = FifoSpace(fifo) + n
  BY <1>1, <1>6, HoldsLess
<1>8. From(stored, Taken) + n = From(stored, Taken + n)
  <2>1. PICK x2 \in Int : x2 = stored[1].at
    BY <1>1, ChainIs, WireIs
  <2>2. From(stored, Taken) = x2 + k /\ From(stored, Taken + n) = x2 + (k + n)
    BY <1>2, <2>1 DEF From
  <2> QED BY <2>2
<1> QED BY <1>1, <1>7, <1>8

LEMMA TaskStays ==
  ASSUME TaskInv, UdpTypeOK, UdpTypeOK', t' = t, circular_buffer_error' = circular_buffer_error,
         FifoSpace(fifo') >= FifoSpace(fifo)
  PROVE  TaskInv'
<1>1. FifoSpace(fifo) \in Int /\ FifoSpace(fifo') \in Int /\ t.left \in Int
  <2>1. fifo \in Fifos /\ fifo' \in Fifos /\ t.left \in Int
    BY DEF UdpTypeOK
  <2> QED BY <2>1, SizeIs
<1> QED BY <1>1 DEF TaskInv

LEMMA HeaderReceives ==
  ASSUME UdpTypeOK, UdpTypeOK', ReceiveInv, UdpHeader
  PROVE  ReceiveInv'
<1>1. RingInv /\ ReadInv /\ TaskInv /\ ErrorInv
  BY DEF ReceiveInv
<1>2. PICK tmp : tmp = FifoPeek(fifo, HEADER)[1][1]
  OBVIOUS
<1>3. /\ reader.pc = "header" /\ reader' = [reader EXCEPT !.pc = "data", !.tmp = tmp]
      /\ fifo' = FifoDrain(fifo, 4) /\ h' = h /\ t' = t /\ stored' = stored
      /\ circular_buffer_error' = circular_buffer_error
  BY <1>2 DEF UdpHeader, HEADER
<1>4. reader'.pc = "data" /\ reader'.tmp = tmp
  BY <1>3 DEF UdpTypeOK
<1>5. stored # <<>> /\ Taken = 0 /\ Taken' = 4
  BY <1>1, <1>3, <1>4, TakenIs DEF ReadInv, Taken, HEADER
<1>6. RingOK(fifo) /\ Chained(stored) /\ Holds(fifo, stored, From(stored, 0))
  BY <1>1, <1>5, RingIs
<1>7. PICK d \in Sent : d = stored[1]
  BY <1>5, <1>6, ChainIs
<1>8. d.len \in Nat /\ Extent(d) = 4 + d.len /\ Wire(d)[1] = <<d.len, -1>>
  BY WireIs
<1>9. RingOK(fifo') /\ Holds(fifo', stored, From(stored, 4)) /\ FifoSpace(fifo') >= FifoSpace(fifo)
  <2>1. Taken + 4 <= Extent(stored[1]) /\ Taken + 4 = 4 /\ 4 \in Nat
    BY <1>5, <1>7, <1>8
  <2>2. /\ RingOK(fifo') /\ Holds(fifo', stored, From(stored, Taken + 4))
        /\ FifoSpace(fifo') >= FifoSpace(fifo)
    BY <1>3, <1>5, <2>1, TakesBytes
  <2> QED BY <2>1, <2>2
<1>10. RingInv'
  BY <1>3, <1>5, <1>6, <1>9 DEF RingInv
<1>11. tmp = d.len
  <2>1. FifoPeek(fifo, HEADER)[1] = ByteAt(fifo, 1)
    <3>1. 1 \in 1 .. 4 /\ 4 \in Nat /\ HEADER = 4
      BY DEF HEADER
    <3> QED BY <3>1, UdpFacts, PeeksAre
  <2>2. ByteAt(fifo, 1) = Wire(d)[1]
    <3>1. 1 \in Nat /\ 0 \in Nat /\ 0 + 1 <= Extent(stored[1]) /\ 0 + 1 = 1
      BY <1>7, <1>8
    <3> QED BY <1>5, <1>6, <1>7, <3>1, FirstIs
  <2> QED BY <1>2, <1>8, <2>1, <2>2
<1>12. ReadInv'
  BY <1>3, <1>4, <1>5, <1>7, <1>11 DEF ReadInv
<1>13. TaskInv'
  BY <1>1, <1>3, <1>9, TaskStays
<1>14. ErrorInv'
  BY <1>1, <1>3 DEF ErrorInv, Using
<1> QED BY <1>10, <1>12, <1>13, <1>14 DEF ReceiveInv

LEMMA PrefixIs ==
  ASSUME NEW x \in Seq(Byte), NEW y \in Seq(Byte), Len(x) <= Len(y),
         \A j \in 1 .. Len(x) : x[j] = y[j]
  PROVE  IsPrefix(x, y)
<1>1. PICK n \in Nat : n = Len(x)
  OBVIOUS
<1>2. SubSeq(x, 1, n) = [j \in 1 .. n |-> x[j]]
  BY <1>1
<1>3. SubSeq(y, 1, n) = [j \in 1 .. n |-> y[j]]
  BY <1>1
<1>4. SubSeq(x, 1, n) = SubSeq(y, 1, n)
  BY <1>1, <1>2, <1>3
<1> QED BY <1>1, <1>4 DEF IsPrefix

LEMMA DataReceives ==
  ASSUME UdpTypeOK, UdpTypeOK', ReceiveInv, LoopInv, Serving, UdpData
  PROVE  ReceiveInv'
<1>1. RingInv /\ ReadInv /\ TaskInv /\ ErrorInv
  BY DEF ReceiveInv
<1>2. PICK avail : avail = Smaller(reader.tmp, UrlRoom)
  OBVIOUS
<1>3. PICK buf : buf = FifoPeek(fifo, avail)
  OBVIOUS
<1>4. /\ reader.pc = "data" /\ reader' = [reader EXCEPT !.pc = "drain", !.buf = buf]
      /\ fifo' = FifoDrain(fifo, avail) /\ h' = h /\ t' = t /\ stored' = stored
      /\ circular_buffer_error' = circular_buffer_error
  BY <1>2, <1>3 DEF UdpData
<1>5. reader'.pc = "drain" /\ reader'.buf = buf /\ reader'.tmp = reader.tmp
  BY <1>4 DEF UdpTypeOK
<1>6. stored # <<>> /\ reader.tmp = stored[1].len /\ Taken = 4
  BY <1>1, <1>4, TakenIs DEF ReadInv
<1>7. RingOK(fifo) /\ Chained(stored) /\ Holds(fifo, stored, From(stored, 4))
  BY <1>1, <1>6, RingIs
<1>8. PICK d \in Sent : d = stored[1]
  BY <1>6, <1>7, ChainIs
<1>9. /\ d.len \in Nat /\ Extent(d) = 4 + d.len /\ reader.tmp = d.len
      /\ Datagram(d) \in Seq(Byte) /\ Len(Datagram(d)) = d.len
      /\ \A k \in 1 .. d.len : Wire(d)[4 + k] = Datagram(d)[k]
  BY <1>6, <1>8, WireIs
<1>10. avail \in Nat /\ avail <= d.len
  <2>1. UrlRoom \in Int /\ UrlRoom > 0
    BY <1>4, LoopFacts DEF Serving, UrlIdle
  <2> QED BY <1>2, <1>9, <2>1 DEF Smaller
<1>11. buf \in Seq(Byte) /\ Len(buf) = avail /\ \A j \in 1 .. avail : buf[j] = ByteAt(fifo, j)
  BY <1>3, <1>10, UdpFacts, PeeksAre
<1>12. Taken' = 4 + avail
  BY <1>5, <1>11 DEF Taken, HEADER
<1>13. RingOK(fifo') /\ Holds(fifo', stored, From(stored, 4 + avail))
       /\ FifoSpace(fifo') >= FifoSpace(fifo)
  <2>1. Taken + avail <= Extent(stored[1]) /\ Taken + avail = 4 + avail
    BY <1>6, <1>8, <1>9, <1>10
  <2>2. /\ RingOK(fifo') /\ Holds(fifo', stored, From(stored, Taken + avail))
        /\ FifoSpace(fifo') >= FifoSpace(fifo)
    BY <1>4, <1>6, <1>10, <2>1, TakesBytes
  <2> QED BY <2>1, <2>2
<1>14. RingInv'
  BY <1>4, <1>7, <1>12, <1>13 DEF RingInv
<1>15. ASSUME NEW j \in 1 .. avail PROVE buf[j] = Datagram(d)[j]
  <2>1. j \in Nat /\ 1 <= j /\ 4 + j <= Extent(stored[1]) /\ j \in 1 .. d.len /\ 4 \in Nat
    BY <1>8, <1>9, <1>10
  <2>2. ByteAt(fifo, j) = Wire(d)[4 + j]
    BY <1>6, <1>7, <1>8, <2>1, FirstIs
  <2> QED BY <1>9, <1>11, <2>1, <2>2
<1>16. IsPrefix(buf, Datagram(d))
  BY <1>9, <1>10, <1>11, <1>15, PrefixIs
<1>17. ReadInv'
  BY <1>4, <1>5, <1>6, <1>8, <1>16 DEF ReadInv
<1>18. TaskInv'
  BY <1>1, <1>4, <1>13, TaskStays
<1>19. ErrorInv'
  BY <1>1, <1>4 DEF ErrorInv, Using
<1> QED BY <1>14, <1>17, <1>18, <1>19 DEF ReceiveInv

LEMMA DrainReceives ==
  ASSUME UdpTypeOK, UdpTypeOK', ReceiveInv, LoopInv, UdpDrain
  PROVE  ReceiveInv'
<1>1. RingInv /\ ReadInv /\ TaskInv /\ ErrorInv
  BY DEF ReceiveInv
<1>2. /\ reader.pc = "drain" /\ reader' = NoRead /\ t' = t
      /\ fifo' = FifoDrain(fifo, Remainder) /\ stored' = Tail(stored)
      /\ circular_buffer_error' = circular_buffer_error
      /\ UrlTransferred(Ret("data", Len(reader.buf)))
  BY DEF UdpDrain, UdpReturn
<1>3. stored # <<>> /\ reader.tmp = stored[1].len /\ IsPrefix(reader.buf, Datagram(stored[1]))
      /\ Taken = 4 + Len(reader.buf)
  BY <1>1, <1>2, TakenIs DEF ReadInv
<1>4. RingOK(fifo) /\ Chained(stored)
  BY <1>1, RingIs
<1>5. PICK d \in Sent : d = stored[1]
  BY <1>3, <1>4, ChainIs
<1>6. d.len \in Nat /\ Extent(d) = 4 + d.len /\ Len(Datagram(d)) = d.len
  BY WireIs
<1>7. PICK n \in Nat : n = Remainder /\ Taken + n = Extent(d)
  <2>1. PICK x \in Nat : x = Len(reader.buf) /\ x <= d.len
    BY <1>3, <1>5, <1>6, UdpFacts DEF IsPrefix
  <2>2. d.len - x \in Nat /\ Remainder = d.len - x
    BY <1>3, <1>5, <1>6, <2>1 DEF Remainder
  <2>3. Taken + (d.len - x) = Extent(d)
    BY <1>3, <1>6, <2>1
  <2> QED BY <2>2, <2>3
<1>8. RingOK(fifo') /\ Holds(fifo', stored, From(stored, Extent(d)))
      /\ FifoSpace(fifo') >= FifoSpace(fifo)
  <2>1. Taken + n <= Extent(stored[1])
    BY <1>5, <1>6, <1>7
  <2>2. /\ RingOK(fifo') /\ Holds(fifo', stored, From(stored, Taken + n))
        /\ FifoSpace(fifo') >= FifoSpace(fifo)
    BY <1>2, <1>3, <1>7, <2>1, TakesBytes
  <2> QED BY <1>7, <2>2
<1>9. Chained(stored') /\ Holds(fifo', stored', From(stored', 0))
  <2>1. PICK ds, es, f : ds = stored /\ es = stored' /\ f = fifo'
    OBVIOUS
  <2> QED BY <1>2, <1>3, <1>4, <1>5, <1>8, <2>1, HoldsRest
<1>10. reader'.pc = "user" /\ Taken' = 0
  BY <1>2 DEF NoRead, Taken
<1>11. RingInv'
  BY <1>8, <1>9, <1>10 DEF RingInv
<1>12. ReadInv'
  BY <1>10 DEF ReadInv
<1>13. TaskInv'
  BY <1>1, <1>2, <1>8, TaskStays
<1>14. ErrorInv'
  <2>1. h'.o = h.o /\ (Failed(h'.ret) => Failed(h.ret))
    BY <1>2, ErrorsReturned DEF Answers
  <2> QED BY <1>1, <1>2, <1>3, <2>1 DEF ErrorInv, Using
<1> QED BY <1>11, <1>12, <1>13, <1>14 DEF ReceiveInv

LEMMA DecideReceives ==
  ASSUME UdpTypeOK, UdpTypeOK', ReceiveInv, LoopInv, UdpDecide
  PROVE  ReceiveInv'
<1>1. RingInv /\ ReadInv /\ TaskInv /\ ErrorInv
  BY DEF ReceiveInv
<1>2. /\ reader.pc = "lock" /\ fifo' = fifo /\ t' = t /\ stored' = stored
      /\ circular_buffer_error' = circular_buffer_error
  BY DEF UdpDecide
<1>3. RingOK(fifo) /\ Chained(stored) /\ Holds(fifo, stored, From(stored, 0))
  BY <1>1, <1>2, RingIs, TakenIs
<1>4. FifoSize(fifo) \in Nat /\ (FifoSize(fifo) = 0 <=> stored = <<>>)
  <2>1. FifoSize(fifo) \in Nat
    BY <1>3, RingFacts
  <2>2. CASE stored = <<>>
    BY <1>3, <2>1, <2>2 DEF Holds, After, From
  <2>3. CASE stored # <<>>
    <3>1. stored[1] \in Sent
      BY <1>3, <2>3, ChainIs
    <3>2. Extent(stored[1]) \in Nat /\ Extent(stored[1]) > 0
      BY <3>1, WireIs
    <3>3. FifoSize(fifo) >= Extent(stored[1]) - 0
      <4>1. 0 \in Nat
        OBVIOUS
      <4> QED BY <1>3, <2>3, <4>1, FirstIs
    <3> QED BY <2>1, <2>3, <3>2, <3>3
  <2> QED BY <2>1, <2>2, <2>3
<1>5. TaskInv'
  <2>1. FifoSpace(fifo') = FifoSpace(fifo) /\ FifoSpace(fifo) \in Int
    BY <1>1, <1>2, RingIs
  <2>2. FifoSpace(fifo') >= FifoSpace(fifo)
    BY <2>1
  <2> QED BY <1>1, <1>2, <2>2, TaskStays
<1>6. CASE reader' = [reader EXCEPT !.pc = "header"] /\ h' = h /\ FifoSize(fifo) > 0
  <2>1. reader'.pc = "header" /\ stored # <<>>
    BY <1>4, <1>6 DEF UdpTypeOK
  <2>2. RingInv'
    BY <1>1, <1>2, <2>1, BufferStays
  <2>3. ReadInv'
    BY <1>2, <2>1 DEF ReadInv
  <2>4. ErrorInv'
    BY <1>1, <1>2, <1>6 DEF ErrorInv, Using
  <2> QED BY <1>5, <2>2, <2>3, <2>4 DEF ReceiveInv
<1>7. CASE reader' = reader /\ h' = h
  <2>1. RingInv' /\ ReadInv'
    BY <1>1, <1>2, <1>7, BufferStays DEF ReadInv
  <2>2. ErrorInv'
    BY <1>1, <1>2, <1>7 DEF ErrorInv, Using
  <2> QED BY <1>5, <2>1, <2>2 DEF ReceiveInv
<1>8. CASE \E k \in Answers : /\ UdpReturn(Ret(k, 0)) /\ (k = "EAGAIN" => h.o.nonblock)
                              /\ k = "EIO" => FifoSize(fifo) = 0 /\ circular_buffer_error # "none"
  <2>1. PICK k \in Answers : /\ UdpReturn(Ret(k, 0)) /\ (k = "EAGAIN" => h.o.nonblock)
                             /\ k = "EIO" => FifoSize(fifo) = 0 /\ circular_buffer_error # "none"
    BY <1>8
  <2>2. reader'.pc = "user" /\ UrlTransferred(Ret(k, 0))
    BY <2>1 DEF UdpReturn, NoRead
  <2>3. RingInv' /\ ReadInv'
    BY <1>1, <1>2, <2>2, BufferStays DEF ReadInv
  <2>4. h'.o = h.o /\ (Failed(h'.ret) => Failed(h.ret) \/ k = "EIO")
    BY <2>1, <2>2, ErrorsReturned
  <2>5. ErrorInv'
    BY <1>1, <1>2, <1>4, <2>1, <2>4 DEF ErrorInv, Using
  <2> QED BY <1>5, <2>3, <2>5 DEF ReceiveInv
<1>9. circular_buffer_error \in {"none", "EIO", "EINTR"}
  BY DEF UdpTypeOK
<1>10. CASE FifoSize(fifo) > 0
  BY <1>6, <1>10 DEF UdpDecide
<1>11. CASE FifoSize(fifo) = 0 /\ circular_buffer_error # "none"
  <2>1. UdpReturn(Ret(circular_buffer_error, 0))
    BY <1>11 DEF UdpDecide
  <2> QED BY <1>8, <1>9, <1>11, <2>1 DEF Answers
<1>12. CASE FifoSize(fifo) = 0 /\ circular_buffer_error = "none"
  <2>1. \/ h.o.nonblock /\ UdpReturn(Ret("EAGAIN", 0))
        \/ h' = h /\ reader' = reader
    BY <1>12 DEF UdpDecide
  <2> QED BY <1>7, <1>8, <2>1 DEF Answers
<1> QED BY <1>4, <1>10, <1>11, <1>12

LEMMA ReaderReceives ==
  ASSUME UdpTypeOK, UdpTypeOK', ReceiveInv, LoopInv, Serving, UdpReader
  PROVE  ReceiveInv'
<1>1. RingInv /\ ReadInv /\ TaskInv /\ ErrorInv
  BY DEF ReceiveInv
<1>2. CASE UdpEnter
  <2>1. /\ reader.pc = "user" /\ reader'.pc = "lock" /\ fifo' = fifo /\ t' = t /\ stored' = stored
        /\ circular_buffer_error' = circular_buffer_error
        /\ h' = h
    BY <1>2 DEF UdpEnter, UdpTypeOK
  <2>2. RingInv' /\ ReadInv'
    BY <1>1, <2>1, BufferStays DEF ReadInv
  <2>3. TaskInv' /\ ErrorInv'
    BY <1>1, <2>1 DEF TaskInv, ErrorInv, Using
  <2> QED BY <2>2, <2>3 DEF ReceiveInv
<1>3. CASE UdpDirect
  <2>1. /\ fifo' = fifo /\ t' = t /\ stored' = stored /\ reader' = reader /\ ~h.o.fifo
        /\ circular_buffer_error' = circular_buffer_error /\ ~UrlIdle
    BY <1>3 DEF UdpDirect, UrlTransfers, UrlIdle
  <2>2. RingInv' /\ ReadInv' /\ TaskInv'
    BY <1>1, <2>1, BufferStays DEF ReadInv, TaskInv
  <2>3. h'.o = h.o
    <3>1. h' = h \/ \E k \in Answers, n \in Nat : UrlTransferred(Ret(k, n))
      BY UdpReaderStep
    <3>2. CASE \E k \in Answers, n \in Nat : UrlTransferred(Ret(k, n))
      <4>1. PICK k \in Answers, n \in Nat : UrlTransferred(Ret(k, n))
        BY <3>2
      <4>2. k \in RetKinds /\ n \in Int /\ n >= 0
        BY <4>1 DEF Answers, RetKinds
      <4> QED BY <2>1, <4>1, <4>2, TransferredStep
    <3> QED BY <3>1, <3>2
  <2>4. ErrorInv'
    BY <1>1, <2>1, <2>3 DEF ErrorInv, Using
  <2> QED BY <2>2, <2>4 DEF ReceiveInv
<1> QED BY <1>2, <1>3, HeaderReceives, DataReceives, DrainReceives, DecideReceives DEF UdpReader

(* What happens elsewhere leaves the buffer alone, and says nothing of an  *)
(* error of udp.                                                           *)
LEMMA OthersReceive ==
  ASSUME Inv, ReceiveInv, UNCHANGED udp, h'.o = h.o,
         Using("udp") /\ Failed(h'.ret) => Failed(h.ret)
  PROVE  ReceiveInv'
<1>1. /\ fifo' = fifo /\ t' = t /\ stored' = stored /\ reader' = reader
      /\ circular_buffer_error' = circular_buffer_error
  BY DEF udp
<1>2. RingInv /\ ReadInv /\ TaskInv /\ ErrorInv
  BY DEF ReceiveInv
<1>3. UdpTypeOK /\ UdpTypeOK'
  BY UdpStays DEF Inv
<1>4. RingInv' /\ ReadInv' /\ TaskInv'
  BY <1>1, <1>2, <1>3, BufferStays DEF ReadInv, TaskInv
<1>5. ErrorInv'
  BY <1>1, <1>2 DEF ErrorInv, Using
<1> QED BY <1>4, <1>5 DEF ReceiveInv

LEMMA ReceiveSteps ==
  ASSUME Inv, ReceiveInv, [AllNext]_all PROVE ReceiveInv'
<1>1. Inv' /\ UdpTypeOK /\ UdpTypeOK' /\ LoopInv /\ Serving
  BY Steps DEF Inv
<1>2. CASE UNCHANGED <<h, udp>>
  BY <1>2, OthersReceive
<1>3. CASE User \/ Loop \/ Clock
  <2>1. UNCHANGED udp
    BY <1>3 DEF User, Loop, Clock
  <2>2. CASE User
    <3>1. h'.o = h.o
      BY <1>1, <2>2, CallerStep DEF User
    <3>2. h'.ret = Ret("none", 0)
      BY <1>1, <2>2 DEF User, UrlRead, LoopInv
    <3> QED BY <2>1, <3>1, <3>2, OthersReceive DEF Failed, Ret
  <2>3. CASE Loop
    <3>1. h'.o = h.o
      BY <1>1, <2>3, LoopStep DEF Loop
    <3>2. h'.ret = h.ret \/ h'.ret = Ret("EXIT", 0)
      BY <1>1, <2>3 DEF Loop, UrlLoop, UrlReturn, LoopInv
    <3> QED BY <2>1, <3>1, <3>2, OthersReceive DEF Failed, Ret
  <2>4. CASE Clock
    <3>1. h'.o = h.o
      BY <1>1, <2>4, LoopStep DEF Clock
    <3>2. h'.ret = h.ret
      BY <1>1, <2>4 DEF Clock, TimeoutPasses, LoopInv
    <3> QED BY <2>1, <3>1, <3>2, OthersReceive
  <2> QED BY <1>3, <2>2, <2>3, <2>4
<1>4. CASE \/ Async(AsyncReader) \/ Async(AsyncThread) \/ Async(AsyncUser)
           \/ Async(SpuriousWake /\ UNCHANGED h)
  <2>1. UNCHANGED udp /\ ~Using("udp") /\ h'.o = h.o
    BY <1>4, AsyncLoopStep DEF Async, Using
  <2> QED BY <2>1, OthersReceive
<1>5. CASE Smb(SmbStep) \/ Smb(SmbService) \/ Smb(SmbBreaks) \/ Smb(SmbClose)
  <2>1. UNCHANGED udp /\ ~Using("udp") /\ h'.o = h.o
    BY <1>5, SmbLoopStep DEF Smb, Using
  <2> QED BY <2>1, OthersReceive
<1>6. CASE Udp(UdpReader)
  BY <1>1, <1>6, ReaderReceives DEF Udp
<1>7. CASE \/ Udp(UdpTask(interrupted)) \/ Udp(UdpSelect(interrupted)) \/ Udp(UdpSpurious)
  BY <1>1, <1>7, ThreadReceives DEF Udp
<1> QED BY <1>2, <1>3, <1>4, <1>5, <1>6, <1>7 DEF AllNext, Reader, Thread, Ended, all

LEMMA ReceiveStarts ==
  ASSUME AllInit PROVE ReceiveInv
<1>1. /\ fifo = Alloc(FifoBytes) /\ t.pc = "loop" /\ reader.pc = "user" /\ stored = <<>>
      /\ circular_buffer_error = "none"
  BY DEF AllInit, UdpInit, NoRead
<1>2. RingOK(fifo) /\ FifoSize(fifo) = 0
  BY <1>1, AllocIs
<1>3. stored \in Seq(Sent) /\ Len(stored) = 0
  BY <1>1
<1>4. RingInv
  <2>1. Chained(stored)
    BY <1>3 DEF Chained
  <2>2. After(stored) = 0 /\ From(stored, Taken) = 0
    BY <1>1 DEF After, From
  <2>3. Holds(fifo, stored, From(stored, Taken))
    BY <1>2, <1>3, <2>2 DEF Holds
  <2> QED BY <1>2, <2>1, <2>3 DEF RingInv
<1>5. ReadInv /\ TaskInv
  BY <1>1 DEF ReadInv, TaskInv
<1>6. PICK o \in UrlOptions : UrlInit(o)
  BY DEF AllInit
<1>7. h.ret.kind = "none"
  BY <1>6 DEF UrlInit, Ret
<1>8. ErrorInv
  BY <1>1, <1>7 DEF ErrorInv, Failed
<1> QED BY <1>4, <1>5, <1>8 DEF ReceiveInv

LEMMA ReceiveInvImplies ==
  ASSUME Inv, ReceiveInv PROVE Receives
<1>1. RingInv /\ ReadInv /\ TaskInv /\ ErrorInv /\ UdpTypeOK
  BY DEF ReceiveInv, Inv
<1>2. RingOK(fifo) /\ Chained(stored) /\ Holds(fifo, stored, From(stored, Taken))
      /\ From(stored, Taken) \in Int
  BY <1>1, RingIs
<1>3. PICK start \in Int : start = Start /\ start = From(stored, Taken)
  BY <1>2 DEF Start, From
<1>4. PICK size \in Nat : size = FifoSize(fifo)
  BY <1>2, RingFacts
<1>5. FifoSize(fifo) = After(stored) - Start
  BY <1>2, <1>3 DEF Holds
<1>6. ASSUME NEW i \in DOMAIN stored, NEW k \in 1 .. Extent(stored[i]), stored[i].at + k > start
      PROVE  Content(fifo)[stored[i].at + k - start] = Wire(stored[i])[k]
  <2>1. i \in 1 .. Len(stored)
    BY <1>2, ChainIs
  <2>2. PICK d \in Sent : d = stored[i] /\ d.at + Extent(d) <= After(stored)
    BY <1>2, <2>1, ChainIs DEF Chained
  <2>3. PICK x \in Int, e \in Nat, last \in Int : x = d.at /\ e = Extent(d) /\ last = After(stored)
    BY <1>2, <2>2, WireIs, ChainIs
  <2>4. k \in Nat /\ 1 <= k /\ k <= e /\ x + k > start /\ x + e <= last /\ size = last - start
    <3>1. k \in 1 .. Extent(d) /\ d.at + k > start
      BY <1>6, <2>2
    <3>2. k \in Nat /\ 1 <= k /\ k <= e /\ x + k > start
      BY <2>3, <3>1
    <3>3. x + e <= last /\ size = last - start
      BY <1>3, <1>4, <1>5, <2>2, <2>3
    <3> QED BY <3>2, <3>3
  <2>5. PICK j \in 1 .. size : j = x + k - start
    <3>1. x + k - start >= 1 /\ x + k - start <= size
      BY <2>3, <2>4
    <3> QED BY <2>3, <2>4, <3>1
  <2>6. ByteAt(fifo, d.at + k - start) = Wire(d)[k]
    BY <1>2, <1>3, <2>1, <2>2, <2>3, <2>4 DEF Holds
  <2>7. Content(fifo)[j] = ByteAt(fifo, j)
    BY <1>1, <1>4, PeeksAre, UdpFacts DEF Content
  <2> QED BY <2>2, <2>3, <2>5, <2>6, <2>7
<1>7. \A i \in DOMAIN stored : i > 1 => stored[i].at = stored[i - 1].at + Extent(stored[i - 1])
  <2>1. DOMAIN stored = 1 .. Len(stored)
    BY <1>2, ChainIs
  <2> QED BY <1>2, <2>1 DEF Chained
<1>8. reader.pc = "drain" => IsPrefix(reader.buf, Datagram(Head(stored)))
  BY <1>1 DEF ReadInv
<1>9. WholeDatagrams
  BY <1>3, <1>5, <1>6, <1>7, <1>8 DEF WholeDatagrams
<1>10. DataBeforeErrors
  BY <1>1 DEF ErrorInv, Failed, DataBeforeErrors
<1>11. GrowKeepsContent
  <2>1. ASSUME NEW n \in 0 .. Modulus - 1, NEW r \in Grow(fifo, n)
        PROVE  /\ Content(r.fifo) = Content(fifo)
               /\ IF r.ret = "ok" THEN FifoSpace(r.fifo) >= n ELSE r.fifo = fifo
    BY <1>2, <2>1, Grown
  <2> QED BY <2>1 DEF GrowKeepsContent
<1> QED BY <1>9, <1>10, <1>11 DEF Receives

(* Property Receives: of udp's buffer.  It holds the datagrams that were   *)
(* stored and not yet read, each behind its length and in order, less what *)
(* udp_read has taken of the first, whatever its size, wherever the ring   *)
(* and its counters wrap around, and though space is measured and bytes    *)
(* are taken out without the mutex; a read copies the beginning of one     *)
(* datagram; an error is returned only after the last datagram; and        *)
(* av_fifo_grow would keep what is stored.                                 *)
THEOREM DatagramsWhole == AllSpec => []Receives
<1>1. Inv /\ ReceiveInv /\ [AllNext]_all => (Inv /\ ReceiveInv)'
  BY Steps, ReceiveSteps
<1>2. AllInit => Inv /\ ReceiveInv
  BY Starts, ReceiveStarts
<1>3. Inv /\ ReceiveInv => Receives
  BY ReceiveInvImplies
<1> QED BY <1>1, <1>2, <1>3, PTL DEF AllSpec
=============================================================================
