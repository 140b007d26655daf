---------------------------- MODULE UdpProtocol ----------------------------
(***************************************************************************)
(* libavformat/udp.c, reading: a thread receives datagrams into a circular *)
(* buffer from which udp_read takes them, one for each call; without the   *)
(* buffer udp_read receives them itself.                                   *)
(*                                                                         *)
(* The mutex covers the write of a datagram, and udp_read's decision what  *)
(* to do; the space is measured, the bytes are taken out and the error is  *)
(* set without it.  A byte is a pair: of a header (the length and which of *)
(* its four bytes it is) or of a datagram (its number and the offset).     *)
(***************************************************************************)
EXTENDS Url, AvFifo, SequencesExt

CONSTANTS
  FifoBytes,    \* circular_buffer_size
  MaxLen,       \* bound: bytes of a datagram
  MaxDatagrams, \* bound: datagrams that arrive
  MaxSignals    \* bound: signals that interrupt a call of recv

ASSUME UdpAssumption == /\ {FifoBytes, MaxLen, MaxDatagrams} \subseteq Nat \ {0}
                        /\ {MaxSignals, Modulus} \subseteq Nat /\ Modulus > FifoBytes

VARIABLES
  fifo,     \* s->fifo
  t,        \* circular_buffer_task: pc, left, len
  reader,   \* udp_read: pc, the length in the header, what it has copied
  circular_buffer_error,
  waitData, \* udp_read is in pthread_cond_wait
  net,      \* the network: datagrams that have arrived, signals
  stored    \* history: the datagrams in the buffer, the one being read included,
            \* and at which position of the stream of bytes each was put

udp == <<fifo, t, reader, circular_buffer_error, waitData, net, stored>>

HEADER == 4
Header(len) == [k \in 1 .. HEADER |-> <<len, -k>>]
Datagram(d) == [k \in 1 .. d.len |-> <<d.id, k>>]
Wire(d) == Header(d.len) \o Datagram(d)
Extent(d) == HEADER + d.len
After(ds) == IF ds = <<>> THEN 0 ELSE Last(ds).at + Extent(Last(ds))

NoRead == [pc |-> "user", tmp |-> 0, buf |-> <<>>]

UdpInit ==
  /\ fifo = Alloc(FifoBytes) /\ t = [pc |-> "loop", left |-> 0, len |-> 0]
  /\ reader = NoRead /\ circular_buffer_error = "none" /\ waitData = FALSE
  /\ net = [datagrams |-> 0, signals |-> 0] /\ stored = <<>>

-----------------------------------------------------------------------------
(* circular_buffer_task: the top of the loop, up to the measured space.    *)
(* When nothing arrives within a second it starts again.                   *)
UdpInterrupted(stop) ==
  /\ t.pc = "loop" /\ stop
  /\ circular_buffer_error' = "EINTR" /\ t' = [t EXCEPT !.pc = "end"]
  /\ UNCHANGED <<h, fifo, reader, waitData, net, stored>>

UdpSelect(stop) ==
  /\ h.o.fifo /\ t.pc = "loop" /\ ~stop
  /\ \/ /\ net.datagrams < MaxDatagrams
        /\ t' = [t EXCEPT !.pc = "recv", !.left = FifoSpace(fifo)]
        /\ UNCHANGED circular_buffer_error
     \/ circular_buffer_error' = "EIO" /\ t' = [t EXCEPT !.pc = "end"]
  /\ UNCHANGED <<h, fifo, reader, waitData, net, stored>>

Fits(left, len) == left >= len + HEADER

(* recv.  A datagram that does not fit is dropped or ends the reception;   *)
(* so does an error, but not EAGAIN or EINTR.                              *)
UdpReceive ==
  /\ t.pc = "recv"
  /\ \/ \E len \in 0 .. MaxLen :
          /\ net' = [net EXCEPT !.datagrams = @ + 1]
          /\ IF Fits(t.left, len)
             THEN t' = [t EXCEPT !.pc = "store", !.len = len] /\ UNCHANGED circular_buffer_error
             ELSE IF h.o.overrun_nonfatal
             THEN t' = [t EXCEPT !.pc = "loop"] /\ UNCHANGED circular_buffer_error
             ELSE t' = [t EXCEPT !.pc = "end"] /\ circular_buffer_error' = "EIO"
     \/ t' = [t EXCEPT !.pc = "loop"] /\ UNCHANGED <<net, circular_buffer_error>>
     \/ t' = [t EXCEPT !.pc = "end"] /\ circular_buffer_error' = "EIO" /\ UNCHANGED net
  /\ UNCHANGED <<h, fifo, reader, waitData, stored>>

(* Length and bytes are written together, under the mutex. *)
UdpStore ==
  LET d == [id |-> net.datagrams, len |-> t.len, at |-> After(stored)] IN
  /\ t.pc = "store"
  /\ fifo' = FifoWrite(fifo, Wire(d))
  /\ stored' = Append(stored, d) /\ waitData' = FALSE
  /\ t' = [t EXCEPT !.pc = "loop"]
  /\ UNCHANGED <<h, reader, circular_buffer_error, net>>

(* Mutant of UdpEnd: the reader is not told. *)
UdpEndSilently ==
  /\ t.pc = "end" /\ t' = [t EXCEPT !.pc = "dead"]
  /\ UNCHANGED <<h, fifo, reader, circular_buffer_error, waitData, net, stored>>

UdpEnd ==
  /\ t.pc = "end" /\ t' = [t EXCEPT !.pc = "dead"] /\ waitData' = FALSE
  /\ UNCHANGED <<h, fifo, reader, circular_buffer_error, net, stored>>

-----------------------------------------------------------------------------
(* udp_read with the circular buffer: under the mutex it looks for data,   *)
(* then for an error, and waits if there is neither.                       *)
UdpEnter ==
  /\ UrlTransfers("udp") /\ h.o.fifo /\ reader.pc = "user"
  /\ reader' = [reader EXCEPT !.pc = "lock"]
  /\ UNCHANGED <<h, fifo, t, circular_buffer_error, waitData, net, stored>>

UdpReturn(ret) == UrlTransferred(ret) /\ reader' = NoRead

(* Mutant of UdpDecide: the error comes first. *)
UdpDecideErrorFirst ==
  /\ reader.pc = "lock" /\ ~waitData
  /\ CASE circular_buffer_error # "none" ->
            UdpReturn(Ret(circular_buffer_error, 0)) /\ UNCHANGED waitData
       [] circular_buffer_error = "none" /\ FifoSize(fifo) > 0 ->
            reader' = [reader EXCEPT !.pc = "header"] /\ UNCHANGED <<h, waitData>>
       [] OTHER ->
            IF h.o.nonblock
            THEN UdpReturn(Ret("EAGAIN", 0)) /\ UNCHANGED waitData
            ELSE waitData' = TRUE /\ UNCHANGED <<h, reader>>
  /\ UNCHANGED <<fifo, t, circular_buffer_error, net, stored>>

UdpDecide ==
  /\ reader.pc = "lock" /\ ~waitData
  /\ CASE FifoSize(fifo) > 0 ->
            reader' = [reader EXCEPT !.pc = "header"] /\ UNCHANGED <<h, waitData>>
       [] FifoSize(fifo) = 0 /\ circular_buffer_error # "none" ->
            UdpReturn(Ret(circular_buffer_error, 0)) /\ UNCHANGED waitData
       [] OTHER ->
            IF h.o.nonblock
            THEN UdpReturn(Ret("EAGAIN", 0)) /\ UNCHANGED waitData
            ELSE waitData' = TRUE /\ UNCHANGED <<h, reader>>
  /\ UNCHANGED <<fifo, t, circular_buffer_error, net, stored>>

(* The length, ... *)
UdpHeader ==
  /\ reader.pc = "header"
  /\ reader' = [reader EXCEPT !.pc = "data", !.tmp = FifoPeek(fifo, HEADER)[1][1]]
  /\ fifo' = FifoDrain(fifo, HEADER)
  /\ UNCHANGED <<h, t, circular_buffer_error, waitData, net, stored>>

(* ... as many bytes as the caller has room for, ... *)
UdpData ==
  LET avail == Smaller(reader.tmp, UrlRoom) IN
  /\ reader.pc = "data"
  /\ reader' = [reader EXCEPT !.pc = "drain", !.buf = FifoPeek(fifo, avail)]
  /\ fifo' = FifoDrain(fifo, avail)
  /\ UNCHANGED <<h, t, circular_buffer_error, waitData, net, stored>>

Remainder == reader.tmp - Len(reader.buf)

(* ... and the rest of the datagram is lost. *)
UdpDrain ==
  /\ reader.pc = "drain"
  /\ fifo' = FifoDrain(fifo, Remainder) /\ stored' = Tail(stored)
  /\ UdpReturn(Ret("data", Len(reader.buf)))
  /\ UNCHANGED <<t, circular_buffer_error, waitData, net>>

(* udp_read without the buffer: ff_network_wait_fd and recv. *)
UdpDirect ==
  /\ UrlTransfers("udp") /\ ~h.o.fifo
  /\ \/ \E len \in 0 .. MaxLen :
          /\ net.datagrams < MaxDatagrams
          /\ net' = [net EXCEPT !.datagrams = @ + 1]
          /\ UrlTransferred(Ret("data", Smaller(len, UrlRoom)))
     \/ /\ net.signals < MaxSignals
        /\ net' = [net EXCEPT !.signals = @ + 1] /\ UrlTransferred(Ret("EINTR", 0))
     \/ \E kind \in {"EAGAIN", "EIO"} : UrlTransferred(Ret(kind, 0)) /\ UNCHANGED net
  /\ UNCHANGED <<fifo, t, reader, circular_buffer_error, waitData, stored>>

UdpSpurious == waitData /\ waitData' = FALSE
               /\ UNCHANGED <<h, fifo, t, reader, circular_buffer_error, net, stored>>

UdpReader == UdpEnter \/ UdpDecide \/ UdpHeader \/ UdpData \/ UdpDrain \/ UdpDirect
UdpTask(stop) ==
  /\ h.o.fifo
  /\ UdpInterrupted(stop) \/ UdpReceive \/ UdpStore \/ UdpEnd
-----------------------------------------------------------------------------
(* The buffer holds exactly the datagrams that were stored and not yet     *)
(* read, each behind its length, less what the reader has taken of the     *)
(* first: also while bytes are taken out without the mutex, when the ring  *)
(* and its indices wrap around, when datagrams are truncated, and when the *)
(* space was measured long before it is used.  What a read copies is the   *)
(* beginning of one datagram.                                              *)
Taken == CASE reader.pc = "data" -> HEADER
           [] reader.pc = "drain" -> HEADER + Len(reader.buf)
           [] OTHER -> 0
Start == IF stored = <<>> THEN 0 ELSE Head(stored).at + Taken
WholeDatagrams ==
  /\ FifoSize(fifo) = After(stored) - Start
  /\ \A i \in DOMAIN stored : LET d == stored[i] IN
       /\ i > 1 => d.at = stored[i - 1].at + Extent(stored[i - 1])
       /\ \A k \in 1 .. Extent(d) : d.at + k > Start =>
            Content(fifo)[d.at + k - Start] = Wire(d)[k]
  /\ reader.pc = "drain" => IsPrefix(reader.buf, Datagram(Head(stored)))

(* An error is returned only after the datagrams that came before it, and  *)
(* av_fifo_grow would make room for any number of bytes and keep what is   *)
(* in the buffer, or fail and change nothing.                              *)
DataBeforeErrors ==
  h.o.fifo /\ h.ret.kind \in {"EIO", "EINTR"} => stored = <<>>

GrowKeepsContent ==
  \A n \in 0 .. Modulus - 1 : \A r \in Grow(fifo, n) :
    /\ Content(r.fifo) = Content(fifo)
    /\ IF r.ret = "ok" THEN FifoSpace(r.fifo) >= n ELSE r.fifo = fifo
=============================================================================
