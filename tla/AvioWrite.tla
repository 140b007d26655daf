----------------------------- MODULE AvioWrite -----------------------------
(***************************************************************************)
(* libavformat/aviobuf.c, writing: the buffer between a muxer and the      *)
(* protocol or callback that it writes to.                                 *)
(*                                                                         *)
(* A turn of the loop of avio_write is one step; every other call is one   *)
(* step.  A position holds the mark of the write that was last made there. *)
(***************************************************************************)
EXTENDS Integers, Sequences

CONSTANTS MaxFile,      \* bound: the positions that are written or sought
          BufferSizes,  \* sizes of the buffer a context is made with
          Marks,        \* what is written
          Sinks,        \* what is written to
          MaxWrite      \* bound: bytes of one write

(* seek: the callback is missing, may fail, or works; direct is the field  *)
(* of AVIOContext.                                                         *)
Sink == [seek : {"null", "may fail", "works"}, direct : BOOLEAN]

VARIABLES
  sink,     \* the sink
  s,        \* AVIOContext: buffer is what lies before the larger of buf_ptr and
            \* buf_ptr_max, and at is the position of the sink
  file,     \* what the sink holds
  call,     \* the call under way
  meant,    \* history: what the user means the file to hold
  place,    \* history: the position of the user
  strayed,  \* history: a direct write could not go back to it
  open

vars == <<sink, s, file, call, meant, place, strayed, open>>

Smaller(x, y) == IF x < y THEN x ELSE y

Positions == 0 .. MaxFile + MaxWrite
Nothing == [p \in Positions |-> "none"]
Idle == [op |-> "idle", size |-> 0, mark |-> "none"]

(* ffio_init_context *)
Init ==
  /\ sink \in Sinks
  /\ \E n \in BufferSizes :
       s = [buffer |-> <<>>, buf_ptr |-> 0, buffer_size |-> n, pos |-> 0,
            error |-> FALSE, at |-> 0]
  /\ file = Nothing /\ meant = Nothing /\ call = Idle /\ place = 0 /\ strayed = FALSE /\ open = TRUE

Tell(w) == w.pos + w.buf_ptr

(* f, with data from position pos on *)
Over(f, pos, data) ==
  [p \in Positions |-> IF p \in pos .. pos + Len(data) - 1 THEN data[p - pos + 1] ELSE f[p]]

-----------------------------------------------------------------------------
(* A state of the context and of the file together. *)
Now == [s |-> s, file |-> file]

Moved(v, n) == [v EXCEPT !.s.pos = @ + n]

(* writeout: after an error, nothing more is written. *)
WriteOuts(v, data) ==
  {[Moved(v, Len(data)) EXCEPT !.s.error = TRUE]} \cup
  IF v.s.error THEN {}
  ELSE {[Moved(v, Len(data)) EXCEPT !.file = Over(@, v.s.at, data), !.s.at = @ + Len(data)]}

Emptied(v) == [v EXCEPT !.s.buffer = <<>>, !.s.buf_ptr = 0]

(* flush_buffer *)
Flushes(v) ==
  IF v.s.buffer = <<>> THEN {v} ELSE {Emptied(u) : u \in WriteOuts(v, v.s.buffer)}

(* The sink moves, or its seek callback fails. *)
SinkSeeks(v, pos) ==
  (IF sink.seek # "works" THEN {v} ELSE {}) \cup
  (IF sink.seek # "null" THEN {[Emptied(v) EXCEPT !.s.pos = pos, !.s.at = pos]} ELSE {})

(* Mutant of FlushesAll: the position is left behind what was written. *)
FlushesAllOn(v) == Flushes(v)

(* avio_flush: it goes back to where it was, if it can. *)
FlushesAll(v) ==
  UNION {IF v.s.buf_ptr = Len(v.s.buffer) THEN {u} ELSE SinkSeeks(u, Tell(v.s)) : u \in Flushes(v)}

Becomes(v) == s' = v.s /\ file' = v.file

(* Where a flush may fail to go back, the user asks for the position. *)
Learns == place' = IF sink.seek = "works" THEN place ELSE Tell(s')

-----------------------------------------------------------------------------
(* avio_w8, ffio_fill, avio_write: the user begins to write. *)
Write(size, mark, op) ==
  /\ open /\ call.op = "idle" /\ place + size <= MaxFile
  /\ call' = [op |-> op, size |-> size, mark |-> mark]
  /\ meant' = Over(meant, place, [k \in 1 .. size |-> mark])
  /\ place' = place + size
  /\ UNCHANGED <<sink, s, file, strayed, open>>

Marked(n) == [k \in 1 .. n |-> call.mark]

(* What is put into the buffer replaces what was there. *)
Put(n) ==
  LET rest == SubSeq(s.buffer, s.buf_ptr + n + 1, Len(s.buffer)) IN
  [s EXCEPT !.buffer = SubSeq(@, 1, s.buf_ptr) \o Marked(n) \o rest, !.buf_ptr = @ + n]

WriteTurn ==
  LET n == Smaller(s.buffer_size - s.buf_ptr, call.size)
      put == [Now EXCEPT !.s = Put(n)]
  IN
  /\ call.op = "write"
  /\ \E v \in IF put.s.buf_ptr >= s.buffer_size THEN Flushes(put) ELSE {put} : Becomes(v)
  /\ call' = IF n = call.size THEN Idle ELSE [call EXCEPT !.size = @ - n]
  /\ UNCHANGED <<sink, meant, place, strayed, open>>

(* avio_write of a context that is direct *)
WriteDirect ==
  /\ call.op = "direct"
  /\ \E u \in FlushesAll(Now) :
       /\ strayed' = (strayed \/ (sink.seek # "works" /\ Tell(u.s) # Tell(s)))
       /\ \E v \in WriteOuts(u, Marked(call.size)) : Becomes(v)
  /\ Learns /\ call' = Idle /\ UNCHANGED <<sink, meant, open>>

Flush ==
  /\ open /\ call.op = "idle"
  /\ \E v \in FlushesAll(Now) : Becomes(v)
  /\ Learns /\ UNCHANGED <<sink, call, meant, strayed, open>>

(* avio_seek to an absolute position: within the buffer up to buf_ptr_max, *)
(* or of the sink, after a flush.                                          *)
InBuffer(offset) ==
  /\ ~sink.direct \/ sink.seek = "null"
  /\ offset - s.pos \in 0 .. Len(s.buffer)

Seek(offset) ==
  /\ open /\ call.op = "idle"
  /\ \/ /\ InBuffer(offset)
        /\ s' = [s EXCEPT !.buf_ptr = offset - s.pos] /\ place' = offset /\ UNCHANGED file
     \/ /\ ~InBuffer(offset)
        /\ \E u \in Flushes(Now) : \E v \in SinkSeeks(u, offset) : Becomes(v)
        /\ place' = IF sink.seek = "works" THEN offset ELSE Tell(s')
  /\ UNCHANGED <<sink, call, meant, strayed, open>>

(* avio_close *)
Close ==
  /\ open /\ call.op = "idle" /\ open' = FALSE
  /\ \E v \in FlushesAll(Now) : Becomes(v)
  /\ Learns /\ UNCHANGED <<sink, call, meant, strayed>>

Closed == ~open /\ UNCHANGED vars

Calling == call.op # "idle"
Continue == WriteTurn \/ WriteDirect

Next ==
  \/ \E size \in 1 .. MaxWrite, mark \in Marks :
       Write(size, mark, IF sink.direct THEN "direct" ELSE "write")
  \/ \E mark \in Marks : Write(1, mark, "write")      \* avio_w8
  \/ \E offset \in 0 .. MaxFile : Seek(offset)
  \/ Flush \/ Close \/ Continue \/ Closed

-----------------------------------------------------------------------------
(* The file, with the buffer laid over it, is what the user means it to    *)
(* be, wherever the user has sought and whatever has been flushed.         *)
Sound == ~s.error /\ ~strayed
NothingMisplaced == Sound /\ call.op = "idle" => Over(file, s.pos, s.buffer) = meant

(* Closing brings everything to the file. *)
ClosedComplete == Sound /\ ~open => file = meant

(* A failed write is told: as long as error is clear, the sink stands at   *)
(* the position of the buffer.                                             *)
FailuresKept == ~s.error => s.at = s.pos

(* A flush leaves the user where it was, as long as the sink can be sought. *)
PlaceKept == call.op = "idle" => Tell(s) = place
=============================================================================
