------------------------------ MODULE AvioRead ------------------------------
(***************************************************************************)
(* libavformat/aviobuf.c, reading: the buffer between a demuxer and the    *)
(* protocol or callback that it reads from.                                *)
(*                                                                         *)
(* A byte is named by its position in the resource.  A turn of the loops   *)
(* of avio_read and avio_seek is one step; every other call is one step.   *)
(***************************************************************************)
EXTENDS Integers, Sequences

CONSTANTS Size,            \* length of the resource
          IO_BUFFER_SIZE,  \* the most that is expected of one read
          BufferSizes,     \* sizes of the buffer a context is made with
          ShortSeek,       \* short_seek_threshold
          Sources,         \* what is read from
          MaxRead,         \* bound: bytes asked for by a read
          MaxWindow        \* bound: bytes asked for by ffio_ensure_seekback

(* seek: the callback is missing, fails, or works; seekable and direct are *)
(* fields of AVIOContext.                                                  *)
Source == [seek : {"null", "fails", "works"}, seekable : BOOLEAN, direct : BOOLEAN]

VARIABLES
  src,    \* the source
  s,      \* AVIOContext, whose buf_end is the length of buffer; and the position
          \* of the source (at)
  call,   \* the call under way
  probe,  \* what the caller has read to probe the format, until it rewinds
  window  \* history: what ffio_ensure_seekback has promised

vars == <<src, s, call, probe, window>>

Larger(x, y) == IF x > y THEN x ELSE y
Smaller(x, y) == IF x < y THEN x ELSE y

Tell(w) == w.pos - Len(w.buffer) + w.buf_ptr

Idle == [op |-> "idle", size |-> 0, offset |-> 0, from |-> 0, got |-> <<>>, ok |-> TRUE]
Failed == [Idle EXCEPT !.ok = FALSE]

NoWindow == [from |-> 0, to |-> -1, latest |-> FALSE]
NoProbe == [on |-> FALSE, buf |-> <<>>]

(* ffio_init_context; the caller may begin by probing. *)
Init ==
  /\ src \in Sources
  /\ \E n \in BufferSizes :
       s = [buffer |-> <<>>, buf_ptr |-> 0, buffer_size |-> n, orig_buffer_size |-> n,
            pos |-> 0, eof_reached |-> FALSE, error |-> FALSE, at |-> 0]
  /\ call = Idle /\ probe \in {NoProbe, [NoProbe EXCEPT !.on = TRUE]} /\ window = NoWindow

-----------------------------------------------------------------------------
(* The source: it gives some of the bytes asked for, the end, or an error. *)
Counts(w, size) == 1 .. Smaller(size, Size - w.at)
From(w, n) == [k \in 1 .. n |-> w.at + k - 1]

Ends(w) == {[w EXCEPT !.eof_reached = TRUE, !.error = TRUE]} \cup
           IF w.at >= Size THEN {[w EXCEPT !.eof_reached = TRUE]} ELSE {}

(* fill_buffer: the contexts it may leave.  It appends to the buffer while *)
(* a whole read still fits; otherwise it starts again, if possible with a  *)
(* buffer of the original size.                                            *)
Appends(w) == Len(w.buffer) + IO_BUFFER_SIZE < w.buffer_size

Room(w) == IF Appends(w) THEN w.buffer_size - Len(w.buffer) ELSE w.buffer_size
Grown(w) == w.buffer_size > w.orig_buffer_size /\ Room(w) >= w.orig_buffer_size

Shrunk(w) ==
  IF Grown(w) /\ ~Appends(w) /\ w.buf_ptr # 0
  THEN {w, [w EXCEPT !.buffer = <<>>, !.buf_ptr = 0, !.buffer_size = w.orig_buffer_size]}
  ELSE {w}

(* Mutant of Filled: the new data is not kept apart from what was read.    *)
FilledOver(v, n, appends) ==
  [v EXCEPT !.pos = @ + n, !.at = @ + n, !.buffer = From(v, n), !.buf_ptr = 0]

Filled(v, n, appends) ==
  [v EXCEPT !.pos = @ + n, !.at = @ + n,
            !.buffer = IF appends THEN @ \o From(v, n) ELSE From(v, n),
            !.buf_ptr = IF appends THEN Len(v.buffer) ELSE 0]

Fills(w) ==
  IF w.eof_reached THEN {w}
  ELSE UNION {Ends(v) \cup {Filled(v, n, Appends(w)) :
                n \in Counts(v, IF Grown(w) THEN w.orig_buffer_size ELSE Room(w))} : v \in Shrunk(w)}

(* avio_feof *)
Feofs(w) == IF w.eof_reached THEN Fills([w EXCEPT !.eof_reached = FALSE]) ELSE {w}

-----------------------------------------------------------------------------
(* What was promised holds until the position leaves the window, or a call *)
(* asks for more.  It is no longer the latest promise when the caller asks *)
(* again, nor once avio_read_partial has been called.                      *)
Within(pos) == IF pos \in window.from .. window.to THEN window ELSE NoWindow

(* avio_read *)
Read(size) ==
  /\ call.op = "idle"
  /\ call' = [Idle EXCEPT !.op = "read", !.size = size, !.from = Tell(s)]
  /\ window' = Within(Tell(s) + size)
  /\ UNCHANGED <<src, s, probe>>

(* Nothing read may mean that the end is not the end any more. *)
ReadEnds(w, got) ==
  /\ s' \in IF got = <<>> /\ ~w.error THEN Feofs(w) ELSE {w}
  /\ call' = Idle
  /\ probe' = IF probe.on THEN [probe EXCEPT !.buf = @ \o got] ELSE probe

Got(w, bytes) ==
  LET got == call.got \o bytes IN
  IF Len(bytes) = call.size THEN ReadEnds(w, got)
  ELSE /\ s' = w /\ call' = [call EXCEPT !.size = @ - Len(bytes), !.got = got]
       /\ UNCHANGED probe

Available == Len(s.buffer) - s.buf_ptr

ReadCopies ==
  LET n == Smaller(Available, call.size) IN
  /\ call.op = "read" /\ n > 0
  /\ Got([s EXCEPT !.buf_ptr = @ + n], SubSeq(s.buffer, s.buf_ptr + 1, s.buf_ptr + n))
  /\ UNCHANGED <<src, window>>

Bypasses == src.direct \/ call.size > s.buffer_size

Bypassed(n) == [s EXCEPT !.pos = @ + n, !.at = @ + n, !.buffer = <<>>, !.buf_ptr = 0]

ReadBypasses ==
  /\ call.op = "read" /\ Available = 0 /\ Bypasses
  /\ \/ \E w \in Ends(s) : ReadEnds(w, call.got)
     \/ \E n \in Counts(s, call.size) : Got(Bypassed(n), From(s, n))
  /\ UNCHANGED <<src, window>>

(* Mutant of ReadFills: it goes on although nothing came. *)
ReadFillsOn ==
  /\ call.op = "read" /\ Available = 0 /\ ~Bypasses /\ s' \in Fills(s)
  /\ UNCHANGED <<src, call, probe, window>>

ReadFills ==
  /\ call.op = "read" /\ Available = 0 /\ ~Bypasses
  /\ \E w \in Fills(s) :
       IF w.buf_ptr = Len(w.buffer) THEN ReadEnds(w, call.got)
       ELSE s' = w /\ UNCHANGED <<call, probe>>
  /\ UNCHANGED <<src, window>>

(* avio_read_partial: an empty buffer is started again. *)
ReadPartial(size) ==
  /\ call.op = "idle" /\ ~probe.on
  /\ \E w \in IF Available > 0 THEN {s} ELSE Fills([s EXCEPT !.buffer = <<>>, !.buf_ptr = 0]) :
       LET n == Smaller(Len(w.buffer) - w.buf_ptr, size) IN
       s' \in IF n = 0 /\ ~w.error THEN Feofs(w) ELSE {[w EXCEPT !.buf_ptr = @ + n]}
  /\ window' = [Within(Tell(s) + size) EXCEPT !.latest = FALSE]
  /\ UNCHANGED <<src, call, probe>>

(* Asking for the end after a seek forward that failed skips what is left  *)
(* in the buffer.                                                          *)
Feof ==
  /\ call.op = "idle" /\ ~probe.on /\ s' \in Feofs(s)
  /\ window' = IF s.eof_reached /\ Available > 0 THEN NoWindow ELSE Within(Tell(s) + 1)
  /\ UNCHANGED <<src, call, probe>>

(* avio_flush *)
Flush ==
  /\ call.op = "idle" /\ ~probe.on
  /\ s' = [s EXCEPT !.buffer = <<>>, !.buf_ptr = 0]
  /\ window' = NoWindow
  /\ UNCHANGED <<src, call, probe>>

-----------------------------------------------------------------------------
(* avio_seek to an absolute position.                                      *)
Seek(offset) ==
  /\ call.op = "idle" /\ ~probe.on
  /\ call' = [Idle EXCEPT !.op = "seek", !.offset = offset]
  /\ window' = Within(offset)
  /\ UNCHANGED <<src, s, probe>>

Start == s.pos - Len(s.buffer)     \* the position of the start of the buffer
Offset1 == call.offset - Start
Buffered == ~src.direct \/ src.seek = "null"

InBuffer == Buffered /\ Offset1 \in 0 .. Len(s.buffer)
Forward == /\ ~InBuffer /\ Buffered /\ Offset1 >= 0
           /\ ~src.seekable \/ Offset1 <= Len(s.buffer) + ShortSeek
Backward == /\ Offset1 < 0 /\ -Offset1 < Len(s.buffer) \div 2
            /\ src.seek # "null" /\ call.offset > 0

SeekEnds(w) == s' = [w EXCEPT !.eof_reached = FALSE] /\ call' = Idle
SeekFails == call' = Failed /\ UNCHANGED s

(* The source moved to pos, with an empty buffer. *)
SourceAt(pos) ==
  [s EXCEPT !.buffer = <<>>, !.buf_ptr = 0, !.pos = pos, !.at = pos, !.eof_reached = FALSE]

SeekInBuffer ==
  /\ call.op = "seek" /\ InBuffer /\ SeekEnds([s EXCEPT !.buf_ptr = Offset1])
  /\ UNCHANGED <<src, probe, window>>

SeekForward ==
  /\ call.op = "seek" /\ Forward /\ call' = [call EXCEPT !.op = "skip"]
  /\ UNCHANGED <<src, s, probe, window>>

SkipFills ==
  /\ call.op = "skip" /\ s.pos < call.offset /\ ~s.eof_reached /\ s' \in Fills(s)
  /\ UNCHANGED <<src, call, probe, window>>

(* Mutant of SkipDone: a position behind the end is taken for reached. *)
SkipDoneAnyway ==
  /\ call.op = "skip" /\ (s.pos >= call.offset \/ s.eof_reached)
  /\ SeekEnds([s EXCEPT !.buf_ptr = Len(s.buffer) - Larger(0, s.pos - call.offset)])
  /\ UNCHANGED <<src, probe, window>>

SkipDone ==
  /\ call.op = "skip" /\ (s.pos >= call.offset \/ s.eof_reached)
  /\ IF s.eof_reached THEN SeekFails
     ELSE SeekEnds([s EXCEPT !.buf_ptr = Len(s.buffer) - (s.pos - call.offset)])
  /\ UNCHANGED <<src, probe, window>>

(* Reading starts again half a buffer earlier, and so does the seek. *)
BackTo == Start - Smaller(Len(s.buffer) \div 2, Start)

SeekBackward ==
  /\ call.op = "seek" /\ Backward
  /\ \/ SeekFails
     \/ src.seek = "works" /\ s' \in Fills(SourceAt(BackTo)) /\ UNCHANGED call
  /\ UNCHANGED <<src, probe, window>>

SeekSource ==
  /\ call.op = "seek" /\ ~InBuffer /\ ~Forward /\ ~Backward
  /\ \/ SeekFails
     \/ src.seek = "works" /\ SeekEnds(SourceAt(call.offset))
  /\ UNCHANGED <<src, probe, window>>

-----------------------------------------------------------------------------
(* ffio_ensure_seekback, which returns at once when the source is          *)
(* seekable.  The history keeps either promise.                            *)
Needed(n) == n + s.buf_ptr + IO_BUFFER_SIZE

EnsureSeekback(n) ==
  /\ call.op = "idle" /\ ~probe.on /\ ~src.seekable
  /\ s' = IF Needed(n) < Len(s.buffer) THEN s ELSE [s EXCEPT !.buffer_size = Needed(n)]
  /\ window' \in {[from |-> Tell(s), to |-> Tell(s) + n, latest |-> TRUE],
                  [window EXCEPT !.latest = FALSE]}
  /\ UNCHANGED <<src, call, probe>>

(* ffio_realloc_buf keeps what has not been read yet. *)
ReallocBuf(n) ==
  /\ call.op = "idle" /\ ~probe.on /\ n > s.buffer_size
  /\ s' = [s EXCEPT !.buffer = SubSeq(@, s.buf_ptr + 1, Len(@)), !.buf_ptr = 0,
                    !.buffer_size = n, !.orig_buffer_size = n]
  /\ window' = NoWindow
  /\ UNCHANGED <<src, call, probe>>

(* ffio_rewind_with_probe_data: what was read to probe comes first, then   *)
(* what is left in the buffer, with which it must touch or overlap.        *)
Rewind ==
  LET overlap == Len(probe.buf) - Start
      rest == SubSeq(s.buffer, overlap + 1, Len(s.buffer))
      buffer == probe.buf \o rest
  IN
  /\ call.op = "idle" /\ probe.on
  /\ s' = IF Start > Len(probe.buf) THEN s
          ELSE [s EXCEPT !.buffer = buffer, !.buf_ptr = 0, !.pos = Len(buffer),
                         !.buffer_size = Larger(@, Len(buffer)), !.eof_reached = FALSE]
  /\ probe' = NoProbe
  /\ UNCHANGED <<src, call, window>>

User == \/ \E n \in 1 .. MaxRead : Read(n) \/ ReadPartial(n)
        \/ \E offset \in 0 .. Size + 1 : Seek(offset)
        \/ \E n \in 1 .. MaxWindow : EnsureSeekback(n)
        \/ \E n \in BufferSizes : ReallocBuf(n)
        \/ Feof \/ Flush \/ Rewind

Calling == call.op # "idle"
Continue == \/ ReadCopies \/ ReadBypasses \/ ReadFills
            \/ SeekInBuffer \/ SeekForward \/ SkipFills \/ SkipDone
            \/ SeekBackward \/ SeekSource

Next == User \/ Continue
-----------------------------------------------------------------------------
(* What a read returns are the bytes at the position it began at, in       *)
(* whatever way they came, and the position is behind them.                *)
BytesAtPosition ==
  call.op = "read" => /\ call.got = [k \in 1 .. Len(call.got) |-> call.from + k - 1]
                      /\ Tell(s) = call.from + Len(call.got)

(* What is buffered are the bytes before the position of the source. *)
BufferMatches ==
  s.buffer = [k \in 1 .. Len(s.buffer) |-> s.at - Len(s.buffer) + k - 1] /\ s.pos = s.at

(* The data stays in the buffer, whose size every call of                  *)
(* ffio_ensure_seekback sets anew and a refill may set back.               *)
BufferFits == s.buf_ptr <= Len(s.buffer) /\ Len(s.buffer) <= s.buffer_size

(* A seek that succeeds leads where it was to lead. *)
SeekLands == call.op \in {"seek", "skip"} /\ call' = Idle => Tell(s)' = call.offset

(* As ffio_ensure_seekback promised last, the position at which it was     *)
(* called can be sought in the buffer as long as reads stay in the window, *)
(* unless the context is direct and reads bypass the buffer.               *)
InWindow == call.op = "idle" /\ Tell(s) \in window.from .. window.to
SeekbackAvailable == InWindow /\ window.latest /\ ~src.direct => Start <= window.from

(* Refuted by the code, where the context is direct:                       *)
(* libavformat/avio_internal.h:101 says "when reading sequentially up to   *)
(* buf_size, seeking within the current pos and pos+buf_size is possible". *)
SeekbackPossible ==
  InWindow /\ window.latest /\ Tell(s) > window.from =>
    \/ Buffered /\ Start <= window.from
    \/ src.seek = "works"
=============================================================================
