--------------------------- MODULE AsyncProtocol ---------------------------
(***************************************************************************)
(* libavformat/async.c: a background thread reads ahead from an inner      *)
(* protocol into a ring buffer, from which the user of the protocol (Main) *)
(* reads.  The ring keeps some bytes that were read for seeks backwards;   *)
(* other seeks are requests that the background thread carries out.        *)
(*                                                                         *)
(* One step is a critical section of c->mutex up to its end or its wait,   *)
(* or an access to the ring without it.  Each side wakes the other with    *)
(* pthread_cond_signal on a condition variable that has only one waiter.   *)
(* A byte is named by its position in the inner resource.  The calls are   *)
(* made, and the next-state relation is completed, in UrlProtocols.        *)
(***************************************************************************)
EXTENDS Integers, Sequences

CONSTANTS
  Size,       \* length of the inner resource
  Capacity,   \* BUFFER_CAPACITY
  ReadBack,   \* READ_BACK_CAPACITY
  Short,      \* SHORT_SEEK_THRESHOLD
  Chunk       \* most bytes read ahead at once (4096)

ASSUME AsyncAssumption == /\ Size \in Nat /\ Short \in Nat /\ ReadBack \in Nat
                          /\ {Capacity, Chunk} \subseteq Nat \ {0}

VARIABLES
  ring,        \* data: the bytes in ring->fifo; read_pos
  c,           \* the other shared fields of Context
  m,           \* Main: pc, arguments and locals of its call
  b,           \* pc of async_buffer_task
  inner_pos,   \* position of the inner protocol
  sized,       \* is the size of the inner resource known (logical_size > 0)?
  interrupted, \* what the user's interrupt callback answers
  waitMain,    \* Main waits on cond_wakeup_main
  waitBack     \* the background thread waits on cond_wakeup_background

vars == <<ring, c, m, b, inner_pos, sized, interrupted, waitMain, waitBack>>

Stored == Len(ring.data)                     \* av_fifo_size
RingSize == Stored - ring.read_pos           \* ring_size
RingSpace == Capacity + ReadBack - Stored    \* ring_space

EmptyRing == [data |-> <<>>, read_pos |-> 0]
Least(x, y) == IF x < y THEN x ELSE y
Result(kind, first, count) == [kind |-> kind, first |-> first, count |-> count]

(* A freshly opened protocol, its thread started. *)
Init ==
  /\ ring = EmptyRing
  /\ c = [seek_request |-> FALSE, seek_pos |-> 0, seek_completed |-> FALSE, seek_ret |-> 0,
          io_error |-> "none", io_eof_reached |-> FALSE, logical_pos |-> 0,
          abort_request |-> FALSE]
  /\ m = [pc |-> "user", call |-> "none", target |-> 0, to_read |-> 0, seen |-> 0,
          result |-> Result("none", 0, 0)]
  /\ b = "top" /\ inner_pos = 0 /\ sized \in BOOLEAN
  /\ interrupted = FALSE /\ waitMain = FALSE /\ waitBack = FALSE

(* async_check_interrupt; whoever finds it true sets abort_request.        *)
Interrupted == c.abort_request \/ interrupted

-----------------------------------------------------------------------------
(* Main.  Every return of a call, in any step. *)
Returned(result) == [m EXCEPT !.pc = "user", !.call = "none", !.target = 0, !.to_read = 0,
                              !.seen = 0, !.result = result]
Error == Result("error", 0, 0)

(* async_read. *)
ReadCall(size) ==
  /\ m.pc = "user"
  /\ m' = [m EXCEPT !.pc = "reading", !.call = "read", !.to_read = size]
  /\ UNCHANGED <<ring, c, b, inner_pos, sized, interrupted, waitMain, waitBack>>

(* async_seek to position to: it looks at the ring without the mutex ...   *)
SeekCall(to) ==
  /\ m.pc = "user"
  /\ m' = [m EXCEPT !.pc = "seek", !.call = "seek", !.target = to, !.seen = RingSize]
  /\ UNCHANGED <<ring, c, b, inner_pos, sized, interrupted, waitMain, waitBack>>

(* ... and then decides: it is there; it skips or steps back in the ring,  *)
(* which is still without the mutex; or it asks the background thread.     *)
Near == /\ m.target >= c.logical_pos - ring.read_pos
        /\ m.target < c.logical_pos + m.seen + Short

SeekHere ==
  /\ m.pc = "seek" /\ m.target = c.logical_pos
  /\ m' = Returned(Result("at", c.logical_pos, 0))
  /\ UNCHANGED <<ring, c, b, inner_pos, sized, interrupted, waitMain, waitBack>>

SeekForward ==
  /\ m.pc = "seek" /\ Near /\ m.target > c.logical_pos
  /\ m' = [m EXCEPT !.pc = "reading", !.to_read = m.target - c.logical_pos]
  /\ UNCHANGED <<ring, c, b, inner_pos, sized, interrupted, waitMain, waitBack>>

SeekBackward ==
  /\ m.pc = "seek" /\ Near /\ m.target < c.logical_pos
  /\ ring' = [ring EXCEPT !.read_pos = @ + m.target - c.logical_pos]   \* ring_drain
  /\ c' = [c EXCEPT !.logical_pos = m.target]
  /\ m' = Returned(Result("at", m.target, 0))
  /\ UNCHANGED <<b, inner_pos, sized, interrupted, waitMain, waitBack>>

SeekRefused ==
  /\ m.pc = "seek" /\ ~Near /\ m.target # c.logical_pos
  /\ ~sized \/ m.target > Size
  /\ m' = Returned(Error)
  /\ UNCHANGED <<ring, c, b, inner_pos, sized, interrupted, waitMain, waitBack>>

SeekRequest ==
  /\ m.pc = "seek" /\ ~Near /\ m.target # c.logical_pos
  /\ sized /\ m.target <= Size
  /\ c' = [c EXCEPT !.seek_request = TRUE, !.seek_pos = m.target, !.seek_completed = FALSE,
                    !.seek_ret = 0, !.abort_request = Interrupted]
  /\ IF Interrupted
     THEN m' = Returned(Error) /\ UNCHANGED <<waitMain, waitBack>>
     ELSE /\ m' = [m EXCEPT !.pc = "seeking"]
          /\ waitMain' = TRUE /\ waitBack' = FALSE
  /\ UNCHANGED <<ring, b, inner_pos, sized, interrupted>>

(* Mutant of SeekAnswered: the answer is taken for a position unseen. *)
SeekAnsweredAnyway ==
  /\ m.pc = "seeking" /\ ~waitMain
  /\ c' = [c EXCEPT !.logical_pos = c.seek_pos]
  /\ m' = Returned(Result("at", c.seek_pos, 0))
  /\ UNCHANGED <<ring, b, inner_pos, sized, interrupted, waitMain, waitBack>>

(* Woken up with the answer, by an interrupt, or for no reason. *)
SeekAnswered ==
  /\ m.pc = "seeking" /\ ~waitMain
  /\ \/ /\ Interrupted
        /\ c' = [c EXCEPT !.abort_request = TRUE]
        /\ m' = Returned(Error)
        /\ UNCHANGED <<waitMain, waitBack>>
     \/ /\ ~Interrupted /\ c.seek_completed
        /\ IF c.seek_ret >= 0
           THEN /\ c' = [c EXCEPT !.logical_pos = c.seek_ret]
                /\ m' = Returned(Result("at", c.seek_ret, 0))
           ELSE m' = Returned(Error) /\ UNCHANGED c
        /\ UNCHANGED <<waitMain, waitBack>>
     \/ /\ ~Interrupted /\ ~c.seek_completed
        /\ waitMain' = TRUE /\ waitBack' = FALSE
        /\ UNCHANGED <<c, m>>
  /\ UNCHANGED <<ring, b, inner_pos, sized, interrupted>>

(* ring_generic_read of n bytes keeps at most ReadBack bytes behind.       *)
Consumed(n) ==
  LET at == ring.read_pos + n
      drop == IF at > ReadBack THEN at - ReadBack ELSE 0
  IN [data |-> SubSeq(ring.data, drop + 1, Stored), read_pos |-> at - drop]

(* async_read_internal: a critical section up to the return or the wait;   *)
(* either way the background thread is signalled first.  A seek forwards   *)
(* reads on until it has skipped everything, and does not look at the      *)
(* result.                                                                 *)
Complete == m.call = "seek"
ReadEnds(result) ==
  m' = Returned(IF Complete THEN Result("at", c'.logical_pos, 0) ELSE result)

ReadInterrupted ==
  /\ m.pc = "reading" /\ ~waitMain /\ Interrupted
  /\ c' = [c EXCEPT !.abort_request = TRUE]
  /\ ReadEnds(Error)
  /\ waitBack' = FALSE
  /\ UNCHANGED <<ring, b, inner_pos, sized, interrupted, waitMain>>

ReadData ==
  LET n == Least(m.to_read, RingSize) IN
  /\ m.pc = "reading" /\ ~waitMain /\ ~Interrupted /\ n > 0
  /\ ring' = Consumed(n)
  /\ c' = [c EXCEPT !.logical_pos = @ + n]
  /\ IF n = m.to_read \/ ~Complete
     THEN ReadEnds(Result("data", ring.data[ring.read_pos + 1], n)) /\ UNCHANGED waitMain
     ELSE m' = [m EXCEPT !.to_read = @ - n] /\ waitMain' = TRUE
  /\ waitBack' = FALSE
  /\ UNCHANGED <<b, inner_pos, sized, interrupted>>

ReadEnd ==
  /\ m.pc = "reading" /\ ~waitMain /\ ~Interrupted /\ RingSize = 0 /\ c.io_eof_reached
  /\ ReadEnds(IF c.io_error \in {"none", "EOF"} THEN Result("EOF", 0, 0) ELSE Error)
  /\ waitBack' = FALSE
  /\ UNCHANGED <<ring, c, b, inner_pos, sized, interrupted, waitMain>>

ReadWait ==
  /\ m.pc = "reading" /\ ~waitMain /\ ~Interrupted /\ RingSize = 0 /\ ~c.io_eof_reached
  /\ waitMain' = TRUE /\ waitBack' = FALSE
  /\ UNCHANGED <<ring, c, m, b, inner_pos, sized, interrupted>>

(* async_close, up to and after pthread_join. *)
CloseCall ==
  /\ m.pc = "user"
  /\ c' = [c EXCEPT !.abort_request = TRUE]
  /\ m' = [m EXCEPT !.pc = "join", !.call = "close"]
  /\ waitBack' = FALSE
  /\ UNCHANGED <<ring, b, inner_pos, sized, interrupted, waitMain>>

Join ==
  /\ m.pc = "join" /\ b = "dead"
  /\ m' = [m EXCEPT !.pc = "closed"]
  /\ UNCHANGED <<ring, c, b, inner_pos, sized, interrupted, waitMain, waitBack>>

-----------------------------------------------------------------------------
(* The background thread: one critical section at the top of its loop. *)
Aborts ==
  /\ b = "top" /\ ~waitBack /\ Interrupted
  /\ c' = [c EXCEPT !.io_eof_reached = TRUE, !.io_error = "EXIT", !.abort_request = TRUE]
  /\ b' = "dead" /\ waitMain' = FALSE
  /\ UNCHANGED <<ring, m, inner_pos, sized, interrupted, waitBack>>

(* Mutant of SeekDone: the end of file is not forgotten. *)
SeekDoneAtEnd ==
  [c EXCEPT !.io_error = "none", !.seek_completed = TRUE,
            !.seek_ret = c.seek_pos, !.seek_request = FALSE]

SeekDone ==
  [c EXCEPT !.io_eof_reached = FALSE, !.io_error = "none", !.seek_completed = TRUE,
            !.seek_ret = c.seek_pos, !.seek_request = FALSE]

ServeSeek ==
  /\ b = "top" /\ ~waitBack /\ ~Interrupted /\ c.seek_request
  /\ \/ /\ inner_pos' = c.seek_pos /\ ring' = EmptyRing /\ c' = SeekDone
     \/ /\ c' = [c EXCEPT !.seek_completed = TRUE, !.seek_ret = -1, !.seek_request = FALSE]
        /\ UNCHANGED <<inner_pos, ring>>
  /\ waitMain' = FALSE
  /\ UNCHANGED <<m, b, sized, interrupted, waitBack>>

Rest ==
  /\ b = "top" /\ ~waitBack /\ ~Interrupted /\ ~c.seek_request
  /\ c.io_eof_reached \/ RingSpace <= 0
  /\ waitMain' = FALSE /\ waitBack' = TRUE
  /\ UNCHANGED <<ring, c, m, b, inner_pos, sized, interrupted>>

Work ==
  /\ b = "top" /\ ~waitBack /\ ~Interrupted /\ ~c.seek_request
  /\ ~c.io_eof_reached /\ RingSpace > 0
  /\ b' = "fill"
  /\ UNCHANGED <<ring, c, m, inner_pos, sized, interrupted, waitMain, waitBack>>

(* ring_generic_write, without the mutex: av_fifo_generic_write asks the   *)
(* inner protocol until it has enough or the protocol fails, and then      *)
(* publishes what it got.  The room may have grown since it was measured.  *)
Fill ==
  /\ b = "fill"
  /\ \E n \in 0 .. Least(Least(Chunk, RingSpace), Size - inner_pos) :
       /\ ring' = [ring EXCEPT !.data = @ \o [i \in 1 .. n |-> inner_pos + i - 1]]
       /\ inner_pos' = inner_pos + n
       /\ \/ n > 0 /\ b' = "filled"
          \/ n = 0 /\ inner_pos = Size /\ b' = "EOF"
          \/ n = 0 /\ b' = "EIO"
  /\ UNCHANGED <<c, m, sized, interrupted, waitMain, waitBack>>

(* An interrupted inner protocol gives up with AVERROR_EXIT. *)
FillInterrupted ==
  /\ b = "fill" /\ Interrupted
  /\ c' = [c EXCEPT !.abort_request = TRUE]
  /\ b' = "EXIT"
  /\ UNCHANGED <<ring, m, inner_pos, sized, interrupted, waitMain, waitBack>>

Filled ==
  /\ b \in {"filled", "EOF", "EIO", "EXIT"}
  /\ c' = IF b = "filled" THEN c ELSE [c EXCEPT !.io_eof_reached = TRUE, !.io_error = b]
  /\ b' = "top" /\ waitMain' = FALSE
  /\ UNCHANGED <<ring, m, inner_pos, sized, interrupted, waitBack>>

-----------------------------------------------------------------------------
Interrupt ==
  /\ ~interrupted /\ interrupted' = TRUE
  /\ UNCHANGED <<ring, c, m, b, inner_pos, sized, waitMain, waitBack>>

SpuriousWake ==
  /\ \/ waitMain /\ waitMain' = FALSE /\ UNCHANGED waitBack
     \/ waitBack /\ waitBack' = FALSE /\ UNCHANGED waitMain
  /\ UNCHANGED <<ring, c, m, b, inner_pos, sized, interrupted>>

MainStep == \/ SeekHere \/ SeekForward \/ SeekBackward \/ SeekRefused \/ SeekRequest
            \/ SeekAnswered \/ ReadInterrupted \/ ReadData \/ ReadEnd \/ ReadWait \/ Join

BackStep == Aborts \/ ServeSeek \/ Rest \/ Work \/ Fill \/ FillInterrupted \/ Filled

-----------------------------------------------------------------------------
(* The ring holds consecutive bytes up to where the inner protocol is, and *)
(* the next one to be read is that of the logical position: also while the *)
(* background thread appends, after seeks back into what was read, after   *)
(* failed seeks, and with Main still to take the answer of a seek.  Once   *)
(* the protocol is aborted no read looks at the ring any more.             *)
Answer == m.pc = "seeking" /\ c.seek_completed /\ c.seek_ret >= 0
DataAtPosition ==
  /\ \A i \in 1 .. Stored : ring.data[i] = inner_pos - Stored + i - 1
  /\ ring.read_pos \in 0 .. Least(ReadBack, Stored) /\ RingSpace >= 0
  /\ ~c.abort_request =>
       inner_pos - RingSize = IF Answer THEN c.seek_ret ELSE c.logical_pos

(* The protocol is the byte stream of the inner resource: reads deliver    *)
(* the bytes at the position, the end of file comes at the end only, and   *)
(* seeks go where they were asked to, or stop short at the end or an error.*)
Stream == INSTANCE ByteStream WITH pos <- c.logical_pos, call <- m.call,
                                   target <- m.target, result <- m.result
ImplementsStream == Stream!Spec
=============================================================================
