------------------------------- MODULE AvFifo -------------------------------
(***************************************************************************)
(* libavutil/fifo.c: a ring of bytes.  wptr and rptr are offsets into the  *)
(* buffer; wndx and rndx count the bytes ever written and read and wrap    *)
(* around, here at Modulus (2^32 in the code).                             *)
(***************************************************************************)
EXTENDS Integers, Sequences, FiniteSets

CONSTANT Modulus

Smaller(x, y) == IF x < y THEN x ELSE y

Junk == <<0, 0>>   \* what a byte of a new buffer is

(* av_fifo_alloc *)
Alloc(size) == [buffer |-> [k \in 0 .. size - 1 |-> Junk], wptr |-> 0, rptr |-> 0,
                wndx |-> 0, rndx |-> 0]

Cells(f) == Cardinality(DOMAIN f.buffer)    \* f->end - f->buffer

FifoSize(f) == (f.wndx - f.rndx) % Modulus
FifoSpace(f) == Cells(f) - FifoSize(f)

(* av_fifo_generic_write; its caller knows that there is room. *)
FifoWrite(f, src) ==
  LET n == Len(src)
      end == Cells(f)
  IN [f EXCEPT !.buffer = [k \in DOMAIN f.buffer |->
                             LET j == (k - f.wptr) % end IN
                             IF j < n THEN src[j + 1] ELSE f.buffer[k]],
               !.wptr = (@ + n) % end, !.wndx = (@ + n) % Modulus]

(* av_fifo_generic_peek of n bytes. *)
FifoPeek(f, n) == [j \in 1 .. n |-> f.buffer[(f.rptr + j - 1) % Cells(f)]]

(* av_fifo_drain; av_fifo_generic_read is a peek followed by a drain. *)
FifoDrain(f, n) ==
  LET at == f.rptr + n
  IN [f EXCEPT !.rptr = IF at >= Cells(f) THEN at - Cells(f) ELSE at,
               !.rndx = (@ + n) % Modulus]

Content(f) == FifoPeek(f, FifoSize(f))

(* av_fifo_realloc2: a larger buffer that starts with what was stored. *)
Realloc(f, new_size) ==
  IF Cells(f) >= new_size THEN f
  ELSE LET len == FifoSize(f)
       IN [buffer |-> [k \in 0 .. new_size - 1 |-> IF k < len THEN FifoPeek(f, len)[k + 1] ELSE Junk],
           wptr |-> len, rptr |-> 0, wndx |-> len, rndx |-> 0]

(* av_fifo_grow: room for size more bytes, in unsigned arithmetic, where   *)
(* both the sum and the doubled size may wrap around; memory may run out.  *)
Grow(f, size) ==
  LET need == (size + FifoSize(f)) % Modulus
      double == (2 * Cells(f)) % Modulus
      same(ret) == [ret |-> ret, fifo |-> f]
  IN IF need < size THEN {same("EINVAL")}
     ELSE IF Cells(f) >= need THEN {same("ok")}
     ELSE {same("ENOMEM"),
           [ret |-> "ok", fifo |-> Realloc(f, IF need > double THEN need ELSE double)]}
=============================================================================
