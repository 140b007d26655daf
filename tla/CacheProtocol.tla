--------------------------- MODULE CacheProtocol ---------------------------
(***************************************************************************)
(* libavformat/cache.c: a protocol that keeps what it reads from another   *)
(* one in a temporary file, so that a stream can be read again, or be      *)
(* sought in although the inner protocol cannot seek.                      *)
(*                                                                         *)
(* A byte is named by its position in the resource.  A call of the user is *)
(* one step, except that a seek which reads ahead takes a step for each    *)
(* read.  The file and the inner protocol may fail at every use.           *)
(***************************************************************************)
EXTENDS Integers, Sequences

CONSTANTS Size,     \* length of the resource
          MaxRead,  \* bound: bytes asked for by a read
          MaxFile,  \* bound: room on the disk
          Prots     \* inner protocols, and values of read_ahead_limit

(* seekable: it has a url_seek; sized: it can answer AVSEEK_SIZE. *)
Prot == [seekable : BOOLEAN, sized : BOOLEAN, read_ahead_limit : Int]

VARIABLES
  prot,   \* the inner protocol and read_ahead_limit
  c,      \* Context, the contents and the offset of the file, and the
          \* position of the inner protocol (inner)
  call    \* the seek that reads ahead, if any

vars == <<prot, c, call>>

NoCall == [whence |-> "none", pos |-> 0]

Larger(x, y) == IF x > y THEN x ELSE y
Smaller(x, y) == IF x < y THEN x ELSE y

Init ==
  /\ prot \in Prots
  /\ c = [root |-> {}, logical_pos |-> 0, cache_pos |-> 0, inner_pos |-> 0, end |-> 0,
          is_true_eof |-> FALSE, file |-> <<>>, offset |-> 0, inner |-> 0]
  /\ call = NoCall

-----------------------------------------------------------------------------
(* A seek of the inner protocol, if it does not fail; behind the end too, *)
(* as in a file.                                                          *)
InnerSeeks(w, pos) == IF prot.seekable /\ pos >= 0 THEN {[w EXCEPT !.inner = pos]} ELSE {}

-----------------------------------------------------------------------------
(* av_tree_find: the entry at the position, or else the last before it. *)
Found(w) ==
  {e \in w.root : /\ e.logical_pos <= w.logical_pos
                  /\ \A d \in w.root : d.logical_pos <= w.logical_pos =>
                                         d.logical_pos <= e.logical_pos}

EndOf(e) == e.logical_pos + e.size

(* Mutant of Continues: only the logical positions are compared. *)
ContinuesLogically(w, e, pos) == EndOf(e) = w.logical_pos

Continues(w, e, pos) == EndOf(e) = w.logical_pos /\ e.physical_pos + e.size = pos

(* add_entry: the contexts that it may leave.  The file cannot be moved,   *)
(* or not be written, or k of the bytes are written at its end; these      *)
(* lengthen an entry or make one, unless there is no memory for it or one  *)
(* begins there already.                                                   *)
Entered(w, pos, k) ==
  LET e == [logical_pos |-> w.logical_pos, physical_pos |-> pos, size |-> k]
      last == {f \in Found(w) : Continues(w, f, pos)}
  IN IF last # {} THEN {[w EXCEPT !.root = (@ \ last) \cup {[f EXCEPT !.size = @ + k] : f \in last}]}
     ELSE {w} \cup IF \E f \in Found(w) : f.logical_pos = w.logical_pos THEN {}
                   ELSE {[w EXCEPT !.root = @ \cup {e}]}

AddEntry(w, bytes) ==
  LET pos == Len(w.file) IN
  {w, [w EXCEPT !.cache_pos = pos, !.offset = pos]} \cup
  UNION {Entered([w EXCEPT !.file = @ \o SubSeq(bytes, 1, k),
                           !.cache_pos = pos + k, !.offset = pos + k], pos, k) :
           k \in 1 .. Smaller(Len(bytes), MaxFile - pos)}

-----------------------------------------------------------------------------
(* cache_read: the answers it may give, each with the context it leaves,   *)
(* and whether it came from anywhere else than logical_pos (strayed).      *)
Answer(w, kind, bytes) == [c |-> w, kind |-> kind, bytes |-> bytes, strayed |-> FALSE]

Cached(w) == {e \in Found(w) : w.logical_pos < EndOf(e)}

(* The file is moved unless it is believed to be at the place. *)
Positioned(w, at) == [w EXCEPT !.cache_pos = at,
                               !.offset = IF w.cache_pos = at THEN @ ELSE at]
AtEntry(w, e) == Positioned(w, e.physical_pos + w.logical_pos - e.logical_pos)

Advanced(w, n) == [w EXCEPT !.cache_pos = @ + n, !.offset = @ + n, !.logical_pos = @ + n]

Hits(w, most) ==
  UNION {LET f == AtEntry(w, e) IN
         {Answer(Advanced(f, n), "data", SubSeq(f.file, f.offset + 1, f.offset + n)) :
            n \in 1 .. Smaller(most, EndOf(e) - w.logical_pos)} : e \in Cached(w)}

(* The file cannot be moved or read. *)
Faults(w) == {w} \cup {AtEntry(w, e) : e \in Cached(w)}

(* The inner protocol is moved unless it is believed to be at the place. *)
InnerPositioned(w) ==
  IF w.logical_pos = w.inner_pos THEN {w}
  ELSE {[v EXCEPT !.inner_pos = v.inner] : v \in InnerSeeks(w, w.logical_pos)}

(* n bytes from the inner protocol go into the file and to the user. *)
FromInner(w, n) ==
  LET bytes == [k \in 1 .. n |-> w.inner + k - 1]
      read == [w EXCEPT !.inner = @ + n, !.inner_pos = @ + n]
  IN {[Answer([v EXCEPT !.logical_pos = @ + n, !.end = Larger(@, v.logical_pos + n)],
              "data", bytes) EXCEPT !.strayed = w.inner # w.logical_pos] :
        v \in AddEntry(read, bytes)}

Misses(w, most) ==
  {Answer(w, "error", <<>>)} \cup
  UNION {{Answer(v, "error", <<>>)} \cup
         (IF v.inner >= Size THEN {Answer([v EXCEPT !.is_true_eof = TRUE], "EOF", <<>>)}
          ELSE UNION {FromInner(v, n) : n \in 1 .. Smaller(most, Size - v.inner)}) :
           v \in InnerPositioned(w)}

CacheReads(most) ==
  Hits(c, most) \cup UNION {Misses(w, most) :
                              w \in IF Cached(c) = {} THEN {c} ELSE Faults(c)}

(* Bound: nothing is of interest after a read that strays. *)
Followed(most) == {a \in CacheReads(most) : ~a.strayed}

Read ==
  /\ call = NoCall /\ \E a \in Followed(MaxRead) : c' = a.c
  /\ UNCHANGED <<prot, call>>

-----------------------------------------------------------------------------
(* cache_seek, with whence SEEK_SET or SEEK_END, from context w.           *)
SeekEnds(w) == c' = w /\ call' = NoCall
Moved(w, pos) == SeekEnds([w EXCEPT !.logical_pos = pos])

ReadsAhead(w, whence, pos) ==
  \/ whence = "set" /\ pos >= w.logical_pos
       /\ (prot.read_ahead_limit >= pos - w.logical_pos \/ prot.read_ahead_limit < 0)
  \/ whence = "end" /\ pos <= 0 /\ prot.read_ahead_limit < 0

SeekMiss(w, whence, pos) ==
  LET target == IF whence = "end" THEN Size + pos ELSE pos IN
  \/ \E v \in InnerSeeks(w, target) : Moved([v EXCEPT !.end = Larger(@, target)], target)
  \/ IF ReadsAhead(w, whence, pos)
     THEN c' = w /\ call' = [whence |-> whence, pos |-> pos]
     ELSE SeekEnds(w)

SeekSet(w, pos) ==
  IF pos \in 0 .. w.end - 1 THEN Moved(w, pos) ELSE SeekMiss(w, "set", pos)

Seek(whence, pos) ==
  /\ call = NoCall
  /\ CASE whence = "set" -> SeekSet(c, pos)
       [] whence = "end" /\ c.is_true_eof -> SeekSet(c, pos + c.end)
       [] whence = "end" /\ ~c.is_true_eof -> SeekMiss(c, "end", pos)
  /\ UNCHANGED prot

(* The loop that reads ahead.  The end of file resolves a SEEK_END.        *)
ReadAheadDone ==
  /\ call.whence = "set" /\ c.logical_pos >= call.pos
  /\ SeekEnds(c) /\ UNCHANGED prot

ReadAhead ==
  /\ call.whence = "end" \/ (call.whence = "set" /\ c.logical_pos < call.pos)
  /\ LET most == IF call.whence = "set" THEN Smaller(MaxRead, call.pos - c.logical_pos)
                 ELSE MaxRead
     IN \E a \in Followed(most) :
          CASE a.kind = "data" -> c' = a.c /\ UNCHANGED call
            [] a.kind = "EOF" /\ call.whence = "end" -> SeekSet(a.c, call.pos + a.c.end)
            [] OTHER -> SeekEnds(a.c)
  /\ UNCHANGED prot

(* AVSEEK_SIZE: the sizes it may return, each with the context it leaves.  *)
(* An inner protocol that gives no answer is moved to its last byte and,   *)
(* if possible, back.                                                      *)
Told(w, pos) == [c |-> [w EXCEPT !.end = Larger(@, pos), !.is_true_eof = @ \/ pos > 0],
                 size |-> pos]
MaybeBack(w) == {w} \cup InnerSeeks(w, w.inner_pos)

Sizes == (IF prot.sized THEN {Told(c, Size)} ELSE {})
         \cup {Told(w, Size - 1) : w \in UNION {MaybeBack(v) : v \in InnerSeeks(c, Size - 1)}}
         \cup {Told(w, -1) : w \in MaybeBack(c)}

SeekSize == call = NoCall /\ (\E a \in Sizes : c' = a.c) /\ UNCHANGED <<prot, call>>

Call == \/ Read
        \/ \E pos \in -1 .. Size + 1 : Seek("set", pos)
        \/ \E pos \in -1 .. 0 : Seek("end", pos)
        \/ SeekSize

Calling == call # NoCall
Continue == ReadAhead \/ ReadAheadDone

Next == Call \/ Continue
-----------------------------------------------------------------------------
(* Whatever the next read returns are the bytes at the position, whatever *)
(* went wrong with the file before, and however its entries have been      *)
(* lengthened, overlap, or lack bytes, as long as all that came from the   *)
(* inner protocol was read at the position for which it was asked.         *)
AtPosition(a) == a.bytes = [k \in 1 .. Len(a.bytes) |-> c.logical_pos + k - 1]
DataAtPosition == \A a \in Followed(MaxRead) : AtPosition(a)

(* What the assertions of the code rely on: no position, and nothing that  *)
(* is cached, lies behind the end up to which seeks are taken to succeed.  *)
EndCovers == c.logical_pos <= c.end /\ \A e \in c.root : EndOf(e) <= c.end

(* Refuted by the code: libavformat/url.h:206 says of a seek that it       *)
(* changes "the position that will be used by the next read".              *)
ReadsAtPosition == \A a \in CacheReads(MaxRead) : AtPosition(a)

(* Refuted by the code: libavformat/url.h:213 says of AVSEEK_SIZE that it  *)
(* returns "the filesize of the requested resource".                       *)
SizeReturned == \A a \in Sizes : a.size \in {-1, Size}
=============================================================================
